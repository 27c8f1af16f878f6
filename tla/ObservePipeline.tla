-------------------------- MODULE ObservePipeline --------------------------
(***************************************************************************)
(* The observe-mode runtime: hook handlers of the host's threads put       *)
(* events into the event queue (EventQueue), the queue's writer inserts    *)
(* them into the SQLite store and its on_drop callback adds to the store's *)
(* loss ledger, and reset_runtime closes the queue, then the store.  A     *)
(* statement of the store is one step: it runs under the store's RLock and *)
(* in autocommit mode, so it happens or it raises.                         *)
(*                                                                         *)
(* The rest of the host process is not here: the writer is a daemon thread *)
(* and nothing closes the runtime at exit, so an exit or a crash may come  *)
(* after every step and leaves exactly the tables of that state.           *)
(***************************************************************************)
EXTENDS EventQueue

CONSTANT MaxFaults \* bound: how many statements fail although the store is open

VARIABLES
    rows,       \* the events with a row in the table events
    losses,     \* SUM(count) over the table event_losses
    storeOpen,  \* whether the store's connection is open
    faults,     \* how many statements have failed on the open store
    ending,     \* the threads in a handler that flushes after its event
    unmade,     \* history: the events make_event raised for
    recorded,   \* history: the events record_loss was told of, and stored
    unrecorded  \* history: how many on_drop calls raised

storeVars == <<rows, losses, storeOpen, faults, recorded, unrecorded>>
hookVars  == <<ending, unmade>>
allVars   == <<vars, storeVars, hookVars>>

PipelineInit ==
    /\ Init
    /\ rows = {}
    /\ losses = 0
    /\ storeOpen = TRUE
    /\ faults = 0
    /\ ending = {}
    /\ unmade = {}
    /\ recorded = {}
    /\ unrecorded = 0

-----------------------------------------------------------------------------
(* Handlers: on_session_end and on_session_finalize flush after the put,   *)
(* the others do not.  A handler of a thread runs to its end.              *)

InHandler(p) == p \notin ending /\ ending' \in {ending, ending \cup {p}}

HookCall(p, e) ==
    /\ PutCall(p, e) /\ e \notin unmade
    /\ InHandler(p)
    /\ UNCHANGED <<unmade, storeVars>>

(* hash_canonical rejects the payload (NaN, too deep, too large, a cycle): *)
(* _emit swallows it.                                                      *)
EmitFails(p, e) ==
    /\ pc[p] = "idle" /\ fate[e] = "new" /\ e \notin unmade
    /\ unmade' = unmade \cup {e}
    /\ InHandler(p)
    /\ UNCHANGED <<vars, storeVars>>

EndFlush(p) ==
    /\ p \in ending
    /\ FlushCall(p)
    /\ ending' = ending \ {p}
    /\ UNCHANGED <<unmade, storeVars>>

-----------------------------------------------------------------------------
(* A statement raises when the connection is closed, or by a storage       *)
(* fault: the database locked beyond busy_timeout, a full disk, a payload  *)
(* json.dumps cannot write.                                                *)
StatementRaises ==
    \/ ~storeOpen /\ UNCHANGED faults
    \/ storeOpen /\ faults < MaxFaults /\ faults' = faults + 1

Insert ==
    /\ WriteOk /\ storeOpen
    /\ rows' = rows \cup {data[Worker]}
    /\ UNCHANGED <<losses, storeOpen, faults, recorded, unrecorded, hookVars>>

InsertRaisesCommitted ==
    /\ WriteRaises /\ StatementRaises
    /\ rows' = rows \cup {data[Worker]}
    /\ UNCHANGED <<losses, storeOpen, recorded, unrecorded, hookVars>>

InsertRaises ==
    /\ WriteRaises /\ StatementRaises
    /\ UNCHANGED <<rows, losses, storeOpen, recorded, unrecorded, hookVars>>

OnDropCall(t) == IF t = Worker THEN FailReport ELSE PutReport(t)

RecordLossTwice(t) ==
    /\ OnDropCall(t) /\ storeOpen
    /\ losses' = losses + 2
    /\ recorded' = recorded \cup {victim[t]}
    /\ UNCHANGED <<rows, storeOpen, faults, unrecorded, hookVars>>

RecordLoss(t) ==
    /\ OnDropCall(t) /\ storeOpen
    /\ losses' = losses + 1
    /\ recorded' = recorded \cup {victim[t]}
    /\ UNCHANGED <<rows, storeOpen, faults, unrecorded, hookVars>>

(* put() and _run() swallow the exception of the callback.                 *)
RecordRaises(t) ==
    /\ OnDropCall(t) /\ StatementRaises
    /\ unrecorded' = unrecorded + 1
    /\ UNCHANGED <<rows, losses, storeOpen, recorded, hookVars>>

-----------------------------------------------------------------------------
(* runtime.close(), under reset_runtime: queue.close() as in EventQueue,   *)
(* then store.close(), whether or not the writer thread has ended.         *)
StoreCloseFirst(c) ==
    /\ pc[c] = "close" /\ storeOpen
    /\ storeOpen' = FALSE
    /\ UNCHANGED <<vars, rows, losses, faults, recorded, unrecorded, hookVars>>

StoreClose(c) ==
    /\ pc[c] \in {"joined", "abandoned", "returned"} /\ storeOpen
    /\ storeOpen' = FALSE
    /\ UNCHANGED <<vars, rows, losses, faults, recorded, unrecorded, hookVars>>

QueueStep ==
    /\ \/ \E p \in Producers : PutInside(p) \/ FlushStep(p)
       \/ \E c \in Closers : CloseCall(c) \/ CloseStep(c)
       \/ WorkerInside
    /\ UNCHANGED <<storeVars, hookVars>>

(* Every event of the instance has been emitted and the runtime is gone.   *)
Terminated ==
    /\ \A p \in Producers : pc[p] = "idle"
    /\ \A c \in Closers : pc[c] \in {"joined", "abandoned", "returned"}
    /\ pc[Worker] = "done"
    /\ UNCHANGED allVars

PipelineNext ==
    \/ \E p \in Producers, e \in Events : HookCall(p, e) \/ EmitFails(p, e)
    \/ \E p \in Producers : EndFlush(p)
    \/ QueueStep
    \/ Insert \/ InsertRaises
    \/ \E t \in Producers \cup {Worker} : RecordLoss(t) \/ RecordRaises(t)
    \/ \E c \in Closers : StoreClose(c)
    \/ Terminated

PipelineSpec == PipelineInit /\ [][PipelineNext]_allVars

-----------------------------------------------------------------------------
Put == {e \in Events : fate[e] # "new"}
Quiet == (\A p \in Producers : pc[p] = "idle") /\ unfinished = 0

(* What on_session_end relies on: once its flush sees no unfinished task,  *)
(* every event the queue had taken is a row of the table events, or its    *)
(* insert failed and on_drop has been told of it, or it was evicted.  Of an*)
(* event that was evicted, or found no room, on_drop may be told later: the*)
(* flush does not wait for a producer that is about to call it.            *)
FlushDurable ==
    unfinished = 0 =>
        \A e \in Events :
            \/ e \in rows
            \/ fate[e] \in {"new", "offered", "refused", "overflow", "evicted"}
            \/ fate[e] = "failed" /\ reports[e] >= 1

(* No event is both a row of the table events and an entry of the loss     *)
(* ledger.  drop_oldest breaks it: see queue_phantom_loss.                 *)
NotBothStoredAndLost == rows \cap recorded = {}

(* The ledger, the swallowed callbacks and the callbacks still to come add *)
(* up to the queue's loss counter.                                         *)
LedgerExact == losses + unrecorded + Cardinality(Owing) = dropped

(* When the queue is drained and no hook is running, the two tables        *)
(* account for every event that was put on the open queue ("durable loss   *)
(* counters", queue.py:1), except for losses the store refused to record.  *)
TablesBalance ==
    Quiet => Cardinality(Put) =
                 Cardinality(rows) + losses + unrecorded
                   + Cardinality({e \in Events : fate[e] = "refused"})

(* A crash at any moment costs at most the queue, the event being written  *)
(* and the losses on their way to the ledger, of all events put() had      *)
(* answered True for.                                                      *)
CrashLossBounded ==
    Cardinality({e \in Events : result[e] = "true" /\ e \notin rows \cup recorded})
      <= MaxSize + 1 + Cardinality(Owing) + unrecorded

(* A reset whose queue.close() ended cleanly costs no accepted event: only *)
(* storage faults make an insert fail.                                     *)
CleanResetStoresAll ==
    (~stop /\ \A c \in Closers : pc[c] # "abandoned") =>
        Cardinality({e \in Events : fate[e] = "failed"}) <= faults

(* The events of the table are those the writer finished, for the proofs.  *)
RowsInv == rows = {e \in Events : fate[e] = "stored"}

=============================================================================
