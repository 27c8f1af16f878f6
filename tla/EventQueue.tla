----------------------------- MODULE EventQueue -----------------------------
(***************************************************************************)
(* BoundedEventQueue of events/queue.py: the hook threads of the host      *)
(* agent put telemetry events into a bounded queue.Queue, one daemon       *)
(* thread writes them to the store, and close() hands that thread a        *)
(* sentinel.  Every step is one step a thread can be preempted after: one  *)
(* operation of queue.Queue, taking or releasing self._lock, and the load  *)
(* and the store of `self._dropped += 1`.                                  *)
(*                                                                         *)
(* A wait with a timeout (put and get of queue.Queue, flush, join) is      *)
(* stuttering followed by its outcome; queue.Queue raises Full or Empty    *)
(* only after it has re-read the queue, so both keep their guard.          *)
(*                                                                         *)
(* An operator that stands before a definition and that nothing uses, such *)
(* as PutEnterUnchecked, is that definition with a plausible bug in it: the*)
(* mutations of PROJECT.json.                                              *)
(***************************************************************************)
EXTENDS Integers, Sequences, FiniteSets, FiniteSetsExt

CONSTANTS
    Producers,   \* the host threads that run hooks
    Closers,     \* the threads that call close()
    Worker,      \* the thread "bilevel-event-writer"
    Events,      \* the events that are ever put, each at most once
    MaxSize,     \* the argument maxsize
    Policy,      \* the argument overflow_policy
    OnDrop,      \* whether an on_drop callback was given
    DropReads,   \* whether that callback reads the property `dropped`
    Sentinel,    \* _SENTINEL
    None         \* Python's None; also "nobody" as the holder of the lock

Threads == Producers \cup Closers \cup {Worker}

ASSUME SizeAssumption == MaxSize \in Nat /\ MaxSize >= 1
ASSUME PolicyAssumption ==
    Policy \in {"drop_newest", "drop_oldest", "block", "bounded_block"}
ASSUME OnDropAssumption == OnDrop \in BOOLEAN /\ DropReads \in BOOLEAN
ASSUME DistinctAssumption ==
    /\ Producers \cap Closers = {}
    /\ Worker \notin Producers \cup Closers
    /\ None \notin Threads \cup Events
    /\ Sentinel \notin Events \cup {None}

VARIABLES
    lock,        \* the thread that holds self._lock, or None
    q,           \* self._q.queue
    unfinished,  \* self._q.unfinished_tasks
    dropped,     \* self._dropped
    closed,      \* self._closed
    stop,        \* self._stop
    pc,          \* where each thread is
    reg,         \* the value loaded by a `self._dropped += 1` under way
    data,        \* the locals `data` of put() and `item` of _run()
    reason,      \* the local `reason` of put(), "writer_error" in _run()
    victim,      \* the local `drop_data` of put(): what on_drop will be told of
    fate,        \* history: what really became of each event, whatever was
                 \*   said of it
    reports,     \* history: how often on_drop was called for each event
    result       \* history: what put() returned for each event

queueVars == <<q, unfinished>>
flagVars  == <<closed, stop>>
lossVars  == <<dropped, reg>>
dropVars  == <<reason, victim>>
histVars  == <<fate, reports, result>>
exceptPc  == <<lock, queueVars, flagVars, lossVars, data, dropVars, histVars>>
vars == <<lock, q, unfinished, dropped, closed, stop, pc, reg, data, reason,
          victim, fate, reports, result>>

Reasons == {"none", "drop_newest", "drop_oldest", "drop_newest_after_oldest",
            "full", "writer_error"}

(* An event is "queued" from the put that takes it until its fate is       *)
(* settled; "refused" is a put on a closed queue, "overflow" a put that    *)
(* found the queue full and kept its event out of it.                      *)
Lost     == {"overflow", "failed", "evicted"}
Fates    == {"new", "offered", "refused", "queued", "stored"} \cup Lost

ProducerLabels == {"idle", "put", "try", "count", "bump", "evict", "evicted",
                   "reput", "callback", "flush"}
CloserLabels == {"running", "close", "sentinel", "flush", "join",
                 "joined", "abandoned", "returned"}
WorkerLabels == {"get", "stopcheck", "exit", "write", "fail", "count", "bump",
                 "callback", "taskdone", "done"}

HasRoom == Len(q) < MaxSize

(* queue.Queue.put, get and task_done once their wait is over.             *)
Enqueue(x) == q' = Append(q, x) /\ unfinished' = unfinished + 1
TaskDone == unfinished' = unfinished - 1

Goto(t, label) == pc' = [pc EXCEPT ![t] = label]

Acquire(t) == lock = None /\ lock' = t
Release == lock' = None
Settle(e, f) == fate' = [fate EXCEPT ![e] = f]
Blame(t, why, e) ==
    /\ reason' = [reason EXCEPT ![t] = why]
    /\ victim' = [victim EXCEPT ![t] = e]

Init ==
    /\ lock = None
    /\ q = <<>>
    /\ unfinished = 0
    /\ dropped = 0
    /\ closed = FALSE
    /\ stop = FALSE
    /\ pc = [t \in Threads |-> CASE t \in Producers -> "idle"
                                 [] t \in Closers -> "running"
                                 [] OTHER -> "get"]
    /\ reg = [t \in Threads |-> 0]
    /\ data = [t \in Threads |-> None]
    /\ reason = [t \in Threads |-> "none"]
    /\ victim = [t \in Threads |-> None]
    /\ fate = [e \in Events |-> "new"]
    /\ reports = [e \in Events |-> 0]
    /\ result = [e \in Events |-> "none"]

-----------------------------------------------------------------------------
(* put(): the fast path and its overflow.                                  *)

PutCall(p, e) ==
    /\ pc[p] = "idle" /\ fate[e] = "new"
    /\ Goto(p, "put")
    /\ data' = [data EXCEPT ![p] = e]
    /\ Settle(e, "offered")
    /\ UNCHANGED <<lock, queueVars, flagVars, lossVars, dropVars, reports, result>>

(* The last step of a put: its result is handed to the caller.             *)
Return(p, r) ==
    /\ Goto(p, "idle")
    /\ result' = [result EXCEPT ![data[p]] = r]
    /\ data' = [data EXCEPT ![p] = None]

PutRefused(p) ==
    /\ pc[p] = "put" /\ lock = None /\ closed
    /\ Settle(data[p], "refused")
    /\ Return(p, "false")
    /\ UNCHANGED <<lock, queueVars, flagVars, lossVars, dropVars, reports>>

PutEnterUnchecked(p) ==
    /\ pc[p] = "put"
    /\ Acquire(p)
    /\ Goto(p, "try")
    /\ UNCHANGED <<queueVars, flagVars, lossVars, data, dropVars, histVars>>

PutEnter(p) ==
    /\ pc[p] = "put" /\ ~closed
    /\ Acquire(p)
    /\ Goto(p, "try")
    /\ UNCHANGED <<queueVars, flagVars, lossVars, data, dropVars, histVars>>

TryAcceptedUnbounded(p) ==
    /\ pc[p] = "try"
    /\ Enqueue(data[p])
    /\ Settle(data[p], "queued")
    /\ Release
    /\ Return(p, "true")
    /\ UNCHANGED <<flagVars, lossVars, dropVars, reports>>

TryAccepted(p) ==
    /\ pc[p] = "try" /\ HasRoom
    /\ Enqueue(data[p])
    /\ Settle(data[p], "queued")
    /\ Release
    /\ Return(p, "true")
    /\ UNCHANGED <<flagVars, lossVars, dropVars, reports>>

TryFull(p) ==
    /\ pc[p] = "try" /\ ~HasRoom
    /\ Goto(p, "count")
    /\ UNCHANGED exceptPc

-----------------------------------------------------------------------------
(* `self._dropped += 1` is a load, then a store, in a producer (line 68)   *)
(* and in the worker (line 127).                                           *)

CountLoad(t) ==
    /\ pc[t] = "count"
    /\ reg' = [reg EXCEPT ![t] = dropped]
    /\ Goto(t, "bump")
    /\ UNCHANGED <<lock, queueVars, flagVars, dropped, data, dropVars, histVars>>

CountStore(t) ==
    /\ pc[t] = "bump"
    /\ dropped' = reg[t] + 1
    /\ reg' = [reg EXCEPT ![t] = 0]

CountSilentlyTrue(p) ==
    /\ CountStore(p) /\ ~OnDrop
    /\ Release
    /\ Settle(data[p], "overflow")
    /\ Return(p, "true")
    /\ UNCHANGED <<queueVars, flagVars, dropVars, reports>>

(* No on_drop: the whole reaction to Full, whatever the policy.            *)
CountSilently(p) ==
    /\ CountStore(p) /\ ~OnDrop
    /\ Release
    /\ Settle(data[p], "overflow")
    /\ Return(p, "false")
    /\ UNCHANGED <<queueVars, flagVars, dropVars, reports>>

(* drop_newest, block and bounded_block: the new event is the victim.      *)
CountNewest(p) ==
    /\ CountStore(p) /\ OnDrop /\ Policy # "drop_oldest"
    /\ Release
    /\ Settle(data[p], "overflow")
    /\ Blame(p, IF Policy = "drop_newest" THEN "drop_newest" ELSE "full", data[p])
    /\ Goto(p, "callback")
    /\ UNCHANGED <<queueVars, flagVars, data, reports, result>>

CountOldest(p) ==
    /\ CountStore(p) /\ OnDrop /\ Policy = "drop_oldest"
    /\ Blame(p, "drop_oldest", data[p])
    /\ Goto(p, "evict")
    /\ UNCHANGED <<lock, queueVars, flagVars, data, histVars>>

(* With an on_drop callback: by the policy (lines 72-93).                  *)
CountReported(p) ==
    IF Policy = "drop_oldest" THEN CountOldest(p) ELSE CountNewest(p)

(* drop_oldest, still under the lock: get_nowait, task_done, put_nowait.   *)
(* The worker takes no lock to get, so it may have emptied the queue.      *)
EvictUnlocked(p) ==
    /\ pc[p] = "evict" /\ q # <<>>
    /\ q' = Tail(q)
    /\ victim' = [victim EXCEPT ![p] = Head(q)]
    /\ Settle(Head(q), "evicted")
    /\ Goto(p, "evicted")
    /\ Release
    /\ UNCHANGED <<unfinished, flagVars, lossVars, data, reason, reports, result>>

EvictWithoutGet(p) ==
    /\ pc[p] = "evict" /\ q # <<>>
    /\ victim' = [victim EXCEPT ![p] = Head(q)]
    /\ Settle(Head(q), "evicted")
    /\ Goto(p, "evicted")
    /\ UNCHANGED <<lock, queueVars, flagVars, lossVars, data, reason, reports, result>>

Evict(p) ==
    /\ pc[p] = "evict" /\ q # <<>>
    /\ q' = Tail(q)
    /\ victim' = [victim EXCEPT ![p] = Head(q)]
    /\ Settle(Head(q), "evicted")
    /\ Goto(p, "evicted")
    /\ UNCHANGED <<lock, unfinished, flagVars, lossVars, data, reason, reports, result>>

EvictTaskDone(p) ==
    /\ pc[p] = "evicted"
    /\ TaskDone
    /\ Goto(p, "reput")
    /\ UNCHANGED <<lock, q, flagVars, lossVars, data, dropVars, histVars>>

EvictEmpty(p) ==
    /\ pc[p] = "evict" /\ q = <<>>
    /\ reason' = [reason EXCEPT ![p] = "drop_newest_after_oldest"]
    /\ Goto(p, "reput")
    /\ UNCHANGED <<lock, queueVars, flagVars, lossVars, data, victim, histVars>>

RePutHoldingLock(p) ==
    /\ pc[p] = "reput" /\ HasRoom
    /\ Enqueue(data[p])
    /\ Settle(data[p], "queued")
    /\ Goto(p, "callback")
    /\ UNCHANGED <<lock, flagVars, lossVars, data, dropVars, reports, result>>

RePut(p) ==
    /\ pc[p] = "reput"
    /\ IF HasRoom
       THEN /\ Enqueue(data[p])
            /\ Settle(data[p], "queued")
            /\ UNCHANGED dropVars
       ELSE /\ Blame(p, "drop_newest_after_oldest", data[p])
            /\ Settle(data[p], "overflow")
            /\ UNCHANGED queueVars
    /\ Release
    /\ Goto(p, "callback")
    /\ UNCHANGED <<flagVars, lossVars, data, reports, result>>

(* on_drop runs outside the lock; a callback that reads the property       *)
(* `dropped` takes it.  It may raise: both ways put() goes on.             *)
Report(t) ==
    /\ pc[t] = "callback" /\ (DropReads => lock = None)
    /\ reports' = [reports EXCEPT ![victim[t]] = @ + 1]
    /\ Blame(t, "none", None)

PutReport(p) ==
    /\ Report(p)
    /\ Return(p, IF Policy = "drop_oldest" /\ reason[p] = "drop_oldest"
                 THEN "true" ELSE "false")
    /\ UNCHANGED <<lock, queueVars, flagVars, lossVars, fate>>

-----------------------------------------------------------------------------
(* _run(): the writer thread.                                              *)

GetMarksDone ==
    /\ pc[Worker] = "get" /\ q # <<>>
    /\ q' = Tail(q)
    /\ TaskDone
    /\ data' = [data EXCEPT ![Worker] = Head(q)]
    /\ Goto(Worker, IF Head(q) = Sentinel THEN "exit" ELSE "write")
    /\ UNCHANGED <<lock, flagVars, lossVars, dropVars, histVars>>

GetNewest ==
    /\ pc[Worker] = "get" /\ q # <<>>
    /\ q' = SubSeq(q, 1, Len(q) - 1)
    /\ data' = [data EXCEPT ![Worker] = q[Len(q)]]
    /\ Goto(Worker, IF q[Len(q)] = Sentinel THEN "exit" ELSE "write")
    /\ UNCHANGED <<lock, unfinished, flagVars, lossVars, dropVars, histVars>>

Get ==
    /\ pc[Worker] = "get" /\ q # <<>>
    /\ q' = Tail(q)
    /\ data' = [data EXCEPT ![Worker] = Head(q)]
    /\ Goto(Worker, IF Head(q) = Sentinel THEN "exit" ELSE "write")
    /\ UNCHANGED <<lock, unfinished, flagVars, lossVars, dropVars, histVars>>

GetEmpty ==
    /\ pc[Worker] = "get" /\ q = <<>>
    /\ Goto(Worker, "stopcheck")
    /\ UNCHANGED exceptPc

StopCheck ==
    /\ pc[Worker] = "stopcheck"
    /\ Goto(Worker, IF stop THEN "done" ELSE "get")
    /\ UNCHANGED exceptPc

SentinelDone ==
    /\ pc[Worker] = "exit"
    /\ TaskDone
    /\ data' = [data EXCEPT ![Worker] = None]
    /\ Goto(Worker, "done")
    /\ UNCHANGED <<lock, q, flagVars, lossVars, dropVars, histVars>>

WriteOk ==
    /\ pc[Worker] = "write"
    /\ Settle(data[Worker], "stored")
    /\ Goto(Worker, "taskdone")
    /\ UNCHANGED <<lock, queueVars, flagVars, lossVars, data, dropVars, reports, result>>

WriteRaisesUncaught ==
    /\ pc[Worker] = "write"
    /\ Settle(data[Worker], "failed")
    /\ Goto(Worker, "done")
    /\ UNCHANGED <<lock, queueVars, flagVars, lossVars, data, dropVars, reports, result>>

WriteRaises ==
    /\ pc[Worker] = "write"
    /\ Settle(data[Worker], "failed")
    /\ Goto(Worker, "fail")
    /\ UNCHANGED <<lock, queueVars, flagVars, lossVars, data, dropVars, reports, result>>

FailEnter ==
    /\ pc[Worker] = "fail"
    /\ Acquire(Worker)
    /\ Goto(Worker, "count")
    /\ UNCHANGED <<queueVars, flagVars, lossVars, data, dropVars, histVars>>

FailCountUnreported ==
    /\ CountStore(Worker)
    /\ Release
    /\ Goto(Worker, "taskdone")
    /\ UNCHANGED <<queueVars, flagVars, data, dropVars, histVars>>

FailCount ==
    /\ CountStore(Worker)
    /\ Release
    /\ IF OnDrop
       THEN Blame(Worker, "writer_error", data[Worker]) /\ Goto(Worker, "callback")
       ELSE Goto(Worker, "taskdone") /\ UNCHANGED dropVars
    /\ UNCHANGED <<queueVars, flagVars, data, histVars>>

FailReport ==
    /\ Report(Worker)
    /\ Goto(Worker, "taskdone")
    /\ UNCHANGED <<lock, queueVars, flagVars, lossVars, data, fate, result>>

ItemDone ==
    /\ pc[Worker] = "taskdone"
    /\ TaskDone
    /\ data' = [data EXCEPT ![Worker] = None]
    /\ Goto(Worker, "get")
    /\ UNCHANGED <<lock, q, flagVars, lossVars, dropVars, histVars>>

-----------------------------------------------------------------------------
(* flush() and close().                                                    *)

FlushCall(p) ==
    /\ pc[p] = "idle"
    /\ Goto(p, "flush")
    /\ UNCHANGED exceptPc

AfterFlush(t) == IF t \in Closers THEN "join" ELSE "idle"

FlushDrained(t) ==
    /\ pc[t] = "flush" /\ unfinished = 0
    /\ Goto(t, AfterFlush(t))
    /\ UNCHANGED exceptPc

FlushTimeout(t) ==
    /\ pc[t] = "flush" /\ unfinished > 0
    /\ Goto(t, AfterFlush(t))
    /\ UNCHANGED exceptPc

CloseCall(c) ==
    /\ pc[c] = "running"
    /\ Goto(c, "close")
    /\ UNCHANGED exceptPc

CloseAgain(c) ==
    /\ pc[c] = "close" /\ lock = None /\ closed
    /\ Goto(c, "returned")
    /\ UNCHANGED exceptPc

CloseEnter(c) ==
    /\ pc[c] = "close" /\ ~closed
    /\ Acquire(c)
    /\ closed' = TRUE
    /\ Goto(c, "sentinel")
    /\ UNCHANGED <<queueVars, stop, lossVars, data, dropVars, histVars>>

SentinelPut(c) ==
    /\ pc[c] = "sentinel" /\ HasRoom
    /\ Enqueue(Sentinel)
    /\ Release
    /\ Goto(c, "flush")
    /\ UNCHANGED <<flagVars, lossVars, data, dropVars, histVars>>

SentinelFullWithoutStop(c) ==
    /\ pc[c] = "sentinel" /\ ~HasRoom
    /\ Release
    /\ Goto(c, "flush")
    /\ UNCHANGED <<queueVars, flagVars, lossVars, data, dropVars, histVars>>

SentinelFull(c) ==
    /\ pc[c] = "sentinel" /\ ~HasRoom
    /\ stop' = TRUE
    /\ Release
    /\ Goto(c, "flush")
    /\ UNCHANGED <<queueVars, closed, lossVars, data, dropVars, histVars>>

JoinExited(c) ==
    /\ pc[c] = "join" /\ pc[Worker] = "done"
    /\ Goto(c, "joined")
    /\ UNCHANGED exceptPc

JoinTimeout(c) ==
    /\ pc[c] = "join" /\ pc[Worker] # "done"
    /\ Goto(c, "abandoned")
    /\ UNCHANGED exceptPc

-----------------------------------------------------------------------------
(* A thread's steps inside a call it has made.  Calling put, flush or      *)
(* close is the host's choice and is never forced.                         *)
PutInside(p) ==
    \/ PutRefused(p) \/ PutEnter(p) \/ TryAccepted(p) \/ TryFull(p)
    \/ CountLoad(p) \/ CountSilently(p) \/ CountReported(p)
    \/ Evict(p) \/ EvictTaskDone(p) \/ EvictEmpty(p) \/ RePut(p)

PutStep(p) == PutInside(p) \/ PutReport(p)

FlushStep(t) == FlushDrained(t) \/ FlushTimeout(t)

CloseStep(c) ==
    \/ CloseAgain(c) \/ CloseEnter(c) \/ SentinelPut(c) \/ SentinelFull(c)
    \/ FlushStep(c) \/ JoinExited(c) \/ JoinTimeout(c)

WorkerInside ==
    \/ Get \/ GetEmpty \/ StopCheck \/ SentinelDone
    \/ FailEnter \/ CountLoad(Worker) \/ FailCount \/ ItemDone

WorkerStep == WorkerInside \/ WriteOk \/ WriteRaises \/ FailReport

Next ==
    \/ \E p \in Producers : \/ \E e \in Events : PutCall(p, e)
                            \/ PutStep(p)
                            \/ FlushCall(p)
                            \/ FlushStep(p)
    \/ \E c \in Closers : CloseCall(c) \/ CloseStep(c)
    \/ WorkerStep

Spec == Init /\ [][Next]_vars

(* Every wait in the code is bounded by a timeout and the host schedules   *)
(* every thread, so no thread rests for ever inside a call.                *)
Fairness ==
    /\ \A p \in Producers : WF_vars(PutStep(p)) /\ WF_vars(FlushStep(p))
    /\ \A c \in Closers : WF_vars(CloseStep(c))
    /\ WF_vars(WorkerStep)

FairSpec == Spec /\ Fairness

-----------------------------------------------------------------------------
(* Derived state.                                                          *)

Critical == {"try", "count", "bump", "evict", "evicted", "reput", "sentinel"}
WorkerHolds == pc[Worker] \in {"exit", "write", "fail", "count", "bump",
                               "callback", "taskdone"}
Settled(e) == fate[e] # "queued" /\ (fate[e] = "failed" /\ OnDrop => reports[e] >= 1)

(* Increments that were made and whose on_drop call is still to come.      *)
Owing == {t \in Threads : pc[t] \in {"evict", "evicted", "reput", "callback"}}

TypeOK ==
    /\ lock \in Threads \cup {None}
    /\ q \in Seq(Events \cup {Sentinel})
    /\ unfinished \in Nat
    /\ dropped \in Nat
    /\ closed \in BOOLEAN
    /\ stop \in BOOLEAN
    /\ pc \in [Threads -> ProducerLabels \cup CloserLabels \cup WorkerLabels]
    /\ \A p \in Producers : pc[p] \in ProducerLabels
    /\ \A c \in Closers : pc[c] \in CloserLabels
    /\ pc[Worker] \in WorkerLabels
    /\ reg \in [Threads -> Nat]
    /\ data \in [Threads -> Events \cup {Sentinel, None}]
    /\ \A p \in Producers : pc[p] \notin {"idle", "flush"} => data[p] \in Events
    /\ WorkerHolds /\ pc[Worker] # "exit" => data[Worker] \in Events
    /\ reason \in [Threads -> Reasons]
    /\ victim \in [Threads -> Events \cup {Sentinel, None}]
    /\ fate \in [Events -> Fates]
    /\ reports \in [Events -> Nat]
    /\ result \in [Events -> {"none", "true", "false"}]

(* Only the thread that holds self._lock is in a critical section, so two  *)
(* increments of the loss counter never overlap and no on_drop callback    *)
(* ("outside the lock", queue.py:95) runs while its thread holds the lock. *)
LockDiscipline == \A t \in Threads : pc[t] \in Critical <=> lock = t

(* queue.Queue's count of unfinished tasks, which flush() polls, is the    *)
(* queue's length plus the item in the worker's hand plus the victim a     *)
(* drop_oldest put has removed and not yet marked done.                    *)
UnfinishedExact ==
    unfinished = Len(q) + (IF WorkerHolds THEN 1 ELSE 0)
                        + (IF lock # None /\ pc[lock] = "evicted" THEN 1 ELSE 0)

(* A flush that saw no unfinished task returns with every event accepted   *)
(* so far written, or lost and reported: nothing is in the worker's hand.  *)
DrainedMeansSettled == unfinished = 0 => \A e \in Events : Settled(e)

(* The sentinel of close() is the last item the queue ever holds, and no   *)
(* drop_oldest put evicts it.                                              *)
SentinelLast ==
    /\ \A i \in 1..Len(q) : q[i] = Sentinel => i = Len(q) /\ closed
    /\ pc[Worker] = "exit" => q = <<>>
    /\ \A t \in Threads : victim[t] # Sentinel

(* A close() whose sentinel was accepted and whose join saw the thread end *)
(* returns with every accepted event settled, whatever raced with it.      *)
CleanCloseDrains ==
    \A c \in Closers : pc[c] = "joined" /\ ~stop
                         => q = <<>> /\ \A e \in Events : Settled(e)

(* "if we successfully put the new element, we return True"                *)
(* (queue.py:102), and False otherwise.                                    *)
ResultTruthful ==
    \A e \in Events :
        result[e] # "none" =>
            (result[e] = "true" <=> fate[e] \notin {"refused", "overflow"})

(* drop_oldest makes room for the new event (test_queue.py:97): after the  *)
(* eviction nobody else can have filled the queue.                         *)
NewestKept ==
    Policy = "drop_oldest" => \A e \in Events : fate[e] # "overflow"

(* Once the writer thread has ended no accepted event is left behind       *)
(* unwritten and uncounted ("durable loss counters", queue.py:1).          *)
NothingAbandoned == pc[Worker] = "done" => \A e \in Events : fate[e] # "queued"

(* A put that found the queue full and said so although it kept its event: *)
(* under drop_oldest it answers True of every other event it keeps.        *)
PhantomLoss(e) == Policy = "drop_oldest" /\ result[e] = "false"

(* on_drop tells the truth, whether the worker gets before or after the    *)
(* call: an event it was told of is in no queue and no table, then or      *)
(* later.  The one exception is the event of a drop_oldest put that found  *)
(* the queue full, and then empty (lines 82-86): it is kept, reported, and *)
(* its put answers False.                                                  *)
LossReportsTrue ==
    \A e \in Events : reports[e] > 0 => fate[e] \in Lost \/ PhantomLoss(e)

-----------------------------------------------------------------------------
(* Every put() returns: no callback, lock or full queue holds a hook for   *)
(* ever ("non-blocking", queue.py:1).                                      *)
PutReturns == \A p \in Producers : pc[p] = "put" ~> pc[p] = "idle"

(* Every close() returns, also a second one and one on a full queue.       *)
CloseReturns ==
    \A c \in Closers : pc[c] = "close" ~> pc[c] \in {"joined", "abandoned", "returned"}

(* After a close() the writer thread ends: by the sentinel, or by the stop *)
(* flag when the sentinel found no room.                                   *)
WorkerEnds == closed ~> pc[Worker] = "done"

(* Every accepted event is written or lost, unless close() gave up on a    *)
(* full queue.                                                             *)
AcceptedSettles ==
    \A e \in Events : fate[e] = "queued" ~> (fate[e] # "queued" \/ stop)

-----------------------------------------------------------------------------
(* What makes the properties above inductive.                              *)

(* The sentinel has been offered to the queue, or the stop flag set.       *)
CloseCommitted == closed /\ \A c \in Closers : pc[c] # "sentinel"

(* A put past the closed check excludes close() until it is over, so when  *)
(* the sentinel goes in nobody is left who could follow it.                *)
SentinelInv ==
    /\ \A p \in Producers : pc[p] \in Critical => ~closed
    /\ \A c \in Closers : pc[c] = "sentinel" => closed
    /\ \A i \in 1..Len(q) : q[i] = Sentinel => i = Len(q) /\ CloseCommitted
    /\ pc[Worker] = "exit" => q = <<>> /\ CloseCommitted
    /\ \A t \in Threads : victim[t] # Sentinel

(* Where an unsettled event is.                                            *)
SettledInv ==
    /\ \A e \in Events : fate[e] = "queued" =>
         \/ \E i \in 1..Len(q) : q[i] = e
         \/ pc[Worker] = "write" /\ data[Worker] = e
    /\ \A e \in Events : fate[e] = "failed" /\ OnDrop =>
         \/ reports[e] >= 1
         \/ pc[Worker] \in {"fail", "count", "bump", "callback"} /\ data[Worker] = e
    /\ pc[Worker] = "callback" => victim[Worker] = data[Worker]

(* The thread ends on the sentinel only when nothing can come after it.    *)
EndInv ==
    /\ pc[Worker] = "done" => stop \/ (q = <<>> /\ CloseCommitted)
    /\ \A c \in Closers : pc[c] = "joined" => pc[Worker] = "done"

(* After the eviction of a drop_oldest put the queue has room.             *)
RoomInv ==
    /\ Len(q) <= MaxSize
    /\ \A p \in Producers : pc[p] \in {"evicted", "reput"} => HasRoom

(* An unsettled event is in exactly one place: in the hands of one put, in  *)
(* the queue, once, or in the hands of the worker.                         *)
Carrying == {"put", "try", "count", "bump", "evict", "evicted", "reput"}

CustodyInv ==
    /\ \A p \in Producers : pc[p] \in Carrying => fate[data[p]] = "offered"
    /\ \A o, p \in Producers :
         pc[o] \in Carrying /\ pc[p] \in Carrying /\ data[o] = data[p] => o = p
    /\ \A i \in 1..Len(q) : q[i] # Sentinel => fate[q[i]] = "queued"
    /\ \A i, j \in 1..Len(q) : q[i] = q[j] => i = j
    /\ pc[Worker] = "write" => /\ fate[data[Worker]] = "queued"
                               /\ \A i \in 1..Len(q) : q[i] # data[Worker]

IndInv ==
    /\ TypeOK /\ LockDiscipline /\ UnfinishedExact
    /\ SentinelInv /\ SettledInv /\ EndInv /\ RoomInv

-----------------------------------------------------------------------------
(* The queue implements a lossy FIFO (module LossyFifo).                   *)

InHand == IF pc[Worker] = "write" THEN <<data[Worker]>> ELSE <<>>

(* What is queued but for the sentinel, which is the last item if any.     *)
Accepted ==
    IF q # <<>> /\ q[Len(q)] = Sentinel THEN SubSeq(q, 1, Len(q) - 1) ELSE q

Pending == InHand \o Accepted

Abstract == INSTANCE LossyFifo WITH
    Capacity  <- MaxSize + 1,
    open      <- ~closed,
    pending   <- Pending,
    delivered <- {e \in Events : fate[e] = "stored"},
    lost      <- {e \in Events : fate[e] \in Lost \cup {"refused"}}

(* Events leave the queue in the order they were accepted, each once; what *)
(* was refused, evicted or failed to be written is not written later, and  *)
(* nothing is accepted after close().  This is about what becomes of an    *)
(* event, not about what put() or on_drop say of it: that is               *)
(* ResultTruthful and LossReportsTrue.                                     *)
ImplementsLossyFifo == Abstract!Spec

=============================================================================
