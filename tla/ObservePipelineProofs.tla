----------------------- MODULE ObservePipelineProofs -----------------------
(***************************************************************************)
(* The runtime uses the queue as EventQueue describes it, so what is       *)
(* proved of the queue holds in the runtime; a drained flush means rows in *)
(* the table events; and the tables events and event_losses account for    *)
(* what was put, for every number of threads and events.                   *)
(***************************************************************************)
EXTENDS ObservePipeline, EventQueueProofs, FiniteSetTheorems

-----------------------------------------------------------------------------
(* Every step of the runtime is a step of the queue, or none.              *)
LEMMA StepOfQueue == [PipelineNext]_allVars => [Next]_vars
<1> SUFFICES ASSUME [PipelineNext]_allVars PROVE [Next]_vars
    OBVIOUS
<1>1. CASE \E p \in Producers, e \in Events : HookCall(p, e) \/ EmitFails(p, e)
    BY <1>1 DEF HookCall, EmitFails, Next
<1>2. CASE \E p \in Producers : EndFlush(p)
    BY <1>2 DEF EndFlush, Next
<1>3. CASE QueueStep
    BY <1>3 DEF QueueStep, Next, PutStep, WorkerStep
<1>4. CASE Insert \/ InsertRaises
    BY <1>4 DEF Insert, InsertRaises, Next, WorkerStep
<1>5. CASE \E t \in Producers \cup {Worker} : RecordLoss(t) \/ RecordRaises(t)
    BY <1>5 DEF RecordLoss, RecordRaises, OnDropCall, Next, PutStep, WorkerStep
<1>6. CASE \E c \in Closers : StoreClose(c)
    BY <1>6 DEF StoreClose
<1>7. CASE Terminated \/ UNCHANGED allVars
    BY <1>7 DEF Terminated, allVars
<1> QED
    BY <1>1, <1>2, <1>3, <1>4, <1>5, <1>6, <1>7 DEF PipelineNext

(* Hook handlers, store and reset_runtime use the queue only as its        *)
(* specification allows.                                                   *)
THEOREM ImplementsQueue == PipelineSpec => Spec
<1>1. PipelineInit => Init
    BY DEF PipelineInit
<1> QED
    BY <1>1, StepOfQueue, PTL DEF PipelineSpec, Spec

(* The inductive invariant of the queue holds in the runtime.               *)
THEOREM QueueInvariants == PipelineSpec => []IndInv
  BY ImplementsQueue, Inductive, PTL

-----------------------------------------------------------------------------
(* Only a write makes an event "stored": no step inside put, close or the  *)
(* worker's loop does.                                                     *)
NothingStored == \A e \in Events : fate'[e] = "stored" => fate[e] = "stored"

(* The steps of the queue that are not the writer's write store nothing.   *)
LEMMA QueueStepStoresNothing == TypeOK /\ QueueStep => NothingStored
<1> SUFFICES ASSUME TypeOK, QueueStep PROVE NothingStored
    OBVIOUS
<1> USE DEF NothingStored, TypeOK, CountStore, Settle, Return,
        histVars, exceptPc
<1>1. ASSUME NEW p \in Producers, PutRefused(p) PROVE NothingStored
    BY <1>1 DEF PutRefused
<1>2. ASSUME NEW p \in Producers, PutEnter(p) PROVE NothingStored
    BY <1>2 DEF PutEnter
<1>3. ASSUME NEW p \in Producers, TryAccepted(p) PROVE NothingStored
    BY <1>3 DEF TryAccepted
<1>4. ASSUME NEW p \in Producers, TryFull(p) PROVE NothingStored
    BY <1>4 DEF TryFull
<1>5. ASSUME NEW p \in Producers, CountLoad(p) PROVE NothingStored
    BY <1>5 DEF CountLoad
<1>6. ASSUME NEW p \in Producers, CountSilently(p) PROVE NothingStored
    BY <1>6 DEF CountSilently
<1>7. ASSUME NEW p \in Producers, CountNewest(p) PROVE NothingStored
    BY <1>7 DEF CountNewest
<1>8. ASSUME NEW p \in Producers, CountOldest(p) PROVE NothingStored
    BY <1>8 DEF CountOldest
<1>9. ASSUME NEW p \in Producers, Evict(p) PROVE NothingStored
    BY <1>9 DEF Evict
<1>10. ASSUME NEW p \in Producers, EvictTaskDone(p) PROVE NothingStored
    BY <1>10 DEF EvictTaskDone
<1>11. ASSUME NEW p \in Producers, EvictEmpty(p) PROVE NothingStored
    BY <1>11 DEF EvictEmpty
<1>12. ASSUME NEW p \in Producers, RePut(p) PROVE NothingStored
    BY <1>12 DEF RePut
<1>13. ASSUME NEW p \in Producers, FlushDrained(p) PROVE NothingStored
    BY <1>13 DEF FlushDrained
<1>14. ASSUME NEW p \in Producers, FlushTimeout(p) PROVE NothingStored
    BY <1>14 DEF FlushTimeout
<1>15. ASSUME NEW c \in Closers, CloseCall(c) PROVE NothingStored
    BY <1>15 DEF CloseCall
<1>16. ASSUME NEW c \in Closers, CloseAgain(c) PROVE NothingStored
    BY <1>16 DEF CloseAgain
<1>17. ASSUME NEW c \in Closers, CloseEnter(c) PROVE NothingStored
    BY <1>17 DEF CloseEnter
<1>18. ASSUME NEW c \in Closers, SentinelPut(c) PROVE NothingStored
    BY <1>18 DEF SentinelPut
<1>19. ASSUME NEW c \in Closers, SentinelFull(c) PROVE NothingStored
    BY <1>19 DEF SentinelFull
<1>20. ASSUME NEW c \in Closers, FlushDrained(c) PROVE NothingStored
    BY <1>20 DEF FlushDrained
<1>21. ASSUME NEW c \in Closers, FlushTimeout(c) PROVE NothingStored
    BY <1>21 DEF FlushTimeout
<1>22. ASSUME NEW c \in Closers, JoinExited(c) PROVE NothingStored
    BY <1>22 DEF JoinExited
<1>23. ASSUME NEW c \in Closers, JoinTimeout(c) PROVE NothingStored
    BY <1>23 DEF JoinTimeout
<1>24. CASE Get
    BY <1>24 DEF Get
<1>25. CASE GetEmpty
    BY <1>25 DEF GetEmpty
<1>26. CASE StopCheck
    BY <1>26 DEF StopCheck
<1>27. CASE SentinelDone
    BY <1>27 DEF SentinelDone
<1>28. CASE FailEnter
    BY <1>28 DEF FailEnter
<1>29. CASE CountLoad(Worker)
    BY <1>29 DEF CountLoad
<1>30. CASE FailCount
    BY <1>30 DEF FailCount
<1>31. CASE ItemDone
    BY <1>31 DEF ItemDone
<1> QED
    BY <1>1, <1>2, <1>3, <1>4, <1>5, <1>6, <1>7, <1>8, <1>9, <1>10, <1>11,
       <1>12, <1>13, <1>14, <1>15, <1>16, <1>17, <1>18, <1>19, <1>20,
       <1>21, <1>22, <1>23, <1>24, <1>25, <1>26, <1>27, <1>28, <1>29,
       <1>30, <1>31
    DEF QueueStep, PutInside, CountReported, FlushStep, CloseStep, WorkerInside

(* rows follows fate: an insert adds the event it settles as "stored", and *)
(* no other step makes an event "stored" or takes it back.                 *)
LEMMA RowsStep ==
    IndInv /\ CustodyInv /\ RowsInv /\ [PipelineNext]_allVars => RowsInv'
<1> SUFFICES ASSUME IndInv, CustodyInv, RowsInv, [PipelineNext]_allVars
             PROVE  RowsInv'
    OBVIOUS
<1>1. TypeOK /\ Final
    BY StepOfQueue, FinalStep DEF IndInv
<1>2. \A e \in Events : fate[e] = "stored" => fate'[e] = "stored"
    BY <1>1 DEF Final
<1>3. ASSUME NothingStored, rows' = rows PROVE RowsInv'
    BY <1>2, <1>3 DEF RowsInv, NothingStored
<1>4. ASSUME NEW p \in Producers, NEW e \in Events, HookCall(p, e)
      PROVE  RowsInv'
    BY <1>1, <1>3, <1>4 DEF HookCall, PutCall, Settle, TypeOK, NothingStored,
       storeVars
<1>5. ASSUME NEW p \in Producers, NEW e \in Events, EmitFails(p, e)
      PROVE  RowsInv'
    BY <1>3, <1>5 DEF EmitFails, NothingStored, storeVars, vars
<1>6. ASSUME NEW p \in Producers, EndFlush(p) PROVE RowsInv'
    BY <1>3, <1>6 DEF EndFlush, FlushCall, NothingStored, storeVars,
       exceptPc, histVars
<1>7. CASE QueueStep
    BY <1>1, <1>3, <1>7, QueueStepStoresNothing DEF QueueStep, storeVars
<1>8. CASE Insert
    <2>1. /\ fate' = [fate EXCEPT ![data[Worker]] = "stored"]
          /\ rows' = rows \cup {data[Worker]}
          /\ data[Worker] \in Events
        BY <1>1, <1>8 DEF Insert, WriteOk, Settle, TypeOK, WorkerHolds
    <2> QED
        BY <1>1, <2>1 DEF RowsInv, TypeOK
<1>9. CASE InsertRaises
    BY <1>1, <1>3, <1>9 DEF InsertRaises, WriteRaises, Settle, TypeOK,
       NothingStored
<1>10. ASSUME NEW t \in Producers \cup {Worker}, RecordLoss(t) \/ RecordRaises(t)
       PROVE  RowsInv'
    <2>1. fate' = fate
        BY <1>10 DEF RecordLoss, RecordRaises, OnDropCall, PutReport, FailReport
    <2> QED
        BY <1>3, <1>10, <2>1 DEF RecordLoss, RecordRaises, NothingStored
<1>11. ASSUME NEW c \in Closers, StoreClose(c) PROVE RowsInv'
    BY <1>3, <1>11 DEF StoreClose, NothingStored, vars
<1>12. CASE Terminated \/ UNCHANGED allVars
    BY <1>3, <1>12 DEF Terminated, allVars, storeVars, NothingStored, vars
<1> QED
    BY <1>4, <1>5, <1>6, <1>7, <1>8, <1>9, <1>10, <1>11, <1>12
    DEF PipelineNext

(* The table events holds exactly the events the writer has finished.      *)
THEOREM RowsCorrect == PipelineSpec => []RowsInv
<1>1. PipelineInit => RowsInv
    BY DEF PipelineInit, Init, RowsInv
<1>2. PipelineSpec => [](IndInv /\ CustodyInv)
    BY QueueInvariants, ImplementsQueue, CustodyCorrect, PTL
<1> QED
    BY <1>1, <1>2, RowsStep, PTL DEF PipelineSpec

(* A flush that sees no unfinished task leaves no event in the queue or in *)
(* the writer's hand: what the queue had taken is in the table events, was *)
(* evicted, or failed to be inserted, and then on_drop has been called     *)
(* before task_done.  Callbacks of producers may still be pending.         *)
THEOREM FlushDurableCorrect ==
    ASSUME OnDrop
    PROVE  PipelineSpec => []FlushDurable
<1>1. IndInv /\ DrainedMeansSettled /\ RowsInv => FlushDurable
    BY DEF IndInv, TypeOK, DrainedMeansSettled, Settled, RowsInv, FlushDurable,
       Fates, Lost
<1> QED
    BY <1>1, QueueInvariants, ImplementsQueue, FlushCorrect, RowsCorrect, PTL

-----------------------------------------------------------------------------
(* The lossy FIFO again, with the table events in the place of what the    *)
(* queue wrote: what anybody who opens state.db can see.                   *)
Table == INSTANCE LossyFifo WITH
    Capacity  <- MaxSize + 1,
    open      <- ~closed,
    pending   <- Pending,
    delivered <- rows,
    lost      <- {e \in Events : fate[e] \in Lost \cup {"refused"}}

(* Rows are inserted in the order in which the hooks' events were accepted,*)
(* each once; an event that was refused, evicted or failed never becomes a *)
(* row, and none does that was offered after the runtime was closed; a row *)
(* stays (queue.py:47-110, store.py:97-134).                               *)
THEOREM TableIsLossyFifo == PipelineSpec => Table!Spec
<1>1. RowsInv /\ Abstract!Init => Table!Init
    BY DEF RowsInv, Abstract!Init, Table!Init
<1>2. RowsInv /\ RowsInv' /\ [Abstract!Next]_Abstract!vars => [Table!Next]_Table!vars
  <2> SUFFICES ASSUME RowsInv, RowsInv', [Abstract!Next]_Abstract!vars
               PROVE  [Table!Next]_Table!vars
    OBVIOUS
  <2>1. /\ {e \in Events : fate[e] = "stored"} = rows
        /\ {e \in Events : fate'[e] = "stored"} = rows'
    BY DEF RowsInv
  <2> QED
    BY <2>1
    DEF Abstract!Next, Abstract!vars, Abstract!Accept, Abstract!Discard,
        Abstract!Deliver, Abstract!Lose, Abstract!Close, Abstract!Fresh,
        Abstract!InPending, Table!Next, Table!vars, Table!Accept, Table!Discard,
        Table!Deliver, Table!Lose, Table!Close, Table!Fresh, Table!InPending
<1> QED
    BY <1>1, <1>2, RowsCorrect, ImplementsQueue, QueueIsLossyFifo, PTL
    DEF ImplementsLossyFifo, Abstract!Spec, Table!Spec

-----------------------------------------------------------------------------
(***************************************************************************)
(* The loss accounting.  Of the arguments of the queue, the runtime fixes  *)
(* that there is a callback (OnDrop); what drop_oldest breaks is assumed   *)
(* away where it matters.  Sets are counted by adding or removing one      *)
(* element at a step, so no set of threads or events need be finite.       *)
(***************************************************************************)
Failing    == pc[Worker] \in {"fail", "count", "bump"}
LostEvents == {e \in Events : fate[e] \in Lost}
Failures   == {e \in Events : fate[e] = "failed"}
Taken == {"queued", "stored", "failed", "evicted"}

(* What the threads hold: an increment under way is of the current value,  *)
(* an event put() has not settled is in the hands of one, and put() says   *)
(* True only of an event that was taken.                                   *)
HandsInv ==
    /\ \A t \in Threads : pc[t] = "bump" => reg[t] = dropped
    /\ \A e \in Events : fate[e] = "offered" =>
         \E p \in Producers : pc[p] \in Carrying /\ data[p] = e
    /\ \A e \in Events : result[e] = "true" => fate[e] \in Taken
    /\ \A p \in Producers :
         /\ pc[p] = "evict" => victim[p] = data[p]
         /\ pc[p] = "callback" /\ Policy = "drop_oldest" => fate[data[p]] \in Taken

(* Each action keeps HandsInv.                                             *)
LEMMA HandsStep ==
    ASSUME TypeOK, LockDiscipline, RoomInv, CustodyInv, HandsInv, [Next]_vars
    PROVE  HandsInv'
<1> USE DistinctAssumption
    DEF TypeOK, Critical, WorkerHolds, Carrying, CustodyInv, RoomInv, LockDiscipline,
        Goto, Acquire, Release, Return, Settle, Blame, CountStore, Report, HasRoom,
        AfterFlush, TaskDone, queueVars, flagVars, lossVars, dropVars,
        histVars, exceptPc, Threads, ProducerLabels, CloserLabels, WorkerLabels
<1> USE DEF HandsInv, Taken
<1>1. ASSUME NEW p \in Producers, NEW e \in Events, PutCall(p, e)
    PROVE  HandsInv'
    <2>1. /\ pc' = [pc EXCEPT ![p] = "put"] /\ pc[p] = "idle"
          /\ fate' = [fate EXCEPT ![e] = "offered"] /\ fate[e] = "new"
          /\ data' = [data EXCEPT ![p] = e]
          /\ UNCHANGED <<dropped, reg, result, victim>>
        BY <1>1 DEF PutCall
    <2>2. ASSUME NEW d \in Events, fate'[d] = "offered"
          PROVE  \E o \in Producers : pc'[o] \in Carrying /\ data'[o] = d
        <3>1. CASE d = e
            BY <2>1, <3>1
        <3>2. CASE d # e
            <4>1. PICK o \in Producers : pc[o] \in Carrying /\ data[o] = d
                BY <2>1, <2>2, <3>2
            <4> QED
                BY <2>1, <4>1
        <3> QED
            BY <3>1, <3>2
    <2> QED
        BY <2>1, <2>2
<1>2. ASSUME NEW p \in Producers, PutRefused(p) PROVE HandsInv'
    BY <1>2 DEF PutRefused
<1>3. ASSUME NEW p \in Producers, PutEnter(p) PROVE HandsInv'
    BY <1>3 DEF PutEnter
<1>4. ASSUME NEW p \in Producers, TryAccepted(p) PROVE HandsInv'
    BY <1>4 DEF TryAccepted
<1>5. ASSUME NEW p \in Producers, TryFull(p) PROVE HandsInv'
    BY <1>5 DEF TryFull
<1>6. ASSUME NEW p \in Producers, CountLoad(p) PROVE HandsInv'
    BY <1>6 DEF CountLoad
<1>7. ASSUME NEW p \in Producers, CountSilently(p) PROVE HandsInv'
    BY <1>7 DEF CountSilently
<1>8. ASSUME NEW p \in Producers, CountNewest(p) PROVE HandsInv'
    <2>1. /\ pc' = [pc EXCEPT ![p] = "callback"] /\ pc[p] = "bump"
          /\ data[p] \in Events /\ fate[data[p]] = "offered"
          /\ fate' = [fate EXCEPT ![data[p]] = "overflow"]
          /\ Policy # "drop_oldest" /\ UNCHANGED <<data, result>>
          /\ reg' = [reg EXCEPT ![p] = 0]
        BY <1>8 DEF CountNewest
    <2>2. ASSUME NEW d \in Events, fate'[d] = "offered"
          PROVE  \E o \in Producers : pc'[o] \in Carrying /\ data'[o] = d
        <3>1. PICK o \in Producers : pc[o] \in Carrying /\ data[o] = d
            BY <2>1, <2>2
        <3> QED
            BY <2>1, <2>2, <3>1
    <2>3. \A t \in Threads : pc'[t] # "bump"
        BY <2>1
    <2>4. \A d \in Events : result'[d] = "true" => fate'[d] \in Taken
        BY <2>1
    <2>5. \A o \in Producers : pc'[o] # "evict"
        BY <2>1
    <2> QED
        BY <2>1, <2>2, <2>3, <2>4, <2>5
<1>9. ASSUME NEW p \in Producers, CountOldest(p) PROVE HandsInv'
    BY <1>9 DEF CountOldest
<1>10. ASSUME NEW p \in Producers, Evict(p) PROVE HandsInv'
    BY <1>10 DEF Evict
<1>11. ASSUME NEW p \in Producers, EvictTaskDone(p) PROVE HandsInv'
    BY <1>11 DEF EvictTaskDone
<1>12. ASSUME NEW p \in Producers, EvictEmpty(p) PROVE HandsInv'
    BY <1>12 DEF EvictEmpty
<1>13. ASSUME NEW p \in Producers, RePut(p) PROVE HandsInv'
    <2>1. /\ HasRoom /\ pc[p] = "reput" /\ pc' = [pc EXCEPT ![p] = "callback"]
          /\ fate' = [fate EXCEPT ![data[p]] = "queued"]
          /\ data[p] \in Events
          /\ UNCHANGED <<data, result, victim, dropped, reg>>
        BY <1>13 DEF RePut
    <2>2. ASSUME NEW d \in Events, fate'[d] = "offered"
          PROVE  \E o \in Producers : pc'[o] \in Carrying /\ data'[o] = d
        <3>1. PICK o \in Producers : pc[o] \in Carrying /\ data[o] = d
            BY <2>1, <2>2
        <3> QED
            BY <2>1, <2>2, <3>1
    <2>3. \A t \in Threads : pc'[t] = "bump" => pc[t] = "bump"
        BY <2>1
    <2>4. \A d \in Events : result'[d] = "true" => fate'[d] \in Taken
        BY <2>1
    <2>5. \A o \in Producers :
            /\ pc'[o] = "evict" => pc[o] = "evict"
            /\ pc'[o] = "callback" => o = p \/ pc[o] = "callback"
        BY <2>1
    <2>6. \A d \in Events : fate[d] \in Taken => fate'[d] \in Taken
        BY <2>1
    <2> QED
        BY <2>1, <2>2, <2>3, <2>4, <2>5, <2>6
<1>14. ASSUME NEW p \in Producers, PutReport(p) PROVE HandsInv'
    BY <1>14 DEF PutReport
<1>15. ASSUME NEW p \in Producers, FlushCall(p) PROVE HandsInv'
    BY <1>15 DEF FlushCall
<1>16. ASSUME NEW p \in Producers, FlushDrained(p) PROVE HandsInv'
    BY <1>16 DEF FlushDrained
<1>17. ASSUME NEW p \in Producers, FlushTimeout(p) PROVE HandsInv'
    BY <1>17 DEF FlushTimeout
<1>18. ASSUME NEW c \in Closers, CloseCall(c) PROVE HandsInv'
    BY <1>18 DEF CloseCall
<1>19. ASSUME NEW c \in Closers, CloseAgain(c) PROVE HandsInv'
    BY <1>19 DEF CloseAgain
<1>20. ASSUME NEW c \in Closers, CloseEnter(c) PROVE HandsInv'
    BY <1>20 DEF CloseEnter
<1>21. ASSUME NEW c \in Closers, SentinelPut(c) PROVE HandsInv'
    BY <1>21 DEF SentinelPut
<1>22. ASSUME NEW c \in Closers, SentinelFull(c) PROVE HandsInv'
    BY <1>22 DEF SentinelFull
<1>23. ASSUME NEW c \in Closers, FlushDrained(c) PROVE HandsInv'
    BY <1>23 DEF FlushDrained
<1>24. ASSUME NEW c \in Closers, FlushTimeout(c) PROVE HandsInv'
    BY <1>24 DEF FlushTimeout
<1>25. ASSUME NEW c \in Closers, JoinExited(c) PROVE HandsInv'
    BY <1>25 DEF JoinExited
<1>26. ASSUME NEW c \in Closers, JoinTimeout(c) PROVE HandsInv'
    BY <1>26 DEF JoinTimeout
<1>27. CASE Get
    BY <1>27 DEF Get
<1>28. CASE GetEmpty
    BY <1>28 DEF GetEmpty
<1>29. CASE StopCheck
    BY <1>29 DEF StopCheck
<1>30. CASE SentinelDone
    BY <1>30 DEF SentinelDone
<1>31. CASE WriteOk
    BY <1>31 DEF WriteOk
<1>32. CASE WriteRaises
    BY <1>32 DEF WriteRaises
<1>33. CASE FailEnter
    BY <1>33 DEF FailEnter
<1>34. CASE CountLoad(Worker)
    BY <1>34 DEF CountLoad
<1>35. CASE FailCount
    <2>1. /\ pc[Worker] = "bump"
          /\ pc' = [pc EXCEPT ![Worker] = IF OnDrop THEN "callback" ELSE "taskdone"]
          /\ \A o \in Producers : victim'[o] = victim[o]
          /\ UNCHANGED <<data, fate, result>>
        BY <1>35 DEF FailCount
    <2>2. \A t \in Threads : pc'[t] # "bump"
        BY <2>1
    <2>3. \A o \in Producers : pc'[o] = pc[o]
        BY <2>1
    <2> QED
        BY <2>1, <2>2, <2>3
<1>36. CASE FailReport
    BY <1>36 DEF FailReport
<1>37. CASE ItemDone
    BY <1>37 DEF ItemDone
<1>38. CASE UNCHANGED vars
    BY <1>38 DEF vars
<1> QED
    BY <1>1, <1>2, <1>3, <1>4, <1>5, <1>6, <1>7, <1>8, <1>9, <1>10, <1>11,
       <1>12, <1>13, <1>14, <1>15, <1>16, <1>17, <1>18, <1>19, <1>20,
       <1>21, <1>22, <1>23, <1>24, <1>25, <1>26, <1>27, <1>28, <1>29,
       <1>30, <1>31, <1>32, <1>33, <1>34, <1>35, <1>36, <1>37, <1>38
    DEF Next, PutStep, PutInside, CountReported, FlushStep, CloseStep,
        WorkerStep, WorkerInside

(* HandsInv is an invariant of the queue.                                  *)
LEMMA HandsCorrect == Spec => []HandsInv
<1>1. Init => HandsInv
    BY DistinctAssumption DEF Init, HandsInv, Threads
<1>2. IndInv /\ CustodyInv /\ HandsInv /\ [Next]_vars => HandsInv'
    BY HandsStep DEF IndInv
<1> QED
    BY <1>1, <1>2, Inductive, CustodyCorrect, PTL DEF Spec

-----------------------------------------------------------------------------
(* A step that loses no event, counts none and calls nobody back.          *)
Unmoved ==
    /\ dropped' = dropped
    /\ Owing' = Owing /\ \A t \in Owing : victim'[t] = victim[t]
    /\ \A e \in Events, f \in Lost : fate'[e] = f <=> fate[e] = f
    /\ Failing' <=> Failing
    /\ Failing => data'[Worker] = data[Worker]

Uneventful ==
    \/ \E p \in Producers :
         \/ PutRefused(p) \/ PutEnter(p) \/ TryAccepted(p) \/ TryFull(p)
         \/ CountLoad(p) \/ EvictTaskDone(p) \/ EvictEmpty(p) \/ RePut(p)
         \/ FlushCall(p) \/ FlushStep(p)
    \/ \E c \in Closers : CloseCall(c) \/ CloseStep(c)
    \/ Get \/ GetEmpty \/ StopCheck \/ SentinelDone \/ WriteOk
    \/ FailEnter \/ CountLoad(Worker) \/ ItemDone
    \/ UNCHANGED vars

(* Such a step leaves the books, and what was put, alone.                  *)
LEMMA UneventfulStep ==
    ASSUME TypeOK, LockDiscipline, RoomInv, CustodyInv, Uneventful
    PROVE  Unmoved /\ Put' = Put
<1> USE DistinctAssumption
    DEF TypeOK, Critical, WorkerHolds, Carrying, CustodyInv, RoomInv, LockDiscipline,
        Goto, Acquire, Release, Return, Settle, Blame, CountStore, Report, HasRoom,
        AfterFlush, TaskDone, queueVars, flagVars, lossVars, dropVars,
        histVars, exceptPc, Threads, ProducerLabels, CloserLabels, WorkerLabels
<1> USE DEF Unmoved, Put, Owing, Failing, Lost
<1> DEFINE Goal == Unmoved /\ Put' = Put
<1>1. ASSUME NEW p \in Producers, PutRefused(p) PROVE Goal
    BY <1>1 DEF PutRefused
<1>2. ASSUME NEW p \in Producers, PutEnter(p) PROVE Goal
    BY <1>2 DEF PutEnter
<1>3. ASSUME NEW p \in Producers, TryAccepted(p) PROVE Goal
    BY <1>3 DEF TryAccepted
<1>4. ASSUME NEW p \in Producers, TryFull(p) PROVE Goal
    BY <1>4 DEF TryFull
<1>5. ASSUME NEW p \in Producers, CountLoad(p) PROVE Goal
    BY <1>5 DEF CountLoad
<1>6. ASSUME NEW p \in Producers, EvictTaskDone(p) PROVE Goal
    BY <1>6 DEF EvictTaskDone
<1>7. ASSUME NEW p \in Producers, EvictEmpty(p) PROVE Goal
    BY <1>7 DEF EvictEmpty
<1>8. ASSUME NEW p \in Producers, RePut(p) PROVE Goal
    BY <1>8 DEF RePut
<1>9. ASSUME NEW p \in Producers, FlushCall(p) PROVE Goal
    BY <1>9 DEF FlushCall
<1>10. ASSUME NEW p \in Producers, FlushDrained(p) PROVE Goal
    BY <1>10 DEF FlushDrained
<1>11. ASSUME NEW p \in Producers, FlushTimeout(p) PROVE Goal
    BY <1>11 DEF FlushTimeout
<1>12. ASSUME NEW c \in Closers, CloseCall(c) PROVE Goal
    BY <1>12 DEF CloseCall
<1>13. ASSUME NEW c \in Closers, CloseAgain(c) PROVE Goal
    BY <1>13 DEF CloseAgain
<1>14. ASSUME NEW c \in Closers, CloseEnter(c) PROVE Goal
    BY <1>14 DEF CloseEnter
<1>15. ASSUME NEW c \in Closers, SentinelPut(c) PROVE Goal
    BY <1>15 DEF SentinelPut
<1>16. ASSUME NEW c \in Closers, SentinelFull(c) PROVE Goal
    BY <1>16 DEF SentinelFull
<1>17. ASSUME NEW c \in Closers, FlushDrained(c) PROVE Goal
    BY <1>17 DEF FlushDrained
<1>18. ASSUME NEW c \in Closers, FlushTimeout(c) PROVE Goal
    BY <1>18 DEF FlushTimeout
<1>19. ASSUME NEW c \in Closers, JoinExited(c) PROVE Goal
    BY <1>19 DEF JoinExited
<1>20. ASSUME NEW c \in Closers, JoinTimeout(c) PROVE Goal
    BY <1>20 DEF JoinTimeout
<1>21. CASE Get
    BY <1>21 DEF Get
<1>22. CASE GetEmpty
    BY <1>22 DEF GetEmpty
<1>23. CASE StopCheck
    BY <1>23 DEF StopCheck
<1>24. CASE SentinelDone
    BY <1>24 DEF SentinelDone
<1>25. CASE WriteOk
    BY <1>25 DEF WriteOk
<1>26. CASE FailEnter
    BY <1>26 DEF FailEnter
<1>27. CASE CountLoad(Worker)
    BY <1>27 DEF CountLoad
<1>28. CASE ItemDone
    BY <1>28 DEF ItemDone
<1>29. CASE UNCHANGED vars
    BY <1>29 DEF vars
<1> QED
    BY <1>1, <1>2, <1>3, <1>4, <1>5, <1>6, <1>7, <1>8, <1>9, <1>10, <1>11,
       <1>12, <1>13, <1>14, <1>15, <1>16, <1>17, <1>18, <1>19, <1>20,
       <1>21, <1>22, <1>23, <1>24, <1>25, <1>26, <1>27, <1>28, <1>29
    DEF Uneventful, FlushStep, CloseStep

(* A call of put() offers one new event and leaves the books alone.        *)
LEMMA PutCallStep ==
    ASSUME TypeOK, NEW p \in Producers, NEW e \in Events, PutCall(p, e)
    PROVE  Unmoved /\ Put' = Put \cup {e}
BY DistinctAssumption
   DEF PutCall, TypeOK, Goto, Settle, Unmoved, Put, Owing, Failing, Lost,
       Threads, lossVars, dropVars

(* The steps of the runtime with a callback, by what they do to the books. *)
Entries == <<losses, unrecorded, recorded, faults>>

LEMMA Kinds ==
    ASSUME OnDrop, [PipelineNext]_allVars
    PROVE  \/ (Uneventful \/ \E p \in Producers, e \in Events : PutCall(p, e))
              /\ UNCHANGED Entries
           \/ (\E p \in Producers : CountNewest(p) \/ CountOldest(p) \/ Evict(p))
              /\ UNCHANGED Entries
           \/ FailCount /\ UNCHANGED Entries
           \/ InsertRaises
           \/ \E t \in Producers \cup {Worker} : RecordLoss(t) \/ RecordRaises(t)
<1> USE DEF Entries, storeVars
<1>1. CASE \E p \in Producers, e \in Events : HookCall(p, e) \/ EmitFails(p, e)
    BY <1>1 DEF HookCall, EmitFails, Uneventful
<1>2. CASE \E p \in Producers : EndFlush(p)
    BY <1>2 DEF EndFlush, Uneventful
<1>3. CASE QueueStep
    BY <1>3 DEF QueueStep, PutInside, CountReported, WorkerInside, Uneventful,
       CountSilently
<1>4. CASE Insert
    BY <1>4 DEF Insert, Uneventful
<1>5. CASE InsertRaises
    BY <1>5
<1>6. CASE \E t \in Producers \cup {Worker} : RecordLoss(t) \/ RecordRaises(t)
    BY <1>6
<1>7. CASE \E c \in Closers : StoreClose(c)
    BY <1>7 DEF StoreClose, Uneventful
<1>8. CASE Terminated \/ UNCHANGED allVars
    BY <1>8 DEF Terminated, allVars, Uneventful
<1> QED
    BY <1>1, <1>2, <1>3, <1>4, <1>5, <1>6, <1>7, <1>8 DEF PipelineNext

(* What counting a loss does: by one, and the thread now owes a report.    *)
LEMMA CountStep ==
    ASSUME OnDrop, TypeOK, HandsInv, NEW t \in Producers \cup {Worker},
           \/ t \in Producers /\ (CountNewest(t) \/ CountOldest(t))
           \/ t = Worker /\ FailCount
    PROVE  /\ dropped' = dropped + 1
           /\ Owing' = Owing \cup {t} /\ t \notin Owing
           /\ victim' = [victim EXCEPT ![t] = data[t]]
           /\ data' = data
<1>1. /\ pc[t] = "bump" /\ dropped' = reg[t] + 1
      /\ \/ pc' = [pc EXCEPT ![t] = "callback"]
         \/ pc' = [pc EXCEPT ![t] = "evict"]
      /\ victim' = [victim EXCEPT ![t] = data[t]] /\ data' = data
    BY DistinctAssumption DEF CountNewest, CountOldest, FailCount, CountStore, Blame, Goto
<1> QED
    BY <1>1 DEF HandsInv, TypeOK, Owing, Threads

(* What a report does: the thread owes no longer, and nothing is lost.     *)
LEMMA ReportStep ==
    ASSUME TypeOK, NEW t \in Producers \cup {Worker}, OnDropCall(t)
    PROVE  /\ pc[t] = "callback" /\ t \in Owing /\ Owing' = Owing \ {t}
           /\ \A s \in Owing \ {t} : victim'[s] = victim[s]
           /\ dropped' = dropped /\ fate' = fate
           /\ Failing' <=> Failing
           /\ Failing => data'[Worker] = data[Worker]
<1>1. CASE t \in Producers
    BY <1>1, DistinctAssumption
    DEF OnDropCall, PutReport, Report, Return, Blame, Goto, Owing, Threads,
        TypeOK, Failing, lossVars
<1>2. CASE t = Worker
    BY <1>2, DistinctAssumption
    DEF OnDropCall, FailReport, Report, Blame, Goto, Owing, Threads,
        TypeOK, Failing, lossVars
<1> QED
    BY <1>1, <1>2

-----------------------------------------------------------------------------
(* The three counters of losses add up.                                    *)
LedgerInv ==
    /\ losses \in Nat /\ unrecorded \in Nat
    /\ IsFiniteSet(Owing)
    /\ LedgerExact

LEMMA LedgerStep ==
    ASSUME OnDrop, IndInv, CustodyInv, HandsInv, LedgerInv, [PipelineNext]_allVars
    PROVE  LedgerInv'
<1> USE DEF LedgerInv, LedgerExact, Entries
<1>0. TypeOK /\ LockDiscipline /\ RoomInv
    BY DEF IndInv
<1>1. CASE /\ Uneventful \/ \E p \in Producers, e \in Events : PutCall(p, e)
           /\ UNCHANGED Entries
    <2>1. Owing' = Owing /\ dropped' = dropped
        BY <1>0, <1>1, UneventfulStep, PutCallStep DEF Unmoved
    <2> QED
        BY <1>1, <2>1
<1>2. ASSUME NEW t \in Producers \cup {Worker}, UNCHANGED Entries,
             \/ t \in Producers /\ (CountNewest(t) \/ CountOldest(t))
             \/ t = Worker /\ FailCount
      PROVE  LedgerInv'
    <2>1. dropped' = dropped + 1 /\ Owing' = Owing \cup {t} /\ t \notin Owing
        BY <1>0, <1>2, CountStep
    <2>2. IsFiniteSet(Owing') /\ Cardinality(Owing') = Cardinality(Owing) + 1
        BY <2>1, FS_AddElement
    <2>3. Cardinality(Owing) \in Nat
        BY FS_CardinalityType
    <2> QED
        BY <1>2, <2>1, <2>2, <2>3
<1>3. ASSUME NEW p \in Producers, Evict(p), UNCHANGED Entries PROVE LedgerInv'
    <2>1. Owing' = Owing /\ dropped' = dropped
        BY <1>0, <1>3 DEF Evict, Owing, Goto, lossVars, TypeOK
    <2> QED
        BY <1>3, <2>1
<1>4. CASE InsertRaises
    <2>1. Owing' = Owing /\ dropped' = dropped
        BY <1>0, <1>4 DEF InsertRaises, WriteRaises, Owing, Goto, lossVars, TypeOK
    <2> QED
        BY <1>4, <2>1 DEF InsertRaises
<1>5. ASSUME NEW t \in Producers \cup {Worker}, RecordLoss(t) \/ RecordRaises(t)
      PROVE  LedgerInv'
    <2>1. t \in Owing /\ Owing' = Owing \ {t} /\ dropped' = dropped
        BY <1>0, <1>5, ReportStep DEF RecordLoss, RecordRaises
    <2>2. IsFiniteSet(Owing') /\ Cardinality(Owing') = Cardinality(Owing) - 1
        BY <2>1, FS_RemoveElement
    <2>3. Cardinality(Owing) \in Nat
        BY FS_CardinalityType
    <2>4. \/ losses' = losses + 1 /\ unrecorded' = unrecorded
          \/ losses' = losses /\ unrecorded' = unrecorded + 1
        BY <1>5 DEF RecordLoss, RecordRaises
    <2>5. losses' + unrecorded' + Cardinality(Owing') = dropped'
        BY <2>1, <2>2, <2>3, <2>4
    <2> QED
        BY <2>2, <2>4, <2>5
<1> HIDE DEF LedgerInv, LedgerExact, Entries
<1> QED
    BY <1>1, <1>2, <1>3, <1>4, <1>5, Kinds

LEMMA LedgerInvCorrect ==
    ASSUME OnDrop
    PROVE  PipelineSpec => []LedgerInv
<1>1. PipelineInit => LedgerInv
    <2> SUFFICES ASSUME PipelineInit PROVE LedgerInv
        OBVIOUS
    <2>1. Owing = {}
        BY DEF PipelineInit, Init, Owing, Threads
    <2>2. IsFiniteSet({}) /\ Cardinality({}) = 0
        BY FS_EmptySet, Zenon
    <2>3. losses = 0 /\ unrecorded = 0 /\ dropped = 0
        BY DEF PipelineInit, Init
    <2> QED
        BY <2>1, <2>2, <2>3 DEF LedgerInv, LedgerExact
<1>2. IndInv /\ CustodyInv /\ HandsInv /\ LedgerInv /\ [PipelineNext]_allVars
        => LedgerInv'
    BY LedgerStep
<1> QED
    BY <1>1, <1>2, ImplementsQueue, Inductive, CustodyCorrect, HandsCorrect, PTL
    DEF PipelineSpec

(* Given a callback, the entries of event_losses, the callbacks that raised *)
(* and those still to come always add up to the queue's loss counter.       *)
THEOREM LedgerCorrect ==
    ASSUME OnDrop
    PROVE  PipelineSpec => []LedgerExact
<1>1. LedgerInv => LedgerExact
    BY DEF LedgerInv
<1> QED
    BY <1>1, LedgerInvCorrect, PTL

-----------------------------------------------------------------------------
(* Without eviction, every lost event but the one the writer is about to   *)
(* count is counted, and only lost events reach the ledger.                *)
LossInv ==
    /\ recorded \subseteq LostEvents
    /\ \A t \in Threads : pc[t] = "callback" => victim[t] \in LostEvents
    /\ Failing => fate[data[Worker]] = "failed"
    /\ IsFiniteSet(Put)
    /\ Cardinality(LostEvents) = dropped + (IF Failing THEN 1 ELSE 0)

LEMMA LossStep ==
    ASSUME OnDrop, Policy # "drop_oldest", IndInv, CustodyInv, HandsInv,
           ResultInv, LossInv, [PipelineNext]_allVars
    PROVE  LossInv'
<1> USE DEF Entries
<1>0. TypeOK /\ LockDiscipline /\ RoomInv
    BY DEF IndInv
<1>a. \A t \in Threads : t \in Owing <=> pc[t] = "callback"
    BY <1>0 DEF ResultInv, Owing, Threads, TypeOK, CloserLabels, WorkerLabels
<1>b. LostEvents \subseteq Put /\ IsFiniteSet(Put)
    BY DEF LossInv, LostEvents, Put, Lost
<1>c. IsFiniteSet(LostEvents) /\ Cardinality(LostEvents) \in Nat
    BY <1>b, FS_Subset, FS_CardinalityType
<1>d. dropped \in Nat /\ data \in [Threads -> Events \cup {Sentinel, None}]
    BY <1>0 DEF TypeOK
<1>1. CASE /\ Uneventful \/ \E p \in Producers, e \in Events : PutCall(p, e)
           /\ UNCHANGED Entries
    <2>1. Unmoved
        BY <1>0, <1>1, UneventfulStep, PutCallStep
    <2>2. IsFiniteSet(Put')
        BY <1>0, <1>1, <1>b, UneventfulStep, PutCallStep, FS_AddElement
    <2>3. LostEvents' = LostEvents
        BY <2>1 DEF Unmoved, LostEvents, Lost
    <2>4. \A t \in Threads : pc'[t] = "callback" =>
            pc[t] = "callback" /\ victim'[t] = victim[t]
        BY <1>a, <2>1 DEF Unmoved, Owing
    <2>5. Failing' => fate'[data'[Worker]] = "failed"
        <3> SUFFICES ASSUME Failing PROVE fate'[data[Worker]] = "failed"
            BY <2>1 DEF Unmoved
        <3>1. data[Worker] \in Events /\ fate[data[Worker]] = "failed"
            BY <1>0 DEF LossInv, Failing, TypeOK, WorkerHolds
        <3> QED
            BY <2>1, <3>1 DEF Unmoved, Lost
    <2> QED
        BY <1>1, <2>1, <2>2, <2>3, <2>4, <2>5 DEF LossInv, Unmoved
<1>2. ASSUME NEW p \in Producers, CountNewest(p), UNCHANGED Entries PROVE LossInv'
    <2>1. /\ dropped' = dropped + 1 /\ data' = data
          /\ victim' = [victim EXCEPT ![p] = data[p]]
        BY <1>0, <1>2, CountStep
    <2>2. /\ pc' = [pc EXCEPT ![p] = "callback"] /\ p # Worker
          /\ fate' = [fate EXCEPT ![data[p]] = "overflow"]
          /\ data[p] \in Events /\ fate[data[p]] = "offered"
        BY <1>0, <1>2, DistinctAssumption
        DEF CountNewest, CountStore, Goto, Settle, TypeOK, CustodyInv, Carrying
    <2>3. LostEvents' = LostEvents \cup {data[p]} /\ data[p] \notin LostEvents
        BY <1>0, <2>2 DEF LostEvents, Lost, TypeOK
    <2>4. Cardinality(LostEvents') = Cardinality(LostEvents) + 1
        BY <1>c, <2>3, FS_AddElement
    <2>5. Put' = Put
        BY <1>0, <2>2 DEF Put, TypeOK
    <2>6. \A t \in Threads : pc'[t] = "callback" => victim'[t] \in LostEvents'
        BY <1>0, <2>1, <2>2, <2>3 DEF LossInv, TypeOK
    <2>7. Failing' <=> Failing
        BY <1>0, <2>2 DEF Failing, TypeOK
    <2>8. Failing => fate'[data[Worker]] = "failed"
        <3> SUFFICES ASSUME Failing PROVE fate'[data[Worker]] = "failed"
            OBVIOUS
        <3>1. data[Worker] \in Events /\ fate[data[Worker]] = "failed"
            BY <1>0 DEF LossInv, Failing, TypeOK, WorkerHolds
        <3> QED
            BY <1>0, <2>2, <3>1 DEF TypeOK
    <2> QED
        BY <1>2, <1>c, <1>d, <2>1, <2>3, <2>4, <2>5, <2>6, <2>7, <2>8 DEF LossInv
<1>3. CASE FailCount /\ UNCHANGED Entries
    <2>1. /\ dropped' = dropped + 1 /\ data' = data
          /\ victim' = [victim EXCEPT ![Worker] = data[Worker]]
        BY <1>0, <1>3, CountStep
    <2>2. /\ pc[Worker] = "bump" /\ pc' = [pc EXCEPT ![Worker] = "callback"]
          /\ fate' = fate /\ data[Worker] \in Events
        BY <1>0, <1>3 DEF FailCount, CountStore, Goto, histVars, TypeOK, WorkerHolds
    <2>3. Failing /\ ~Failing'
        BY <1>0, <2>2 DEF Failing, TypeOK, Threads
    <2>4. LostEvents' = LostEvents /\ Put' = Put /\ data[Worker] \in LostEvents
        BY <2>2, <2>3 DEF LossInv, LostEvents, Put, Lost
    <2>5. \A t \in Threads : pc'[t] = "callback" => victim'[t] \in LostEvents'
        BY <1>0, <2>1, <2>2, <2>4 DEF LossInv, TypeOK
    <2> QED
        BY <1>3, <1>c, <1>d, <2>1, <2>3, <2>4, <2>5 DEF LossInv
<1>4. CASE InsertRaises
    <2>1. /\ pc[Worker] = "write" /\ pc' = [pc EXCEPT ![Worker] = "fail"]
          /\ fate' = [fate EXCEPT ![data[Worker]] = "failed"]
          /\ data[Worker] \in Events /\ fate[data[Worker]] = "queued"
          /\ data' = data /\ victim' = victim /\ dropped' = dropped
          /\ recorded' = recorded
        BY <1>0, <1>4
        DEF InsertRaises, WriteRaises, Goto, Settle, TypeOK, CustodyInv, WorkerHolds,
            dropVars, lossVars
    <2>2. LostEvents' = LostEvents \cup {data[Worker]} /\ data[Worker] \notin LostEvents
        BY <1>0, <2>1 DEF LostEvents, Lost, TypeOK
    <2>3. Cardinality(LostEvents') = Cardinality(LostEvents) + 1
        BY <1>c, <2>2, FS_AddElement
    <2>4. Put' = Put
        BY <1>0, <2>1 DEF Put, TypeOK
    <2>5. ~Failing /\ Failing' /\ fate'[data'[Worker]] = "failed"
        BY <1>0, <2>1 DEF Failing, TypeOK, Threads
    <2>6. \A t \in Threads : pc'[t] = "callback" => victim'[t] \in LostEvents'
        BY <1>0, <2>1, <2>2 DEF LossInv, TypeOK
    <2> QED
        BY <1>c, <1>d, <2>1, <2>2, <2>3, <2>4, <2>5, <2>6 DEF LossInv
<1>5. ASSUME NEW t \in Producers \cup {Worker}, RecordLoss(t) \/ RecordRaises(t)
      PROVE  LossInv'
    <2>1. /\ pc[t] = "callback" /\ Owing' = Owing \ {t}
          /\ \A s \in Owing \ {t} : victim'[s] = victim[s]
          /\ dropped' = dropped /\ fate' = fate
          /\ Failing' <=> Failing
          /\ Failing => data'[Worker] = data[Worker]
        BY <1>0, <1>5, ReportStep DEF RecordLoss, RecordRaises
    <2>2. recorded' \subseteq LostEvents
        BY <1>5, <2>1 DEF RecordLoss, RecordRaises, LossInv, Threads
    <2>3. LostEvents' = LostEvents /\ Put' = Put
        BY <2>1 DEF LostEvents, Put
    <2>4. \A s \in Threads : pc'[s] = "callback" => s \in Owing \ {t}
        BY <2>1 DEF Owing
    <2>5. \A s \in Threads : pc'[s] = "callback" => victim'[s] \in LostEvents'
        BY <1>a, <2>1, <2>3, <2>4 DEF LossInv
    <2> QED
        BY <2>1, <2>2, <2>3, <2>5 DEF LossInv
<1> QED
    BY <1>1, <1>2, <1>3, <1>4, <1>5, Kinds DEF CountOldest, Evict, ResultInv

LEMMA LossInvCorrect ==
    ASSUME OnDrop, Policy # "drop_oldest"
    PROVE  PipelineSpec => []LossInv
<1>1. PipelineInit => LossInv
    <2> SUFFICES ASSUME PipelineInit PROVE LossInv
        OBVIOUS
    <2>1. LostEvents = {} /\ Put = {} /\ recorded = {} /\ dropped = 0 /\ ~Failing
        BY DistinctAssumption
        DEF PipelineInit, Init, LostEvents, Put, Lost, Failing, Threads
    <2>2. \A t \in Threads : pc[t] # "callback"
        BY DEF PipelineInit, Init
    <2>3. IsFiniteSet({}) /\ Cardinality({}) = 0
        BY FS_EmptySet, Zenon
    <2> QED
        BY <2>1, <2>2, <2>3 DEF LossInv
<1>2. IndInv /\ CustodyInv /\ HandsInv /\ ResultInv /\ LossInv /\ [PipelineNext]_allVars
        => LossInv'
    BY LossStep
<1>3. Spec => []ResultInv
    BY ResultInvCorrect DEF NeverEvicts
<1> QED
    BY <1>1, <1>2, <1>3, ImplementsQueue, Inductive, CustodyCorrect, HandsCorrect, PTL
    DEF PipelineSpec

(* Under a policy that does not evict, no event is both a row of the table *)
(* events and an entry of the loss ledger.                                 *)
THEOREM StoredOrLost ==
    ASSUME OnDrop, Policy # "drop_oldest"
    PROVE  PipelineSpec => []NotBothStoredAndLost
<1>1. LossInv /\ RowsInv => NotBothStoredAndLost
    BY DEF LossInv, RowsInv, LostEvents, Lost, NotBothStoredAndLost
<1> QED
    BY <1>1, LossInvCorrect, RowsCorrect, PTL

(* Under a policy that does not evict, the two tables account for every    *)
(* event that was put on the open queue, once it is drained.               *)
THEOREM BalanceCorrect ==
    ASSUME OnDrop, Policy # "drop_oldest"
    PROVE  PipelineSpec => []TablesBalance
<1>1. ASSUME IndInv, DrainedMeansSettled, HandsInv, LedgerInv, LossInv, RowsInv, Quiet
      PROVE  Cardinality(Put) =
                 Cardinality(rows) + losses + unrecorded
                   + Cardinality({e \in Events : fate[e] = "refused"})
    <2> DEFINE Refused == {e \in Events : fate[e] = "refused"}
    <2>1. TypeOK /\ UnfinishedExact /\ unfinished = 0 /\ Len(q) \in Nat
        BY <1>1, LenInNat DEF IndInv, Quiet
    <2>2. ~WorkerHolds
        <3> SUFFICES ASSUME WorkerHolds PROVE FALSE
            OBVIOUS
        <3>1. unfinished = Len(q) + 1
                 + (IF lock # None /\ pc[lock] = "evicted" THEN 1 ELSE 0)
            BY <2>1 DEF UnfinishedExact
        <3> QED
            BY <2>1, <3>1
    <2>3. Owing = {}
        BY <1>1, <2>1, <2>2
        DEF Owing, Quiet, WorkerHolds, TypeOK, Threads, CloserLabels, WorkerLabels
    <2>4. ~Failing
        BY <2>2 DEF Failing, WorkerHolds
    <2>5. \A e \in Events : fate[e] \notin {"queued", "offered"}
        BY <1>1, <2>1 DEF DrainedMeansSettled, Settled, HandsInv, Quiet, Carrying
    <2>6. Put = (LostEvents \cup rows) \cup Refused
        BY <1>1, <2>1, <2>5 DEF Put, LostEvents, RowsInv, Lost, TypeOK, Fates
    <2>7. LostEvents \cap rows = {} /\ (LostEvents \cup rows) \cap Refused = {}
        BY <1>1 DEF LostEvents, RowsInv, Lost
    <2>8. IsFiniteSet(LostEvents) /\ IsFiniteSet(rows) /\ IsFiniteSet(Refused)
        BY <1>1, <2>6, FS_Subset DEF LossInv
    <2>9. IsFiniteSet({}) /\ Cardinality({}) = 0
        BY FS_EmptySet, Zenon
    <2>10. /\ IsFiniteSet(LostEvents \cup rows)
           /\ Cardinality(LostEvents \cup rows) =
                Cardinality(LostEvents) + Cardinality(rows) - 0
        BY <2>7, <2>8, <2>9, FS_Union
    <2>11. Cardinality(Put) = Cardinality(LostEvents \cup rows) + Cardinality(Refused) - 0
        BY <2>6, <2>7, <2>8, <2>9, <2>10, FS_Union
    <2>12. Cardinality(LostEvents) = losses + unrecorded
        BY <1>1, <2>1, <2>3, <2>4, <2>9 DEF LedgerInv, LedgerExact, LossInv, TypeOK
    <2>13. /\ Cardinality(rows) \in Nat /\ Cardinality(Refused) \in Nat
           /\ losses \in Nat /\ unrecorded \in Nat
        BY <1>1, <2>8, FS_CardinalityType DEF LedgerInv
    <2> QED
        BY <2>10, <2>11, <2>12, <2>13
<1>2. IndInv /\ DrainedMeansSettled /\ HandsInv /\ LedgerInv /\ LossInv /\ RowsInv
        => TablesBalance
    BY <1>1 DEF TablesBalance
<1> QED
    BY <1>2, ImplementsQueue, QueueInvariants, FlushCorrect, HandsCorrect,
       LedgerInvCorrect, LossInvCorrect, RowsCorrect, PTL

-----------------------------------------------------------------------------
LEMMA UnionBound ==
    ASSUME NEW S, NEW T, IsFiniteSet(S), IsFiniteSet(T)
    PROVE  /\ IsFiniteSet(S \cup T)
           /\ Cardinality(S \cup T) <= Cardinality(S) + Cardinality(T)
<1>1. /\ IsFiniteSet(S \cup T) /\ IsFiniteSet(S \cap T)
      /\ Cardinality(S \cup T) =
           Cardinality(S) + Cardinality(T) - Cardinality(S \cap T)
    BY FS_Union, FS_Intersection
<1>2. /\ Cardinality(S) \in Nat /\ Cardinality(T) \in Nat
      /\ Cardinality(S \cap T) \in Nat
    BY <1>1, FS_CardinalityType
<1> QED
    BY <1>1, <1>2

LEMMA AddBound ==
    ASSUME NEW S, NEW x, IsFiniteSet(S)
    PROVE  /\ IsFiniteSet(S \cup {x})
           /\ Cardinality(S \cup {x}) <= Cardinality(S) + 1
           /\ Cardinality(S \cup {x}) \in Nat
           /\ Cardinality(S) \in Nat
<1>1. /\ IsFiniteSet(S \cup {x})
      /\ \/ Cardinality(S \cup {x}) = Cardinality(S)
         \/ Cardinality(S \cup {x}) = Cardinality(S) + 1
    BY FS_AddElement
<1>2. Cardinality(S) \in Nat
    BY FS_CardinalityType
<1> QED
    BY <1>1, <1>2

(* The accepted events that were lost, are not in the ledger, and that no  *)
(* thread is about to report.                                              *)
Missing ==
    {e \in Events :
       /\ fate[e] \in {"failed", "evicted"}
       /\ e \notin recorded
       /\ \A t \in Owing : victim[t] # e
       /\ ~(Failing /\ data[Worker] = e)}

(* Each of them was lost on the way by a callback that raised.             *)
MissingInv == IsFiniteSet(Missing) /\ Cardinality(Missing) <= unrecorded

LEMMA MissingStep ==
    ASSUME OnDrop, IndInv, CustodyInv, HandsInv, LedgerInv, MissingInv,
           [PipelineNext]_allVars
    PROVE  MissingInv'
<1> USE DEF Entries
<1>0. TypeOK /\ LockDiscipline /\ RoomInv /\ unrecorded \in Nat
    BY DEF IndInv, LedgerInv
<1>a. ASSUME Missing' \subseteq Missing, unrecorded' = unrecorded PROVE MissingInv'
    <2>1. IsFiniteSet(Missing') /\ Cardinality(Missing') <= Cardinality(Missing)
        BY <1>a, FS_Subset DEF MissingInv
    <2> QED
        BY <1>0, <1>a, <2>1, FS_CardinalityType DEF MissingInv
<1>1. CASE /\ Uneventful \/ \E p \in Producers, e \in Events : PutCall(p, e)
           /\ UNCHANGED Entries
    <2>1. Unmoved
        BY <1>0, <1>1, UneventfulStep, PutCallStep
    <2> QED
        BY <1>1, <1>a, <2>1 DEF Unmoved, Missing, Lost
<1>2. ASSUME NEW t \in Producers \cup {Worker}, UNCHANGED Entries,
             \/ t \in Producers /\ (CountNewest(t) \/ CountOldest(t))
             \/ t = Worker /\ FailCount
      PROVE  MissingInv'
    <2>1. /\ Owing' = Owing \cup {t} /\ t \notin Owing
          /\ victim' = [victim EXCEPT ![t] = data[t]] /\ data' = data
        BY <1>0, <1>2, CountStep
    <2>2. \A e \in Events : fate'[e] \in {"failed", "evicted"} => fate'[e] = fate[e]
        BY <1>0, <1>2 DEF CountNewest, CountOldest, FailCount, Settle, histVars, TypeOK
    <2>3. Failing => Failing' \/ t = Worker
        BY <1>0, <1>2, DistinctAssumption
        DEF CountNewest, CountOldest, FailCount, Failing, Goto, TypeOK, Threads
    <2>4. t \in Threads /\ Owing \subseteq Threads
        BY DEF Threads, Owing
    <2>5. victim'[t] = data[t] /\ \A s \in Owing : victim'[s] = victim[s]
        BY <1>0, <2>1, <2>4 DEF TypeOK
    <2> QED
        BY <1>2, <1>a, <2>1, <2>2, <2>3, <2>5 DEF Missing
<1>3. ASSUME NEW p \in Producers, Evict(p), UNCHANGED Entries PROVE MissingInv'
    <2>1. /\ pc[p] = "evict" /\ pc' = [pc EXCEPT ![p] = "evicted"]
          /\ fate' = [fate EXCEPT ![Head(q)] = "evicted"]
          /\ victim' = [victim EXCEPT ![p] = Head(q)]
          /\ data' = data /\ p # Worker
        BY <1>3, DistinctAssumption DEF Evict, Goto, Settle
    <2>2. Owing' = Owing /\ p \in Owing /\ (Failing' <=> Failing)
        BY <1>0, <2>1 DEF Owing, Failing, TypeOK, Threads
    <2>3. fate[victim[p]] = "offered"
        BY <1>0, <2>1 DEF HandsInv, CustodyInv, Carrying
    <2>4. \A s \in Owing : victim'[s] = IF s = p THEN Head(q) ELSE victim[s]
        BY <1>0, <2>1 DEF TypeOK, Owing
    <2>5. \A e \in Events : e # Head(q) => fate'[e] = fate[e]
        BY <1>0, <2>1 DEF TypeOK
    <2> QED
        BY <1>3, <1>a, <2>1, <2>2, <2>3, <2>4, <2>5 DEF Missing
<1>4. CASE InsertRaises
    <2>1. /\ pc[Worker] = "write" /\ pc' = [pc EXCEPT ![Worker] = "fail"]
          /\ fate' = [fate EXCEPT ![data[Worker]] = "failed"]
          /\ data' = data /\ victim' = victim
          /\ recorded' = recorded /\ unrecorded' = unrecorded
        BY <1>4 DEF InsertRaises, WriteRaises, Goto, Settle, dropVars
    <2>2. Owing' = Owing /\ ~Failing /\ Failing'
        BY <1>0, <2>1 DEF Owing, Failing, TypeOK, Threads
    <2>3. \A e \in Events : e # data[Worker] => fate'[e] = fate[e]
        BY <1>0, <2>1 DEF TypeOK
    <2> QED
        BY <1>a, <2>1, <2>2, <2>3 DEF Missing
<1>5. ASSUME NEW t \in Producers \cup {Worker}, RecordLoss(t) \/ RecordRaises(t)
      PROVE  MissingInv'
    <2>1. /\ t \in Owing /\ Owing' = Owing \ {t}
          /\ \A s \in Owing \ {t} : victim'[s] = victim[s]
          /\ fate' = fate
          /\ Failing' <=> Failing
          /\ Failing => data'[Worker] = data[Worker]
        BY <1>0, <1>5, ReportStep DEF RecordLoss, RecordRaises
    <2>2. CASE RecordLoss(t)
        <3>1. recorded' = recorded \cup {victim[t]} /\ unrecorded' = unrecorded
            BY <2>2 DEF RecordLoss
        <3> QED
            BY <1>a, <2>1, <3>1 DEF Missing
    <2>3. CASE RecordRaises(t)
        <3>1. recorded' = recorded /\ unrecorded' = unrecorded + 1
            BY <2>3 DEF RecordRaises
        <3>2. Missing' \subseteq Missing \cup {victim[t]}
            BY <2>1, <3>1 DEF Missing
        <3>3. /\ IsFiniteSet(Missing \cup {victim[t]})
              /\ Cardinality(Missing \cup {victim[t]}) <= Cardinality(Missing) + 1
              /\ Cardinality(Missing \cup {victim[t]}) \in Nat
              /\ Cardinality(Missing) \in Nat
            BY AddBound DEF MissingInv
        <3>4. /\ IsFiniteSet(Missing')
              /\ Cardinality(Missing') <= Cardinality(Missing \cup {victim[t]})
              /\ Cardinality(Missing') \in Nat
            BY <3>2, <3>3, FS_Subset, FS_CardinalityType
        <3> QED
            BY <1>0, <3>1, <3>3, <3>4 DEF MissingInv
    <2> QED
        BY <1>5, <2>2, <2>3
<1> QED
    BY <1>1, <1>2, <1>3, <1>4, <1>5, Kinds

LEMMA MissingCorrect ==
    ASSUME OnDrop
    PROVE  PipelineSpec => []MissingInv
<1>1. PipelineInit => MissingInv
    <2> SUFFICES ASSUME PipelineInit PROVE MissingInv
        OBVIOUS
    <2>1. Missing = {} /\ unrecorded = 0
        BY DEF PipelineInit, Init, Missing
    <2>2. IsFiniteSet({}) /\ Cardinality({}) = 0
        BY FS_EmptySet, Zenon
    <2> QED
        BY <2>1, <2>2 DEF MissingInv
<1>2. IndInv /\ CustodyInv /\ HandsInv /\ LedgerInv /\ MissingInv
        /\ [PipelineNext]_allVars => MissingInv'
    BY MissingStep
<1> QED
    BY <1>1, <1>2, ImplementsQueue, Inductive, CustodyCorrect, HandsCorrect,
       LedgerInvCorrect, PTL
    DEF PipelineSpec

(* Whatever the policy, a crash loses at most the queue, the event being   *)
(* written and the losses on their way to the ledger.                      *)
THEOREM CrashCorrect ==
    ASSUME OnDrop
    PROVE  PipelineSpec => []CrashLossBounded
<1>1. ASSUME IndInv, HandsInv, RowsInv, LedgerInv, MissingInv
      PROVE  CrashLossBounded
    <2> DEFINE Victims == {victim[t] : t \in Owing}
               Slots == {q[i] : i \in 1..Len(q)}
               AtRisk == {e \in Events :
                            result[e] = "true" /\ e \notin rows \cup recorded}
    <2>1. TypeOK /\ Len(q) \in Nat /\ Len(q) <= MaxSize /\ MaxSize \in Nat
        BY <1>1, LenInNat, SizeAssumption DEF IndInv, RoomInv
    <2>2. AtRisk \subseteq ((Slots \cup {data[Worker]}) \cup Victims) \cup Missing
        <3> SUFFICES ASSUME NEW e \in AtRisk, e \notin Slots, e # data[Worker],
                            e \notin Victims
                     PROVE  e \in Missing
            OBVIOUS
        <3>1. fate[e] \in {"queued", "failed", "evicted"}
            BY <1>1 DEF HandsInv, Taken, RowsInv
        <3>2. fate[e] # "queued"
            BY <1>1 DEF IndInv, SettledInv
        <3> QED
            BY <3>1, <3>2 DEF Missing
    <2>3. IsFiniteSet(Slots) /\ Cardinality(Slots) <= Len(q)
        <3>1. IsFiniteSet(1..Len(q)) /\ Cardinality(1..Len(q)) = Len(q)
            <4>1. /\ IsFiniteSet(1..Len(q))
                  /\ Cardinality(1..Len(q)) = IF 1 > Len(q) THEN 0 ELSE Len(q) - 1 + 1
                <5>1. 1 \in Int /\ Len(q) \in Int
                    BY <2>1
                <5> QED
                    BY <5>1, FS_Interval, Zenon
            <4> QED
                BY <2>1, <4>1
        <3> DEFINE f == [i \in 1..Len(q) |-> q[i]]
        <3>2. f \in Surjection(1..Len(q), Slots)
            BY DEF Surjection
        <3> HIDE DEF f, Slots
        <3>3. IsFiniteSet(Slots) /\ Cardinality(Slots) <= Cardinality(1..Len(q))
            BY <3>1, <3>2, FS_Surjection
        <3> QED
            BY <3>1, <3>3
    <2>4. IsFiniteSet(Victims) /\ Cardinality(Victims) <= Cardinality(Owing)
        <3> DEFINE f == [t \in Owing |-> victim[t]]
        <3>1. f \in Surjection(Owing, Victims)
            BY DEF Surjection
        <3> HIDE DEF f, Victims
        <3> QED
            BY <1>1, <3>1, FS_Surjection DEF LedgerInv
    <2>5. /\ IsFiniteSet(Slots \cup {data[Worker]})
          /\ Cardinality(Slots \cup {data[Worker]}) <= Len(q) + 1
          /\ Cardinality(Slots \cup {data[Worker]}) \in Nat
        <3>1. Cardinality(Slots) \in Nat
            BY <2>3, FS_CardinalityType
        <3> HIDE DEF Slots
        <3>2. /\ IsFiniteSet(Slots \cup {data[Worker]})
              /\ Cardinality(Slots \cup {data[Worker]}) <= Cardinality(Slots) + 1
              /\ Cardinality(Slots \cup {data[Worker]}) \in Nat
            BY <2>3, AddBound
        <3> QED
            BY <2>1, <2>3, <3>1, <3>2
    <2>6. IsFiniteSet(Missing) /\ Cardinality(Missing) <= unrecorded
        BY <1>1 DEF MissingInv
    <2> HIDE DEF Victims, Slots, AtRisk
    <2> DEFINE Holding == Slots \cup {data[Worker]}
               Known == Holding \cup Victims
    <2>7. /\ IsFiniteSet(Holding) /\ Cardinality(Holding) \in Nat
          /\ IsFiniteSet(Victims) /\ Cardinality(Victims) \in Nat
          /\ IsFiniteSet(Missing) /\ Cardinality(Missing) \in Nat
          /\ Cardinality(Owing) \in Nat /\ unrecorded \in Nat
        BY <1>1, <2>4, <2>5, <2>6, FS_CardinalityType DEF LedgerInv
    <2> HIDE DEF Holding
    <2>8. /\ IsFiniteSet(Known) /\ Cardinality(Known) \in Nat
          /\ Cardinality(Known) <= Cardinality(Holding) + Cardinality(Victims)
        BY <2>7, UnionBound, FS_CardinalityType
    <2> HIDE DEF Known
    <2>9. /\ IsFiniteSet(Known \cup Missing) /\ Cardinality(Known \cup Missing) \in Nat
          /\ Cardinality(Known \cup Missing) <= Cardinality(Known) + Cardinality(Missing)
        BY <2>7, <2>8, UnionBound, FS_CardinalityType
    <2>10. AtRisk \subseteq Known \cup Missing
        BY <2>2 DEF Known, Holding
    <2>11. /\ Cardinality(AtRisk) <= Cardinality(Known \cup Missing)
           /\ Cardinality(AtRisk) \in Nat
        BY <2>9, <2>10, FS_Subset, FS_CardinalityType
    <2>12. Cardinality(Holding) <= Len(q) + 1
        BY <2>5 DEF Holding
    <2>13. Cardinality(AtRisk) <= MaxSize + 1 + Cardinality(Owing) + unrecorded
        BY <2>1, <2>4, <2>6, <2>7, <2>8, <2>9, <2>11, <2>12
    <2> QED
        BY <2>13 DEF CrashLossBounded, AtRisk
<1> QED
    BY <1>1, ImplementsQueue, QueueInvariants, HandsCorrect, RowsCorrect,
       LedgerInvCorrect, MissingCorrect, PTL

-----------------------------------------------------------------------------
(* One thread closes the runtime (reset_runtime forgets it under the       *)
(* runtime's lock); when its close() was clean, the store closes after the *)
(* writer has ended, so only a storage fault fails an insert.              *)
OneCloser == \A c, d \in Closers : c = d
Clean == ~stop /\ \A c \in Closers : pc[c] # "abandoned"

CloserInv ==
    \A c \in Closers : /\ closed => pc[c] \notin {"running", "close"}
                       /\ pc[c] # "returned"

CloserKept ==
    /\ CloserInv'
    /\ stop => stop'
    /\ \A c \in Closers : pc[c] \in {"joined", "abandoned"} => pc'[c] = pc[c]

LEMMA CloserStep ==
    ASSUME OneCloser, TypeOK, CloserInv, [Next]_vars
    PROVE  CloserKept
<1> USE DistinctAssumption
    DEF TypeOK, Critical, WorkerHolds, Carrying, CustodyInv, RoomInv, LockDiscipline,
        Goto, Acquire, Release, Return, Settle, Blame, CountStore, Report, HasRoom,
        AfterFlush, TaskDone, queueVars, flagVars, lossVars, dropVars,
        histVars, exceptPc, Threads, ProducerLabels, CloserLabels, WorkerLabels
<1> USE DEF OneCloser, CloserInv, CloserKept
<1>1. ASSUME NEW p \in Producers, NEW e \in Events, PutCall(p, e)
    PROVE  CloserKept
    BY <1>1 DEF PutCall
<1>2. ASSUME NEW p \in Producers, PutRefused(p) PROVE CloserKept
    BY <1>2 DEF PutRefused
<1>3. ASSUME NEW p \in Producers, PutEnter(p) PROVE CloserKept
    BY <1>3 DEF PutEnter
<1>4. ASSUME NEW p \in Producers, TryAccepted(p) PROVE CloserKept
    BY <1>4 DEF TryAccepted
<1>5. ASSUME NEW p \in Producers, TryFull(p) PROVE CloserKept
    BY <1>5 DEF TryFull
<1>6. ASSUME NEW p \in Producers, CountLoad(p) PROVE CloserKept
    BY <1>6 DEF CountLoad
<1>7. ASSUME NEW p \in Producers, CountSilently(p) PROVE CloserKept
    BY <1>7 DEF CountSilently
<1>8. ASSUME NEW p \in Producers, CountNewest(p) PROVE CloserKept
    BY <1>8 DEF CountNewest
<1>9. ASSUME NEW p \in Producers, CountOldest(p) PROVE CloserKept
    BY <1>9 DEF CountOldest
<1>10. ASSUME NEW p \in Producers, Evict(p) PROVE CloserKept
    BY <1>10 DEF Evict
<1>11. ASSUME NEW p \in Producers, EvictTaskDone(p) PROVE CloserKept
    BY <1>11 DEF EvictTaskDone
<1>12. ASSUME NEW p \in Producers, EvictEmpty(p) PROVE CloserKept
    BY <1>12 DEF EvictEmpty
<1>13. ASSUME NEW p \in Producers, RePut(p) PROVE CloserKept
    BY <1>13 DEF RePut
<1>14. ASSUME NEW p \in Producers, PutReport(p) PROVE CloserKept
    BY <1>14 DEF PutReport
<1>15. ASSUME NEW p \in Producers, FlushCall(p) PROVE CloserKept
    BY <1>15 DEF FlushCall
<1>16. ASSUME NEW p \in Producers, FlushDrained(p) PROVE CloserKept
    BY <1>16 DEF FlushDrained
<1>17. ASSUME NEW p \in Producers, FlushTimeout(p) PROVE CloserKept
    BY <1>17 DEF FlushTimeout
<1>18. ASSUME NEW c \in Closers, CloseCall(c) PROVE CloserKept
    BY <1>18 DEF CloseCall
<1>19. ASSUME NEW c \in Closers, CloseAgain(c) PROVE CloserKept
    BY <1>19 DEF CloseAgain
<1>20. ASSUME NEW c \in Closers, CloseEnter(c) PROVE CloserKept
    BY <1>20 DEF CloseEnter
<1>21. ASSUME NEW c \in Closers, SentinelPut(c) PROVE CloserKept
    BY <1>21 DEF SentinelPut
<1>22. ASSUME NEW c \in Closers, SentinelFull(c) PROVE CloserKept
    BY <1>22 DEF SentinelFull
<1>23. ASSUME NEW c \in Closers, FlushDrained(c) PROVE CloserKept
    BY <1>23 DEF FlushDrained
<1>24. ASSUME NEW c \in Closers, FlushTimeout(c) PROVE CloserKept
    BY <1>24 DEF FlushTimeout
<1>25. ASSUME NEW c \in Closers, JoinExited(c) PROVE CloserKept
    BY <1>25 DEF JoinExited
<1>26. ASSUME NEW c \in Closers, JoinTimeout(c) PROVE CloserKept
    BY <1>26 DEF JoinTimeout
<1>27. CASE Get
    BY <1>27 DEF Get
<1>28. CASE GetEmpty
    BY <1>28 DEF GetEmpty
<1>29. CASE StopCheck
    BY <1>29 DEF StopCheck
<1>30. CASE SentinelDone
    BY <1>30 DEF SentinelDone
<1>31. CASE WriteOk
    BY <1>31 DEF WriteOk
<1>32. CASE WriteRaises
    BY <1>32 DEF WriteRaises
<1>33. CASE FailEnter
    BY <1>33 DEF FailEnter
<1>34. CASE CountLoad(Worker)
    BY <1>34 DEF CountLoad
<1>35. CASE FailCount
    BY <1>35 DEF FailCount
<1>36. CASE FailReport
    BY <1>36 DEF FailReport
<1>37. CASE ItemDone
    BY <1>37 DEF ItemDone
<1>38. CASE UNCHANGED vars
    BY <1>38 DEF vars
<1> QED
    BY <1>1, <1>2, <1>3, <1>4, <1>5, <1>6, <1>7, <1>8, <1>9, <1>10, <1>11,
       <1>12, <1>13, <1>14, <1>15, <1>16, <1>17, <1>18, <1>19, <1>20,
       <1>21, <1>22, <1>23, <1>24, <1>25, <1>26, <1>27, <1>28, <1>29,
       <1>30, <1>31, <1>32, <1>33, <1>34, <1>35, <1>36, <1>37, <1>38
    DEF Next, PutStep, PutInside, CountReported, FlushStep, CloseStep,
        WorkerStep, WorkerInside
FaultInv ==
    /\ faults \in Nat
    /\ ~storeOpen => \E c \in Closers : pc[c] \in {"joined", "abandoned"}
    /\ Clean => IsFiniteSet(Failures) /\ Cardinality(Failures) <= faults

(* Every step but a failing insert leaves the failures and the faults.     *)
LEMMA FailuresKept ==
    ASSUME OnDrop, IndInv, CustodyInv, HandsInv, [PipelineNext]_allVars
    PROVE  InsertRaises \/ Failures' = Failures
<1>0. TypeOK /\ LockDiscipline /\ RoomInv
    BY DEF IndInv
<1>1. CASE Uneventful \/ \E p \in Producers, e \in Events : PutCall(p, e)
    <2>1. Unmoved
        BY <1>0, <1>1, UneventfulStep, PutCallStep
    <2> QED
        BY <2>1 DEF Unmoved, Failures, Lost
<1>2. ASSUME NEW p \in Producers, CountNewest(p) \/ CountOldest(p) \/ Evict(p)
      PROVE  Failures' = Failures
    <2>1. CASE CountNewest(p)
        <3>1. fate' = [fate EXCEPT ![data[p]] = "overflow"] /\ fate[data[p]] = "offered"
            BY <2>1 DEF CountNewest, CountStore, Settle, CustodyInv, Carrying
        <3> QED
            BY <1>0, <3>1 DEF Failures, TypeOK
    <2>2. CASE CountOldest(p)
        BY <2>2 DEF CountOldest, histVars, Failures
    <2>3. CASE Evict(p)
        <3>1. /\ fate' = [fate EXCEPT ![Head(q)] = "evicted"]
              /\ Head(q) \in Events => fate[Head(q)] = "queued"
            <4>1. q # <<>> /\ q \in Seq(Events \cup {Sentinel})
                BY <1>0, <2>3 DEF Evict, TypeOK
            <4>2. 1 \in 1..Len(q) /\ Head(q) = q[1]
                BY <4>1
            <4> QED
                BY <2>3, <4>2, DistinctAssumption DEF Evict, Settle, CustodyInv
        <3> QED
            BY <1>0, <3>1 DEF Failures, TypeOK
    <2> QED
        BY <1>2, <2>1, <2>2, <2>3
<1>3. CASE FailCount
    BY <1>3 DEF FailCount, histVars, Failures
<1>4. ASSUME NEW t \in Producers \cup {Worker}, RecordLoss(t) \/ RecordRaises(t)
      PROVE  Failures' = Failures
    <2>1. fate' = fate
        BY <1>0, <1>4, ReportStep DEF RecordLoss, RecordRaises
    <2> QED
        BY <2>1 DEF Failures
<1> QED
    BY <1>1, <1>2, <1>3, <1>4, Kinds

LEMMA FaultsGrow ==
    ASSUME [PipelineNext]_allVars, faults \in Nat
    PROVE  faults' \in Nat /\ faults' >= faults
BY DEF PipelineNext, HookCall, EmitFails, EndFlush, QueueStep, Insert, InsertRaises,
   RecordLoss, RecordRaises, StatementRaises, StoreClose, Terminated, allVars, storeVars

LEMMA StoreKept ==
    ASSUME [PipelineNext]_allVars
    PROVE  storeOpen' = storeOpen \/ \E c \in Closers : StoreClose(c)
BY DEF PipelineNext, HookCall, EmitFails, EndFlush, QueueStep, Insert, InsertRaises,
   RecordLoss, RecordRaises, Terminated, allVars, storeVars

LEMMA FaultStep ==
    ASSUME OneCloser, OnDrop, IndInv, CustodyInv, HandsInv, CloserInv, FaultInv,
           [PipelineNext]_allVars
    PROVE  FaultInv'
<1>0. /\ TypeOK /\ LockDiscipline /\ RoomInv /\ EndInv
      /\ CloserKept
    BY StepOfQueue, CloserStep DEF IndInv
<1>1. faults' \in Nat /\ faults' >= faults
    BY FaultsGrow DEF FaultInv
<1>2. ~storeOpen' => \E c \in Closers : pc'[c] \in {"joined", "abandoned"}
    <2>1. CASE storeOpen' = storeOpen
        BY <1>0, <2>1 DEF FaultInv, CloserKept
    <2>2. ASSUME NEW c \in Closers, StoreClose(c)
          PROVE  \E d \in Closers : pc'[d] \in {"joined", "abandoned"}
        BY <2>2 DEF StoreClose, CloserInv, vars
    <2> QED
        BY <2>1, <2>2, StoreKept
<1>3. Clean' => Clean
    BY <1>0 DEF Clean, CloserKept, CloserInv
<1>4. Clean' => IsFiniteSet(Failures') /\ Cardinality(Failures') <= faults'
    <2> SUFFICES ASSUME Clean'
                 PROVE  IsFiniteSet(Failures') /\ Cardinality(Failures') <= faults'
        OBVIOUS
    <2>1. /\ Clean /\ IsFiniteSet(Failures) /\ Cardinality(Failures) <= faults
          /\ faults \in Nat
        BY <1>3 DEF FaultInv
    <2>2. Cardinality(Failures) \in Nat
        BY <2>1, FS_CardinalityType
    <2>3. CASE Failures' = Failures
        BY <1>1, <2>1, <2>2, <2>3
    <2>4. CASE InsertRaises
        <3>1. /\ pc[Worker] = "write"
              /\ fate' = [fate EXCEPT ![data[Worker]] = "failed"]
            BY <2>4 DEF InsertRaises, WriteRaises, Settle
        <3>2. storeOpen
            BY <1>0, <2>1, <3>1 DEF FaultInv, EndInv, Clean
        <3>3. faults' = faults + 1
            BY <2>4, <3>2 DEF InsertRaises, StatementRaises
        <3>4. Failures' \subseteq Failures \cup {data[Worker]}
            BY <1>0, <3>1 DEF Failures, TypeOK
        <3>5. /\ IsFiniteSet(Failures \cup {data[Worker]})
              /\ Cardinality(Failures \cup {data[Worker]}) <= Cardinality(Failures) + 1
              /\ Cardinality(Failures \cup {data[Worker]}) \in Nat
            BY <2>1, AddBound
        <3>6. /\ IsFiniteSet(Failures')
              /\ Cardinality(Failures') <= Cardinality(Failures \cup {data[Worker]})
              /\ Cardinality(Failures') \in Nat
            BY <3>4, <3>5, FS_Subset, FS_CardinalityType
        <3> QED
            BY <2>1, <2>2, <3>3, <3>5, <3>6
    <2> QED
        BY <2>3, <2>4, FailuresKept
<1> QED
    BY <1>1, <1>2, <1>4 DEF FaultInv

(* A reset whose queue.close() ended cleanly costs no accepted event: only *)
(* storage faults make an insert fail, under every policy.                 *)
THEOREM CleanResetCorrect ==
    ASSUME OneCloser, OnDrop
    PROVE  PipelineSpec => []CleanResetStoresAll
<1>1. PipelineInit => CloserInv /\ FaultInv
    <2> SUFFICES ASSUME PipelineInit PROVE CloserInv /\ FaultInv
        OBVIOUS
    <2>1. Failures = {} /\ faults = 0 /\ storeOpen
        BY DEF PipelineInit, Init, Failures
    <2>2. IsFiniteSet({}) /\ Cardinality({}) = 0
        BY FS_EmptySet, Zenon
    <2>3. CloserInv
        BY DistinctAssumption DEF PipelineInit, Init, CloserInv, Threads
    <2> QED
        BY <2>1, <2>2, <2>3 DEF FaultInv
<1>2. IndInv /\ CustodyInv /\ HandsInv /\ CloserInv /\ FaultInv /\ [PipelineNext]_allVars
        => CloserInv' /\ FaultInv'
    BY FaultStep, CloserStep, StepOfQueue DEF CloserKept, IndInv
<1>3. FaultInv => CleanResetStoresAll
    BY DEF FaultInv, CleanResetStoresAll, Clean, Failures
<1> QED
    BY <1>1, <1>2, <1>3, ImplementsQueue, Inductive, CustodyCorrect, HandsCorrect, PTL
    DEF PipelineSpec

=============================================================================
