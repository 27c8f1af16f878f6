-------------------------- MODULE EventQueueProofs --------------------------
(***************************************************************************)
(* Theorems about EventQueue, for every value of its constants.  IndInv is *)
(* the inductive invariant.  Each of its parts has a lemma that a step of  *)
(* Next preserves it, with one step per action; the part that carries the  *)
(* rest is LockDiscipline, since every producer and closer changes the     *)
(* queue under self._lock and the worker, which does not, only removes.    *)
(***************************************************************************)
EXTENDS EventQueue, TLAPS, SequenceTheorems

(* The items of queue.Queue, and what a put and a get do to the list of them:*)
(* an append at the end, a removal at the front, by index.                 *)
Items == Events \cup {Sentinel}

Appended(x) ==
    /\ q' \in Seq(Items)
    /\ Len(q') = Len(q) + 1
    /\ \A i \in 1..Len(q) : i \in 1..Len(q') /\ q'[i] = q[i]
    /\ \A i \in 1..Len(q') : i \in 1..Len(q) \/ (i = Len(q') /\ q'[i] = x)
    /\ Len(q') \in 1..Len(q') /\ q'[Len(q')] = x

Dequeued ==
    /\ q' \in Seq(Items)
    /\ Len(q) >= 1 /\ Len(q') = Len(q) - 1
    /\ Head(q) = q[1] /\ Head(q) \in Items
    /\ \A i \in 1..Len(q') : i + 1 \in 1..Len(q) /\ q'[i] = q[i + 1]
    /\ \A i \in 1..Len(q) : i = 1 \/ (i - 1 \in 1..Len(q') /\ q'[i - 1] = q[i])

(* The length of the queue is a natural number.                            *)
LEMMA LenInNat == TypeOK => Len(q) \in Nat
BY LenProperties DEF TypeOK

(* What appending an item does to the queue.                               *)
LEMMA EnqueueFacts ==
    ASSUME TypeOK, NEW x \in Items, Enqueue(x)
    PROVE  Appended(x) /\ unfinished' = unfinished + 1 /\ unfinished' \in Nat
<1>1. q \in Seq(Items) /\ q' = Append(q, x) /\ Len(q) \in Nat
    BY LenInNat DEF TypeOK, Items, Enqueue
<1>2. /\ q' \in Seq(Items)
      /\ Len(q') = Len(q) + 1
      /\ \A i \in 1..Len(q) : q'[i] = q[i]
      /\ q'[Len(q) + 1] = x
    BY <1>1, AppendProperties
<1> QED
    BY <1>1, <1>2 DEF Appended, Enqueue, TypeOK

(* What taking the head does to the queue.                                 *)
LEMMA DequeueFacts ==
    ASSUME TypeOK, q # <<>>, q' = Tail(q)
    PROVE  Dequeued
<1>1. q \in Seq(Items) /\ Len(q) \in Nat
    BY LenInNat DEF TypeOK, Items
<1>2. /\ q' \in Seq(Items) /\ Len(q') = Len(q) - 1
      /\ Head(q) \in Items
      /\ \A i \in 1..Len(q') : q'[i] = q[i + 1]
    BY <1>1, HeadTailProperties
<1>3. Len(q) >= 1 /\ Head(q) = q[1]
    BY <1>1, EmptySeq
<1> QED
    BY <1>1, <1>2, <1>3 DEF Dequeued

(* Counts stay counts when one of them is increased.                       *)
LEMMA BumpTyped ==
    ASSUME NEW S, NEW f \in [S -> Nat], NEW x
    PROVE  [f EXCEPT ![x] = @ + 1] \in [S -> Nat]
<1>1. CASE x \in S
    BY <1>1
<1>2. CASE x \notin S
    <2>1. [f EXCEPT ![x] = @ + 1] = f
        BY <1>2
    <2> QED BY <2>1
<1> QED BY <1>1, <1>2

-----------------------------------------------------------------------------
(* Taking self._lock needs it free, and every critical section ends by     *)
(* releasing it or hands it on to the next label of the same section.      *)
LEMMA LockStep ==
    TypeOK /\ LockDiscipline /\ [Next]_vars => LockDiscipline'
<1> SUFFICES ASSUME TypeOK, LockDiscipline, [Next]_vars
             PROVE  LockDiscipline'
    OBVIOUS
<1> USE DistinctAssumption
    DEF TypeOK, LockDiscipline, Critical,
        Goto, Acquire, Release, Return, Settle, Blame, CountStore, Report, HasRoom,
        AfterFlush, TaskDone, queueVars, flagVars, lossVars, dropVars,
        histVars, exceptPc, Threads
<1>1. ASSUME NEW p \in Producers, NEW e \in Events, PutCall(p, e)
    PROVE  LockDiscipline'
    BY <1>1 DEF PutCall
<1>2. ASSUME NEW p \in Producers, PutRefused(p) PROVE LockDiscipline'
    BY <1>2 DEF PutRefused
<1>3. ASSUME NEW p \in Producers, PutEnter(p) PROVE LockDiscipline'
    BY <1>3 DEF PutEnter
<1>4. ASSUME NEW p \in Producers, TryAccepted(p) PROVE LockDiscipline'
    BY <1>4 DEF TryAccepted
<1>5. ASSUME NEW p \in Producers, TryFull(p) PROVE LockDiscipline'
    BY <1>5 DEF TryFull
<1>6. ASSUME NEW p \in Producers, CountLoad(p) PROVE LockDiscipline'
    BY <1>6 DEF CountLoad
<1>7. ASSUME NEW p \in Producers, CountSilently(p) PROVE LockDiscipline'
    BY <1>7 DEF CountSilently
<1>8. ASSUME NEW p \in Producers, CountNewest(p) PROVE LockDiscipline'
    BY <1>8 DEF CountNewest
<1>9. ASSUME NEW p \in Producers, CountOldest(p) PROVE LockDiscipline'
    BY <1>9 DEF CountOldest
<1>10. ASSUME NEW p \in Producers, Evict(p) PROVE LockDiscipline'
    BY <1>10 DEF Evict
<1>11. ASSUME NEW p \in Producers, EvictTaskDone(p) PROVE LockDiscipline'
    BY <1>11 DEF EvictTaskDone
<1>12. ASSUME NEW p \in Producers, EvictEmpty(p) PROVE LockDiscipline'
    BY <1>12 DEF EvictEmpty
<1>13. ASSUME NEW p \in Producers, RePut(p) PROVE LockDiscipline'
    BY <1>13 DEF RePut
<1>14. ASSUME NEW p \in Producers, PutReport(p) PROVE LockDiscipline'
    BY <1>14 DEF PutReport
<1>15. ASSUME NEW p \in Producers, FlushCall(p) PROVE LockDiscipline'
    BY <1>15 DEF FlushCall
<1>16. ASSUME NEW p \in Producers, FlushDrained(p) PROVE LockDiscipline'
    BY <1>16 DEF FlushDrained
<1>17. ASSUME NEW p \in Producers, FlushTimeout(p) PROVE LockDiscipline'
    BY <1>17 DEF FlushTimeout
<1>18. ASSUME NEW c \in Closers, CloseCall(c) PROVE LockDiscipline'
    BY <1>18 DEF CloseCall
<1>19. ASSUME NEW c \in Closers, CloseAgain(c) PROVE LockDiscipline'
    BY <1>19 DEF CloseAgain
<1>20. ASSUME NEW c \in Closers, CloseEnter(c) PROVE LockDiscipline'
    BY <1>20 DEF CloseEnter
<1>21. ASSUME NEW c \in Closers, SentinelPut(c) PROVE LockDiscipline'
    BY <1>21 DEF SentinelPut
<1>22. ASSUME NEW c \in Closers, SentinelFull(c) PROVE LockDiscipline'
    BY <1>22 DEF SentinelFull
<1>23. ASSUME NEW c \in Closers, FlushDrained(c) PROVE LockDiscipline'
    BY <1>23 DEF FlushDrained
<1>24. ASSUME NEW c \in Closers, FlushTimeout(c) PROVE LockDiscipline'
    BY <1>24 DEF FlushTimeout
<1>25. ASSUME NEW c \in Closers, JoinExited(c) PROVE LockDiscipline'
    BY <1>25 DEF JoinExited
<1>26. ASSUME NEW c \in Closers, JoinTimeout(c) PROVE LockDiscipline'
    BY <1>26 DEF JoinTimeout
<1>27. CASE Get
    BY <1>27 DEF Get
<1>28. CASE GetEmpty
    BY <1>28 DEF GetEmpty
<1>29. CASE StopCheck
    BY <1>29 DEF StopCheck
<1>30. CASE SentinelDone
    BY <1>30 DEF SentinelDone
<1>31. CASE WriteOk
    BY <1>31 DEF WriteOk
<1>32. CASE WriteRaises
    BY <1>32 DEF WriteRaises
<1>33. CASE FailEnter
    BY <1>33 DEF FailEnter
<1>34. CASE CountLoad(Worker)
    BY <1>34 DEF CountLoad
<1>35. CASE FailCount
    BY <1>35 DEF FailCount
<1>36. CASE FailReport
    BY <1>36 DEF FailReport
<1>37. CASE ItemDone
    BY <1>37 DEF ItemDone
<1>38. CASE UNCHANGED vars
    BY <1>38 DEF vars
<1> QED
    BY <1>1, <1>2, <1>3, <1>4, <1>5, <1>6, <1>7, <1>8, <1>9, <1>10, <1>11,
       <1>12, <1>13, <1>14, <1>15, <1>16, <1>17, <1>18, <1>19, <1>20,
       <1>21, <1>22, <1>23, <1>24, <1>25, <1>26, <1>27, <1>28, <1>29,
       <1>30, <1>31, <1>32, <1>33, <1>34, <1>35, <1>36, <1>37, <1>38
    DEF Next, PutStep, PutInside, CountReported, FlushStep, CloseStep,
        WorkerStep, WorkerInside

(* Types.  unfinished stays natural because whoever calls task_done still  *)
(* holds an item, which is UnfinishedExact.                                *)
LEMMA TypeStep ==
    TypeOK /\ LockDiscipline /\ UnfinishedExact /\ [Next]_vars => TypeOK'
<1> SUFFICES ASSUME TypeOK, LockDiscipline, UnfinishedExact, [Next]_vars
             PROVE  TypeOK'
    OBVIOUS
<1> USE DistinctAssumption
    DEF TypeOK, LockDiscipline, UnfinishedExact, Critical, WorkerHolds,
        ProducerLabels, CloserLabels, WorkerLabels, Lost, Fates, Reasons,
        Goto, Acquire, Release, Return, Settle, Blame, CountStore, Report, HasRoom,
        AfterFlush, TaskDone, queueVars, flagVars, lossVars, dropVars,
        histVars, exceptPc, Threads
<1>1. ASSUME NEW p \in Producers, NEW e \in Events, PutCall(p, e) PROVE TypeOK'
    BY <1>1 DEF PutCall
<1>2. ASSUME NEW p \in Producers, PutRefused(p) PROVE TypeOK'
    BY <1>2 DEF PutRefused
<1>3. ASSUME NEW p \in Producers, PutEnter(p) PROVE TypeOK'
    BY <1>3 DEF PutEnter
<1>4. ASSUME NEW p \in Producers, TryAccepted(p) PROVE TypeOK'
    <2>1. q' \in Seq(Events \cup {Sentinel}) /\ unfinished' \in Nat
        BY <1>4, EnqueueFacts DEF TryAccepted, Items, Appended
    <2>2. /\ fate' \in [Events -> Fates]
          /\ reports' \in [Events -> Nat]
          /\ result' \in [Events -> {"none", "true", "false"}]
        BY <1>4 DEF TryAccepted
    <2>3. /\ pc' \in [Threads -> ProducerLabels \cup CloserLabels \cup WorkerLabels]
          /\ data' \in [Threads -> Events \cup {Sentinel, None}]
        BY <1>4 DEF TryAccepted
    <2> QED
        BY <1>4, <2>1, <2>2, <2>3 DEF TryAccepted
<1>5. ASSUME NEW p \in Producers, TryFull(p) PROVE TypeOK'
    BY <1>5 DEF TryFull
<1>6. ASSUME NEW p \in Producers, CountLoad(p) PROVE TypeOK'
    BY <1>6 DEF CountLoad
<1>7. ASSUME NEW p \in Producers, CountSilently(p) PROVE TypeOK'
    <2>1. dropped' \in Nat /\ reg' \in [Threads -> Nat]
        BY <1>7 DEF CountSilently
    <2>2. /\ fate' \in [Events -> Fates]
          /\ reports' \in [Events -> Nat]
          /\ result' \in [Events -> {"none", "true", "false"}]
        BY <1>7 DEF CountSilently
    <2>3. /\ pc' \in [Threads -> ProducerLabels \cup CloserLabels \cup WorkerLabels]
          /\ data' \in [Threads -> Events \cup {Sentinel, None}]
        BY <1>7 DEF CountSilently
    <2> QED
        BY <1>7, <2>1, <2>2, <2>3 DEF CountSilently
<1>8. ASSUME NEW p \in Producers, CountNewest(p) PROVE TypeOK'
    <2>1. dropped' \in Nat /\ reg' \in [Threads -> Nat]
        BY <1>8 DEF CountNewest
    <2>2. /\ reason' \in [Threads -> Reasons]
          /\ victim' \in [Threads -> Events \cup {Sentinel, None}]
        BY <1>8 DEF CountNewest
    <2>3. /\ fate' \in [Events -> Fates]
          /\ reports' \in [Events -> Nat]
          /\ result' \in [Events -> {"none", "true", "false"}]
        BY <1>8 DEF CountNewest
    <2>4. /\ pc' \in [Threads -> ProducerLabels \cup CloserLabels \cup WorkerLabels]
          /\ data' \in [Threads -> Events \cup {Sentinel, None}]
        BY <1>8 DEF CountNewest
    <2> QED
        BY <1>8, <2>1, <2>2, <2>3, <2>4 DEF CountNewest
<1>9. ASSUME NEW p \in Producers, CountOldest(p) PROVE TypeOK'
    <2>1. dropped' \in Nat /\ reg' \in [Threads -> Nat]
        BY <1>9 DEF CountOldest
    <2>2. /\ reason' \in [Threads -> Reasons]
          /\ victim' \in [Threads -> Events \cup {Sentinel, None}]
        BY <1>9 DEF CountOldest
    <2>3. /\ pc' \in [Threads -> ProducerLabels \cup CloserLabels \cup WorkerLabels]
          /\ data' \in [Threads -> Events \cup {Sentinel, None}]
        BY <1>9 DEF CountOldest
    <2> QED
        BY <1>9, <2>1, <2>2, <2>3 DEF CountOldest
<1>10. ASSUME NEW p \in Producers, Evict(p) PROVE TypeOK'
    <2>1. /\ q' \in Seq(Events \cup {Sentinel})
          /\ Head(q) \in Events \cup {Sentinel}
        BY <1>10, HeadTailProperties DEF Evict
    <2>2. /\ reason' \in [Threads -> Reasons]
          /\ victim' \in [Threads -> Events \cup {Sentinel, None}]
        BY <1>10 DEF Evict
    <2>3. /\ fate' \in [Events -> Fates]
          /\ reports' \in [Events -> Nat]
          /\ result' \in [Events -> {"none", "true", "false"}]
        BY <1>10 DEF Evict
    <2>4. /\ pc' \in [Threads -> ProducerLabels \cup CloserLabels \cup WorkerLabels]
          /\ data' \in [Threads -> Events \cup {Sentinel, None}]
        BY <1>10 DEF Evict
    <2> QED
        BY <1>10, <2>1, <2>2, <2>3, <2>4 DEF Evict
<1>11. ASSUME NEW p \in Producers, EvictTaskDone(p) PROVE TypeOK'
    <2>1. /\ lock = p
          /\ p # None
          /\ pc[p] = "evicted"
          /\ unfinished' = unfinished - 1
        BY <1>11 DEF EvictTaskDone
    <2>2. unfinished' \in Nat
        BY <2>1, LenInNat
    <2>3. /\ pc' \in [Threads -> ProducerLabels \cup CloserLabels \cup WorkerLabels]
          /\ data' \in [Threads -> Events \cup {Sentinel, None}]
        BY <1>11 DEF EvictTaskDone
    <2> QED
        BY <1>11, <2>1, <2>2, <2>3 DEF EvictTaskDone
<1>12. ASSUME NEW p \in Producers, EvictEmpty(p) PROVE TypeOK'
    BY <1>12 DEF EvictEmpty
<1>13. ASSUME NEW p \in Producers, RePut(p) PROVE TypeOK'
    <2>1. q' \in Seq(Events \cup {Sentinel}) /\ unfinished' \in Nat
        BY <1>13, EnqueueFacts, data[p] \in Events DEF RePut, Items,
            Appended
    <2>2. /\ fate' \in [Events -> Fates]
          /\ reports' \in [Events -> Nat]
          /\ result' \in [Events -> {"none", "true", "false"}]
        BY <1>13 DEF RePut
    <2>3. /\ reason' \in [Threads -> Reasons]
          /\ victim' \in [Threads -> Events \cup {Sentinel, None}]
        BY <1>13 DEF RePut
    <2>4. /\ pc' \in [Threads -> ProducerLabels \cup CloserLabels \cup WorkerLabels]
          /\ data' \in [Threads -> Events \cup {Sentinel, None}]
        BY <1>13 DEF RePut
    <2> QED
        BY <1>13, <2>1, <2>2, <2>3, <2>4 DEF RePut
<1>14. ASSUME NEW p \in Producers, PutReport(p) PROVE TypeOK'
    <2>1. /\ reason' \in [Threads -> Reasons]
          /\ victim' \in [Threads -> Events \cup {Sentinel, None}]
        BY <1>14 DEF PutReport
    <2>2. reports' \in [Events -> Nat]
        BY <1>14, BumpTyped DEF PutReport
    <2>3. /\ fate' \in [Events -> Fates]
          /\ result' \in [Events -> {"none", "true", "false"}]
        BY <1>14 DEF PutReport
    <2>4. /\ pc' \in [Threads -> ProducerLabels \cup CloserLabels \cup WorkerLabels]
          /\ data' \in [Threads -> Events \cup {Sentinel, None}]
        BY <1>14 DEF PutReport
    <2> QED
        BY <1>14, <2>1, <2>2, <2>3, <2>4 DEF PutReport
<1>15. ASSUME NEW p \in Producers, FlushCall(p) PROVE TypeOK'
    BY <1>15 DEF FlushCall
<1>16. ASSUME NEW p \in Producers, FlushDrained(p) PROVE TypeOK'
    BY <1>16 DEF FlushDrained
<1>17. ASSUME NEW p \in Producers, FlushTimeout(p) PROVE TypeOK'
    BY <1>17 DEF FlushTimeout
<1>18. ASSUME NEW c \in Closers, CloseCall(c) PROVE TypeOK'
    BY <1>18 DEF CloseCall
<1>19. ASSUME NEW c \in Closers, CloseAgain(c) PROVE TypeOK'
    BY <1>19 DEF CloseAgain
<1>20. ASSUME NEW c \in Closers, CloseEnter(c) PROVE TypeOK'
    BY <1>20 DEF CloseEnter
<1>21. ASSUME NEW c \in Closers, SentinelPut(c) PROVE TypeOK'
    <2>1. q' \in Seq(Events \cup {Sentinel}) /\ unfinished' \in Nat
        BY <1>21, EnqueueFacts DEF SentinelPut, Items, Appended
    <2>2. /\ pc' \in [Threads -> ProducerLabels \cup CloserLabels \cup WorkerLabels]
          /\ data' \in [Threads -> Events \cup {Sentinel, None}]
        BY <1>21 DEF SentinelPut
    <2> QED
        BY <1>21, <2>1, <2>2 DEF SentinelPut
<1>22. ASSUME NEW c \in Closers, SentinelFull(c) PROVE TypeOK'
    BY <1>22 DEF SentinelFull
<1>23. ASSUME NEW c \in Closers, FlushDrained(c) PROVE TypeOK'
    BY <1>23 DEF FlushDrained
<1>24. ASSUME NEW c \in Closers, FlushTimeout(c) PROVE TypeOK'
    BY <1>24 DEF FlushTimeout
<1>25. ASSUME NEW c \in Closers, JoinExited(c) PROVE TypeOK'
    BY <1>25 DEF JoinExited
<1>26. ASSUME NEW c \in Closers, JoinTimeout(c) PROVE TypeOK'
    BY <1>26 DEF JoinTimeout
<1>27. CASE Get
    BY <1>27 DEF Get
<1>28. CASE GetEmpty
    BY <1>28 DEF GetEmpty
<1>29. CASE StopCheck
    BY <1>29 DEF StopCheck
<1>30. CASE SentinelDone
    BY <1>30 DEF SentinelDone
<1>31. CASE WriteOk
    BY <1>31 DEF WriteOk
<1>32. CASE WriteRaises
    BY <1>32 DEF WriteRaises
<1>33. CASE FailEnter
    BY <1>33 DEF FailEnter
<1>34. CASE CountLoad(Worker)
    BY <1>34 DEF CountLoad
<1>35. CASE FailCount
    <2>1. dropped' \in Nat /\ reg' \in [Threads -> Nat]
        BY <1>35 DEF FailCount
    <2>2. /\ reason' \in [Threads -> Reasons]
          /\ victim' \in [Threads -> Events \cup {Sentinel, None}]
        BY <1>35 DEF FailCount
    <2>3. /\ pc' \in [Threads -> ProducerLabels \cup CloserLabels \cup WorkerLabels]
          /\ data' \in [Threads -> Events \cup {Sentinel, None}]
        BY <1>35 DEF FailCount
    <2>4. pc'[Worker] \in {"callback", "taskdone"} /\ \A t \in Threads \
              {Worker} : pc'[t] = pc[t]
        BY <1>35 DEF FailCount
    <2> QED
        BY <1>35, <2>1, <2>2, <2>3, <2>4 DEF FailCount
<1>36. CASE FailReport
    <2>1. /\ reason' \in [Threads -> Reasons]
          /\ victim' \in [Threads -> Events \cup {Sentinel, None}]
        BY <1>36 DEF FailReport
    <2>2. reports' \in [Events -> Nat]
        BY <1>36, BumpTyped DEF FailReport
    <2>3. /\ fate' \in [Events -> Fates]
          /\ result' \in [Events -> {"none", "true", "false"}]
        BY <1>36 DEF FailReport
    <2>4. /\ pc' \in [Threads -> ProducerLabels \cup CloserLabels \cup WorkerLabels]
          /\ data' \in [Threads -> Events \cup {Sentinel, None}]
        BY <1>36 DEF FailReport
    <2> QED
        BY <1>36, <2>1, <2>2, <2>3, <2>4 DEF FailReport
<1>37. CASE ItemDone
    BY <1>37 DEF ItemDone
<1>38. CASE UNCHANGED vars
    BY <1>38 DEF vars
<1> QED
    BY <1>1, <1>2, <1>3, <1>4, <1>5, <1>6, <1>7, <1>8, <1>9, <1>10, <1>11,
       <1>12, <1>13, <1>14, <1>15, <1>16, <1>17, <1>18, <1>19, <1>20,
       <1>21, <1>22, <1>23, <1>24, <1>25, <1>26, <1>27, <1>28, <1>29,
       <1>30, <1>31, <1>32, <1>33, <1>34, <1>35, <1>36, <1>37, <1>38
    DEF Next, PutStep, PutInside, CountReported, FlushStep, CloseStep,
        WorkerStep, WorkerInside


(* Each put adds one to the queue and to unfinished; each get moves one from*)
(* the queue to the worker's hand or, under the lock, to an evicting put.  *)
LEMMA UnfinishedStep ==
    TypeOK /\ LockDiscipline /\ UnfinishedExact /\ [Next]_vars => UnfinishedExact'
<1> SUFFICES ASSUME TypeOK, LockDiscipline, UnfinishedExact, [Next]_vars
             PROVE  UnfinishedExact'
    OBVIOUS
<1> USE DistinctAssumption
    DEF TypeOK, LockDiscipline, UnfinishedExact, Critical, WorkerHolds,
        Goto, Acquire, Release, Return, Settle, Blame, CountStore, Report, HasRoom,
        AfterFlush, TaskDone, queueVars, flagVars, lossVars, dropVars,
        histVars, exceptPc, Threads
<1>1. ASSUME NEW p \in Producers, NEW e \in Events, PutCall(p, e)
    PROVE  UnfinishedExact'
    BY <1>1 DEF PutCall
<1>2. ASSUME NEW p \in Producers, PutRefused(p) PROVE UnfinishedExact'
    BY <1>2 DEF PutRefused
<1>3. ASSUME NEW p \in Producers, PutEnter(p) PROVE UnfinishedExact'
    BY <1>3 DEF PutEnter
<1>4. ASSUME NEW p \in Producers, TryAccepted(p) PROVE UnfinishedExact'
    <2>1. /\ q' \in Seq(Events \cup {Sentinel})
          /\ Len(q') = Len(q) + 1
          /\ unfinished' = unfinished + 1
        BY <1>4, EnqueueFacts DEF TryAccepted, Items, Appended
    <2>2. lock = p /\ p # None /\ p # Worker
        BY <1>4 DEF TryAccepted
    <2> QED
        BY <1>4, <2>1, <2>2 DEF TryAccepted
<1>5. ASSUME NEW p \in Producers, TryFull(p) PROVE UnfinishedExact'
    BY <1>5 DEF TryFull
<1>6. ASSUME NEW p \in Producers, CountLoad(p) PROVE UnfinishedExact'
    BY <1>6 DEF CountLoad
<1>7. ASSUME NEW p \in Producers, CountSilently(p) PROVE UnfinishedExact'
    BY <1>7 DEF CountSilently
<1>8. ASSUME NEW p \in Producers, CountNewest(p) PROVE UnfinishedExact'
    BY <1>8 DEF CountNewest
<1>9. ASSUME NEW p \in Producers, CountOldest(p) PROVE UnfinishedExact'
    BY <1>9 DEF CountOldest
<1>10. ASSUME NEW p \in Producers, Evict(p) PROVE UnfinishedExact'
    <2>1. Len(q') = Len(q) - 1 /\ Len(q) \in Nat
        BY <1>10, DequeueFacts, LenInNat DEF Evict, Dequeued
    <2>2. lock = p /\ p # None /\ p # Worker
        BY <1>10 DEF Evict
    <2>3. (WorkerHolds' <=> WorkerHolds) /\ lock' = p /\ pc'[p] = "evicted" /\
              pc[p] = "evict" /\ unfinished' = unfinished
        BY <1>10 DEF Evict
    <2> QED
        BY LenInNat, <2>1, <2>2, <2>3 DEF Evict
<1>11. ASSUME NEW p \in Producers, EvictTaskDone(p) PROVE UnfinishedExact'
    <2>1. lock = p /\ p # None /\ p # Worker
        BY <1>11 DEF EvictTaskDone
    <2> QED
        BY <1>11, <2>1 DEF EvictTaskDone
<1>12. ASSUME NEW p \in Producers, EvictEmpty(p) PROVE UnfinishedExact'
    BY <1>12 DEF EvictEmpty
<1>13. ASSUME NEW p \in Producers, RePut(p) PROVE UnfinishedExact'
    <2>1. lock = p /\ p # None /\ p # Worker
        BY <1>13 DEF RePut
    <2>2. (WorkerHolds' <=> WorkerHolds) /\ lock' = None /\ pc[p] = "reput"
        BY <1>13 DEF RePut
    <2>3. ASSUME HasRoom
          PROVE  Len(q') = Len(q) + 1 /\ unfinished' = unfinished + 1
        BY <1>13, <2>3, EnqueueFacts, data[p] \in Events DEF RePut, Items,
            Appended
    <2>4. ASSUME ~HasRoom PROVE Len(q') = Len(q) /\ unfinished' = unfinished
        BY <1>13, <2>4 DEF RePut
    <2> QED
        BY LenInNat, <2>1, <2>2, <2>3, <2>4 DEF RePut
<1>14. ASSUME NEW p \in Producers, PutReport(p) PROVE UnfinishedExact'
    BY <1>14 DEF PutReport
<1>15. ASSUME NEW p \in Producers, FlushCall(p) PROVE UnfinishedExact'
    BY <1>15 DEF FlushCall
<1>16. ASSUME NEW p \in Producers, FlushDrained(p) PROVE UnfinishedExact'
    BY <1>16 DEF FlushDrained
<1>17. ASSUME NEW p \in Producers, FlushTimeout(p) PROVE UnfinishedExact'
    BY <1>17 DEF FlushTimeout
<1>18. ASSUME NEW c \in Closers, CloseCall(c) PROVE UnfinishedExact'
    BY <1>18 DEF CloseCall
<1>19. ASSUME NEW c \in Closers, CloseAgain(c) PROVE UnfinishedExact'
    BY <1>19 DEF CloseAgain
<1>20. ASSUME NEW c \in Closers, CloseEnter(c) PROVE UnfinishedExact'
    BY <1>20 DEF CloseEnter
<1>21. ASSUME NEW c \in Closers, SentinelPut(c) PROVE UnfinishedExact'
    <2>1. /\ q' \in Seq(Events \cup {Sentinel})
          /\ Len(q') = Len(q) + 1
          /\ unfinished' = unfinished + 1
        BY <1>21, EnqueueFacts DEF SentinelPut, Items, Appended
    <2>2. lock = c /\ c # None /\ c # Worker
        BY <1>21 DEF SentinelPut
    <2> QED
        BY <1>21, <2>1, <2>2 DEF SentinelPut
<1>22. ASSUME NEW c \in Closers, SentinelFull(c) PROVE UnfinishedExact'
    BY <1>22 DEF SentinelFull
<1>23. ASSUME NEW c \in Closers, FlushDrained(c) PROVE UnfinishedExact'
    BY <1>23 DEF FlushDrained
<1>24. ASSUME NEW c \in Closers, FlushTimeout(c) PROVE UnfinishedExact'
    BY <1>24 DEF FlushTimeout
<1>25. ASSUME NEW c \in Closers, JoinExited(c) PROVE UnfinishedExact'
    BY <1>25 DEF JoinExited
<1>26. ASSUME NEW c \in Closers, JoinTimeout(c) PROVE UnfinishedExact'
    BY <1>26 DEF JoinTimeout
<1>27. CASE Get
    BY <1>27 DEF Get
<1>28. CASE GetEmpty
    BY <1>28 DEF GetEmpty
<1>29. CASE StopCheck
    BY <1>29 DEF StopCheck
<1>30. CASE SentinelDone
    BY <1>30 DEF SentinelDone
<1>31. CASE WriteOk
    BY <1>31 DEF WriteOk
<1>32. CASE WriteRaises
    BY <1>32 DEF WriteRaises
<1>33. CASE FailEnter
    BY <1>33 DEF FailEnter
<1>34. CASE CountLoad(Worker)
    BY <1>34 DEF CountLoad
<1>35. CASE FailCount
    BY <1>35 DEF FailCount
<1>36. CASE FailReport
    BY <1>36 DEF FailReport
<1>37. CASE ItemDone
    BY <1>37 DEF ItemDone
<1>38. CASE UNCHANGED vars
    BY <1>38 DEF vars
<1> QED
    BY <1>1, <1>2, <1>3, <1>4, <1>5, <1>6, <1>7, <1>8, <1>9, <1>10, <1>11,
       <1>12, <1>13, <1>14, <1>15, <1>16, <1>17, <1>18, <1>19, <1>20,
       <1>21, <1>22, <1>23, <1>24, <1>25, <1>26, <1>27, <1>28, <1>29,
       <1>30, <1>31, <1>32, <1>33, <1>34, <1>35, <1>36, <1>37, <1>38
    DEF Next, PutStep, PutInside, CountReported, FlushStep, CloseStep,
        WorkerStep, WorkerInside

(* A producer in its critical section saw the queue open, and the lock keeps*)
(* close() out until it leaves: no item follows the sentinel.              *)
LEMMA SentinelStep ==
    TypeOK /\ LockDiscipline /\ SentinelInv /\ [Next]_vars => SentinelInv'
<1> SUFFICES ASSUME TypeOK, LockDiscipline, SentinelInv, [Next]_vars
             PROVE  SentinelInv'
    OBVIOUS
<1> USE DistinctAssumption
    DEF TypeOK, LockDiscipline, Critical, WorkerHolds, SentinelInv,
        CloseCommitted,
        Goto, Acquire, Release, Return, Settle, Blame, CountStore, Report, HasRoom,
        AfterFlush, TaskDone, queueVars, flagVars, lossVars, dropVars,
        histVars, exceptPc, Threads
<1>1. ASSUME NEW p \in Producers, NEW e \in Events, PutCall(p, e)
    PROVE  SentinelInv'
    BY <1>1 DEF PutCall
<1>2. ASSUME NEW p \in Producers, PutRefused(p) PROVE SentinelInv'
    BY <1>2 DEF PutRefused
<1>3. ASSUME NEW p \in Producers, PutEnter(p) PROVE SentinelInv'
    BY <1>3 DEF PutEnter
<1>4. ASSUME NEW p \in Producers, TryAccepted(p) PROVE SentinelInv'
    <2>1. data[p] \in Items /\ Enqueue(data[p]) /\ data[p] \in Events /\ ~closed
        BY <1>4 DEF TryAccepted, Items
    <2>2. Appended(data[p])
        BY <2>1, EnqueueFacts
    <2>3. \A i \in 1..Len(q) : q[i] # Sentinel
        BY <1>4, <2>1 DEF TryAccepted
    <2>4. \A i \in 1..Len(q') : q'[i] # Sentinel
        BY <2>1, <2>2, <2>3 DEF Appended
    <2> QED
        BY <1>4, <2>1, <2>2, <2>3, <2>4 DEF TryAccepted
<1>5. ASSUME NEW p \in Producers, TryFull(p) PROVE SentinelInv'
    BY <1>5 DEF TryFull
<1>6. ASSUME NEW p \in Producers, CountLoad(p) PROVE SentinelInv'
    BY <1>6 DEF CountLoad
<1>7. ASSUME NEW p \in Producers, CountSilently(p) PROVE SentinelInv'
    BY <1>7 DEF CountSilently
<1>8. ASSUME NEW p \in Producers, CountNewest(p) PROVE SentinelInv'
    BY <1>8 DEF CountNewest
<1>9. ASSUME NEW p \in Producers, CountOldest(p) PROVE SentinelInv'
    BY <1>9 DEF CountOldest
<1>10. ASSUME NEW p \in Producers, Evict(p) PROVE SentinelInv'
    <2>1. ~closed /\ q # <<>> /\ q' = Tail(q)
        BY <1>10 DEF Evict
    <2>2. \A i \in 1..Len(q) : q[i] # Sentinel
        BY <1>10, <2>1 DEF Evict
    <2>3. Dequeued
        BY <2>1, DequeueFacts
    <2>4. (\A i \in 1..Len(q') : q'[i] # Sentinel) /\ Head(q) # Sentinel
        BY <2>2, <2>3, LenInNat DEF Dequeued
    <2> QED
        BY <1>10, <2>1, <2>2, <2>3, <2>4 DEF Evict
<1>11. ASSUME NEW p \in Producers, EvictTaskDone(p) PROVE SentinelInv'
    BY <1>11 DEF EvictTaskDone
<1>12. ASSUME NEW p \in Producers, EvictEmpty(p) PROVE SentinelInv'
    BY <1>12 DEF EvictEmpty
<1>13. ASSUME NEW p \in Producers, RePut(p) PROVE SentinelInv'
    <2>1. data[p] \in Events /\ ~closed
        BY <1>13 DEF RePut
    <2>2. \A i \in 1..Len(q) : q[i] # Sentinel
        BY <1>13, <2>1 DEF RePut
    <2>3. ASSUME HasRoom PROVE Appended(data[p])
        BY <1>13, <2>1, <2>3, EnqueueFacts DEF RePut, Items
    <2>4. \A i \in 1..Len(q') : q'[i] # Sentinel
        BY <1>13, <2>1, <2>2, <2>3 DEF RePut, Appended
    <2> QED
        BY <1>13, <2>1, <2>2, <2>3, <2>4 DEF RePut
<1>14. ASSUME NEW p \in Producers, PutReport(p) PROVE SentinelInv'
    BY <1>14 DEF PutReport
<1>15. ASSUME NEW p \in Producers, FlushCall(p) PROVE SentinelInv'
    BY <1>15 DEF FlushCall
<1>16. ASSUME NEW p \in Producers, FlushDrained(p) PROVE SentinelInv'
    BY <1>16 DEF FlushDrained
<1>17. ASSUME NEW p \in Producers, FlushTimeout(p) PROVE SentinelInv'
    BY <1>17 DEF FlushTimeout
<1>18. ASSUME NEW c \in Closers, CloseCall(c) PROVE SentinelInv'
    BY <1>18 DEF CloseCall
<1>19. ASSUME NEW c \in Closers, CloseAgain(c) PROVE SentinelInv'
    BY <1>19 DEF CloseAgain
<1>20. ASSUME NEW c \in Closers, CloseEnter(c) PROVE SentinelInv'
    BY <1>20 DEF CloseEnter
<1>21. ASSUME NEW c \in Closers, SentinelPut(c) PROVE SentinelInv'
    <2>1. lock = c /\ closed /\ Enqueue(Sentinel)
        BY <1>21 DEF SentinelPut
    <2>2. \A i \in 1..Len(q) : q[i] # Sentinel
        BY <1>21, <2>1 DEF SentinelPut
    <2>3. Appended(Sentinel)
        BY <2>1, EnqueueFacts DEF Items
    <2>4. \A i \in 1..Len(q') : q'[i] = Sentinel => i = Len(q')
        BY <2>2, <2>3 DEF Appended
    <2>5. CloseCommitted'
        BY <1>21, <2>1 DEF SentinelPut
    <2> QED
        BY <1>21, <2>1, <2>2, <2>3, <2>4, <2>5 DEF SentinelPut
<1>22. ASSUME NEW c \in Closers, SentinelFull(c) PROVE SentinelInv'
    BY <1>22 DEF SentinelFull
<1>23. ASSUME NEW c \in Closers, FlushDrained(c) PROVE SentinelInv'
    BY <1>23 DEF FlushDrained
<1>24. ASSUME NEW c \in Closers, FlushTimeout(c) PROVE SentinelInv'
    BY <1>24 DEF FlushTimeout
<1>25. ASSUME NEW c \in Closers, JoinExited(c) PROVE SentinelInv'
    BY <1>25 DEF JoinExited
<1>26. ASSUME NEW c \in Closers, JoinTimeout(c) PROVE SentinelInv'
    BY <1>26 DEF JoinTimeout
<1>27. CASE Get
    <2>1. q # <<>> /\ q' = Tail(q)
        BY <1>27 DEF Get
    <2>2. Dequeued
        BY <2>1, DequeueFacts
    <2>3. \A i \in 1..Len(q') : q'[i] = Sentinel => i = Len(q') /\
              CloseCommitted
        BY <2>2, LenInNat DEF Dequeued
    <2>4. Head(q) = Sentinel => Len(q') = 0 /\ CloseCommitted
        BY <2>2, LenInNat DEF Dequeued
    <2>5. Len(q') = 0 => q' = <<>>
        BY <2>2, EmptySeq DEF Dequeued
    <2> QED
        BY <1>27, <2>1, <2>2, <2>3, <2>4, <2>5 DEF Get
<1>28. CASE GetEmpty
    BY <1>28 DEF GetEmpty
<1>29. CASE StopCheck
    BY <1>29 DEF StopCheck
<1>30. CASE SentinelDone
    BY <1>30 DEF SentinelDone
<1>31. CASE WriteOk
    BY <1>31 DEF WriteOk
<1>32. CASE WriteRaises
    BY <1>32 DEF WriteRaises
<1>33. CASE FailEnter
    BY <1>33 DEF FailEnter
<1>34. CASE CountLoad(Worker)
    BY <1>34 DEF CountLoad
<1>35. CASE FailCount
    BY <1>35 DEF FailCount
<1>36. CASE FailReport
    BY <1>36 DEF FailReport
<1>37. CASE ItemDone
    BY <1>37 DEF ItemDone
<1>38. CASE UNCHANGED vars
    BY <1>38 DEF vars
<1> QED
    BY <1>1, <1>2, <1>3, <1>4, <1>5, <1>6, <1>7, <1>8, <1>9, <1>10, <1>11,
       <1>12, <1>13, <1>14, <1>15, <1>16, <1>17, <1>18, <1>19, <1>20,
       <1>21, <1>22, <1>23, <1>24, <1>25, <1>26, <1>27, <1>28, <1>29,
       <1>30, <1>31, <1>32, <1>33, <1>34, <1>35, <1>36, <1>37, <1>38
    DEF Next, PutStep, PutInside, CountReported, FlushStep, CloseStep,
        WorkerStep, WorkerInside

(* An accepted event is in the queue or being written; a failed write is   *)
(* reported or about to be.                                                *)
LEMMA SettledStep ==
    TypeOK /\ SettledInv /\ [Next]_vars => SettledInv'
<1> SUFFICES ASSUME TypeOK, SettledInv, [Next]_vars
             PROVE  SettledInv'
    OBVIOUS
<1> USE DistinctAssumption
    DEF TypeOK, WorkerHolds, SettledInv,
        Goto, Acquire, Release, Return, Settle, Blame, CountStore, Report, HasRoom,
        AfterFlush, TaskDone, queueVars, flagVars, lossVars, dropVars,
        histVars, exceptPc, Threads
<1>1. ASSUME NEW p \in Producers, NEW e \in Events, PutCall(p, e)
    PROVE  SettledInv'
    BY <1>1 DEF PutCall
<1>2. ASSUME NEW p \in Producers, PutRefused(p) PROVE SettledInv'
    BY <1>2 DEF PutRefused
<1>3. ASSUME NEW p \in Producers, PutEnter(p) PROVE SettledInv'
    BY <1>3 DEF PutEnter
<1>4. ASSUME NEW p \in Producers, TryAccepted(p) PROVE SettledInv'
    <2>1. data[p] \in Items /\ Enqueue(data[p])
        BY <1>4 DEF TryAccepted, Items
    <2>2. Appended(data[p])
        BY <2>1, EnqueueFacts
    <2>3. \A e \in Events : (\E i \in 1..Len(q) : q[i] = e) => (\E i \in
              1..Len(q) : q[i] = e)'
        BY <2>2 DEF Appended
    <2>4. \E i \in 1..Len(q') : q'[i] = data[p]
        BY <2>2 DEF Appended
    <2> QED
        BY <1>4, <2>1, <2>2, <2>3, <2>4 DEF TryAccepted
<1>5. ASSUME NEW p \in Producers, TryFull(p) PROVE SettledInv'
    BY <1>5 DEF TryFull
<1>6. ASSUME NEW p \in Producers, CountLoad(p) PROVE SettledInv'
    BY <1>6 DEF CountLoad
<1>7. ASSUME NEW p \in Producers, CountSilently(p) PROVE SettledInv'
    BY <1>7 DEF CountSilently
<1>8. ASSUME NEW p \in Producers, CountNewest(p) PROVE SettledInv'
    BY <1>8 DEF CountNewest
<1>9. ASSUME NEW p \in Producers, CountOldest(p) PROVE SettledInv'
    BY <1>9 DEF CountOldest
<1>10. ASSUME NEW p \in Producers, Evict(p) PROVE SettledInv'
    <2>1. q # <<>> /\ q' = Tail(q)
        BY <1>10 DEF Evict
    <2>2. Dequeued
        BY <2>1, DequeueFacts
    <2>3. \A e \in Events : (\E i \in 1..Len(q) : q[i] = e) => e = Head(q) \/
              (\E i \in 1..Len(q) : q[i] = e)'
        BY <2>2 DEF Dequeued
    <2> QED
        BY <1>10, <2>1, <2>2, <2>3 DEF Evict
<1>11. ASSUME NEW p \in Producers, EvictTaskDone(p) PROVE SettledInv'
    BY <1>11 DEF EvictTaskDone
<1>12. ASSUME NEW p \in Producers, EvictEmpty(p) PROVE SettledInv'
    BY <1>12 DEF EvictEmpty
<1>13. ASSUME NEW p \in Producers, RePut(p) PROVE SettledInv'
    <2>1. data[p] \in Items
        BY <1>13 DEF RePut, Items
    <2>2. ASSUME HasRoom PROVE Appended(data[p])
        BY <1>13, <2>1, <2>2, EnqueueFacts DEF RePut
    <2>3. \A e \in Events : (\E i \in 1..Len(q) : q[i] = e) => (\E i \in
              1..Len(q) : q[i] = e)'
        BY <1>13, <2>2 DEF RePut, Appended
    <2>4. HasRoom => \E i \in 1..Len(q') : q'[i] = data[p]
        BY <2>2 DEF Appended
    <2>5. \A e \in Events : fate'[e] = "queued" => fate[e] = "queued" \/ (e =
              data[p] /\ HasRoom)
        BY <1>13 DEF RePut
    <2>6. \A e \in Events : fate'[e] = "failed" => fate[e] = "failed"
        BY <1>13 DEF RePut
    <2>7. /\ UNCHANGED <<reports, data>>
          /\ pc'[Worker] = pc[Worker]
          /\ victim'[Worker] = victim[Worker]
        BY <1>13 DEF RePut
    <2> QED
        BY <1>13, <2>1, <2>2, <2>3, <2>4, <2>5, <2>6, <2>7 DEF RePut
<1>14. ASSUME NEW p \in Producers, PutReport(p) PROVE SettledInv'
    BY <1>14 DEF PutReport
<1>15. ASSUME NEW p \in Producers, FlushCall(p) PROVE SettledInv'
    BY <1>15 DEF FlushCall
<1>16. ASSUME NEW p \in Producers, FlushDrained(p) PROVE SettledInv'
    BY <1>16 DEF FlushDrained
<1>17. ASSUME NEW p \in Producers, FlushTimeout(p) PROVE SettledInv'
    BY <1>17 DEF FlushTimeout
<1>18. ASSUME NEW c \in Closers, CloseCall(c) PROVE SettledInv'
    BY <1>18 DEF CloseCall
<1>19. ASSUME NEW c \in Closers, CloseAgain(c) PROVE SettledInv'
    BY <1>19 DEF CloseAgain
<1>20. ASSUME NEW c \in Closers, CloseEnter(c) PROVE SettledInv'
    BY <1>20 DEF CloseEnter
<1>21. ASSUME NEW c \in Closers, SentinelPut(c) PROVE SettledInv'
    <2>1. Enqueue(Sentinel)
        BY <1>21 DEF SentinelPut
    <2>2. Appended(Sentinel)
        BY <2>1, EnqueueFacts DEF Items
    <2>3. \A e \in Events : (\E i \in 1..Len(q) : q[i] = e) => (\E i \in
              1..Len(q) : q[i] = e)'
        BY <2>2 DEF Appended
    <2> QED
        BY <1>21, <2>1, <2>2, <2>3 DEF SentinelPut
<1>22. ASSUME NEW c \in Closers, SentinelFull(c) PROVE SettledInv'
    BY <1>22 DEF SentinelFull
<1>23. ASSUME NEW c \in Closers, FlushDrained(c) PROVE SettledInv'
    BY <1>23 DEF FlushDrained
<1>24. ASSUME NEW c \in Closers, FlushTimeout(c) PROVE SettledInv'
    BY <1>24 DEF FlushTimeout
<1>25. ASSUME NEW c \in Closers, JoinExited(c) PROVE SettledInv'
    BY <1>25 DEF JoinExited
<1>26. ASSUME NEW c \in Closers, JoinTimeout(c) PROVE SettledInv'
    BY <1>26 DEF JoinTimeout
<1>27. CASE Get
    <2>1. q # <<>> /\ q' = Tail(q)
        BY <1>27 DEF Get
    <2>2. Dequeued
        BY <2>1, DequeueFacts
    <2>3. \A e \in Events : (\E i \in 1..Len(q) : q[i] = e) => e = Head(q) \/
              (\E i \in 1..Len(q) : q[i] = e)'
        BY <2>2 DEF Dequeued
    <2>4. \A e \in Events : e = Head(q) => pc'[Worker] = "write" /\
              data'[Worker] = e
        BY <1>27 DEF Get
    <2> QED
        BY <1>27, <2>1, <2>2, <2>3, <2>4 DEF Get
<1>28. CASE GetEmpty
    BY <1>28 DEF GetEmpty
<1>29. CASE StopCheck
    BY <1>29 DEF StopCheck
<1>30. CASE SentinelDone
    BY <1>30 DEF SentinelDone
<1>31. CASE WriteOk
    BY <1>31 DEF WriteOk
<1>32. CASE WriteRaises
    BY <1>32 DEF WriteRaises
<1>33. CASE FailEnter
    BY <1>33 DEF FailEnter
<1>34. CASE CountLoad(Worker)
    BY <1>34 DEF CountLoad
<1>35. CASE FailCount
    BY <1>35 DEF FailCount
<1>36. CASE FailReport
    BY <1>36 DEF FailReport
<1>37. CASE ItemDone
    BY <1>37 DEF ItemDone
<1>38. CASE UNCHANGED vars
    BY <1>38 DEF vars
<1> QED
    BY <1>1, <1>2, <1>3, <1>4, <1>5, <1>6, <1>7, <1>8, <1>9, <1>10, <1>11,
       <1>12, <1>13, <1>14, <1>15, <1>16, <1>17, <1>18, <1>19, <1>20,
       <1>21, <1>22, <1>23, <1>24, <1>25, <1>26, <1>27, <1>28, <1>29,
       <1>30, <1>31, <1>32, <1>33, <1>34, <1>35, <1>36, <1>37, <1>38
    DEF Next, PutStep, PutInside, CountReported, FlushStep, CloseStep,
        WorkerStep, WorkerInside

(* The worker leaves its loop on the sentinel only with the queue empty and*)
(* closed for good, or on the stop flag.                                   *)
LEMMA EndStep ==
    TypeOK /\ LockDiscipline /\ SentinelInv /\ EndInv /\ [Next]_vars => EndInv'
<1> SUFFICES ASSUME TypeOK, LockDiscipline, SentinelInv, EndInv, [Next]_vars
             PROVE  EndInv'
    OBVIOUS
<1> USE DistinctAssumption
    DEF TypeOK, LockDiscipline, Critical, WorkerHolds, SentinelInv,
        EndInv, CloseCommitted,
        Goto, Acquire, Release, Return, Settle, Blame, CountStore, Report, HasRoom,
        AfterFlush, TaskDone, queueVars, flagVars, lossVars, dropVars,
        histVars, exceptPc, Threads
<1>1. ASSUME NEW p \in Producers, NEW e \in Events, PutCall(p, e) PROVE EndInv'
    BY <1>1 DEF PutCall
<1>2. ASSUME NEW p \in Producers, PutRefused(p) PROVE EndInv'
    BY <1>2 DEF PutRefused
<1>3. ASSUME NEW p \in Producers, PutEnter(p) PROVE EndInv'
    BY <1>3 DEF PutEnter
<1>4. ASSUME NEW p \in Producers, TryAccepted(p) PROVE EndInv'
    BY <1>4 DEF TryAccepted
<1>5. ASSUME NEW p \in Producers, TryFull(p) PROVE EndInv'
    BY <1>5 DEF TryFull
<1>6. ASSUME NEW p \in Producers, CountLoad(p) PROVE EndInv'
    BY <1>6 DEF CountLoad
<1>7. ASSUME NEW p \in Producers, CountSilently(p) PROVE EndInv'
    BY <1>7 DEF CountSilently
<1>8. ASSUME NEW p \in Producers, CountNewest(p) PROVE EndInv'
    BY <1>8 DEF CountNewest
<1>9. ASSUME NEW p \in Producers, CountOldest(p) PROVE EndInv'
    BY <1>9 DEF CountOldest
<1>10. ASSUME NEW p \in Producers, Evict(p) PROVE EndInv'
    BY <1>10 DEF Evict
<1>11. ASSUME NEW p \in Producers, EvictTaskDone(p) PROVE EndInv'
    BY <1>11 DEF EvictTaskDone
<1>12. ASSUME NEW p \in Producers, EvictEmpty(p) PROVE EndInv'
    BY <1>12 DEF EvictEmpty
<1>13. ASSUME NEW p \in Producers, RePut(p) PROVE EndInv'
    BY <1>13 DEF RePut
<1>14. ASSUME NEW p \in Producers, PutReport(p) PROVE EndInv'
    BY <1>14 DEF PutReport
<1>15. ASSUME NEW p \in Producers, FlushCall(p) PROVE EndInv'
    BY <1>15 DEF FlushCall
<1>16. ASSUME NEW p \in Producers, FlushDrained(p) PROVE EndInv'
    BY <1>16 DEF FlushDrained
<1>17. ASSUME NEW p \in Producers, FlushTimeout(p) PROVE EndInv'
    BY <1>17 DEF FlushTimeout
<1>18. ASSUME NEW c \in Closers, CloseCall(c) PROVE EndInv'
    BY <1>18 DEF CloseCall
<1>19. ASSUME NEW c \in Closers, CloseAgain(c) PROVE EndInv'
    BY <1>19 DEF CloseAgain
<1>20. ASSUME NEW c \in Closers, CloseEnter(c) PROVE EndInv'
    BY <1>20 DEF CloseEnter
<1>21. ASSUME NEW c \in Closers, SentinelPut(c) PROVE EndInv'
    BY <1>21 DEF SentinelPut
<1>22. ASSUME NEW c \in Closers, SentinelFull(c) PROVE EndInv'
    BY <1>22 DEF SentinelFull
<1>23. ASSUME NEW c \in Closers, FlushDrained(c) PROVE EndInv'
    BY <1>23 DEF FlushDrained
<1>24. ASSUME NEW c \in Closers, FlushTimeout(c) PROVE EndInv'
    BY <1>24 DEF FlushTimeout
<1>25. ASSUME NEW c \in Closers, JoinExited(c) PROVE EndInv'
    BY <1>25 DEF JoinExited
<1>26. ASSUME NEW c \in Closers, JoinTimeout(c) PROVE EndInv'
    BY <1>26 DEF JoinTimeout
<1>27. CASE Get
    BY <1>27 DEF Get
<1>28. CASE GetEmpty
    BY <1>28 DEF GetEmpty
<1>29. CASE StopCheck
    BY <1>29 DEF StopCheck
<1>30. CASE SentinelDone
    BY <1>30 DEF SentinelDone
<1>31. CASE WriteOk
    BY <1>31 DEF WriteOk
<1>32. CASE WriteRaises
    BY <1>32 DEF WriteRaises
<1>33. CASE FailEnter
    BY <1>33 DEF FailEnter
<1>34. CASE CountLoad(Worker)
    BY <1>34 DEF CountLoad
<1>35. CASE FailCount
    BY <1>35 DEF FailCount
<1>36. CASE FailReport
    BY <1>36 DEF FailReport
<1>37. CASE ItemDone
    BY <1>37 DEF ItemDone
<1>38. CASE UNCHANGED vars
    BY <1>38 DEF vars
<1> QED
    BY <1>1, <1>2, <1>3, <1>4, <1>5, <1>6, <1>7, <1>8, <1>9, <1>10, <1>11,
       <1>12, <1>13, <1>14, <1>15, <1>16, <1>17, <1>18, <1>19, <1>20,
       <1>21, <1>22, <1>23, <1>24, <1>25, <1>26, <1>27, <1>28, <1>29,
       <1>30, <1>31, <1>32, <1>33, <1>34, <1>35, <1>36, <1>37, <1>38
    DEF Next, PutStep, PutInside, CountReported, FlushStep, CloseStep,
        WorkerStep, WorkerInside

(* Only producers and close() add items, and all of them hold the lock: the*)
(* room an eviction made is still there when the new event is put.         *)
LEMMA RoomStep ==
    TypeOK /\ LockDiscipline /\ RoomInv /\ [Next]_vars => RoomInv'
<1> SUFFICES ASSUME TypeOK, LockDiscipline, RoomInv, [Next]_vars
             PROVE  RoomInv'
    OBVIOUS
<1> USE DistinctAssumption, SizeAssumption
    DEF TypeOK, LockDiscipline, Critical, WorkerHolds, RoomInv,
        Goto, Acquire, Release, Return, Settle, Blame, CountStore, Report, HasRoom,
        AfterFlush, TaskDone, queueVars, flagVars, lossVars, dropVars,
        histVars, exceptPc, Threads
<1>1. ASSUME NEW p \in Producers, NEW e \in Events, PutCall(p, e) PROVE RoomInv'
    BY <1>1 DEF PutCall
<1>2. ASSUME NEW p \in Producers, PutRefused(p) PROVE RoomInv'
    BY <1>2 DEF PutRefused
<1>3. ASSUME NEW p \in Producers, PutEnter(p) PROVE RoomInv'
    BY <1>3 DEF PutEnter
<1>4. ASSUME NEW p \in Producers, TryAccepted(p) PROVE RoomInv'
    <2>1. data[p] \in Items /\ Enqueue(data[p]) /\ lock = p /\ HasRoom
        BY <1>4 DEF TryAccepted, Items
    <2>2. Appended(data[p])
        BY <2>1, EnqueueFacts
    <2>3. Len(q') <= MaxSize
        BY <2>1, <2>2, LenInNat DEF Appended
    <2> QED
        BY <1>4, SizeAssumption, <2>1, <2>2, <2>3 DEF TryAccepted
<1>5. ASSUME NEW p \in Producers, TryFull(p) PROVE RoomInv'
    BY <1>5 DEF TryFull
<1>6. ASSUME NEW p \in Producers, CountLoad(p) PROVE RoomInv'
    BY <1>6 DEF CountLoad
<1>7. ASSUME NEW p \in Producers, CountSilently(p) PROVE RoomInv'
    BY <1>7 DEF CountSilently
<1>8. ASSUME NEW p \in Producers, CountNewest(p) PROVE RoomInv'
    BY <1>8 DEF CountNewest
<1>9. ASSUME NEW p \in Producers, CountOldest(p) PROVE RoomInv'
    BY <1>9 DEF CountOldest
<1>10. ASSUME NEW p \in Producers, Evict(p) PROVE RoomInv'
    <2>1. q # <<>> /\ q' = Tail(q)
        BY <1>10 DEF Evict
    <2>2. Dequeued
        BY <2>1, DequeueFacts
    <2>3. Len(q') < MaxSize
        BY <2>2, LenInNat DEF Dequeued
    <2> QED
        BY <1>10, <2>1, <2>2, <2>3 DEF Evict
<1>11. ASSUME NEW p \in Producers, EvictTaskDone(p) PROVE RoomInv'
    BY <1>11 DEF EvictTaskDone
<1>12. ASSUME NEW p \in Producers, EvictEmpty(p) PROVE RoomInv'
    BY <1>12 DEF EvictEmpty
<1>13. ASSUME NEW p \in Producers, RePut(p) PROVE RoomInv'
    <2>1. data[p] \in Items /\ lock = p
        BY <1>13 DEF RePut, Items
    <2>2. ASSUME HasRoom PROVE Appended(data[p])
        BY <1>13, <2>1, <2>2, EnqueueFacts DEF RePut
    <2>3. Len(q') <= MaxSize
        BY <1>13, <2>2, LenInNat DEF RePut, Appended
    <2> QED
        BY <1>13, <2>1, <2>2, <2>3 DEF RePut
<1>14. ASSUME NEW p \in Producers, PutReport(p) PROVE RoomInv'
    BY <1>14 DEF PutReport
<1>15. ASSUME NEW p \in Producers, FlushCall(p) PROVE RoomInv'
    BY <1>15 DEF FlushCall
<1>16. ASSUME NEW p \in Producers, FlushDrained(p) PROVE RoomInv'
    BY <1>16 DEF FlushDrained
<1>17. ASSUME NEW p \in Producers, FlushTimeout(p) PROVE RoomInv'
    BY <1>17 DEF FlushTimeout
<1>18. ASSUME NEW c \in Closers, CloseCall(c) PROVE RoomInv'
    BY <1>18 DEF CloseCall
<1>19. ASSUME NEW c \in Closers, CloseAgain(c) PROVE RoomInv'
    BY <1>19 DEF CloseAgain
<1>20. ASSUME NEW c \in Closers, CloseEnter(c) PROVE RoomInv'
    BY <1>20 DEF CloseEnter
<1>21. ASSUME NEW c \in Closers, SentinelPut(c) PROVE RoomInv'
    <2>1. Enqueue(Sentinel) /\ lock = c /\ HasRoom
        BY <1>21 DEF SentinelPut
    <2>2. Appended(Sentinel)
        BY <2>1, EnqueueFacts DEF Items
    <2>3. Len(q') <= MaxSize
        BY <2>1, <2>2, LenInNat DEF Appended
    <2> QED
        BY <1>21, <2>1, <2>2, <2>3 DEF SentinelPut
<1>22. ASSUME NEW c \in Closers, SentinelFull(c) PROVE RoomInv'
    BY <1>22 DEF SentinelFull
<1>23. ASSUME NEW c \in Closers, FlushDrained(c) PROVE RoomInv'
    BY <1>23 DEF FlushDrained
<1>24. ASSUME NEW c \in Closers, FlushTimeout(c) PROVE RoomInv'
    BY <1>24 DEF FlushTimeout
<1>25. ASSUME NEW c \in Closers, JoinExited(c) PROVE RoomInv'
    BY <1>25 DEF JoinExited
<1>26. ASSUME NEW c \in Closers, JoinTimeout(c) PROVE RoomInv'
    BY <1>26 DEF JoinTimeout
<1>27. CASE Get
    <2>1. q # <<>> /\ q' = Tail(q)
        BY <1>27 DEF Get
    <2>2. Dequeued
        BY <2>1, DequeueFacts
    <2>3. Len(q') < Len(q)
        BY <2>2, LenInNat DEF Dequeued
    <2> QED
        BY <1>27, LenInNat, <2>1, <2>2, <2>3 DEF Get
<1>28. CASE GetEmpty
    BY <1>28 DEF GetEmpty
<1>29. CASE StopCheck
    BY <1>29 DEF StopCheck
<1>30. CASE SentinelDone
    BY <1>30 DEF SentinelDone
<1>31. CASE WriteOk
    BY <1>31 DEF WriteOk
<1>32. CASE WriteRaises
    BY <1>32 DEF WriteRaises
<1>33. CASE FailEnter
    BY <1>33 DEF FailEnter
<1>34. CASE CountLoad(Worker)
    BY <1>34 DEF CountLoad
<1>35. CASE FailCount
    BY <1>35 DEF FailCount
<1>36. CASE FailReport
    BY <1>36 DEF FailReport
<1>37. CASE ItemDone
    BY <1>37 DEF ItemDone
<1>38. CASE UNCHANGED vars
    BY <1>38 DEF vars
<1> QED
    BY <1>1, <1>2, <1>3, <1>4, <1>5, <1>6, <1>7, <1>8, <1>9, <1>10, <1>11,
       <1>12, <1>13, <1>14, <1>15, <1>16, <1>17, <1>18, <1>19, <1>20,
       <1>21, <1>22, <1>23, <1>24, <1>25, <1>26, <1>27, <1>28, <1>29,
       <1>30, <1>31, <1>32, <1>33, <1>34, <1>35, <1>36, <1>37, <1>38
    DEF Next, PutStep, PutInside, CountReported, FlushStep, CloseStep,
        WorkerStep, WorkerInside

(* With a callback and drop_oldest no put ends with its event left out.    *)
LEMMA NewestStep ==
    TypeOK /\ LockDiscipline /\ RoomInv /\ OnDrop /\ NewestKept /\ [Next]_vars => NewestKept'
<1> SUFFICES ASSUME TypeOK, LockDiscipline, RoomInv, OnDrop, NewestKept, [Next]_vars
             PROVE  NewestKept'
    OBVIOUS
<1> USE DistinctAssumption
    DEF TypeOK, RoomInv, NewestKept,
        Goto, Acquire, Release, Return, Settle, Blame, CountStore, Report, HasRoom,
        AfterFlush, TaskDone, queueVars, flagVars, lossVars, dropVars,
        histVars, exceptPc, Threads
<1>1. ASSUME NEW p \in Producers, NEW e \in Events, PutCall(p, e)
    PROVE  NewestKept'
    BY <1>1 DEF PutCall
<1>2. ASSUME NEW p \in Producers, PutRefused(p) PROVE NewestKept'
    BY <1>2 DEF PutRefused
<1>3. ASSUME NEW p \in Producers, PutEnter(p) PROVE NewestKept'
    BY <1>3 DEF PutEnter
<1>4. ASSUME NEW p \in Producers, TryAccepted(p) PROVE NewestKept'
    BY <1>4 DEF TryAccepted
<1>5. ASSUME NEW p \in Producers, TryFull(p) PROVE NewestKept'
    BY <1>5 DEF TryFull
<1>6. ASSUME NEW p \in Producers, CountLoad(p) PROVE NewestKept'
    BY <1>6 DEF CountLoad
<1>7. ASSUME NEW p \in Producers, CountSilently(p) PROVE NewestKept'
    BY <1>7 DEF CountSilently
<1>8. ASSUME NEW p \in Producers, CountNewest(p) PROVE NewestKept'
    BY <1>8 DEF CountNewest
<1>9. ASSUME NEW p \in Producers, CountOldest(p) PROVE NewestKept'
    BY <1>9 DEF CountOldest
<1>10. ASSUME NEW p \in Producers, Evict(p) PROVE NewestKept'
    BY <1>10 DEF Evict
<1>11. ASSUME NEW p \in Producers, EvictTaskDone(p) PROVE NewestKept'
    BY <1>11 DEF EvictTaskDone
<1>12. ASSUME NEW p \in Producers, EvictEmpty(p) PROVE NewestKept'
    BY <1>12 DEF EvictEmpty
<1>13. ASSUME NEW p \in Producers, RePut(p) PROVE NewestKept'
    BY <1>13 DEF RePut
<1>14. ASSUME NEW p \in Producers, PutReport(p) PROVE NewestKept'
    BY <1>14 DEF PutReport
<1>15. ASSUME NEW p \in Producers, FlushCall(p) PROVE NewestKept'
    BY <1>15 DEF FlushCall
<1>16. ASSUME NEW p \in Producers, FlushDrained(p) PROVE NewestKept'
    BY <1>16 DEF FlushDrained
<1>17. ASSUME NEW p \in Producers, FlushTimeout(p) PROVE NewestKept'
    BY <1>17 DEF FlushTimeout
<1>18. ASSUME NEW c \in Closers, CloseCall(c) PROVE NewestKept'
    BY <1>18 DEF CloseCall
<1>19. ASSUME NEW c \in Closers, CloseAgain(c) PROVE NewestKept'
    BY <1>19 DEF CloseAgain
<1>20. ASSUME NEW c \in Closers, CloseEnter(c) PROVE NewestKept'
    BY <1>20 DEF CloseEnter
<1>21. ASSUME NEW c \in Closers, SentinelPut(c) PROVE NewestKept'
    BY <1>21 DEF SentinelPut
<1>22. ASSUME NEW c \in Closers, SentinelFull(c) PROVE NewestKept'
    BY <1>22 DEF SentinelFull
<1>23. ASSUME NEW c \in Closers, FlushDrained(c) PROVE NewestKept'
    BY <1>23 DEF FlushDrained
<1>24. ASSUME NEW c \in Closers, FlushTimeout(c) PROVE NewestKept'
    BY <1>24 DEF FlushTimeout
<1>25. ASSUME NEW c \in Closers, JoinExited(c) PROVE NewestKept'
    BY <1>25 DEF JoinExited
<1>26. ASSUME NEW c \in Closers, JoinTimeout(c) PROVE NewestKept'
    BY <1>26 DEF JoinTimeout
<1>27. CASE Get
    BY <1>27 DEF Get
<1>28. CASE GetEmpty
    BY <1>28 DEF GetEmpty
<1>29. CASE StopCheck
    BY <1>29 DEF StopCheck
<1>30. CASE SentinelDone
    BY <1>30 DEF SentinelDone
<1>31. CASE WriteOk
    BY <1>31 DEF WriteOk
<1>32. CASE WriteRaises
    BY <1>32 DEF WriteRaises
<1>33. CASE FailEnter
    BY <1>33 DEF FailEnter
<1>34. CASE CountLoad(Worker)
    BY <1>34 DEF CountLoad
<1>35. CASE FailCount
    BY <1>35 DEF FailCount
<1>36. CASE FailReport
    BY <1>36 DEF FailReport
<1>37. CASE ItemDone
    BY <1>37 DEF ItemDone
<1>38. CASE UNCHANGED vars
    BY <1>38 DEF vars
<1> QED
    BY <1>1, <1>2, <1>3, <1>4, <1>5, <1>6, <1>7, <1>8, <1>9, <1>10, <1>11,
       <1>12, <1>13, <1>14, <1>15, <1>16, <1>17, <1>18, <1>19, <1>20,
       <1>21, <1>22, <1>23, <1>24, <1>25, <1>26, <1>27, <1>28, <1>29,
       <1>30, <1>31, <1>32, <1>33, <1>34, <1>35, <1>36, <1>37, <1>38
    DEF Next, PutStep, PutInside, CountReported, FlushStep, CloseStep,
        WorkerStep, WorkerInside

-----------------------------------------------------------------------------
(* The inductive invariant holds at the start.                             *)
LEMMA IndInit == Init => IndInv
<1> SUFFICES ASSUME Init PROVE IndInv
    OBVIOUS
<1> USE DistinctAssumption, SizeAssumption DEF Init, Threads
<1>1. Len(q) = 0
    BY EmptySeq
<1>2. TypeOK
    BY EmptySeq
    DEF TypeOK, WorkerHolds, ProducerLabels, CloserLabels, WorkerLabels,
        Fates, Lost, Reasons
<1>3. LockDiscipline
    BY DEF LockDiscipline, Critical
<1>4. UnfinishedExact
    BY <1>1 DEF UnfinishedExact, WorkerHolds
<1>5. SentinelInv
    BY <1>1 DEF SentinelInv, Critical
<1>6. SettledInv /\ EndInv
    BY <1>1 DEF SettledInv, EndInv
<1>7. RoomInv
    BY <1>1 DEF RoomInv, HasRoom
<1> QED
    BY <1>2, <1>3, <1>4, <1>5, <1>6, <1>7 DEF IndInv

(* Every step keeps the inductive invariant.                               *)
LEMMA IndStep == IndInv /\ [Next]_vars => IndInv'
BY LockStep, TypeStep, UnfinishedStep, SentinelStep, SettledStep, EndStep,
   RoomStep
DEF IndInv


(* The inductive invariant of the event queue, for every number of threads,*)
(* events and slots, every policy, with and without a callback.            *)
THEOREM Inductive == Spec => []IndInv
BY IndInit, IndStep, PTL DEF Spec

(* Types: in particular the queue's unfinished count never goes below zero *)
(* (task_done() would raise ValueError).                                   *)
THEOREM TypeCorrect == Spec => []TypeOK
<1>1. IndInv => TypeOK
    BY DEF IndInv
<1> QED
    BY <1>1, Inductive, PTL

(* One thread at a time is inside `with self._lock`, and a thread that runs*)
(* on_drop is not: the callback may take the lock itself.                  *)
THEOREM MutualExclusion == Spec => []LockDiscipline
<1>1. IndInv => LockDiscipline
    BY DEF IndInv
<1> QED
    BY <1>1, Inductive, PTL

(* The counter flush() polls is exact: the queue, the worker's hand and a  *)
(* victim under eviction.                                                  *)
THEOREM UnfinishedCorrect == Spec => []UnfinishedExact
<1>1. IndInv => UnfinishedExact
    BY DEF IndInv
<1> QED
    BY <1>1, Inductive, PTL

(* Nothing follows the sentinel of close() into the queue, nothing is left *)
(* behind it when the worker takes it, and no put evicts it.               *)
THEOREM SentinelCorrect == Spec => []SentinelLast
<1>1. IndInv => SentinelLast
    BY DEF IndInv, SentinelInv, SentinelLast, CloseCommitted
<1> QED
    BY <1>1, Inductive, PTL

(* A flush that returns on `unfinished_tasks == 0` leaves no accepted event*)
(* unwritten and no failed write unreported.                               *)
THEOREM FlushCorrect == Spec => []DrainedMeansSettled
<1>1. IndInv => DrainedMeansSettled
    <2> SUFFICES ASSUME IndInv, unfinished = 0
                 PROVE  \A e \in Events : Settled(e)
        BY DEF DrainedMeansSettled
    <2>1. Len(q) \in Nat /\ UnfinishedExact
        BY LenInNat DEF IndInv
    <2>2. ~WorkerHolds
        <3> SUFFICES ASSUME WorkerHolds PROVE FALSE
            OBVIOUS
        <3>1. unfinished >= Len(q) + 1
            BY <2>1 DEF UnfinishedExact
        <3> QED
            BY <2>1, <3>1
    <2>3. Len(q) = 0
        BY <2>1, <2>2 DEF UnfinishedExact
    <2> QED
        BY <2>2, <2>3 DEF IndInv, SettledInv, Settled, WorkerHolds
<1> QED
    BY <1>1, Inductive, PTL

(* A close() that delivered its sentinel and joined the worker has drained *)
(* the queue, whatever puts, flushes and closes raced with it.             *)
THEOREM CloseCorrect == Spec => []CleanCloseDrains
<1>1. IndInv => CleanCloseDrains
    <2> SUFFICES ASSUME IndInv, NEW c \in Closers, pc[c] = "joined", ~stop
                 PROVE  q = <<>> /\ \A e \in Events : Settled(e)
        BY DEF CleanCloseDrains
    <2>1. pc[Worker] = "done" /\ q = <<>>
        BY DEF IndInv, EndInv
    <2>2. Len(q) = 0
        BY <2>1, EmptySeq
    <2> QED
        BY <2>1, <2>2 DEF IndInv, SettledInv, Settled
<1> QED
    BY <1>1, Inductive, PTL

(* With a callback, drop_oldest always keeps the new event: the second Full*)
(* handler of put() (queue.py:89-91) is dead code.                         *)
THEOREM EvictionMakesRoom ==
    ASSUME OnDrop
    PROVE  Spec => []NewestKept
<1>1. Init => NewestKept
    BY DEF Init, NewestKept
<1>2. IndInv /\ NewestKept /\ [Next]_vars => NewestKept'
    BY NewestStep DEF IndInv
<1> QED
    BY <1>1, <1>2, Inductive, PTL DEF Spec

-----------------------------------------------------------------------------
(***************************************************************************)
(* Custody.  Every event is in one place at a time (CustodyInv), from      *)
(* which follows that what became of it is settled once.                   *)
(***************************************************************************)

(* One step leaves alone the fate of what was stored, lost or refused.     *)
Final ==
    \A e \in Events :
        fate[e] \in Lost \cup {"refused", "stored"} => fate'[e] = fate[e]

(* An event that is not "queued" is not in the queue.                      *)
LEMMA SentinelApart ==
    ASSUME CustodyInv, NEW e \in Events, fate[e] # "queued"
    PROVE  \A i \in 1..Len(q) : q[i] # e
BY DistinctAssumption DEF CustodyInv

(* Appending a new element to a sequence without repetitions.              *)
LEMMA AppendDistinct ==
    ASSUME NEW x,
           \A i \in 1..Len(q) : q[i] # x,
           \A i, j \in 1..Len(q) : q[i] = q[j] => i = j,
           \A i \in 1..Len(q') :
             (i \in 1..Len(q) /\ q'[i] = q[i]) \/ (i = Len(q') /\ q'[i] = x)
    PROVE  \A i, j \in 1..Len(q') : q'[i] = q'[j] => i = j
OBVIOUS

(* An element that is in neither the sequence nor the appended place.      *)
LEMMA AppendApart ==
    ASSUME NEW x, NEW w, w # x,
           \A i \in 1..Len(q) : q[i] # w,
           \A i \in 1..Len(q') :
             (i \in 1..Len(q) /\ q'[i] = q[i]) \/ (i = Len(q') /\ q'[i] = x)
    PROVE  \A i \in 1..Len(q') : q'[i] # w
OBVIOUS

(* Events change hands: each action takes an event from the one place it   *)
(* was in.                                                                 *)
LEMMA CustodyStep ==
    TypeOK /\ LockDiscipline /\ SentinelInv /\ CustodyInv /\ [Next]_vars => CustodyInv'
<1> SUFFICES ASSUME TypeOK, LockDiscipline, SentinelInv, CustodyInv, [Next]_vars
             PROVE  CustodyInv'
    OBVIOUS
<1> USE DistinctAssumption
    DEF TypeOK, LockDiscipline, Critical, WorkerHolds, SentinelInv,
        CloseCommitted, Carrying, CustodyInv,
        Goto, Acquire, Release, Return, Settle, Blame, CountStore, Report, HasRoom,
        AfterFlush, TaskDone, queueVars, flagVars, lossVars, dropVars,
        histVars, exceptPc, Threads
<1>1. ASSUME NEW p \in Producers, NEW e \in Events, PutCall(p, e)
    PROVE  CustodyInv'
    <2>1. fate' = [fate EXCEPT ![e] = "offered"] /\ fate[e] = "new"
        BY <1>1 DEF PutCall
    <2>2. \A i \in 1..Len(q) : q[i] # e
        BY <2>1, SentinelApart
    <2> QED
        BY <1>1, <2>1, <2>2 DEF PutCall
<1>2. ASSUME NEW p \in Producers, PutRefused(p) PROVE CustodyInv'
    BY <1>2 DEF PutRefused
<1>3. ASSUME NEW p \in Producers, PutEnter(p) PROVE CustodyInv'
    BY <1>3 DEF PutEnter
<1>4. ASSUME NEW p \in Producers, TryAccepted(p) PROVE CustodyInv'
    <2>1. data[p] \in Items /\ Enqueue(data[p])
        BY <1>4 DEF TryAccepted, Items
    <2>2. Appended(data[p])
        BY <2>1, EnqueueFacts
    <2>3. fate[data[p]] = "offered" /\ \A i \in 1..Len(q) : q[i] # data[p]
        BY <1>4, SentinelApart DEF TryAccepted
    <2>4. \A i \in 1..Len(q') : (i \in 1..Len(q) /\ q'[i] = q[i]) \/ (i =
              Len(q') /\ q'[i] = data[p])
        BY <2>2 DEF Appended
    <2>5. \A i \in 1..Len(q) : q[i] \in Items
        BY ElementOfSeq DEF Items
    <2>6. \A i \in 1..Len(q') : q'[i] # Sentinel => fate'[q'[i]] = "queued"
        BY <1>4, <2>3, <2>4, <2>5 DEF TryAccepted, Items
    <2>7. \A i, j \in 1..Len(q) : q[i] = q[j] => i = j
        OBVIOUS
    <2>8. \A i, j \in 1..Len(q') : q'[i] = q'[j] => i = j
        BY <2>3, <2>4, <2>7, AppendDistinct
    <2>9. pc[Worker] = "write" => \A i \in 1..Len(q') : q'[i] # data[Worker]
        BY <1>4, <2>3, <2>4 DEF TryAccepted
    <2> QED
        BY <1>4, <2>1, <2>2, <2>3, <2>4, <2>5, <2>6, <2>7, <2>8, <2>9
            DEF TryAccepted
<1>5. ASSUME NEW p \in Producers, TryFull(p) PROVE CustodyInv'
    BY <1>5 DEF TryFull
<1>6. ASSUME NEW p \in Producers, CountLoad(p) PROVE CustodyInv'
    BY <1>6 DEF CountLoad
<1>7. ASSUME NEW p \in Producers, CountSilently(p) PROVE CustodyInv'
    BY <1>7 DEF CountSilently
<1>8. ASSUME NEW p \in Producers, CountNewest(p) PROVE CustodyInv'
    BY <1>8 DEF CountNewest
<1>9. ASSUME NEW p \in Producers, CountOldest(p) PROVE CustodyInv'
    BY <1>9 DEF CountOldest
<1>10. ASSUME NEW p \in Producers, Evict(p) PROVE CustodyInv'
    <2>1. lock = p /\ ~closed /\ q # <<>> /\ q' = Tail(q)
        BY <1>10 DEF Evict
    <2>2. Dequeued
        BY <2>1, DequeueFacts
    <2>3. \A i \in 1..Len(q') : q'[i] # Head(q)
        BY <2>2, LenInNat DEF Dequeued
    <2>4. \A i, j \in 1..Len(q') : q'[i] = q'[j] => i = j
        BY <2>2, LenInNat DEF Dequeued
    <2>5. \A i \in 1..Len(q') : \E j \in 1..Len(q) : q'[i] = q[j]
        BY <2>2, LenInNat DEF Dequeued
    <2>6. Head(q) = q[1] /\ 1 \in 1..Len(q) /\ q[1] \in Items
        BY <2>2, LenInNat DEF Dequeued
    <2>7. q[1] # Sentinel
        BY <2>1, <2>6
    <2>8. Head(q) \in Events /\ fate[Head(q)] = "queued"
        BY <2>6, <2>7 DEF Items
    <2>9. \A i \in 1..Len(q') : q'[i] # Sentinel => fate'[q'[i]] = "queued"
        BY <1>10, <2>3, <2>5 DEF Evict
    <2> QED
        BY <1>10, <2>1, <2>2, <2>3, <2>4, <2>5, <2>6, <2>7, <2>8, <2>9
            DEF Evict
<1>11. ASSUME NEW p \in Producers, EvictTaskDone(p) PROVE CustodyInv'
    BY <1>11 DEF EvictTaskDone
<1>12. ASSUME NEW p \in Producers, EvictEmpty(p) PROVE CustodyInv'
    BY <1>12 DEF EvictEmpty
<1>13. ASSUME NEW p \in Producers, RePut(p) PROVE CustodyInv'
    <2>1. data[p] \in Items /\ data[p] \in Events
        BY <1>13 DEF RePut, Items
    <2>2. ASSUME HasRoom PROVE Appended(data[p])
        BY <1>13, <2>1, <2>2, EnqueueFacts DEF RePut
    <2>3. fate[data[p]] = "offered" /\ \A i \in 1..Len(q) : q[i] # data[p]
        BY <1>13, SentinelApart DEF RePut
    <2>4. HasRoom => \A i \in 1..Len(q') : (i \in 1..Len(q) /\ q'[i] = q[i])
              \/ (i = Len(q') /\ q'[i] = data[p])
        BY <2>2 DEF Appended
    <2>5. \A i \in 1..Len(q) : q[i] \in Items
        BY ElementOfSeq DEF Items
    <2>6. HasRoom => fate' = [fate EXCEPT ![data[p]] = "queued"]
        BY <1>13 DEF RePut
    <2>7. ~HasRoom => q' = q /\ fate' = [fate EXCEPT ![data[p]] = "overflow"]
        BY <1>13 DEF RePut
    <2>8. \A i \in 1..Len(q') : q'[i] # Sentinel => fate'[q'[i]] = "queued"
        BY <2>1, <2>3, <2>4, <2>5, <2>6, <2>7 DEF Items
    <2>9. \A i, j \in 1..Len(q) : q[i] = q[j] => i = j
        OBVIOUS
    <2>10. HasRoom => \A i, j \in 1..Len(q') : q'[i] = q'[j] => i = j
        BY <2>3, <2>4, <2>9, AppendDistinct
    <2>11. pc[Worker] = "write" => \A i \in 1..Len(q') : q'[i] # data[Worker]
        BY <1>13, <2>3, <2>4, <2>7 DEF RePut
    <2>12. \A o \in Producers \ {p} : pc'[o] = pc[o] /\ data'[o] = data[o]
        BY <1>13 DEF RePut
    <2>13. \A o \in Producers \ {p} : pc[o] \in Carrying => fate'[data[o]] =
               "offered"
        BY <1>13, <2>6, <2>7 DEF RePut
    <2>14. pc'[p] \notin Carrying /\ pc'[Worker] = pc[Worker] /\ data' = data
        BY <1>13 DEF RePut
    <2>15. pc[Worker] = "write" => fate'[data[Worker]] = "queued"
        BY <2>3, <2>6, <2>7
    <2>16. \A i, j \in 1..Len(q') : q'[i] = q'[j] => i = j
        BY <2>7, <2>9, <2>10
    <2>17. \A o \in Producers : pc'[o] \in Carrying => o # p /\ pc[o] \in
               Carrying
        BY <2>12, <2>14
    <2> QED
        BY <2>1, <2>2, <2>3, <2>4, <2>5, <2>6, <2>7, <2>8, <2>9,
            <2>10, <2>11, <2>12, <2>13, <2>14, <2>15, <2>16, <2>17 DEF
            RePut
<1>14. ASSUME NEW p \in Producers, PutReport(p) PROVE CustodyInv'
    BY <1>14 DEF PutReport
<1>15. ASSUME NEW p \in Producers, FlushCall(p) PROVE CustodyInv'
    BY <1>15 DEF FlushCall
<1>16. ASSUME NEW p \in Producers, FlushDrained(p) PROVE CustodyInv'
    BY <1>16 DEF FlushDrained
<1>17. ASSUME NEW p \in Producers, FlushTimeout(p) PROVE CustodyInv'
    BY <1>17 DEF FlushTimeout
<1>18. ASSUME NEW c \in Closers, CloseCall(c) PROVE CustodyInv'
    BY <1>18 DEF CloseCall
<1>19. ASSUME NEW c \in Closers, CloseAgain(c) PROVE CustodyInv'
    BY <1>19 DEF CloseAgain
<1>20. ASSUME NEW c \in Closers, CloseEnter(c) PROVE CustodyInv'
    BY <1>20 DEF CloseEnter
<1>21. ASSUME NEW c \in Closers, SentinelPut(c) PROVE CustodyInv'
    <2>1. Enqueue(Sentinel)
        BY <1>21 DEF SentinelPut
    <2>2. Appended(Sentinel)
        BY <2>1, EnqueueFacts DEF Items
    <2>3. \A i \in 1..Len(q) : q[i] # Sentinel
        BY <1>21 DEF SentinelPut
    <2>4. \A i \in 1..Len(q') : (i \in 1..Len(q) /\ q'[i] = q[i]) \/ (i =
              Len(q') /\ q'[i] = Sentinel)
        BY <2>2 DEF Appended
    <2>5. \A i \in 1..Len(q') : q'[i] # Sentinel => fate'[q'[i]] = "queued"
        BY <1>21, <2>3, <2>4 DEF SentinelPut
    <2>6. \A i, j \in 1..Len(q) : q[i] = q[j] => i = j
        OBVIOUS
    <2>7. \A i, j \in 1..Len(q') : q'[i] = q'[j] => i = j
        BY <2>3, <2>4, <2>6, AppendDistinct
    <2>8. pc[Worker] = "write" =>
             data[Worker] # Sentinel /\ \A i \in 1..Len(q) : q[i] # data[Worker]
        OBVIOUS
    <2>9. pc[Worker] = "write" => \A i \in 1..Len(q') : q'[i] # data[Worker]
        BY <2>4, <2>8, AppendApart
    <2> QED
        BY <1>21, <2>1, <2>2, <2>3, <2>4, <2>5, <2>6, <2>7, <2>8, <2>9
            DEF SentinelPut
<1>22. ASSUME NEW c \in Closers, SentinelFull(c) PROVE CustodyInv'
    BY <1>22 DEF SentinelFull
<1>23. ASSUME NEW c \in Closers, FlushDrained(c) PROVE CustodyInv'
    BY <1>23 DEF FlushDrained
<1>24. ASSUME NEW c \in Closers, FlushTimeout(c) PROVE CustodyInv'
    BY <1>24 DEF FlushTimeout
<1>25. ASSUME NEW c \in Closers, JoinExited(c) PROVE CustodyInv'
    BY <1>25 DEF JoinExited
<1>26. ASSUME NEW c \in Closers, JoinTimeout(c) PROVE CustodyInv'
    BY <1>26 DEF JoinTimeout
<1>27. CASE Get
    <2>1. q # <<>> /\ q' = Tail(q)
        BY <1>27 DEF Get
    <2>2. Dequeued
        BY <2>1, DequeueFacts
    <2>3. \A i \in 1..Len(q') : q'[i] # Head(q)
        BY <2>2, LenInNat DEF Dequeued
    <2>4. \A i, j \in 1..Len(q') : q'[i] = q'[j] => i = j
        BY <2>2, LenInNat DEF Dequeued
    <2>5. \A i \in 1..Len(q') : \E j \in 1..Len(q) : q'[i] = q[j]
        BY <2>2, LenInNat DEF Dequeued
    <2>6. Head(q) = q[1] /\ 1 \in 1..Len(q) /\ q[1] \in Items
        BY <2>2, LenInNat DEF Dequeued
    <2>7. Head(q) # Sentinel => fate[Head(q)] = "queued"
        BY <2>6
    <2>8. \A i \in 1..Len(q') : q'[i] # Sentinel => fate'[q'[i]] = "queued"
        BY <1>27, <2>5 DEF Get
    <2> QED
        BY <1>27, <2>1, <2>2, <2>3, <2>4, <2>5, <2>6, <2>7, <2>8 DEF Get
<1>28. CASE GetEmpty
    BY <1>28 DEF GetEmpty
<1>29. CASE StopCheck
    BY <1>29 DEF StopCheck
<1>30. CASE SentinelDone
    BY <1>30 DEF SentinelDone
<1>31. CASE WriteOk
    BY <1>31 DEF WriteOk
<1>32. CASE WriteRaises
    BY <1>32 DEF WriteRaises
<1>33. CASE FailEnter
    BY <1>33 DEF FailEnter
<1>34. CASE CountLoad(Worker)
    BY <1>34 DEF CountLoad
<1>35. CASE FailCount
    BY <1>35 DEF FailCount
<1>36. CASE FailReport
    BY <1>36 DEF FailReport
<1>37. CASE ItemDone
    BY <1>37 DEF ItemDone
<1>38. CASE UNCHANGED vars
    BY <1>38 DEF vars
<1> QED
    BY <1>1, <1>2, <1>3, <1>4, <1>5, <1>6, <1>7, <1>8, <1>9, <1>10, <1>11,
       <1>12, <1>13, <1>14, <1>15, <1>16, <1>17, <1>18, <1>19, <1>20,
       <1>21, <1>22, <1>23, <1>24, <1>25, <1>26, <1>27, <1>28, <1>29,
       <1>30, <1>31, <1>32, <1>33, <1>34, <1>35, <1>36, <1>37, <1>38
    DEF Next, PutStep, PutInside, CountReported, FlushStep, CloseStep,
        WorkerStep, WorkerInside

(* Each action changes the fate only of an event that is not settled yet.  *)
LEMMA FinalStep ==
    TypeOK /\ LockDiscipline /\ SentinelInv /\ CustodyInv /\ [Next]_vars => Final
<1> SUFFICES ASSUME TypeOK, LockDiscipline, SentinelInv, CustodyInv, [Next]_vars
             PROVE  Final
    OBVIOUS
<1> USE DistinctAssumption
    DEF TypeOK, LockDiscipline, Critical, WorkerHolds, SentinelInv,
        CloseCommitted, Carrying, CustodyInv, Final, Lost,
        Goto, Acquire, Release, Return, Settle, Blame, CountStore, Report, HasRoom,
        AfterFlush, TaskDone, queueVars, flagVars, lossVars, dropVars,
        histVars, exceptPc, Threads
<1>1. ASSUME NEW p \in Producers, NEW e \in Events, PutCall(p, e) PROVE Final
    BY <1>1 DEF PutCall
<1>2. ASSUME NEW p \in Producers, PutRefused(p) PROVE Final
    BY <1>2 DEF PutRefused
<1>3. ASSUME NEW p \in Producers, PutEnter(p) PROVE Final
    BY <1>3 DEF PutEnter
<1>4. ASSUME NEW p \in Producers, TryAccepted(p) PROVE Final
    BY <1>4 DEF TryAccepted
<1>5. ASSUME NEW p \in Producers, TryFull(p) PROVE Final
    BY <1>5 DEF TryFull
<1>6. ASSUME NEW p \in Producers, CountLoad(p) PROVE Final
    BY <1>6 DEF CountLoad
<1>7. ASSUME NEW p \in Producers, CountSilently(p) PROVE Final
    BY <1>7 DEF CountSilently
<1>8. ASSUME NEW p \in Producers, CountNewest(p) PROVE Final
    BY <1>8 DEF CountNewest
<1>9. ASSUME NEW p \in Producers, CountOldest(p) PROVE Final
    BY <1>9 DEF CountOldest
<1>10. ASSUME NEW p \in Producers, Evict(p) PROVE Final
    <2>1. ~closed /\ q # <<>> /\ q' = Tail(q)
        BY <1>10 DEF Evict
    <2>2. Dequeued
        BY <2>1, DequeueFacts
    <2>3. Head(q) = q[1] /\ 1 \in 1..Len(q) /\ q[1] \in Items
        BY <2>2, LenInNat DEF Dequeued
    <2>4. q[1] # Sentinel
        BY <2>1, <2>3
    <2>5. Head(q) \in Events /\ fate[Head(q)] = "queued"
        BY <2>3, <2>4 DEF Items
    <2> QED
        BY <1>10, <2>1, <2>2, <2>3, <2>4, <2>5 DEF Evict
<1>11. ASSUME NEW p \in Producers, EvictTaskDone(p) PROVE Final
    BY <1>11 DEF EvictTaskDone
<1>12. ASSUME NEW p \in Producers, EvictEmpty(p) PROVE Final
    BY <1>12 DEF EvictEmpty
<1>13. ASSUME NEW p \in Producers, RePut(p) PROVE Final
    BY <1>13 DEF RePut
<1>14. ASSUME NEW p \in Producers, PutReport(p) PROVE Final
    BY <1>14 DEF PutReport
<1>15. ASSUME NEW p \in Producers, FlushCall(p) PROVE Final
    BY <1>15 DEF FlushCall
<1>16. ASSUME NEW p \in Producers, FlushDrained(p) PROVE Final
    BY <1>16 DEF FlushDrained
<1>17. ASSUME NEW p \in Producers, FlushTimeout(p) PROVE Final
    BY <1>17 DEF FlushTimeout
<1>18. ASSUME NEW c \in Closers, CloseCall(c) PROVE Final
    BY <1>18 DEF CloseCall
<1>19. ASSUME NEW c \in Closers, CloseAgain(c) PROVE Final
    BY <1>19 DEF CloseAgain
<1>20. ASSUME NEW c \in Closers, CloseEnter(c) PROVE Final
    BY <1>20 DEF CloseEnter
<1>21. ASSUME NEW c \in Closers, SentinelPut(c) PROVE Final
    BY <1>21 DEF SentinelPut
<1>22. ASSUME NEW c \in Closers, SentinelFull(c) PROVE Final
    BY <1>22 DEF SentinelFull
<1>23. ASSUME NEW c \in Closers, FlushDrained(c) PROVE Final
    BY <1>23 DEF FlushDrained
<1>24. ASSUME NEW c \in Closers, FlushTimeout(c) PROVE Final
    BY <1>24 DEF FlushTimeout
<1>25. ASSUME NEW c \in Closers, JoinExited(c) PROVE Final
    BY <1>25 DEF JoinExited
<1>26. ASSUME NEW c \in Closers, JoinTimeout(c) PROVE Final
    BY <1>26 DEF JoinTimeout
<1>27. CASE Get
    BY <1>27 DEF Get
<1>28. CASE GetEmpty
    BY <1>28 DEF GetEmpty
<1>29. CASE StopCheck
    BY <1>29 DEF StopCheck
<1>30. CASE SentinelDone
    BY <1>30 DEF SentinelDone
<1>31. CASE WriteOk
    BY <1>31 DEF WriteOk
<1>32. CASE WriteRaises
    BY <1>32 DEF WriteRaises
<1>33. CASE FailEnter
    BY <1>33 DEF FailEnter
<1>34. CASE CountLoad(Worker)
    BY <1>34 DEF CountLoad
<1>35. CASE FailCount
    BY <1>35 DEF FailCount
<1>36. CASE FailReport
    BY <1>36 DEF FailReport
<1>37. CASE ItemDone
    BY <1>37 DEF ItemDone
<1>38. CASE UNCHANGED vars
    BY <1>38 DEF vars
<1> QED
    BY <1>1, <1>2, <1>3, <1>4, <1>5, <1>6, <1>7, <1>8, <1>9, <1>10, <1>11,
       <1>12, <1>13, <1>14, <1>15, <1>16, <1>17, <1>18, <1>19, <1>20,
       <1>21, <1>22, <1>23, <1>24, <1>25, <1>26, <1>27, <1>28, <1>29,
       <1>30, <1>31, <1>32, <1>33, <1>34, <1>35, <1>36, <1>37, <1>38
    DEF Next, PutStep, PutInside, CountReported, FlushStep, CloseStep,
        WorkerStep, WorkerInside

(* At the start nothing is in any hand.                                    *)
LEMMA CustodyInit == Init => CustodyInv
<1> SUFFICES ASSUME Init PROVE CustodyInv
    OBVIOUS
<1>1. Len(q) = 0
    BY EmptySeq DEF Init
<1>2. \A p \in Producers : pc[p] \notin Carrying
    BY DistinctAssumption DEF Init, Threads, Carrying
<1>3. pc[Worker] # "write"
    BY DistinctAssumption DEF Init, Threads
<1> QED
    BY <1>1, <1>2, <1>3 DEF CustodyInv

(* An unsettled event is carried by one put, or once in the queue, or in   *)
(* the worker's hand, and never in two of these places.                    *)
THEOREM CustodyCorrect == Spec => []CustodyInv
<1>1. Init => CustodyInv
    BY CustodyInit
<1>2. IndInv /\ CustodyInv /\ [Next]_vars => CustodyInv'
    BY CustodyStep DEF IndInv
<1> QED
    BY <1>1, <1>2, Inductive, PTL DEF Spec

-----------------------------------------------------------------------------
(***************************************************************************)
(* What on_drop is told.  A put that owes a report has its victim in hand: *)
(* an event that left the queue, or its own, which is lost unless the put  *)
(* found the queue empty after it had found it full.                       *)
(***************************************************************************)
Putting == Carrying \cup {"callback"}

LostFor(t) == victim[t] \in Events => fate[victim[t]] \in Lost

(* The put whose event is kept although it will be reported.               *)
OwnKept(p) ==
    Policy = "drop_oldest" /\ reason[p] # "drop_oldest" /\ victim[p] = data[p]

VictimInv(p) ==
    /\ pc[p] \in Putting => fate[data[p]] # "new" /\ result[data[p]] = "none"
    /\ pc[p] \in {"evict", "evicted", "reput"} => Policy = "drop_oldest"
    /\ pc[p] = "evict" => victim[p] = data[p]
    /\ pc[p] = "evicted" => LostFor(p)
    /\ pc[p] \in {"reput", "callback"} => LostFor(p) \/ OwnKept(p)

ReportInv ==
    /\ LossReportsTrue
    /\ \A e \in Events : fate[e] = "new" => result[e] = "none" /\ reports[e] = 0
    /\ \A o, p \in Producers :
         pc[o] \in Putting /\ pc[p] \in Putting /\ data[o] = data[p] => o = p
    /\ \A p \in Producers : VictimInv(p)
    /\ pc[Worker] \in {"fail", "count", "bump"} => fate[data[Worker]] = "failed"
    /\ pc[Worker] = "callback" => LostFor(Worker)

(* Each action keeps ReportInv.                                            *)
LEMMA ReportsStep ==
    ASSUME TypeOK, LockDiscipline, SentinelInv, CustodyInv, Final, ReportInv,
           [Next]_vars
    PROVE  ReportInv'
<1> USE DistinctAssumption
    DEF TypeOK, Critical, WorkerHolds, Carrying, Putting, CustodyInv, Final,
        ReportInv, VictimInv, LostFor, OwnKept, LossReportsTrue, PhantomLoss, Lost,
        Goto, Acquire, Release, Return, Settle, Blame, CountStore, Report, HasRoom,
        AfterFlush, TaskDone, queueVars, flagVars, lossVars, dropVars,
        histVars, exceptPc, Threads
<1>1. ASSUME NEW p \in Producers, NEW e \in Events, PutCall(p, e) PROVE ReportInv'
    BY <1>1 DEF PutCall
<1>2. ASSUME NEW p \in Producers, PutRefused(p) PROVE ReportInv'
    BY <1>2 DEF PutRefused
<1>3. ASSUME NEW p \in Producers, PutEnter(p) PROVE ReportInv'
    BY <1>3 DEF PutEnter
<1>4. ASSUME NEW p \in Producers, TryAccepted(p) PROVE ReportInv'
    BY <1>4 DEF TryAccepted
<1>5. ASSUME NEW p \in Producers, TryFull(p) PROVE ReportInv'
    BY <1>5 DEF TryFull
<1>6. ASSUME NEW p \in Producers, CountLoad(p) PROVE ReportInv'
    BY <1>6 DEF CountLoad
<1>7. ASSUME NEW p \in Producers, CountSilently(p) PROVE ReportInv'
    BY <1>7 DEF CountSilently
<1>8. ASSUME NEW p \in Producers, CountNewest(p) PROVE ReportInv'
    BY <1>8 DEF CountNewest
<1>9. ASSUME NEW p \in Producers, CountOldest(p) PROVE ReportInv'
    BY <1>9 DEF CountOldest
<1>10. ASSUME NEW p \in Producers, Evict(p) PROVE ReportInv'
    BY <1>10 DEF Evict
<1>11. ASSUME NEW p \in Producers, EvictTaskDone(p) PROVE ReportInv'
    BY <1>11 DEF EvictTaskDone
<1>12. ASSUME NEW p \in Producers, EvictEmpty(p) PROVE ReportInv'
    BY <1>12 DEF EvictEmpty
<1>13. ASSUME NEW p \in Producers, RePut(p) PROVE ReportInv'
    <2>1. /\ pc[p] = "reput" /\ pc' = [pc EXCEPT ![p] = "callback"]
          /\ data' = data /\ reports' = reports /\ result' = result
          /\ p \in Threads
          /\ data[p] \in Events /\ fate[data[p]] = "offered"
        BY <1>13 DEF RePut
    <2>2. \/ /\ fate' = [fate EXCEPT ![data[p]] = "queued"]
             /\ reason' = reason /\ victim' = victim
          \/ /\ fate' = [fate EXCEPT ![data[p]] = "overflow"]
             /\ reason' = [reason EXCEPT ![p] = "drop_newest_after_oldest"]
             /\ victim' = [victim EXCEPT ![p] = data[p]]
        BY <1>13 DEF RePut
    <2>3. VictimInv(p)'
        BY <2>1, <2>2
    <2>4. ASSUME NEW o \in Producers \ {p} PROVE VictimInv(o)'
        <3>1. /\ pc'[o] = pc[o] /\ victim'[o] = victim[o] /\ reason'[o] = reason[o]
              /\ o \in Threads
            BY <2>1, <2>2
        <3>2. LostFor(o) => LostFor(o)'
            BY <2>1, <2>2, <3>1
        <3>3. OwnKept(o) => OwnKept(o)'
            BY <2>1, <3>1
        <3>4. ASSUME pc[o] \in Putting
              PROVE  fate'[data[o]] # "new" /\ result[data[o]] = "none"
            <4>1. fate[data[o]] # "new" /\ result[data[o]] = "none"
                BY <3>4
            <4>2. data[o] \in Events /\ fate \in [Events -> Fates]
                BY <3>4
            <4> QED
                BY ONLY <2>1, <2>2, <4>1, <4>2
        <3> HIDE DEF LostFor, OwnKept, Putting
        <3> QED
            BY <2>1, <3>1, <3>2, <3>3, <3>4
    <2>5. LossReportsTrue'
        BY <2>1, <2>2
    <2>6. /\ pc'[Worker] \in {"fail", "count", "bump"} => fate'[data'[Worker]] = "failed"
          /\ pc'[Worker] = "callback" => LostFor(Worker)'
        BY <2>1, <2>2
    <2>7. /\ \A e \in Events : fate'[e] = "new" => result'[e] = "none" /\ reports'[e] = 0
          /\ \A o, r \in Producers :
               pc'[o] \in Putting /\ pc'[r] \in Putting /\ data'[o] = data'[r] => o = r
        BY <2>1, <2>2
    <2> QED
        BY <2>3, <2>4, <2>5, <2>6, <2>7
<1>14. ASSUME NEW p \in Producers, PutReport(p) PROVE ReportInv'
    BY <1>14 DEF PutReport
<1>15. ASSUME NEW p \in Producers, FlushCall(p) PROVE ReportInv'
    BY <1>15 DEF FlushCall
<1>16. ASSUME NEW p \in Producers, FlushDrained(p) PROVE ReportInv'
    BY <1>16 DEF FlushDrained
<1>17. ASSUME NEW p \in Producers, FlushTimeout(p) PROVE ReportInv'
    BY <1>17 DEF FlushTimeout
<1>18. ASSUME NEW c \in Closers, CloseCall(c) PROVE ReportInv'
    BY <1>18 DEF CloseCall
<1>19. ASSUME NEW c \in Closers, CloseAgain(c) PROVE ReportInv'
    BY <1>19 DEF CloseAgain
<1>20. ASSUME NEW c \in Closers, CloseEnter(c) PROVE ReportInv'
    BY <1>20 DEF CloseEnter
<1>21. ASSUME NEW c \in Closers, SentinelPut(c) PROVE ReportInv'
    BY <1>21 DEF SentinelPut
<1>22. ASSUME NEW c \in Closers, SentinelFull(c) PROVE ReportInv'
    BY <1>22 DEF SentinelFull
<1>23. ASSUME NEW c \in Closers, FlushDrained(c) PROVE ReportInv'
    BY <1>23 DEF FlushDrained
<1>24. ASSUME NEW c \in Closers, FlushTimeout(c) PROVE ReportInv'
    BY <1>24 DEF FlushTimeout
<1>25. ASSUME NEW c \in Closers, JoinExited(c) PROVE ReportInv'
    BY <1>25 DEF JoinExited
<1>26. ASSUME NEW c \in Closers, JoinTimeout(c) PROVE ReportInv'
    BY <1>26 DEF JoinTimeout
<1>27. CASE Get
    BY <1>27 DEF Get
<1>28. CASE GetEmpty
    BY <1>28 DEF GetEmpty
<1>29. CASE StopCheck
    BY <1>29 DEF StopCheck
<1>30. CASE SentinelDone
    BY <1>30 DEF SentinelDone
<1>31. CASE WriteOk
    BY <1>31 DEF WriteOk
<1>32. CASE WriteRaises
    BY <1>32 DEF WriteRaises
<1>33. CASE FailEnter
    BY <1>33 DEF FailEnter
<1>34. CASE CountLoad(Worker)
    BY <1>34 DEF CountLoad
<1>35. CASE FailCount
    BY <1>35 DEF FailCount
<1>36. CASE FailReport
    BY <1>36 DEF FailReport
<1>37. CASE ItemDone
    BY <1>37 DEF ItemDone
<1>38. CASE UNCHANGED vars
    BY <1>38 DEF vars
<1> QED
    BY <1>1, <1>2, <1>3, <1>4, <1>5, <1>6, <1>7, <1>8, <1>9, <1>10, <1>11,
       <1>12, <1>13, <1>14, <1>15, <1>16, <1>17, <1>18, <1>19, <1>20,
       <1>21, <1>22, <1>23, <1>24, <1>25, <1>26, <1>27, <1>28, <1>29,
       <1>30, <1>31, <1>32, <1>33, <1>34, <1>35, <1>36, <1>37, <1>38
    DEF Next, PutStep, PutInside, CountReported, FlushStep, CloseStep,
        WorkerStep, WorkerInside

(* on_drop is told of an event only when it is lost for good, or when a    *)
(* drop_oldest put keeps it and answers False, whatever threads, sizes and *)
(* policies, and whether the worker gets before or after the call.         *)
THEOREM ReportsCorrect == Spec => []LossReportsTrue
<1>1. Init => ReportInv
    BY DistinctAssumption
    DEF Init, ReportInv, VictimInv, Putting, Carrying, LossReportsTrue, Threads
<1>2. IndInv /\ CustodyInv /\ ReportInv /\ [Next]_vars => ReportInv'
    BY FinalStep, ReportsStep DEF IndInv
<1>3. ReportInv => LossReportsTrue
    BY DEF ReportInv
<1> QED
    BY <1>1, <1>2, <1>3, Inductive, CustodyCorrect, PTL DEF Spec

-----------------------------------------------------------------------------
(***************************************************************************)
(* Refinement.  Pending holds the events whose fate is open in the order   *)
(* in which they were accepted, and what each action does to it is what    *)
(* one step of LossyFifo does, or nothing.                                 *)
(***************************************************************************)

(* Pending, item by item: the worker's event, then the queue.              *)
Held == IF pc[Worker] = "write" THEN 1 ELSE 0
Queued == IF q # <<>> /\ q[Len(q)] = Sentinel THEN Len(q) - 1 ELSE Len(q)

PendingShape ==
    /\ Held \in {0, 1} /\ (Held = 1 <=> pc[Worker] = "write")
    /\ Queued \in Nat /\ Queued <= Len(q)
    /\ \A i \in 1..Queued : q[i] \in Events
    /\ Queued < Len(q) => Queued = Len(q) - 1 /\ q[Len(q)] = Sentinel
    /\ Pending \in Seq(Events) /\ Len(Pending) = Held + Queued
    /\ Held = 1 => Pending[1] = data[Worker]
    /\ \A i \in 1..Queued : Pending[Held + i] = q[i]

LEMMA ShapeHolds == TypeOK /\ SentinelInv => PendingShape
<1> SUFFICES ASSUME TypeOK, SentinelInv PROVE PendingShape
    OBVIOUS
<1> USE DistinctAssumption
<1>1. q \in Seq(Items) /\ Len(q) \in Nat /\ \A i \in 1..Len(q) : q[i] \in Items
    BY LenInNat, ElementOfSeq DEF TypeOK, Items
<1>2. q # <<>> => Len(q) >= 1
    BY <1>1, EmptySeq
<1>3. /\ Held \in {0, 1} /\ (Held = 1 <=> pc[Worker] = "write")
      /\ Queued \in Nat /\ Queued <= Len(q)
      /\ Queued < Len(q) => Queued = Len(q) - 1 /\ q[Len(q)] = Sentinel
    BY <1>1, <1>2 DEF Held, Queued
<1>4. \A i \in 1..Queued : q[i] \in Events
    BY <1>1, <1>2 DEF Queued, Items, SentinelInv
<1>5. /\ Accepted \in Seq(Events) /\ Len(Accepted) = Queued
      /\ \A i \in 1..Queued : Accepted[i] = q[i]
    <2>1. CASE q # <<>> /\ q[Len(q)] = Sentinel
        <3>1. Accepted = SubSeq(q, 1, Len(q) - 1) /\ Queued = Len(q) - 1
            BY <2>1 DEF Accepted, Queued
        <3>2. \A i \in 1..(Len(q) - 1) : q[i] \in Events
            BY <1>4, <3>1
        <3> QED
            BY <1>1, <1>2, <2>1, <3>1, <3>2, SubSeqProperties
    <2>2. CASE ~(q # <<>> /\ q[Len(q)] = Sentinel)
        <3>1. Accepted = q /\ Queued = Len(q)
            BY <2>2 DEF Accepted, Queued
        <3>2. \A i \in 1..Len(q) : q[i] \in Events
            BY <1>4, <3>1
        <3> QED
            BY <1>1, <3>1, <3>2
    <2> QED
        BY <2>1, <2>2
<1>6. /\ InHand \in Seq(Events) /\ Len(InHand) = Held
      /\ \A i \in 1..Held : InHand[i] = data[Worker]
    BY DEF InHand, Held, TypeOK, WorkerHolds
<1>7. /\ Pending \in Seq(Events) /\ Len(Pending) = Held + Queued
      /\ \A i \in 1..(Held + Queued) :
           Pending[i] = IF i <= Held THEN InHand[i] ELSE Accepted[i - Held]
    <2>1. /\ InHand \o Accepted \in Seq(Events)
          /\ Len(InHand \o Accepted) = Len(InHand) + Len(Accepted)
          /\ \A i \in 1..(Len(InHand) + Len(Accepted)) : (InHand \o Accepted)[i] =
               IF i <= Len(InHand) THEN InHand[i] ELSE Accepted[i - Len(InHand)]
        BY <1>5, <1>6, ConcatProperties
    <2> QED
        BY <1>5, <1>6, <2>1 DEF Pending
<1>8. Held = 1 => Pending[1] = data[Worker]
    BY <1>3, <1>6, <1>7
<1>9. ASSUME NEW i \in 1..Queued PROVE Pending[Held + i] = q[i]
    <2>1. /\ Held + i \in 1..(Held + Queued) /\ ~(Held + i <= Held)
          /\ (Held + i) - Held = i
        BY <1>3
    <2>2. Pending[Held + i] = Accepted[i]
        BY <1>7, <2>1
    <2> QED
        BY <1>5, <2>2
<1> QED
    BY <1>3, <1>4, <1>7, <1>8, <1>9 DEF PendingShape

(* Before close() has offered its sentinel there is none in the queue.     *)
LEMMA OpenQueue ==
    TypeOK /\ SentinelInv /\ PendingShape /\ ~CloseCommitted => Queued = Len(q)
<1> SUFFICES ASSUME TypeOK, SentinelInv, PendingShape, ~CloseCommitted
             PROVE  Queued = Len(q)
    OBVIOUS
<1>1. Len(q) \in Nat /\ Queued \in Nat /\ Queued <= Len(q)
    BY LenInNat DEF PendingShape
<1>2. ASSUME Queued < Len(q) PROVE FALSE
    <2>1. Len(q) \in 1..Len(q) /\ q[Len(q)] = Sentinel
        BY <1>1, <1>2 DEF PendingShape
    <2> QED
        BY <2>1 DEF SentinelInv
<1> QED
    BY <1>1, <1>2

LEMMA OpenQueueAfter ==
    TypeOK' /\ SentinelInv' /\ PendingShape' /\ ~CloseCommitted' => (Queued = Len(q))'
BY OpenQueue, PTL

LEMMA ShapeAfter == TypeOK' /\ SentinelInv' => PendingShape'
BY ShapeHolds, PTL

-----------------------------------------------------------------------------
(* What a step may do to Pending.                                          *)
LEMMA SamePending ==
    ASSUME PendingShape, PendingShape', Held' = Held, Queued' = Queued,
           Held = 1 => data'[Worker] = data[Worker],
           \A i \in 1..Queued : q'[i] = q[i]
    PROVE  Pending' = Pending
<1> USE DEF PendingShape
<1>1. Len(Pending') = Len(Pending)
    OBVIOUS
<1>2. ASSUME NEW i \in 1..Len(Pending) PROVE Pending'[i] = Pending[i]
    <2>1. CASE i <= Held
        BY <2>1
    <2>2. CASE i > Held
        <3>1. i - Held \in 1..Queued /\ i = Held + (i - Held)
            BY <2>2
        <3> QED
            BY <3>1
    <2> QED
        BY <2>1, <2>2
<1> QED
    BY <1>1, <1>2, SeqEqual

(* The worker takes an event from the queue.                               *)
LEMMA TakenPending ==
    ASSUME PendingShape, PendingShape', Held = 0, Held' = 1, Queued' = Queued - 1,
           Queued >= 1, data'[Worker] = q[1],
           \A i \in 1..Queued - 1 : q'[i] = q[i + 1]
    PROVE  Pending' = Pending
<1> USE DEF PendingShape
<1>1. Len(Pending') = Len(Pending) /\ Pending'[1] = Pending[1]
    OBVIOUS
<1>2. ASSUME NEW i \in 1..Len(Pending), i # 1 PROVE Pending'[i] = Pending[i]
    <2>1. i - 1 \in 1..Queued' /\ i = Held' + (i - 1) /\ i = Held + i /\ i \in 1..Queued
        BY <1>2
    <2>2. Pending'[i] = q'[i - 1] /\ Pending[i] = q[i]
        BY <2>1
    <2> QED
        BY <1>2, <2>1, <2>2
<1> QED
    BY <1>1, <1>2, SeqEqual

LEMMA EmptyPending ==
    ASSUME PendingShape, PendingShape', Held = 0, Held' = 0, Queued = 0, Queued' = 0
    PROVE  Pending' = Pending
<1> USE DEF PendingShape
<1>1. Len(Pending') = 0 /\ Len(Pending) = 0
    OBVIOUS
<1> QED
    BY <1>1, SeqEqual

LEMMA AppendedPending ==
    ASSUME PendingShape, PendingShape', NEW e \in Events, Held' = Held,
           Held = 1 => data'[Worker] = data[Worker],
           Queued' = Queued + 1, q'[Queued + 1] = e,
           \A i \in 1..Queued : q'[i] = q[i]
    PROVE  Pending' = Append(Pending, e)
<1>1. Len(Pending') = Len(Pending) + 1 /\ Len(Pending) \in Nat
    BY DEF PendingShape
<1>2. ASSUME NEW i \in 1..Len(Pending) PROVE Pending'[i] = Pending[i]
    <2>1. CASE i <= Held
        BY <2>1 DEF PendingShape
    <2>2. CASE i > Held
        <3>1. i - Held \in 1..Queued /\ i - Held \in 1..Queued' /\ i = Held + (i - Held)
            BY <2>2 DEF PendingShape
        <3> QED
            BY <3>1 DEF PendingShape
    <2> QED
        BY <2>1, <2>2 DEF PendingShape
<1>3. Pending'[Len(Pending) + 1] = e
    BY DEF PendingShape
<1>4. /\ Append(Pending, e) \in Seq(Events)
      /\ Len(Append(Pending, e)) = Len(Pending) + 1
      /\ \A i \in 1..Len(Pending) : Append(Pending, e)[i] = Pending[i]
      /\ Append(Pending, e)[Len(Pending) + 1] = e
    BY AppendProperties DEF PendingShape
<1>5. \A i \in 1..Len(Pending') : Pending'[i] = Append(Pending, e)[i]
    BY <1>1, <1>2, <1>3, <1>4
<1> QED
    BY <1>1, <1>4, <1>5, SeqEqual DEF PendingShape

(* The worker's event is settled.                                          *)
LEMMA TailPending ==
    ASSUME PendingShape, PendingShape', Held = 1, Held' = 0, Queued' = Queued,
           \A i \in 1..Queued : q'[i] = q[i]
    PROVE  /\ Pending # <<>> /\ Head(Pending) = data[Worker] /\ Pending' = Tail(Pending)
           /\ Pending[1] = data[Worker] /\ 1 <= Len(Pending)
<1>1. Pending \in Seq(Events) /\ Len(Pending) = Queued + 1 /\ Queued \in Nat
    BY DEF PendingShape
<1>2. Pending # <<>>
    BY <1>1, EmptySeq
<1>3. /\ Tail(Pending) \in Seq(Events) /\ Len(Tail(Pending)) = Queued
      /\ \A i \in 1..Queued : Tail(Pending)[i] = Pending[i + 1]
    BY <1>1, <1>2, HeadTailProperties
<1>4. \A i \in 1..Queued : Pending'[i] = Pending[i + 1]
    BY DEF PendingShape
<1>5. Pending' = Tail(Pending)
    <2>1. Pending' \in Seq(Events) /\ Len(Pending') = Queued
        BY DEF PendingShape
    <2> QED
        BY <1>1, <1>3, <1>4, <2>1, SeqEqual
<1>6. Pending[1] = data[Worker]
    BY <1>1 DEF PendingShape
<1> QED
    BY <1>1, <1>2, <1>5, <1>6

(* A sequence without its i-th item.                                       *)
Without(s, i) == SubSeq(s, 1, i - 1) \o SubSeq(s, i + 1, Len(s))

LEMMA WithoutProperties ==
    ASSUME NEW S, NEW s \in Seq(S), NEW i \in 1..Len(s)
    PROVE  /\ Without(s, i) \in Seq(S) /\ Len(Without(s, i)) = Len(s) - 1
           /\ \A j \in 1..Len(s) - 1 :
                Without(s, i)[j] = IF j < i THEN s[j] ELSE s[j + 1]
<1>1. Len(s) \in Nat /\ \A j \in 1..Len(s) : s[j] \in S
    BY ElementOfSeq, LenProperties
<1> DEFINE a == SubSeq(s, 1, i - 1)
           b == SubSeq(s, i + 1, Len(s))
<1>2. /\ a \in Seq(S) /\ Len(a) = i - 1
      /\ \A j \in 1..i - 1 : a[j] = s[j]
    <2>1. \A j \in 1..(i - 1) : s[j] \in S
        BY <1>1
    <2>2. /\ a \in Seq(S) /\ Len(a) = IF 1 <= i - 1 THEN i - 1 - 1 + 1 ELSE 0
          /\ \A j \in 1..(i - 1) - 1 + 1 : a[j] = s[1 + j - 1]
        BY <1>1, <2>1, SubSeqProperties
    <2> QED
        BY <1>1, <2>2
<1>3. /\ b \in Seq(S) /\ Len(b) = Len(s) - i
      /\ \A j \in 1..Len(s) - i : b[j] = s[i + j]
    <2>1. \A j \in (i + 1)..Len(s) : s[j] \in S
        BY <1>1
    <2>2. /\ b \in Seq(S) /\ Len(b) = IF i + 1 <= Len(s) THEN Len(s) - (i + 1) + 1 ELSE 0
          /\ \A j \in 1..Len(s) - (i + 1) + 1 : b[j] = s[(i + 1) + j - 1]
        BY <1>1, <2>1, SubSeqProperties
    <2> QED
        BY <1>1, <2>2
<1> HIDE DEF a, b
<1>4. /\ a \o b \in Seq(S) /\ Len(a \o b) = Len(s) - 1
      /\ \A j \in 1..Len(s) - 1 :
           (a \o b)[j] = IF j <= i - 1 THEN a[j] ELSE b[j - (i - 1)]
    <2>1. /\ a \o b \in Seq(S) /\ Len(a \o b) = Len(a) + Len(b)
          /\ \A j \in 1..Len(a) + Len(b) :
               (a \o b)[j] = IF j <= Len(a) THEN a[j] ELSE b[j - Len(a)]
        BY <1>2, <1>3, ConcatProperties
    <2>2. Len(a) + Len(b) = Len(s) - 1
        BY <1>1, <1>2, <1>3
    <2> QED
        BY <1>2, <2>1, <2>2
<1>5. Without(s, i) = a \o b
    BY DEF Without, a, b
<1>6. ASSUME NEW j \in 1..Len(s) - 1
      PROVE  (a \o b)[j] = IF j < i THEN s[j] ELSE s[j + 1]
    <2>1. CASE j < i
        BY <1>1, <1>2, <1>4, <2>1
    <2>2. CASE j >= i
        <3>1. j - (i - 1) \in 1..Len(s) - i /\ i + (j - (i - 1)) = j + 1
            BY <1>1, <2>2
        <3> QED
            BY <1>1, <1>3, <1>4, <2>2, <3>1
    <2>3. j < i \/ j >= i
        BY <1>1
    <2> QED
        BY <2>1, <2>2, <2>3
<1> QED
    BY <1>4, <1>5, <1>6

(* The head of the queue is evicted.                                       *)
LEMMA EvictedPending ==
    ASSUME PendingShape, PendingShape', Held' = Held, Queued' = Queued - 1, Queued >= 1,
           Held = 1 => data'[Worker] = data[Worker],
           \A i \in 1..Queued - 1 : q'[i] = q[i + 1]
    PROVE  /\ Held + 1 \in 1..2 /\ Held + 1 <= Len(Pending) /\ Pending[Held + 1] = q[1]
           /\ Pending' = Without(Pending, Held + 1)
<1>1. /\ Pending \in Seq(Events) /\ Pending' \in Seq(Events)
      /\ Len(Pending) = Held + Queued /\ Len(Pending') = Len(Pending) - 1
      /\ Held \in {0, 1} /\ Queued \in Nat
    BY DEF PendingShape
<1>2. \A j \in 1..Len(Pending') :
        Pending'[j] = IF j < Held + 1 THEN Pending[j] ELSE Pending[j + 1]
    <2> SUFFICES ASSUME NEW j \in 1..Len(Pending')
                 PROVE  Pending'[j] = IF j < Held + 1 THEN Pending[j] ELSE Pending[j + 1]
        OBVIOUS
    <2>1. CASE j <= Held
        BY <1>1, <2>1 DEF PendingShape
    <2>2. CASE j > Held
        <3>1. PICK k \in 1..Queued - 1 : j = Held + k
            <4>1. j - Held \in 1..Queued - 1 /\ j = Held + (j - Held)
                BY <1>1, <2>2
            <4> QED
                BY <4>1
        <3>2. Pending'[Held + k] = q'[k]
            BY <3>1 DEF PendingShape
        <3>3. Pending[Held + (k + 1)] = q[k + 1]
            <4>1. k + 1 \in 1..Queued
                BY <1>1, <3>1
            <4> QED
                BY <4>1 DEF PendingShape
        <3>4. j + 1 = Held + (k + 1) /\ ~(j < Held + 1)
            BY <1>1, <3>1
        <3>5. q'[k] = q[k + 1]
            BY <3>1
        <3> QED
            BY <3>1, <3>2, <3>3, <3>4, <3>5
    <2> QED
        BY <1>1, <2>1, <2>2
<1>3. Pending[Held + 1] = q[1]
    BY <1>1 DEF PendingShape
<1>4. Held + 1 \in 1..Len(Pending)
    BY <1>1
<1>5. /\ Without(Pending, Held + 1) \in Seq(Events)
      /\ Len(Without(Pending, Held + 1)) = Len(Pending) - 1
      /\ \A j \in 1..Len(Pending) - 1 :
           Without(Pending, Held + 1)[j] = IF j < Held + 1 THEN Pending[j] ELSE Pending[j + 1]
    BY <1>1, <1>4, WithoutProperties
<1>6. Pending' = Without(Pending, Held + 1)
    BY <1>1, <1>2, <1>5, SeqEqual
<1> QED
    BY <1>1, <1>3, <1>4, <1>6

-----------------------------------------------------------------------------
(* The events of Pending are those whose fate is open.                     *)
LEMMA PendingOpen ==
    ASSUME TypeOK, PendingShape, CustodyInv, NEW i \in 1..Len(Pending)
    PROVE  fate[Pending[i]] = "queued"
<1>1. CASE i <= Held
    BY <1>1 DEF PendingShape, CustodyInv
<1>2. CASE i > Held
    <2>1. PICK k \in 1..Queued : i = Held + k
        <3>1. i - Held \in 1..Queued /\ i = Held + (i - Held)
            BY <1>2 DEF PendingShape
        <3> QED
            BY <3>1
    <2>2. Pending[Held + k] = q[k] /\ q[k] \in Events
        BY DEF PendingShape
    <2>3. Len(q) \in Nat /\ Queued \in Nat /\ Queued <= Len(q)
        BY LenInNat DEF PendingShape
    <2>4. k \in 1..Len(q)
        BY <2>3
    <2> QED
        BY <2>1, <2>2, <2>4, DistinctAssumption DEF CustodyInv
<1> QED
    BY <1>1, <1>2 DEF PendingShape

(* An event that a put carries is fresh to the FIFO.                       *)
LEMMA FreshEvent ==
    ASSUME TypeOK, PendingShape, CustodyInv, NEW e \in Events, fate[e] = "offered"
    PROVE  Abstract!Fresh(e)
<1>1. e \notin {d \in Events : fate[d] = "stored"}
    OBVIOUS
<1>2. e \notin {d \in Events : fate[d] \in Lost \cup {"refused"}}
    BY DEF Lost
<1>3. \A i \in DOMAIN Pending : Pending[i] # e
    BY PendingOpen, LenProperties DEF PendingShape
<1> QED
    BY <1>1, <1>2, <1>3 DEF Abstract!Fresh, Abstract!InPending

(* The steps of the FIFO, by what happens to the fate of one event.        *)
LEMMA QuietRefines ==
    ASSUME Pending' = Pending, closed' = closed,
           \A e \in Events : /\ fate'[e] = "stored" <=> fate[e] = "stored"
                             /\ fate'[e] \in Lost \cup {"refused"} <=>
                                  fate[e] \in Lost \cup {"refused"}
    PROVE  [Abstract!Next]_(Abstract!vars)
BY DEF Abstract!vars

LEMMA DiscardRefines ==
    ASSUME TypeOK, PendingShape, CustodyInv, NEW e \in Events, fate[e] = "offered",
           NEW f \in {"overflow", "refused"}, Settle(e, f),
           Pending' = Pending, closed' = closed
    PROVE  [Abstract!Next]_(Abstract!vars)
<1>1. {d \in Events : fate'[d] = "stored"} = {d \in Events : fate[d] = "stored"}
    BY DEF Settle, TypeOK
<1>2. {d \in Events : fate'[d] \in Lost \cup {"refused"}}
        = {d \in Events : fate[d] \in Lost \cup {"refused"}} \cup {e}
    BY DEF Settle, TypeOK, Lost
<1>3. Abstract!Discard(e)
    BY <1>1, <1>2, FreshEvent DEF Abstract!Discard
<1> QED
    BY <1>3 DEF Abstract!Next

LEMMA AcceptRefines ==
    ASSUME TypeOK, PendingShape, CustodyInv, NEW e \in Events, fate[e] = "offered",
           Settle(e, "queued"), Pending' = Append(Pending, e),
           ~closed, closed' = closed, Len(q) < MaxSize
    PROVE  [Abstract!Next]_(Abstract!vars)
<1>1. {d \in Events : fate'[d] = "stored"} = {d \in Events : fate[d] = "stored"}
    BY DEF Settle, TypeOK
<1>2. {d \in Events : fate'[d] \in Lost \cup {"refused"}}
        = {d \in Events : fate[d] \in Lost \cup {"refused"}}
    BY DEF Settle, TypeOK, Lost
<1>3. Len(Pending) < MaxSize + 1
    BY SizeAssumption, LenInNat DEF PendingShape
<1>4. Abstract!Accept(e)
    BY <1>1, <1>2, <1>3, FreshEvent DEF Abstract!Accept
<1> QED
    BY <1>4 DEF Abstract!Next

LEMMA DeliverRefines ==
    ASSUME TypeOK, NEW e \in Events, Settle(e, "stored"), fate[e] = "queued",
           Pending # <<>>, Head(Pending) = e, Pending' = Tail(Pending),
           closed' = closed
    PROVE  [Abstract!Next]_(Abstract!vars)
<1>1. {d \in Events : fate'[d] = "stored"} = {d \in Events : fate[d] = "stored"} \cup {e}
    BY DEF Settle, TypeOK
<1>2. {d \in Events : fate'[d] \in Lost \cup {"refused"}}
        = {d \in Events : fate[d] \in Lost \cup {"refused"}}
    BY DEF Settle, TypeOK, Lost
<1>3. Abstract!Deliver
    BY <1>1, <1>2 DEF Abstract!Deliver
<1> QED
    BY <1>3 DEF Abstract!Next

LEMMA LoseRefines ==
    ASSUME TypeOK, NEW e \in Events, fate[e] = "queued",
           NEW f \in {"failed", "evicted"}, Settle(e, f), NEW i \in 1..2,
           i <= Len(Pending), Pending[i] = e, Pending' = Without(Pending, i),
           closed' = closed
    PROVE  [Abstract!Next]_(Abstract!vars)
<1>1. {d \in Events : fate'[d] = "stored"} = {d \in Events : fate[d] = "stored"}
    BY DEF Settle, TypeOK
<1>2. {d \in Events : fate'[d] \in Lost \cup {"refused"}}
        = {d \in Events : fate[d] \in Lost \cup {"refused"}} \cup {e}
    BY DEF Settle, TypeOK, Lost
<1>3. Abstract!Lose(i)
    BY <1>1, <1>2 DEF Abstract!Lose, Without
<1> QED
    BY <1>3 DEF Abstract!Next

LEMMA TailIsWithout ==
    ASSUME NEW S, NEW s \in Seq(S), s # <<>> PROVE Tail(s) = Without(s, 1)
<1>1. Len(s) \in Nat /\ Len(s) >= 1
    BY EmptySeq
<1>2. /\ Tail(s) \in Seq(S) /\ Len(Tail(s)) = Len(s) - 1
      /\ \A j \in 1..Len(Tail(s)) : Tail(s)[j] = s[j + 1]
    BY HeadTailProperties
<1>3. /\ Without(s, 1) \in Seq(S) /\ Len(Without(s, 1)) = Len(s) - 1
      /\ \A j \in 1..Len(s) - 1 :
           Without(s, 1)[j] = IF j < 1 THEN s[j] ELSE s[j + 1]
    BY <1>1, WithoutProperties
<1>4. \A j \in 1..Len(Tail(s)) : Tail(s)[j] = Without(s, 1)[j]
    BY <1>1, <1>2, <1>3
<1> QED
    BY <1>2, <1>3, <1>4, SeqEqual

(* A step that leaves the queue and the worker's event alone.              *)
QueueKept ==
    /\ q' = q /\ closed' = closed /\ Held' = Held
    /\ Held = 1 => data'[Worker] = data[Worker]

LEMMA KeptPending ==
    ASSUME PendingShape, PendingShape', QueueKept PROVE Pending' = Pending
<1>1. Queued' = Queued
    BY DEF Queued, QueueKept
<1> QED
    BY <1>1, SamePending DEF QueueKept

(* Fates that the FIFO does not tell apart.                                *)
FatesKept ==
    \A e \in Events : \/ fate'[e] = fate[e]
                      \/ fate[e] = "new" /\ fate'[e] = "offered"

LEMMA KeptRefines ==
    ASSUME PendingShape, PendingShape', QueueKept, FatesKept
    PROVE  [Abstract!Next]_(Abstract!vars)
BY KeptPending, QuietRefines DEF QueueKept, FatesKept, Lost

(* Each action is one step of the FIFO or none.                            *)
LEMMA RefinementStep ==
    TypeOK /\ LockDiscipline /\ SentinelInv /\ CustodyInv /\ TypeOK' /\ SentinelInv'
      /\ [Next]_vars => [Abstract!Next]_(Abstract!vars)
<1> SUFFICES ASSUME TypeOK, LockDiscipline, SentinelInv, CustodyInv,
                    TypeOK', SentinelInv', [Next]_vars
             PROVE  [Abstract!Next]_(Abstract!vars)
    OBVIOUS
<1>a. PendingShape /\ PendingShape'
    BY ShapeHolds, ShapeAfter
<1> USE <1>a, DistinctAssumption
    DEF TypeOK, LockDiscipline, Critical, WorkerHolds, SentinelInv,
        CloseCommitted, Carrying, CustodyInv,
        Goto, Acquire, Release, Return, Settle, Blame, CountStore, Report, HasRoom,
        AfterFlush, TaskDone, queueVars, flagVars, lossVars, dropVars,
        histVars, exceptPc, Threads
<1>1. ASSUME NEW p \in Producers, NEW e \in Events, PutCall(p, e)
    PROVE  [Abstract!Next]_(Abstract!vars)
    <2>1. QueueKept /\ FatesKept
        BY <1>1 DEF PutCall, QueueKept, FatesKept, Held
    <2> QED
        BY <2>1, KeptRefines
<1>2. ASSUME NEW p \in Producers, PutRefused(p)
    PROVE  [Abstract!Next]_(Abstract!vars)
    <2>1. QueueKept
        BY <1>2 DEF PutRefused, QueueKept, Held
    <2>2. data[p] \in Events /\ fate[data[p]] = "offered" /\ Settle(data[p], "refused")
        BY <1>2 DEF PutRefused
    <2> QED
        BY <2>1, <2>2, KeptPending, DiscardRefines DEF QueueKept
<1>3. ASSUME NEW p \in Producers, PutEnter(p)
    PROVE  [Abstract!Next]_(Abstract!vars)
    <2>1. QueueKept /\ FatesKept
        BY <1>3 DEF PutEnter, QueueKept, FatesKept, Held
    <2> QED
        BY <2>1, KeptRefines
<1>4. ASSUME NEW p \in Producers, TryAccepted(p)
    PROVE  [Abstract!Next]_(Abstract!vars)
    <2>1. data[p] \in Events /\ data[p] \in Items /\ Enqueue(data[p]) /\ ~closed
        BY <1>4 DEF TryAccepted, Items
    <2>2. Appended(data[p])
        BY <2>1, EnqueueFacts
    <2>3. Queued = Len(q) /\ Queued' = Len(q')
        BY <1>4, <2>1, OpenQueue, OpenQueueAfter DEF TryAccepted
    <2>4. Held' = Held /\ (Held = 1 => data'[Worker] = data[Worker])
        BY <1>4 DEF TryAccepted, Held
    <2>5. q'[Len(q) + 1] = data[p] /\ \A i \in 1..Len(q) : q'[i] = q[i]
        BY <2>2, LenInNat DEF Appended
    <2>6. Pending' = Append(Pending, data[p])
        BY <2>1, <2>2, <2>3, <2>4, <2>5, AppendedPending DEF Appended
    <2>7. fate[data[p]] = "offered" /\ Settle(data[p], "queued") /\ Len(q) < MaxSize /\ closed' = closed
        BY <1>4 DEF TryAccepted
    <2> QED
        BY <2>1, <2>6, <2>7, AcceptRefines
<1>5. ASSUME NEW p \in Producers, TryFull(p)
    PROVE  [Abstract!Next]_(Abstract!vars)
    <2>1. QueueKept /\ FatesKept
        BY <1>5 DEF TryFull, QueueKept, FatesKept, Held
    <2> QED
        BY <2>1, KeptRefines
<1>6. ASSUME NEW p \in Producers, CountLoad(p)
    PROVE  [Abstract!Next]_(Abstract!vars)
    <2>1. QueueKept /\ FatesKept
        BY <1>6 DEF CountLoad, QueueKept, FatesKept, Held
    <2> QED
        BY <2>1, KeptRefines
<1>7. ASSUME NEW p \in Producers, CountSilently(p)
    PROVE  [Abstract!Next]_(Abstract!vars)
    <2>1. QueueKept
        BY <1>7 DEF CountSilently, QueueKept, Held
    <2>2. data[p] \in Events /\ fate[data[p]] = "offered" /\ Settle(data[p], "overflow")
        BY <1>7 DEF CountSilently
    <2> QED
        BY <2>1, <2>2, KeptPending, DiscardRefines DEF QueueKept
<1>8. ASSUME NEW p \in Producers, CountNewest(p)
    PROVE  [Abstract!Next]_(Abstract!vars)
    <2>1. QueueKept
        BY <1>8 DEF CountNewest, QueueKept, Held
    <2>2. data[p] \in Events /\ fate[data[p]] = "offered" /\ Settle(data[p], "overflow")
        BY <1>8 DEF CountNewest
    <2> QED
        BY <2>1, <2>2, KeptPending, DiscardRefines DEF QueueKept
<1>9. ASSUME NEW p \in Producers, CountOldest(p)
    PROVE  [Abstract!Next]_(Abstract!vars)
    <2>1. QueueKept /\ FatesKept
        BY <1>9 DEF CountOldest, QueueKept, FatesKept, Held
    <2> QED
        BY <2>1, KeptRefines
<1>10. ASSUME NEW p \in Producers, Evict(p) PROVE [Abstract!Next]_(Abstract!vars)
    <2>1. ~closed /\ q # <<>> /\ q' = Tail(q) /\ closed' = closed
        BY <1>10 DEF Evict
    <2>2. Dequeued
        BY <2>1, DequeueFacts
    <2>3. Queued = Len(q) /\ Queued' = Len(q') /\ 1 \in 1..Len(q)
        <3>1. Queued = Len(q)
            BY <2>1, OpenQueue
        <3>2. Queued' = Len(q')
            BY <2>1, OpenQueueAfter
        <3> QED
            BY <2>2, <3>1, <3>2, LenInNat DEF Dequeued
    <2>4. Held' = Held /\ (Held = 1 => data'[Worker] = data[Worker])
        BY <1>10 DEF Evict, Held
    <2>5. q[1] \in Events /\ fate[q[1]] = "queued" /\ Settle(q[1], "evicted")
        BY <1>10, <2>2, <2>3 DEF Evict, PendingShape, Dequeued
    <2>6. /\ Held + 1 \in 1..2 /\ Held + 1 <= Len(Pending) /\ Pending[Held + 1] = q[1]
          /\ Pending' = Without(Pending, Held + 1)
        BY <2>2, <2>3, <2>4, EvictedPending, LenInNat DEF Dequeued
    <2> QED
        <3>1. PICK i \in 1..2 : i = Held + 1
            BY <2>6
        <3>2. /\ i <= Len(Pending) /\ Pending[i] = q[1]
              /\ Pending' = Without(Pending, i)
            BY <2>6, <3>1
        <3>3. "evicted" \in {"failed", "evicted"}
            OBVIOUS
        <3> HIDE DEF Settle, Pending, Without, Lost, TypeOK, Threads
        <3> QED
            BY ONLY TypeOK, <2>1, <2>5, <3>2, <3>3, i \in 1..2, LoseRefines
<1>11. ASSUME NEW p \in Producers, EvictTaskDone(p)
    PROVE  [Abstract!Next]_(Abstract!vars)
    <2>1. QueueKept /\ FatesKept
        BY <1>11 DEF EvictTaskDone, QueueKept, FatesKept, Held
    <2> QED
        BY <2>1, KeptRefines
<1>12. ASSUME NEW p \in Producers, EvictEmpty(p)
    PROVE  [Abstract!Next]_(Abstract!vars)
    <2>1. QueueKept /\ FatesKept
        BY <1>12 DEF EvictEmpty, QueueKept, FatesKept, Held
    <2> QED
        BY <2>1, KeptRefines
<1>13. ASSUME NEW p \in Producers, RePut(p) PROVE [Abstract!Next]_(Abstract!vars)
    <2>1. CASE HasRoom
        <3>1. data[p] \in Events /\ data[p] \in Items /\ Enqueue(data[p]) /\ ~closed
            BY <1>13, <2>1 DEF RePut, Items
        <3>2. Appended(data[p])
            BY <3>1, EnqueueFacts
        <3>3. Queued = Len(q) /\ Queued' = Len(q')
            BY <1>13, <3>1, OpenQueue, OpenQueueAfter DEF RePut
        <3>4. Held' = Held /\ (Held = 1 => data'[Worker] = data[Worker])
            BY <1>13, <2>1 DEF RePut, Held
        <3>5. q'[Len(q) + 1] = data[p] /\ \A i \in 1..Len(q) : q'[i] = q[i]
            BY <3>2, LenInNat DEF Appended
        <3>6. Pending' = Append(Pending, data[p])
            BY <3>1, <3>2, <3>3, <3>4, <3>5, AppendedPending DEF Appended
        <3>7. fate[data[p]] = "offered" /\ Settle(data[p], "queued") /\ Len(q) < MaxSize /\ closed' = closed
            BY <1>13, <2>1 DEF RePut
        <3> QED
            BY <3>1, <3>6, <3>7, AcceptRefines
    <2>2. CASE ~HasRoom
        <3>1. QueueKept
            BY <1>13, <2>2 DEF RePut, QueueKept, Held
        <3>2. data[p] \in Events /\ fate[data[p]] = "offered" /\ Settle(data[p], "overflow")
            BY <1>13, <2>2 DEF RePut
        <3> QED
            BY <3>1, <3>2, KeptPending, DiscardRefines DEF QueueKept
    <2> QED
        BY <2>1, <2>2
<1>14. ASSUME NEW p \in Producers, PutReport(p)
    PROVE  [Abstract!Next]_(Abstract!vars)
    <2>1. QueueKept /\ FatesKept
        BY <1>14 DEF PutReport, QueueKept, FatesKept, Held
    <2> QED
        BY <2>1, KeptRefines
<1>15. ASSUME NEW p \in Producers, FlushCall(p)
    PROVE  [Abstract!Next]_(Abstract!vars)
    <2>1. QueueKept /\ FatesKept
        BY <1>15 DEF FlushCall, QueueKept, FatesKept, Held
    <2> QED
        BY <2>1, KeptRefines
<1>16. ASSUME NEW p \in Producers, FlushDrained(p)
    PROVE  [Abstract!Next]_(Abstract!vars)
    <2>1. QueueKept /\ FatesKept
        BY <1>16 DEF FlushDrained, QueueKept, FatesKept, Held
    <2> QED
        BY <2>1, KeptRefines
<1>17. ASSUME NEW p \in Producers, FlushTimeout(p)
    PROVE  [Abstract!Next]_(Abstract!vars)
    <2>1. QueueKept /\ FatesKept
        BY <1>17 DEF FlushTimeout, QueueKept, FatesKept, Held
    <2> QED
        BY <2>1, KeptRefines
<1>18. ASSUME NEW c \in Closers, CloseCall(c)
    PROVE  [Abstract!Next]_(Abstract!vars)
    <2>1. QueueKept /\ FatesKept
        BY <1>18 DEF CloseCall, QueueKept, FatesKept, Held
    <2> QED
        BY <2>1, KeptRefines
<1>19. ASSUME NEW c \in Closers, CloseAgain(c)
    PROVE  [Abstract!Next]_(Abstract!vars)
    <2>1. QueueKept /\ FatesKept
        BY <1>19 DEF CloseAgain, QueueKept, FatesKept, Held
    <2> QED
        BY <2>1, KeptRefines
<1>20. ASSUME NEW c \in Closers, CloseEnter(c)
    PROVE  [Abstract!Next]_(Abstract!vars)
    <2>1. /\ q' = q /\ fate' = fate /\ Held' = Held /\ ~closed /\ closed' = TRUE
          /\ Held = 1 => data'[Worker] = data[Worker]
        BY <1>20 DEF CloseEnter, Held
    <2>2. Queued' = Queued
        BY <2>1 DEF Queued
    <2>3. Pending' = Pending
        BY <2>1, <2>2, SamePending
    <2>4. Abstract!Close
        BY <2>1, <2>3 DEF Abstract!Close
    <2> QED
        BY <2>4 DEF Abstract!Next
<1>21. ASSUME NEW c \in Closers, SentinelPut(c)
    PROVE  [Abstract!Next]_(Abstract!vars)
    <2>1. Enqueue(Sentinel) /\ ~CloseCommitted
        BY <1>21 DEF SentinelPut
    <2>2. Appended(Sentinel)
        BY <2>1, EnqueueFacts DEF Items
    <2>3. Queued = Len(q)
        BY <2>1, OpenQueue
    <2>4. Queued' = Len(q)
        BY <2>2, EmptySeq, LenInNat DEF Appended, Queued, Items
    <2>5. UNCHANGED <<closed, fate, data>> /\ Held' = Held
        BY <1>21 DEF SentinelPut, Held
    <2>6. Pending' = Pending
        BY <2>2, <2>3, <2>4, <2>5, SamePending DEF Appended
    <2> QED
        BY <2>5, <2>6, QuietRefines
<1>22. ASSUME NEW c \in Closers, SentinelFull(c)
    PROVE  [Abstract!Next]_(Abstract!vars)
    <2>1. QueueKept /\ FatesKept
        BY <1>22 DEF SentinelFull, QueueKept, FatesKept, Held
    <2> QED
        BY <2>1, KeptRefines
<1>23. ASSUME NEW c \in Closers, FlushDrained(c)
    PROVE  [Abstract!Next]_(Abstract!vars)
    <2>1. QueueKept /\ FatesKept
        BY <1>23 DEF FlushDrained, QueueKept, FatesKept, Held
    <2> QED
        BY <2>1, KeptRefines
<1>24. ASSUME NEW c \in Closers, FlushTimeout(c)
    PROVE  [Abstract!Next]_(Abstract!vars)
    <2>1. QueueKept /\ FatesKept
        BY <1>24 DEF FlushTimeout, QueueKept, FatesKept, Held
    <2> QED
        BY <2>1, KeptRefines
<1>25. ASSUME NEW c \in Closers, JoinExited(c)
    PROVE  [Abstract!Next]_(Abstract!vars)
    <2>1. QueueKept /\ FatesKept
        BY <1>25 DEF JoinExited, QueueKept, FatesKept, Held
    <2> QED
        BY <2>1, KeptRefines
<1>26. ASSUME NEW c \in Closers, JoinTimeout(c)
    PROVE  [Abstract!Next]_(Abstract!vars)
    <2>1. QueueKept /\ FatesKept
        BY <1>26 DEF JoinTimeout, QueueKept, FatesKept, Held
    <2> QED
        BY <2>1, KeptRefines
<1>27. CASE Get
    <2>1. q # <<>> /\ q' = Tail(q) /\ UNCHANGED <<closed, fate>> /\ Held = 0
        BY <1>27 DEF Get, Held
    <2>2. Dequeued
        BY <2>1, DequeueFacts
    <2>3. q' # <<>> <=> Len(q') >= 1
        BY <2>2, EmptySeq DEF Dequeued
    <2>4. 1 \in 1..Len(q) /\ Head(q) = q[1] /\ Len(q') = Len(q) - 1 /\ Len(q) \in Nat
        BY <2>2, LenInNat DEF Dequeued
    <2>5. CASE Head(q) = Sentinel
        <3>1. Len(q) = 1
            BY <2>4, <2>5 DEF SentinelInv
        <3>2. Queued = 0 /\ Queued' = 0
            <4>1. q # <<>> /\ q[Len(q)] = Sentinel /\ Len(q) = 1
                BY <2>1, <2>4, <2>5, <3>1
            <4>2. q' = <<>> /\ Len(q') = 0
                BY <2>3, <2>4, <3>1
            <4> HIDE DEF TypeOK, SentinelInv, CustodyInv
            <4> QED
                BY <4>1, <4>2 DEF Queued
        <3>3. Held' = 0
            BY <1>27, <2>5 DEF Get, Held
        <3>4. Pending' = Pending
            BY <2>1, <3>2, <3>3, EmptyPending
        <3> QED
            BY <2>1, <3>4, QuietRefines
    <2>6. CASE Head(q) # Sentinel
        <3>1. Len(q') >= 1 => q'[Len(q')] = q[Len(q)]
            BY <2>2, <2>4 DEF Dequeued
        <3>2. q[Len(q)] = Sentinel => Len(q) >= 2
            BY <2>4, <2>6
        <3>3. Queued' = Queued - 1 /\ Queued >= 1
            <4>1. Queued = IF q[Len(q)] = Sentinel THEN Len(q) - 1 ELSE Len(q)
                BY <2>1 DEF Queued
            <4>2. Queued' = IF Len(q') >= 1 /\ q'[Len(q')] = Sentinel
                            THEN Len(q') - 1 ELSE Len(q')
                BY <2>3 DEF Queued
            <4> HIDE DEF TypeOK, SentinelInv, CustodyInv
            <4> QED
                BY <2>4, <3>1, <3>2, <4>1, <4>2
        <3>4. Held' = 1 /\ data'[Worker] = q[1]
            BY <1>27, <2>4, <2>6 DEF Get, Held
        <3>5. \A i \in 1..Queued - 1 : q'[i] = q[i + 1]
            BY <2>2, <2>4 DEF Dequeued, PendingShape
        <3>6. Pending' = Pending
            BY <2>1, <3>3, <3>4, <3>5, TakenPending
        <3> QED
            BY <2>1, <3>6, QuietRefines
    <2> QED
        BY <2>5, <2>6
<1>28. CASE GetEmpty
    <2>1. QueueKept /\ FatesKept
        BY <1>28 DEF GetEmpty, QueueKept, FatesKept, Held
    <2> QED
        BY <2>1, KeptRefines
<1>29. CASE StopCheck
    <2>1. QueueKept /\ FatesKept
        BY <1>29 DEF StopCheck, QueueKept, FatesKept, Held
    <2> QED
        BY <2>1, KeptRefines
<1>30. CASE SentinelDone
    <2>1. QueueKept /\ FatesKept
        BY <1>30 DEF SentinelDone, QueueKept, FatesKept, Held
    <2> QED
        BY <2>1, KeptRefines
<1>31. CASE WriteOk
    <2>1. /\ q' = q /\ closed' = closed /\ Held = 1 /\ Held' = 0
          /\ Settle(data[Worker], "stored") /\ data[Worker] \in Events
          /\ fate[data[Worker]] = "queued"
        BY <1>31 DEF WriteOk, Held
    <2>2. Queued' = Queued
        BY <2>1 DEF Queued
    <2>3. /\ Pending # <<>> /\ Head(Pending) = data[Worker] /\ Pending' = Tail(Pending)
          /\ Pending[1] = data[Worker] /\ 1 <= Len(Pending)
        BY <2>1, <2>2, TailPending
    <2> QED
        BY <2>1, <2>3, DeliverRefines
<1>32. CASE WriteRaises
    <2>1. /\ q' = q /\ closed' = closed /\ Held = 1 /\ Held' = 0
          /\ Settle(data[Worker], "failed") /\ data[Worker] \in Events
          /\ fate[data[Worker]] = "queued"
        BY <1>32 DEF WriteRaises, Held
    <2>2. Queued' = Queued
        BY <2>1 DEF Queued
    <2>3. /\ Pending # <<>> /\ Head(Pending) = data[Worker] /\ Pending' = Tail(Pending)
          /\ Pending[1] = data[Worker] /\ 1 <= Len(Pending)
        BY <2>1, <2>2, TailPending
    <2>4. Pending' = Without(Pending, 1)
        <3>1. Pending \in Seq(Events)
            BY DEF PendingShape
        <3> QED
            BY <2>3, <3>1, TailIsWithout
    <2>5. PICK i \in 1..2 : i = 1
        OBVIOUS
    <2> HIDE DEF Settle
    <2> QED
        BY <2>1, <2>3, <2>4, <2>5, LoseRefines
<1>33. CASE FailEnter
    <2>1. QueueKept /\ FatesKept
        BY <1>33 DEF FailEnter, QueueKept, FatesKept, Held
    <2> QED
        BY <2>1, KeptRefines
<1>34. CASE CountLoad(Worker)
    <2>1. QueueKept /\ FatesKept
        BY <1>34 DEF CountLoad, QueueKept, FatesKept, Held
    <2> QED
        BY <2>1, KeptRefines
<1>35. CASE FailCount
    <2>1. QueueKept /\ FatesKept
        BY <1>35 DEF FailCount, QueueKept, FatesKept, Held
    <2> QED
        BY <2>1, KeptRefines
<1>36. CASE FailReport
    <2>1. QueueKept /\ FatesKept
        BY <1>36 DEF FailReport, QueueKept, FatesKept, Held
    <2> QED
        BY <2>1, KeptRefines
<1>37. CASE ItemDone
    <2>1. QueueKept /\ FatesKept
        BY <1>37 DEF ItemDone, QueueKept, FatesKept, Held
    <2> QED
        BY <2>1, KeptRefines
<1>38. CASE UNCHANGED vars
    <2>1. QueueKept /\ FatesKept
        BY <1>38 DEF vars, QueueKept, FatesKept, Held
    <2> QED
        BY <2>1, KeptRefines
<1> QED
    BY <1>1, <1>2, <1>3, <1>4, <1>5, <1>6, <1>7, <1>8, <1>9, <1>10, <1>11, <1>12, <1>13, <1>14, <1>15, <1>16, <1>17, <1>18, <1>19, <1>20, <1>21, <1>22, <1>23, <1>24, <1>25, <1>26, <1>27, <1>28, <1>29, <1>30, <1>31, <1>32, <1>33, <1>34, <1>35, <1>36, <1>37, <1>38
    DEF Next, PutStep, PutInside, CountReported, FlushStep, CloseStep,
        WorkerStep, WorkerInside

LEMMA RefinementInit == Init => Abstract!Init
<1> SUFFICES ASSUME Init PROVE Abstract!Init
    OBVIOUS
<1>1. InHand = <<>> /\ Accepted = <<>>
    BY DistinctAssumption DEF Init, InHand, Accepted, Threads
<1>2. Pending = <<>>
    BY <1>1 DEF Pending
<1> QED
    BY <1>2 DEF Init, Abstract!Init, Lost

(* The queue implements the lossy FIFO: for every number of threads, slots *)
(* and events, and every policy, events are written in the order in which  *)
(* they were accepted and at most once, what left the queue otherwise is   *)
(* not written later, and nothing is accepted after close().  Of what      *)
(* put() and on_drop say of an event this says nothing.                    *)
THEOREM QueueIsLossyFifo == Spec => ImplementsLossyFifo
<1>1. IndInv => TypeOK /\ LockDiscipline /\ SentinelInv
    BY DEF IndInv
<1> QED
    BY <1>1, RefinementInit, RefinementStep, Inductive, CustodyCorrect, PTL
    DEF Spec, ImplementsLossyFifo, Abstract!Spec

-----------------------------------------------------------------------------
(***************************************************************************)
(* The result of put().  Without a callback, or under a policy that does   *)
(* not evict, put says True exactly of the events the queue took.          *)
(***************************************************************************)
NeverEvicts == ~OnDrop \/ Policy # "drop_oldest"

ResultInv ==
    /\ ResultTruthful
    /\ \A e \in Events : result[e] # "none" => fate[e] \notin {"new", "offered"}
    /\ \A p \in Producers :
         /\ pc[p] \notin {"evict", "evicted", "reput"}
         /\ pc[p] = "callback" => fate[data[p]] = "overflow" /\ Policy # "drop_oldest"

(* Each action keeps ResultInv.                                            *)
LEMMA ResultStep ==
    ASSUME NeverEvicts, TypeOK, CustodyInv, ResultInv, [Next]_vars
    PROVE  ResultInv'
<1> USE DistinctAssumption
    DEF TypeOK, Critical, WorkerHolds, Carrying, CustodyInv, NeverEvicts,
        ResultInv, ResultTruthful, Lost,
        Goto, Acquire, Release, Return, Settle, Blame, CountStore, Report, HasRoom,
        AfterFlush, TaskDone, queueVars, flagVars, lossVars, dropVars,
        histVars, exceptPc, Threads
<1>1. ASSUME NEW p \in Producers, NEW e \in Events, PutCall(p, e)
    PROVE  ResultInv'
    BY <1>1 DEF PutCall
<1>2. ASSUME NEW p \in Producers, PutRefused(p) PROVE ResultInv'
    BY <1>2 DEF PutRefused
<1>3. ASSUME NEW p \in Producers, PutEnter(p) PROVE ResultInv'
    BY <1>3 DEF PutEnter
<1>4. ASSUME NEW p \in Producers, TryAccepted(p) PROVE ResultInv'
    BY <1>4 DEF TryAccepted
<1>5. ASSUME NEW p \in Producers, TryFull(p) PROVE ResultInv'
    BY <1>5 DEF TryFull
<1>6. ASSUME NEW p \in Producers, CountLoad(p) PROVE ResultInv'
    BY <1>6 DEF CountLoad
<1>7. ASSUME NEW p \in Producers, CountSilently(p) PROVE ResultInv'
    BY <1>7 DEF CountSilently
<1>8. ASSUME NEW p \in Producers, CountNewest(p) PROVE ResultInv'
    <2>1. data[p] \in Events /\ fate[data[p]] = "offered" /\ data' = data /\ result' = result
        BY <1>8 DEF CountNewest
    <2>2. fate' = [fate EXCEPT ![data[p]] = "overflow"]
        BY <1>8 DEF CountNewest
    <2>3. result[data[p]] = "none"
        BY <2>1
    <2>4. pc' = [pc EXCEPT ![p] = "callback"] /\ Policy # "drop_oldest"
        BY <1>8 DEF CountNewest
    <2>5. ResultTruthful'
        BY <2>1, <2>2, <2>3
    <2>6. \A o \in Producers :
            /\ pc'[o] \notin {"evict", "evicted", "reput"}
            /\ pc'[o] = "callback" => fate'[data'[o]] = "overflow"
        BY <2>1, <2>2, <2>4
    <2> QED
        BY <2>1, <2>2, <2>3, <2>4, <2>5, <2>6
<1>9. ASSUME NEW p \in Producers, CountOldest(p) PROVE ResultInv'
    BY <1>9 DEF CountOldest
<1>10. ASSUME NEW p \in Producers, Evict(p) PROVE ResultInv'
    BY <1>10 DEF Evict
<1>11. ASSUME NEW p \in Producers, EvictTaskDone(p) PROVE ResultInv'
    BY <1>11 DEF EvictTaskDone
<1>12. ASSUME NEW p \in Producers, EvictEmpty(p) PROVE ResultInv'
    BY <1>12 DEF EvictEmpty
<1>13. ASSUME NEW p \in Producers, RePut(p) PROVE ResultInv'
    BY <1>13 DEF RePut
<1>14. ASSUME NEW p \in Producers, PutReport(p) PROVE ResultInv'
    BY <1>14 DEF PutReport
<1>15. ASSUME NEW p \in Producers, FlushCall(p) PROVE ResultInv'
    BY <1>15 DEF FlushCall
<1>16. ASSUME NEW p \in Producers, FlushDrained(p) PROVE ResultInv'
    BY <1>16 DEF FlushDrained
<1>17. ASSUME NEW p \in Producers, FlushTimeout(p) PROVE ResultInv'
    BY <1>17 DEF FlushTimeout
<1>18. ASSUME NEW c \in Closers, CloseCall(c) PROVE ResultInv'
    BY <1>18 DEF CloseCall
<1>19. ASSUME NEW c \in Closers, CloseAgain(c) PROVE ResultInv'
    BY <1>19 DEF CloseAgain
<1>20. ASSUME NEW c \in Closers, CloseEnter(c) PROVE ResultInv'
    BY <1>20 DEF CloseEnter
<1>21. ASSUME NEW c \in Closers, SentinelPut(c) PROVE ResultInv'
    BY <1>21 DEF SentinelPut
<1>22. ASSUME NEW c \in Closers, SentinelFull(c) PROVE ResultInv'
    BY <1>22 DEF SentinelFull
<1>23. ASSUME NEW c \in Closers, FlushDrained(c) PROVE ResultInv'
    BY <1>23 DEF FlushDrained
<1>24. ASSUME NEW c \in Closers, FlushTimeout(c) PROVE ResultInv'
    BY <1>24 DEF FlushTimeout
<1>25. ASSUME NEW c \in Closers, JoinExited(c) PROVE ResultInv'
    BY <1>25 DEF JoinExited
<1>26. ASSUME NEW c \in Closers, JoinTimeout(c) PROVE ResultInv'
    BY <1>26 DEF JoinTimeout
<1>27. CASE Get
    BY <1>27 DEF Get
<1>28. CASE GetEmpty
    BY <1>28 DEF GetEmpty
<1>29. CASE StopCheck
    BY <1>29 DEF StopCheck
<1>30. CASE SentinelDone
    BY <1>30 DEF SentinelDone
<1>31. CASE WriteOk
    BY <1>31 DEF WriteOk
<1>32. CASE WriteRaises
    BY <1>32 DEF WriteRaises
<1>33. CASE FailEnter
    BY <1>33 DEF FailEnter
<1>34. CASE CountLoad(Worker)
    BY <1>34 DEF CountLoad
<1>35. CASE FailCount
    BY <1>35 DEF FailCount
<1>36. CASE FailReport
    BY <1>36 DEF FailReport
<1>37. CASE ItemDone
    BY <1>37 DEF ItemDone
<1>38. CASE UNCHANGED vars
    BY <1>38 DEF vars
<1> QED
    BY <1>1, <1>2, <1>3, <1>4, <1>5, <1>6, <1>7, <1>8, <1>9, <1>10, <1>11,
       <1>12, <1>13, <1>14, <1>15, <1>16, <1>17, <1>18, <1>19, <1>20,
       <1>21, <1>22, <1>23, <1>24, <1>25, <1>26, <1>27, <1>28, <1>29,
       <1>30, <1>31, <1>32, <1>33, <1>34, <1>35, <1>36, <1>37, <1>38
    DEF Next, PutStep, PutInside, CountReported, FlushStep, CloseStep,
        WorkerStep, WorkerInside

LEMMA ResultInvCorrect ==
    ASSUME NeverEvicts
    PROVE  Spec => []ResultInv
<1>1. Init => ResultInv
    BY DistinctAssumption DEF Init, ResultInv, ResultTruthful, Threads
<1>2. IndInv /\ CustodyInv /\ ResultInv /\ [Next]_vars => ResultInv'
    BY ResultStep DEF IndInv
<1> QED
    BY <1>1, <1>2, Inductive, CustodyCorrect, PTL DEF Spec

(* What put() returns is true of its event for ever: the event was taken,  *)
(* or it was not.                                                          *)
THEOREM ResultCorrect ==
    ASSUME NeverEvicts
    PROVE  Spec => []ResultTruthful
<1>1. ResultInv => ResultTruthful
    BY DEF ResultInv
<1> QED
    BY <1>1, ResultInvCorrect, PTL

=============================================================================
