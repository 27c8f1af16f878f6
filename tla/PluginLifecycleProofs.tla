----------------------- MODULE PluginLifecycleProofs -----------------------
(***************************************************************************)
(* Theorems about PluginLifecycle, for every set of threads, processes,    *)
(* roots and firings and every bound.  What carries the rest is LockInv:   *)
(* _RUNTIME and what is open change only in the hands of the one thread    *)
(* that holds runtime._lock.                                               *)
(***************************************************************************)
EXTENDS PluginLifecycle, TLAPS, FiniteSetTheorems, SequenceTheorems

(* The types in three parts: what each thread and each process is at, the  *)
(* numbers of runtimes and sequences of them, and who holds which.         *)
LabelsOK ==
    /\ lock \in Threads \cup {Free}
    /\ version \in [Roots -> Openers \cup {Free}]
    /\ registers \in 0..MaxRegisters /\ builds \in 0..MaxBuilds
    /\ pc \in [Openers -> {"idle", "get", "count", "insert", "make", "ready",
                           "failed", "hook", "row", "selftest", "reset",
                           "closequeue", "closestore", "dispatch"}]
    /\ goal \in [Threads -> {"none", "register", "command", "build"}]
    /\ want \in [Openers -> Roots]
    /\ firing \in [Threads -> Firings \cup {"none"}]
    /\ at \in [Threads -> Nat]
    /\ status \in [Firings -> {"new", "running", "done"}]
    /\ records \in [Firings -> Nat]
    /\ asked \subseteq Roots /\ fresh \subseteq Openers
    /\ clashed \subseteq Openers \X Roots
    /\ watched \subseteq Firings

NumbersOK ==
    /\ current \in Mine \cup {0}
    /\ made \in 0..MaxRuntimes
    /\ queueOpen \subseteq 1..made /\ storeOpen \subseteq 1..made
    /\ writers \subseteq 1..made /\ raised \subseteq 1..made
    /\ rootOf \in Seq(Roots \cup {Temp}) /\ Len(rootOf) = made
    /\ hooks \in Seq(1..made)
    /\ rows \subseteq [file : Roots, row : Roots]

GotOK ==
    /\ got \in [Threads -> 0..made]
    /\ \A t \in Threads : Making(t) \/ pc[t] \in {"hook", "row"} => got[t] \in Mine

(* A thread between Take and the end of its with block.                    *)
Locked(t) == pc[t] \in {"count", "insert", "make", "closequeue", "closestore"}

LockInv == \A t \in Threads : Locked(t) <=> lock = t

(* Every handler registered stems from a call of register() of its own.    *)
Registering == {t \in Threads : goal[t] = "register"}

HooksInv ==
    /\ IsFiniteSet(Registering)
    /\ Len(hooks) + Cardinality(Registering) <= registers
    /\ \A t \in Threads :
         /\ pc[t] \in {"idle", "selftest", "reset", "closequeue", "closestore", "dispatch"} =>
              goal[t] = "none"
         /\ pc[t] = "hook" => goal[t] = "register"

(* What get_runtime left open, but for the stores whose close() raised:    *)
(* nothing, or the one runtime with its queue and its store, or half of it *)
(* while a thread makes or closes it.                                      *)
Live == queueOpen \cap Mine
Stored == (storeOpen \cap Mine) \ raised

NothingOpen == current = 0 /\ Live = {} /\ Stored = {}
RuntimeOpen == current # 0 /\ Live = {current} /\ Stored = {current}
               /\ current \in writers

(* What a thread that makes, tests or closes a runtime may rely on.        *)
HolderInv(t) ==
    /\ Making(t) => /\ current = 0 /\ Live = {} /\ Stored = {got[t]}
                    /\ rootOf[got[t]] = want[t] /\ got[t] \notin writers
    /\ pc[t] = "make" => version[want[t]] # Free
    /\ pc[t] = "selftest" => got[t] \notin Mine
    /\ pc[t] = "closequeue" => RuntimeOpen
    /\ pc[t] = "closestore" => current # 0 /\ Live = {} /\ Stored = {current}

RuntimeInv ==
    /\ lock = Free => NothingOpen \/ RuntimeOpen
    /\ current # 0 => version[rootOf[current]] # Free
    /\ \A t \in Threads : HolderInv(t)

(* Who is about to insert the version row began without one and has not    *)
(* put it there.                                                           *)
RaceInv ==
    \A o \in Openers :
        /\ pc[o] = "count" /\ version[want[o]] = Free => o \in fresh
        /\ pc[o] = "insert" => o \in fresh /\ version[want[o]] # o
        /\ pc[o] \in {"count", "insert"} => \A c \in clashed : c[1] # o

(* Every root in play is one this process was told.                        *)
RowsInv ==
    /\ IsFiniteSet(asked)
    /\ \A d \in rows : d.file \in asked /\ d.row \in asked
    /\ \A i \in Mine : rootOf[i] \in asked
    /\ \A t \in Threads :
         pc[t] \in {"get", "count", "insert", "make", "hook", "row"} => want[t] \in asked

(* A watched firing is recorded, or has a live handler ahead of it.        *)
Dispatching(t) == pc[t] = "dispatch"

FiringHeld(t) == Dispatching(t) =>
    firing[t] \in Firings /\ status[firing[t]] = "running" /\ at[t] >= 1

LiveAhead(t) == Dispatching(t) /\ firing[t] \in watched =>
    \/ records[firing[t]] >= 1
    \/ \E i \in 1..Len(hooks) : at[t] <= i /\ hooks[i] \in queueOpen

DispatchInv ==
    /\ \A t \in Threads : FiringHeld(t)
    /\ \A t, u \in Threads :
         Dispatching(t) /\ Dispatching(u) /\ firing[t] = firing[u] => t = u
    /\ \A f \in watched : status[f] # "new"
    /\ \A t \in Threads : LiveAhead(t)

IndInv == TypeOK /\ LockInv /\ HooksInv /\ RuntimeInv /\ RaceInv /\ OpenRaceDecided
          /\ RowsInv /\ DispatchInv /\ StaleHandlersHarmless

-----------------------------------------------------------------------------
(* What Hand and VersionExists come to, each in two cases.                 *)
HandOver(t, r) ==
    /\ goal[t] # "command"
    /\ got' = [got EXCEPT ![t] = r]
    /\ \/ Goto(t, "row")
       \/ goal[t] = "register" /\ Goto(t, "hook")
    /\ UNCHANGED <<goal, want, asked, registers, builds, rows>>

Beaten(o) ==
    /\ pc[o] = "insert" /\ version[want[o]] # Free
    /\ clashed' = clashed \cup {<<o, want[o]>>}
    /\ UNCHANGED <<current, made, queueOpen, rootOf, writers, raised, version,
                   fresh, hooks, dispatchVars>>

ThreadBeaten(o) ==
    /\ o \in Threads /\ Beaten(o) /\ Return(o)
    /\ storeOpen' = storeOpen \ {got[o]} /\ lock' = Free

OtherBeaten(o) ==
    /\ o \in Others /\ Beaten(o) /\ Goto(o, "failed")
    /\ UNCHANGED <<lock, storeOpen, callVars>>

LEMMA HandCases ==
    ASSUME NEW t \in Threads, NEW r, Hand(t, r)
    PROVE  Return(t) \/ HandOver(t, r)
<1>1. CASE goal[t] = "command"
    BY <1>1 DEF Hand
<1>2. CASE goal[t] = "register"
    BY <1>2 DEF Hand, HandOver
<1>3. CASE goal[t] # "command" /\ goal[t] # "register"
    BY <1>3 DEF Hand, HandOver
<1> QED
    BY <1>1, <1>2, <1>3

LEMMA ExistsCases ==
    ASSUME NEW o \in Openers, VersionExists(o) PROVE ThreadBeaten(o) \/ OtherBeaten(o)
<1>1. CASE o \in Threads
    BY <1>1 DEF VersionExists, ThreadBeaten, Beaten
<1>2. CASE o \notin Threads
    BY <1>2 DEF VersionExists, OtherBeaten, Beaten, Openers
<1> QED
    BY <1>1, <1>2

(* The runtimes of get_runtime when one is made, and when none is.         *)
LEMMA MineSame == UNCHANGED <<made, rootOf>> => Mine' = Mine
BY DEF Mine

LEMMA MineGrows ==
    ASSUME NumbersOK, NEW r \in Roots \cup {Temp},
           made' = made + 1, rootOf' = Append(rootOf, r)
    PROVE  /\ rootOf' \in Seq(Roots \cup {Temp}) /\ Len(rootOf') = made'
           /\ rootOf'[made + 1] = r /\ made + 1 \notin 1..made
           /\ \A i \in 1..made : rootOf'[i] = rootOf[i]
           /\ Mine \subseteq 1..made
           /\ Mine' = IF r = Temp THEN Mine ELSE Mine \cup {made + 1}
<1>1. /\ made \in Nat /\ rootOf \in Seq(Roots \cup {Temp}) /\ Len(rootOf) = made
    BY BoundAssumption DEF NumbersOK
<1>2. /\ rootOf' \in Seq(Roots \cup {Temp}) /\ Len(rootOf') = made'
      /\ rootOf'[made + 1] = r /\ made + 1 \notin 1..made
      /\ \A i \in 1..made : rootOf'[i] = rootOf[i]
    BY <1>1
<1>3. \A i : i \in 1..made' <=> i \in 1..made \/ i = made + 1
    BY <1>1
<1>4. Mine' = IF r = Temp THEN Mine ELSE Mine \cup {made + 1}
    BY <1>2, <1>3 DEF Mine
<1> QED
    BY <1>2, <1>4 DEF Mine

(* The three parts are the types, but for the length of hooks.             *)
LEMMA TypeParts ==
    /\ TypeOK => LabelsOK /\ NumbersOK /\ GotOK
    /\ LabelsOK /\ NumbersOK /\ GotOK /\ Len(hooks) <= registers => TypeOK
  BY DEF TypeOK, LabelsOK, NumbersOK, GotOK

(* What the threads and processes are at keeps its type.                   *)
LEMMA LabelsStep ==
    ASSUME LabelsOK, NumbersOK, GotOK, [Next]_vars
    PROVE  LabelsOK'
<1> USE RootAssumption DEF LabelsOK, Goto, Openers, runtimeVars, schemaVars, callVars, dispatchVars
<1>0. MaxRegisters \in Nat /\ MaxBuilds \in Nat
    BY BoundAssumption
<1>1. ASSUME NEW t \in Threads, Register(t) PROVE LabelsOK'
    BY <1>0, <1>1 DEF Register, Ask
<1>2. ASSUME NEW t \in Threads, Selftest(t) PROVE LabelsOK'
    BY <1>2 DEF Selftest
<1>3. ASSUME NEW t \in Threads, NEW r \in Roots, Command(t, r) PROVE LabelsOK'
    BY <1>3 DEF Command, Ask
<1>4. ASSUME NEW t \in Threads, NEW r \in Roots, Build(t, r) PROVE LabelsOK'
    BY <1>0, <1>4 DEF Build, Ask
<1>5. ASSUME NEW t \in Threads, GetExisting(t) PROVE LabelsOK'
    <2>1. CASE Return(t)
        BY <1>5, <2>1 DEF GetExisting, Return
    <2>2. CASE HandOver(t, current)
        BY <1>5, <2>2 DEF GetExisting, HandOver
    <2> QED
        BY <1>5, <2>1, <2>2, HandCases DEF GetExisting
<1>6. ASSUME NEW t \in Threads, OpenStore(t) PROVE LabelsOK'
    BY <1>6 DEF OpenStore, Connect, Take
<1>7. ASSUME NEW t \in Threads, OpenFails(t) PROVE LabelsOK'
    BY <1>7 DEF OpenFails, Return
<1>8. ASSUME NEW t \in Threads, MakeRuntime(t) PROVE LabelsOK'
    <2>1. CASE Return(t)
        BY <1>8, <2>1 DEF MakeRuntime, Return
    <2>2. CASE HandOver(t, got[t])
        BY <1>8, <2>2 DEF MakeRuntime, HandOver
    <2> QED
        BY <1>8, <2>1, <2>2, HandCases DEF MakeRuntime
<1>9. ASSUME NEW t \in Threads, MakeFails(t) PROVE LabelsOK'
    BY <1>9 DEF MakeFails, Return
<1>10. ASSUME NEW t \in Threads, RegisterHook(t) PROVE LabelsOK'
    BY <1>10 DEF RegisterHook, Return
<1>11. ASSUME NEW t \in Threads, PutRow(t) PROVE LabelsOK'
    BY <1>11 DEF PutRow
<1>12. ASSUME NEW t \in Threads, SelftestFails(t) PROVE LabelsOK'
    BY <1>12 DEF SelftestFails
<1>13. ASSUME NEW t \in Threads, ResetNothing(t) PROVE LabelsOK'
    BY <1>13 DEF ResetNothing
<1>14. ASSUME NEW t \in Threads, Reset(t) PROVE LabelsOK'
    BY <1>14 DEF Reset, Take
<1>15. ASSUME NEW t \in Threads, CloseQueue(t) PROVE LabelsOK'
    BY <1>15 DEF CloseQueue
<1>16. ASSUME NEW t \in Threads, CloseStore(t) PROVE LabelsOK'
    BY <1>16 DEF CloseStore, Forget
<1>17. ASSUME NEW t \in Threads, NEW f \in Firings, Fire(t, f) PROVE LabelsOK'
    BY <1>17 DEF Fire
<1>18. ASSUME NEW t \in Threads, Callback(t) PROVE LabelsOK'
    <2>1. records' \in [Firings -> Nat]
        <3>1. CASE hooks[at[t]] \in queueOpen
            <4>1. records' = [records EXCEPT ![firing[t]] = records[firing[t]] + 1]
                BY <1>18, <3>1 DEF Callback
            <4>2. \A f \in Firings : records'[f] \in Nat
                BY <4>1
            <4> QED
                BY <4>1, <4>2
        <3>2. CASE hooks[at[t]] \notin queueOpen
            BY <1>18, <3>2 DEF Callback
        <3> QED
            BY <3>1, <3>2
    <2>3. at' \in [Threads -> Nat]
        BY <1>18 DEF Callback
    <2>2. UNCHANGED <<lock, runtimeVars, schemaVars, hooks, callVars, pc, firing, status, watched>>
        BY <1>18 DEF Callback
    <2> QED
        BY <2>1, <2>2, <2>3
<1>19. ASSUME NEW t \in Threads, Dispatched(t) PROVE LabelsOK'
    BY <1>19 DEF Dispatched
<1>20. ASSUME NEW p \in Others, NEW r \in OtherRoots, OtherOpens(p, r) PROVE LabelsOK'
    BY <1>20 DEF OtherOpens, Connect
<1>21. ASSUME NEW o \in Openers, Count(o) PROVE LabelsOK'
    BY <1>21 DEF Count, Opened
<1>22. ASSUME NEW o \in Openers, InsertVersion(o) PROVE LabelsOK'
    <2>1. CASE o \in Threads
        BY <1>22, <2>1 DEF InsertVersion, Opened
    <2>2. CASE ~(o \in Threads)
        BY <1>22, <2>2 DEF InsertVersion, Opened
    <2> QED
        BY <2>1, <2>2
<1>23. ASSUME NEW o \in Openers, VersionExists(o) PROVE LabelsOK'
    <2>1. CASE ThreadBeaten(o)
        BY <2>1 DEF ThreadBeaten, Beaten, Return
    <2>2. CASE OtherBeaten(o)
        BY <2>2 DEF OtherBeaten, Beaten
    <2> QED
        BY <1>23, <2>1, <2>2, ExistsCases
<1>24. CASE UNCHANGED vars
    BY <1>24 DEF vars
<1>25. ASSUME NEW t \in Threads, SelftestPasses(t) PROVE LabelsOK'
    BY <1>25 DEF SelftestPasses
<1>26. ASSUME NEW t \in Threads, CloseRaises(t) PROVE LabelsOK'
    BY <1>26 DEF CloseRaises, Forget
<1>27. ASSUME NEW r \in writers, WriterEnds(r) PROVE LabelsOK'
    BY <1>27 DEF WriterEnds
<1> QED
    BY <1>1, <1>2, <1>3, <1>4, <1>5, <1>6, <1>7, <1>8, <1>9, <1>10, <1>11, <1>12, <1>13, <1>14, <1>15, <1>16, <1>17, <1>18, <1>19, <1>20, <1>21, <1>22, <1>23, <1>24, <1>25, <1>26,
       <1>27 DEF Next, Step, Migrate

(* The runtimes are numbered in the order they are made.                   *)
LEMMA NumbersStep ==
    ASSUME LabelsOK, NumbersOK, GotOK, RuntimeInv, [Next]_vars
    PROVE  NumbersOK'
<1> USE MineSame DEF NumbersOK, GotOK, Openers, runtimeVars, schemaVars, callVars, dispatchVars
<1>1. ASSUME NEW t \in Threads, Register(t) PROVE NumbersOK'
    BY <1>1 DEF Register, Ask
<1>2. ASSUME NEW t \in Threads, Selftest(t) PROVE NumbersOK'
    <2>1. /\ made' = made + 1 /\ made' \in 0..MaxRuntimes
          /\ rootOf' = Append(rootOf, Temp) /\ UNCHANGED <<current, hooks, rows, raised>>
        BY <1>2, BoundAssumption DEF Selftest
    <2>2. /\ rootOf' \in Seq(Roots \cup {Temp}) /\ Len(rootOf') = made' /\ Mine' = Mine
        BY <2>1, MineGrows
    <2>3. /\ queueOpen' \subseteq 1..made' /\ storeOpen' \subseteq 1..made'
          /\ writers' \subseteq 1..made' /\ raised' \subseteq 1..made'
        BY <1>2, <2>1 DEF Selftest
    <2>4. hooks' \in Seq(1..made')
        BY <2>1
    <2> QED
        BY <2>1, <2>2, <2>3, <2>4
<1>3. ASSUME NEW t \in Threads, NEW r \in Roots, Command(t, r) PROVE NumbersOK'
    BY <1>3 DEF Command, Ask
<1>4. ASSUME NEW t \in Threads, NEW r \in Roots, Build(t, r) PROVE NumbersOK'
    BY <1>4 DEF Build, Ask
<1>5. ASSUME NEW t \in Threads, GetExisting(t) PROVE NumbersOK'
    <2>1. CASE Return(t)
        BY <1>5, <2>1 DEF GetExisting, Return
    <2>2. CASE HandOver(t, current)
        BY <1>5, <2>2 DEF GetExisting, HandOver
    <2> QED
        BY <1>5, <2>1, <2>2, HandCases DEF GetExisting
<1>6. ASSUME NEW t \in Threads, OpenStore(t) PROVE NumbersOK'
    <2>1. /\ made' = made + 1 /\ made' \in 0..MaxRuntimes
          /\ UNCHANGED <<current, queueOpen, writers, raised, hooks, rows>>
        BY <1>6, BoundAssumption DEF OpenStore
    <2>2. storeOpen' \subseteq 1..made'
        BY <1>6, <2>1 DEF OpenStore
    <2>3. want[t] \in Roots /\ rootOf' = Append(rootOf, want[t])
        BY <1>6 DEF OpenStore, LabelsOK
    <2>4. /\ rootOf' \in Seq(Roots \cup {Temp}) /\ Len(rootOf') = made'
          /\ Mine \subseteq Mine'
        BY <2>1, <2>3, MineGrows
    <2>5. hooks' \in Seq(1..made')
        BY <2>1
    <2> QED
        BY <2>1, <2>2, <2>4, <2>5
<1>7. ASSUME NEW t \in Threads, OpenFails(t) PROVE NumbersOK'
    BY <1>7 DEF OpenFails, Return
<1>8. ASSUME NEW t \in Threads, MakeRuntime(t) PROVE NumbersOK'
    <2>1. got[t] \in Mine /\ got[t] \in 1..made
        BY <1>8 DEF MakeRuntime, Making, Mine
    <2>2. UNCHANGED <<made, storeOpen, rootOf, raised, hooks, rows>>
        BY <1>8, HandCases DEF MakeRuntime, Return, HandOver, LabelsOK
    <2> QED
        BY <1>8, <2>1, <2>2 DEF MakeRuntime
<1>9. ASSUME NEW t \in Threads, MakeFails(t) PROVE NumbersOK'
    BY <1>9 DEF MakeFails, Return
<1>10. ASSUME NEW t \in Threads, RegisterHook(t) PROVE NumbersOK'
    <2>1. got[t] \in 1..made /\ hooks' = Append(hooks, got[t]) /\ rows' = rows
        BY <1>10 DEF RegisterHook, Return, Mine
    <2>2. hooks' \in Seq(1..made)
        BY <2>1
    <2> QED
        BY <1>10, <2>1, <2>2 DEF RegisterHook
<1>11. ASSUME NEW t \in Threads, PutRow(t) PROVE NumbersOK'
    <2>1. rootOf[got[t]] \in Roots
        BY <1>11 DEF PutRow, Mine
    <2> QED
        BY <1>11, <2>1 DEF PutRow, LabelsOK
<1>12. ASSUME NEW t \in Threads, SelftestFails(t) PROVE NumbersOK'
    BY <1>12 DEF SelftestFails
<1>13. ASSUME NEW t \in Threads, ResetNothing(t) PROVE NumbersOK'
    BY <1>13 DEF ResetNothing
<1>14. ASSUME NEW t \in Threads, Reset(t) PROVE NumbersOK'
    BY <1>14 DEF Reset, Take
<1>15. ASSUME NEW t \in Threads, CloseQueue(t) PROVE NumbersOK'
    BY <1>15 DEF CloseQueue
<1>16. ASSUME NEW t \in Threads, CloseStore(t) PROVE NumbersOK'
    BY <1>16 DEF CloseStore, Forget
<1>17. ASSUME NEW t \in Threads, NEW f \in Firings, Fire(t, f) PROVE NumbersOK'
    BY <1>17 DEF Fire
<1>18. ASSUME NEW t \in Threads, Callback(t) PROVE NumbersOK'
    BY <1>18 DEF Callback
<1>19. ASSUME NEW t \in Threads, Dispatched(t) PROVE NumbersOK'
    BY <1>19 DEF Dispatched
<1>20. ASSUME NEW p \in Others, NEW r \in OtherRoots, OtherOpens(p, r) PROVE NumbersOK'
    BY <1>20 DEF OtherOpens, Connect
<1>21. ASSUME NEW o \in Openers, Count(o) PROVE NumbersOK'
    BY <1>21 DEF Count, Opened
<1>22. ASSUME NEW o \in Openers, InsertVersion(o) PROVE NumbersOK'
    BY <1>22 DEF InsertVersion, Opened
<1>23. ASSUME NEW o \in Openers, VersionExists(o) PROVE NumbersOK'
    <2>1. CASE ThreadBeaten(o)
        BY <2>1 DEF ThreadBeaten, Beaten, Return
    <2>2. CASE OtherBeaten(o)
        BY <2>2 DEF OtherBeaten, Beaten
    <2> QED
        BY <1>23, <2>1, <2>2, ExistsCases
<1>24. CASE UNCHANGED vars
    BY <1>24 DEF vars
<1>25. ASSUME NEW t \in Threads, SelftestPasses(t) PROVE NumbersOK'
    BY <1>25 DEF SelftestPasses
<1>26. ASSUME NEW t \in Threads, CloseRaises(t) PROVE NumbersOK'
    <2>1. raised' \subseteq 1..made
        <3>1. current # 0
            BY <1>26 DEF CloseRaises, Forget, RuntimeInv, HolderInv
        <3> QED
            BY <1>26, <3>1 DEF CloseRaises, Mine
    <2> QED
        BY <1>26, <2>1 DEF CloseRaises, Forget
<1>27. ASSUME NEW r \in writers, WriterEnds(r) PROVE NumbersOK'
    BY <1>27 DEF WriterEnds
<1> QED
    BY <1>1, <1>2, <1>3, <1>4, <1>5, <1>6, <1>7, <1>8, <1>9, <1>10, <1>11, <1>12, <1>13, <1>14, <1>15, <1>16, <1>17, <1>18, <1>19, <1>20, <1>21, <1>22, <1>23, <1>24, <1>25, <1>26,
       <1>27 DEF Next, Step, Migrate

(* A thread holds a runtime from the time it is made or handed out.        *)
LEMMA GotStep ==
    ASSUME LabelsOK, NumbersOK, GotOK, [Next]_vars
    PROVE  GotOK'
<1> USE FreeAssumption, MineSame DEF NumbersOK, GotOK, LabelsOK, Goto, Openers, Making, runtimeVars, schemaVars, callVars, dispatchVars
<1>1. ASSUME NEW t \in Threads, Register(t) PROVE GotOK'
    BY <1>1 DEF Register, Ask
<1>2. ASSUME NEW t \in Threads, Selftest(t) PROVE GotOK'
    <2>1. made' = made + 1 /\ rootOf' = Append(rootOf, Temp)
        BY <1>2 DEF Selftest
    <2>2. Mine' = Mine
        BY <2>1, MineGrows
    <2> QED
        BY <1>2, <2>1, <2>2 DEF Selftest
<1>3. ASSUME NEW t \in Threads, NEW r \in Roots, Command(t, r) PROVE GotOK'
    BY <1>3 DEF Command, Ask
<1>4. ASSUME NEW t \in Threads, NEW r \in Roots, Build(t, r) PROVE GotOK'
    BY <1>4 DEF Build, Ask
<1>5. ASSUME NEW t \in Threads, GetExisting(t) PROVE GotOK'
    <2>1. CASE Return(t)
        BY <1>5, <2>1 DEF GetExisting, Return
    <2>2. CASE HandOver(t, current)
        <3>1. current \in Mine /\ current \in 0..made /\ Mine' = Mine /\ made' = made
            BY <1>5 DEF GetExisting, Mine
        <3>2. /\ got' = [got EXCEPT ![t] = current]
              /\ \A u \in Threads : u # t => pc'[u] = pc[u]
            BY <1>5, <2>2 DEF HandOver
        <3>3. got' \in [Threads -> 0..made']
            BY <3>1, <3>2
        <3> QED
            BY <3>1, <3>2, <3>3
    <2> QED
        BY <1>5, <2>1, <2>2, HandCases DEF GetExisting
<1>6. ASSUME NEW t \in Threads, OpenStore(t) PROVE GotOK'
    <2>1. want[t] \in Roots /\ made' = made + 1 /\ rootOf' = Append(rootOf, want[t])
        BY <1>6 DEF OpenStore
    <2>2. Mine' = Mine \cup {made + 1}
        BY <2>1, MineGrows, RootAssumption
    <2> QED
        BY <1>6, <2>1, <2>2 DEF OpenStore, Connect, Take
<1>7. ASSUME NEW t \in Threads, OpenFails(t) PROVE GotOK'
    BY <1>7 DEF OpenFails, Return
<1>8. ASSUME NEW t \in Threads, MakeRuntime(t) PROVE GotOK'
    <2>1. CASE Return(t)
        BY <1>8, <2>1 DEF MakeRuntime, Return
    <2>2. CASE HandOver(t, got[t])
        BY <1>8, <2>2 DEF MakeRuntime, HandOver
    <2> QED
        BY <1>8, <2>1, <2>2, HandCases DEF MakeRuntime
<1>9. ASSUME NEW t \in Threads, MakeFails(t) PROVE GotOK'
    BY <1>9 DEF MakeFails, Return
<1>10. ASSUME NEW t \in Threads, RegisterHook(t) PROVE GotOK'
    BY <1>10 DEF RegisterHook, Return
<1>11. ASSUME NEW t \in Threads, PutRow(t) PROVE GotOK'
    BY <1>11 DEF PutRow
<1>12. ASSUME NEW t \in Threads, SelftestFails(t) PROVE GotOK'
    BY <1>12 DEF SelftestFails
<1>13. ASSUME NEW t \in Threads, ResetNothing(t) PROVE GotOK'
    BY <1>13 DEF ResetNothing
<1>14. ASSUME NEW t \in Threads, Reset(t) PROVE GotOK'
    BY <1>14 DEF Reset, Take
<1>15. ASSUME NEW t \in Threads, CloseQueue(t) PROVE GotOK'
    BY <1>15 DEF CloseQueue
<1>16. ASSUME NEW t \in Threads, CloseStore(t) PROVE GotOK'
    BY <1>16 DEF CloseStore, Forget
<1>17. ASSUME NEW t \in Threads, NEW f \in Firings, Fire(t, f) PROVE GotOK'
    BY <1>17 DEF Fire
<1>18. ASSUME NEW t \in Threads, Callback(t) PROVE GotOK'
    BY <1>18 DEF Callback
<1>19. ASSUME NEW t \in Threads, Dispatched(t) PROVE GotOK'
    BY <1>19 DEF Dispatched
<1>20. ASSUME NEW p \in Others, NEW r \in OtherRoots, OtherOpens(p, r) PROVE GotOK'
    BY <1>20 DEF OtherOpens, Connect
<1>21. ASSUME NEW o \in Openers, Count(o) PROVE GotOK'
    BY <1>21 DEF Count, Opened
<1>22. ASSUME NEW o \in Openers, InsertVersion(o) PROVE GotOK'
    BY <1>22 DEF InsertVersion, Opened
<1>23. ASSUME NEW o \in Openers, VersionExists(o) PROVE GotOK'
    <2>1. CASE ThreadBeaten(o)
        BY <2>1 DEF ThreadBeaten, Beaten, Return
    <2>2. CASE OtherBeaten(o)
        BY <2>2 DEF OtherBeaten, Beaten
    <2> QED
        BY <1>23, <2>1, <2>2, ExistsCases
<1>24. CASE UNCHANGED vars
    BY <1>24 DEF vars
<1>25. ASSUME NEW t \in Threads, SelftestPasses(t) PROVE GotOK'
    BY <1>25 DEF SelftestPasses
<1>26. ASSUME NEW t \in Threads, CloseRaises(t) PROVE GotOK'
    BY <1>26 DEF CloseRaises, Forget
<1>27. ASSUME NEW r \in writers, WriterEnds(r) PROVE GotOK'
    BY <1>27 DEF WriterEnds
<1> QED
    BY <1>1, <1>2, <1>3, <1>4, <1>5, <1>6, <1>7, <1>8, <1>9, <1>10, <1>11, <1>12, <1>13, <1>14, <1>15, <1>16, <1>17, <1>18, <1>19, <1>20, <1>21, <1>22, <1>23, <1>24, <1>25, <1>26,
       <1>27 DEF Next, Step, Migrate

(* Only the holder of the lock enters or leaves a locked region.           *)
LEMMA LockStep ==
    ASSUME LabelsOK, LockInv, [Next]_vars
    PROVE  LockInv'
<1> USE FreeAssumption DEF LockInv, Locked, Goto, Openers, LabelsOK, runtimeVars, schemaVars, callVars, dispatchVars
<1>1. ASSUME NEW t \in Threads, Register(t) PROVE LockInv'
    BY <1>1 DEF Register, Ask
<1>2. ASSUME NEW t \in Threads, Selftest(t) PROVE LockInv'
    BY <1>2 DEF Selftest
<1>3. ASSUME NEW t \in Threads, NEW r \in Roots, Command(t, r) PROVE LockInv'
    BY <1>3 DEF Command, Ask
<1>4. ASSUME NEW t \in Threads, NEW r \in Roots, Build(t, r) PROVE LockInv'
    BY <1>4 DEF Build, Ask
<1>5. ASSUME NEW t \in Threads, GetExisting(t) PROVE LockInv'
    BY <1>5 DEF GetExisting, Hand, Return
<1>6. ASSUME NEW t \in Threads, OpenStore(t) PROVE LockInv'
    BY <1>6 DEF OpenStore, Connect, Take
<1>7. ASSUME NEW t \in Threads, OpenFails(t) PROVE LockInv'
    BY <1>7 DEF OpenFails, Return
<1>8. ASSUME NEW t \in Threads, MakeRuntime(t) PROVE LockInv'
    <2>1. CASE Return(t)
        BY <1>8, <2>1 DEF MakeRuntime, Return
    <2>2. CASE HandOver(t, got[t])
        BY <1>8, <2>2 DEF MakeRuntime, HandOver
    <2> QED
        BY <1>8, <2>1, <2>2, HandCases DEF MakeRuntime
<1>9. ASSUME NEW t \in Threads, MakeFails(t) PROVE LockInv'
    BY <1>9 DEF MakeFails, Return
<1>10. ASSUME NEW t \in Threads, RegisterHook(t) PROVE LockInv'
    BY <1>10 DEF RegisterHook, Return
<1>11. ASSUME NEW t \in Threads, PutRow(t) PROVE LockInv'
    BY <1>11 DEF PutRow
<1>12. ASSUME NEW t \in Threads, SelftestFails(t) PROVE LockInv'
    BY <1>12 DEF SelftestFails
<1>13. ASSUME NEW t \in Threads, ResetNothing(t) PROVE LockInv'
    BY <1>13 DEF ResetNothing
<1>14. ASSUME NEW t \in Threads, Reset(t) PROVE LockInv'
    BY <1>14 DEF Reset, Take
<1>15. ASSUME NEW t \in Threads, CloseQueue(t) PROVE LockInv'
    BY <1>15 DEF CloseQueue
<1>16. ASSUME NEW t \in Threads, CloseStore(t) PROVE LockInv'
    BY <1>16 DEF CloseStore, Forget
<1>17. ASSUME NEW t \in Threads, NEW f \in Firings, Fire(t, f) PROVE LockInv'
    BY <1>17 DEF Fire
<1>18. ASSUME NEW t \in Threads, Callback(t) PROVE LockInv'
    BY <1>18 DEF Callback
<1>19. ASSUME NEW t \in Threads, Dispatched(t) PROVE LockInv'
    BY <1>19 DEF Dispatched
<1>20. ASSUME NEW p \in Others, NEW r \in OtherRoots, OtherOpens(p, r) PROVE LockInv'
    BY <1>20 DEF OtherOpens, Connect
<1>21. ASSUME NEW o \in Openers, Count(o) PROVE LockInv'
    BY <1>21 DEF Count, Opened
<1>22. ASSUME NEW o \in Openers, InsertVersion(o) PROVE LockInv'
    BY <1>22 DEF InsertVersion, Opened
<1>23. ASSUME NEW o \in Openers, VersionExists(o) PROVE LockInv'
    BY <1>23 DEF VersionExists, Return
<1>24. CASE UNCHANGED vars
    BY <1>24 DEF vars
<1>25. ASSUME NEW t \in Threads, SelftestPasses(t) PROVE LockInv'
    BY <1>25 DEF SelftestPasses
<1>26. ASSUME NEW t \in Threads, CloseRaises(t) PROVE LockInv'
    BY <1>26 DEF CloseRaises, Forget
<1>27. ASSUME NEW r \in writers, WriterEnds(r) PROVE LockInv'
    BY <1>27 DEF WriterEnds
<1> QED
    BY <1>1, <1>2, <1>3, <1>4, <1>5, <1>6, <1>7, <1>8, <1>9, <1>10, <1>11, <1>12, <1>13, <1>14, <1>15, <1>16, <1>17, <1>18, <1>19, <1>20, <1>21, <1>22, <1>23, <1>24, <1>25, <1>26,
       <1>27 DEF Next, Step, Migrate

(* A version row, once there, stays with the process that inserted it.     *)
LEMMA RaceStep ==
    ASSUME LabelsOK, RaceInv, [Next]_vars
    PROVE  RaceInv'
<1> USE FreeAssumption DEF RaceInv, Goto, Openers, LabelsOK, runtimeVars, schemaVars, callVars, dispatchVars
<1>1. ASSUME NEW t \in Threads, Register(t) PROVE RaceInv'
    BY <1>1 DEF Register, Ask
<1>2. ASSUME NEW t \in Threads, Selftest(t) PROVE RaceInv'
    BY <1>2 DEF Selftest
<1>3. ASSUME NEW t \in Threads, NEW r \in Roots, Command(t, r) PROVE RaceInv'
    BY <1>3 DEF Command, Ask
<1>4. ASSUME NEW t \in Threads, NEW r \in Roots, Build(t, r) PROVE RaceInv'
    BY <1>4 DEF Build, Ask
<1>5. ASSUME NEW t \in Threads, GetExisting(t) PROVE RaceInv'
    BY <1>5 DEF GetExisting, Hand, Return
<1>6. ASSUME NEW t \in Threads, OpenStore(t) PROVE RaceInv'
    BY <1>6 DEF OpenStore, Connect, Take
<1>7. ASSUME NEW t \in Threads, OpenFails(t) PROVE RaceInv'
    BY <1>7 DEF OpenFails, Return
<1>8. ASSUME NEW t \in Threads, MakeRuntime(t) PROVE RaceInv'
    BY <1>8 DEF MakeRuntime, Hand, Return
<1>9. ASSUME NEW t \in Threads, MakeFails(t) PROVE RaceInv'
    BY <1>9 DEF MakeFails, Return
<1>10. ASSUME NEW t \in Threads, RegisterHook(t) PROVE RaceInv'
    BY <1>10 DEF RegisterHook, Return
<1>11. ASSUME NEW t \in Threads, PutRow(t) PROVE RaceInv'
    BY <1>11 DEF PutRow
<1>12. ASSUME NEW t \in Threads, SelftestFails(t) PROVE RaceInv'
    BY <1>12 DEF SelftestFails
<1>13. ASSUME NEW t \in Threads, ResetNothing(t) PROVE RaceInv'
    BY <1>13 DEF ResetNothing
<1>14. ASSUME NEW t \in Threads, Reset(t) PROVE RaceInv'
    BY <1>14 DEF Reset, Take
<1>15. ASSUME NEW t \in Threads, CloseQueue(t) PROVE RaceInv'
    BY <1>15 DEF CloseQueue
<1>16. ASSUME NEW t \in Threads, CloseStore(t) PROVE RaceInv'
    BY <1>16 DEF CloseStore, Forget
<1>17. ASSUME NEW t \in Threads, NEW f \in Firings, Fire(t, f) PROVE RaceInv'
    BY <1>17 DEF Fire
<1>18. ASSUME NEW t \in Threads, Callback(t) PROVE RaceInv'
    BY <1>18 DEF Callback
<1>19. ASSUME NEW t \in Threads, Dispatched(t) PROVE RaceInv'
    BY <1>19 DEF Dispatched
<1>20. ASSUME NEW p \in Others, NEW r \in OtherRoots, OtherOpens(p, r) PROVE RaceInv'
    BY <1>20 DEF OtherOpens, Connect
<1>21. ASSUME NEW o \in Openers, Count(o) PROVE RaceInv'
    BY <1>21 DEF Count, Opened
<1>22. ASSUME NEW o \in Openers, InsertVersion(o) PROVE RaceInv'
    BY <1>22 DEF InsertVersion, Opened
<1>23. ASSUME NEW o \in Openers, VersionExists(o) PROVE RaceInv'
    BY <1>23 DEF VersionExists, Return
<1>24. CASE UNCHANGED vars
    BY <1>24 DEF vars
<1>25. ASSUME NEW t \in Threads, SelftestPasses(t) PROVE RaceInv'
    BY <1>25 DEF SelftestPasses
<1>26. ASSUME NEW t \in Threads, CloseRaises(t) PROVE RaceInv'
    BY <1>26 DEF CloseRaises, Forget
<1>27. ASSUME NEW r \in writers, WriterEnds(r) PROVE RaceInv'
    BY <1>27 DEF WriterEnds
<1> QED
    BY <1>1, <1>2, <1>3, <1>4, <1>5, <1>6, <1>7, <1>8, <1>9, <1>10, <1>11, <1>12, <1>13, <1>14, <1>15, <1>16, <1>17, <1>18, <1>19, <1>20, <1>21, <1>22, <1>23, <1>24, <1>25, <1>26,
       <1>27 DEF Next, Step, Migrate

(* An open fails only behind the row of another open.                      *)
LEMMA ClashStep ==
    ASSUME LabelsOK, RaceInv, OpenRaceDecided, [Next]_vars
    PROVE  OpenRaceDecided'
<1> USE FreeAssumption DEF RaceInv, OpenRaceDecided, Goto, Openers, LabelsOK, runtimeVars, schemaVars, callVars, dispatchVars
<1>1. ASSUME NEW t \in Threads, Register(t) PROVE OpenRaceDecided'
    BY <1>1 DEF Register, Ask
<1>2. ASSUME NEW t \in Threads, Selftest(t) PROVE OpenRaceDecided'
    BY <1>2 DEF Selftest
<1>3. ASSUME NEW t \in Threads, NEW r \in Roots, Command(t, r) PROVE OpenRaceDecided'
    BY <1>3 DEF Command, Ask
<1>4. ASSUME NEW t \in Threads, NEW r \in Roots, Build(t, r) PROVE OpenRaceDecided'
    BY <1>4 DEF Build, Ask
<1>5. ASSUME NEW t \in Threads, GetExisting(t) PROVE OpenRaceDecided'
    BY <1>5 DEF GetExisting, Hand, Return
<1>6. ASSUME NEW t \in Threads, OpenStore(t) PROVE OpenRaceDecided'
    BY <1>6 DEF OpenStore, Connect, Take
<1>7. ASSUME NEW t \in Threads, OpenFails(t) PROVE OpenRaceDecided'
    BY <1>7 DEF OpenFails, Return
<1>8. ASSUME NEW t \in Threads, MakeRuntime(t) PROVE OpenRaceDecided'
    BY <1>8 DEF MakeRuntime, Hand, Return
<1>9. ASSUME NEW t \in Threads, MakeFails(t) PROVE OpenRaceDecided'
    BY <1>9 DEF MakeFails, Return
<1>10. ASSUME NEW t \in Threads, RegisterHook(t) PROVE OpenRaceDecided'
    BY <1>10 DEF RegisterHook, Return
<1>11. ASSUME NEW t \in Threads, PutRow(t) PROVE OpenRaceDecided'
    BY <1>11 DEF PutRow
<1>12. ASSUME NEW t \in Threads, SelftestFails(t) PROVE OpenRaceDecided'
    BY <1>12 DEF SelftestFails
<1>13. ASSUME NEW t \in Threads, ResetNothing(t) PROVE OpenRaceDecided'
    BY <1>13 DEF ResetNothing
<1>14. ASSUME NEW t \in Threads, Reset(t) PROVE OpenRaceDecided'
    BY <1>14 DEF Reset, Take
<1>15. ASSUME NEW t \in Threads, CloseQueue(t) PROVE OpenRaceDecided'
    BY <1>15 DEF CloseQueue
<1>16. ASSUME NEW t \in Threads, CloseStore(t) PROVE OpenRaceDecided'
    BY <1>16 DEF CloseStore, Forget
<1>17. ASSUME NEW t \in Threads, NEW f \in Firings, Fire(t, f) PROVE OpenRaceDecided'
    BY <1>17 DEF Fire
<1>18. ASSUME NEW t \in Threads, Callback(t) PROVE OpenRaceDecided'
    BY <1>18 DEF Callback
<1>19. ASSUME NEW t \in Threads, Dispatched(t) PROVE OpenRaceDecided'
    BY <1>19 DEF Dispatched
<1>20. ASSUME NEW p \in Others, NEW r \in OtherRoots, OtherOpens(p, r) PROVE OpenRaceDecided'
    BY <1>20 DEF OtherOpens, Connect
<1>21. ASSUME NEW o \in Openers, Count(o) PROVE OpenRaceDecided'
    BY <1>21 DEF Count, Opened
<1>22. ASSUME NEW o \in Openers, InsertVersion(o) PROVE OpenRaceDecided'
    BY <1>22 DEF InsertVersion, Opened
<1>23. ASSUME NEW o \in Openers, VersionExists(o) PROVE OpenRaceDecided'
    BY <1>23 DEF VersionExists, Return
<1>24. CASE UNCHANGED vars
    BY <1>24 DEF vars
<1>25. ASSUME NEW t \in Threads, SelftestPasses(t) PROVE OpenRaceDecided'
    BY <1>25 DEF SelftestPasses
<1>26. ASSUME NEW t \in Threads, CloseRaises(t) PROVE OpenRaceDecided'
    BY <1>26 DEF CloseRaises, Forget
<1>27. ASSUME NEW r \in writers, WriterEnds(r) PROVE OpenRaceDecided'
    BY <1>27 DEF WriterEnds
<1> QED
    BY <1>1, <1>2, <1>3, <1>4, <1>5, <1>6, <1>7, <1>8, <1>9, <1>10, <1>11, <1>12, <1>13, <1>14, <1>15, <1>16, <1>17, <1>18, <1>19, <1>20, <1>21, <1>22, <1>23, <1>24, <1>25, <1>26,
       <1>27 DEF Next, Step, Migrate

(* A root is asked for before it is used.                                  *)
LEMMA RowsStep ==
    ASSUME LabelsOK, NumbersOK, GotOK, RowsInv, [Next]_vars
    PROVE  RowsInv'
<1> USE FreeAssumption, RootAssumption, MineSame, FS_AddElement DEF RowsInv, Goto, Openers, Making, LabelsOK, NumbersOK, GotOK, runtimeVars, schemaVars, callVars, dispatchVars
<1>1. ASSUME NEW t \in Threads, Register(t) PROVE RowsInv'
    BY <1>1 DEF Register, Ask
<1>2. ASSUME NEW t \in Threads, Selftest(t) PROVE RowsInv'
    <2>1. made' = made + 1 /\ rootOf' = Append(rootOf, Temp)
        BY <1>2 DEF Selftest
    <2>2. Mine' = Mine /\ \A i \in Mine : rootOf'[i] = rootOf[i]
        BY <2>1, MineGrows
    <2> QED
        BY <1>2, <2>2 DEF Selftest
<1>3. ASSUME NEW t \in Threads, NEW r \in Roots, Command(t, r) PROVE RowsInv'
    BY <1>3 DEF Command, Ask
<1>4. ASSUME NEW t \in Threads, NEW r \in Roots, Build(t, r) PROVE RowsInv'
    BY <1>4 DEF Build, Ask
<1>5. ASSUME NEW t \in Threads, GetExisting(t) PROVE RowsInv'
    <2>1. CASE Return(t)
        BY <1>5, <2>1 DEF GetExisting, Return
    <2>2. CASE HandOver(t, current)
        BY <1>5, <2>2 DEF GetExisting, HandOver
    <2> QED
        BY <1>5, <2>1, <2>2, HandCases DEF GetExisting
<1>6. ASSUME NEW t \in Threads, OpenStore(t) PROVE RowsInv'
    <2>1. /\ want[t] \in Roots /\ want[t] # Temp /\ want[t] \in asked
          /\ made' = made + 1 /\ rootOf' = Append(rootOf, want[t])
        BY <1>6 DEF OpenStore
    <2>2. /\ Mine' = Mine \cup {made + 1} /\ Mine \subseteq 1..made
          /\ rootOf'[made + 1] = want[t] /\ \A i \in 1..made : rootOf'[i] = rootOf[i]
        BY <2>1, MineGrows
    <2>3. UNCHANGED <<asked, rows, want>> /\ pc' = [pc EXCEPT ![t] = "count"]
        BY <1>6 DEF OpenStore, Connect
    <2>4. \A i \in Mine' : rootOf'[i] \in asked'
        BY <2>1, <2>2, <2>3
    <2> QED
        BY <2>1, <2>3, <2>4
<1>7. ASSUME NEW t \in Threads, OpenFails(t) PROVE RowsInv'
    BY <1>7 DEF OpenFails, Return
<1>8. ASSUME NEW t \in Threads, MakeRuntime(t) PROVE RowsInv'
    <2>1. CASE Return(t)
        BY <1>8, <2>1 DEF MakeRuntime, Return
    <2>2. CASE HandOver(t, got[t])
        BY <1>8, <2>2 DEF MakeRuntime, HandOver
    <2> QED
        BY <1>8, <2>1, <2>2, HandCases DEF MakeRuntime
<1>9. ASSUME NEW t \in Threads, MakeFails(t) PROVE RowsInv'
    BY <1>9 DEF MakeFails, Return
<1>10. ASSUME NEW t \in Threads, RegisterHook(t) PROVE RowsInv'
    BY <1>10 DEF RegisterHook, Return
<1>11. ASSUME NEW t \in Threads, PutRow(t) PROVE RowsInv'
    BY <1>11 DEF PutRow
<1>12. ASSUME NEW t \in Threads, SelftestFails(t) PROVE RowsInv'
    BY <1>12 DEF SelftestFails
<1>13. ASSUME NEW t \in Threads, ResetNothing(t) PROVE RowsInv'
    BY <1>13 DEF ResetNothing
<1>14. ASSUME NEW t \in Threads, Reset(t) PROVE RowsInv'
    BY <1>14 DEF Reset, Take
<1>15. ASSUME NEW t \in Threads, CloseQueue(t) PROVE RowsInv'
    BY <1>15 DEF CloseQueue
<1>16. ASSUME NEW t \in Threads, CloseStore(t) PROVE RowsInv'
    BY <1>16 DEF CloseStore, Forget
<1>17. ASSUME NEW t \in Threads, NEW f \in Firings, Fire(t, f) PROVE RowsInv'
    BY <1>17 DEF Fire
<1>18. ASSUME NEW t \in Threads, Callback(t) PROVE RowsInv'
    BY <1>18 DEF Callback
<1>19. ASSUME NEW t \in Threads, Dispatched(t) PROVE RowsInv'
    BY <1>19 DEF Dispatched
<1>20. ASSUME NEW p \in Others, NEW r \in OtherRoots, OtherOpens(p, r) PROVE RowsInv'
    BY <1>20 DEF OtherOpens, Connect
<1>21. ASSUME NEW o \in Openers, Count(o) PROVE RowsInv'
    BY <1>21 DEF Count, Opened
<1>22. ASSUME NEW o \in Openers, InsertVersion(o) PROVE RowsInv'
    BY <1>22 DEF InsertVersion, Opened
<1>23. ASSUME NEW o \in Openers, VersionExists(o) PROVE RowsInv'
    <2>1. CASE ThreadBeaten(o)
        BY <2>1 DEF ThreadBeaten, Beaten, Return
    <2>2. CASE OtherBeaten(o)
        BY <2>2 DEF OtherBeaten, Beaten
    <2> QED
        BY <1>23, <2>1, <2>2, ExistsCases
<1>24. CASE UNCHANGED vars
    BY <1>24 DEF vars
<1>25. ASSUME NEW t \in Threads, SelftestPasses(t) PROVE RowsInv'
    BY <1>25 DEF SelftestPasses
<1>26. ASSUME NEW t \in Threads, CloseRaises(t) PROVE RowsInv'
    BY <1>26 DEF CloseRaises, Forget
<1>27. ASSUME NEW r \in writers, WriterEnds(r) PROVE RowsInv'
    BY <1>27 DEF WriterEnds
<1> QED
    BY <1>1, <1>2, <1>3, <1>4, <1>5, <1>6, <1>7, <1>8, <1>9, <1>10, <1>11, <1>12, <1>13, <1>14, <1>15, <1>16, <1>17, <1>18, <1>19, <1>20, <1>21, <1>22, <1>23, <1>24, <1>25, <1>26,
       <1>27 DEF Next, Step, Migrate

(* The runtime is opened and closed by the thread that holds the lock.     *)
LEMMA RuntimeStep ==
    ASSUME LabelsOK, NumbersOK, GotOK, LockInv, RuntimeInv, [Next]_vars
    PROVE  RuntimeInv'
<1> USE FreeAssumption, MineSame DEF RuntimeInv, HolderInv, RuntimeOpen, NothingOpen, Live, Stored, LockInv, Locked, Making, Goto, Openers, LabelsOK, NumbersOK, GotOK, runtimeVars, schemaVars, callVars, dispatchVars
<1>1. ASSUME NEW t \in Threads, Register(t) PROVE RuntimeInv'
    BY <1>1 DEF Register, Ask
<1>2. ASSUME NEW t \in Threads, Selftest(t) PROVE RuntimeInv'
    <2>1. made' = made + 1 /\ rootOf' = Append(rootOf, Temp)
        BY <1>2 DEF Selftest
    <2>2. /\ Mine' = Mine /\ Mine \subseteq 1..made /\ made + 1 \notin 1..made
          /\ \A i \in Mine : rootOf'[i] = rootOf[i]
        BY <2>1, MineGrows
    <2>3. Live' = Live /\ Stored' = Stored
        BY <1>2, <2>2 DEF Selftest
    <2>4. /\ current' = current /\ version' = version /\ want' = want /\ lock' = lock
          /\ pc' = [pc EXCEPT ![t] = "selftest"] /\ got' = [got EXCEPT ![t] = made + 1]
          /\ writers' = writers \cup {made + 1}
        BY <1>2 DEF Selftest
    <2>5. NothingOpen' = NothingOpen /\ RuntimeOpen' = RuntimeOpen
        BY <2>2, <2>3, <2>4
    <2>6. \A u \in Threads : Making(u) => Making(u)' \/ u = t
        BY <2>4
    <2>7. ASSUME NEW u \in Threads, u # t
          PROVE  /\ pc'[u] = pc[u] /\ got'[u] = got[u]
                 /\ Making(u) => got[u] \in Mine /\ got[u] # made + 1
        BY <2>2, <2>4, <2>7
    <2> HIDE DEF Live, Stored, RuntimeOpen, NothingOpen
    <2> QED
        BY <2>2, <2>3, <2>4, <2>5, <2>7
<1>3. ASSUME NEW t \in Threads, NEW r \in Roots, Command(t, r) PROVE RuntimeInv'
    BY <1>3 DEF Command, Ask
<1>4. ASSUME NEW t \in Threads, NEW r \in Roots, Build(t, r) PROVE RuntimeInv'
    BY <1>4 DEF Build, Ask
<1>5. ASSUME NEW t \in Threads, GetExisting(t) PROVE RuntimeInv'
    <2>1. UNCHANGED <<lock, runtimeVars, version>> /\ Mine' = Mine
        BY <1>5 DEF GetExisting
    <2>2. NothingOpen' = NothingOpen /\ RuntimeOpen' = RuntimeOpen /\ Live' = Live
          /\ Stored' = Stored
        BY <2>1
    <2>3. \A u \in Threads : u # t => pc'[u] = pc[u] /\ got'[u] = got[u] /\ want'[u] = want[u]
        BY <1>5 DEF GetExisting, Hand, Return
    <2>4. pc'[t] \in {"idle", "hook", "row"}
        BY <1>5 DEF GetExisting, Hand, Return
    <2> HIDE DEF NothingOpen, RuntimeOpen, Live, Stored
    <2>5. /\ lock' = Free => NothingOpen' \/ RuntimeOpen'
          /\ current' # 0 => version'[rootOf'[current']] # Free
        BY <2>1, <2>2
    <2>6. ASSUME NEW u \in Threads PROVE HolderInv(u)'
        <3>1. CASE u = t
            BY <2>4, <3>1 DEF HolderInv
        <3>2. CASE u # t
            BY <2>1, <2>2, <2>3, <3>2 DEF HolderInv
        <3> QED
            BY <3>1, <3>2
    <2> QED
        BY <2>5, <2>6
<1>6. ASSUME NEW t \in Threads, OpenStore(t) PROVE RuntimeInv'
    <2>1. NothingOpen /\ ~\E u \in Threads : Locked(u)
        BY <1>6 DEF OpenStore, Take
    <2>a. /\ want[t] \in Roots /\ want[t] # Temp
          /\ made' = made + 1 /\ rootOf' = Append(rootOf, want[t])
        BY <1>6, RootAssumption DEF OpenStore
    <2>b. /\ Mine' = Mine \cup {made + 1} /\ Mine \subseteq 1..made
          /\ made + 1 \notin 1..made /\ rootOf'[made + 1] = want[t]
        BY <2>a, MineGrows
    <2>2. /\ rootOf'[made + 1] = want[t] /\ got'[t] = made + 1 /\ want' = want
          /\ got'[t] \notin writers'
        BY <1>6, <2>b DEF OpenStore
    <2>c. /\ queueOpen' = queueOpen /\ storeOpen' = storeOpen \cup {made + 1}
          /\ raised' = raised /\ current' = current
        BY <1>6 DEF OpenStore
    <2>3. Stored' = {got'[t]} /\ Live' = {} /\ current' = 0
        <3>1. made + 1 \notin queueOpen /\ made + 1 \notin raised
            BY <2>b
        <3>2. current = 0 /\ queueOpen \cap Mine = {} /\ (storeOpen \cap Mine) \ raised = {}
            BY <2>1
        <3>3. (storeOpen' \cap Mine') \ raised' = {made + 1} /\ queueOpen' \cap Mine' = {}
            BY ONLY <2>b, <2>c, <3>1, <3>2
        <3>4. Stored' = {made + 1} /\ Live' = {}
            BY ONLY <3>3 DEF Stored, Live
        <3> QED
            BY ONLY <2>2, <2>c, <3>2, <3>4
    <2>4. lock' = t /\ pc'[t] = "count" /\ \A u \in Threads : u # t => ~Locked(u)'
        BY <1>6, <2>1 DEF OpenStore, Connect, Take
    <2>5. \A u \in Threads : u # t => got'[u] = got[u] /\ pc'[u] = pc[u]
        BY <1>6 DEF OpenStore, Connect
    <2>6. \A u \in Threads : pc'[u] = "selftest" => got'[u] \notin Mine'
        <3> SUFFICES ASSUME NEW u \in Threads, pc'[u] = "selftest"
                     PROVE  got'[u] \notin Mine'
            OBVIOUS
        <3>1. u # t
            BY <2>4
        <3>2. got'[u] = got[u] /\ got[u] \notin Mine /\ got[u] \in 0..made
            BY <2>5, <3>1
        <3>3. got[u] # made + 1
            BY <3>2
        <3> QED
            BY ONLY <2>b, <3>2, <3>3
    <2>7. lock' # Free /\ Making(t)' /\ pc'[t] # "make"
        BY <2>4
    <2>8. ASSUME NEW u \in Threads, u # t
          PROVE  ~Making(u)' /\ pc'[u] \notin {"make", "closequeue", "closestore"}
        BY <2>4, <2>8
    <2> HIDE DEF Live, Stored, RuntimeOpen, NothingOpen
    <2> QED
        BY <2>2, <2>3, <2>4, <2>6, <2>7, <2>8
<1>7. ASSUME NEW t \in Threads, OpenFails(t) PROVE RuntimeInv'
    <2>1. UNCHANGED <<lock, runtimeVars, version>> /\ Mine' = Mine
        BY <1>7 DEF OpenFails
    <2>2. NothingOpen' = NothingOpen /\ RuntimeOpen' = RuntimeOpen /\ Live' = Live
          /\ Stored' = Stored
        BY <2>1
    <2>3. \A u \in Threads : u # t => pc'[u] = pc[u] /\ got'[u] = got[u] /\ want'[u] = want[u]
        BY <1>7 DEF OpenFails, Return
    <2>4. pc'[t] = "idle"
        BY <1>7 DEF OpenFails, Return
    <2> HIDE DEF NothingOpen, RuntimeOpen, Live, Stored
    <2>5. /\ lock' = Free => NothingOpen' \/ RuntimeOpen'
          /\ current' # 0 => version'[rootOf'[current']] # Free
        BY <2>1, <2>2
    <2>6. ASSUME NEW u \in Threads PROVE HolderInv(u)'
        <3>1. CASE u = t
            BY <2>4, <3>1 DEF HolderInv
        <3>2. CASE u # t
            BY <2>1, <2>2, <2>3, <3>2 DEF HolderInv
        <3> QED
            BY <3>1, <3>2
    <2> QED
        BY <2>5, <2>6
<1>8. ASSUME NEW t \in Threads, MakeRuntime(t) PROVE RuntimeInv'
    <2>1. pc[t] = "make" /\ \A u \in Threads : u # t => ~Locked(u)
        BY <1>8 DEF MakeRuntime
    <2>2. RuntimeOpen' /\ current' = got[t]
        BY <1>8, <2>1 DEF MakeRuntime
    <2>3. version'[rootOf'[current']] # Free
        BY <1>8, <2>1, <2>2 DEF MakeRuntime
    <2>4. \A u \in Threads : pc'[u] = pc[u] \/ pc'[u] \in {"idle", "hook", "row"}
        BY <1>8 DEF MakeRuntime, Hand, Return
    <2>5. pc'[t] \in {"idle", "hook", "row"}
        BY <1>8 DEF MakeRuntime, Hand, Return
    <2>6. \A u \in Threads : ~Locked(u)'
        BY <2>1, <2>4, <2>5
    <2>7. \A u \in Threads : pc'[u] = "selftest" => pc[u] = "selftest" /\ got'[u] = got[u]
        BY <1>8 DEF MakeRuntime, Hand, Return
    <2>8. \A u \in Threads : pc'[u] = "selftest" => got'[u] \notin Mine'
        BY <1>8, <2>7 DEF MakeRuntime
    <2> QED
        BY <2>2, <2>3, <2>6, <2>8
<1>9. ASSUME NEW t \in Threads, MakeFails(t) PROVE RuntimeInv'
    BY <1>9 DEF MakeFails, Return
<1>10. ASSUME NEW t \in Threads, RegisterHook(t) PROVE RuntimeInv'
    BY <1>10 DEF RegisterHook, Return
<1>11. ASSUME NEW t \in Threads, PutRow(t) PROVE RuntimeInv'
    BY <1>11 DEF PutRow
<1>12. ASSUME NEW t \in Threads, SelftestFails(t) PROVE RuntimeInv'
    BY <1>12 DEF SelftestFails
<1>13. ASSUME NEW t \in Threads, ResetNothing(t) PROVE RuntimeInv'
    BY <1>13 DEF ResetNothing
<1>14. ASSUME NEW t \in Threads, Reset(t) PROVE RuntimeInv'
    BY <1>14 DEF Reset, Take
<1>15. ASSUME NEW t \in Threads, CloseQueue(t) PROVE RuntimeInv'
    BY <1>15 DEF CloseQueue
<1>16. ASSUME NEW t \in Threads, CloseStore(t) PROVE RuntimeInv'
    BY <1>16 DEF CloseStore, Forget
<1>17. ASSUME NEW t \in Threads, NEW f \in Firings, Fire(t, f) PROVE RuntimeInv'
    BY <1>17 DEF Fire
<1>18. ASSUME NEW t \in Threads, Callback(t) PROVE RuntimeInv'
    BY <1>18 DEF Callback
<1>19. ASSUME NEW t \in Threads, Dispatched(t) PROVE RuntimeInv'
    BY <1>19 DEF Dispatched
<1>20. ASSUME NEW p \in Others, NEW r \in OtherRoots, OtherOpens(p, r) PROVE RuntimeInv'
    BY <1>20 DEF OtherOpens, Connect
<1>21. ASSUME NEW o \in Openers, Count(o) PROVE RuntimeInv'
    BY <1>21 DEF Count, Opened
<1>22. ASSUME NEW o \in Openers, InsertVersion(o) PROVE RuntimeInv'
    BY <1>22 DEF InsertVersion, Opened
<1>23. ASSUME NEW o \in Openers, VersionExists(o) PROVE RuntimeInv'
    <2>1. CASE ThreadBeaten(o)
        BY <2>1 DEF ThreadBeaten, Beaten, Return
    <2>2. CASE OtherBeaten(o)
        BY <2>2 DEF OtherBeaten, Beaten
    <2> QED
        BY <1>23, <2>1, <2>2, ExistsCases
<1>24. CASE UNCHANGED vars
    BY <1>24 DEF vars
<1>25. ASSUME NEW t \in Threads, SelftestPasses(t) PROVE RuntimeInv'
    BY <1>25 DEF SelftestPasses
<1>26. ASSUME NEW t \in Threads, CloseRaises(t) PROVE RuntimeInv'
    BY <1>26 DEF CloseRaises, Forget
<1>27. ASSUME NEW r \in writers, WriterEnds(r) PROVE RuntimeInv'
    BY <1>27 DEF WriterEnds
<1> QED
    BY <1>1, <1>2, <1>3, <1>4, <1>5, <1>6, <1>7, <1>8, <1>9, <1>10, <1>11, <1>12, <1>13, <1>14, <1>15, <1>16, <1>17, <1>18, <1>19, <1>20, <1>21, <1>22, <1>23, <1>24, <1>25, <1>26,
       <1>27 DEF Next, Step, Migrate

(* A step that leaves the dispatches alone: it closes no queue and only    *)
(* appends to the callbacks.                                               *)
Undisturbed ==
    /\ dispatchVars' = dispatchVars
    /\ \A t \in Threads : Dispatching(t)' <=> Dispatching(t)
    /\ queueOpen \subseteq queueOpen'
    /\ \A i \in 1..Len(hooks) : i \in 1..Len(hooks') /\ hooks'[i] = hooks[i]

LEMMA UndisturbedKeeps ==
    ASSUME NumbersOK, DispatchInv, Undisturbed PROVE DispatchInv'
<1>1. ASSUME NEW t \in Threads PROVE FiringHeld(t)' /\ LiveAhead(t)'
    BY DEF DispatchInv, FiringHeld, LiveAhead, Undisturbed, Dispatching, dispatchVars
<1> QED
    BY <1>1 DEF DispatchInv, Undisturbed, Dispatching, dispatchVars

(* A callback is passed over only when its queue takes no event.           *)
LEMMA DispatchStep ==
    ASSUME LabelsOK, NumbersOK, GotOK, LockInv, RuntimeInv, DispatchInv, [Next]_vars
    PROVE  DispatchInv'
<1> USE UndisturbedKeeps DEF Goto, Openers, LabelsOK, NumbersOK, GotOK, runtimeVars, schemaVars, callVars, dispatchVars
<1>1. ASSUME NEW t \in Threads, Register(t) PROVE Undisturbed
    BY <1>1 DEF Undisturbed, Dispatching, Register, Ask
<1>2. ASSUME NEW t \in Threads, Selftest(t) PROVE Undisturbed
    BY <1>2 DEF Undisturbed, Dispatching, Selftest
<1>3. ASSUME NEW t \in Threads, NEW r \in Roots, Command(t, r) PROVE Undisturbed
    BY <1>3 DEF Undisturbed, Dispatching, Command, Ask
<1>4. ASSUME NEW t \in Threads, NEW r \in Roots, Build(t, r) PROVE Undisturbed
    BY <1>4 DEF Undisturbed, Dispatching, Build, Ask
<1>5. ASSUME NEW t \in Threads, GetExisting(t) PROVE Undisturbed
    <2>1. CASE Return(t)
        BY <1>5, <2>1 DEF Undisturbed, Dispatching, GetExisting, Return
    <2>2. CASE HandOver(t, current)
        BY <1>5, <2>2 DEF Undisturbed, Dispatching, GetExisting, HandOver
    <2> QED
        BY <1>5, <2>1, <2>2, HandCases DEF Undisturbed, Dispatching, GetExisting
<1>6. ASSUME NEW t \in Threads, OpenStore(t) PROVE Undisturbed
    BY <1>6 DEF Undisturbed, Dispatching, OpenStore, Connect, Take
<1>7. ASSUME NEW t \in Threads, OpenFails(t) PROVE Undisturbed
    BY <1>7 DEF Undisturbed, Dispatching, OpenFails, Return
<1>8. ASSUME NEW t \in Threads, MakeRuntime(t) PROVE Undisturbed
    <2>1. CASE Return(t)
        BY <1>8, <2>1 DEF Undisturbed, Dispatching, MakeRuntime, Return
    <2>2. CASE HandOver(t, got[t])
        BY <1>8, <2>2 DEF Undisturbed, Dispatching, MakeRuntime, HandOver
    <2> QED
        BY <1>8, <2>1, <2>2, HandCases DEF Undisturbed, Dispatching, MakeRuntime
<1>9. ASSUME NEW t \in Threads, MakeFails(t) PROVE Undisturbed
    BY <1>9 DEF Undisturbed, Dispatching, MakeFails, Return
<1>10. ASSUME NEW t \in Threads, RegisterHook(t) PROVE Undisturbed
    BY <1>10 DEF Undisturbed, Dispatching, RegisterHook, Return
<1>11. ASSUME NEW t \in Threads, PutRow(t) PROVE Undisturbed
    BY <1>11 DEF Undisturbed, Dispatching, PutRow
<1>12. ASSUME NEW t \in Threads, SelftestFails(t) PROVE Undisturbed
    BY <1>12 DEF Undisturbed, Dispatching, SelftestFails
<1>13. ASSUME NEW t \in Threads, ResetNothing(t) PROVE Undisturbed
    BY <1>13 DEF Undisturbed, Dispatching, ResetNothing
<1>14. ASSUME NEW t \in Threads, Reset(t) PROVE Undisturbed
    BY <1>14 DEF Undisturbed, Dispatching, Reset, Take
<1>15. ASSUME NEW t \in Threads, CloseQueue(t) PROVE DispatchInv'
    <2>1. watched' = watched \ Running /\ \A u \in Threads : Dispatching(u)' <=> Dispatching(u)
        BY <1>15 DEF CloseQueue, Dispatching
    <2>2. \A u \in Threads : Dispatching(u) => firing[u] \notin watched'
        BY <2>1 DEF Running, DispatchInv, FiringHeld
    <2>3. UNCHANGED <<firing, at, status, records, hooks>>
        BY <1>15 DEF CloseQueue
    <2> QED
        BY <2>1, <2>2, <2>3 DEF DispatchInv, Dispatching, FiringHeld, LiveAhead
<1>16. ASSUME NEW t \in Threads, CloseStore(t) PROVE Undisturbed
    BY <1>16 DEF Undisturbed, Dispatching, CloseStore, Forget
<1>17. ASSUME NEW t \in Threads, NEW f \in Firings, Fire(t, f) PROVE DispatchInv'
    <2>1. status[f] = "new" /\ \A u \in Threads : Dispatching(u) => firing[u] # f /\ u # t
        BY <1>17 DEF Fire, DispatchInv, Dispatching, FiringHeld
    <2>2. /\ \A u \in Threads : u # t => firing'[u] = firing[u] /\ at'[u] = at[u] /\ (Dispatching(u)' <=> Dispatching(u))
          /\ firing'[t] = f /\ at'[t] = 1 /\ status'[f] = "running" /\ UNCHANGED <<records, hooks, queueOpen>>
          /\ \A g \in Firings : g # f => status'[g] = status[g]
        BY <1>17 DEF Fire, Dispatching
    <2>3. f \in watched' => \E i \in 1..Len(hooks) : 1 <= i /\ hooks[i] \in queueOpen
        BY <1>17, <2>1 DEF Fire, DispatchInv
    <2>4. watched' \subseteq watched \cup {f}
        BY <1>17 DEF Fire
    <2>5. \A u \in Threads : u # t /\ Dispatching(u) /\ firing[u] \in watched' => firing[u] \in watched
        BY <2>1, <2>4
    <2>6. \A u \in Threads : FiringHeld(u)'
        BY <2>1, <2>2 DEF DispatchInv, FiringHeld, Dispatching
    <2>7. \A u \in Threads : LiveAhead(u)'
        BY <2>1, <2>2, <2>3, <2>5 DEF DispatchInv, LiveAhead, Dispatching
    <2>8. \A g \in watched' : status'[g] # "new"
        BY <2>1, <2>2, <2>4 DEF DispatchInv, LabelsOK
    <2>9. ASSUME NEW a \in Threads, NEW b \in Threads,
                 Dispatching(a)', Dispatching(b)', firing'[a] = firing'[b]
          PROVE  a = b
        <3>1. Dispatching(a) /\ Dispatching(b) /\ firing[a] = firing[b] => a = b
            BY DEF DispatchInv
        <3> QED
            BY <2>9, <3>1, <2>1, <2>2 DEF Dispatching
    <2> QED
        BY <2>6, <2>7, <2>8, <2>9 DEF DispatchInv, Dispatching
<1>18. ASSUME NEW t \in Threads, Callback(t) PROVE DispatchInv'
    <2>0. LabelsOK'
        BY LabelsStep
    <2>1. Dispatching(t) /\ firing[t] \in Firings /\ at[t] \in 1..Len(hooks)
        BY <1>18 DEF Callback, Dispatching, DispatchInv, FiringHeld
    <2>2. /\ UNCHANGED <<pc, firing, status, watched, hooks, queueOpen>>
          /\ \A u \in Threads : u # t => at'[u] = at[u]
          /\ at'[t] = at[t] + 1
          /\ \A g \in Firings : records'[g] >= records[g]
        BY <1>18 DEF Callback
    <2>3. hooks[at[t]] \in queueOpen => records'[firing[t]] >= 1
        BY <1>18, <2>1 DEF Callback
    <2>4. \A u \in Threads : Dispatching(u) /\ firing[u] \in watched =>
              \/ records'[firing[u]] >= 1
              \/ \E i \in 1..Len(hooks) : at'[u] <= i /\ hooks[i] \in queueOpen
        <3> SUFFICES ASSUME NEW u \in Threads, Dispatching(u), firing[u] \in watched,
                            ~(records'[firing[u]] >= 1)
                     PROVE  \E i \in 1..Len(hooks) : at'[u] <= i /\ hooks[i] \in queueOpen
            OBVIOUS
        <3>1. ~(records[firing[u]] >= 1)
            BY <2>0, <2>1, <2>2 DEF DispatchInv, FiringHeld, LabelsOK
        <3>2. PICK i \in 1..Len(hooks) : at[u] <= i /\ hooks[i] \in queueOpen
            BY <3>1 DEF DispatchInv, LiveAhead
        <3>3. u = t => i # at[t]
            BY <2>3, <3>2
        <3>4. at'[u] <= i
            BY <2>1, <2>2, <3>2, <3>3 DEF LabelsOK
        <3> QED
            BY <3>2, <3>4
    <2>5. ASSUME NEW u \in Threads PROVE FiringHeld(u)'
        <3>1. FiringHeld(u) /\ at[u] \in Nat
            BY DEF DispatchInv, LabelsOK
        <3>2. at'[u] = at[u] \/ at'[u] = at[u] + 1
            BY <2>2
        <3> QED
            BY <2>2, <3>1, <3>2 DEF FiringHeld, Dispatching
    <2>6. \A u \in Threads : LiveAhead(u)'
        BY <2>2, <2>4 DEF LiveAhead, Dispatching
    <2> QED
        BY <2>2, <2>5, <2>6 DEF DispatchInv, Dispatching
<1>19. ASSUME NEW t \in Threads, Dispatched(t) PROVE DispatchInv'
    <2>1. /\ \A u \in Threads : u # t => firing'[u] = firing[u] /\ at'[u] = at[u] /\ (Dispatching(u)' <=> Dispatching(u))
          /\ ~Dispatching(t)' /\ UNCHANGED <<records, hooks, queueOpen, watched>>
          /\ \A g \in Firings : g # firing[t] => status'[g] = status[g]
        BY <1>19 DEF Dispatched, Dispatching
    <2>2. Dispatching(t) /\ \A u \in Threads : u # t /\ Dispatching(u) => firing[u] # firing[t]
        BY <1>19 DEF Dispatched, DispatchInv, Dispatching
    <2>3. \A g \in Firings : status'[g] = "new" => status[g] = "new"
        BY <1>19 DEF Dispatched
    <2>4. ASSUME NEW u \in Threads PROVE FiringHeld(u)' /\ LiveAhead(u)'
        <3>1. CASE u = t
            BY <2>1, <3>1 DEF FiringHeld, LiveAhead
        <3>2. CASE u # t
            <4>1. /\ firing'[u] = firing[u] /\ at'[u] = at[u] /\ (Dispatching(u)' <=> Dispatching(u))
                  /\ Dispatching(u) => firing[u] # firing[t]
                BY <2>1, <2>2, <3>2
            <4>2. FiringHeld(u) /\ LiveAhead(u)
                BY DEF DispatchInv
            <4>3. FiringHeld(u)'
                BY <2>1, <4>1, <4>2 DEF FiringHeld
            <4>4. LiveAhead(u)'
                BY <2>1, <4>1, <4>2 DEF LiveAhead
            <4> QED
                BY <4>3, <4>4
        <3> QED
            BY <3>1, <3>2
    <2>5. ASSUME NEW a \in Threads, NEW b \in Threads,
                 Dispatching(a)', Dispatching(b)', firing'[a] = firing'[b]
          PROVE  a = b
        <3>1. Dispatching(a) /\ Dispatching(b) /\ firing[a] = firing[b] => a = b
            BY DEF DispatchInv
        <3> QED
            BY <2>5, <3>1, <2>1, <2>2 DEF Dispatching
    <2>6. \A g \in watched' : status'[g] # "new"
        BY <2>1, <2>3 DEF DispatchInv, LabelsOK
    <2> QED
        BY <2>4, <2>5, <2>6 DEF DispatchInv, Dispatching
<1>20. ASSUME NEW p \in Others, NEW r \in OtherRoots, OtherOpens(p, r) PROVE Undisturbed
    BY <1>20 DEF Undisturbed, Dispatching, OtherOpens, Connect
<1>21. ASSUME NEW o \in Openers, Count(o) PROVE Undisturbed
    BY <1>21 DEF Undisturbed, Dispatching, Count, Opened
<1>22. ASSUME NEW o \in Openers, InsertVersion(o) PROVE Undisturbed
    <2>1. CASE o \in Threads
        BY <1>22, <2>1 DEF Undisturbed, Dispatching, InsertVersion, Opened
    <2>2. CASE ~(o \in Threads)
        BY <1>22, <2>2 DEF Undisturbed, Dispatching, InsertVersion, Opened
    <2> QED
        BY <2>1, <2>2
<1>23. ASSUME NEW o \in Openers, VersionExists(o) PROVE Undisturbed
    <2>1. CASE ThreadBeaten(o)
        BY <2>1 DEF Undisturbed, Dispatching, ThreadBeaten, Beaten, Return
    <2>2. CASE OtherBeaten(o)
        BY <2>2 DEF Undisturbed, Dispatching, OtherBeaten, Beaten
    <2> QED
        BY <1>23, <2>1, <2>2, ExistsCases
<1>24. CASE UNCHANGED vars
    BY <1>24 DEF vars, Undisturbed, Dispatching
<1>25. ASSUME NEW t \in Threads, SelftestPasses(t) PROVE Undisturbed
    BY <1>25 DEF Undisturbed, Dispatching, SelftestPasses
<1>26. ASSUME NEW t \in Threads, CloseRaises(t) PROVE Undisturbed
    BY <1>26 DEF Undisturbed, Dispatching, CloseRaises, Forget
<1>27. ASSUME NEW r \in writers, WriterEnds(r) PROVE Undisturbed
    BY <1>27 DEF Undisturbed, Dispatching, WriterEnds
<1> QED
    BY <1>1, <1>2, <1>3, <1>4, <1>5, <1>6, <1>7, <1>8, <1>9, <1>10, <1>11, <1>12, <1>13, <1>14, <1>15, <1>16, <1>17, <1>18, <1>19, <1>20, <1>21, <1>22, <1>23, <1>24, <1>25, <1>26,
       <1>27 DEF Next, Step, Migrate

(* A dispatch that ends has no live handler ahead of it.                   *)
LEMMA HarmlessStep ==
    ASSUME LabelsOK, NumbersOK, GotOK, DispatchInv, StaleHandlersHarmless, [Next]_vars
    PROVE  StaleHandlersHarmless'
<1> USE FreeAssumption DEF DispatchInv, FiringHeld, LiveAhead, StaleHandlersHarmless, Dispatching, Running, Goto, Openers, LabelsOK, NumbersOK, GotOK, runtimeVars, schemaVars, callVars, dispatchVars
<1>1. ASSUME NEW t \in Threads, Register(t) PROVE StaleHandlersHarmless'
    BY <1>1 DEF Register, Ask
<1>2. ASSUME NEW t \in Threads, Selftest(t) PROVE StaleHandlersHarmless'
    BY <1>2 DEF Selftest
<1>3. ASSUME NEW t \in Threads, NEW r \in Roots, Command(t, r) PROVE StaleHandlersHarmless'
    BY <1>3 DEF Command, Ask
<1>4. ASSUME NEW t \in Threads, NEW r \in Roots, Build(t, r) PROVE StaleHandlersHarmless'
    BY <1>4 DEF Build, Ask
<1>5. ASSUME NEW t \in Threads, GetExisting(t) PROVE StaleHandlersHarmless'
    BY <1>5 DEF GetExisting, Hand, Return
<1>6. ASSUME NEW t \in Threads, OpenStore(t) PROVE StaleHandlersHarmless'
    BY <1>6 DEF OpenStore, Connect, Take
<1>7. ASSUME NEW t \in Threads, OpenFails(t) PROVE StaleHandlersHarmless'
    BY <1>7 DEF OpenFails, Return
<1>8. ASSUME NEW t \in Threads, MakeRuntime(t) PROVE StaleHandlersHarmless'
    BY <1>8 DEF MakeRuntime, Hand, Return
<1>9. ASSUME NEW t \in Threads, MakeFails(t) PROVE StaleHandlersHarmless'
    BY <1>9 DEF MakeFails, Return
<1>10. ASSUME NEW t \in Threads, RegisterHook(t) PROVE StaleHandlersHarmless'
    BY <1>10 DEF RegisterHook, Return
<1>11. ASSUME NEW t \in Threads, PutRow(t) PROVE StaleHandlersHarmless'
    BY <1>11 DEF PutRow
<1>12. ASSUME NEW t \in Threads, SelftestFails(t) PROVE StaleHandlersHarmless'
    BY <1>12 DEF SelftestFails
<1>13. ASSUME NEW t \in Threads, ResetNothing(t) PROVE StaleHandlersHarmless'
    BY <1>13 DEF ResetNothing
<1>14. ASSUME NEW t \in Threads, Reset(t) PROVE StaleHandlersHarmless'
    BY <1>14 DEF Reset, Take
<1>15. ASSUME NEW t \in Threads, CloseQueue(t) PROVE StaleHandlersHarmless'
    BY <1>15 DEF CloseQueue
<1>16. ASSUME NEW t \in Threads, CloseStore(t) PROVE StaleHandlersHarmless'
    BY <1>16 DEF CloseStore, Forget
<1>17. ASSUME NEW t \in Threads, NEW f \in Firings, Fire(t, f) PROVE StaleHandlersHarmless'
    BY <1>17 DEF Fire
<1>18. ASSUME NEW t \in Threads, Callback(t) PROVE StaleHandlersHarmless'
    BY <1>18 DEF Callback
<1>19. ASSUME NEW t \in Threads, Dispatched(t) PROVE StaleHandlersHarmless'
    BY <1>19 DEF Dispatched
<1>20. ASSUME NEW p \in Others, NEW r \in OtherRoots, OtherOpens(p, r) PROVE StaleHandlersHarmless'
    BY <1>20 DEF OtherOpens, Connect
<1>21. ASSUME NEW o \in Openers, Count(o) PROVE StaleHandlersHarmless'
    BY <1>21 DEF Count, Opened
<1>22. ASSUME NEW o \in Openers, InsertVersion(o) PROVE StaleHandlersHarmless'
    BY <1>22 DEF InsertVersion, Opened
<1>23. ASSUME NEW o \in Openers, VersionExists(o) PROVE StaleHandlersHarmless'
    BY <1>23 DEF VersionExists, Return
<1>24. CASE UNCHANGED vars
    BY <1>24 DEF vars
<1>25. ASSUME NEW t \in Threads, SelftestPasses(t) PROVE StaleHandlersHarmless'
    BY <1>25 DEF SelftestPasses
<1>26. ASSUME NEW t \in Threads, CloseRaises(t) PROVE StaleHandlersHarmless'
    BY <1>26 DEF CloseRaises, Forget
<1>27. ASSUME NEW r \in writers, WriterEnds(r) PROVE StaleHandlersHarmless'
    BY <1>27 DEF WriterEnds
<1> QED
    BY <1>1, <1>2, <1>3, <1>4, <1>5, <1>6, <1>7, <1>8, <1>9, <1>10, <1>11, <1>12, <1>13, <1>14, <1>15, <1>16, <1>17, <1>18, <1>19, <1>20, <1>21, <1>22, <1>23, <1>24, <1>25, <1>26,
       <1>27 DEF Next, Step, Migrate

(* A step that registers nothing.                                          *)
HooksKept ==
    /\ Registering' \subseteq Registering /\ UNCHANGED <<hooks, registers>>
    /\ \A t \in Threads :
         /\ pc'[t] \in {"idle", "selftest", "reset", "closequeue", "closestore", "dispatch"} =>
              goal'[t] = "none"
         /\ pc'[t] = "hook" => goal'[t] = "register"

LEMMA HooksKeptKeeps ==
    ASSUME NumbersOK, LabelsOK, HooksInv, HooksKept PROVE HooksInv'
<1>1. Cardinality(Registering') <= Cardinality(Registering)
    BY FS_Subset DEF HooksInv, HooksKept
<1>2. IsFiniteSet(Registering')
    BY FS_Subset DEF HooksInv, HooksKept
<1>3. Cardinality(Registering') \in Nat /\ Cardinality(Registering) \in Nat
    BY <1>2, FS_CardinalityType DEF HooksInv
<1>4. Len(hooks) + Cardinality(Registering') <= registers
    BY <1>1, <1>3 DEF HooksInv, NumbersOK, LabelsOK
<1> QED
    BY <1>2, <1>4 DEF HooksInv, HooksKept

(* Each call of register() appends one handler, or none.                   *)
LEMMA HooksStep ==
    ASSUME LabelsOK, NumbersOK, GotOK, HooksInv, [Next]_vars
    PROVE  HooksInv'
<1> USE HooksKeptKeeps, FreeAssumption DEF Goto, Openers, LabelsOK, runtimeVars, schemaVars, callVars, dispatchVars
<1>1. ASSUME NEW t \in Threads, Register(t) PROVE HooksInv'
    <2>1. goal[t] = "none" /\ pc' = [pc EXCEPT ![t] = "get"] /\ goal' = [goal EXCEPT ![t] = "register"]
        BY <1>1 DEF Register, Ask, HooksInv
    <2>2. Registering' = Registering \cup {t} /\ t \notin Registering
        BY <2>1 DEF Registering
    <2>3. IsFiniteSet(Registering') /\ Cardinality(Registering') = Cardinality(Registering) + 1
        BY <2>2, FS_AddElement DEF HooksInv
    <2>4. Cardinality(Registering) \in Nat
        BY FS_CardinalityType DEF HooksInv
    <2>5. hooks' = hooks /\ registers' = registers + 1
        BY <1>1 DEF Register, Ask
    <2>6. Len(hooks') + Cardinality(Registering') <= registers'
        BY <2>3, <2>4, <2>5 DEF HooksInv, NumbersOK
    <2> QED
        BY <2>1, <2>3, <2>6 DEF HooksInv
<1>2. ASSUME NEW t \in Threads, Selftest(t) PROVE HooksKept
    BY <1>2 DEF HooksKept, HooksInv, Registering, Selftest
<1>3. ASSUME NEW t \in Threads, NEW r \in Roots, Command(t, r) PROVE HooksKept
    BY <1>3 DEF HooksKept, HooksInv, Registering, Command, Ask
<1>4. ASSUME NEW t \in Threads, NEW r \in Roots, Build(t, r) PROVE HooksKept
    BY <1>4 DEF HooksKept, HooksInv, Registering, Build, Ask
<1>5. ASSUME NEW t \in Threads, GetExisting(t) PROVE HooksKept
    <2>1. CASE Return(t)
        BY <1>5, <2>1 DEF HooksKept, HooksInv, Registering, GetExisting, Return
    <2>2. CASE HandOver(t, current)
        BY <1>5, <2>2 DEF HooksKept, HooksInv, Registering, GetExisting, HandOver
    <2> QED
        BY <1>5, <2>1, <2>2, HandCases DEF HooksKept, HooksInv, Registering, GetExisting
<1>6. ASSUME NEW t \in Threads, OpenStore(t) PROVE HooksKept
    BY <1>6 DEF HooksKept, HooksInv, Registering, OpenStore, Connect, Take
<1>7. ASSUME NEW t \in Threads, OpenFails(t) PROVE HooksKept
    BY <1>7 DEF HooksKept, HooksInv, Registering, OpenFails, Return
<1>8. ASSUME NEW t \in Threads, MakeRuntime(t) PROVE HooksKept
    <2>1. CASE Return(t)
        BY <1>8, <2>1 DEF HooksKept, HooksInv, Registering, MakeRuntime, Return
    <2>2. CASE HandOver(t, got[t])
        BY <1>8, <2>2 DEF HooksKept, HooksInv, Registering, MakeRuntime, HandOver
    <2> QED
        BY <1>8, <2>1, <2>2, HandCases DEF HooksKept, HooksInv, Registering, MakeRuntime
<1>9. ASSUME NEW t \in Threads, MakeFails(t) PROVE HooksKept
    BY <1>9 DEF HooksKept, HooksInv, Registering, MakeFails, Return
<1>10. ASSUME NEW t \in Threads, RegisterHook(t) PROVE HooksInv'
    <2>1. goal[t] = "register" /\ pc' = [pc EXCEPT ![t] = "idle"] /\ goal' = [goal EXCEPT ![t] = "none"]
        BY <1>10 DEF RegisterHook, Return, HooksInv
    <2>2. Registering' = Registering \ {t} /\ t \in Registering
        BY <2>1 DEF Registering
    <2>3. IsFiniteSet(Registering') /\ Cardinality(Registering') = Cardinality(Registering) - 1
        BY <2>2, FS_RemoveElement DEF HooksInv
    <2>4. Cardinality(Registering) \in Nat
        BY FS_CardinalityType DEF HooksInv
    <2>5. hooks' = Append(hooks, got[t]) /\ registers' = registers /\ got[t] \in 1..made
        BY <1>10 DEF RegisterHook, Return, GotOK, Mine
    <2>6. Len(hooks') = Len(hooks) + 1 /\ Len(hooks) \in Nat
        BY <2>5 DEF NumbersOK
    <2>7. Len(hooks') + Cardinality(Registering') <= registers'
        BY <2>3, <2>4, <2>5, <2>6 DEF HooksInv
    <2> QED
        BY <2>1, <2>3, <2>7 DEF HooksInv
<1>11. ASSUME NEW t \in Threads, PutRow(t) PROVE HooksKept
    BY <1>11 DEF HooksKept, HooksInv, Registering, PutRow
<1>12. ASSUME NEW t \in Threads, SelftestFails(t) PROVE HooksKept
    BY <1>12 DEF HooksKept, HooksInv, Registering, SelftestFails
<1>13. ASSUME NEW t \in Threads, ResetNothing(t) PROVE HooksKept
    BY <1>13 DEF HooksKept, HooksInv, Registering, ResetNothing
<1>14. ASSUME NEW t \in Threads, Reset(t) PROVE HooksKept
    BY <1>14 DEF HooksKept, HooksInv, Registering, Reset, Take
<1>15. ASSUME NEW t \in Threads, CloseQueue(t) PROVE HooksKept
    BY <1>15 DEF HooksKept, HooksInv, Registering, CloseQueue
<1>16. ASSUME NEW t \in Threads, CloseStore(t) PROVE HooksKept
    BY <1>16 DEF HooksKept, HooksInv, Registering, CloseStore, Forget
<1>17. ASSUME NEW t \in Threads, NEW f \in Firings, Fire(t, f) PROVE HooksKept
    BY <1>17 DEF HooksKept, HooksInv, Registering, Fire
<1>18. ASSUME NEW t \in Threads, Callback(t) PROVE HooksKept
    BY <1>18 DEF HooksKept, HooksInv, Registering, Callback
<1>19. ASSUME NEW t \in Threads, Dispatched(t) PROVE HooksKept
    BY <1>19 DEF HooksKept, HooksInv, Registering, Dispatched
<1>20. ASSUME NEW p \in Others, NEW r \in OtherRoots, OtherOpens(p, r) PROVE HooksKept
    BY <1>20 DEF HooksKept, HooksInv, Registering, OtherOpens, Connect
<1>21. ASSUME NEW o \in Openers, Count(o) PROVE HooksKept
    BY <1>21 DEF HooksKept, HooksInv, Registering, Count, Opened
<1>22. ASSUME NEW o \in Openers, InsertVersion(o) PROVE HooksKept
    <2>1. CASE o \in Threads
        BY <1>22, <2>1 DEF HooksKept, HooksInv, Registering, InsertVersion, Opened
    <2>2. CASE ~(o \in Threads)
        BY <1>22, <2>2 DEF HooksKept, HooksInv, Registering, InsertVersion, Opened
    <2> QED
        BY <2>1, <2>2
<1>23. ASSUME NEW o \in Openers, VersionExists(o) PROVE HooksKept
    <2>1. CASE ThreadBeaten(o)
        BY <2>1 DEF HooksKept, HooksInv, Registering, ThreadBeaten, Beaten, Return
    <2>2. CASE OtherBeaten(o)
        BY <2>2 DEF HooksKept, HooksInv, Registering, OtherBeaten, Beaten
    <2> QED
        BY <1>23, <2>1, <2>2, ExistsCases
<1>24. CASE UNCHANGED vars
    BY <1>24 DEF vars, HooksInv, HooksKept, Registering
<1>25. ASSUME NEW t \in Threads, SelftestPasses(t) PROVE HooksKept
    BY <1>25 DEF HooksInv, HooksKept, Registering, SelftestPasses
<1>26. ASSUME NEW t \in Threads, CloseRaises(t) PROVE HooksKept
    BY <1>26 DEF HooksInv, HooksKept, Registering, CloseRaises, Forget
<1>27. ASSUME NEW r \in writers, WriterEnds(r) PROVE HooksKept
    BY <1>27 DEF HooksInv, HooksKept, Registering, WriterEnds
<1> QED
    BY <1>1, <1>2, <1>3, <1>4, <1>5, <1>6, <1>7, <1>8, <1>9, <1>10, <1>11, <1>12, <1>13, <1>14, <1>15, <1>16, <1>17, <1>18, <1>19, <1>20, <1>21, <1>22, <1>23, <1>24, <1>25, <1>26,
       <1>27 DEF Next, Step, Migrate

(* The invariant holds initially and every step keeps it.                  *)
LEMMA InitInd == Init => IndInv
<1> SUFFICES ASSUME Init PROVE IndInv
    OBVIOUS
<1> USE FreeAssumption, RootAssumption DEF Init, Openers
<1>1. MaxRuntimes \in Nat /\ MaxRegisters \in Nat /\ MaxBuilds \in Nat
    BY BoundAssumption
<1>0. Mine = {}
    BY DEF Mine
<1>2. LabelsOK /\ NumbersOK /\ GotOK
    BY <1>0, <1>1 DEF LabelsOK, NumbersOK, GotOK, Making
<1>3. Registering = {} /\ IsFiniteSet(Registering) /\ Cardinality(Registering) = 0
    BY FS_EmptySet DEF Registering
<1>4. HooksInv
    BY <1>3 DEF HooksInv
<1>5. LockInv /\ RuntimeInv
    BY DEF LockInv, Locked, RuntimeInv, HolderInv, NothingOpen, Live, Stored, Making
<1>6. RaceInv /\ OpenRaceDecided
    BY DEF RaceInv, OpenRaceDecided
<1>7. RowsInv
    BY <1>0, FS_EmptySet DEF RowsInv
<1>8. DispatchInv /\ StaleHandlersHarmless
    BY DEF DispatchInv, FiringHeld, LiveAhead, Dispatching, StaleHandlersHarmless
<1>9. TypeOK
    BY <1>2, TypeParts, RootAssumption
<1> QED
    BY <1>4, <1>5, <1>6, <1>7, <1>8, <1>9 DEF IndInv

LEMMA StepInd == IndInv /\ [Next]_vars => IndInv'
<1> SUFFICES ASSUME IndInv, [Next]_vars PROVE IndInv'
    OBVIOUS
<1>1. LabelsOK /\ NumbersOK /\ GotOK
    BY TypeParts DEF IndInv
<1>2. LabelsOK' /\ NumbersOK' /\ GotOK'
    BY <1>1, LabelsStep, NumbersStep, GotStep DEF IndInv
<1>3. HooksInv'
    BY <1>1, HooksStep DEF IndInv
<1>4. Len(hooks') <= registers'
    <2>1. Cardinality(Registering') \in Nat
        BY <1>3, FS_CardinalityType DEF HooksInv
    <2>2. Len(hooks') + Cardinality(Registering') <= registers'
        BY <1>3 DEF HooksInv
    <2> QED
        BY <1>2, <2>1, <2>2 DEF NumbersOK, LabelsOK
<1>5. TypeOK'
    BY <1>2, <1>4 DEF TypeOK, LabelsOK, NumbersOK, GotOK
<1>6. LockInv' /\ RuntimeInv' /\ RaceInv' /\ OpenRaceDecided' /\ RowsInv'
    BY <1>1, LockStep, RuntimeStep, RaceStep, ClashStep, RowsStep DEF IndInv
<1>7. DispatchInv' /\ StaleHandlersHarmless'
    BY <1>1, DispatchStep, HarmlessStep DEF IndInv
<1> QED
    BY <1>3, <1>5, <1>6, <1>7 DEF IndInv

THEOREM Inductive == Spec => []IndInv
  BY InitInd, StepInd, PTL DEF Spec

-----------------------------------------------------------------------------
(* Types, in particular that no handler is registered but by a call of     *)
(* register() and that every runtime somebody holds has been made.         *)
THEOREM TypeCorrect == Spec => []TypeOK
<1>1. IndInv => TypeOK
    BY DEF IndInv
<1> QED
    BY <1>1, Inductive, PTL

(* However many threads get, create and reset the runtime, fail to, or run *)
(* self-tests, and however long the writers of closed queues live on: only *)
(* _RUNTIME takes events, and of the stores of get_runtime whose close()   *)
(* did not raise at most one is open, which no other writer can write to.  *)
THEOREM OneRuntimeCorrect == Spec => []OneRuntime
<1>1. IndInv => OneRuntime
    <2> SUFFICES ASSUME IndInv PROVE OneRuntime
        OBVIOUS
    <2> USE DEF Live, Stored
    <2>1. Stored = {} \/ (\E r : Stored = {r}) => Cardinality(Stored) <= 1
        <3> HIDE DEF Stored
        <3>1. Stored = {} => Cardinality(Stored) = 0
            BY FS_EmptySet, Zenon
        <3>2. (\E r : Stored = {r}) => Cardinality(Stored) = 1
            BY FS_Singleton, Zenon
        <3> QED
            BY <3>1, <3>2
    <2>2. \/ Live \subseteq {current} /\ Stored \subseteq {current}
          \/ \E t \in Threads : /\ Making(t) /\ Live = {} /\ Stored = {got[t]}
                               /\ got[t] \notin writers
        <3> HIDE DEF Live, Stored
        <3>1. CASE lock = Free
            BY <3>1 DEF IndInv, RuntimeInv, HolderInv, NothingOpen, RuntimeOpen
        <3>2. CASE lock # Free
            <4>1. PICK t \in Threads : lock = t
                BY <3>2 DEF IndInv, TypeOK
            <4>2. Making(t) \/ pc[t] \in {"closequeue", "closestore"}
                BY <4>1 DEF IndInv, LockInv, Locked, Making
            <4> QED
                BY <4>2 DEF IndInv, RuntimeInv, HolderInv, RuntimeOpen
        <3> QED
            BY <3>1, <3>2
    <2>3. CASE Live \subseteq {current} /\ Stored \subseteq {current}
        <3>1. Cardinality(Stored) <= 1
            BY <2>1, <2>3
        <3> QED
            BY <2>3, <3>1 DEF OneRuntime
    <2>4. CASE \E t \in Threads : /\ Making(t) /\ Live = {} /\ Stored = {got[t]}
                                 /\ got[t] \notin writers
        <3>1. PICK t \in Threads : /\ Making(t) /\ Live = {} /\ Stored = {got[t]}
                                   /\ got[t] \notin writers
            BY <2>4
        <3>2. Cardinality(Stored) <= 1
            BY <2>1, <3>1
        <3>3. got[t] \in {got[u] : u \in {v \in Threads : Making(v)}}
            BY <3>1
        <3> QED
            BY <3>1, <3>2, <3>3 DEF OneRuntime
    <2> QED
        BY <2>2, <2>3, <2>4
<1> QED
    BY <1>1, Inductive, PTL

(* A runtime that get_runtime hands out is open, and its state.db has its  *)
(* version row.                                                            *)
THEOREM CurrentCorrect == Spec => []CurrentUsable
<1>1. IndInv => CurrentUsable
    BY DEF IndInv, RuntimeInv, HolderInv, NothingOpen, RuntimeOpen, Live, Stored, CurrentUsable
<1> QED
    BY <1>1, Inductive, PTL

(* An open fails on the version row only when it raced another, which won. *)
THEOREM RaceCorrect == Spec => []OpenRaceDecided
<1>1. IndInv => OpenRaceDecided
    BY DEF IndInv
<1> QED
    BY <1>1, Inductive, PTL

(* A dataset's row is in the state.db of its file's root unless the        *)
(* process has been told two roots, however often the runtime is reset.    *)
THEOREM RowsCorrect == Spec => []RowsBesideFiles
<1>1. IndInv => RowsBesideFiles
    <2> SUFFICES ASSUME IndInv, NEW d \in rows, d.file # d.row
                 PROVE  Cardinality(asked) > 1
        BY DEF RowsBesideFiles
    <2>1. IsFiniteSet(asked) /\ {d.file, d.row} \subseteq asked
        BY DEF IndInv, RowsInv
    <2>2. Cardinality({d.file, d.row}) = 2
        <3>1. IsFiniteSet({d.file}) /\ Cardinality({d.file}) = 1
            BY FS_Singleton
        <3>2. {d.file, d.row} = {d.file} \cup {d.row} /\ d.row \notin {d.file}
            OBVIOUS
        <3> QED
            BY <3>1, <3>2, FS_AddElement
    <2>3. Cardinality(asked) >= 2 /\ Cardinality(asked) \in Nat
        BY <2>1, <2>2, FS_Subset, FS_CardinalityType
    <2> QED
        BY <2>3
<1> QED
    BY <1>1, Inductive, PTL

(* A firing that began with a live handler registered and saw no reset is  *)
(* recorded, however many stale handlers come before it.                   *)
THEOREM StaleCorrect == Spec => []StaleHandlersHarmless
<1>1. IndInv => StaleHandlersHarmless
    BY DEF IndInv
<1> QED
    BY <1>1, Inductive, PTL

=============================================================================
