-------------------------- MODULE PluginLifecycle --------------------------
(***************************************************************************)
(* The process-wide runtime of runtime.py and its registration with the    *)
(* host (plugin.py): register() and the commands get the runtime, creating *)
(* it on first use, a self-test that passes ends with reset_runtime, which *)
(* closes and forgets it, and the host calls every registered callback     *)
(* when a hook fires.  A new runtime opens the state.db of a root, which   *)
(* other processes may be opening for the first time as well.              *)
(*                                                                         *)
(* Runtimes are numbered in the order they are made; number 0 stands for   *)
(* None.  A self-test makes one of its own, in a temporary root.  The hooks*)
(* are all registered alike, so one of them is followed.                   *)
(* What a runtime's queue and store do is in ObservePipeline; here a queue *)
(* takes an event, and a store a row, exactly while it is open, and the    *)
(* writer thread of a queue may live on for any time after its close().    *)
(***************************************************************************)
EXTENDS Integers, Sequences, FiniteSets

CONSTANTS
    Threads,      \* threads of the host process
    Others,       \* other processes, each of which opens one store
    Roots,        \* the state roots
    Home,         \* the root of a process that is told no other
    Temp,         \* stands for the directories self-tests make, each a new one
    Firings,      \* the hook firings of the run, each dispatched once
    OtherRoots,   \* bound: the roots the other processes open
    MaxRuntimes,  \* bound: how many runtimes are made
    MaxRegisters, \* bound: how often the host calls register()
    MaxBuilds,    \* bound: how many datasets are built
    Free          \* nobody holds runtime._lock, nobody made a version row

Openers == Threads \cup Others

ASSUME FreeAssumption == Free \notin Openers /\ Threads \cap Others = {}
ASSUME RootAssumption == Home \in Roots /\ Temp \notin Roots /\ OtherRoots \subseteq Roots
ASSUME BoundAssumption == {MaxRuntimes, MaxRegisters, MaxBuilds} \subseteq Nat

VARIABLES
    lock,       \* the holder of runtime._lock
    current,    \* _RUNTIME
    made,       \* how many runtimes exist
    queueOpen,  \* the runtimes whose queue is not closed
    storeOpen,  \* the runtimes whose store is open
    rootOf,     \* the root of each runtime
    writers,    \* the runtimes whose writer thread is alive
    raised,     \* history: the runtimes whose close() raised
    version,    \* root -> who put the row into schema_versions, or Free
    hooks,      \* the runtimes whose handlers the host calls, in order
    registers,  \* how often register() was called
    builds,     \* how many datasets were built
    rows,       \* the datasets stored, [file, row]: the roots these are in
    pc,         \* where each thread and each other process is
    goal,       \* what a thread wants the runtime for
    want,       \* the root each of them was told
    got,        \* the runtime get_runtime returned to a thread
    firing,     \* the firing a thread dispatches
    at,         \* the index of the callback it calls next
    status,     \* how far each firing is: "new", "running" or "done"
    asked,      \* history: the roots this process was told
    fresh,      \* history: whose open, under way or failed on the version row,
                \*   began before the root had one
    clashed,    \* history: whose open of which root failed on the version row
    records,    \* history: how many events a firing put into an open queue
    watched     \* history: the firings that began with a live handler among
                \*   the registered ones and saw no runtime close

runtimeVars  == <<current, made, queueOpen, storeOpen, rootOf, writers, raised>>
schemaVars   == <<version, fresh, clashed>>
callVars     == <<goal, want, got, asked, registers, builds, rows>>
dispatchVars == <<firing, at, status, records, watched>>
vars == <<lock, runtimeVars, schemaVars, hooks, pc, callVars, dispatchVars>>

Running == {f \in Firings : status[f] = "running"}

Init ==
    /\ lock = Free
    /\ current = 0 /\ made = 0
    /\ queueOpen = {} /\ storeOpen = {} /\ rootOf = <<>>
    /\ writers = {} /\ raised = {}
    /\ version = [r \in Roots |-> Free]
    /\ fresh = {} /\ clashed = {}
    /\ hooks = <<>>
    /\ registers = 0 /\ builds = 0
    /\ rows = {} /\ asked = {}
    /\ pc = [o \in Openers |-> "idle"]
    /\ goal = [t \in Threads |-> "none"]
    /\ want = [o \in Openers |-> Home]
    /\ got = [t \in Threads |-> 0]
    /\ firing = [t \in Threads |-> "none"]
    /\ at = [t \in Threads |-> 0]
    /\ status = [f \in Firings |-> "new"]
    /\ records = [f \in Firings |-> 0]
    /\ watched = {}

Goto(o, label) == pc' = [pc EXCEPT ![o] = label]
TakeUnguarded(t) == lock' = t

Take(t) == lock = Free /\ lock' = t

(* The thread returns to the host, or its command ends.                    *)
Return(t) ==
    /\ Goto(t, "idle")
    /\ goal' = [goal EXCEPT ![t] = "none"]
    /\ want' = [want EXCEPT ![t] = Home]
    /\ got' = [got EXCEPT ![t] = 0]
    /\ UNCHANGED <<asked, registers, builds, rows>>

-----------------------------------------------------------------------------
(* register(), and the commands run with a root.  register() passes its    *)
(* default configuration, which is safe, so it never refuses.              *)

Ask(t, purpose, r) ==
    /\ pc[t] = "idle"
    /\ goal' = [goal EXCEPT ![t] = purpose]
    /\ want' = [want EXCEPT ![t] = r]
    /\ asked' = asked \cup {r}
    /\ Goto(t, "get")
    /\ UNCHANGED <<lock, runtimeVars, schemaVars, hooks, got, rows, dispatchVars>>

Register(t) ==
    /\ registers < MaxRegisters
    /\ registers' = registers + 1
    /\ Ask(t, "register", Home)
    /\ UNCHANGED builds

(* status, doctor, integrity and the rest, which only use the runtime.     *)
Command(t, r) ==
    /\ Ask(t, "command", r)
    /\ UNCHANGED <<registers, builds>>

(* dataset build: its file is written below the root the command is told,  *)
(* before the runtime is asked for.                                        *)
Build(t, r) ==
    /\ builds < MaxBuilds
    /\ builds' = builds + 1
    /\ Ask(t, "build", r)
    /\ UNCHANGED registers

-----------------------------------------------------------------------------
(* get_runtime.  A runtime that exists is handed out whatever root the     *)
(* caller was told.                                                        *)

Hand(t, r) ==
    IF goal[t] = "command" THEN Return(t)
    ELSE /\ got' = [got EXCEPT ![t] = r]
         /\ Goto(t, IF goal[t] = "register" THEN "hook" ELSE "row")
         /\ UNCHANGED <<goal, want, asked, registers, builds, rows>>

GetExisting(t) ==
    /\ pc[t] = "get" /\ lock = Free /\ current # 0
    /\ Hand(t, current)
    /\ UNCHANGED <<lock, runtimeVars, schemaVars, hooks, dispatchVars>>

(* No runtime yet: BilevelStore and BilevelRuntime are made under the lock.*)
(* The store connects and runs schema.sql, which changes nothing where it  *)
(* ran before.                                                             *)
Connect(o, r) ==
    /\ fresh' = IF version[r] = Free THEN fresh \cup {o} ELSE fresh \ {o}
    /\ clashed' = clashed \ ({o} \X Roots)
    /\ Goto(o, "count")
    /\ UNCHANGED version

(* Mutation: the root of the first caller is taken for the default one.    *)
OpenStoreAtHome(t) ==
    /\ pc[t] = "get" /\ current = 0 /\ made < MaxRuntimes
    /\ Take(t)
    /\ made' = made + 1
    /\ storeOpen' = storeOpen \cup {made + 1}
    /\ rootOf' = Append(rootOf, Home)
    /\ got' = [got EXCEPT ![t] = made + 1]
    /\ Connect(t, Home)
    /\ UNCHANGED <<current, queueOpen, writers, raised, hooks, goal, want, asked,
                   registers, builds, rows, dispatchVars>>

OpenStore(t) ==
    /\ pc[t] = "get" /\ current = 0 /\ made < MaxRuntimes
    /\ Take(t)
    /\ made' = made + 1
    /\ storeOpen' = storeOpen \cup {made + 1}
    /\ rootOf' = Append(rootOf, want[t])
    /\ got' = [got EXCEPT ![t] = made + 1]
    /\ Connect(t, want[t])
    /\ UNCHANGED <<current, queueOpen, writers, raised, hooks, goal, want, asked,
                   registers, builds, rows, dispatchVars>>

(* The store cannot be opened: the caller gets the exception.              *)
OpenFails(t) ==
    /\ pc[t] = "get" /\ lock = Free /\ current = 0
    /\ Return(t)
    /\ UNCHANGED <<lock, runtimeVars, schemaVars, hooks, dispatchVars>>

(* Another process, a command of its own, opens the store of a root.       *)
OtherOpens(p, r) ==
    /\ p \in Others /\ pc[p] = "idle"
    /\ want' = [want EXCEPT ![p] = r]
    /\ Connect(p, r)
    /\ UNCHANGED <<lock, runtimeVars, hooks, goal, got, asked, registers, builds,
                   rows, dispatchVars>>

-----------------------------------------------------------------------------
(* BilevelStore._migrate: count the versions, and insert the first.  Each  *)
(* is a transaction of its own, so another process may come between.       *)

Opened(o) ==
    /\ Goto(o, IF o \in Threads THEN "make" ELSE "ready")
    /\ fresh' = fresh \ {o}

(* Mutation: the version row is inserted without looking for it.           *)
CountIgnored(o) ==
    /\ pc[o] = "count"
    /\ Goto(o, "insert")
    /\ UNCHANGED <<lock, runtimeVars, schemaVars, hooks, callVars, dispatchVars>>

Count(o) ==
    /\ pc[o] = "count"
    /\ IF version[want[o]] = Free THEN Goto(o, "insert") /\ UNCHANGED fresh
                                  ELSE Opened(o)
    /\ UNCHANGED <<lock, runtimeVars, version, clashed, hooks, callVars, dispatchVars>>

InsertVersion(o) ==
    /\ pc[o] = "insert" /\ version[want[o]] = Free
    /\ version' = [version EXCEPT ![want[o]] = o]
    /\ Opened(o)
    /\ UNCHANGED <<lock, runtimeVars, clashed, hooks, callVars, dispatchVars>>

(* version is the primary key: the constructor raises, and the connection, *)
(* which nothing refers to any more, is closed.                            *)
VersionExists(o) ==
    /\ pc[o] = "insert" /\ version[want[o]] # Free
    /\ clashed' = clashed \cup {<<o, want[o]>>}
    /\ IF o \in Threads
       THEN /\ storeOpen' = storeOpen \ {got[o]}
            /\ lock' = Free
            /\ Return(o)
       ELSE /\ Goto(o, "failed")
            /\ UNCHANGED <<lock, storeOpen, callVars>>
    /\ UNCHANGED <<current, made, queueOpen, rootOf, writers, raised, version,
                   fresh, hooks, dispatchVars>>

-----------------------------------------------------------------------------
(* BilevelRuntime: put_purity_registry, then the queue and its writer.     *)

MakeRuntime(t) ==
    /\ pc[t] = "make"
    /\ queueOpen' = queueOpen \cup {got[t]}
    /\ writers' = writers \cup {got[t]}
    /\ current' = got[t]
    /\ lock' = Free
    /\ Hand(t, got[t])
    /\ UNCHANGED <<made, storeOpen, rootOf, raised, schemaVars, hooks, dispatchVars>>

(* put_purity_registry or the queue's constructor raises: no runtime, and  *)
(* the store, which nothing refers to any more, is finalised.              *)
MakeFails(t) ==
    /\ pc[t] = "make"
    /\ storeOpen' = storeOpen \ {got[t]}
    /\ lock' = Free
    /\ Return(t)
    /\ UNCHANGED <<current, made, queueOpen, rootOf, writers, raised, schemaVars,
                   hooks, dispatchVars>>

RegisterHook(t) ==
    /\ pc[t] = "hook"
    /\ hooks' = Append(hooks, got[t])
    /\ Return(t)
    /\ UNCHANGED <<lock, runtimeVars, schemaVars, dispatchVars>>

(* put_dataset_manifest, which raises when the store has been closed since.*)
PutRow(t) ==
    /\ pc[t] = "row"
    /\ rows' = IF got[t] \notin storeOpen THEN rows
               ELSE rows \cup {[file |-> want[t], row |-> rootOf[got[t]]]}
    /\ goal' = [goal EXCEPT ![t] = "none"]
    /\ want' = [want EXCEPT ![t] = Home]
    /\ got' = [got EXCEPT ![t] = 0]
    /\ Goto(t, "idle")
    /\ UNCHANGED <<lock, runtimeVars, schemaVars, hooks, asked, registers, builds,
                   dispatchVars>>

-----------------------------------------------------------------------------
(* selftest: it works on a store and a runtime of its own, in a temporary  *)
(* root, and at the end it resets the one of the process.                  *)

(* Nobody closes the queue the self-test makes, so its writer never ends.  *)
Selftest(t) ==
    /\ pc[t] = "idle" /\ made < MaxRuntimes
    /\ made' = made + 1
    /\ rootOf' = Append(rootOf, Temp)
    /\ queueOpen' = queueOpen \cup {made + 1}
    /\ storeOpen' = storeOpen \cup {made + 1}
    /\ writers' = writers \cup {made + 1}
    /\ got' = [got EXCEPT ![t] = made + 1]
    /\ Goto(t, "selftest")
    /\ UNCHANGED <<lock, current, raised, schemaVars, hooks, goal, want, asked,
                   registers, builds, rows, dispatchVars>>

(* A check fails: the exception passes by the close of the store too, and  *)
(* the writer thread keeps the runtime from being finalised.               *)
SelftestFails(t) ==
    /\ pc[t] = "selftest"
    /\ Goto(t, "idle")
    /\ got' = [got EXCEPT ![t] = 0]
    /\ UNCHANGED <<lock, runtimeVars, schemaVars, hooks, goal, want, asked,
                   registers, builds, rows, dispatchVars>>

SelftestPasses(t) ==
    /\ pc[t] = "selftest"
    /\ storeOpen' = storeOpen \ {got[t]}
    /\ got' = [got EXCEPT ![t] = 0]
    /\ Goto(t, "reset")
    /\ UNCHANGED <<lock, current, made, queueOpen, rootOf, writers, raised,
                   schemaVars, hooks, goal, want, asked, registers, builds, rows,
                   dispatchVars>>

-----------------------------------------------------------------------------
(* reset_runtime closes the queue, then the store, then forgets the        *)
(* runtime, all under the lock.                                            *)

ResetNothing(t) ==
    /\ pc[t] = "reset" /\ lock = Free /\ current = 0
    /\ Goto(t, "idle")
    /\ UNCHANGED <<lock, runtimeVars, schemaVars, hooks, callVars, dispatchVars>>

Reset(t) ==
    /\ pc[t] = "reset" /\ current # 0
    /\ Take(t)
    /\ Goto(t, "closequeue")
    /\ UNCHANGED <<runtimeVars, schemaVars, hooks, callVars, dispatchVars>>

(* queue.close() refuses further events at its first step.                 *)
CloseQueue(t) ==
    /\ pc[t] = "closequeue"
    /\ queueOpen' = queueOpen \ {current}
    /\ watched' = watched \ Running
    /\ Goto(t, "closestore")
    /\ UNCHANGED <<lock, current, made, storeOpen, rootOf, writers, raised,
                   schemaVars, hooks, callVars, firing, at, status, records>>

(* Its writer ends some time after that, while close() flushes (2 s) and   *)
(* joins (1 s) or after it has given up.                                   *)
WriterEnds(r) ==
    /\ r \in writers \ queueOpen
    /\ writers' = writers \ {r}
    /\ UNCHANGED <<lock, current, made, queueOpen, storeOpen, rootOf, raised,
                   schemaVars, hooks, pc, callVars, dispatchVars>>

Forget(t) ==
    /\ pc[t] = "closestore"
    /\ current' = 0
    /\ lock' = Free
    /\ Goto(t, "idle")
    /\ UNCHANGED <<made, queueOpen, rootOf, writers, schemaVars, hooks, callVars,
                   dispatchVars>>

(* queue.close() is over, whether or not the writer ended.                 *)
CloseStore(t) ==
    /\ Forget(t)
    /\ storeOpen' = storeOpen \ {current}
    /\ UNCHANGED raised

(* Mutation: an exception of close() leaves _RUNTIME as it is.             *)
CloseRaisesUncaught(t) ==
    /\ pc[t] = "closestore"
    /\ raised' = raised \cup {current}
    /\ lock' = Free
    /\ Goto(t, "idle")
    /\ UNCHANGED <<current, made, queueOpen, storeOpen, rootOf, writers,
                   schemaVars, hooks, callVars, dispatchVars>>

(* An exception of queue.close(), which passes by store.close(), or of     *)
(* store.close() is swallowed: the store stays open, _RUNTIME is forgotten.*)
CloseRaises(t) ==
    /\ Forget(t)
    /\ raised' = raised \cup {current}
    /\ UNCHANGED storeOpen

-----------------------------------------------------------------------------
(* The host dispatches a hook: each callback in turn, wrapped in _safe_hook *)
(* so that the next one runs whatever happens.  _emit drops the event when *)
(* the queue of the handler's runtime is closed.  A hook that fires before *)
(* any handler is registered calls nothing.                                *)

Fire(t, f) ==
    /\ pc[t] = "idle" /\ status[f] = "new" /\ hooks # <<>>
    /\ status' = [status EXCEPT ![f] = "running"]
    /\ firing' = [firing EXCEPT ![t] = f]
    /\ at' = [at EXCEPT ![t] = 1]
    /\ watched' = IF \E i \in DOMAIN hooks : hooks[i] \in queueOpen
                  THEN watched \cup {f} ELSE watched
    /\ Goto(t, "dispatch")
    /\ UNCHANGED <<lock, runtimeVars, schemaVars, hooks, callVars, records>>

(* Mutation: a callback that raises ends the dispatch.                     *)
CallbackUnsafe(t) ==
    /\ pc[t] = "dispatch" /\ at[t] <= Len(hooks)
    /\ IF hooks[at[t]] \in queueOpen
       THEN /\ records' = [records EXCEPT ![firing[t]] = @ + 1]
            /\ at' = [at EXCEPT ![t] = @ + 1]
       ELSE /\ at' = [at EXCEPT ![t] = Len(hooks) + 1]
            /\ UNCHANGED records
    /\ UNCHANGED <<lock, runtimeVars, schemaVars, hooks, callVars, pc, firing, status, watched>>

Callback(t) ==
    /\ pc[t] = "dispatch" /\ at[t] <= Len(hooks)
    /\ records' = IF hooks[at[t]] \in queueOpen
                  THEN [records EXCEPT ![firing[t]] = @ + 1] ELSE records
    /\ at' = [at EXCEPT ![t] = @ + 1]
    /\ UNCHANGED <<lock, runtimeVars, schemaVars, hooks, callVars, pc, firing, status, watched>>

Dispatched(t) ==
    /\ pc[t] = "dispatch" /\ at[t] > Len(hooks)
    /\ status' = [status EXCEPT ![firing[t]] = "done"]
    /\ firing' = [firing EXCEPT ![t] = "none"]
    /\ at' = [at EXCEPT ![t] = 0]
    /\ Goto(t, "idle")
    /\ UNCHANGED <<lock, runtimeVars, schemaVars, hooks, callVars, records, watched>>

-----------------------------------------------------------------------------
Step(t) ==
    \/ Register(t) \/ Selftest(t)
    \/ \E r \in Roots : Command(t, r) \/ Build(t, r)
    \/ GetExisting(t) \/ OpenStore(t) \/ OpenFails(t)
    \/ MakeRuntime(t) \/ MakeFails(t) \/ RegisterHook(t) \/ PutRow(t)
    \/ SelftestFails(t) \/ SelftestPasses(t) \/ ResetNothing(t) \/ Reset(t)
    \/ CloseQueue(t) \/ CloseStore(t) \/ CloseRaises(t)
    \/ (\E f \in Firings : Fire(t, f)) \/ Callback(t) \/ Dispatched(t)

Migrate(o) == Count(o) \/ InsertVersion(o) \/ VersionExists(o)

Next ==
    \/ \E t \in Threads : Step(t)
    \/ \E p \in Others, r \in OtherRoots : OtherOpens(p, r)
    \/ \E o \in Openers : Migrate(o)
    \/ \E r \in writers : WriterEnds(r)

Spec == Init /\ [][Next]_vars

-----------------------------------------------------------------------------
Making(t) == pc[t] \in {"count", "insert", "make"}

(* The runtimes get_runtime made, as opposed to those of self-tests.       *)
Mine == {r \in 1..made : rootOf[r] # Temp}

TypeOK ==
    /\ lock \in Threads \cup {Free}
    /\ current \in Mine \cup {0}
    /\ made \in 0..MaxRuntimes
    /\ queueOpen \subseteq 1..made /\ storeOpen \subseteq 1..made
    /\ writers \subseteq 1..made /\ raised \subseteq 1..made
    /\ rootOf \in Seq(Roots \cup {Temp}) /\ Len(rootOf) = made
    /\ version \in [Roots -> Openers \cup {Free}]
    /\ hooks \in Seq(1..made) /\ Len(hooks) <= registers
    /\ registers \in 0..MaxRegisters /\ builds \in 0..MaxBuilds
    /\ rows \subseteq [file : Roots, row : Roots]
    /\ pc \in [Openers -> {"idle", "get", "count", "insert", "make", "ready",
                           "failed", "hook", "row", "selftest", "reset",
                           "closequeue", "closestore", "dispatch"}]
    /\ goal \in [Threads -> {"none", "register", "command", "build"}]
    /\ want \in [Openers -> Roots]
    /\ got \in [Threads -> 0..made]
    /\ \A t \in Threads : Making(t) \/ pc[t] \in {"hook", "row"} => got[t] \in Mine
    /\ firing \in [Threads -> Firings \cup {"none"}]
    /\ at \in [Threads -> Nat]
    /\ status \in [Firings -> {"new", "running", "done"}]
    /\ records \in [Firings -> Nat]
    /\ asked \subseteq Roots /\ fresh \subseteq Openers
    /\ clashed \subseteq Openers \X Roots
    /\ watched \subseteq Firings

(* However many threads get, create and reset the runtime: _RUNTIME alone  *)
(* takes events, at most one store of get_runtime is open, that of _RUNTIME*)
(* or of the runtime under construction, and a writer thread that outlives *)
(* its close() has no open store to write to: no second writer on a        *)
(* state.db.  Excepted are the stores whose close() raised; the runtimes of*)
(* self-tests, which stay, are in directories of their own.                *)
OneRuntime ==
    LET stores == (storeOpen \cap Mine) \ raised
    IN  /\ queueOpen \cap Mine \subseteq {current}
        /\ stores \subseteq {current} \cup {got[t] : t \in {u \in Threads : Making(u)}}
        /\ Cardinality(stores) <= 1
        /\ stores \cap writers \subseteq {current}

(* Whenever get_runtime can hand out _RUNTIME it is one nobody has closed, *)
(* and its state.db has its version row, whoever put it there.             *)
CurrentUsable ==
    lock = Free /\ current # 0 =>
        /\ current \in queueOpen \cap storeOpen \cap writers
        /\ version[rootOf[current]] # Free

(* Of the processes that open a root for the first time at once one wins:  *)
(* an open fails on the version row only when it began before there was    *)
(* one, and then another open has put it there (store.py:76-85).           *)
OpenRaceDecided ==
    \A c \in clashed : c[1] \in fresh /\ version[c[2]] \notin {Free, c[1]}

(* A dataset's row is in the state.db of the root its file is in, unless   *)
(* this process has been told two roots (cli.py:321-329): get_runtime      *)
(* honours the root of the call that makes the runtime, resets included.   *)
RowsBesideFiles ==
    (\E d \in rows : d.file # d.row) => Cardinality(asked) > 1

(* Handlers left over from a runtime that was reset keep nobody else's     *)
(* from recording ("plugin boundary", handlers.py:71): a firing that began *)
(* with a live handler registered, and saw no reset, is recorded.          *)
StaleHandlersHarmless ==
    \A f \in watched : status[f] = "done" => records[f] >= 1

=============================================================================
