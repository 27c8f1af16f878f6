# Verification of hermes-bilevel

TLA+ models, TLC runs and TLAPS proofs for `hermes-bilevel` 0.1.3 (`src/`), the
auditable bilevel-optimization laboratory for the Hermes agent: an observe-only
plugin that records the host's hooks as telemetry, and an offline command line that
turns recorded data into datasets, imports and validates candidate patches, runs them
in disposable worktrees, selects among the results, and keeps promotion behind a human
approval.

Source paths below are relative to `src/src/hermes_bilevel/` unless they start with
`src/`.

1. Inventory
2. Plan
3. Modules and their correspondence with the code
4. Runs, bounds and what they show
5. Fairness
6. Proofs
7. Disagreements found, and observations no run checks
8. What is not modelled

## 1. Inventory

| component | state it keeps | operations | what is hard | what makes it correct |
|---|---|---|---|---|
| Event queue (`events/queue.py`) | a bounded `queue.Queue` with its count of unfinished tasks, the loss counter, closed and stop flags, a lock, the writer thread | put (four overflow policies), writer loop, flush, close | threads, waits with timeouts, eviction racing the writer, a callback that must not run under the lock, shutdown through a sentinel | FIFO, no event twice, every loss counted once, flush and a clean close mean "settled", every call returns |
| Observe pipeline (`hooks/handlers.py`, `events/envelope.py`, `runtime.py`, part of `storage/store.py`) | the tables `events` and `event_losses` behind the queue | a handler per hook (`_emit`; the two end handlers also flush), `insert_event`, `record_loss`, `close` | swallowed exceptions, a store closed before its writers are done, a crash | rows and ledger account for every event; what flush promises is durable; a crash costs a bounded amount |
| Plugin and runtime singleton (`plugin.py`, `runtime.py`, opening of `storage/store.py`, `selftest.py`) | `_RUNTIME`, the host's hook table, the version row of a `state.db` | register, get_runtime, reset_runtime, commands in the host process, the self-test, hook dispatch | creation and destruction from any thread, half-made runtimes, two processes that open a new root, a caller's root that is ignored, handlers that outlive their runtime | one runtime that takes events, no second writer on an open store; never a closed runtime handed out; rows beside their files; dead handlers harm nobody |
| Research store (`storage/store.py`, `storage/schema.sql`) | `state.db` of each root | puts, dump/restore (`export`, `import`), gc | every statement its own transaction, several processes, `OR IGNORE`/`OR REPLACE` with two unique keys, a restore that stops half way | no body that was imported is lost but to another one under its id, no loss uncounted; a restore that says ok is complete |
| Episode runner (`episodes/runner.py`, `experiment run --backend episode`) | git worktrees, the results of the tasks | run: probe, two worktrees, patch, two subprocesses, verdict, cleanup; then store | one step of several failing, HEAD moving, timeouts, kill | no worktree leaks, a pass is honest, nothing is stored before all tasks ran, the command ends |
| Candidates (`candidates/`, `candidate import`) | candidate files, the table `candidates` | parse, validate, hash, import | checks on raw fields, storage of normalised ones; a hash that goes stale when a file is edited | the stored hash is the hash of the stored body; what was accepted is accepted again |
| Evaluation (`evaluation/`) | `evaluation_results` | synthetic fixture: validators, hard gate, label | unknown validators, empty task lists | a pass is earned and reproducible |
| Governance (`governance/`) | approval files | approve, verify, promote, dossier | expiry and edits between two commands | only what a person approved, in time, comes past the gate |
| Dataset manifests (`datasets/manifest.py`, `dataset`) | a manifest's file and its row | build, lock, verify | the file rewritten in place by concurrent commands, edits, kills | a locked manifest that verifies was locked; lineage to the row |
| Pareto selection (`optimization/pareto.py`) | none | dominates, nondominated_sort | nested loops left early, ties, missing metrics | frontier mutually nondominated and covering |
| Blob store (`storage/store.py` 21-45, 209-225) | a file per digest, a row of `artifacts` | put_bytes, save_json_artifact | calls with one content meet in one temporary file; death between two system calls | a blob that a row names is there, and whole unless calls met |
| Configuration (`config/schema.py`) | none | merge of defaults, file and overrides; validation | empty and null sections, values that are true but no booleans | activation needs a literal true, layers hide nothing |
| Correlation (`correlation/engine.py`) | none | correlate | ties, the order of the listing | the order decides nothing unseen |
| Canonical form (`canonical.py`) | none | canonicalize | shared parts, cycles, limits, keys with one text | refuses exactly what is too deep or too large |
| Purity, redaction, statistics | none | pure functions | text and numbers | see section 8 |
| Recording, sandbox, proposers, reports, doctor | files | adapters | I/O | see section 8 |

How they interact. The host calls the hook handlers on its own threads; each calls
`BoundedEventQueue.put`. The queue's writer thread calls `BilevelStore.insert_event`,
and every loss calls `BilevelStore.record_loss` through the `on_drop` callback, on
whichever thread lost the event. `runtime.py` makes the three for a process and closes
queue, then store. The command line works on the same `state.db` from other processes
and on files (candidates, manifests, tasks, approvals) that people edit between
commands.

PROJECT.json lists, per hazard, the line where it bites and the properties that would
catch it.

## 2. Plan

Order: first what runs concurrently inside somebody else's process, then what is
persisted by several processes, then the pipeline of commands.

1. `EventQueue`, with the abstract `LossyFifo` it implements. Done; every invariant and
   the refinement proved.
2. `ObservePipeline`: `EventQueue` composed with handlers, store and shutdown. Done; the
   composition and all its properties proved.
3. `PluginLifecycle`: runtimes, registration, commands in the host process, and another
   process that opens the same root. Done and proved.
4. `EpisodeRunner`. Done; proved but for fairness, with a bound on its steps.
5. `ResearchStore`. Done and proved.
6. `Selection`. Done and proved.
7. `DatasetManifests` and `CandidateTrail`. Done and proved.
8. `BlobStore`, and `RootFiles`, which puts it beside `DatasetManifests`. Done and proved.
9. `Correlation`, `CanonicalForm`, `Configuration`, `CandidateValidation` as operators,
   and `PureFunctions`, which asks them and `Selection` every small question. Done and
   proved.

What is left is in section 6, "Only model-checked", and section 8.

## 3. Modules and their correspondence with the code

An operator that stands before a definition and is used by nothing (for example
`PutEnterUnchecked` before `PutEnter`) is that definition with a plausible bug in it; the
section `mutants` of PROJECT.json says which property notices it.

### EventQueue, LossyFifo (`events/queue.py`)

A step is one operation of `queue.Queue`, one acquisition or release of `self._lock`, or
the load or store half of `self._dropped += 1`. `q`, `unfinished`, `dropped`, `closed`,
`stop`, `lock` are the attributes; `pc`, `data`, `reason`, `victim`, `reg` the positions
and locals of the threads; `fate`, `reports`, `result` are history.

- `put` (53-105): `PutCall`, `PutRefused` or `PutEnter` (closed check under the lock),
  `TryAccepted` or `TryFull`, the counter (`CountLoad`, then `CountSilently` without a
  callback, `CountNewest`, or `CountOldest` for drop_oldest), the eviction (`Evict`,
  `EvictTaskDone`, `RePut`, or `EvictEmpty`), then the callback outside the lock and the
  return value (`PutReport`).
- `_run` (107-135): `Get`, `GetEmpty`, `StopCheck`, `SentinelDone`, `WriteOk` or
  `WriteRaises`, the counted and reported failure (`FailEnter` .. `FailReport`), `ItemDone`.
- `flush` (137-143) and `close` (145-156): `FlushDrained`, `FlushTimeout`, `CloseEnter`,
  `CloseAgain`, `SentinelPut`, `SentinelFull`, `JoinExited`, `JoinTimeout`.

Choices. A wait with a timeout is stuttering followed by its outcome. The policy `block`
falls through to `put_nowait` in the code, so it behaves like drop_newest with another
reason. A writer is given and its thread runs, as in the runtime. `DropReads` lets the
callback read the property `dropped`, which takes the same non-reentrant lock: the worst
a callback does.

`LossyFifo` is what callers are promised: events leave in order, at most once, may be
lost from the tail or as the oldest unsettled one, and nothing is accepted after close.
`EventQueue!Abstract` maps `pending` to the event in the writer's hand followed by the
queue without its sentinel. The refinement is about what becomes of events (`fate`), which
put and on_drop may misreport: the event of a drop_oldest put that finds the queue full and
then empty is counted, reported and answered False, and stored all the same. What they say
is the subject of `ResultTruthful` and of `LossReportsTrue`, which names that one case
(`PhantomLoss`) and allows no other.

### ObservePipeline (`hooks/handlers.py`, `runtime.py`, `storage/store.py`)

EXTENDS EventQueue and conjoins its actions with what they do in the program:
`WriteOk` becomes `Insert`, `WriteRaises` becomes `InsertRaises`, a callback becomes
`RecordLoss` or `RecordRaises`, `HookCall` is a handler that puts its event and
`EndFlush` the flush of `on_session_end` and `on_session_finalize`; `EmitFails` is
`make_event` raising inside `_emit`. `StoreClose` is the second half of
`BilevelRuntime.close`. A statement is a step: it runs under the store's RLock in
autocommit mode. It may raise because the store is closed or by a fault (locked
database, full disk), of which `MaxFaults` happen. The writer is a daemon thread and
nothing closes the runtime at exit, so a crash or an exit may come after every step and
leaves exactly the tables of that state; `CrashLossBounded`, an invariant, is therefore
about crashes.

### PluginLifecycle (`plugin.py`, `runtime.py`, `storage/store.py` 50-85, `selftest.py`, `cli.py`)

Under `runtime._lock`: `get_runtime` (`GetExisting`; or `OpenStore`, the migration
`Connect`, `Count`, `InsertVersion` or `VersionExists`, then `MakeRuntime`; or `OpenFails`,
`MakeFails`), and `reset_runtime` (`Reset`, `CloseQueue`, then `CloseStore` or, when
`queue.close()` or `store.close()` raises, `CloseRaises`, which leaves the store open and
forgets the runtime all the same; `ResetNothing`). `queue.close()` may give up on its flush
and its join, so the writer of a closed queue ends at any later time (`writers`,
`WriterEnds`), and a store is closed, and the next runtime made, beside it. A
thread gets the runtime for `register`, for a `Command` that reads, or for a dataset
`Build`, which writes its file below the root it computes for itself and its row
(`PutRow`) into the store it is handed. `Selftest` is `run_selftest`: it makes a runtime of
its own in a temporary directory (`Temp`), whose queue nobody closes and whose writer never
ends; it passes, closes that store and resets the runtime of the process (`SelftestPasses`),
or fails and leaves its store open too (`SelftestFails`). `Mine` are the runtimes of
`get_runtime`, as opposed to those. The migration counts the version rows and inserts one in two
transactions, so a process of `Others` that opens the same root (`OtherOpens`) may come
between. One hook is fired and dispatched callback by callback (`Fire`, `Callback`,
`Dispatched`); all ten hooks are registered alike. `register` loads the built-in
defaults, which are safe, so its refusal of an unsafe configuration cannot happen and is
not modelled. `raised`, `asked`, `fresh`, `clashed`, `records`, `watched` are history.

### EpisodeRunner (`episodes/runner.py`, `candidates/validate.py` 99-133, `cli.py` 449-471)

One task after another: `Probe` .. `Unprobe` (the applicability check in its own
worktree), `AddBase`, `AddCand`, `Apply`, `RunBase`, `RunCand`, `Judge`, the `finally`
(`FinallyBase`, then `FinallyReturn` or `FinallyRaise`), and after the last task `Store`.
`Commit` moves HEAD, which each `git worktree add` reads for itself; `Faulty` names what
may fail. The candidate passes the other checks of `validate_candidate`; which artifacts
the validators accept is a free choice in `Judge`.

### ResearchStore (`storage/store.py`, `storage/schema.sql`, `cli.py`)

Per root the tables `events`, `event_losses` and `candidates`. A statement is a step;
`export` selects table by table (`Select`), `import` restores row by row
(`RestoreRow`, `NextTable`) and may be refused by a table (`RowRefused`) or fail
anywhere (`ImportFails`). One export or import runs at a time, next to any number of
inserts and `candidate import`s. `Replace` is `INSERT OR REPLACE` with two unique keys; losses
are replaced by number, and new ones get the number after the largest there ever was.

An import of a candidate is a proposal that gets a new id (`ImportProposal`) or a file that
brings one in use, with whatever body it has by now (`ImportFile`): `validate_candidate`
keeps the id and computes the hash again, so an edited file puts another body under its id
and the row of the earlier body is deleted. `puts` is history: the rows put into a table
since an import into it last began, with those that were there then. `Overwritten(puts[s],
body)` says that a row of that body and one of another body with the same id were put;
`CandidateKept` and `RestoreComplete` say that this is the only way a body leaves a table.

### Selection (`optimization/pareto.py`)

The two loops of `nondominated_sort` turn by turn, over every list of rows. A missing
metric counts as 0. NaN is left out.

### DatasetManifests (`datasets/manifest.py`, `cli.py` 311-351)

One manifest. `build` writes file, then row; `lock` reads the file whole and rewrites it
in place: `Open` truncates, `Write` writes at offset 0 and may leave the tail of what
another command wrote since (`alone` tracks who has an undisturbed truncation). `Edit`
changes the body and leaves the hashes. A hash is the body it was computed from.

### BlobStore, RootFiles (`storage/store.py` 21-45, 209-225)

The blob of one content and the calls that save it, system call by system call: `Look`
(exists, once), `OpenTemp` (creates or truncates the temporary file, whose name depends
on the content alone), `WriteTemp`, `Replace` or `ReplaceFails`, and the row
(`InsertArtifact`); a call may die anywhere (`CallDies`). Files are numbered, so that a
call that has a file open writes to it wherever the name has moved. `RootFiles` is
DatasetManifests and BlobStore side by side: they share the root and no file.

### PureFunctions and its operators

`Correlation`: a record is the set of keys whose values it shares with the event, scores
are in tenths (the sums of floats compare with the thresholds and each other as these do).
`CanonicalForm`: a value is a graph of objects. `Form` is a table with a row for each
number of levels left: what the calls on each object answer, for each set of containers
on the path, made of the row below by `Answers`; `Items` counts the calls in the same way
(`Calls`). Both are functions that recurse on a number, so they can be proved about.
`Configuration`: one field of each section that the checks read; a layer leaves it or its
section out, sets the section to null or to no mapping, or gives a value. `Merge` is
`_deep_merge`, `Check` the checks in their order, with the ones that raise
AttributeError because a section is no mapping ("crash").
`CandidateValidation`: `Code` is the code of the first check that fails, `Body` what is
hashed and stored; of a path, its surface, whether it climbs or is guarded, and a spelling
`_normalize_path` would change; of a patch, its paths, size, NUL, applicability and secret.
`PureFunctions` asks one question a behaviour: the answer is the result of an operator, or
the frontier that the steps of `Selection` end with.

### CandidateTrail (`candidates/`, `evaluation/`, `governance/`, `cli.py` 364-547)

Candidate files and rows, results, approvals and the gate. A candidate's body is its
patch, its hash the patch it is the hash of. `Validated` is the end of
`validate_candidate`; the patches that pass its checks are `Sound`. `Import` stores the
row, then writes the file, or dies between. `ExperimentFile` and `ExperimentRow` evaluate;
as in the code a candidate that carries a hash is not validated again. `Holds` is one
validator: the only artifacts are two words and a number, so "contains" is equality with
one of them or emptiness (a proper part of the word, such as `k` in `ok`, is left out).
`Approved` is `verify_approval` as `promote` calls it, without baseline, evaluator and
dataset hashes; `by` is "human" or one of the names it refuses.

## 4. Runs, bounds and what they show

| run | instance | shows |
|---|---|---|
| `queue_silent` | 2 producers, 2 closers, 3 events, size 1, no callback | a clean close has drained, results true |
| `queue_drop_oldest` | 2 producers, 1 closer, 3 events, size 2, callback that reads the counter; fair | sentinel last, eviction makes room, no event reported lost is stored but the one of `queue_phantom_loss`, implements `LossyFifo`, all calls return, writer ends, events settle |
| `pipeline_drop_newest` | 2 producers, 1 closer, 4 events, size 1, 1 fault | a drained flush leaves rows, evicted events and reported failures, ledger exact, tables disjoint and balanced, clean reset stores all, crash loss bounded |
| `plugin_runtimes` | 2 threads, 1 other process (in one root), 2 roots, 1 firing, 3 runtimes (those of self-tests included), 2 registrations, 1 dataset build; closes and creations fail, writers linger | one runtime takes events and no other writer has an open store, never a closed one handed out, one opener sets the version, rows beside files, stale handlers harmless |
| `episodes` | 2 tasks, HEAD moves twice, any kind of fault; fair | no leak without fault, honest results, stored whole unless storing itself fails or is killed, ends |
| `store_migration` | 2 roots, 1 event, 1 loss each, 2 candidate ids, 2 bodies under any of them, 4 of these in all, any failure | a body leaves only when another takes its id, restore complete but for those, losses not undercounted |
| `selection` | lists of up to 3 results, 2 metrics with 2 values or none; listings of up to 5 records of 6 kinds; graphs of 3 objects with up to 2 parts, depth 2, 5 items; files that say up to 2 things and overrides that say 1; every combination of what may be wrong with a candidate | frontier mutual and covering, correlation stable, canonical form total, activation fail-closed, accepted candidates accepted again |
| `datasets` | 1 builder, 2 lockers, 2 edits, 2 bodies; 3 calls that save one blob | tampering evident, lineage found, blobs readable |
| `trail` | 3 patches (1 unsound), 2 ids, 1 edit, 4 task files, 4 approvals, 2 results | passes earned, verdicts reproducible, gate truthful |
| `queue_phantom_loss`, `queue_abandons`, `episodes_leak` | smallest instances | the disagreements of section 7 |

The properties by name; those with a theorem beside them are also proved:

| run | properties (theorem) |
|---|---|
| `queue_silent` | `CleanCloseDrains` (`CloseCorrect`), `ResultTruthful` (`ResultCorrect`) |
| `queue_drop_oldest` | `SentinelLast` (`SentinelCorrect`), `NewestKept` (`EvictionMakesRoom`), `LossReportsTrue` (`ReportsCorrect`), `ImplementsLossyFifo` (`QueueIsLossyFifo`), `PutReturns`, `CloseReturns`, `WorkerEnds`, `AcceptedSettles` |
| `pipeline_drop_newest` | `FlushDurable` (`FlushDurableCorrect`), `LedgerExact` (`LedgerCorrect`), `NotBothStoredAndLost` (`StoredOrLost`), `TablesBalance` (`BalanceCorrect`), `CleanResetStoresAll` (`CleanResetCorrect`), `CrashLossBounded` (`CrashCorrect`) |
| `plugin_runtimes` | `OneRuntime` (`OneRuntimeCorrect`), `CurrentUsable` (`CurrentCorrect`), `OpenRaceDecided` (`RaceCorrect`), `RowsBesideFiles` (`RowsCorrect`), `StaleHandlersHarmless` (`StaleCorrect`) |
| `episodes` | `NoLeakWithoutFault` (`NoLeak`), `HonestResult` (`Honest`), `WholeUnlessStoringFails` (`WholeCorrect`), `Terminates` |
| `store_migration` | `CandidateKept` (`CandidatesStay`), `RestoreComplete` (`RestoreCorrect`), `LossesNotUndercounted` (`LossesCorrect`) |
| `selection` | `FrontierMutual` (`MutualCorrect`), `FrontierCovers` (`CoversCorrect`), `CorrelationStable` (`CorrelationCorrect`), `CanonicalTotal` (`CanonicalCorrect`), `ConfigFailClosed` (`ConfigCorrect`), `Revalidates` (`RevalidationCorrect`) |
| `datasets` | `TamperEvident` (`TamperCorrect`), `LineageFound` (`LineageCorrect`), `BlobReadable` (`BlobCorrect`) |
| `trail` | `SameVerdict` (`VerdictCorrect`), `GateTruthful` (`GateCorrect`), `PassEarned` (`PassCorrect`) |

The type invariants `TypeOK` are in no run, and each of them is a theorem (`TypeCorrect`
of its module), as are `EventsAppendOnly` and `CandidatesUnique` of `ResearchStore`.

Why the bounds are enough for what they ask:

- Queue: two producers give every pair of puts that race each other and the writer; one
  slot (or two, where an evicted victim and a kept item must differ) makes overflow,
  eviction and a full queue at close happen within three events; the second closer is
  there for `close` called twice at once. Events are put at most once each, as event ids
  are fresh.
- Pipeline: the fourth event lets one be stored, one be in the writer's hand, one queued
  and one lost at the same time; one fault can hit an insert or a record_loss, and a closed
  store makes both fail without limit. The run uses drop_newest, the default;
  `queue_phantom_loss` shows that `NotBothStoredAndLost` is false under drop_oldest.
- Plugin: three runtimes are a dead and a live one beside that of the self-test whose reset
  came between them, or three in a row; two threads suffice for a creation or a reset under way while another thread calls or dispatches; the other process gives the
  race for the version row, which is decided once per root, so it opens one (`OtherRoots`); two
  roots are what a caller and the runtime can differ in.
- Episodes: two tasks make "an earlier task was stored" and "a later task fails" differ;
  two commits let HEAD leave the commits the patch applies to and come back.
- Store: two bodies under two ids give every collision of the two unique keys, one row that
  deletes two included; two roots let ids and numbers collide; a table of candidates holds
  two rows, so a restore can stop between them; two losses of two roots are the least to
  collide in one number. `MaxRows` bounds what is made in all: an event, two losses and one
  candidate, an event, a loss and two candidates, or two losses and two candidates.
- Selection: three rows are the least for a dominator that is dominated, the case in which
  leaving the inner loop early could drop too much.
- Datasets: the builder and two lockers are three commands that rewrite the file: one
  between what two others read before and after an edit.
- Blob: three calls, of which one moves the file a second one has open while a third
  finds the blob there.
- Operators: five records are one more than the code can name; three objects give a
  cycle of each length up to three, a shared part and a chain too deep; two things in a
  file and one in the overrides meet in one section and in two.
- Trail: two results and two ids are what `SameVerdict` compares; one edit makes every hash
  go stale.

Deadlock is checked in every run but `datasets`, where all commands end. Symmetry is used
only in runs without liveness.

## 5. Fairness

- `EventQueue!Fairness`: weak fairness of every thread inside a call it has made
  (`PutStep`, `FlushStep`, `CloseStep`) and of the writer. Every wait in the code has a
  timeout, the host schedules its threads, and the lock is held for a few steps only.
  Calling put, flush or close is the host's choice and never forced. Weak fairness is
  enough although a thread may wait for the lock: a lock that is handed from thread to
  thread for ever needs endlessly many puts, and events are finite.
- `EpisodeRunner!FairSpec`: weak fairness of `Run`: git ends, and a subprocess is killed
  after `timeout_seconds`. Commits and kills are not forced.

## 6. Proofs

Eight modules, checked by TLAPS for every value of the constants allowed by the named
assumptions: sizes are positive naturals, bounds are naturals, threads and marks are
distinct; task lists and listings are sequences, configuration layers, candidates and
values to canonicalize are of their sets (what the commands read is parsed before it gets
there). TLC checked each
property before it was proved. Where a theorem has an assumption of its own it is named below with its reason. In each
module the step that preserves an invariant has one case per action.

- `EventQueueProofs`. `IndInv` is inductive: types, the lock discipline (a thread is in a
  critical section exactly while it holds the lock), the exact count of unfinished tasks,
  `SentinelInv` (a put past the closed check excludes close, so nobody is left who could
  follow the sentinel), `SettledInv` (where an unsettled event is), `EndInv` (the writer
  ends on the sentinel only when nothing can come after it), `RoomInv` (after an eviction
  there is room). None of the properties is inductive alone: that a drained count means
  settled events needs the exact count and `SettledInv`, a clean close also `EndInv`. One
  lemma per conjunct.
  `CustodyInv`: an unsettled event is in exactly one hand; from it, with
  `ReportInv` (whom a thread about to call on_drop will name), `ReportsCorrect`, and with the shape of the sequence the abstraction computes
  (`PendingShape`: the writer's event, then the queue without its sentinel) the refinement
  `QueueIsLossyFifo`: every step appends to `pending`, takes its head, removes an element
  by a loss, or leaves it alone. `ResultCorrect` assumes `NeverEvicts` (another policy than
  drop_oldest, or no callback): with both, the code itself answers False for an event it
  kept (`queue_phantom_loss`).
- `ObservePipelineProofs`. Every step of the pipeline is a step of the queue or none, so
  all theorems above carry over (`ImplementsQueue`); with `RowsInv` (the table is the set
  of events stored) `FlushDurableCorrect` (which speaks of on_drop only for failed inserts: the
  callback of a put that evicted or was refused may be pending when a flush returns), and `TableIsLossyFifo`: the refinement of
  `LossyFifo` with the table itself as what was delivered. The counting properties rest on `LedgerInv`
  (rows of the ledger, swallowed reports and reports owed add up to the counter),
  `HandsInv` (whose hands an event is in, and that a thread between the two halves of an
  increment has the current count), `LossInv` (what is recorded was lost, and the counter
  is the number of events lost), `MissingInv` (a loss that is neither recorded nor about to
  be was swallowed), and, for a clean reset, `CloserInv` and `FaultInv` (the
  store closes after the join, so inserts fail by faults only). All assume `OnDrop`, as
  the runtime always installs the callback; `StoredOrLost` and `BalanceCorrect` exclude
  drop_oldest, which breaks them (`queue_phantom_loss`); `CleanResetCorrect` assumes
  `OneCloser`: a runtime is closed once, under `runtime._lock`.
- `PluginLifecycleProofs`. `LockInv` (exactly the thread that holds `runtime._lock` is in
  the middle of a creation or a reset) carries the rest: `RuntimeInv` says for each place
  that thread may be at what is current and what is open, and that a closed queue's writer
  has no open store unless its close raised, `RaceInv` what an opener that
  counted no version row may still meet, `RowsInv` that every root in
  play is one this process was told, and `DispatchInv` that a firing in flight has been recorded or has its
  live handler still ahead of it.
- `EpisodeRunnerProofs`. `RegisteredInv` says which worktrees exist at each step,
  `CountInv` how many tasks are behind it, and a third what the verdict has seen; they give
  `NoLeak`, `WholeCorrect` and `Honest`. `RunsDown` is the part of `Terminates` that is a
  safety property: a count of the steps to come, at most `12 * NTasks + 1`, falls with each
  step of the command and does not change by others'.
- `ResearchStoreProofs`. Events are only added. `HeldInv` (`Held` for each root): keys are
  unique, and of every row put the body is in the table or `Overwritten`; `HeldReplace` is
  the step of one `INSERT OR REPLACE`, which deletes at most a row of the new id, whose body
  is then overwritten, and one of the new body, which is there again. For losses `LossInv`: there
  is one numbering `N` of all losses ever recorded, each row in a table, a dump or a
  restore is a loss under its number, and a root's losses have numbers of their own that
  are all in its table; a restore by number can then put another root's row in the place
  of one, and never make the table smaller. `RestoreInv`: what an import has put back so
  far (`Back`) stays, because events stay, no new loss takes the number of a row of the dump,
  and `puts` keeps its candidates (`PutsGrow`), of which `HeldInv` says what has become.
- `PureFunctionsProofs`. `SortInv`: before `i` exactly those that nothing dominates were
  kept. `CoversCorrect` follows from it because dominance is transitive and irreflexive
  and a list finite: what is dominated is dominated by something undominated
  (`HasMinimal`, from the well-foundedness of strict inclusion of finite sets). `AskSorts`
  carries the theorems of `Selection` over. The functions that answer in one step have
  lemmas about their definitions: of `Merge` and `Check` by field, of `Body` by check, of
  `Correlate` by where the best record and its ties go when two neighbours are swapped.
  `CanonicalCorrect` is about recursive tables. An induction theorem cannot be cited here,
  so `Climb` replaces it for a bounded number of rows: if some row were wrong, the least
  one (`HasMinimal` again) would follow a right one. With it a call with k levels left fails
  exactly when a way goes k steps down (`FailsWhenDeep`: an object met again on its path
  lies on a cycle, from where ways never end, `Endless`), the calls counted are the ways
  (`WaysAddUp`, `ItemsAreWays`: those through the places of an object are disjoint and add
  up), and a new order of entries maps the ways one to one (`WaysFewer`, used in both
  directions) and leaves the entry of each text (`TextsDiffer`, `SameAnswers`). Assumed of a
  value is what makes it one: its parts are objects of the value, and an enum or an object
  with fields holds one (`GraphAssumption`).
- `DatasetManifestsProofs`. `CopyInv`: every copy, in the file or in a command's hands,
  leads to the one built and, if locked, carries a sealed hash. `FilesImplementManifests`
  takes the theorems to `RootFiles`. For blobs `FileInv`, `NamesInv` and `TornInv`:
  whoever opened the temporary file left it there or had it moved, and a file that lacks
  bytes has somebody who had it open.
- `CandidateTrailProofs`. `RowsTrue`: a stored candidate has the hash of its own patch, and
  each result of one the label of that patch; two results with one hash are then of one
  patch, and an approval of the hash is one of the patch. `PassCorrect` is about the hard
  gate: a rate of one leaves no failing task.

Only model-checked:

- everything under fairness (`PutReturns`, `CloseReturns`, `WorkerEnds`,
  `AcceptedSettles`, `Terminates`): the prover has no means for liveness and ENABLED;
- `ResultTruthful` with eviction and a callback, `NotBothStoredAndLost` and
  `TablesBalance` under drop_oldest, `WorktreesRemoved` and `NothingAbandoned`: these are
  false (section 7).

## 7. Disagreements found, and observations no run checks

Each violation run refutes one sentence of the repository:

- `queue_phantom_loss` (`events/queue.py:82`): under drop_oldest, if the writer empties the
  queue between `Full` and `get_nowait`, the event is kept and stored, yet counted and
  reported as dropped, and put returns False (comment at line 102).
- `queue_abandons` (`events/queue.py:112`): the writer acts on an `Empty` it saw before the
  queue filled and `close` gave up on the sentinel; accepted events are neither written nor
  counted ("durable loss counters", line 1).
- `episodes_leak` (`episodes/runner.py:188`): both `git worktree add` stand before the
  `try`; when the second fails the first stays registered (`src/README.md:46`).

Met while modelling, consistent with the models, and left without a run:

- drop_oldest without a callback drops the newest event (`events/queue.py:69`);
- a loss reported after `store.close()` is swallowed and in no table (`runtime.py:50`);
- `register` called twice records every firing twice (`plugin.py:48`, `_REGISTERED`);
- the self-test resets the runtime of the process it runs in, the plugin's live one in the
  host, and leaves a writer thread of its own (`selftest.py:296`);
- `doctor` swallows an exception of the runtime it probes, reports NOT_APPLICABLE and
  passes; it looks at the root of its configuration, not at that of the runtime;
- `init` and `dataset build` compute the root for themselves, `get_runtime` ignores it once
  there is a runtime (`RowsBesideFiles` is stated for processes told one root);
- of two processes that open a new root at once one may fail on the version row
  (`store.py:80`); the next call succeeds;
- HEAD is read per worktree, so a commit in between pairs two different trees;
- `run` passes the candidate's own `parent_hash` as the expected one (`runner.py:176`);
- loss rows are numbered per root: restoring another root's dump replaces the target's;
- a dump has no blobs: artifact rows that are imported name blobs that are not there;
- of two `put_bytes` with one content one may raise FileNotFoundError (`store.py:37`); when
  the other dies between open and write the blob lacks bytes for good, as `exists` never
  looks inside;
- a composite correlation may have confidence 1.1, only three records after the best are
  looked at for ties, and an exact match never names a second one (`engine.py:37-62`);
- a section that is null raises AttributeError and not ConfigError, except `model_calls`;
  `promotion.automatic` and `optimization.code_candidates` pass with any value that is not
  literally true; a configuration file that is not there counts as an empty one;
- `redact_text` looks at 65,536 bytes, a patch may have 200,000 (`validate.py:25`): a
  larger patch is not scanned;
- a removed line that begins with `-- ` counts as a header in `parse_diff_paths`;
- the patches of `RandomSearchBackend` have a hunk header without line numbers, which
  `git apply --check` refuses, so no candidate of it passes;
- importing one proposal twice replaces the row of the id that was printed first, and
  importing an edited candidate file replaces the row of the body it had (`validate.py:287`,
  `store.py:231`); the body is then in no table, also one a restore has just put back;
- a statement that fails or a kill while `experiment run` stores its results leaves a part
  of them, with nothing that says so (`cli.py:468`);
- when `queue.close()` or `store.close()` raises, `reset_runtime` swallows it and the store
  stays open with nobody to close it (`runtime.py:48-76`);
- `queue.close()` may return with its writer alive (`queue.py:154-156`), which then raises on
  the closed store for what is left in the queue;
- a dump refused in the middle leaves the tables before it restored (`store.py:355` says
  it is validated "before touching anything");
- episode results, which have no metrics, are compared with fixture results as cost 0;
- a candidate file edited after its import keeps its hash, is not validated again, and is
  evaluated and comes past the gate under that hash (`cli.py:434`); the properties of
  `CandidateTrail` are stated for candidates taken from the store for this reason;
- an `equals` validator without key and value passes;
- after `dataset lock` the row still says unlocked, and two locks at once with an edit in
  between may seal two bodies under one manifest id; the content hash of an item is never
  verified again.

## 8. What is not modelled

The table of components in PROJECT.json gives the reason for each. In short: the purity
registry is a table and one lookup; redaction, statistics, reports and the payloads of
hooks are text or numbers a model checker does not tell apart (the models assume that ids
are unique and that hashes are equal exactly for equal bodies); the dossier, recording,
sandbox, proposers and doctor keep no state and nothing reads back what they print; of the
self-test only its effect on the process is modelled; sessions and audit events have no
writer, `gc` is a VACUUM that changes no row, and the other tables are written like candidates without the second key. Of
`validate_candidate` the text of a diff and the fallback of the probe outside a git
repository are left out, of `load_config` the file formats, of `canonicalize` sets, the
forms of scalars and the limit on bytes. Durations are stuttering.
