--------------------------- MODULE ResearchStore ---------------------------
(***************************************************************************)
(* The tables of state.db that commands of several processes write (store. *)
(* py, schema.sql): the plugin of a running agent inserts events and       *)
(* losses, `candidate import` puts candidates, `export` reads the tables   *)
(* one after the other and `import` restores them row by row, while the    *)
(* others go on.  There may be several roots, each with its own state.db.  *)
(* Every statement is a transaction of its own (isolation_level None), so  *)
(* a step is a statement.                                                  *)
(*                                                                         *)
(* A row is its key and what tells it from the others: events have ids     *)
(* that are unique everywhere, losses the number SQLite gives them, and a  *)
(* candidate its id, which its file may keep while the file is edited, and *)
(* the hash of its body.                                                   *)
(***************************************************************************)
EXTENDS Integers, Sequences, FiniteSets, FiniteSetsExt

CONSTANTS
    Stores,      \* the roots
    Bodies,      \* the bodies of candidates, each with its hash
    BadTables,   \* the tables whose rows the schema may refuse in a dump
    MaxEvents, MaxLosses, MaxCandidates,  \* bounds: how many are made, losses
                                          \*   in each root
    MaxRows      \* bound: how many are made in all

Tables == {"events", "losses", "candidates"}

ASSUME StoreAssumption == BadTables \subseteq Tables
ASSUME BoundAssumption ==
    {MaxEvents, MaxLosses, MaxCandidates, MaxRows} \subseteq Nat

VARIABLES
    events,      \* store -> the ids in its table events
    losses,      \* store -> number of a row of event_losses -> the loss
    candidates,  \* store -> the rows of candidates, [id, body]
    made,        \* how many event ids have been made
    lost,        \* store -> how many losses its plugin has recorded
    ids,         \* how many candidate ids are in use anywhere
    puts,        \* history: store -> the rows put into its table candidates
                 \*   since an import into it last began, or there then
    dump,        \* the file `export` wrote, or NoDump
    job,         \* the command that runs: [kind, store, at]
    todo,        \* the rows `import` has still to restore
    outcome      \* what the last import said: "ok" and of which store

vars == <<events, losses, candidates, made, lost, ids, puts, dump, job, todo,
          outcome>>
tableVars == <<events, losses, candidates, made, lost, ids, puts>>
jobVars == <<dump, job, todo, outcome>>

NoDump == [events |-> {}, losses |-> {}, candidates |-> {}, whole |-> FALSE]
Idle   == [kind |-> "none"]

(* The tables after one another, as in _DUMP_TABLES.                       *)
After(table) ==
    CASE table = "events" -> "losses" [] table = "losses" -> "candidates"
      [] OTHER -> "end"

Init ==
    /\ events = [s \in Stores |-> {}]
    /\ losses = [s \in Stores |-> [i \in {} |-> 0]]
    /\ candidates = [s \in Stores |-> {}]
    /\ made = 0
    /\ lost = [s \in Stores |-> 0]
    /\ ids = 0
    /\ puts = [s \in Stores |-> {}]
    /\ dump = NoDump /\ job = Idle
    /\ todo = {}
    /\ outcome = [how |-> "none"]

MoreRows == made + ids + MapThenSumSet(LAMBDA s : lost[s], Stores) < MaxRows

-----------------------------------------------------------------------------
(* The plugin of the agent that uses root s.                               *)

(* insert_event: INSERT OR IGNORE, of an event with an id of its own.      *)
InsertEvent(s) ==
    /\ made < MaxEvents /\ MoreRows
    /\ made' = made + 1
    /\ events' = [events EXCEPT ![s] = @ \cup {made'}]
    /\ UNCHANGED <<losses, candidates, lost, ids, puts, jobVars>>

(* record_loss: AUTOINCREMENT gives the row the number after the largest.  *)
NextLoss(s) == Max(DOMAIN losses[s] \cup {0}) + 1

Put(f, i, x) == [j \in DOMAIN f \cup {i} |-> IF j = i THEN x ELSE f[j]]

RecordLoss(s) ==
    /\ lost[s] < MaxLosses /\ MoreRows
    /\ lost' = [lost EXCEPT ![s] = @ + 1]
    /\ losses' = [losses EXCEPT ![s] = Put(@, NextLoss(s), <<s, lost'[s]>>)]
    /\ UNCHANGED <<events, candidates, made, ids, puts, jobVars>>

-----------------------------------------------------------------------------
(* `candidate import`: validate_candidate, then put_candidate.             *)

(* Mutation: the row is not stored when the body is there under another    *)
(* id.                                                                     *)
ReplaceDeletingOnly(rows, row) ==
    {r \in rows : r.id # row.id /\ r.body # row.body} \cup
    (IF \E r \in rows : r.id # row.id /\ r.body = row.body THEN {} ELSE {row})

(* INSERT OR REPLACE deletes the rows that have the same id or, because    *)
(* candidate_hash is UNIQUE, the same body.                                *)
Replace(rows, row) ==
    {r \in rows : r.id # row.id /\ r.body # row.body} \cup {row}

PutCandidate(s, row) ==
    /\ candidates' = [candidates EXCEPT ![s] = Replace(@, row)]
    /\ puts' = [puts EXCEPT ![s] = @ \cup {row}]
    /\ UNCHANGED <<events, losses, made, lost, jobVars>>

(* A proposal without candidate_id: validate_candidate makes one.  One that*)
(* brings an id nobody has used comes to the same.                         *)
ImportProposal(s, body) ==
    /\ ids < MaxCandidates /\ MoreRows
    /\ ids' = ids + 1
    /\ PutCandidate(s, [id |-> ids', body |-> body])

(* The file of an earlier import, as it was or edited since, or a proposal *)
(* that brings an id in use: the id is kept, the hash is that of the body. *)
ImportFile(s, id, body) ==
    /\ PutCandidate(s, [id |-> id, body |-> body])
    /\ UNCHANGED ids

-----------------------------------------------------------------------------
(* `export`: dump_state, then the file.                                    *)

Export(s) ==
    /\ job = Idle
    /\ job' = [kind |-> "export", store |-> s, at |-> "events"]
    /\ dump' = NoDump
    /\ outcome' = [how |-> "none"]
    /\ UNCHANGED <<tableVars, todo>>

LossRows(s) == {<<i, losses[s][i]>> : i \in DOMAIN losses[s]}

Select(table) ==
    /\ job.kind = "export" /\ job.at = table /\ table \in Tables
    /\ dump' = CASE table = "events" -> [dump EXCEPT !.events = events[job.store]]
                 [] table = "losses" -> [dump EXCEPT !.losses = LossRows(job.store)]
                 [] OTHER -> [dump EXCEPT !.candidates = candidates[job.store]]
    /\ job' = [job EXCEPT !.at = After(table)]
    /\ UNCHANGED <<tableVars, todo, outcome>>

WriteDump ==
    /\ job.kind = "export" /\ job.at = "end"
    /\ dump' = [dump EXCEPT !.whole = TRUE]
    /\ job' = Idle
    /\ UNCHANGED <<tableVars, todo, outcome>>

-----------------------------------------------------------------------------
(* `import`: restore_state checks the mapping, then restores.  The file    *)
(* may come from another version or have been edited since.                *)

RowsOf(table) ==
    CASE table = "events" -> dump.events [] table = "losses" -> dump.losses
      [] table = "candidates" -> dump.candidates [] OTHER -> {}

(* Mutation: the tables are emptied first.                                 *)
ImportClearing(s) ==
    /\ job = Idle /\ dump.whole
    /\ job' = [kind |-> "import", store |-> s, at |-> "events"]
    /\ todo' = RowsOf("events")
    /\ outcome' = [how |-> "none"]
    /\ events' = [events EXCEPT ![s] = {}]
    /\ losses' = [losses EXCEPT ![s] = [i \in {} |-> 0]]
    /\ puts' = [puts EXCEPT ![s] = candidates[s]]
    /\ UNCHANGED <<candidates, made, lost, ids, dump>>

Import(s) ==
    /\ job = Idle /\ dump.whole
    /\ job' = [kind |-> "import", store |-> s, at |-> "events"]
    /\ todo' = RowsOf("events")
    /\ outcome' = [how |-> "none"]
    /\ puts' = [puts EXCEPT ![s] = candidates[s]]
    /\ UNCHANGED <<events, losses, candidates, made, lost, ids, dump>>

(* Mutation: INSERT OR IGNORE.                                             *)
RestoreIgnoring(s, table, row) ==
    /\ events' = IF table # "events" THEN events
                 ELSE [events EXCEPT ![s] = @ \cup {row}]
    /\ losses' = IF table # "losses" \/ row[1] \in DOMAIN losses[s] THEN losses
                 ELSE [losses EXCEPT ![s] = Put(@, row[1], row[2])]
    /\ candidates' = IF table # "candidates" THEN candidates
                     ELSE [candidates EXCEPT ![s] = Replace(@, row)]
    /\ puts' = IF table # "candidates" THEN puts
               ELSE [puts EXCEPT ![s] = @ \cup {row}]

(* INSERT OR REPLACE of one row.                                           *)
Restore(s, table, row) ==
    /\ events' = IF table # "events" THEN events
                 ELSE [events EXCEPT ![s] = @ \cup {row}]
    /\ losses' = IF table # "losses" THEN losses
                 ELSE [losses EXCEPT ![s] = Put(@, row[1], row[2])]
    /\ candidates' = IF table # "candidates" THEN candidates
                     ELSE [candidates EXCEPT ![s] = Replace(@, row)]
    /\ puts' = IF table # "candidates" THEN puts
               ELSE [puts EXCEPT ![s] = @ \cup {row}]

RestoreRow ==
    /\ job.kind = "import"
    /\ \E row \in todo :
           /\ Restore(job.store, job.at, row)
           /\ todo' = todo \ {row}
    /\ UNCHANGED <<made, lost, ids, dump, job, outcome>>

NextTable ==
    /\ job.kind = "import" /\ job.at # "candidates" /\ todo = {}
    /\ job' = [job EXCEPT !.at = After(job.at)]
    /\ todo' = RowsOf(After(job.at))
    /\ UNCHANGED <<tableVars, dump, outcome>>

EndImport(said) ==
    /\ job' = Idle
    /\ outcome' = said
    /\ todo' = {}
    /\ UNCHANGED <<tableVars, dump>>

Restored ==
    /\ job.kind = "import" /\ job.at = "candidates" /\ todo = {}
    /\ EndImport([how |-> "ok", store |-> job.store])

(* A row with a column the table lacks, or without one it requires: the    *)
(* statement raises, and what has been restored stays.                     *)
RowRefused ==
    /\ job.kind = "import" /\ job.at \in BadTables /\ todo # {}
    /\ EndImport([how |-> "none"])

(* The statement waits longer than busy_timeout for another process, the   *)
(* disk is full, or the command is killed.                                 *)
ImportFails ==
    /\ job.kind = "import"
    /\ EndImport([how |-> "none"])

ExportFails ==
    /\ job.kind = "export"
    /\ job' = Idle
    /\ dump' = NoDump
    /\ UNCHANGED <<tableVars, todo, outcome>>

Next ==
    \/ \E s \in Stores :
           \/ InsertEvent(s) \/ RecordLoss(s) \/ Export(s) \/ Import(s)
           \/ \E body \in Bodies : ImportProposal(s, body)
           \/ \E id \in 1..ids, body \in Bodies : ImportFile(s, id, body)
    \/ \E table \in Tables : Select(table)
    \/ WriteDump \/ RestoreRow \/ NextTable
    \/ Restored \/ RowRefused \/ ImportFails \/ ExportFails

Spec == Init /\ [][Next]_vars

-----------------------------------------------------------------------------

Row == [id : Nat, body : Bodies]

TypeOK ==
    /\ events \in [Stores -> SUBSET Nat]
    /\ \A s \in Stores : LossRows(s) \subseteq Nat \X (Stores \X Nat)
    /\ candidates \in [Stores -> SUBSET Row]
    /\ made \in Nat /\ ids \in Nat
    /\ puts \in [Stores -> SUBSET Row]
    /\ lost \in [Stores -> Nat]
    /\ dump.events \subseteq Nat /\ dump.candidates \subseteq Row
    /\ dump.whole \in BOOLEAN
    /\ job = Idle
       \/ /\ job.kind \in {"export", "import"} /\ job.store \in Stores
          /\ job.at \in Tables \cup {"end"}
    /\ IF job.kind # "import" THEN todo = {} ELSE
           CASE job.at = "events" -> todo \subseteq Nat
             [] job.at = "losses" -> todo \subseteq Nat \X (Stores \X Nat)
             [] job.at = "candidates" -> todo \subseteq Row
             [] OTHER -> todo = {}
    /\ outcome.how \in {"none", "ok"}

(* The uniqueness schema.sql:109-117 declares, across puts and restores    *)
(* of rows whose ids and bodies collide in any way.                        *)
CandidatesUnique ==
    \A s \in Stores : \A r1, r2 \in candidates[s] :
        r1.id = r2.id \/ r1.body = r2.body => r1 = r2

(* "Events are append-only" (docs/EVENT_MODEL.md:8): no command removes    *)
(* one, an import that fails half way included.                            *)
EventsAppendOnly ==
    [][\A s \in Stores : events[s] \subseteq events'[s]]_vars

(* Another body has been put under an id this body was put under: then the *)
(* later put deleted the row, as for a file edited between two imports.    *)
Overwritten(rows, body) ==
    \E p, q \in rows : p.body = body /\ q.body # body /\ q.id = p.id

(* A candidate that was imported into a root stays there under its hash,   *)
(* whatever is imported or restored later, under whatever id, unless one   *)
(* of its ids was put with another body (store.py:227-243, 351-383): a row *)
(* that a later row's hash deletes is there again under the later id.      *)
CandidateKept ==
    \A s \in Stores : \A p \in puts[s] :
        (\E r \in candidates[s] : r.body = p.body) \/ Overwritten(puts[s], p.body)

(* An import that says ok has restored the dump, whatever the other        *)
(* processes wrote meanwhile and however earlier imports ended: all of its *)
(* events, its losses under their numbers, and the bodies of its           *)
(* candidates, but for one that another body has since taken an id of.     *)
RestoreComplete ==
    outcome.how = "ok" /\ dump.whole =>
        /\ dump.events \subseteq events[outcome.store]
        /\ dump.losses \subseteq LossRows(outcome.store)
        /\ \A row \in dump.candidates :
               \/ \E r \in candidates[outcome.store] : r.body = row.body
               \/ Overwritten(puts[outcome.store], row.body)

(* event_losses never shows fewer losses than its plugin recorded, and a   *)
(* table that holds no other root's losses still holds each of its own:    *)
(* a restore by number (schema.sql:63) may put another root's loss into    *)
(* the place of one of this root, but never makes one disappear.           *)
LossesNotUndercounted ==
    \A s \in Stores :
        /\ Cardinality(DOMAIN losses[s]) >= lost[s]
        /\ (\A i \in DOMAIN losses[s] : losses[s][i][1] = s) =>
               \A n \in 1..lost[s] :
                   \E i \in DOMAIN losses[s] : losses[s][i] = <<s, n>>

=============================================================================
