--------------------------- MODULE CandidateTrail ---------------------------
(***************************************************************************)
(* The way of candidates from a file to a verdict and to the gate of       *)
(* promotion: `candidate import`, `experiment run` with the synthetic      *)
(* backend, `approval create` and `promote` (validate.py, engine.py,       *)
(* approval.py, promote.py, cli.py), by people who edit the files between  *)
(* the commands and while an approval expires.  A step is a command: each  *)
(* reads its files once, and makes its changes at its end.                 *)
(*                                                                         *)
(* A candidate is its id (0: none yet), the body its hash covers, here its *)
(* patch, its candidate_hash, given by the patch it is the hash of, and    *)
(* its status, which the hash does not cover.                              *)
(***************************************************************************)
EXTENDS Integers, Sequences, FiniteSets

CONSTANTS
    Patches,    \* the patches people write
    Sound,      \* those validate_candidate accepts
    Contains,   \* pairs of a patch and a token that is part of it
    TaskLists,  \* the task files
    Approvals,  \* the approval files people make
    MaxIds,     \* bound: how many candidate ids are made
    MaxEdits,   \* bound: how many edits
    MaxResults, MaxApprovals, MaxPassed,  \* bounds: how many of each
    MaxTime,    \* bound: the clock
    NoHash      \* a candidate without candidate_hash

ASSUME PatchAssumption == Sound \subseteq Patches /\ NoHash \notin Patches
ASSUME ApprovalAssumption ==
    \A a \in Approvals : a.decision \in {"approve", "reject"} /\ a.expires \in Int
(* Tasks and their validators are lists.                                   *)
ASSUME TaskAssumption ==
    \A tasks \in TaskLists : tasks \in Seq({tasks[n] : n \in DOMAIN tasks})
ASSUME BoundAssumption ==
    {MaxIds, MaxEdits, MaxResults, MaxApprovals, MaxPassed, MaxTime} \subseteq Nat

Statuses   == {"none", "validated", "rejected"}
Candidates == [id : 0 .. MaxIds, patch : Patches,
               hash : Patches \cup {NoHash}, status : Statuses]
Never      == -1  \* expires_at is None

VARIABLES
    files,      \* the candidate files
    rows,       \* the table candidates
    made,       \* how many ids were made
    edits,      \* how often a file was edited
    results,    \* the table evaluation_results, and what was evaluated
    approvals,  \* the approval files made so far
    now,        \* the clock
    passed      \* history: the promotions that came past the gate

vars == <<files, rows, made, edits, results, approvals, now, passed>>

Init ==
    /\ files = {[id |-> 0, patch |-> p, hash |-> NoHash, status |-> "none"] :
                    p \in Patches}
    /\ rows = {} /\ made = 0 /\ edits = 0
    /\ results = {} /\ approvals = {}
    /\ now = 0 /\ passed = {}

-----------------------------------------------------------------------------
(* validate_candidate and `candidate import`.                              *)

(* Mutation: a hash the file has is believed.                              *)
ValidatedKeepingHash(c, id) ==
    [id |-> id, patch |-> c.patch, status |-> "validated",
     hash |-> IF c.hash = NoHash THEN c.patch ELSE c.hash]

(* The hash is computed anew whatever the file says, and so is the status. *)
Validated(c, id) ==
    [id |-> id, patch |-> c.patch, status |-> "validated", hash |-> c.patch]

(* put_candidate: INSERT OR REPLACE, with candidate_hash UNIQUE.           *)
Stored(c) == {r \in rows : r.id # c.id /\ r.hash # c.hash} \cup {c}

(* The candidate is stored, then written to the file of its id; a command  *)
(* that dies in between leaves the file as it was (or torn: then no        *)
(* command takes it, as if it were left alone).                            *)
Import(f) ==
    LET id     == IF f.id = 0 THEN made + 1 ELSE f.id
        c      == Validated(f, id)
    IN  /\ f.patch \in Sound /\ id <= MaxIds
        /\ made' = IF f.id = 0 THEN made + 1 ELSE made
        /\ rows' = Stored(c)
        /\ files' \in {files, {g \in files : g.id # id} \cup {c}}
        /\ UNCHANGED <<edits, results, approvals, now, passed>>

Edit(f, p, s) ==
    /\ edits < MaxEdits
    /\ edits' = edits + 1
    /\ files' = (files \ {f}) \cup {[f EXCEPT !.patch = p, !.status = s]}
    /\ UNCHANGED <<rows, made, results, approvals, now, passed>>

-----------------------------------------------------------------------------
(* evaluate_candidate_synthetic_fixture.                                   *)

Artifact(key, hit) ==
    CASE key = "output" -> IF hit THEN "ok" ELSE "miss"
      [] key = "contains_expected_token" -> IF hit THEN "True" ELSE "False"
      [] key = "patch_len" -> "number"
      [] OTHER -> ""

Names == {"output", "contains_expected_token", "patch_len"}

(* Mutation: a validator of an unknown type is skipped.                    *)
HoldsUnlessKnown(v, hit) ==
    CASE v.type = "artifact_exists" -> v.key \in Names
      [] v.type \in {"equals", "contains"} -> Artifact(v.key, hit) = v.value
      [] OTHER -> TRUE

(* The value of a contains validator is part of the artifact when it is    *)
(* all of it or empty; a key that is no artifact is None or "", and equals *)
(* or contains the None or "" of a validator that has no value.            *)
Holds(v, hit) ==
    CASE v.type = "artifact_exists" -> v.key \in Names
      [] v.type = "equals" -> Artifact(v.key, hit) = v.value
      [] v.type = "contains" -> v.value \in {"", Artifact(v.key, hit)}
      [] OTHER -> FALSE

(* Validators, where a task has some, take the place of the token.         *)
Succeeds(c, task) ==
    LET hit == <<c.patch, task.token>> \in Contains \/ task.always
    IN  IF task.validators = <<>> THEN hit
        ELSE \A n \in DOMAIN task.validators : Holds(task.validators[n], hit)

HardGate(c) == c.status # "rejected" /\ c.hash # NoHash

(* task_success_rate >= 1.0; the rate of no task is zero.                  *)
FullRate(c, tasks) ==
    tasks # <<>> /\ \A n \in DOMAIN tasks : Succeeds(c, tasks[n])

Label(c, tasks) ==
    IF ~HardGate(c) THEN "INVALID"
    ELSE IF FullRate(c, tasks) THEN "FIXTURE_PASS" ELSE "FIXTURE_FAIL"

(* `experiment run`, of a file or of the id of a row.  A candidate that    *)
(* has a hash is not validated again.                                      *)
Evaluate(c, tasks, stored) ==
    /\ Cardinality(results) < MaxResults
    /\ results' = results \cup
           {[hash |-> c.hash, label |-> Label(c, tasks), patch |-> c.patch,
             tasks |-> tasks, stored |-> stored]}
    /\ UNCHANGED <<files, rows, made, edits, approvals, now, passed>>

ExperimentFile(f, tasks) ==
    \/ f.hash # NoHash /\ Evaluate(f, tasks, FALSE)
    \/ f.hash = NoHash /\ f.patch \in Sound /\ Evaluate(Validated(f, 0), tasks, FALSE)

ExperimentRow(r, tasks) == Evaluate(r, tasks, TRUE)

-----------------------------------------------------------------------------
(* `approval create`, whose file people complete, and `promote`.           *)

Approve(a) ==
    /\ Cardinality(approvals) < MaxApprovals
    /\ approvals' = approvals \cup {a}
    /\ UNCHANGED <<files, rows, made, edits, results, now, passed>>

Tick ==
    /\ now < MaxTime
    /\ now' = now + 1
    /\ UNCHANGED <<files, rows, made, edits, results, approvals, passed>>

(* Mutation: an approval lasts for ever.                                   *)
ApprovedForEver(a, hash) ==
    /\ a.decision = "approve" /\ a.hash = hash
    /\ a.by = "human"

(* verify_approval as the command calls it: no baseline, evaluator or      *)
(* dataset hash is expected.  Who approves is a person, not nobody, a name *)
(* that begins with cand_ or the candidate's hash.                         *)
Approved(a, hash) ==
    /\ a.decision = "approve" /\ a.hash = hash
    /\ a.by = "human"
    /\ a.expires # Never => a.expires >= now

(* promote_candidate up to NOT_IMPLEMENTED_BY_DESIGN: nothing is promoted, *)
(* whichever way the gate is left.                                         *)
Promote(c, a, enabled, automatic, stored) ==
    /\ ~automatic /\ enabled
    /\ Approved(a, c.hash)
    /\ Cardinality(passed) < MaxPassed
    /\ passed' = passed \cup {[hash |-> c.hash, patch |-> c.patch, by |-> a.by,
                               approved |-> a.hash, expires |-> a.expires,
                               at |-> now, stored |-> stored]}
    /\ UNCHANGED <<files, rows, made, edits, results, approvals, now>>

(* A command that refuses (an invalid candidate, no such id, a promotion   *)
(* without approval) prints why and changes nothing.                       *)
Refused == UNCHANGED vars

Next ==
    \/ Refused
    \/ \E f \in files :
           \/ Import(f)
           \/ \E p \in Patches, s \in {"validated", "rejected"} : Edit(f, p, s)
           \/ \E tasks \in TaskLists : ExperimentFile(f, tasks)
    \/ \E r \in rows, tasks \in TaskLists : ExperimentRow(r, tasks)
    \/ \E a \in Approvals : Approve(a)
    \/ Tick
    \/ \E a \in approvals, enabled, automatic \in BOOLEAN :
           \/ \E f \in files : Promote(f, a, enabled, automatic, FALSE)
           \/ \E r \in rows : Promote(r, a, enabled, automatic, TRUE)

Spec == Init /\ [][Next]_vars

-----------------------------------------------------------------------------
TypeOK ==
    /\ files \subseteq Candidates
    /\ rows \subseteq {c \in Candidates : c.hash # NoHash}
    /\ \A r, s \in rows : r.id = s.id \/ r.hash = s.hash => r = s
    /\ made \in 0 .. MaxIds /\ edits \in 0 .. MaxEdits
    /\ approvals \subseteq Approvals
    /\ now \in 0 .. MaxTime
    /\ \A r \in results : r.label \in {"INVALID", "FIXTURE_PASS", "FIXTURE_FAIL"}

(* FIXTURE_PASS is earned (engine.py:32-37, 98-106, metrics.py:25): there  *)
(* was a task, every validator of every task is of a known type, and a     *)
(* task without validators found its token in the patch evaluated, or      *)
(* passes always.                                                          *)
Earned(r, task) ==
    IF task.validators = <<>>
    THEN <<r.patch, task.token>> \in Contains \/ task.always
    ELSE \A n \in DOMAIN task.validators :
             task.validators[n].type \in {"artifact_exists", "equals", "contains"}

PassEarned ==
    \A r \in results : r.label = "FIXTURE_PASS" =>
        /\ Len(r.tasks) > 0
        /\ \A n \in DOMAIN r.tasks : Earned(r, r.tasks[n])

(* "Deterministic evaluation" (engine.py:1): two results of stored         *)
(* candidates with the same candidate_hash over the same tasks have the    *)
(* same label and were of the same patch, whatever was edited and imported *)
(* between them.                                                           *)
SameVerdict ==
    \A r, s \in results :
        r.stored /\ s.stored /\ r.hash = s.hash /\ r.tasks = s.tasks =>
            r.label = s.label /\ r.patch = s.patch

(* What comes past the gate of promotion as a stored candidate is the      *)
(* patch a person approved, by an approval that had not expired then,      *)
(* whatever was edited and imported after the approval (promote.py:40-47). *)
GateTruthful ==
    \A g \in passed :
        /\ g.by = "human"
        /\ g.expires # Never => g.at <= g.expires
        /\ g.stored => g.patch = g.approved

(* The row of a candidate carries the hash of its body: what the two       *)
(* properties above rest on.                                               *)
RowsTrue ==
    /\ \A r \in rows : r.hash = r.patch /\ r.status = "validated"
    /\ \A r \in results : r.stored =>
           /\ r.hash = r.patch
           /\ r.label = Label([id |-> 0, patch |-> r.patch, hash |-> r.patch,
                               status |-> "validated"], r.tasks)
=============================================================================
