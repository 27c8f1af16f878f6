------------------------ MODULE CandidateTrailProofs ------------------------
(***************************************************************************)
(* Verdicts and approvals are about the patch whose hash they name, as     *)
(* long as the candidate comes from the store, for every set of patches,   *)
(* task files and approvals and every order of edits, imports, experiments *)
(* and approvals.                                                          *)
(*                                                                         *)
(* The invariant is RowsTrue: the hash of a row is that of its patch, for  *)
(* validate_candidate computes it anew on every import, and a result of a  *)
(* row has the label that patch gets.                                      *)
(***************************************************************************)
EXTENDS CandidateTrail, TLAPS

(* The label depends on a candidate's patch, hash and status only: its id  *)
(* and the time do not matter (engine.py:41-110).                          *)
LEMMA LabelOf ==
    ASSUME NEW c, NEW d, NEW tasks,
           c.patch = d.patch, c.hash = d.hash, c.status = d.status
    PROVE  Label(c, tasks) = Label(d, tasks)
<1>1. ASSUME NEW task PROVE Succeeds(c, task) <=> Succeeds(d, task)
    BY DEF Succeeds
<1>2. FullRate(c, tasks) <=> FullRate(d, tasks)
    BY <1>1 DEF FullRate
<1>3. HardGate(c) <=> HardGate(d)
    BY DEF HardGate
<1>4. QED
    BY <1>2, <1>3 DEF Label

(* The clock is a number and approvals are what people made.               *)
Shape == now \in Nat /\ approvals \subseteq Approvals

(* The shape of candidates and results in every reachable state.           *)
LEMMA Shaped == Spec => []Shape
<1>1. Init => Shape
    BY DEF Init, Shape
<1>2. Shape /\ [Next]_vars => Shape'
  <2>1. SUFFICES ASSUME Shape, [Next]_vars PROVE Shape'
    OBVIOUS
  <2>2. ASSUME NEW a \in Approvals, Approve(a) PROVE Shape'
    BY <2>1, <2>2 DEF Shape, Approve
  <2>3. CASE Tick
    BY <2>1, <2>3 DEF Shape, Tick
  <2>4. CASE UNCHANGED <<now, approvals>>
    BY <2>1, <2>4 DEF Shape
  <2>5. QED
    BY <2>1, <2>2, <2>3, <2>4
    DEF Next, Refused, vars, Import, Edit, ExperimentFile, ExperimentRow, Evaluate, Promote
<1>3. QED
    BY <1>1, <1>2, PTL DEF Spec

-----------------------------------------------------------------------------
(* Every row of the table carries the hash of its own patch, and every     *)
(* result of a row the label of that patch.                                *)
THEOREM RowsCorrect == Spec => []RowsTrue
<1>1. Init => RowsTrue
    BY DEF Init, RowsTrue
<1>2. RowsTrue /\ [Next]_vars => RowsTrue'
  <2>0. SUFFICES ASSUME RowsTrue, [Next]_vars PROVE RowsTrue'
    OBVIOUS
  <2>1. ASSUME NEW f \in files, Import(f) PROVE RowsTrue'
    <3>1. PICK id : rows' = Stored(Validated(f, id)) /\ results' = results
      BY <2>1 DEF Import
    <3>2. \A r \in rows' : r.hash = r.patch /\ r.status = "validated"
      BY <2>0, <3>1 DEF RowsTrue, Stored, Validated
    <3>3. QED
      BY <2>0, <3>1, <3>2 DEF RowsTrue
  <2>2. ASSUME NEW f \in files, NEW tasks \in TaskLists, ExperimentFile(f, tasks)
        PROVE  RowsTrue'
    <3>1. PICK c : Evaluate(c, tasks, FALSE)
      BY <2>2 DEF ExperimentFile
    <3>2. rows' = rows /\ \A r \in results' : r.stored => r \in results
      BY <3>1 DEF Evaluate
    <3>3. QED
      BY <2>0, <3>2 DEF RowsTrue
  <2>3. ASSUME NEW r \in rows, NEW tasks \in TaskLists, ExperimentRow(r, tasks)
        PROVE  RowsTrue'
    <3> DEFINE new == [hash |-> r.hash, label |-> Label(r, tasks), patch |-> r.patch,
                       tasks |-> tasks, stored |-> TRUE]
               twin == [id |-> 0, patch |-> r.patch, hash |-> r.patch,
                        status |-> "validated"]
    <3>1. rows' = rows /\ results' = results \cup {new}
      BY <2>3 DEF ExperimentRow, Evaluate
    <3>2. r.hash = r.patch /\ r.status = "validated"
      BY <2>0 DEF RowsTrue
    <3>3. Label(r, tasks) = Label(twin, tasks)
      BY <3>2, LabelOf
    <3>4. new.hash = new.patch /\ new.label = Label([id |-> 0, patch |-> new.patch,
              hash |-> new.patch, status |-> "validated"], new.tasks)
      BY <3>2, <3>3
    <3>5. \A s \in results' : s \in results \/ s = new
      BY <3>1
    <3> HIDE DEF new, twin
    <3>6. QED
      BY <2>0, <3>1, <3>4, <3>5 DEF RowsTrue
  <2>4. CASE UNCHANGED <<rows, results>>
    BY <2>0, <2>4 DEF RowsTrue
  <2>5. QED
    BY <2>0, <2>1, <2>2, <2>3, <2>4
    DEF Next, Refused, vars, Edit, Approve, Tick, Promote
<1>3. QED
    BY <1>1, <1>2, PTL DEF Spec

(* Two results of stored candidates with the same candidate_hash over the  *)
(* same tasks agree, and are about the same patch.                         *)
THEOREM VerdictCorrect == Spec => []SameVerdict
<1>1. RowsTrue => SameVerdict
  <2>1. SUFFICES ASSUME RowsTrue, NEW r \in results, NEW s \in results,
                        r.stored, s.stored, r.hash = s.hash, r.tasks = s.tasks
                 PROVE  r.label = s.label /\ r.patch = s.patch
    BY DEF SameVerdict
  <2>2. r.patch = s.patch
    BY <2>1 DEF RowsTrue
  <2>3. QED
    BY <2>1, <2>2, Zenon DEF RowsTrue
<1>2. QED
    BY <1>1, RowsCorrect, PTL

(* What comes past the gate of promotion as a stored candidate is the      *)
(* patch that was approved, by an approval that had not expired.           *)
THEOREM GateCorrect == Spec => []GateTruthful
<1>1. Init => GateTruthful
    BY DEF Init, GateTruthful
<1>2. Shape /\ RowsTrue /\ GateTruthful /\ [Next]_vars => GateTruthful'
  <2>0. SUFFICES ASSUME Shape, RowsTrue, GateTruthful, [Next]_vars
                 PROVE  GateTruthful'
    OBVIOUS
  <2>1. ASSUME NEW a \in approvals, NEW enabled, NEW automatic, NEW stored, NEW c,
               Promote(c, a, enabled, automatic, stored),
               stored => c.hash = c.patch
        PROVE  GateTruthful'
    <3> DEFINE new == [hash |-> c.hash, patch |-> c.patch, by |-> a.by,
                       approved |-> a.hash, expires |-> a.expires,
                       at |-> now, stored |-> stored]
    <3>1. passed' = passed \cup {new}
      BY <2>1 DEF Promote
    <3>2. /\ a.by = "human" /\ a.hash = c.hash
          /\ a.expires # Never => a.expires >= now
      BY <2>1 DEF Promote, Approved
    <3>3. a.expires \in Int /\ now \in Int
      BY <2>0, ApprovalAssumption DEF Shape
    <3>4. /\ new.by = "human"
          /\ new.expires # Never => new.at <= new.expires
          /\ new.stored => new.patch = new.approved
      BY <2>1, <3>2, <3>3
    <3>5. \A g \in passed' : g \in passed \/ g = new
      BY <3>1
    <3> HIDE DEF new
    <3>6. QED
      BY <2>0, <3>4, <3>5 DEF GateTruthful
  <2>2. ASSUME NEW r \in rows PROVE r.hash = r.patch
    BY <2>0, <2>2 DEF RowsTrue
  <2>3. CASE UNCHANGED passed
    BY <2>0, <2>3 DEF GateTruthful
  <2>4. QED
    BY <2>0, <2>1, <2>2, <2>3
    DEF Next, Refused, vars, Import, Edit, ExperimentFile, ExperimentRow, Evaluate,
        Approve, Tick
<1>3. QED
    BY <1>1, <1>2, Shaped, RowsCorrect, PTL DEF Spec

-----------------------------------------------------------------------------
(* FIXTURE_PASS is given only for a full rate of at least one task, with   *)
(* the token found, or validators of known types.                          *)
LEMMA PassIsEarned ==
    ASSUME NEW c, NEW tasks \in TaskLists, Label(c, tasks) = "FIXTURE_PASS",
           NEW r, r.patch = c.patch, r.tasks = tasks
    PROVE  Len(r.tasks) > 0 /\ \A n \in DOMAIN r.tasks : Earned(r, r.tasks[n])
<1>1. tasks # <<>> /\ \A n \in DOMAIN tasks : Succeeds(c, tasks[n])
    BY DEF Label, FullRate
<1>2. Len(tasks) > 0
  <2>1. PICK S : tasks \in Seq(S)
    BY TaskAssumption
  <2> QED
    BY <1>1, <2>1
<1>3. ASSUME NEW v, NEW hit, Holds(v, hit)
      PROVE  v.type \in {"artifact_exists", "equals", "contains"}
    BY <1>3 DEF Holds
<1>4. ASSUME NEW n \in DOMAIN tasks PROVE Earned(r, tasks[n])
  <2>1. Succeeds(c, tasks[n])
    BY <1>1
  <2> QED
    BY <1>3, <2>1 DEF Succeeds, Earned
<1> QED
    BY <1>2, <1>4

(* FIXTURE_PASS is earned: there was a task, a task without validators     *)
(* found its token in the patch evaluated or passes always, and every      *)
(* validator is of a known type (engine.py:32-37, 98-106, metrics.py:25).  *)
THEOREM PassCorrect == Spec => []PassEarned
<1>1. Init => PassEarned
    BY DEF Init, PassEarned
<1>2. PassEarned /\ [Next]_vars => PassEarned'
  <2> SUFFICES ASSUME PassEarned, [Next]_vars PROVE PassEarned'
    OBVIOUS
  <2>1. ASSUME NEW c, NEW tasks \in TaskLists, NEW stored,
               Evaluate(c, tasks, stored)
        PROVE  PassEarned'
    <3>1. PICK new : new = [hash |-> c.hash, label |-> Label(c, tasks),
                            patch |-> c.patch, tasks |-> tasks,
                            stored |-> stored]
      OBVIOUS
    <3>2. results' = results \cup {new}
      BY <2>1, <3>1 DEF Evaluate
    <3>3. /\ new.label = Label(c, tasks)
          /\ new.patch = c.patch /\ new.tasks = tasks
      BY <3>1
    <3>4. new.label = "FIXTURE_PASS" =>
            /\ Len(new.tasks) > 0
            /\ \A n \in DOMAIN new.tasks : Earned(new, new.tasks[n])
      BY <3>3, PassIsEarned
    <3> QED
      BY <3>2, <3>4 DEF PassEarned
  <2>2. CASE UNCHANGED results
    BY <2>2 DEF PassEarned
  <2> QED
    BY <2>1, <2>2
    DEF Next, Refused, vars, Import, Edit, ExperimentFile, ExperimentRow,
        Approve, Tick, Promote
<1> QED
    BY <1>1, <1>2, PTL DEF Spec

-----------------------------------------------------------------------------
(* The files are candidates, and the table is one: INSERT OR REPLACE keeps *)
(* its ids and its hashes unique whatever files are imported.              *)
THEOREM TypeCorrect == Spec => []TypeOK
<1> USE BoundAssumption
<1>1. Init => TypeOK
    BY DEF Init, TypeOK, Candidates, Statuses
<1>2. TypeOK /\ [Next]_vars => TypeOK'
  <2> SUFFICES ASSUME TypeOK, [Next]_vars PROVE TypeOK'
    OBVIOUS
  <2>1. ASSUME NEW f \in files, Import(f) PROVE TypeOK'
    <3>1. PICK id : /\ id = IF f.id = 0 THEN made + 1 ELSE f.id
                    /\ id <= MaxIds
                    /\ made' = IF f.id = 0 THEN made + 1 ELSE made
                    /\ rows' = Stored(Validated(f, id))
                    /\ files' \in {files, {g \in files : g.id # id}
                                            \cup {Validated(f, id)}}
                    /\ UNCHANGED <<edits, results, approvals, now, passed>>
      BY <2>1 DEF Import
    <3>2. PICK c : c = Validated(f, id)
      OBVIOUS
    <3>3. /\ f \in Candidates /\ made \in 0 .. MaxIds
          /\ f.id \in 0 .. MaxIds /\ f.patch \in Patches
      BY DEF TypeOK, Candidates
    <3>4. id \in 0 .. MaxIds /\ made' \in 0 .. MaxIds
      BY <3>1, <3>3
    <3>5. c \in Candidates /\ c.hash # NoHash
      BY <3>2, <3>3, <3>4, PatchAssumption
      DEF Validated, Candidates, Statuses
    <3>6. rows' = {r \in rows : r.id # c.id /\ r.hash # c.hash} \cup {c}
      BY <3>1, <3>2 DEF Stored
    <3>7. \A r, s \in rows' : r.id = s.id \/ r.hash = s.hash => r = s
      BY <3>6 DEF TypeOK
    <3>8. files' \subseteq Candidates
      BY <3>1, <3>2, <3>5 DEF TypeOK
    <3> QED
      BY <3>1, <3>4, <3>5, <3>6, <3>7, <3>8 DEF TypeOK
  <2>2. ASSUME NEW f \in files, NEW p \in Patches,
               NEW s \in {"validated", "rejected"}, Edit(f, p, s)
        PROVE  TypeOK'
    <3>1. f \in Candidates
      BY DEF TypeOK
    <3>2. [f EXCEPT !.patch = p, !.status = s] \in Candidates
      BY <3>1 DEF Candidates, Statuses
    <3> QED
      BY <2>2, <3>2 DEF Edit, TypeOK
  <2>3. ASSUME NEW c, NEW tasks, NEW stored, Evaluate(c, tasks, stored)
        PROVE  TypeOK'
    <3>1. PICK new : new = [hash |-> c.hash, label |-> Label(c, tasks),
                            patch |-> c.patch, tasks |-> tasks,
                            stored |-> stored]
      OBVIOUS
    <3>2. results' = results \cup {new}
      BY <2>3, <3>1 DEF Evaluate
    <3>3. new.label \in {"INVALID", "FIXTURE_PASS", "FIXTURE_FAIL"}
      BY <3>1 DEF Label
    <3> QED
      BY <2>3, <3>2, <3>3 DEF Evaluate, TypeOK
  <2>4. ASSUME NEW a \in Approvals, Approve(a) PROVE TypeOK'
    BY <2>4 DEF Approve, TypeOK
  <2>5. CASE Tick
    BY <2>5 DEF Tick, TypeOK
  <2>6. CASE UNCHANGED <<files, rows, made, edits, results, approvals, now>>
    BY <2>6 DEF TypeOK
  <2> QED
    BY <2>1, <2>2, <2>3, <2>4, <2>5, <2>6
    DEF Next, Refused, vars, ExperimentFile, ExperimentRow, Promote
<1> QED
    BY <1>1, <1>2, PTL DEF Spec
=============================================================================
