----------------------- MODULE ResearchStoreProofs -----------------------
(***************************************************************************)
(* What holds of the tables whatever the roots, the candidates, their ids  *)
(* and the order and fate of the commands: events are append-only,         *)
(* candidates are unique, and the body of one that was put stays under its *)
(* hash until another body takes its id; no loss goes uncounted, and an    *)
(* import that says ok has restored the dump.                              *)
(***************************************************************************)
EXTENDS ResearchStore, FiniteSetTheorems, TLAPS

(* The shapes of the records and tables the arguments are about.           *)
DumpShape ==
    \E E, C, L, w :
        /\ E \in SUBSET Nat /\ C \in SUBSET Row
        /\ dump = [events |-> E, losses |-> L, candidates |-> C, whole |-> w]

JobShape ==
    \/ job = Idle
    \/ \E s \in Stores, t \in Tables \cup {"end"} :
           job = [kind |-> "export", store |-> s, at |-> t]
    \/ \E s \in Stores, t \in Tables :
           job = [kind |-> "import", store |-> s, at |-> t]

TodoShape ==
    job.kind = "import" =>
        /\ job.at = "events" => todo \subseteq Nat
        /\ job.at = "candidates" => todo \subseteq Row

Shape ==
    /\ events \in [Stores -> SUBSET Nat]
    /\ candidates \in [Stores -> SUBSET Row]
    /\ puts \in [Stores -> SUBSET Row]
    /\ made \in Nat /\ ids \in Nat
    /\ DumpShape /\ JobShape /\ TodoShape

(* What a dump of this shape holds.                                        *)
LEMMA DumpFacts ==
    ASSUME DumpShape
    PROVE  /\ dump.events \subseteq Nat /\ dump.candidates \subseteq Row
    BY DEF DumpShape

(* A dump nobody touches keeps its shape.                                  *)
LEMMA DumpSame ==
    ASSUME DumpShape, UNCHANGED dump
    PROVE  DumpShape'
    BY DEF DumpShape

(* What a put or a restore does to the rows of one table.                  *)
LEMMA ReplaceRows ==
    ASSUME NEW rows, NEW row
    PROVE  /\ Replace(rows, row) \subseteq rows \cup {row}
           /\ row \in Replace(rows, row)
    BY DEF Replace

(* The rows of a table and the rows put into it: no two share an id or a   *)
(* body, and each body put is there unless another took one of its ids.    *)
Held(rows, said) ==
    /\ \A r1, r2 \in rows : r1.id = r2.id \/ r1.body = r2.body => r1 = r2
    /\ rows \subseteq said
    /\ \A p \in said : (\E r \in rows : r.body = p.body) \/ Overwritten(said, p.body)

(* INSERT OR REPLACE keeps this, whatever the id and the body of the row:  *)
(* of the rows it deletes one may have the new row's id, and its body is   *)
(* then overwritten, and one its body, which is there again.               *)
LEMMA HeldReplace ==
    ASSUME NEW rows, NEW said, NEW row, Held(rows, said)
    PROVE  Held(Replace(rows, row), said \cup {row})
<1> DEFINE after == Replace(rows, row)
           more  == said \cup {row}
<1>1. row \in after /\ \A r \in after : r = row \/ (r \in rows /\ r.id # row.id /\ r.body # row.body)
    BY DEF Replace
<1>2. \A r \in rows : r.id # row.id /\ r.body # row.body => r \in after
    BY DEF Replace
<1>3. \A b : Overwritten(said, b) => Overwritten(more, b)
    BY DEF Overwritten
<1> HIDE DEF after
<1>4. \A r1, r2 \in after : r1.id = r2.id \/ r1.body = r2.body => r1 = r2
    BY <1>1 DEF Held
<1>5. after \subseteq more
    BY <1>1 DEF Held
<1>6. ASSUME NEW p \in more
      PROVE  (\E r \in after : r.body = p.body) \/ Overwritten(more, p.body)
  <2>1. CASE p.body = row.body
    BY <1>1, <2>1
  <2>2. CASE p.body # row.body
    <3>1. (\E r \in rows : r.body = p.body) \/ Overwritten(said, p.body)
      BY <2>2 DEF Held
    <3>2. CASE Overwritten(said, p.body)
      BY <1>3, <3>2
    <3>3. ASSUME NEW r \in rows, r.body = p.body
          PROVE  (\E q \in after : q.body = p.body) \/ Overwritten(more, p.body)
      <4>1. CASE r.id = row.id
        <5>1. r \in more /\ row \in more
          BY DEF Held
        <5> QED
          BY <2>2, <3>3, <4>1, <5>1 DEF Overwritten
      <4>2. CASE r.id # row.id
        BY <1>2, <2>2, <3>3, <4>2
      <4> QED
        BY <4>1, <4>2
    <3> QED
      BY <3>1, <3>2, <3>3
  <2> QED
    BY <2>1, <2>2
<1>7. Held(after, more)
    BY <1>4, <1>5, <1>6 DEF Held
<1> QED
    BY <1>7 DEF after

HeldInv == \A s \in Stores : Held(candidates[s], puts[s])

(* One row more in one table.                                              *)
LEMMA HeldPut ==
    ASSUME Shape, HeldInv, NEW s \in Stores, NEW row,
           candidates' = [candidates EXCEPT ![s] = Replace(@, row)],
           puts' = [puts EXCEPT ![s] = @ \cup {row}]
    PROVE  HeldInv'
<1> SUFFICES ASSUME NEW t \in Stores PROVE Held(candidates'[t], puts'[t])
    BY DEF HeldInv
<1>1. CASE t = s
  <2>1. candidates'[t] = Replace(candidates[t], row) /\ puts'[t] = puts[t] \cup {row}
    BY <1>1 DEF Shape
  <2> QED
    BY <2>1, HeldReplace DEF HeldInv
<1>2. CASE t # s
  <2>1. candidates'[t] = candidates[t] /\ puts'[t] = puts[t]
    BY <1>2 DEF Shape
  <2> QED
    BY <2>1 DEF HeldInv
<1> QED
    BY <1>1, <1>2

(* Every step keeps the shapes.                                            *)
LEMMA ShapeStep ==
    ASSUME Shape, [Next]_vars
    PROVE  Shape'
<1> USE DEF Shape, tableVars
<1>1. CASE \E s \in Stores : InsertEvent(s)
    BY <1>1, DumpSame DEF InsertEvent, jobVars, JobShape, TodoShape
<1>2. CASE \E s \in Stores : RecordLoss(s)
    BY <1>2, DumpSame DEF RecordLoss, jobVars, JobShape, TodoShape
<1>3. CASE \E s \in Stores : Export(s)
  <2>1. DumpShape'
    BY <1>3 DEF Export, NoDump, DumpShape
  <2>2. JobShape' /\ job'.kind = "export"
    BY <1>3 DEF Export, JobShape, Tables
  <2> QED
    BY <1>3, <2>1, <2>2 DEF Export, TodoShape
<1>4. CASE \E s \in Stores : Import(s)
  <2>1. PICK s \in Stores :
            /\ job' = [kind |-> "import", store |-> s, at |-> "events"]
            /\ puts' = [puts EXCEPT ![s] = candidates[s]]
    BY <1>4 DEF Import
  <2>2. JobShape' /\ job'.at = "events"
    BY <2>1 DEF JobShape, Tables
  <2>4. DumpShape' /\ dump.events \subseteq Nat
    BY <1>4, DumpSame, DumpFacts DEF Import
  <2>3. todo' = dump.events
    BY <1>4 DEF Import, RowsOf
  <2>5. puts' \in [Stores -> SUBSET Row]
    BY <2>1
  <2> QED
    BY <1>4, <2>2, <2>3, <2>4, <2>5 DEF Import, TodoShape
<1>5. CASE \E s \in Stores : \E body \in Bodies : ImportProposal(s, body)
  <2>1. PICK s \in Stores, body \in Bodies : ImportProposal(s, body)
    BY <1>5
  <2>2. PICK row : row = [id |-> ids', body |-> body]
    OBVIOUS
  <2>3. row \in Row /\ ids' \in Nat
    BY <2>1, <2>2 DEF ImportProposal, Row
  <2>4. /\ candidates' = [candidates EXCEPT ![s] = Replace(@, row)]
        /\ puts' = [puts EXCEPT ![s] = @ \cup {row}]
    BY <2>1, <2>2 DEF ImportProposal, PutCandidate
  <2>5. candidates' \in [Stores -> SUBSET Row] /\ puts' \in [Stores -> SUBSET Row]
    BY <2>3, <2>4, ReplaceRows
  <2>6. DumpShape' /\ JobShape' /\ TodoShape'
    BY <2>1, DumpSame DEF ImportProposal, PutCandidate, jobVars, JobShape, TodoShape
  <2> QED
    BY <2>1, <2>3, <2>5, <2>6 DEF ImportProposal, PutCandidate
<1>6. CASE \E s \in Stores : \E id \in 1..ids, body \in Bodies : ImportFile(s, id, body)
  <2>1. PICK s \in Stores, id \in 1..ids, body \in Bodies : ImportFile(s, id, body)
    BY <1>6
  <2>2. PICK row : row = [id |-> id, body |-> body]
    OBVIOUS
  <2>3. row \in Row /\ ids' \in Nat
    BY <2>1, <2>2 DEF ImportFile, Row
  <2>4. /\ candidates' = [candidates EXCEPT ![s] = Replace(@, row)]
        /\ puts' = [puts EXCEPT ![s] = @ \cup {row}]
    BY <2>1, <2>2 DEF ImportFile, PutCandidate
  <2>5. candidates' \in [Stores -> SUBSET Row] /\ puts' \in [Stores -> SUBSET Row]
    BY <2>3, <2>4, ReplaceRows
  <2>6. DumpShape' /\ JobShape' /\ TodoShape'
    BY <2>1, DumpSame DEF ImportFile, PutCandidate, jobVars, JobShape, TodoShape
  <2> QED
    BY <2>1, <2>3, <2>5, <2>6 DEF ImportFile, PutCandidate
<1>7. CASE \E table \in Tables : Select(table)
  <2>1. PICK table \in Tables : Select(table)
    BY <1>7
  <2>2. PICK s \in Stores :
            job = [kind |-> "export", store |-> s, at |-> table]
    BY <2>1 DEF Select, JobShape, Idle, Tables
  <2>3. JobShape' /\ job'.kind = "export"
    BY <2>1, <2>2 DEF Select, JobShape, After, Tables
  <2>4. DumpShape'
    <3>1. PICK E, C, L, w :
              /\ E \in SUBSET Nat /\ C \in SUBSET Row
              /\ dump = [events |-> E, losses |-> L, candidates |-> C, whole |-> w]
      BY DEF DumpShape
    <3>2. events[s] \in SUBSET Nat /\ candidates[s] \in SUBSET Row
      OBVIOUS
    <3>3. CASE table = "events"
      <4>1. dump' =
              [events |-> events[s], losses |-> L, candidates |-> C, whole |-> w]
        BY <2>1, <2>2, <3>1, <3>3 DEF Select
      <4> QED
        BY <3>1, <3>2, <4>1 DEF DumpShape
    <3>4. CASE table = "losses"
      <4>1. dump' =
              [events |-> E, losses |-> LossRows(s), candidates |-> C, whole |-> w]
        BY <2>1, <2>2, <3>1, <3>4 DEF Select
      <4> QED
        BY <3>1, <3>2, <4>1 DEF DumpShape
    <3>5. CASE table = "candidates"
      <4>1. dump' =
              [events |-> E, losses |-> L, candidates |-> candidates[s], whole |-> w]
        BY <2>1, <2>2, <3>1, <3>5 DEF Select
      <4> QED
        BY <3>1, <3>2, <4>1 DEF DumpShape
    <3> QED
      BY <3>3, <3>4, <3>5 DEF Tables
  <2> QED
    BY <2>1, <2>3, <2>4 DEF Select, TodoShape
<1>8. CASE WriteDump
  <2>1. DumpShape'
    <3>1. PICK E, C, L, w :
              /\ E \in SUBSET Nat /\ C \in SUBSET Row
              /\ dump = [events |-> E, losses |-> L, candidates |-> C, whole |-> w]
      BY DEF DumpShape
    <3>2. dump' = [events |-> E, losses |-> L, candidates |-> C, whole |-> TRUE]
      BY <1>8, <3>1 DEF WriteDump
    <3> QED
      BY <3>1, <3>2 DEF DumpShape
  <2>2. JobShape' /\ job'.kind = "none"
    BY <1>8 DEF WriteDump, JobShape, Idle
  <2> QED
    BY <1>8, <2>1, <2>2 DEF WriteDump, TodoShape
<1>9. CASE RestoreRow
  <2>1. PICK row \in todo : Restore(job.store, job.at, row)
                             /\ todo' = todo \ {row}
    BY <1>9 DEF RestoreRow
  <2>2. job.store \in Stores
    BY <1>9 DEF RestoreRow, JobShape, Idle
  <2>3. job.at = "events" => row \in Nat
    BY <1>9, <2>1 DEF RestoreRow, TodoShape
  <2>4. job.at = "candidates" => row \in Row
    BY <1>9, <2>1 DEF RestoreRow, TodoShape
  <2>5. events' \in [Stores -> SUBSET Nat]
    BY <2>1, <2>2, <2>3 DEF Restore
  <2>6. candidates' \in [Stores -> SUBSET Row] /\ puts' \in [Stores -> SUBSET Row]
    BY <2>1, <2>2, <2>4, ReplaceRows DEF Restore
  <2>7. TodoShape' /\ DumpShape' /\ JobShape'
    BY <1>9, <2>1, DumpSame DEF RestoreRow, TodoShape, JobShape
  <2> QED
    BY <1>9, <2>5, <2>6, <2>7 DEF RestoreRow
<1>10. CASE NextTable
  <2>1. PICK s \in Stores, t \in Tables \ {"candidates"} :
            job = [kind |-> "import", store |-> s, at |-> t]
    BY <1>10 DEF NextTable, JobShape, Idle
  <2>2. JobShape' /\ job'.at = After(t)
    BY <1>10, <2>1 DEF NextTable, JobShape, After, Tables
  <2>3. /\ After(t) # "events"
        /\ After(t) = "candidates" => todo' = dump.candidates
    BY <1>10, <2>1 DEF NextTable, After, RowsOf, Tables
  <2>4. DumpShape' /\ dump.candidates \subseteq Row
    BY <1>10, DumpSame, DumpFacts DEF NextTable
  <2> QED
    BY <1>10, <2>2, <2>3, <2>4 DEF NextTable, TodoShape
<1>11. CASE Restored
  <2>1. JobShape' /\ job'.kind = "none"
    BY <1>11 DEF Restored, EndImport, JobShape, Idle
  <2> QED
    BY <1>11, <2>1, DumpSame DEF Restored, EndImport, TodoShape
<1>12. CASE RowRefused
  <2>1. JobShape' /\ job'.kind = "none"
    BY <1>12 DEF RowRefused, EndImport, JobShape, Idle
  <2> QED
    BY <1>12, <2>1, DumpSame DEF RowRefused, EndImport, TodoShape
<1>13. CASE ImportFails
  <2>1. JobShape' /\ job'.kind = "none"
    BY <1>13 DEF ImportFails, EndImport, JobShape, Idle
  <2> QED
    BY <1>13, <2>1, DumpSame DEF ImportFails, EndImport, TodoShape
<1>14. CASE ExportFails
  <2>1. JobShape' /\ job'.kind = "none" /\ DumpShape'
    BY <1>14 DEF ExportFails, JobShape, Idle, NoDump, DumpShape
  <2> QED
    BY <1>14, <2>1 DEF ExportFails, TodoShape
<1>15. CASE UNCHANGED vars
    BY <1>15, DumpSame DEF vars, jobVars, JobShape, TodoShape
<1> QED
    BY <1>1, <1>2, <1>3, <1>4, <1>5, <1>6, <1>7, <1>8, <1>9,
       <1>10, <1>11, <1>12, <1>13, <1>14, <1>15 DEF Next

(* No step removes an event.                                               *)
LEMMA EventsStep ==
    ASSUME Shape, [Next]_vars
    PROVE  \A s \in Stores : events[s] \subseteq events'[s]
<1> USE DEF Shape, tableVars
<1>1. CASE \E s \in Stores : InsertEvent(s)
    BY <1>1 DEF InsertEvent
<1>2. CASE \E s \in Stores : RecordLoss(s)
    BY <1>2 DEF RecordLoss
<1>3. CASE \E s \in Stores : Export(s)
    BY <1>3 DEF Export
<1>4. CASE \E s \in Stores : Import(s)
    BY <1>4 DEF Import
<1>5. CASE \E s \in Stores : \E body \in Bodies : ImportProposal(s, body)
    BY <1>5 DEF ImportProposal, PutCandidate
<1>6. CASE \E s \in Stores : \E id \in 1..ids, body \in Bodies : ImportFile(s, id, body)
    BY <1>6 DEF ImportFile, PutCandidate
<1>7. CASE \E table \in Tables : Select(table)
    BY <1>7 DEF Select
<1>8. CASE WriteDump
    BY <1>8 DEF WriteDump
<1>9. CASE RestoreRow
  <2>1. PICK row \in todo : Restore(job.store, job.at, row)
    BY <1>9 DEF RestoreRow
  <2> QED
    BY <2>1 DEF Restore
<1>10. CASE NextTable
    BY <1>10 DEF NextTable
<1>11. CASE Restored
    BY <1>11 DEF Restored, EndImport
<1>12. CASE RowRefused
    BY <1>12 DEF RowRefused, EndImport
<1>13. CASE ImportFails
    BY <1>13 DEF ImportFails, EndImport
<1>14. CASE ExportFails
    BY <1>14 DEF ExportFails
<1>15. CASE UNCHANGED vars
    BY <1>15 DEF vars
<1> QED
    BY <1>1, <1>2, <1>3, <1>4, <1>5, <1>6, <1>7, <1>8, <1>9,
       <1>10, <1>11, <1>12, <1>13, <1>14, <1>15 DEF Next

(* Every step keeps the candidates.                                        *)
LEMMA HeldStep ==
    ASSUME Shape, HeldInv, [Next]_vars
    PROVE  HeldInv'
<1>1. CASE UNCHANGED <<candidates, puts>>
    BY <1>1 DEF HeldInv
<1>2. CASE \E s \in Stores : Import(s)
  <2>1. PICK s \in Stores : Import(s)
    BY <1>2
  <2> SUFFICES ASSUME NEW t \in Stores PROVE Held(candidates'[t], puts'[t])
    BY DEF HeldInv
  <2>2. /\ candidates' = candidates
        /\ puts'[t] = IF t = s THEN candidates[t] ELSE puts[t]
    BY <2>1 DEF Import, Shape
  <2> QED
    BY <2>2 DEF HeldInv, Held
<1>3. CASE \E s \in Stores : \E body \in Bodies : ImportProposal(s, body)
    BY <1>3, HeldPut DEF ImportProposal, PutCandidate
<1>4. CASE \E s \in Stores : \E id \in 1..ids, body \in Bodies : ImportFile(s, id, body)
    BY <1>4, HeldPut DEF ImportFile, PutCandidate
<1>5. CASE RestoreRow
  <2>1. PICK row \in todo : Restore(job.store, job.at, row)
    BY <1>5 DEF RestoreRow
  <2>2. CASE job.at = "candidates"
    <3>1. job.store \in Stores
      BY <1>5 DEF RestoreRow, Shape, JobShape, Idle
    <3> QED
      BY <2>1, <2>2, <3>1, HeldPut DEF Restore
  <2>3. CASE job.at # "candidates"
    BY <1>1, <2>1, <2>3 DEF Restore
  <2> QED
    BY <2>2, <2>3
<1> QED
    BY <1>1, <1>2, <1>3, <1>4, <1>5
    DEF Next, vars, tableVars, InsertEvent, RecordLoss, Export, Select, WriteDump,
        NextTable, Restored, RowRefused, ImportFails, EndImport, ExportFails

(* The empty tables.                                                       *)
LEMMA ShapeInit == Init => Shape /\ HeldInv
<1> SUFFICES ASSUME Init PROVE Shape /\ HeldInv
    OBVIOUS
<1>1. DumpShape /\ JobShape /\ TodoShape
    BY DEF Init, DumpShape, JobShape, TodoShape, NoDump, Idle
<1>2. /\ events \in [Stores -> SUBSET Nat]
      /\ candidates \in [Stores -> SUBSET Row] /\ puts \in [Stores -> SUBSET Row]
    BY DEF Init
<1> QED
    BY <1>1, <1>2 DEF Init, Shape, HeldInv, Held

(* Events are append-only (docs/EVENT_MODEL.md:8), in every root and under *)
(* every interleaving of commands, with imports that fail half way.        *)
THEOREM EventsNeverRemoved == Spec => EventsAppendOnly
<1>1. Init => Shape
    BY ShapeInit
<1>2. Shape /\ [Next]_vars => Shape'
    BY ShapeStep
<1>3. Shape /\ [Next]_vars
        => [\A s \in Stores : events[s] \subseteq events'[s]]_vars
    BY EventsStep
<1> QED
    BY <1>1, <1>2, <1>3, PTL DEF Spec, EventsAppendOnly

(* What is held of the candidates is held forever.                         *)
LEMMA HeldAlways == Spec => []HeldInv
<1>1. Init => Shape /\ HeldInv
    BY ShapeInit
<1>2. Shape /\ HeldInv /\ [Next]_vars => (Shape /\ HeldInv)'
    BY ShapeStep, HeldStep
<1> QED
    BY <1>1, <1>2, PTL DEF Spec

(* The ids and the bodies of a table stay unique (schema.sql:109-117) when *)
(* candidates of several roots, put and restored, meet in it, edited files *)
(* that keep their id included.                                            *)
THEOREM CandidatesStayUnique == Spec => []CandidatesUnique
<1>1. HeldInv => CandidatesUnique
    BY DEF HeldInv, Held, CandidatesUnique
<1> QED
    BY <1>1, HeldAlways, PTL

(* A put or a restore that replaces rows loses a body that had been put    *)
(* into that root only when another body comes under an id of it           *)
(* (store.py:227-243, 351-383).                                            *)
THEOREM CandidatesStay == Spec => []CandidateKept
<1>1. HeldInv => CandidateKept
    BY DEF HeldInv, Held, CandidateKept
<1> QED
    BY <1>1, HeldAlways, PTL

-----------------------------------------------------------------------------
(***************************************************************************)
(* Losses.  The number under which a root records a loss is one it has not *)
(* used, and travels with the loss from root to root (LossInv), so a       *)
(* restore by number never makes a loss of a root disappear unless another *)
(* root's loss is in its place.                                            *)
(***************************************************************************)

(* The rows Put leaves in a table.                                         *)
LEMMA PutRows ==
    ASSUME losses = [s \in Stores |-> losses[s]],
           NEW s \in Stores, NEW i, NEW x,
           losses' = [losses EXCEPT ![s] = Put(@, i, x)]
    PROVE  /\ losses' = [t \in Stores |-> losses'[t]]
           /\ DOMAIN losses'[s] = DOMAIN losses[s] \cup {i}
           /\ losses'[s][i] = x
           /\ \A j \in DOMAIN losses[s] : j # i => losses'[s][j] = losses[s][j]
           /\ \A t \in Stores : t # s => losses'[t] = losses[t]
           /\ LossRows(s)' = {r \in LossRows(s) : r[1] # i} \cup {<<i, x>>}
           /\ \A t \in Stores : t # s => LossRows(t)' = LossRows(t)
<1>1. /\ losses' = [t \in Stores |-> losses'[t]]
      /\ losses'[s] = Put(losses[s], i, x)
      /\ \A t \in Stores : t # s => losses'[t] = losses[t]
    OBVIOUS
<1>2. /\ DOMAIN losses'[s] = DOMAIN losses[s] \cup {i}
      /\ losses'[s][i] = x
      /\ \A j \in DOMAIN losses[s] : j # i => losses'[s][j] = losses[s][j]
    BY <1>1 DEF Put
<1>3. LossRows(s)' = {r \in LossRows(s) : r[1] # i} \cup {<<i, x>>}
    BY <1>2 DEF LossRows
<1>4. \A t \in Stores : t # s => LossRows(t)' = LossRows(t)
    BY <1>1 DEF LossRows
<1> QED
    BY <1>1, <1>2, <1>3, <1>4

(* A table's numbers have a largest one; no data need be counted for this, *)
(* rows come one at a time.                                                *)
LossTables ==
    /\ losses = [s \in Stores |-> losses[s]]
    /\ lost \in [Stores -> Nat]
    /\ \A s \in Stores :
         /\ DOMAIN losses[s] \subseteq Nat /\ IsFiniteSet(DOMAIN losses[s])
         /\ \E n \in DOMAIN losses[s] \cup {0} :
                \A i \in DOMAIN losses[s] \cup {0} : n >= i

(* AUTOINCREMENT gives a number the table does not use.                    *)
LEMMA NextIsNew ==
    ASSUME LossTables, NEW s \in Stores
    PROVE  /\ NextLoss(s) \in Nat
           /\ \A i \in DOMAIN losses[s] : i < NextLoss(s)
<1> DEFINE S == DOMAIN losses[s] \cup {0}
<1>1. \E n \in S : \A i \in S : n >= i
    BY DEF LossTables
<1>2. Max(S) \in S /\ \A i \in S : Max(S) >= i
    BY <1>1 DEF Max
<1>3. S \subseteq Nat
    BY DEF LossTables
<1> QED
    BY <1>2, <1>3 DEF NextLoss

(* A row more, and the tables still have this shape.                       *)
LEMMA PutTables ==
    ASSUME LossTables, NEW s \in Stores, NEW i \in Nat, NEW x,
           losses' = [losses EXCEPT ![s] = Put(@, i, x)],
           lost' \in [Stores -> Nat]
    PROVE  LossTables'
<1>1. /\ losses' = [t \in Stores |-> losses'[t]]
      /\ DOMAIN losses'[s] = DOMAIN losses[s] \cup {i}
      /\ \A t \in Stores : t # s => losses'[t] = losses[t]
    BY PutRows DEF LossTables
<1>2. IsFiniteSet(DOMAIN losses[s] \cup {i})
    BY FS_AddElement DEF LossTables
<1>3. PICK n \in DOMAIN losses[s] \cup {0} : \A j \in DOMAIN losses[s] \cup {0} : n >= j
    BY DEF LossTables
<1>4. DOMAIN losses[s] \subseteq Nat
    BY DEF LossTables
<1>5. \E m \in DOMAIN losses'[s] \cup {0} : \A j \in DOMAIN losses'[s] \cup {0} : m >= j
  <2>1. CASE n >= i
    BY <1>1, <1>3, <2>1
  <2>2. CASE ~(n >= i)
    <3>1. i \in DOMAIN losses'[s] \cup {0}
      BY <1>1
    <3>2. \A j \in DOMAIN losses'[s] \cup {0} : i >= j
      BY <1>1, <1>3, <1>4, <2>2
    <3> QED
      BY <3>1, <3>2
  <2> QED
    BY <2>1, <2>2
<1> QED
    BY <1>1, <1>2, <1>4, <1>5 DEF LossTables

(* N[<<t, n>>] is the number of the n-th loss of root t, wherever it is.   *)
Known(N, l, rows) ==
    \A r \in rows : \E t \in Stores : \E n \in 1 .. l[t] :
        r = <<N[<<t, n>>], <<t, n>>>>

LEMMA KnownMore ==
    ASSUME NEW N, NEW l, NEW rows, Known(N, l, rows), NEW M, NEW k, NEW sub,
           \A t \in Stores : \A n \in 1 .. l[t] :
               M[<<t, n>>] = N[<<t, n>>] /\ n \in 1 .. k[t],
           sub \subseteq rows
    PROVE  Known(M, k, sub)
<1> SUFFICES ASSUME NEW r \in sub
             PROVE  \E t \in Stores : \E n \in 1 .. k[t] : r = <<M[<<t, n>>], <<t, n>>>>
    BY DEF Known
<1>1. PICK t \in Stores : \E n \in 1 .. l[t] : r = <<N[<<t, n>>], <<t, n>>>>
    BY DEF Known
<1>2. PICK n \in 1 .. l[t] : r = <<N[<<t, n>>], <<t, n>>>>
    BY <1>1
<1> QED
    BY <1>2

Numbered(N) ==
    /\ \A s \in Stores : \A n \in 1 .. lost[s] : N[<<s, n>>] \in DOMAIN losses[s]
    /\ \A s \in Stores : \A n, m \in 1 .. lost[s] :
           N[<<s, n>>] = N[<<s, m>>] => n = m
    /\ \A s \in Stores : Known(N, lost, LossRows(s))
    /\ Known(N, lost, dump.losses)
    /\ job.kind = "import" /\ job.at = "losses" => Known(N, lost, todo)

(* Rows of a dump have different numbers.                                  *)
OneRowEach(rows) == \A r1, r2 \in rows : r1[1] = r2[1] => r1 = r2

LossInv ==
    /\ LossTables
    /\ OneRowEach(dump.losses)
    /\ \E N \in [Stores \X Nat -> Nat] : Numbered(N)

(* A step that leaves the losses alone, wherever they are.                 *)
LossesSame ==
    /\ UNCHANGED <<losses, lost>>
    /\ dump'.losses \in {dump.losses, {}}
    /\ job'.kind = "import" /\ job'.at = "losses" =>
           \/ job.kind = "import" /\ job.at = "losses" /\ todo' \subseteq todo
           \/ todo' = dump.losses

LEMMA SameLosses ==
    ASSUME LossInv, LossesSame
    PROVE  LossInv'
<1>1. LossTables'
    BY DEF LossInv, LossTables, LossesSame
<1>2. OneRowEach(dump.losses)'
    BY DEF LossInv, LossesSame, OneRowEach
<1>3. PICK N \in [Stores \X Nat -> Nat] : Numbered(N)
    BY DEF LossInv
<1>4. /\ dump'.losses \subseteq dump.losses
      /\ \A u \in Stores : LossRows(u)' = LossRows(u)
    BY DEF LossesSame, LossRows
<1>5. Known(N, lost, dump.losses)'
    BY <1>3, <1>4, KnownMore DEF Numbered, LossesSame
<1>6. job'.kind = "import" /\ job'.at = "losses" => Known(N, lost, todo)'
    BY <1>3, KnownMore DEF Numbered, LossesSame
<1>7. Numbered(N)'
    BY <1>3, <1>4, <1>5, <1>6 DEF Numbered, LossesSame
<1> QED
    BY <1>1, <1>2, <1>7 DEF LossInv

(* A new loss gets a number of its own.                                    *)
LEMMA LossRecorded ==
    ASSUME LossInv, NEW s \in Stores, RecordLoss(s)
    PROVE  LossInv'
<1> DEFINE i == NextLoss(s)
           k == lost[s] + 1
<1>1. /\ lost[s] \in Nat /\ k \in Nat
      /\ lost' = [lost EXCEPT ![s] = k]
      /\ losses' = [losses EXCEPT ![s] = Put(@, i, <<s, k>>)]
      /\ UNCHANGED <<dump, job, todo>>
    BY DEF RecordLoss, jobVars, LossInv, LossTables
<1>2. i \in Nat /\ \A j \in DOMAIN losses[s] : j < i
    BY NextIsNew DEF LossInv
<1>3. /\ lost' \in [Stores -> Nat] /\ lost'[s] = k
      /\ \A t \in Stores : t # s => lost'[t] = lost[t]
    BY <1>1 DEF LossInv, LossTables
<1> HIDE DEF i, k
<1>4. LossTables'
    BY <1>1, <1>2, <1>3, PutTables DEF LossInv
<1>5. OneRowEach(dump.losses)'
    BY <1>1 DEF LossInv, OneRowEach
<1>6. PICK N \in [Stores \X Nat -> Nat] : Numbered(N)
    BY DEF LossInv
<1>m. PICK M : M = [N EXCEPT ![<<s, k>>] = i]
    OBVIOUS
<1>7. M \in [Stores \X Nat -> Nat] /\ M[<<s, k>>] = i
    BY <1>1, <1>2, <1>6, <1>m
<1>8. \A t \in Stores : \A n \in 1 .. lost[t] : M[<<t, n>>] = N[<<t, n>>]
  <2> SUFFICES ASSUME NEW t \in Stores, NEW n \in 1 .. lost[t]
               PROVE  M[<<t, n>>] = N[<<t, n>>]
    OBVIOUS
  <2>1. n \in Nat /\ (t = s => n # k)
    BY <1>1 DEF k, LossInv, LossTables
  <2> QED
    BY <1>6, <1>m, <2>1
<1>9. /\ DOMAIN losses'[s] = DOMAIN losses[s] \cup {i}
      /\ \A t \in Stores : t # s => losses'[t] = losses[t]
      /\ LossRows(s)' = {r \in LossRows(s) : r[1] # i} \cup {<<i, <<s, k>>>>}
      /\ \A t \in Stores : t # s => LossRows(t)' = LossRows(t)
    BY <1>1, PutRows DEF LossInv, LossTables
<1>10. /\ \A t \in Stores : 1 .. lost[t] \subseteq 1 .. lost'[t]
       /\ k \in 1 .. lost'[s]
       /\ \A n \in 1 .. lost'[s] : n \in 1 .. lost[s] \/ n = k
  <2>1. lost[s] \in Nat /\ k = lost[s] + 1 /\ lost'[s] = k
    BY <1>1, <1>3 DEF k
  <2> QED
    BY <1>3, <2>1
<1>11. \A t \in Stores : \A n \in 1 .. lost[t] :
           M[<<t, n>>] = N[<<t, n>>] /\ n \in 1 .. lost'[t]
    BY <1>8, <1>10
<1>12. \A t \in Stores : Known(M, lost, LossRows(t))'
  <2>1. ASSUME NEW t \in Stores, NEW sub, sub \subseteq LossRows(t)
        PROVE  Known(M, lost', sub)
    BY <1>6, <1>11, <2>1, KnownMore DEF Numbered
  <2>2. ASSUME NEW t \in Stores, t # s PROVE Known(M, lost', LossRows(t)')
    BY <1>9, <2>1, <2>2
  <2>3. Known(M, lost', LossRows(s)')
    <3>1. Known(M, lost', {r \in LossRows(s) : r[1] # i})
      BY <2>1
    <3>2. <<i, <<s, k>>>> = <<M[<<s, k>>], <<s, k>>>> /\ k \in 1 .. lost'[s]
      BY <1>7, <1>10
    <3> QED
      BY <1>9, <3>1, <3>2 DEF Known
  <2> QED
    BY <2>2, <2>3
<1>13. \A t \in Stores : \A n \in 1 .. lost'[t] : M[<<t, n>>] \in DOMAIN losses'[t]
  <2> SUFFICES ASSUME NEW t \in Stores, NEW n \in 1 .. lost'[t]
               PROVE  M[<<t, n>>] \in DOMAIN losses'[t]
    OBVIOUS
  <2>1. CASE n \in 1 .. lost[t]
    <3>1. M[<<t, n>>] \in DOMAIN losses[t]
      BY <1>6, <1>8, <2>1 DEF Numbered
    <3> QED
      BY <1>9, <3>1
  <2>2. CASE n \notin 1 .. lost[t]
    BY <1>3, <1>7, <1>9, <1>10, <2>2
  <2> QED
    BY <2>1, <2>2
<1>14. \A t \in Stores : \A n, m \in 1 .. lost'[t] :
           M[<<t, n>>] = M[<<t, m>>] => n = m
  <2> SUFFICES ASSUME NEW t \in Stores, NEW n \in 1 .. lost'[t], NEW m \in 1 .. lost'[t],
                      M[<<t, n>>] = M[<<t, m>>]
               PROVE  n = m
    OBVIOUS
  <2>1. CASE t # s
    BY <1>3, <1>6, <1>8, <2>1 DEF Numbered
  <2>2. CASE t = s
    <3>1. \A j \in 1 .. lost[s] : M[<<s, j>>] \in DOMAIN losses[s]
      BY <1>6, <1>8 DEF Numbered
    <3>2. i \notin DOMAIN losses[s]
      BY <1>2
    <3>3. CASE n = k \/ m = k
      BY <1>7, <1>10, <2>2, <3>1, <3>2, <3>3
    <3>4. CASE n # k /\ m # k
      BY <1>6, <1>8, <1>10, <2>2, <3>4 DEF Numbered
    <3> QED
      BY <3>3, <3>4
  <2> QED
    BY <2>1, <2>2
<1>15. /\ Known(M, lost', dump.losses)
       /\ job.kind = "import" /\ job.at = "losses" => Known(M, lost', todo)
    BY <1>6, <1>11, KnownMore DEF Numbered
<1>16. Numbered(M)'
    BY <1>1, <1>12, <1>13, <1>14, <1>15 DEF Numbered
<1> QED
    BY <1>4, <1>5, <1>7, <1>16 DEF LossInv

(* A loss is restored under its number.                                    *)
LEMMA LossRestored ==
    ASSUME LossInv, NEW s \in Stores, NEW row \in todo,
           job.kind = "import" /\ job.at = "losses",
           losses' = [losses EXCEPT ![s] = Put(@, row[1], row[2])],
           todo' = todo \ {row}, UNCHANGED <<lost, dump, job>>
    PROVE  LossInv'
<1>1. PICK N \in [Stores \X Nat -> Nat] : Numbered(N)
    BY DEF LossInv
<1>2. PICK v \in Stores : \E n \in 1 .. lost[v] : row = <<N[<<v, n>>], <<v, n>>>>
    BY <1>1 DEF Numbered, Known
<1>3. PICK n \in 1 .. lost[v] : row = <<N[<<v, n>>], <<v, n>>>>
    BY <1>2
<1>4. n \in Nat /\ row[1] \in Nat /\ row = <<row[1], row[2]>>
    BY <1>1, <1>3 DEF LossInv, LossTables
<1>t. /\ LossTables /\ lost' \in [Stores -> Nat]
      /\ losses = [u \in Stores |-> losses[u]]
    BY DEF LossInv, LossTables
<1>5. LossTables'
    BY <1>4, <1>t, PutTables
<1>6. OneRowEach(dump.losses)'
    BY DEF LossInv, OneRowEach
<1>7. /\ DOMAIN losses'[s] = DOMAIN losses[s] \cup {row[1]}
      /\ \A t \in Stores : t # s => losses'[t] = losses[t]
      /\ LossRows(s)' = {r \in LossRows(s) : r[1] # row[1]} \cup {<<row[1], row[2]>>}
      /\ \A t \in Stores : t # s => LossRows(t)' = LossRows(t)
  <2> DEFINE i == row[1]
             x == row[2]
  <2>1. losses' = [losses EXCEPT ![s] = Put(@, i, x)]
    OBVIOUS
  <2> HIDE DEF i, x
  <2>2. /\ losses'[s] = Put(losses[s], i, x)
        /\ \A t \in Stores : t # s => losses'[t] = losses[t]
    BY <1>t, <2>1
  <2>3. /\ DOMAIN losses'[s] = DOMAIN losses[s] \cup {i}
        /\ losses'[s][i] = x
        /\ \A j \in DOMAIN losses[s] : j # i => losses'[s][j] = losses[s][j]
    BY <2>2 DEF Put
  <2>4. LossRows(s)' = {r \in LossRows(s) : r[1] # i} \cup {<<i, x>>}
    BY <2>3 DEF LossRows
  <2>5. \A t \in Stores : t # s => LossRows(t)' = LossRows(t)
    BY <2>2 DEF LossRows
  <2> QED
    BY <2>2, <2>3, <2>4, <2>5 DEF i, x
<1>8. \A u \in Stores : Known(N, lost, LossRows(u))'
  <2>1. ASSUME NEW u \in Stores, NEW r \in LossRows(u)' PROVE r \in LossRows(u) \/ r = row
    BY <1>4, <1>7, <2>1
  <2>2. ASSUME NEW u \in Stores, NEW r \in LossRows(u)'
        PROVE  \E w \in Stores : \E m \in 1 .. lost[w] : r = <<N[<<w, m>>], <<w, m>>>>
    <3>1. CASE r \in LossRows(u)
      BY <1>1, <3>1 DEF Numbered, Known
    <3>2. CASE r = row
      BY <1>2, <3>2
    <3> QED
      BY <2>1, <3>1, <3>2
  <2>3. ASSUME NEW u \in Stores PROVE Known(N, lost, LossRows(u)')
    BY <2>2 DEF Known
  <2>4. lost' = lost
    OBVIOUS
  <2> QED
    BY <2>3, <2>4
<1>9. Numbered(N)'
  <2>1. \A u \in Stores : DOMAIN losses[u] \subseteq DOMAIN losses'[u]
    BY <1>7
  <2>2. Known(N, lost, dump.losses)'
    BY <1>1 DEF Numbered
  <2>3. Known(N, lost, todo)'
    BY <1>1, KnownMore DEF Numbered
  <2> QED
    BY <1>1, <1>8, <2>1, <2>2, <2>3 DEF Numbered
<1> QED
    BY <1>5, <1>6, <1>9 DEF LossInv

(* The losses of one moment are exported with their numbers.               *)
LEMMA LossSelected ==
    ASSUME LossInv, NEW s \in Stores, dump'.losses = LossRows(s),
           UNCHANGED <<losses, lost, todo>>, job'.kind = "export"
    PROVE  LossInv'
<1>1. LossTables'
    BY DEF LossInv, LossTables
<1>2. OneRowEach(dump.losses)'
    BY DEF OneRowEach, LossRows
<1>3. PICK N \in [Stores \X Nat -> Nat] : Numbered(N)
    BY DEF LossInv
<1>4. \A u \in Stores : LossRows(u)' = LossRows(u)
    BY DEF LossRows
<1>5. Numbered(N)'
    BY <1>3, <1>4 DEF Numbered
<1> QED
    BY <1>1, <1>2, <1>5 DEF LossInv

(* Every step keeps the losses.                                            *)
LEMMA LossStep ==
    ASSUME Shape, LossInv, [Next]_vars
    PROVE  LossInv'
<1> USE DEF tableVars
<1>1. CASE \E s \in Stores : InsertEvent(s)
  <2>1. LossesSame
    BY <1>1 DEF InsertEvent, jobVars, LossesSame
  <2> QED
    BY <2>1, SameLosses
<1>2. CASE \E s \in Stores : RecordLoss(s)
    BY <1>2, LossRecorded
<1>3. CASE \E s \in Stores : Export(s)
  <2>1. LossesSame
    BY <1>3 DEF Export, NoDump, LossesSame
  <2> QED
    BY <2>1, SameLosses
<1>4. CASE \E s \in Stores : Import(s)
  <2>1. LossesSame
    BY <1>4 DEF Import, LossesSame
  <2> QED
    BY <2>1, SameLosses
<1>5. CASE \E s \in Stores : \E body \in Bodies : ImportProposal(s, body)
  <2>1. LossesSame
    BY <1>5 DEF ImportProposal, PutCandidate, jobVars, LossesSame
  <2> QED
    BY <2>1, SameLosses
<1>6. CASE \E s \in Stores : \E id \in 1..ids, body \in Bodies : ImportFile(s, id, body)
  <2>1. LossesSame
    BY <1>6 DEF ImportFile, PutCandidate, jobVars, LossesSame
  <2> QED
    BY <2>1, SameLosses
<1>7. CASE \E table \in Tables : Select(table)
  <2>1. PICK table \in Tables : Select(table)
    BY <1>7
  <2>2. PICK E, C, L, w :
            dump = [events |-> E, losses |-> L, candidates |-> C, whole |-> w]
    BY DEF Shape, DumpShape
  <2>3. /\ UNCHANGED <<losses, lost, todo>>
        /\ job'.kind = "export" /\ job.store \in Stores
    BY <2>1 DEF Select, Shape, JobShape, Idle
  <2>4. CASE table = "losses"
    <3>1. dump'.losses = LossRows(job.store)
      BY <2>1, <2>2, <2>4 DEF Select
    <3> QED
      BY <2>3, <3>1, LossSelected
  <2>5. CASE table # "losses"
    <3>1. dump'.losses = dump.losses
      BY <2>1, <2>2, <2>5 DEF Select
    <3>2. LossesSame
      BY <2>3, <3>1 DEF LossesSame
    <3> QED
      BY <3>2, SameLosses
  <2> QED
    BY <2>4, <2>5
<1>8. CASE WriteDump
  <2>1. PICK E, C, L, w :
            dump = [events |-> E, losses |-> L, candidates |-> C, whole |-> w]
    BY DEF Shape, DumpShape
  <2>2. LossesSame
    BY <1>8, <2>1 DEF WriteDump, Idle, LossesSame
  <2> QED
    BY <2>2, SameLosses
<1>9. CASE RestoreRow
  <2>1. PICK row \in todo : /\ Restore(job.store, job.at, row)
                            /\ todo' = todo \ {row}
    BY <1>9 DEF RestoreRow
  <2>2. /\ UNCHANGED <<lost, dump, job>>
        /\ job.kind = "import" /\ job.store \in Stores
    BY <1>9 DEF RestoreRow, Shape, JobShape, Idle
  <2>3. CASE job.at = "losses"
    <3>1. losses' = [losses EXCEPT ![job.store] = Put(@, row[1], row[2])]
      BY <2>1, <2>3 DEF Restore
    <3> QED
      BY <2>1, <2>2, <2>3, <3>1, LossRestored
  <2>4. CASE job.at # "losses"
    <3>1. LossesSame
      BY <2>1, <2>2, <2>4 DEF Restore, LossesSame
    <3> QED
      BY <3>1, SameLosses
  <2> QED
    BY <2>3, <2>4
<1>10. CASE NextTable
  <2>1. /\ UNCHANGED <<losses, lost, dump>>
        /\ job'.at = "losses" => todo' = dump.losses
    BY <1>10 DEF NextTable, RowsOf, After, Shape, JobShape, Idle
  <2>2. LossesSame
    BY <2>1 DEF LossesSame
  <2> QED
    BY <2>2, SameLosses
<1>11. CASE Restored \/ RowRefused \/ ImportFails
  <2>1. UNCHANGED <<losses, lost, dump>> /\ job' = Idle
    BY <1>11 DEF Restored, RowRefused, ImportFails, EndImport
  <2>2. LossesSame
    BY <2>1 DEF LossesSame, Idle
  <2> QED
    BY <2>2, SameLosses
<1>12. CASE ExportFails
  <2>1. LossesSame
    BY <1>12 DEF ExportFails, NoDump, Idle, LossesSame
  <2> QED
    BY <2>1, SameLosses
<1>13. CASE UNCHANGED vars
  <2>1. LossesSame
    BY <1>13 DEF vars, LossesSame
  <2> QED
    BY <2>1, SameLosses
<1> QED
    BY <1>1, <1>2, <1>3, <1>4, <1>5, <1>6, <1>7, <1>8, <1>9, <1>10,
       <1>11, <1>12, <1>13 DEF Next

LEMMA LossInit == Init => LossInv
<1> SUFFICES ASSUME Init PROVE LossInv
    OBVIOUS
<1>1. \A s \in Stores : DOMAIN losses[s] = {} /\ lost[s] = 0
    BY DEF Init
<1>2. LossTables
    BY <1>1, FS_EmptySet DEF Init, LossTables
<1>3. OneRowEach(dump.losses) /\ dump.losses = {} /\ job.kind = "none"
    BY DEF Init, NoDump, Idle, OneRowEach
<1>n. PICK N : N = [p \in Stores \X Nat |-> 0]
    OBVIOUS
<1>4. N \in [Stores \X Nat -> Nat]
    BY <1>n
<1>5. Numbered(N)
    BY <1>1, <1>3 DEF Numbered, Known, LossRows
<1> QED
    BY <1>2, <1>3, <1>4, <1>5 DEF LossInv

(* A table has room for all the losses of its root.                        *)
LEMMA LossesCounted ==
    ASSUME LossInv
    PROVE  LossesNotUndercounted
<1>1. PICK N \in [Stores \X Nat -> Nat] : Numbered(N)
    BY DEF LossInv
<1> SUFFICES ASSUME NEW s \in Stores
             PROVE  /\ Cardinality(DOMAIN losses[s]) >= lost[s]
                    /\ (\A i \in DOMAIN losses[s] : losses[s][i][1] = s) =>
                           \A n \in 1..lost[s] :
                               \E i \in DOMAIN losses[s] : losses[s][i] = <<s, n>>
    BY DEF LossesNotUndercounted
<1>2. lost[s] \in Nat /\ IsFiniteSet(DOMAIN losses[s])
    BY DEF LossInv, LossTables
<1>3. Cardinality(DOMAIN losses[s]) >= lost[s]
  <2>1. PICK S, T : S = 1 .. lost[s] /\ T = DOMAIN losses[s]
    OBVIOUS
  <2>2. PICK f : f = [n \in S |-> N[<<s, n>>]]
    OBVIOUS
  <2>3. f \in Injection(S, T)
    <3>1. \A n \in S : N[<<s, n>>] \in T
      BY <1>1, <2>1 DEF Numbered
    <3>2. \A n, m \in S : N[<<s, n>>] = N[<<s, m>>] => n = m
      BY <1>1, <2>1 DEF Numbered
    <3>3. f \in [S -> T] /\ \A n, m \in S : f[n] = f[m] => n = m
      BY <2>2, <3>1, <3>2
    <3> QED
      BY <3>3 DEF Injection, IsInjective
  <2>4. IsFiniteSet(S) /\ Cardinality(S) = lost[s]
    <3>1. 1 \in Int /\ lost[s] \in Int
      BY <1>2
    <3>2. /\ IsFiniteSet(1 .. lost[s])
          /\ Cardinality(1 .. lost[s]) = IF 1 > lost[s] THEN 0 ELSE lost[s] - 1 + 1
      BY <3>1, FS_Interval, Zenon
    <3> QED
      BY <1>2, <2>1, <3>2
  <2>5. IsFiniteSet(T)
    BY <1>2, <2>1
  <2>6. Cardinality(S) <= Cardinality(T)
    BY <2>3, <2>5, FS_Injection, Zenon DEF ExistsInjection
  <2> QED
    BY <2>1, <2>4, <2>6
<1>4. ASSUME \A i \in DOMAIN losses[s] : losses[s][i][1] = s, NEW n \in 1 .. lost[s]
      PROVE  \E i \in DOMAIN losses[s] : losses[s][i] = <<s, n>>
  <2>1. PICK i \in DOMAIN losses[s] : i = N[<<s, n>>]
    BY <1>1 DEF Numbered
  <2>2. <<i, losses[s][i]>> \in LossRows(s)
    BY DEF LossRows
  <2>3. PICK t \in Stores : \E m \in 1 .. lost[t] :
            <<i, losses[s][i]>> = <<N[<<t, m>>], <<t, m>>>>
    BY <1>1, <2>2 DEF Numbered, Known
  <2>4. PICK m \in 1 .. lost[t] : <<i, losses[s][i]>> = <<N[<<t, m>>], <<t, m>>>>
    BY <2>3
  <2>5. i = N[<<t, m>>] /\ losses[s][i] = <<t, m>>
    BY <2>4
  <2>6. t = s
    BY <1>4, <2>5
  <2>7. m = n
    BY <1>1, <2>1, <2>5, <2>6 DEF Numbered
  <2> QED
    BY <2>5, <2>6, <2>7
<1> QED
    BY <1>3, <1>4

(* event_losses never shows fewer losses than the plugin of its root       *)
(* recorded, whatever other roots' exports are imported into it meanwhile; *)
(* and a table without another root's losses holds each of its own.        *)
THEOREM LossesCorrect == Spec => []LossesNotUndercounted
<1>1. Init => Shape /\ LossInv
    BY ShapeInit, LossInit
<1>2. Shape /\ LossInv /\ [Next]_vars => (Shape /\ LossInv)'
    BY ShapeStep, LossStep
<1>3. LossInv => LossesNotUndercounted
    BY LossesCounted
<1> QED
    BY <1>1, <1>2, <1>3, PTL DEF Spec

-----------------------------------------------------------------------------
(***************************************************************************)
(* A restore that says ok.  What it has put into the tables of its root    *)
(* stays there while it goes on (Back): events are append-only, the rows   *)
(* of a dump have numbers of their own, which no new loss takes, and of    *)
(* the candidates it put HeldInv says what may become.                     *)
(***************************************************************************)

(* The rows put into a table are forgotten only when an import into it     *)
(* begins, and no other import is under way then.                          *)
Goes == job' = job \/ job.kind = "import"

LEMMA PutsGrow ==
    ASSUME Shape, [Next]_vars, Goes
    PROVE  \A s \in Stores : puts[s] \subseteq puts'[s]
<1>1. CASE UNCHANGED puts
    BY <1>1
<1>2. ASSUME NEW s \in Stores, NEW row, puts' = [puts EXCEPT ![s] = @ \cup {row}]
      PROVE  \A t \in Stores : puts[t] \subseteq puts'[t]
    BY <1>2 DEF Shape
<1>3. CASE \E s \in Stores : Import(s)
    BY <1>3 DEF Import, Idle, Goes
<1>4. CASE \E s \in Stores : \E body \in Bodies : ImportProposal(s, body)
    BY <1>2, <1>4 DEF ImportProposal, PutCandidate
<1>5. CASE \E s \in Stores : \E id \in 1..ids, body \in Bodies : ImportFile(s, id, body)
    BY <1>2, <1>5 DEF ImportFile, PutCandidate
<1>6. CASE RestoreRow
  <2>1. PICK row \in todo : Restore(job.store, job.at, row)
    BY <1>6 DEF RestoreRow
  <2>2. job.store \in Stores
    BY <1>6 DEF RestoreRow, Shape, JobShape, Idle
  <2> QED
    BY <1>1, <1>2, <2>1, <2>2 DEF Restore
<1> QED
    BY <1>1, <1>3, <1>4, <1>5, <1>6
    DEF Next, vars, tableVars, InsertEvent, RecordLoss, Export, Select, WriteDump,
        NextTable, Restored, RowRefused, ImportFails, EndImport, ExportFails

(* What a restore has put back into the tables of root s.                  *)
Back(s, E, L, C) ==
    /\ E \subseteq events[s]
    /\ L \subseteq LossRows(s)
    /\ C \subseteq puts[s]

RestoreInv ==
    /\ job.kind # "none" => outcome.how = "none"
    /\ job.kind = "import" =>
         /\ todo \subseteq RowsOf(job.at)
         /\ job.at = "events" => Back(job.store, dump.events \ todo, {}, {})
         /\ job.at = "losses" =>
                Back(job.store, dump.events, dump.losses \ todo, {})
         /\ job.at = "candidates" =>
                Back(job.store, dump.events, dump.losses,
                     dump.candidates \ todo)
    /\ outcome.how = "ok" =>
         /\ outcome.store \in Stores
         /\ Back(outcome.store, dump.events, dump.losses, dump.candidates)

(* A loss of the dump stays where it is.                                   *)
LEMMA DumpedLossesStay ==
    ASSUME Shape, LossInv, RestoreInv, [Next]_vars
    PROVE  \A s \in Stores : LossRows(s) \cap dump.losses \subseteq LossRows(s)'
<1>t. losses = [s \in Stores |-> losses[s]]
    BY DEF LossInv, LossTables
<1>1. CASE UNCHANGED losses
    BY <1>1 DEF LossRows
<1>2. ASSUME NEW s \in Stores, NEW i, NEW x,
             losses' = [losses EXCEPT ![s] = Put(@, i, x)],
             \A r \in LossRows(s) \cap dump.losses : r[1] = i => r = <<i, x>>
      PROVE  \A t \in Stores : LossRows(t) \cap dump.losses \subseteq LossRows(t)'
  <2> SUFFICES ASSUME NEW t \in Stores, NEW r \in LossRows(t) \cap dump.losses
               PROVE  r \in LossRows(t)'
    OBVIOUS
  <2>1. /\ losses'[s] = Put(losses[s], i, x)
        /\ t # s => losses'[t] = losses[t]
    BY <1>t, <1>2
  <2>2. CASE t # s
    BY <2>1, <2>2 DEF LossRows
  <2>3. CASE t = s
    <3>1. PICK j \in DOMAIN losses[s] : r = <<j, losses[s][j]>>
      BY <2>3 DEF LossRows
    <3>2. /\ j \in DOMAIN losses'[s] /\ i \in DOMAIN losses'[s]
          /\ losses'[s][i] = x
          /\ j # i => losses'[s][j] = losses[s][j]
      BY <2>1 DEF Put
    <3>3. CASE j # i
      BY <2>3, <3>1, <3>2, <3>3 DEF LossRows
    <3>4. CASE j = i
      <4>1. r = <<i, x>>
        BY <1>2, <2>3, <3>1, <3>4
      <4> QED
        BY <2>3, <3>2, <4>1 DEF LossRows
    <3> QED
      BY <3>3, <3>4
  <2> QED
    BY <2>2, <2>3
<1>3. CASE \E s \in Stores : RecordLoss(s)
  <2>1. PICK s \in Stores : RecordLoss(s)
    BY <1>3
  <2>2. PICK i, x : i = NextLoss(s) /\ x = <<s, lost'[s]>>
    OBVIOUS
  <2>3. losses' = [losses EXCEPT ![s] = Put(@, i, x)]
    BY <2>1, <2>2 DEF RecordLoss
  <2>4. \A j \in DOMAIN losses[s] : j # i
    <3>1. /\ \A j \in DOMAIN losses[s] : j < i /\ j \in Nat
          /\ i \in Nat
      BY <2>2, NextIsNew DEF LossInv, LossTables
    <3> QED
      BY <3>1
  <2>5. \A r \in LossRows(s) \cap dump.losses : r[1] = i => r = <<i, x>>
    BY <2>4 DEF LossRows
  <2> QED
    BY <1>2, <2>3, <2>5
<1>4. CASE RestoreRow
  <2>1. PICK row \in todo : Restore(job.store, job.at, row)
    BY <1>4 DEF RestoreRow
  <2>2. job.kind = "import" /\ job.store \in Stores
    BY <1>4 DEF RestoreRow, Shape, JobShape, Idle
  <2>3. CASE job.at = "losses"
    <3>1. row \in dump.losses
      BY <2>2, <2>3 DEF RestoreInv, RowsOf
    <3>2. PICK N \in [Stores \X Nat -> Nat] : Numbered(N)
      BY DEF LossInv
    <3>3. PICK t \in Stores : \E n \in 1 .. lost[t] : row = <<N[<<t, n>>], <<t, n>>>>
      BY <3>1, <3>2 DEF Numbered, Known
    <3>4. row = <<row[1], row[2]>>
      BY <3>3
    <3>5. PICK i, x : i = row[1] /\ x = row[2]
      OBVIOUS
    <3>6. losses' = [losses EXCEPT ![job.store] = Put(@, i, x)]
      BY <2>1, <2>3, <3>5 DEF Restore
    <3>7. \A r \in LossRows(job.store) \cap dump.losses : r[1] = i => r = <<i, x>>
      BY <3>1, <3>4, <3>5 DEF LossInv, OneRowEach
    <3> QED
      BY <1>2, <2>2, <3>6, <3>7
  <2>4. CASE job.at # "losses"
    BY <1>1, <2>1, <2>4 DEF Restore
  <2> QED
    BY <2>3, <2>4
<1> QED
    BY <1>1, <1>3, <1>4
    DEF Next, vars, tableVars, InsertEvent, Export, Import, ImportProposal,
        ImportFile, PutCandidate, Select, WriteDump, NextTable, Restored,
        RowRefused, ImportFails, EndImport, ExportFails

(* What is back stays back.                                                *)
LEMMA BackStays ==
    ASSUME Shape, LossInv, RestoreInv, [Next]_vars, Goes,
           NEW s \in Stores, NEW E, NEW L, NEW C,
           L \subseteq dump.losses, Back(s, E, L, C)
    PROVE  Back(s, E, L, C)'
<1>1. E \subseteq events'[s]
    BY EventsStep DEF Back
<1>2. L \subseteq LossRows(s)'
    BY DumpedLossesStay DEF Back
<1>3. C \subseteq puts'[s]
    BY PutsGrow DEF Back
<1> QED
    BY <1>1, <1>2, <1>3 DEF Back

(* Every step keeps what the restore has done.                             *)
LEMMA RestoreStep ==
    ASSUME Shape, LossInv, RestoreInv, [Next]_vars
    PROVE  RestoreInv'
<1>d. PICK E, L, C, T : /\ E = dump.events /\ L = dump.losses
                        /\ C = dump.candidates /\ T = todo
    OBVIOUS
<1>b. ASSUME Goes,
             NEW s \in Stores, NEW A, NEW R, NEW D, R \subseteq L, Back(s, A, R, D)
      PROVE  Back(s, A, R, D)'
    BY <1>d, <1>b, BackStays
<1>job. job.kind = "import" => job.store \in Stores /\ job.at \in Tables
    BY DEF Shape, JobShape, Idle
<1>g. job.kind = "import" => Goes
    BY DEF Goes
<1>1. CASE UNCHANGED <<dump, job, todo, outcome>>
  <2>1. \A s \in Stores : \A A, R, D :
            R \subseteq dump.losses /\ Back(s, A, R, D) => Back(s, A, R, D)'
    BY <1>1, BackStays DEF Goes
  <2>2. job.kind = "import" =>
          /\ job.at = "events" => Back(job.store, dump.events \ todo, {}, {})'
          /\ job.at = "losses" =>
                 Back(job.store, dump.events, dump.losses \ todo, {})'
          /\ job.at = "candidates" =>
                 Back(job.store, dump.events, dump.losses,
                      dump.candidates \ todo)'
    BY <1>1, <1>job, <2>1 DEF RestoreInv
  <2>3. outcome.how = "ok" =>
          Back(outcome.store, dump.events, dump.losses, dump.candidates)'
    BY <1>1, <2>1 DEF RestoreInv
  <2> QED
    BY <1>1, <2>2, <2>3 DEF RestoreInv, RowsOf
<1>2. CASE \E s \in Stores : Export(s)
    BY <1>2 DEF Export, RestoreInv
<1>3. CASE \E s \in Stores : Import(s)
  <2>1. PICK s \in Stores : Import(s)
    BY <1>3
  <2>2. /\ job'.kind = "import" /\ job'.at = "events" /\ job'.store = s
        /\ todo' = dump.events /\ dump' = dump /\ outcome'.how = "none"
    BY <2>1 DEF Import, RowsOf
  <2>3. Back(job.store, dump.events \ todo, {}, {})'
    BY <2>2 DEF Back
  <2> QED
    BY <2>2, <2>3 DEF RestoreInv, RowsOf
<1>4. CASE \E table \in Tables : Select(table)
  <2>1. job'.kind = "export" /\ outcome'.how = "none"
    BY <1>4 DEF Select, RestoreInv, Shape, JobShape, Idle
  <2> QED
    BY <2>1 DEF RestoreInv
<1>5. CASE WriteDump \/ ExportFails
  <2>1. job'.kind = "none" /\ outcome'.how = "none"
    BY <1>5 DEF WriteDump, ExportFails, RestoreInv, Idle
  <2> QED
    BY <2>1 DEF RestoreInv
<1>6. CASE RestoreRow
  <2>1. PICK row \in todo : /\ Restore(job.store, job.at, row)
                            /\ todo' = todo \ {row}
    BY <1>6 DEF RestoreRow
  <2>2. /\ UNCHANGED <<dump, job, outcome>>
        /\ job.kind = "import" /\ job.store \in Stores
        /\ outcome.how = "none" /\ todo' \subseteq RowsOf(job.at)
    BY <1>6, <2>1, <1>job DEF RestoreRow, RestoreInv
  <2>s. PICK s \in Stores : s = job.store
    BY <2>2
  <2>u. PICK U : U = T \ {row}
    OBVIOUS
  <2>U. /\ E = dump'.events /\ L = dump'.losses /\ C = dump'.candidates
        /\ U = todo' /\ job' = job /\ outcome'.how = "none"
    BY <1>d, <2>1, <2>2, <2>u
  <2>3. CASE job.at = "events"
    <3>1. Back(s, E \ T, {}, {})'
      BY <1>d, <1>b, <1>g, <2>2, <2>s, <2>3 DEF RestoreInv
    <3>2. row \in events'[s]
      BY <2>1, <2>s, <2>3 DEF Restore, Shape
    <3>3. Back(s, E \ U, {}, {})'
      BY <2>u, <3>1, <3>2 DEF Back
    <3>4. Back(job.store, dump.events \ todo, {}, {})'
      BY <2>s, <2>U, <3>3 DEF Back
    <3> QED
      BY <2>2, <2>3, <2>U, <3>4 DEF RestoreInv, RowsOf
  <2>4. CASE job.at = "losses"
    <3>1. Back(s, E, L \ T, {})'
      BY <1>d, <1>b, <1>g, <2>2, <2>s, <2>4 DEF RestoreInv
    <3>2. row \in LossRows(s)'
      <4>1. row \in dump.losses
        BY <2>2, <2>4 DEF RestoreInv, RowsOf
      <4>2. PICK N \in [Stores \X Nat -> Nat] : Numbered(N)
        BY DEF LossInv
      <4>3. PICK t \in Stores : \E n \in 1 .. lost[t] : row = <<N[<<t, n>>], <<t, n>>>>
        BY <4>1, <4>2 DEF Numbered, Known
      <4>4. row = <<row[1], row[2]>>
        BY <4>3
      <4>5. PICK i, x : i = row[1] /\ x = row[2]
        OBVIOUS
      <4>6. losses'[s] = Put(losses[s], i, x)
        BY <2>1, <2>s, <2>4, <4>5 DEF Restore, LossInv, LossTables
      <4>7. i \in DOMAIN losses'[s] /\ losses'[s][i] = x
        BY <4>6 DEF Put
      <4> QED
        BY <4>4, <4>5, <4>7 DEF LossRows
    <3>3. Back(s, E, L \ U, {})'
      BY <2>u, <3>1, <3>2 DEF Back
    <3>4. Back(job.store, dump.events, dump.losses \ todo, {})'
      BY <2>s, <2>U, <3>3 DEF Back, LossRows
    <3> QED
      BY <2>2, <2>4, <2>U, <3>4 DEF RestoreInv, RowsOf
  <2>5. CASE job.at = "candidates"
    <3>1. Back(s, E, L, C \ T)'
      BY <1>d, <1>b, <1>g, <2>2, <2>s, <2>5 DEF RestoreInv
    <3>2. row \in puts'[s]
      BY <2>1, <2>s, <2>5 DEF Restore, Shape
    <3>3. Back(s, E, L, C \ U)'
      BY <2>u, <3>1, <3>2 DEF Back
    <3>4. Back(job.store, dump.events, dump.losses, dump.candidates \ todo)'
      BY <2>s, <2>U, <3>3 DEF Back, LossRows
    <3> QED
      BY <2>2, <2>5, <2>U, <3>4 DEF RestoreInv, RowsOf
  <2> QED
    BY <2>2, <2>3, <2>4, <2>5, <1>job DEF Tables
<1>7. CASE NextTable
  <2>1. /\ job.kind = "import" /\ job.at \in {"events", "losses"} /\ todo = {}
        /\ UNCHANGED <<dump, outcome>> /\ outcome.how = "none"
        /\ job'.kind = "import" /\ job'.store = job.store
        /\ job'.at = After(job.at) /\ todo' = RowsOf(job'.at)
    BY <1>7, <1>job DEF NextTable, RestoreInv, Shape, JobShape, Idle, Tables
  <2>s. PICK s \in Stores : s = job.store
    BY <2>1, <1>job
  <2>U. /\ E = dump'.events /\ L = dump'.losses /\ C = dump'.candidates
        /\ job'.store = s
    BY <1>d, <2>1, <2>s
  <2>2. CASE job.at = "events"
    <3>1. Back(s, E, {}, {})'
      BY <1>d, <1>b, <1>g, <2>1, <2>s, <2>2 DEF RestoreInv
    <3>2. job'.at = "losses" /\ todo' = L
      BY <2>1, <2>2, <2>U DEF After, RowsOf
    <3>3. Back(job.store, dump.events, dump.losses \ todo, {})'
      BY <2>U, <3>1, <3>2 DEF Back
    <3> QED
      BY <2>1, <2>U, <3>2, <3>3 DEF RestoreInv, RowsOf
  <2>3. CASE job.at = "losses"
    <3>1. Back(s, E, L, {})'
      BY <1>d, <1>b, <1>g, <2>1, <2>s, <2>3 DEF RestoreInv
    <3>2. job'.at = "candidates" /\ todo' = C
      BY <2>1, <2>3, <2>U DEF After, RowsOf
    <3>3. Back(job.store, dump.events, dump.losses, dump.candidates \ todo)'
      BY <2>U, <3>1, <3>2 DEF Back, LossRows
    <3> QED
      BY <2>1, <2>U, <3>2, <3>3 DEF RestoreInv, RowsOf
  <2> QED
    BY <2>1, <2>2, <2>3
<1>8. CASE Restored
  <2>1. /\ job.kind = "import" /\ job.at = "candidates" /\ todo = {} /\ dump' = dump
        /\ job'.kind = "none" /\ outcome'.store = job.store
    BY <1>8 DEF Restored, EndImport, Idle
  <2>s. PICK s \in Stores : s = job.store
    BY <2>1, <1>job
  <2>2. Back(s, E, L, C)'
    BY <1>d, <1>b, <1>g, <2>1, <2>s DEF RestoreInv
  <2>3. Back(outcome.store, dump.events, dump.losses, dump.candidates)'
    BY <1>d, <2>1, <2>s, <2>2 DEF Back, LossRows
  <2> QED
    BY <2>1, <2>s, <2>3 DEF RestoreInv
<1>9. CASE RowRefused \/ ImportFails
  <2>1. job'.kind = "none" /\ outcome'.how = "none"
    BY <1>9 DEF RowRefused, ImportFails, EndImport, Idle
  <2> QED
    BY <2>1 DEF RestoreInv
<1> QED
    BY <1>1, <1>2, <1>3, <1>4, <1>5, <1>6, <1>7, <1>8, <1>9
    DEF Next, vars, jobVars, InsertEvent, RecordLoss, ImportProposal,
        ImportFile, PutCandidate

LEMMA RestoreInit == Init => RestoreInv
    BY DEF Init, RestoreInv, Idle

(* An import that says ok has restored the dump (store.py:351-383), into   *)
(* its own root or another's, and it stays there while the plugin and the  *)
(* other commands go on writing: the events, the losses under their        *)
(* numbers, and the body of every candidate but for one under an id of     *)
(* which another body is put, by the dump or since the import began.       *)
THEOREM RestoreCorrect == Spec => []RestoreComplete
<1> DEFINE Inv == Shape /\ HeldInv /\ LossInv /\ RestoreInv
<1>1. Init => Inv
    BY ShapeInit, LossInit, RestoreInit
<1>2. Inv /\ [Next]_vars => Inv'
    BY ShapeStep, HeldStep, LossStep, RestoreStep
<1>3. Inv => RestoreComplete
  <2> SUFFICES ASSUME HeldInv, RestoreInv, outcome.how = "ok" PROVE RestoreComplete
    BY DEF RestoreComplete
  <2>1. PICK s \in Stores : s = outcome.store
    BY DEF RestoreInv
  <2>2. Back(s, dump.events, dump.losses, dump.candidates)
    BY <2>1 DEF RestoreInv
  <2>3. Held(candidates[s], puts[s])
    BY DEF HeldInv
  <2>4. \A p \in puts[s] :
            (\E r \in candidates[s] : r.body = p.body) \/ Overwritten(puts[s], p.body)
    BY <2>3 DEF Held
  <2> QED
    BY <2>1, <2>2, <2>4 DEF Back, RestoreComplete
<1> QED
    BY <1>1, <1>2, <1>3, PTL DEF Spec

-----------------------------------------------------------------------------
(***************************************************************************)
(* Types: those of the tables and of what is being restored come with the  *)
(* invariants above, the rest is what a command is at.                     *)
(***************************************************************************)
MarksInv ==
    /\ dump.whole \in BOOLEAN
    /\ job.kind # "import" => todo = {}
    /\ outcome.how \in {"none", "ok"}

LEMMA MarksStep ==
    ASSUME Shape, MarksInv, [Next]_vars
    PROVE  MarksInv'
<1> USE DEF MarksInv, tableVars
<1>d. PICK E, C, L, w :
          dump = [events |-> E, losses |-> L, candidates |-> C, whole |-> w]
    BY DEF Shape, DumpShape
<1>1. CASE UNCHANGED <<dump, job, todo, outcome>>
    BY <1>1
<1>2. ASSUME NEW s \in Stores, Export(s) \/ Import(s) PROVE MarksInv'
  <2>1. CASE Export(s)
    BY <2>1 DEF Export, NoDump, Idle
  <2>2. CASE Import(s)
    <3>1. job'.kind = "import"
      BY <2>2 DEF Import
    <3>2. outcome'.how = "none" /\ dump' = dump
      BY <2>2 DEF Import
    <3> QED
      BY <3>1, <3>2
  <2> QED
    BY <1>2, <2>1, <2>2
<1>3. ASSUME NEW table \in Tables, Select(table) PROVE MarksInv'
  <2>1. dump'.whole = dump.whole
    BY <1>d, <1>3 DEF Select
  <2>2. job'.kind = job.kind
    BY <1>3 DEF Select, Shape, JobShape, Idle
  <2> QED
    BY <1>3, <2>1, <2>2 DEF Select
<1>4. CASE WriteDump
    BY <1>4, <1>d DEF WriteDump, Idle
<1>5. CASE RestoreRow
    BY <1>5 DEF RestoreRow
<1>6. CASE NextTable
  <2>1. job'.kind = "import"
    BY <1>6 DEF NextTable, Shape, JobShape, Idle
  <2> QED
    BY <1>6, <2>1 DEF NextTable
<1>7. CASE Restored \/ RowRefused \/ ImportFails
    BY <1>7 DEF Restored, RowRefused, ImportFails, EndImport
<1>8. CASE ExportFails
    BY <1>8 DEF ExportFails, NoDump, Idle
<1> QED
    BY <1>1, <1>2, <1>3, <1>4, <1>5, <1>6, <1>7, <1>8
    DEF Next, vars, jobVars, InsertEvent, RecordLoss, ImportProposal,
        ImportFile, PutCandidate

(* Rows that are known are a number, a root and the number of a loss.      *)
LEMMA KnownTyped ==
    ASSUME LossTables, NEW N \in [Stores \X Nat -> Nat], NEW rows,
           Known(N, lost, rows)
    PROVE  rows \subseteq Nat \X (Stores \X Nat)
<1> SUFFICES ASSUME NEW r \in rows PROVE r \in Nat \X (Stores \X Nat)
    OBVIOUS
<1>1. PICK t \in Stores : \E n \in 1 .. lost[t] : r = <<N[<<t, n>>], <<t, n>>>>
    BY DEF Known
<1>2. PICK n \in 1 .. lost[t] : r = <<N[<<t, n>>], <<t, n>>>>
    BY <1>1
<1>3. n \in Nat
    BY <1>2 DEF LossTables
<1> QED
    BY <1>2, <1>3

(* The types of the tables, the dump and the commands, for every set of    *)
(* roots, bodies and tables that may refuse a row.                         *)
THEOREM TypeCorrect == Spec => []TypeOK
<1> DEFINE Inv == Shape /\ LossInv /\ RestoreInv /\ MarksInv
<1>1. Init => Inv
  <2>1. Init => MarksInv
    BY DEF Init, MarksInv, NoDump, Idle
  <2> QED
    BY <2>1, ShapeInit, LossInit, RestoreInit
<1>2. Inv /\ [Next]_vars => Inv'
    BY ShapeStep, LossStep, RestoreStep, MarksStep
<1>3. Inv => TypeOK
  <2> SUFFICES ASSUME Inv PROVE TypeOK
    OBVIOUS
  <2>2. /\ events \in [Stores -> SUBSET Nat]
        /\ candidates \in [Stores -> SUBSET Row]
        /\ puts \in [Stores -> SUBSET Row]
        /\ made \in Nat /\ ids \in Nat
        /\ lost \in [Stores -> Nat]
    BY DEF Shape, LossInv, LossTables
  <2>4. PICK N \in [Stores \X Nat -> Nat] : Numbered(N)
    BY DEF LossInv
  <2>5. \A s \in Stores : LossRows(s) \subseteq Nat \X (Stores \X Nat)
    BY <2>4, KnownTyped DEF LossInv, Numbered
  <2>6. dump.events \subseteq Nat /\ dump.candidates \subseteq Row
    BY DumpFacts DEF Shape
  <2>7. \/ job = Idle
        \/ /\ job.kind \in {"export", "import"} /\ job.store \in Stores
           /\ job.at \in Tables \cup {"end"}
    BY DEF Shape, JobShape
  <2>8. ASSUME job.kind = "import"
        PROVE  CASE job.at = "events" -> todo \subseteq Nat
                 [] job.at = "losses" -> todo \subseteq Nat \X (Stores \X Nat)
                 [] job.at = "candidates" -> todo \subseteq Row
                 [] OTHER -> todo = {}
    <3>1. dump.losses \subseteq Nat \X (Stores \X Nat)
      BY <2>4, KnownTyped DEF LossInv, Numbered
    <3>2. todo \subseteq RowsOf(job.at)
      BY <2>8 DEF RestoreInv
    <3>3. CASE job.at = "events"
      BY <2>6, <3>2, <3>3 DEF RowsOf
    <3>4. CASE job.at = "losses"
      BY <3>1, <3>2, <3>4 DEF RowsOf
    <3>5. CASE job.at = "candidates"
      BY <2>6, <3>2, <3>5 DEF RowsOf
    <3>6. CASE job.at \notin {"events", "losses", "candidates"}
      BY <3>2, <3>6 DEF RowsOf
    <3> QED
      BY <3>3, <3>4, <3>5, <3>6
  <2> QED
    BY <2>2, <2>5, <2>6, <2>7, <2>8 DEF TypeOK, MarksInv
<1> QED
    BY <1>1, <1>2, <1>3, PTL DEF Spec

=============================================================================
