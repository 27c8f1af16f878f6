----------------------- MODULE EpisodeRunnerProofs -----------------------
(***************************************************************************)
(* What holds of every experiment, whatever the number of tasks, however   *)
(* HEAD moves and whatever may fail: no worktree is left behind unless a   *)
(* worktree command failed or the process was killed, results are stored   *)
(* together, and a result that passes is honest.                           *)
(***************************************************************************)
EXTENDS EpisodeRunner, TLAPS

(* The verdict of a task is made of a tree the patch was applied to.       *)
VerdictInv ==
    /\ pc \in {"runbase", "runcand", "judge"} =>
           patched = {"cand"} /\ tree["cand"] \in Applies
    /\ HonestResult

(* How many results are stored, and how the command ended.                 *)
StoredInv == CountInv /\ WholeUnlessStoringFails

(* Every step preserves the types.                                         *)
LEMMA TypeStep ==
    ASSUME TypeOK, CountInv, [Next]_vars
    PROVE  TypeOK'
<1> USE TaskAssumption, BoundAssumption DEF TypeOK, CountInv, Results, Roles, None, Outcomes, vars, gitVars, episodeVars, resultVars
<1>1. CASE Probe
  <2>1. <<"probe", task>> \in Roles \X (1 .. NTasks)
    BY <1>1 DEF Probe
  <2>2. tree' \in [Roles -> Nat \cup {None}]
    BY <1>1 DEF Probe, Add
  <2> QED
    BY <1>1, <2>1, <2>2 DEF Probe, Add
<1>2. CASE ProbeFails
    BY <1>2 DEF ProbeFails, Fault, Raise
<1>3. CASE Check
    BY <1>3 DEF Check
<1>4. CASE Unprobe
    BY <1>4 DEF Unprobe, Remove, Fault
<1>5. CASE UnprobeRaise
    BY <1>5 DEF UnprobeRaise, Remove, Fault, Raise
<1>6. CASE AddBase
  <2>1. <<"base", task>> \in Roles \X (1 .. NTasks)
    BY <1>6 DEF AddBase
  <2>2. tree' \in [Roles -> Nat \cup {None}]
    BY <1>6 DEF AddBase, Add
  <2> QED
    BY <1>6, <2>1, <2>2 DEF AddBase, Add
<1>7. CASE AddCand
  <2>1. <<"cand", task>> \in Roles \X (1 .. NTasks)
    BY <1>7 DEF AddCand
  <2>2. tree' \in [Roles -> Nat \cup {None}]
    BY <1>7 DEF AddCand, Add
  <2> QED
    BY <1>7, <2>1, <2>2 DEF AddCand, Add
<1>8. CASE AddFails
    BY <1>8 DEF AddFails, Fault, Raise
<1>9. CASE Apply
    BY <1>9 DEF Apply
<1>10. CASE ApplyFails
    BY <1>10 DEF ApplyFails, Fault, Leave
<1>11. CASE RunBase
    BY <1>11 DEF RunBase, Episode
<1>12. CASE RunCand
    BY <1>12 DEF RunCand, Episode
<1>13. CASE EpisodeRaises
    BY <1>13 DEF EpisodeRaises, Leave
<1>14. CASE Judge
  <2>1. PICK ok \in BOOLEAN : results' = Append(results, Verdict(Gate(ok)))
    BY <1>14 DEF Judge
  <2>2. Verdict(Gate(ok)) \in Results
    BY <1>14 DEF Judge, Verdict, Gate
  <2>3. results' \in Seq(Results) /\ Len(results') = Len(results) + 1
    BY <2>1, <2>2
  <2>4. Len(results') <= NTasks /\ stored \in 0 .. Len(results')
    BY <1>14, <2>3 DEF Judge
  <2> QED
    BY <1>14, <2>3, <2>4 DEF Judge, Leave
<1>15. CASE FinallyBase
    BY <1>15 DEF FinallyBase, Remove, Fault
<1>16. CASE FinallyReturn
  <2>1. registered' \subseteq Roles \X (1 .. NTasks)
    BY <1>16 DEF FinallyReturn, Remove
  <2>2. faults' \subseteq Faulty
    BY <1>16 DEF FinallyReturn, Remove, Fault
  <2>3. outcome' \in [Roles -> Outcomes \cup {"none"}]
    BY <1>16 DEF FinallyReturn
  <2>4. task' \in 1 .. NTasks + 1 /\ pc' \in {"store", "probe"}
    BY <1>16 DEF FinallyReturn, NextTask
  <2> QED
    BY <1>16, <2>1, <2>2, <2>3, <2>4 DEF FinallyReturn, Remove, NextTask
<1>17. CASE FinallyRaise
    BY <1>17 DEF FinallyRaise, Remove, Fault, Raise
<1>18. CASE Store
    BY <1>18 DEF Store
<1>19. CASE StoreFails
    BY <1>19 DEF StoreFails, Fault, Raise
<1>20. CASE Finish
    BY <1>20 DEF Finish
<1>21. CASE Commit
    BY <1>21 DEF Commit
<1>22. CASE Kill
    BY <1>22 DEF Kill, Fault, Raise
<1>23. CASE Exited
    BY <1>23 DEF Exited, vars
<1>24. CASE UNCHANGED vars
    BY <1>24 DEF vars
<1> QED
    BY <1>1, <1>2, <1>3, <1>4, <1>5, <1>6, <1>7, <1>8, <1>9, <1>10,
       <1>11, <1>12, <1>13, <1>14, <1>15, <1>16, <1>17, <1>18, <1>19, <1>20,
       <1>21, <1>22, <1>23, <1>24
    DEF Next, Run

(* Every step registers and unregisters what its place in the code says.   *)
LEMMA RegisteredStep ==
    ASSUME TypeOK, RegisteredInv, [Next]_vars
    PROVE  RegisteredInv'
<1> USE TaskAssumption, BoundAssumption DEF TypeOK, RegisteredInv, vars, gitVars, episodeVars, resultVars
<1>1. CASE Probe
  <2>1. ({} \X {task}) \cup {<<"probe", task>>} = {"probe"} \X {task}
    OBVIOUS
  <2>2. Open(pc) = {} /\ Open(pc') = {"probe"}
    BY <1>1 DEF Probe, Add, Open
  <2>3. {} \X {task} = {} /\ {} \X {task'} = {}
    OBVIOUS
  <2> QED
    BY <1>1, <2>1, <2>2, <2>3 DEF Probe, Add
<1>2. CASE ProbeFails
    BY <1>2 DEF ProbeFails, Fault, Raise, Open
<1>3. CASE Check
    BY <1>3 DEF Check, Open
<1>4. CASE Unprobe
  <2>1. ({"probe"} \X {task}) \ {<<"probe", task>>} = {} \X {task}
    OBVIOUS
  <2>2. Open(pc) = {"probe"} /\ Open(pc') = {}
    BY <1>4 DEF Unprobe, Remove, Fault, Open
  <2>3. {} \X {task} = {} /\ {} \X {task'} = {}
    OBVIOUS
  <2>4. CASE UNCHANGED faults /\ registered' = registered \ {<<"probe", task>>}
    <3>1. task' = task \/ Open(pc') = {}
      BY <1>4, <2>2 DEF Unprobe, Remove, Fault
    <3> QED
      BY <2>1, <2>2, <2>3, <2>4, <3>1
  <2>5. CASE Fault("remove")
    BY <2>5 DEF Fault
  <2> QED
    BY <1>4, <2>4, <2>5 DEF Unprobe, Remove
<1>5. CASE UnprobeRaise
  <2>1. ({"probe"} \X {task}) \ {<<"probe", task>>} = {} \X {task}
    OBVIOUS
  <2>2. Open(pc) = {"probe"} /\ Open(pc') = {}
    BY <1>5 DEF UnprobeRaise, Remove, Fault, Raise, Open
  <2>3. {} \X {task} = {} /\ {} \X {task'} = {}
    OBVIOUS
  <2>4. CASE UNCHANGED faults /\ registered' = registered \ {<<"probe", task>>}
    <3>1. task' = task \/ Open(pc') = {}
      BY <1>5, <2>2 DEF UnprobeRaise, Remove, Fault, Raise
    <3> QED
      BY <2>1, <2>2, <2>3, <2>4, <3>1
  <2>5. CASE Fault("remove")
    BY <2>5 DEF Fault
  <2> QED
    BY <1>5, <2>4, <2>5 DEF UnprobeRaise, Remove
<1>6. CASE AddBase
  <2>1. ({} \X {task}) \cup {<<"base", task>>} = {"base"} \X {task}
    OBVIOUS
  <2>2. Open(pc) = {} /\ Open(pc') = {"base"}
    BY <1>6 DEF AddBase, Add, Open
  <2>3. {} \X {task} = {} /\ {} \X {task'} = {}
    OBVIOUS
  <2> QED
    BY <1>6, <2>1, <2>2, <2>3 DEF AddBase, Add
<1>7. CASE AddCand
  <2>1. ({"base"} \X {task}) \cup {<<"cand", task>>} = {"base", "cand"} \X {task}
    OBVIOUS
  <2>2. Open(pc) = {"base"} /\ Open(pc') = {"base", "cand"}
    BY <1>7 DEF AddCand, Add, Open
  <2>3. {} \X {task} = {} /\ {} \X {task'} = {}
    OBVIOUS
  <2> QED
    BY <1>7, <2>1, <2>2, <2>3 DEF AddCand, Add
<1>8. CASE AddFails
    BY <1>8 DEF AddFails, Fault, Raise, Open
<1>9. CASE Apply
    BY <1>9 DEF Apply, Open
<1>10. CASE ApplyFails
    BY <1>10 DEF ApplyFails, Fault, Leave, Open
<1>11. CASE RunBase
    BY <1>11 DEF RunBase, Episode, Open
<1>12. CASE RunCand
    BY <1>12 DEF RunCand, Episode, Open
<1>13. CASE EpisodeRaises
    BY <1>13 DEF EpisodeRaises, Leave, Open
<1>14. CASE Judge
    BY <1>14 DEF Judge, Leave, Verdict, Gate, Open
<1>15. CASE FinallyBase
  <2>1. ({"base", "cand"} \X {task}) \ {<<"base", task>>} = {"cand"} \X {task}
    OBVIOUS
  <2>2. Open(pc) = {"base", "cand"} /\ Open(pc') = {"cand"}
    BY <1>15 DEF FinallyBase, Remove, Fault, Open
  <2>3. {} \X {task} = {} /\ {} \X {task'} = {}
    OBVIOUS
  <2>4. CASE UNCHANGED faults /\ registered' = registered \ {<<"base", task>>}
    <3>1. task' = task \/ Open(pc') = {}
      BY <1>15, <2>2 DEF FinallyBase, Remove, Fault
    <3> QED
      BY <2>1, <2>2, <2>3, <2>4, <3>1
  <2>5. CASE Fault("remove")
    BY <2>5 DEF Fault
  <2> QED
    BY <1>15, <2>4, <2>5 DEF FinallyBase, Remove
<1>16. CASE FinallyReturn
  <2>1. ({"cand"} \X {task}) \ {<<"cand", task>>} = {} \X {task}
    OBVIOUS
  <2>2. Open(pc) = {"cand"} /\ Open(pc') = {}
    BY <1>16 DEF FinallyReturn, Remove, Fault, NextTask, Open
  <2>3. {} \X {task} = {} /\ {} \X {task'} = {}
    OBVIOUS
  <2>4. CASE UNCHANGED faults /\ registered' = registered \ {<<"cand", task>>}
    <3>1. task' = task \/ Open(pc') = {}
      BY <1>16, <2>2 DEF FinallyReturn, Remove, Fault, NextTask
    <3> QED
      BY <2>1, <2>2, <2>3, <2>4, <3>1
  <2>5. CASE Fault("remove")
    BY <2>5 DEF Fault
  <2> QED
    BY <1>16, <2>4, <2>5 DEF FinallyReturn, Remove
<1>17. CASE FinallyRaise
  <2>1. ({"cand"} \X {task}) \ {<<"cand", task>>} = {} \X {task}
    OBVIOUS
  <2>2. Open(pc) = {"cand"} /\ Open(pc') = {}
    BY <1>17 DEF FinallyRaise, Remove, Fault, Raise, Open
  <2>3. {} \X {task} = {} /\ {} \X {task'} = {}
    OBVIOUS
  <2>4. CASE UNCHANGED faults /\ registered' = registered \ {<<"cand", task>>}
    <3>1. task' = task \/ Open(pc') = {}
      BY <1>17, <2>2 DEF FinallyRaise, Remove, Fault, Raise
    <3> QED
      BY <2>1, <2>2, <2>3, <2>4, <3>1
  <2>5. CASE Fault("remove")
    BY <2>5 DEF Fault
  <2> QED
    BY <1>17, <2>4, <2>5 DEF FinallyRaise, Remove
<1>18. CASE Store
    BY <1>18 DEF Store, Open
<1>19. CASE StoreFails
    BY <1>19 DEF StoreFails, Fault, Raise, Open
<1>20. CASE Finish
    BY <1>20 DEF Finish, Open
<1>21. CASE Commit
    BY <1>21 DEF Commit, Open
<1>22. CASE Kill
    BY <1>22 DEF Kill, Fault, Raise, Open
<1>23. CASE Exited
    BY <1>23 DEF Exited, vars, Open
<1>24. CASE UNCHANGED vars
    BY <1>24 DEF vars
<1> QED
    BY <1>1, <1>2, <1>3, <1>4, <1>5, <1>6, <1>7, <1>8, <1>9, <1>10,
       <1>11, <1>12, <1>13, <1>14, <1>15, <1>16, <1>17, <1>18, <1>19, <1>20,
       <1>21, <1>22, <1>23, <1>24
    DEF Next, Run

(* Every step keeps the number of results in step with the task.           *)
LEMMA CountStep ==
    ASSUME TypeOK, CountInv, [Next]_vars
    PROVE  CountInv'
<1> USE TaskAssumption, BoundAssumption DEF TypeOK, CountInv, vars, gitVars, episodeVars, resultVars
<1>1. CASE Probe
    BY <1>1 DEF Probe, Add
<1>2. CASE ProbeFails
    BY <1>2 DEF ProbeFails, Fault, Raise
<1>3. CASE Check
    BY <1>3 DEF Check
<1>4. CASE Unprobe
    BY <1>4 DEF Unprobe, Remove, Fault
<1>5. CASE UnprobeRaise
    BY <1>5 DEF UnprobeRaise, Remove, Fault, Raise
<1>6. CASE AddBase
    BY <1>6 DEF AddBase, Add
<1>7. CASE AddCand
    BY <1>7 DEF AddCand, Add
<1>8. CASE AddFails
    BY <1>8 DEF AddFails, Fault, Raise
<1>9. CASE Apply
    BY <1>9 DEF Apply
<1>10. CASE ApplyFails
    BY <1>10 DEF ApplyFails, Fault, Leave
<1>11. CASE RunBase
    BY <1>11 DEF RunBase, Episode
<1>12. CASE RunCand
    BY <1>12 DEF RunCand, Episode
<1>13. CASE EpisodeRaises
    BY <1>13 DEF EpisodeRaises, Leave
<1>14. CASE Judge
    BY <1>14 DEF Judge, Leave, Verdict, Gate
<1>15. CASE FinallyBase
    BY <1>15 DEF FinallyBase, Remove, Fault
<1>16. CASE FinallyReturn
    BY <1>16 DEF FinallyReturn, Remove, Fault, NextTask
<1>17. CASE FinallyRaise
    BY <1>17 DEF FinallyRaise, Remove, Fault, Raise
<1>18. CASE Store
    BY <1>18 DEF Store
<1>19. CASE StoreFails
    BY <1>19 DEF StoreFails, Fault, Raise
<1>20. CASE Finish
    BY <1>20 DEF Finish
<1>21. CASE Commit
    BY <1>21 DEF Commit
<1>22. CASE Kill
    BY <1>22 DEF Kill, Fault, Raise
<1>23. CASE Exited
    BY <1>23 DEF Exited, vars
<1>24. CASE UNCHANGED vars
    BY <1>24 DEF vars
<1> QED
    BY <1>1, <1>2, <1>3, <1>4, <1>5, <1>6, <1>7, <1>8, <1>9, <1>10,
       <1>11, <1>12, <1>13, <1>14, <1>15, <1>16, <1>17, <1>18, <1>19, <1>20,
       <1>21, <1>22, <1>23, <1>24
    DEF Next, Run

(* Every step keeps results unstored until every task has run.            *)
LEMMA StoredStep ==
    ASSUME TypeOK, StoredInv, [Next]_vars
    PROVE  StoredInv'
<1> USE TaskAssumption, BoundAssumption DEF TypeOK, StoredInv, CountInv, WholeUnlessStoringFails, vars, gitVars, episodeVars, resultVars
<1>1. CASE Probe
    BY <1>1 DEF Probe, Add
<1>2. CASE ProbeFails
    BY <1>2 DEF ProbeFails, Fault, Raise
<1>3. CASE Check
    BY <1>3 DEF Check
<1>4. CASE Unprobe
    BY <1>4 DEF Unprobe, Remove, Fault
<1>5. CASE UnprobeRaise
    BY <1>5 DEF UnprobeRaise, Remove, Fault, Raise
<1>6. CASE AddBase
    BY <1>6 DEF AddBase, Add
<1>7. CASE AddCand
    BY <1>7 DEF AddCand, Add
<1>8. CASE AddFails
    BY <1>8 DEF AddFails, Fault, Raise
<1>9. CASE Apply
    BY <1>9 DEF Apply
<1>10. CASE ApplyFails
    BY <1>10 DEF ApplyFails, Fault, Leave
<1>11. CASE RunBase
    BY <1>11 DEF RunBase, Episode
<1>12. CASE RunCand
    BY <1>12 DEF RunCand, Episode
<1>13. CASE EpisodeRaises
    BY <1>13 DEF EpisodeRaises, Leave
<1>14. CASE Judge
  <2>1. Len(results') = Len(results) + 1
    BY <1>14 DEF Judge
  <2> QED
    BY <1>14, <2>1 DEF Judge, Leave
<1>15. CASE FinallyBase
    BY <1>15 DEF FinallyBase, Remove, Fault
<1>16. CASE FinallyReturn
    BY <1>16 DEF FinallyReturn, Remove, Fault, NextTask
<1>17. CASE FinallyRaise
    BY <1>17 DEF FinallyRaise, Remove, Fault, Raise
<1>18. CASE Store
    BY <1>18 DEF Store
<1>19. CASE StoreFails
    BY <1>19 DEF StoreFails, Fault, Raise
<1>20. CASE Finish
    BY <1>20 DEF Finish
<1>21. CASE Commit
    BY <1>21 DEF Commit
<1>22. CASE Kill
    BY <1>22 DEF Kill, Fault, Raise
<1>23. CASE Exited
    BY <1>23 DEF Exited, vars
<1>24. CASE UNCHANGED vars
    BY <1>24 DEF vars
<1> QED
    BY <1>1, <1>2, <1>3, <1>4, <1>5, <1>6, <1>7, <1>8, <1>9, <1>10,
       <1>11, <1>12, <1>13, <1>14, <1>15, <1>16, <1>17, <1>18, <1>19, <1>20,
       <1>21, <1>22, <1>23, <1>24
    DEF Next, Run

(* Every step keeps the verdicts made so far, and the tree of the next.    *)
LEMMA VerdictStep ==
    ASSUME TypeOK, VerdictInv, [Next]_vars
    PROVE  VerdictInv'
<1> USE TaskAssumption, BoundAssumption DEF TypeOK, VerdictInv, HonestResult, Roles, vars, gitVars, episodeVars, resultVars
<1>1. CASE Probe
    BY <1>1 DEF Probe, Add
<1>2. CASE ProbeFails
    BY <1>2 DEF ProbeFails, Fault, Raise
<1>3. CASE Check
    BY <1>3 DEF Check
<1>4. CASE Unprobe
    BY <1>4 DEF Unprobe, Remove, Fault
<1>5. CASE UnprobeRaise
    BY <1>5 DEF UnprobeRaise, Remove, Fault, Raise
<1>6. CASE AddBase
    BY <1>6 DEF AddBase, Add
<1>7. CASE AddCand
    BY <1>7 DEF AddCand, Add
<1>8. CASE AddFails
    BY <1>8 DEF AddFails, Fault, Raise
<1>9. CASE Apply
    BY <1>9 DEF Apply
<1>10. CASE ApplyFails
    BY <1>10 DEF ApplyFails, Fault, Leave
<1>11. CASE RunBase
    BY <1>11 DEF RunBase, Episode
<1>12. CASE RunCand
    BY <1>12 DEF RunCand, Episode
<1>13. CASE EpisodeRaises
    BY <1>13 DEF EpisodeRaises, Leave
<1>14. CASE Judge
  <2>1. PICK ok \in BOOLEAN : results' = Append(results, Verdict(Gate(ok)))
    BY <1>14 DEF Judge
  <2>2. \A i \in DOMAIN results' :
            IF i = Len(results) + 1 THEN results'[i] = Verdict(Gate(ok))
            ELSE i \in DOMAIN results /\ results'[i] = results[i]
    BY <2>1
  <2>3. Verdict(Gate(ok)).pass =>
            /\ Verdict(Gate(ok)).patched = {"cand"}
            /\ Verdict(Gate(ok)).cand \in Applies
            /\ Verdict(Gate(ok)).exit = "zero"
    BY <1>14 DEF Judge, Verdict, Gate
  <2>4. HonestResult'
    BY <2>2, <2>3
  <2> QED
    BY <1>14, <2>4 DEF Judge, Leave
<1>15. CASE FinallyBase
    BY <1>15 DEF FinallyBase, Remove, Fault
<1>16. CASE FinallyReturn
    BY <1>16 DEF FinallyReturn, Remove, Fault, NextTask
<1>17. CASE FinallyRaise
    BY <1>17 DEF FinallyRaise, Remove, Fault, Raise
<1>18. CASE Store
    BY <1>18 DEF Store
<1>19. CASE StoreFails
    BY <1>19 DEF StoreFails, Fault, Raise
<1>20. CASE Finish
    BY <1>20 DEF Finish
<1>21. CASE Commit
    BY <1>21 DEF Commit
<1>22. CASE Kill
    BY <1>22 DEF Kill, Fault, Raise
<1>23. CASE Exited
    BY <1>23 DEF Exited, vars
<1>24. CASE UNCHANGED vars
    BY <1>24 DEF vars
<1> QED
    BY <1>1, <1>2, <1>3, <1>4, <1>5, <1>6, <1>7, <1>8, <1>9, <1>10,
       <1>11, <1>12, <1>13, <1>14, <1>15, <1>16, <1>17, <1>18, <1>19, <1>20,
       <1>21, <1>22, <1>23, <1>24
    DEF Next, Run

(* Types, for every number of tasks and commits (episodes/runner.py).      *)
THEOREM TypeCorrect == Spec => []TypeOK
<1>1. Init => TypeOK /\ CountInv
    BY TaskAssumption, BoundAssumption
    DEF Init, TypeOK, Results, Outcomes, Roles, None, CountInv
<1>2. TypeOK /\ CountInv /\ [Next]_vars => (TypeOK /\ CountInv)'
    BY TypeStep, CountStep
<1> QED
    BY <1>1, <1>2, PTL DEF Spec

(* Whatever ends the command, no worktree stays registered if no worktree  *)
(* command failed and nobody killed it: the try of runner.py:189-229 and   *)
(* of validate.py:119-135 cover every step between an add and its removal. *)
THEOREM NoLeak == Spec => []NoLeakWithoutFault
<1>1. Init => TypeOK /\ CountInv /\ RegisteredInv
    BY TaskAssumption, BoundAssumption
    DEF Init, TypeOK, Results, Outcomes, Roles, None,
        CountInv, RegisteredInv, Open
<1>2. TypeOK /\ CountInv /\ RegisteredInv /\ [Next]_vars
        => (TypeOK /\ CountInv /\ RegisteredInv)'
    BY TypeStep, CountStep, RegisteredStep
<1>3. TypeOK /\ CountInv /\ RegisteredInv => NoLeakWithoutFault
    BY TaskAssumption DEF NoLeakWithoutFault, RegisteredInv, CountInv, Open
<1> QED
    BY <1>1, <1>2, <1>3, PTL DEF Spec

(* No result is stored before every task has run, and a part of them only  *)
(* by a command that failed or was killed while it stored (cli.py:461-470).*)
THEOREM WholeCorrect == Spec => []WholeUnlessStoringFails
<1>1. Init => TypeOK /\ CountInv /\ StoredInv
    BY TaskAssumption, BoundAssumption
    DEF Init, TypeOK, Results, Outcomes, Roles, None,
        CountInv, StoredInv, WholeUnlessStoringFails
<1>2. TypeOK /\ CountInv /\ StoredInv /\ [Next]_vars
        => (TypeOK /\ CountInv /\ StoredInv)'
    BY TypeStep, CountStep, StoredStep
<1>3. TypeOK /\ CountInv /\ StoredInv => WholeUnlessStoringFails
    BY TaskAssumption DEF WholeUnlessStoringFails, StoredInv, CountInv, TypeOK
<1> QED
    BY <1>1, <1>2, <1>3, PTL DEF Spec

(* A pass was obtained in a patched tree by a command that exited with     *)
(* zero, however HEAD moved meanwhile (runner.py:190-208).                 *)
THEOREM Honest == Spec => []HonestResult
<1>1. Init => TypeOK /\ CountInv /\ VerdictInv
    BY TaskAssumption, BoundAssumption
    DEF Init, TypeOK, Results, Outcomes, Roles, None,
        CountInv, VerdictInv, HonestResult
<1>2. TypeOK /\ CountInv /\ VerdictInv /\ [Next]_vars
        => (TypeOK /\ CountInv /\ VerdictInv)'
    BY TypeStep, CountStep, VerdictStep
<1>3. TypeOK /\ CountInv /\ VerdictInv => HonestResult
    BY TaskAssumption DEF VerdictInv, HonestResult
<1> QED
    BY <1>1, <1>2, <1>3, PTL DEF Spec

-----------------------------------------------------------------------------
(* How many steps of a task are still to come, at most.                    *)
ToCome(step) ==
    CASE step = "probe" -> 11
      [] step = "check" -> 10
      [] step \in {"unprobe", "unproberaise"} -> 9
      [] step = "addbase" -> 8
      [] step = "addcand" -> 7
      [] step = "apply" -> 6
      [] step = "runbase" -> 5
      [] step = "runcand" -> 4
      [] step = "judge" -> 3
      [] step = "removebase" -> 2
      [] OTHER -> 1

(* And of the command: those of this task, of the tasks after it, and then *)
(* a statement for each result and the end.                                *)
Left ==
    IF pc = "exit" THEN 0
    ELSE IF pc = "store" THEN 1 + NTasks - stored
    ELSE ToCome(pc) + 11 * (NTasks - task) + NTasks + 1

(* Every step of the command leaves fewer to come, so it takes at most     *)
(* 12 * NTasks + 1 of them, whatever fails and however HEAD moves: what    *)
(* Terminates needs besides fairness.  The loops over tasks and results    *)
(* have no retry (cli.py:461-473, runner.py:149-229).                      *)
THEOREM RunsDown ==
    Spec => /\ [](Left \in 0 .. 12 * NTasks + 1)
            /\ [][/\ Run \/ Kill => Left' < Left
                  /\ ~(Run \/ Kill) => Left' = Left]_vars
<1> DEFINE Inv == TypeOK /\ CountInv
<1>1. Init => Inv
    BY TaskAssumption, BoundAssumption
    DEF Init, TypeOK, Results, Outcomes, Roles, None, CountInv
<1>2. Inv /\ [Next]_vars => Inv'
    BY TypeStep, CountStep
<1>3. Inv => Left \in 0 .. 12 * NTasks + 1
  <2> SUFFICES ASSUME Inv PROVE Left \in 0 .. 12 * NTasks + 1
    OBVIOUS
  <2>1. NTasks \in Nat /\ NTasks >= 1
    BY TaskAssumption
  <2>2. CASE pc \in {"exit", "store"}
    BY <2>1, <2>2 DEF Left, TypeOK, CountInv
  <2>3. CASE pc \notin {"exit", "store"}
    <3>1. task \in 1 .. NTasks /\ ToCome(pc) \in 1 .. 11
      BY <2>1, <2>3 DEF TypeOK, CountInv, ToCome
    <3>2. Left = ToCome(pc) + 11 * (NTasks - task) + NTasks + 1
      BY <2>3 DEF Left
    <3> QED
      BY <2>1, <3>1, <3>2
  <2> QED
    BY <2>2, <2>3
<1>4. Inv /\ Inv' /\ (Run \/ Kill) => Left' < Left
  <2> SUFFICES ASSUME Inv, Inv', Run \/ Kill PROVE Left' < Left
    OBVIOUS
  <2> DEFINE P == ToCome(pc)
             Q == ToCome(pc')
  <2>1. /\ NTasks \in Nat /\ NTasks >= 1
        /\ pc # "exit" /\ task \in 1 .. NTasks + 1 /\ stored \in Nat
        /\ pc \notin {"store", "exit"} => task \in 1 .. NTasks
    <3>1. pc # "exit"
      BY DEF Run, Kill, Probe, ProbeFails, Check, Unprobe, UnprobeRaise, AddBase,
             AddCand, AddFails, Apply, ApplyFails, RunBase, RunCand, EpisodeRaises,
             Judge, FinallyBase, FinallyReturn, FinallyRaise, Store, StoreFails, Finish
    <3> QED
      BY <3>1, TaskAssumption DEF TypeOK, CountInv
  <2>2. CASE pc' = "exit"
    <3>1. Left' = 0
      BY <2>2 DEF Left
    <3>2. CASE pc = "store"
      <4>1. stored <= NTasks
        BY <3>2 DEF TypeOK, CountInv
      <4> QED
        BY <2>1, <3>1, <3>2, <4>1 DEF Left
    <3>3. CASE pc # "store"
      <4>1. P \in 1 .. 11
        BY <2>1 DEF ToCome
      <4>2. Left = P + 11 * (NTasks - task) + NTasks + 1
        BY <2>1, <3>3 DEF Left
      <4> QED
        BY <2>1, <3>1, <3>3, <4>1, <4>2
    <3> QED
      BY <3>2, <3>3
  <2>3. CASE Store
    BY <2>1, <2>3 DEF Store, Left
  <2>4. CASE FinallyReturn
    <3>1. P = 1 /\ task' = task + 1 /\ stored = 0 /\ stored' = stored
      BY <2>4 DEF FinallyReturn, NextTask, ToCome, CountInv
    <3>2. Left = 1 + 11 * (NTasks - task) + NTasks + 1
      BY <2>1, <2>4, <3>1 DEF FinallyReturn, Left
    <3>3. CASE task = NTasks
      <4>1. Left' = 1 + NTasks - 0
        BY <2>4, <3>1, <3>3 DEF FinallyReturn, NextTask, Left
      <4> QED
        BY <2>1, <3>2, <3>3, <4>1
    <3>4. CASE task # NTasks
      <4>1. pc' = "probe" /\ Q = 11
        BY <2>4, <3>4 DEF FinallyReturn, NextTask, ToCome
      <4>2. Left' = 11 + 11 * (NTasks - (task + 1)) + NTasks + 1
        BY <3>1, <4>1 DEF Left
      <4> QED
        BY <2>1, <2>4, <3>2, <3>4, <4>2 DEF FinallyReturn
    <3> QED
      BY <3>3, <3>4
  <2>5. CASE pc' # "exit" /\ ~Store /\ ~FinallyReturn
    <3>1. /\ task' = task /\ pc \notin {"store", "exit"} /\ pc' \notin {"store", "exit"}
          /\ P \in 1 .. 11 /\ Q \in 1 .. 11 /\ Q < P
      BY <2>5 DEF Run, Kill, Probe, ProbeFails, Check, Unprobe, UnprobeRaise, AddBase,
             AddCand, AddFails, Apply, ApplyFails, RunBase, RunCand, EpisodeRaises,
             Judge, FinallyBase, FinallyRaise, StoreFails, Finish,
             Raise, Leave, Episode, ToCome, resultVars
    <3>2. /\ Left = P + 11 * (NTasks - task) + NTasks + 1
          /\ Left' = Q + 11 * (NTasks - task) + NTasks + 1
      BY <3>1 DEF Left
    <3> HIDE DEF P, Q
    <3> QED
      BY <2>1, <3>1, <3>2
  <2> QED
    BY <2>2, <2>3, <2>4, <2>5
<1>5. [Next]_vars /\ ~(Run \/ Kill) => Left' = Left
    BY DEF Next, Commit, Exited, vars, resultVars, Left, ToCome
<1>6. Inv /\ Inv' /\ [Next]_vars =>
          [/\ Run \/ Kill => Left' < Left
           /\ ~(Run \/ Kill) => Left' = Left]_vars
    BY <1>4, <1>5
<1> HIDE DEF Inv
<1> QED
    BY <1>1, <1>2, <1>3, <1>6, PTL DEF Spec
=============================================================================
