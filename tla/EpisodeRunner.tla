--------------------------- MODULE EpisodeRunner ---------------------------
(***************************************************************************)
(* `experiment run --backend episode`: EpisodeRunner.run for each task of  *)
(* one candidate, then the results are stored (episodes/runner.py,         *)
(* check_patch_applicability of candidates/validate.py, cli.py).  A step   *)
(* is a git command, an episode subprocess or a statement of the store.    *)
(* Meanwhile somebody may commit to the repository, commands may fail (a   *)
(* lock, a full disk) and the process may be killed.  Commits are numbered;*)
(* the patch of the candidate applies to the commits of Applies.           *)
(*                                                                         *)
(* A worktree is registered in the repository by `git worktree add` and    *)
(* stays registered until `git worktree remove`: deleting the temporary    *)
(* directory does not unregister it.                                       *)
(***************************************************************************)
EXTENDS Integers, Sequences, FiniteSets

CONSTANTS
    NTasks,      \* how many tasks the experiment has
    MaxCommits,  \* bound: how often HEAD moves during the experiment
    Applies,     \* the commits the candidate's patch applies to
    Faulty       \* what may fail: "add", "remove", "apply", "store", "kill"

ASSUME TaskAssumption == NTasks \in Nat /\ NTasks >= 1
ASSUME BoundAssumption ==
    MaxCommits \in Nat /\ Applies \subseteq Nat

None == -1
Roles == {"probe", "base", "cand"}  \* what a worktree is for

VARIABLES
    pc,         \* the step the experiment is at
    head,       \* the commit HEAD names
    faults,     \* what has failed so far
    registered, \* the worktrees git knows of, as <<role, task>>
    tree,       \* the commit each worktree was made of, or None
    patched,    \* the worktrees the patch was applied to
    outcome,    \* how the episode of each worktree ended
    task,       \* the number of the task being run
    results,    \* the list `results` of the CLI
    stored,     \* how many results are in the table evaluation_results
    how,        \* how run() is being left while `finally` runs
    ended       \* "no", or how the command ended

vars == <<pc, head, faults, registered, tree, patched, outcome, task, results,
          stored, how, ended>>
gitVars     == <<head, faults, registered, tree>>
episodeVars == <<patched, outcome>>
resultVars  == <<task, results, stored, how, ended>>

Outcomes == {"zero", "nonzero", "timeout"}

Init ==
    /\ pc = "probe"
    /\ head = 0 /\ faults = {}
    /\ registered = {}
    /\ tree = [r \in Roles |-> None]
    /\ patched = {}
    /\ outcome = [r \in Roles |-> "none"]
    /\ task = 1
    /\ results = <<>>
    /\ stored = 0
    /\ how = "return"
    /\ ended = "no"

Fault(kind) == kind \in Faulty /\ faults' = faults \cup {kind}

(* Somebody commits to the repository.                                     *)
Commit ==
    /\ ended = "no" /\ head < MaxCommits
    /\ head' = head + 1
    /\ UNCHANGED <<pc, faults, registered, tree, episodeVars, resultVars>>

(* Mutation: what was run so far is stored before the command ends.        *)
RaiseStoringPartial(kind) ==
    /\ pc' = "store"
    /\ UNCHANGED resultVars

(* An exception leaves run(): an EpisodeError ends the command with code   *)
(* 2, any other with a traceback.  Results of earlier tasks are dropped.   *)
Raise(kind) ==
    /\ ended' = kind
    /\ pc' = "exit"
    /\ UNCHANGED <<task, results, stored, how>>

-----------------------------------------------------------------------------
(* validate_candidate: a worktree of HEAD to probe the patch in.           *)

Add(role) ==
    /\ registered' = registered \cup {<<role, task>>}
    /\ tree' = [tree EXCEPT ![role] = head]
    /\ UNCHANGED <<head, faults>>

Probe ==
    /\ pc = "probe"
    /\ Add("probe")
    /\ pc' = "check"
    /\ UNCHANGED <<episodeVars, resultVars>>

ProbeFails ==
    /\ pc = "probe" /\ Fault("add")
    /\ Raise("traceback")
    /\ UNCHANGED <<head, registered, tree, episodeVars>>

Check ==
    /\ pc = "check"
    /\ pc' = IF tree["probe"] \in Applies THEN "unprobe" ELSE "unproberaise"
    /\ UNCHANGED <<gitVars, episodeVars, resultVars>>

(* `worktree remove --force` is run without check: it may fail silently.   *)
Remove(role) ==
    /\ UNCHANGED <<head, tree>>
    /\ \/ registered' = registered \ {<<role, task>>} /\ UNCHANGED faults
       \/ Fault("remove") /\ UNCHANGED registered

Unprobe ==
    /\ pc = "unprobe"
    /\ Remove("probe")
    /\ pc' = "addbase"
    /\ UNCHANGED <<episodeVars, resultVars>>

UnprobeRaise ==
    /\ pc = "unproberaise"
    /\ Remove("probe")
    /\ Raise("error")
    /\ UNCHANGED episodeVars

-----------------------------------------------------------------------------
(* run(): two worktrees, the patch, two episodes, the verdict.             *)

AddBase ==
    /\ pc = "addbase"
    /\ Add("base")
    /\ pc' = "addcand"
    /\ UNCHANGED <<episodeVars, resultVars>>

AddCand ==
    /\ pc = "addcand"
    /\ Add("cand")
    /\ pc' = "apply"
    /\ UNCHANGED <<episodeVars, resultVars>>

(* Both adds stand before the try: nothing is removed.                     *)
AddFails ==
    /\ pc \in {"addbase", "addcand"} /\ Fault("add")
    /\ Raise("traceback")
    /\ UNCHANGED <<head, registered, tree, episodeVars>>

(* run() is left, by return or by an exception: `finally` comes first.     *)
Leave(kind) ==
    /\ how' = kind
    /\ pc' = "removebase"
    /\ UNCHANGED <<stored, ended>>

(* Mutation: the candidate's tree is not checked again, only the probe's.  *)
ApplyUnchecked ==
    /\ pc = "apply"
    /\ patched' = IF tree["cand"] \in Applies THEN {"cand"} ELSE {}
    /\ pc' = "runbase"
    /\ UNCHANGED <<gitVars, outcome, resultVars>>

Apply ==
    /\ pc = "apply" /\ tree["cand"] \in Applies
    /\ patched' = {"cand"}
    /\ pc' = "runbase"
    /\ UNCHANGED <<gitVars, outcome, resultVars>>

(* HEAD moved to where the patch does not apply, or git apply fails.       *)
ApplyFails ==
    /\ pc = "apply"
    /\ \/ tree["cand"] \notin Applies /\ UNCHANGED faults
       \/ Fault("apply")
    /\ Leave("error")
    /\ UNCHANGED <<head, registered, tree, episodeVars, task, results>>

Episode(role, next) ==
    /\ \E o \in Outcomes : outcome' = [outcome EXCEPT ![role] = o]
    /\ pc' = next
    /\ UNCHANGED <<gitVars, patched, resultVars>>

RunBase == pc = "runbase" /\ Episode("base", "runcand")

RunCand == pc = "runcand" /\ Episode("cand", "judge")

(* The task has no command, an EpisodeError of the first episode, or the   *)
(* command cannot be started in its tree, which is another exception.      *)
EpisodeRaises ==
    /\ \/ pc = "runbase" /\ Leave("error")
       \/ pc \in {"runbase", "runcand"} /\ Leave("traceback")
    /\ UNCHANGED <<gitVars, episodeVars, task, results>>

(* The verdict: validators over the candidate's artifacts, return code and *)
(* timeout.  Then `finally`, before the CLI appends the result.            *)
Gate(validatorsOk) == validatorsOk /\ outcome["cand"] = "zero"

Verdict(ok) ==
    [pass |-> ok, base |-> tree["base"], cand |-> tree["cand"],
     patched |-> patched, exit |-> outcome["cand"]]

Judge ==
    /\ pc = "judge"
    /\ \E ok \in BOOLEAN : results' = Append(results, Verdict(Gate(ok)))
    /\ Leave("return")
    /\ UNCHANGED <<gitVars, episodeVars, task>>

(* Mutation: `finally` removes one worktree.                               *)
FinallyBaseOnly ==
    /\ pc = "removebase"
    /\ pc' = "removecand"
    /\ UNCHANGED <<gitVars, episodeVars, resultVars>>

FinallyBase ==
    /\ pc = "removebase"
    /\ Remove("base")
    /\ pc' = "removecand"
    /\ UNCHANGED <<episodeVars, resultVars>>

(* Mutation: a task that timed out is run again, without limit.            *)
NextTaskRetrying ==
    LET again == outcome["cand"] = "timeout" IN
    /\ task' = IF again THEN task ELSE task + 1
    /\ pc' = IF task = NTasks /\ ~again THEN "store" ELSE "probe"
    /\ results' = IF again THEN SubSeq(results, 1, task - 1) ELSE results
    /\ UNCHANGED <<stored, how, ended>>

NextTask ==
    /\ task' = task + 1
    /\ pc' = IF task = NTasks THEN "store" ELSE "probe"
    /\ UNCHANGED <<results, stored, how, ended>>

FinallyReturn ==
    /\ pc = "removecand" /\ how = "return"
    /\ Remove("cand")
    /\ NextTask
    /\ patched' = {}
    /\ outcome' = [r \in Roles |-> "none"]

FinallyRaise ==
    /\ pc = "removecand" /\ how # "return"
    /\ Remove("cand")
    /\ Raise(how)
    /\ UNCHANGED episodeVars

-----------------------------------------------------------------------------
(* The CLI stores the results once every task has run.                     *)

Store ==
    /\ pc = "store" /\ stored < Len(results)
    /\ stored' = stored + 1
    /\ UNCHANGED <<pc, gitVars, episodeVars, task, results, how, ended>>

StoreFails ==
    /\ pc = "store" /\ stored < Len(results) /\ Fault("store")
    /\ Raise("traceback")
    /\ UNCHANGED <<head, registered, tree, episodeVars>>

Finish ==
    /\ pc = "store" /\ stored = Len(results)
    /\ ended' = "ok"
    /\ pc' = "exit"
    /\ UNCHANGED <<gitVars, episodeVars, task, results, stored, how>>

(* The process is killed between any two steps: no `finally` runs.         *)
Kill ==
    /\ pc # "exit" /\ Fault("kill")
    /\ Raise("killed")
    /\ UNCHANGED <<head, registered, tree, episodeVars>>

Exited == pc = "exit" /\ UNCHANGED vars

Run ==
    \/ Probe \/ ProbeFails \/ Check \/ Unprobe \/ UnprobeRaise
    \/ AddBase \/ AddCand \/ AddFails \/ Apply \/ ApplyFails
    \/ RunBase \/ RunCand \/ EpisodeRaises \/ Judge
    \/ FinallyBase \/ FinallyReturn \/ FinallyRaise
    \/ Store \/ StoreFails \/ Finish

Next == Run \/ Commit \/ Kill \/ Exited

Spec == Init /\ [][Next]_vars

(* The command goes on by itself: git ends, and an episode that does not   *)
(* is killed after timeout_seconds.                                        *)
FairSpec == Spec /\ WF_vars(Run)

-----------------------------------------------------------------------------

Results ==
    [pass : BOOLEAN, base : Nat \cup {None}, cand : Nat \cup {None},
     patched : SUBSET Roles, exit : Outcomes \cup {"none"}]

TypeOK ==
    /\ pc \in {"probe", "check", "unprobe", "unproberaise", "addbase",
               "addcand", "apply", "runbase", "runcand", "judge",
               "removebase", "removecand", "store", "exit"}
    /\ head \in Nat
    /\ faults \subseteq Faulty
    /\ registered \subseteq Roles \X (1 .. NTasks)
    /\ tree \in [Roles -> Nat \cup {None}]
    /\ patched \subseteq Roles
    /\ outcome \in [Roles -> Outcomes \cup {"none"}]
    /\ task \in 1 .. NTasks + 1
    /\ results \in Seq(Results) /\ Len(results) <= NTasks
    /\ stored \in 0 .. Len(results)
    /\ how \in {"return", "error", "traceback"}
    /\ ended \in {"no", "ok", "error", "traceback", "killed"}

(* `finally` and the order of the steps: a command that ends with no       *)
(* worktree command failed and not killed leaves no worktree registered,   *)
(* whichever exception ended it and at whichever task (runner.py:189,      *)
(* 227-229, validate.py:119-135).                                          *)
NoLeakWithoutFault ==
    ended # "no" /\ faults \subseteq {"apply", "store"} => registered = {}

(* "Worktrees are removed after every run" (README.md:46): a command that  *)
(* was not killed and none of whose removals failed leaves none.           *)
WorktreesRemoved ==
    ended # "no" /\ faults \cap {"remove", "kill"} = {} => registered = {}

(* A result that passes was obtained in a tree of a commit the patch       *)
(* applies to, with the patch applied there and not in the baseline's      *)
(* tree, by a command that exited with zero (runner.py:190-208), although  *)
(* HEAD may have moved since the patch was validated.                      *)
HonestResult ==
    \A i \in DOMAIN results : results[i].pass =>
        /\ results[i].patched = {"cand"}
        /\ results[i].cand \in Applies
        /\ results[i].exit = "zero"

(* Nothing is stored while a task is still to run or when one raised, and  *)
(* ok means a row for every task (cli.py:461-470).  Part of the results is *)
(* stored only by a command that a failing statement or a kill ended while *)
(* it was storing: the rows are single transactions, and what is there by  *)
(* then stays, with nothing to mark it as a part.                          *)
WholeUnlessStoringFails ==
    /\ stored > 0 => Len(results) = NTasks
    /\ ended = "ok" => stored = NTasks
    /\ ended # "no" /\ faults \cap {"store", "kill"} = {} => stored \in {0, NTasks}
    /\ ended = "error" => stored = 0

(* With a timeout on every episode, the command ends (runner.py:149).      *)
Terminates == <>(ended # "no")

(* Why nothing leaks: which worktrees can be registered at each step.  The *)
(* strengthening of NoLeakWithoutFault that is inductive.                  *)
Open(step) ==
    CASE step \in {"check", "unprobe", "unproberaise"} -> {"probe"}
      [] step = "addcand" -> {"base"}
      [] step \in {"apply", "runbase", "runcand", "judge", "removebase"} ->
             {"base", "cand"}
      [] step = "removecand" -> {"cand"}
      [] OTHER -> {}

RegisteredInv ==
    faults \subseteq {"apply", "store"} =>
        registered = Open(pc) \X {task}

(* How many tasks are behind each step: the strengthening of               *)
(* WholeUnlessStoringFails.                                                *)
CountInv ==
    /\ pc = "exit" <=> ended # "no"
    /\ pc \notin {"removebase", "removecand", "exit"} => how = "return"
    /\ pc \notin {"store", "exit"} => task <= NTasks /\ stored = 0
    /\ pc \in {"store"} => Len(results) = NTasks
    /\ pc \in {"removebase", "removecand"} =>
           Len(results) = IF how = "return" THEN task ELSE task - 1
    /\ pc \notin {"removebase", "removecand", "store", "exit"} =>
           Len(results) = task - 1
=============================================================================
