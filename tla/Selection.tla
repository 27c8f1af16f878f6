----------------------------- MODULE Selection -----------------------------
(***************************************************************************)
(* nondominated_sort (optimization/pareto.py), the selection of the outer  *)
(* loop: `pareto` reads a list of evaluation results and keeps those that  *)
(* no other one dominates.  The results are compared pair by pair in two   *)
(* nested loops, the inner one left at the first result that dominates; a  *)
(* step is one turn of the inner loop or the end of it.                    *)
(*                                                                         *)
(* A result has a value for some metrics and none for others: those of     *)
(* `experiment run --backend episode` have none at all.                    *)
(***************************************************************************)
EXTENDS Integers, Sequences, Functions

CONSTANTS
    Maximize,  \* the metrics that are better when larger
    Minimize,  \* the metrics that are better when smaller
    Values,    \* the values metrics have
    Absent,    \* a metric the result has no value for
    MaxRows    \* bound: how many results there are

Metrics == Maximize \cup Minimize

ASSUME ValueAssumption == Values \subseteq Int /\ Absent \notin Int
ASSUME RowAssumption == MaxRows \in Nat

Rows == [Metrics -> Values \cup {Absent}]

VARIABLES
    rows,       \* the list of results
    i, j,       \* the loop variables
    dominated,  \* whether a result that dominates rows[i] was found
    frontier    \* the indices of the results kept, in order

vars == <<rows, i, j, dominated, frontier>>

-----------------------------------------------------------------------------
(* float(a.get(k, 0.0))                                                    *)
Value(row, k) ==
    IF row[k] = Absent THEN 0 ELSE row[k]

AtLeast(a, b) ==
    /\ \A k \in Maximize : Value(a, k) >= Value(b, k)
    /\ \A k \in Minimize : Value(a, k) <= Value(b, k)

Better(a, b) ==
    \/ \E k \in Maximize : Value(a, k) > Value(b, k)
    \/ \E k \in Minimize : Value(a, k) < Value(b, k)

Dominates(a, b) == AtLeast(a, b) /\ Better(a, b)

-----------------------------------------------------------------------------
Init ==
    /\ rows \in UNION {[1 .. n -> Rows] : n \in 0 .. MaxRows}
    /\ i = 1 /\ j = 1
    /\ dominated = FALSE
    /\ frontier = <<>>

Inner == i <= Len(rows) /\ j <= Len(rows) /\ ~dominated

(* Mutation: the result after the one compared with itself is skipped too. *)
SkipSelfAndNext ==
    /\ Inner /\ i = j
    /\ j' = j + 2
    /\ UNCHANGED <<rows, i, dominated, frontier>>

SkipSelf ==
    /\ Inner /\ i = j
    /\ j' = j + 1
    /\ UNCHANGED <<rows, i, dominated, frontier>>

Compare ==
    /\ Inner /\ i # j
    /\ dominated' = Dominates(rows[j], rows[i])
    /\ j' = j + 1
    /\ UNCHANGED <<rows, i, frontier>>

(* Mutation: the inner loop does not start over, and what it compares is   *)
(* carried over to the next result.                                        *)
EndInnerKeepingFlag ==
    /\ i <= Len(rows) /\ (j > Len(rows) \/ dominated)
    /\ frontier' = IF dominated THEN frontier ELSE Append(frontier, i)
    /\ i' = i + 1
    /\ j' = 1
    /\ UNCHANGED <<rows, dominated>>

EndInner ==
    /\ i <= Len(rows) /\ (j > Len(rows) \/ dominated)
    /\ frontier' = IF dominated THEN frontier ELSE Append(frontier, i)
    /\ i' = i + 1
    /\ j' = 1 /\ dominated' = FALSE
    /\ UNCHANGED rows

Done == i > Len(rows)
Finished == Done /\ UNCHANGED vars

Next == SkipSelf \/ Compare \/ EndInner \/ Finished

Spec == Init /\ [][Next]_vars

-----------------------------------------------------------------------------
Kept == Range(frontier)

TypeOK ==
    /\ rows \in Seq(Rows)
    /\ i \in 1 .. Len(rows) + 1 /\ j \in 1 .. Len(rows) + 1
    /\ dominated \in BOOLEAN
    /\ frontier \in Seq(1 .. Len(rows))

(* No result of the frontier is better than another one (pareto.py:47-55). *)
FrontierMutual ==
    Done => \A m, n \in Kept : ~Dominates(rows[m], rows[n])

(* What is not on the frontier is dominated by what is: nothing is dropped *)
(* because of a result that is dropped itself, equal results included.     *)
FrontierCovers ==
    Done => \A m \in DOMAIN rows \ Kept :
                \E n \in Kept : Dominates(rows[n], rows[m])

(* What the loops have found out so far, the inductive strengthening of    *)
(* FrontierMutual: before i the results kept are those nothing dominates,  *)
(* and of rows[i] it is known whether one of the first j - 1 does.         *)
DominatedBy(m, S) == \E n \in S : n # m /\ Dominates(rows[n], rows[m])

SortInv ==
    /\ Kept = {m \in 1 .. i - 1 : ~DominatedBy(m, DOMAIN rows)}
    /\ dominated => i <= Len(rows) /\ DominatedBy(i, DOMAIN rows)
    /\ ~dominated => ~DominatedBy(i, 1 .. j - 1)
=============================================================================
