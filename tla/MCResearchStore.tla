-------------------------- MODULE MCResearchStore --------------------------
(* Two roots whose dumps move from one to the other, and two candidates    *)
(* whose ids may meet.                                                     *)
EXTENDS ResearchStore, TLC

CONSTANTS a, b, p, q

TwoRoots == {a, b}
TwoBodies == {p, q}
CandidateTable == {"candidates"}

Symmetry == Permutations(TwoRoots) \cup Permutations(TwoBodies)
=============================================================================
