------------------------- MODULE MCDatasetManifests -------------------------
(* Instances of RootFiles for TLC.                                         *)
EXTENDS RootFiles, TLC

Symmetry ==
    Permutations(Lockers) \cup Permutations(Bodies) \cup Permutations(Writers)
=============================================================================
