------------------------- MODULE MCPluginLifecycle -------------------------
(* Instances of PluginLifecycle for TLC.                                   *)
EXTENDS PluginLifecycle, TLC

Symmetry == Permutations(Threads)

=============================================================================
