-------------------------- MODULE MCEpisodeRunner --------------------------
(* Two tasks while HEAD moves to where the patch fails, and back.          *)
EXTENDS EpisodeRunner

EarlyAndLate == {0, 2}
Everything   == {"add", "remove", "apply", "store", "kill"}
Nothing      == {}
Always       == {0, 1}
AddOnly      == {"add"}
=============================================================================
