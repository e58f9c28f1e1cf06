---------------------------- MODULE MCCheckRunner ----------------------------
(* Three checks, two of which may hang and have a timeout.                   *)
EXTENDS CheckRunner

MCTimed == {1, 3}
=============================================================================
