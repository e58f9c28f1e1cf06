------------------------- MODULE MCNodeOrchestrator -------------------------
(* Three configurations that differ in every option, three commands.        *)
EXTENDS NodeOrchestrator

MCOptions == {
  [traefik |-> TRUE,  wss |-> TRUE,  rolling |-> TRUE,  storage |-> TRUE],
  [traefik |-> FALSE, wss |-> FALSE, rolling |-> FALSE, storage |-> TRUE],
  [traefik |-> FALSE, wss |-> TRUE,  rolling |-> FALSE, storage |-> FALSE] }
=============================================================================
