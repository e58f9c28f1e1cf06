------------------------------- MODULE MCNuker -------------------------------
(* A namespace of four StatefulSets, of which a command selects either two    *)
(* with a pod each or one with two pods; both times beside one that is scaled *)
(* to zero.                                                                   *)
EXTENDS Nuker

MCReplicas == [s \in Sets |-> CASE s \in {"bee", "boot"} -> 1 [] s = "bees" -> 2 [] OTHER -> 0]
=============================================================================
