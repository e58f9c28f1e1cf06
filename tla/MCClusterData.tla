---------------------------- MODULE MCClusterData ----------------------------
(* Two node groups, with two nodes and with one.                             *)
EXTENDS ClusterData

MCGroup == [n \in {"a0", "a1", "b0"} |-> IF n = "b0" THEN "b" ELSE "a"]
=============================================================================
