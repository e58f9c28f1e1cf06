--------------------------- MODULE MCClusterSetup ---------------------------
(* A cluster with two bootnode groups (one of them with two bootnodes) and  *)
(* two groups of other nodes, one of which has bootnodes in its profile.    *)
(* One of the bootnodes answers with an empty address.                      *)
EXTENDS ClusterSetup

MCBootGroups == {"boot", "boot2"}
MCOtherGroups == {"bee", "light"}
MCGroup == [n \in {"b0", "b1", "c0", "n0", "l0"} |->
              CASE n \in {"b0", "b1"} -> "boot"
                [] n = "c0" -> "boot2"
                [] n = "n0" -> "bee"
                [] OTHER -> "light"]
MCNodes == DOMAIN MCGroup
MCOwn == [n \in MCNodes |-> CASE n = "b0" -> "addr-b1"
                              [] n = "b1" -> "addr-b0"
                              [] n = "c0" -> "addr-c0"
                              [] OTHER -> "none"]
MCAddressless == {"c0"}
MCPreset == [g \in MCBootGroups \cup MCOtherGroups |-> IF g = "light" THEN "mainnet" ELSE ""]
=============================================================================
