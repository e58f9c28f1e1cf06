------------------------------- MODULE MCJobs -------------------------------
(***************************************************************************)
(* Two uploads beside each other over two iterations; three chunks two at  *)
(* a time; two groups of nodes, every node with peers; two StatefulSets,   *)
(* updated either way, and a pod without.                                  *)
(***************************************************************************)
EXTENDS Jobs

McUploaders == {1, 2}
McDownloaders == {1}
McGroups == <<{1, 2}, {3}>>
McPeersOf == <<{2, 3}, {1}, {1}>>
McOwner == [a0 |-> "a", b0 |-> "b", c |-> "none"]
McListed == <<"a0", "b0", "c">>
McStrategies == [{"a", "b"} -> {"OnDelete", "RollingUpdate"}]
McGaps == {0, 3}
McOffsets == {0, 5}

============================================================================
