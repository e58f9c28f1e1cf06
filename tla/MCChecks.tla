------------------------------ MODULE MCChecks ------------------------------
(***************************************************************************)
(* Three full nodes and a light one.  Content is placed at one node, or at *)
(* two, the light one being closest to half of it; links are complete,     *)
(* miss the one between nodes 2 and 3, or lead to a foreign node.          *)
(***************************************************************************)
EXTENDS Checks

McFull == {1, 2, 3}
McLight == {4}
McItems == 1..4
McPlacements ==
    {[near |-> [x \in McItems |-> 1], home |-> [x \in McItems |-> 1]],
     [near |-> [x \in McItems |-> IF x % 2 = 0 THEN 4 ELSE 2],
      home |-> [x \in McItems |-> IF x % 2 = 0 THEN 3 ELSE 2]]}
McMesh == {{n, m} : n, m \in 1..4} \ {{n} : n \in 1..4}
McLinkSets == {McMesh, McMesh \ {{2, 3}}, McMesh \cup {{1, 0}}}
McBoot == {1}

============================================================================
