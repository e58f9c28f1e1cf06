----------------------------- MODULE MCOperator -----------------------------
(***************************************************************************)
(* Two pods of one application, each with a service of its own, a service  *)
(* without an api port that selects both and one without a selector.       *)
(***************************************************************************)
EXTENDS Operator

McPods == {"p", "q"}
McLabels == [p \in McPods |-> {"bee", p}]
McServices == <<[selector |-> {"bee"}, selects |-> TRUE, api |-> FALSE],
                [selector |-> {}, selects |-> FALSE, api |-> TRUE],
                [selector |-> {"bee", "q"}, selects |-> TRUE, api |-> TRUE],
                [selector |-> {"bee", "p"}, selects |-> TRUE, api |-> TRUE]>>
=============================================================================
