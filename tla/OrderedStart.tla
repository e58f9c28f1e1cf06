----------------------------- MODULE OrderedStart -----------------------------
(***************************************************************************)
(* What setting up a cluster promises to its caller: nodes come up one by  *)
(* one, none of the second set before all of the first are up, and the set *)
(* up is successful exactly when it ends with all of them up.              *)
(***************************************************************************)
CONSTANTS
  First,   \* nodes that have to be up before the others (bootnodes)
  Second   \* the others

VARIABLES
  up,      \* nodes that are up
  outcome  \* "open", "ok" or "failed"

vars == <<up, outcome>>

Init == up = {} /\ outcome = "open"

ComeUp(n) ==
  /\ outcome = "open"
  /\ n \in (First \cup Second) \ up
  /\ n \in Second => First \subseteq up
  /\ up' = up \cup {n}
  /\ UNCHANGED outcome

Succeed ==
  /\ outcome = "open"
  /\ up = First \cup Second
  /\ outcome' = "ok"
  /\ UNCHANGED up

Fail ==
  /\ outcome = "open"
  /\ outcome' = "failed"
  /\ UNCHANGED up

Next == (\E n \in First \cup Second : ComeUp(n)) \/ Succeed \/ Fail

Spec == Init /\ [][Next]_vars
=============================================================================
