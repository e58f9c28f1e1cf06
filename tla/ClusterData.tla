----------------------------- MODULE ClusterData -----------------------------
(***************************************************************************)
(* The cluster as a source of data for the checks: Cluster.Overlays,       *)
(* Balances, GlobalReplicationFactor and the like ask one node group after *)
(* the other (pkg/orchestration/k8s/cluster.go); a node group opens a      *)
(* stream with one goroutine per running node and collects the answers     *)
(* until the stream is closed (pkg/orchestration/k8s/nodegroup.go).        *)
(* Accounting, balances and settlements open their own stream first and    *)
(* ask for the overlays while its goroutines are already at work.          *)
(*                                                                         *)
(* Nodes may be stopped and started by others at any time.                 *)
(***************************************************************************)
EXTENDS Naturals, FiniteSets

CONSTANTS
  Groups,    \* node groups of the cluster
  Nodes,     \* nodes of all node groups
  Group,     \* the node group of a node
  Holders,   \* nodes that hold the chunk of GlobalReplicationFactor
  Zero,      \* the zero overlay address
  MaxStops   \* bound on how often nodes are stopped or started

ASSUME ClusterAssumption ==
  /\ Group \in [Nodes -> Groups]
  /\ IsFiniteSet(Nodes)
  /\ Holders \subseteq Nodes
  /\ Zero \notin Nodes
  /\ MaxStops \in Nat

Keyed     == {"accounting", "balances", "settlements"}
Flattened == Keyed \cup {"overlays", "topologies"}
Kinds     == Flattened \cup {"addresses", "peers", "replication"}
Streams   == {"data", "overlay"}

VARIABLES
  kind,     \* what is asked for
  pc,       \* where the caller is
  todo,     \* node groups not asked yet
  cur,      \* the node group at hand
  go,       \* the goroutine of each node, for each stream
  ans,      \* its answer: "ok" or "err"
  stream,   \* each stream: "none", "open" or "closed"
  overlays, \* nodes whose overlay is known
  result,   \* of each node group: the node whose data stands under a key
  grf,      \* replication factor so far
  stopped,  \* nodes that are stopped
  stops,    \* how often that has changed
  touched   \* history: nodes that were stopped at some time of the query

callVars == <<kind, todo, cur, overlays, result, grf>>
streamVars == <<go, ans, stream>>
world == <<stopped, stops, touched>>
vars == <<callVars, pc, streamVars, world>>

NoMap == [k \in {} |-> Zero]
Members(g) == {n \in Nodes : Group[n] = g}

Init ==
  /\ kind = "none" /\ pc = "idle" /\ todo = {} /\ cur \in Groups
  /\ go = [s \in Streams |-> [n \in Nodes |-> "none"]]
  /\ ans = [s \in Streams |-> [n \in Nodes |-> "none"]]
  /\ stream = [s \in Streams |-> "none"]
  /\ overlays = {} /\ result = [g \in Groups |-> NoMap] /\ grf = 0
  /\ stopped \in SUBSET Nodes /\ stops = 0 /\ touched = stopped

-----------------------------------------------------------------------------
(* The operations of the cluster.                                           *)
Ask(k) ==
  /\ pc = "idle"
  /\ kind' = k /\ pc' = "group" /\ todo' = Groups
  /\ touched' = stopped
  /\ UNCHANGED <<cur, overlays, result, grf, streamVars, stopped, stops>>

Addresses == Ask("addresses")
Accounting == Ask("accounting")
Balances == Ask("balances")
GlobalReplicationFactor == Ask("replication")
Overlays == Ask("overlays")
Peers == Ask("peers")
Settlements == Ask("settlements")
Topologies == Ask("topologies")

\* Mutant: a node group is asked again.
NextGroup_Again(g) ==
  /\ pc = "group" /\ g \in todo
  /\ cur' = g /\ pc' = "openData"
  /\ UNCHANGED <<kind, todo, overlays, result, grf, streamVars, world>>

\* The loop over the node groups (Go map order: any group).
NextGroup(g) ==
  /\ pc = "group" /\ g \in todo
  /\ cur' = g /\ todo' = todo \ {g} /\ pc' = "openData"
  /\ UNCHANGED <<kind, overlays, result, grf, streamVars, world>>

Fail ==
  /\ pc' = "failed"
  /\ UNCHANGED callVars

(* A stream function: the stopped nodes are read once, every other node of  *)
(* the group gets a goroutine, and one more closes the stream after them.   *)
OpenStream(s) ==
  /\ pc = IF s = "data" THEN "openData" ELSE "openOverlay"
  /\ go' = [go EXCEPT ![s] = [n \in Nodes |->
              IF n \in Members(cur) \ stopped THEN "call" ELSE "none"]]
  /\ ans' = [ans EXCEPT ![s] = [n \in Nodes |-> "none"]]
  /\ stream' = [stream EXCEPT ![s] = "open"]
  /\ pc' = IF s = "overlay" THEN "collectOverlay"
           ELSE IF kind \in Keyed THEN "openOverlay" ELSE "collectData"
  /\ UNCHANGED <<callVars, world>>

\* The stopped nodes cannot be read.
OpenFails ==
  /\ pc \in {"openData", "openOverlay"}
  /\ Fail
  /\ UNCHANGED <<streamVars, world>>

Collecting(s) == pc = IF s = "data" THEN "collectData" ELSE "collectOverlay"

\* Mutant: the caller returns with the first error it receives.
Receive_FirstError(s, n) ==
  /\ Collecting(s) /\ go[s][n] = "send"
  /\ go' = [go EXCEPT ![s][n] = "done"]
  /\ pc' = IF ans[s][n] = "err" THEN "failed" ELSE pc
  /\ UNCHANGED <<callVars, ans, stream, world>>

\* for m := range stream: an answer is received and kept.
Receive(s, n) ==
  /\ Collecting(s) /\ go[s][n] = "send"
  /\ go' = [go EXCEPT ![s][n] = "done"]
  /\ UNCHANGED <<callVars, pc, ans, stream, world>>

Answered(s) == {n \in Nodes : ans[s][n] = "ok"}

\* Mutant: an error of a node is passed over.
HasError_Ignored(s) == FALSE

HasError(s) == \E n \in Nodes : ans[s][n] = "err"

\* The key of a node's data: its name, or its overlay (the zero address if the
\* overlays, asked for later, do not have it).
KeyOf(n) == IF kind \in Keyed /\ n \notin overlays THEN Zero ELSE n

\* The stream of overlays is closed and collected.
EndOverlays ==
  /\ pc = "collectOverlay" /\ stream["overlay"] = "closed"
  /\ IF HasError("overlay")
       THEN Fail
       ELSE /\ overlays' = Answered("overlay")
            /\ pc' = "collectData"
            /\ UNCHANGED <<kind, todo, cur, result, grf>>
  /\ UNCHANGED <<streamVars, world>>

Found(n) == n \in Holders

(* The stream is closed and collected: the answers become the map of the    *)
(* node group.  Of several answers under one key the last one stays.        *)
EndData ==
  /\ pc = "collectData" /\ stream["data"] = "closed"
  /\ IF HasError("data")
       THEN Fail
       ELSE LET ok == Answered("data")
                keys == {KeyOf(n) : n \in ok}
            IN /\ \E m \in [keys -> ok] :
                    /\ \A k \in keys : KeyOf(m[k]) = k
                    /\ result' = [result EXCEPT ![cur] = m]
               /\ grf' = IF kind = "replication"
                           THEN grf + Cardinality({n \in ok : Found(n)}) ELSE grf
               /\ pc' = "group"
               /\ UNCHANGED <<kind, todo, cur, overlays>>
  /\ UNCHANGED <<streamVars, world>>

\* The Flatten functions refuse a key that two node groups have.
Clash == \E g, h \in Groups : g # h /\ DOMAIN result[g] \cap DOMAIN result[h] # {}

Finish ==
  /\ pc = "group" /\ todo = {}
  /\ pc' = IF kind \in Flattened /\ Clash THEN "failed" ELSE "ok"
  /\ UNCHANGED <<callVars, streamVars, world>>

Caller ==
  \/ Addresses \/ Accounting \/ Balances \/ GlobalReplicationFactor
  \/ Overlays \/ Peers \/ Settlements \/ Topologies
  \/ \E g \in Groups : NextGroup(g)
  \/ \E s \in Streams : OpenStream(s) \/ \E n \in Nodes : Receive(s, n)
  \/ EndOverlays \/ EndData \/ Finish

-----------------------------------------------------------------------------
(* The goroutines of a stream.                                              *)

\* The node answers; a stopped node does not.
Call(s, n) ==
  /\ go[s][n] = "call"
  /\ \E r \in {"ok", "err"} :
       /\ r = "ok" => n \notin stopped
       /\ ans' = [ans EXCEPT ![s][n] = r]
  /\ go' = [go EXCEPT ![s][n] = "send"]
  /\ UNCHANGED <<callVars, pc, stream, world>>

\* Mutant: the stream is closed without waiting for the goroutines.
WaitGroupDone_Early(s) == \A n \in Nodes : go[s][n] # "call"

WaitGroupDone(s) == \A n \in Nodes : go[s][n] \in {"none", "done"}

Close(s) ==
  /\ stream[s] = "open" /\ WaitGroupDone(s)
  /\ stream' = [stream EXCEPT ![s] = "closed"]
  /\ UNCHANGED <<callVars, pc, go, ans, world>>

\* Others stop and start nodes.
StopOrStart(n) ==
  /\ pc \notin {"idle", "ok", "failed"} /\ stops < MaxStops
  /\ stops' = stops + 1
  /\ stopped' = IF n \in stopped THEN stopped \ {n} ELSE stopped \cup {n}
  /\ touched' = touched \cup {n}
  /\ UNCHANGED <<callVars, pc, streamVars>>

Ended == pc \in {"ok", "failed"}

Next ==
  \/ Caller \/ OpenFails
  \/ \E s \in Streams : Close(s) \/ \E n \in Nodes : Call(s, n)
  \/ \E n \in Nodes : StopOrStart(n)
  \/ Ended /\ UNCHANGED vars

\* Goroutines are scheduled, and requests return (with an error at the latest
\* when the context of the check ends).
Fairness ==
  /\ WF_vars(Caller)
  /\ \A s \in Streams : WF_vars(Close(s)) /\ \A n \in Nodes : WF_vars(Call(s, n))

Spec == Init /\ [][Next]_vars
FairSpec == Spec /\ Fairness

-----------------------------------------------------------------------------
\* Types of the variables.
TypeOK ==
  /\ kind \in Kinds \cup {"none"}
  /\ pc \in {"idle", "group", "openData", "openOverlay", "collectData", "collectOverlay",
             "ok", "failed"}
  /\ todo \subseteq Groups /\ cur \in Groups
  /\ go \in [Streams -> [Nodes -> {"none", "call", "send", "done"}]]
  /\ ans \in [Streams -> [Nodes -> {"none", "ok", "err"}]]
  /\ stream \in [Streams -> {"none", "open", "closed"}]
  /\ overlays \subseteq Nodes /\ grf \in 0..Cardinality(Nodes)
  /\ \A g \in Groups : DOMAIN result[g] \subseteq Members(g) \cup {Zero}
                       /\ \A k \in DOMAIN result[g] : result[g][k] \in Members(g)
  /\ stopped \subseteq Nodes /\ stops \in 0..MaxStops /\ touched \subseteq Nodes

\* No goroutine of a stream sends after the stream has been closed, which would
\* end the whole process.
NoSendOnClosed ==
  \A s \in Streams : stream[s] = "closed" =>
    \A n \in Nodes : go[s][n] \in {"none", "done"}

\* Whatever is stopped and started meanwhile, a result without an error has the
\* data of every node that ran all the time, under that node's own key; of the
\* holders of the chunk none of these is missed in the replication factor, and
\* none is counted twice or for another.
RunningKept ==
  pc = "ok" =>
    /\ \A n \in Nodes \ touched :
         n \in DOMAIN result[Group[n]] /\ result[Group[n]][n] = n
    /\ kind = "replication" =>
         Cardinality(Holders \ touched) <= grf /\ grf <= Cardinality(Holders)

\* Every query ends: no stream stays open with nobody left to send, and no
\* goroutine waits for a receiver behind a result, or behind an error of a
\* query with one stream.
QueryEnds ==
  (pc = "group") ~>
    /\ Ended
    /\ pc = "ok" \/ kind \notin Keyed =>
         \A s \in Streams, n \in Nodes : go[s][n] \in {"none", "done"}

=============================================================================
