-------------------------- MODULE ClusterDataProofs --------------------------
(***************************************************************************)
(* Safety of ClusterData for every cluster: any node groups, any nodes,    *)
(* stopped and started as often as anybody likes.                          *)
(*                                                                         *)
(* The argument follows a node that runs all the time.  A stream that is   *)
(* open has a goroutine for it, so once the stream is closed, which is     *)
(* after the last send, its answer is there; its overlay is there as well, *)
(* for it was running when the second stream was opened; hence its data    *)
(* stands under its own key.  The replication factor counts such nodes     *)
(* group by group, no group twice.                                         *)
(***************************************************************************)
EXTENDS ClusterData, FiniteSetTheorems, TLAPS

PcValues == {"idle", "group", "openData", "openOverlay", "collectData", "collectOverlay",
             "ok", "failed"}
InGroup == {"openData", "openOverlay", "collectData", "collectOverlay"}

\* The variables have their types; that grf is bounded follows from Counted.
Types ==
  /\ kind \in Kinds \cup {"none"}
  /\ pc \in PcValues
  /\ todo \subseteq Groups /\ cur \in Groups
  /\ go \in [Streams -> [Nodes -> {"none", "call", "send", "done"}]]
  /\ ans \in [Streams -> [Nodes -> {"none", "ok", "err"}]]
  /\ stream \in [Streams -> {"none", "open", "closed"}]
  /\ overlays \subseteq Nodes /\ grf \in Nat
  /\ result = [g \in Groups |-> result[g]]
  /\ stopped \subseteq Nodes /\ stops \in 0..MaxStops /\ touched \subseteq Nodes

\* Where the caller can be.
Control ==
  /\ pc = "idle" => kind = "none"
  /\ pc \in {"openOverlay", "collectOverlay"} => kind \in Keyed
  /\ pc \in InGroup => cur \notin todo
  /\ pc = "ok" => todo = {}
  /\ stopped \subseteq touched

\* The stream s is one of the node group at hand.
Current(s) ==
  IF s = "data" THEN pc \in {"openOverlay", "collectOverlay", "collectData"}
  ELSE pc = "collectOverlay"

\* The goroutines of a current stream are those of the group's nodes, with all
\* that have never been stopped among them.
Goroutines ==
  \A s \in Streams, n \in Nodes :
    /\ go[s][n] \in {"none", "call"} <=> ans[s][n] = "none"
    /\ Current(s) /\ go[s][n] # "none" => Group[n] = cur
    /\ Current(s) /\ Group[n] = cur /\ n \notin touched => go[s][n] # "none"

\* The overlays that key the data are those of the group at hand.
Keys ==
  pc = "collectData" /\ kind \in Keyed => Members(cur) \ touched \subseteq overlays

\* The maps of the node groups.
Results ==
  \A g \in Groups : DOMAIN result[g] \subseteq Members(g) \cup {Zero}
                    /\ \A k \in DOMAIN result[g] : result[g][k] \in Members(g)

\* The nodes of the groups that have been asked.
Asked ==
  {n \in Nodes : Group[n] \notin todo /\ (pc \in InGroup => Group[n] # cur)}

Kept ==
  pc \notin {"idle", "failed"} =>
    \A n \in Asked \ touched : n \in DOMAIN result[Group[n]] /\ result[Group[n]][n] = n

Counted ==
  /\ kind # "replication" => grf = 0
  /\ grf <= Cardinality(Holders)
  /\ pc \notin {"idle", "failed"} /\ kind = "replication" =>
       /\ Cardinality((Holders \cap Asked) \ touched) <= grf
       /\ grf <= Cardinality(Holders \cap Asked)

\* The inductive invariant.
Inv ==
  /\ Types /\ Control /\ Goroutines /\ NoSendOnClosed
  /\ Keys /\ Results /\ Kept /\ Counted

-----------------------------------------------------------------------------
\* Sets of holders are finite.
LEMMA FiniteHolders ==
  ASSUME NEW S \in SUBSET Holders
  PROVE  /\ IsFiniteSet(S) /\ Cardinality(S) \in Nat
         /\ Cardinality(Holders) \in Nat /\ Cardinality(S) <= Cardinality(Holders)
<1>1. IsFiniteSet(Holders)
  BY ClusterAssumption, FS_Subset
<1>2. QED
  BY <1>1, FS_Subset, FS_CardinalityType

\* The query begins in a state that satisfies the invariant.
LEMMA InitInv == Init => Inv
<1> SUFFICES ASSUME Init PROVE Inv
  OBVIOUS
<1>1. Types
  BY ClusterAssumption DEF Init, Types, PcValues, Streams
<1>2. Control /\ Goroutines /\ NoSendOnClosed /\ Keys /\ Kept
  BY DEF Init, Control, Goroutines, NoSendOnClosed, Keys, Kept, InGroup, Current, Streams
<1>3. Results
  BY DEF Init, Results, NoMap
<1>4. Counted
  BY FiniteHolders DEF Init, Counted
<1>5. QED
  BY <1>1, <1>2, <1>3, <1>4 DEF Inv

\* A query begins with no group asked.
LEMMA AskInv == ASSUME Inv, NEW k \in Kinds, Ask(k) PROVE Inv'
<1>1. /\ pc = "idle" /\ kind = "none" /\ kind' = k /\ pc' = "group" /\ todo' = Groups
      /\ touched' = stopped
      /\ UNCHANGED <<cur, overlays, result, grf, go, ans, stream, stopped, stops>>
  BY DEF Ask, streamVars, Inv, Control
<1>2. Types'
  BY <1>1 DEF Inv, Types, PcValues
<1>3. Control' /\ NoSendOnClosed' /\ Keys' /\ Results'
  BY <1>1 DEF Inv, Control, NoSendOnClosed, Keys, Results, InGroup
<1>4. Goroutines'
  BY <1>1 DEF Inv, Goroutines, Current, Streams
<1>5. Asked' = {}
  BY <1>1, ClusterAssumption DEF Asked
<1>6. Kept'
  BY <1>5 DEF Kept
<1>7. Counted'
  <2>1. grf = 0
    BY <1>1 DEF Inv, Counted
  <2>2. (Holders \cap Asked)' = {} /\ ((Holders \cap Asked) \ touched)' = {}
    BY <1>5
  <2>3. QED
    BY <1>1, <2>1, <2>2, FS_EmptySet, FiniteHolders DEF Counted
<1>8. QED
  BY <1>2, <1>3, <1>4, <1>6, <1>7 DEF Inv

\* The group at hand is taken out of those to ask; none is lost.
LEMMA NextGroupInv == ASSUME Inv, NEW g \in Groups, NextGroup(g) PROVE Inv'
<1>1. /\ pc = "group" /\ g \in todo /\ cur' = g /\ todo' = todo \ {g} /\ pc' = "openData"
      /\ UNCHANGED <<kind, overlays, result, grf, go, ans, stream, stopped, stops, touched>>
  BY DEF NextGroup, streamVars, world
<1>2. Types'
  BY <1>1 DEF Inv, Types, PcValues
<1>3. Control' /\ NoSendOnClosed' /\ Keys' /\ Results'
  BY <1>1 DEF Inv, Control, NoSendOnClosed, Keys, Results, InGroup
<1>4. Goroutines'
  BY <1>1 DEF Inv, Goroutines, Current, Streams
<1>5. Asked' = Asked
  BY <1>1 DEF Asked, InGroup
<1>6. Kept' /\ Counted'
  BY <1>1, <1>5 DEF Inv, Kept, Counted
<1>7. QED
  BY <1>2, <1>3, <1>4, <1>6 DEF Inv

\* A stream is opened: nodes that have never been stopped get a goroutine.
LEMMA OpenStreamInv == ASSUME Inv, NEW s \in Streams, OpenStream(s) PROVE Inv'
<1>1. /\ pc = IF s = "data" THEN "openData" ELSE "openOverlay"
      /\ go' = [go EXCEPT ![s] = [n \in Nodes |->
              IF n \in Members(cur) \ stopped THEN "call" ELSE "none"]]
      /\ ans' = [ans EXCEPT ![s] = [n \in Nodes |-> "none"]]
      /\ stream' = [stream EXCEPT ![s] = "open"]
      /\ pc' = IF s = "overlay" THEN "collectOverlay"
               ELSE IF kind \in Keyed THEN "openOverlay" ELSE "collectData"
      /\ UNCHANGED <<kind, todo, cur, overlays, result, grf, stopped, stops, touched>>
  BY DEF OpenStream, callVars, world
<1>2. Types'
  BY <1>1 DEF Inv, Types, PcValues
<1>3. Control' /\ Keys' /\ Results'
  BY <1>1 DEF Inv, Control, Keys, Results, InGroup, Streams
<1>4. NoSendOnClosed'
  BY <1>1 DEF Inv, NoSendOnClosed, Types
<1>5. Goroutines'
  <2> SUFFICES ASSUME NEW t \in Streams, NEW n \in Nodes
               PROVE  /\ go'[t][n] \in {"none", "call"} <=> ans'[t][n] = "none"
                      /\ Current(t)' /\ go'[t][n] # "none" => Group[n] = cur'
                      /\ Current(t)' /\ Group[n] = cur' /\ n \notin touched' => go'[t][n] # "none"
    BY DEF Goroutines
  <2>1. CASE t = s
    BY <1>1, <2>1 DEF Inv, Types, Control, Members
  <2>2. CASE t # s
    <3>1. go'[t] = go[t] /\ ans'[t] = ans[t]
      BY <1>1, <2>2 DEF Inv, Types
    <3>2. Current(t)' => Current(t)
      BY <1>1, <2>2 DEF Current, Streams
    <3>3. QED
      BY <1>1, <3>1, <3>2 DEF Inv, Goroutines
  <2>3. QED
    BY <2>1, <2>2
<1>6. Asked' = Asked
  BY <1>1 DEF Asked, InGroup
<1>7. Kept' /\ Counted'
  BY <1>1, <1>6 DEF Inv, Kept, Counted
<1>8. QED
  BY <1>2, <1>3, <1>4, <1>5, <1>7 DEF Inv

\* A goroutine goes on from its call to the send and to its end.
LEMMA GoroutineInv ==
  ASSUME Inv, NEW s \in Streams, NEW n \in Nodes, Receive(s, n) \/ Call(s, n)
  PROVE  Inv'
<1>1. /\ UNCHANGED <<kind, todo, cur, overlays, result, grf, pc, stream, stopped, stops, touched>>
      /\ go[s][n] \in {"call", "send"}
  BY DEF Receive, Call, callVars, world
<1>2. \/ /\ go[s][n] = "send" /\ go' = [go EXCEPT ![s][n] = "done"] /\ ans' = ans
      \/ /\ go[s][n] = "call" /\ go' = [go EXCEPT ![s][n] = "send"]
         /\ \E r \in {"ok", "err"} : ans' = [ans EXCEPT ![s][n] = r]
  BY DEF Receive, Call
<1>3. Types'
  <2>1. /\ go \in [Streams -> [Nodes -> {"none", "call", "send", "done"}]]
        /\ ans \in [Streams -> [Nodes -> {"none", "ok", "err"}]]
    BY DEF Inv, Types
  <2>2. PICK c \in {"send", "done"} : go' = [go EXCEPT ![s][n] = c]
    BY <1>2
  <2>3. go' \in [Streams -> [Nodes -> {"none", "call", "send", "done"}]]
    BY <2>1, <2>2
  <2>4. ans' \in [Streams -> [Nodes -> {"none", "ok", "err"}]]
    <3>1. CASE ans' = ans
      BY <2>1, <3>1
    <3>2. CASE \E r \in {"ok", "err"} : ans' = [ans EXCEPT ![s][n] = r]
      BY <2>1, <3>2
    <3>3. QED
      BY <1>2, <3>1, <3>2
  <2>5. QED
    BY <1>1, <2>3, <2>4 DEF Inv, Types
<1>4. \A t \in Streams, m \in Nodes :
        \/ go'[t][m] = go[t][m] /\ ans'[t][m] = ans[t][m]
        \/ t = s /\ m = n
  BY <1>2 DEF Inv, Types
<1>5. go'[s][n] \in {"send", "done"} /\ ans'[s][n] \in {"ok", "err"}
  BY <1>2 DEF Inv, Types, Goroutines
<1>6. Goroutines'
  <2>1. \A t \in Streams : Current(t)' = Current(t)
    BY <1>1 DEF Current
  <2>2. QED
    BY <1>1, <1>4, <1>5, <2>1 DEF Inv, Goroutines
<1>7. NoSendOnClosed'
  BY <1>1, <1>4 DEF Inv, NoSendOnClosed
<1>8. Control' /\ Keys' /\ Results'
  BY <1>1 DEF Inv, Control, Keys, Results
<1>9. Asked' = Asked
  BY <1>1 DEF Asked
<1>10. Kept' /\ Counted'
  BY <1>1, <1>9 DEF Inv, Kept, Counted
<1>11. QED
  BY <1>3, <1>6, <1>7, <1>8, <1>10 DEF Inv

\* The stream is closed after its last send.
LEMMA CloseInv == ASSUME Inv, NEW s \in Streams, Close(s) PROVE Inv'
<1>1. /\ stream' = [stream EXCEPT ![s] = "closed"] /\ WaitGroupDone(s)
      /\ UNCHANGED <<kind, todo, cur, overlays, result, grf, pc, go, ans, stopped, stops, touched>>
  BY DEF Close, callVars, world
<1>2. Types' /\ NoSendOnClosed'
  BY <1>1 DEF Inv, Types, NoSendOnClosed, WaitGroupDone
<1>3. Control' /\ Keys' /\ Results' /\ Goroutines'
  BY <1>1 DEF Inv, Control, Keys, Results, Goroutines, Current
<1>4. Asked' = Asked
  BY <1>1 DEF Asked
<1>5. Kept' /\ Counted'
  BY <1>1, <1>4 DEF Inv, Kept, Counted
<1>6. QED
  BY <1>2, <1>3, <1>5 DEF Inv

\* A node that is stopped or started is no longer one that ran all the time.
LEMMA StopOrStartInv == ASSUME Inv, NEW n \in Nodes, StopOrStart(n) PROVE Inv'
<1>1. /\ stops < MaxStops /\ stops' = stops + 1
      /\ stopped' = IF n \in stopped THEN stopped \ {n} ELSE stopped \cup {n}
      /\ touched' = touched \cup {n}
      /\ UNCHANGED <<kind, todo, cur, overlays, result, grf, pc, go, ans, stream>>
  BY DEF StopOrStart, callVars, streamVars
<1>2. Types'
  BY <1>1, ClusterAssumption DEF Inv, Types
<1>3. Control' /\ Keys' /\ Results' /\ Goroutines' /\ NoSendOnClosed'
  BY <1>1 DEF Inv, Control, Keys, Results, Goroutines, Current, NoSendOnClosed
<1>4. Asked' = Asked
  BY <1>1 DEF Asked
<1>5. Kept'
  BY <1>1, <1>4 DEF Inv, Kept
<1>6. Counted'
  <2>1. /\ Cardinality((Holders \cap Asked) \ touched') <= Cardinality((Holders \cap Asked) \ touched)
        /\ Cardinality((Holders \cap Asked) \ touched') \in Nat
        /\ Cardinality((Holders \cap Asked) \ touched) \in Nat
    <3>1. (Holders \cap Asked) \ touched' \subseteq (Holders \cap Asked) \ touched
      BY <1>1
    <3>2. IsFiniteSet((Holders \cap Asked) \ touched)
      BY FiniteHolders
    <3>3. QED
      BY <3>1, <3>2, FS_Subset, FS_CardinalityType
  <2>2. QED
    BY <1>1, <1>4, <2>1 DEF Inv, Types, Counted
<1>7. QED
  BY <1>2, <1>3, <1>5, <1>6 DEF Inv

\* The query ends, or fails.
LEMMA EndInv ==
  ASSUME Inv, pc' \in {"ok", "failed"}, pc' = "ok" => pc = "group" /\ todo = {},
         UNCHANGED <<callVars, streamVars, world>>
  PROVE  Inv'
<1>1. UNCHANGED <<kind, todo, cur, overlays, result, grf, go, ans, stream, stopped, stops, touched>>
  BY DEF callVars, streamVars, world
<1>2. Types' /\ Control' /\ Keys' /\ Results' /\ NoSendOnClosed'
  BY <1>1 DEF Inv, Types, PcValues, Control, Keys, Results, NoSendOnClosed, InGroup
<1>3. Goroutines'
  BY <1>1 DEF Inv, Goroutines, Current
<1>4. pc' = "ok" => Asked' = Asked
  BY <1>1 DEF Asked, InGroup
<1>5. Kept' /\ Counted'
  BY <1>1, <1>4 DEF Inv, Kept, Counted
<1>6. QED
  BY <1>2, <1>3, <1>5 DEF Inv

\* What a closed stream without an error holds: the answers of nodes of the group,
\* with all that have never been stopped among them.
LEMMA Collected ==
  ASSUME Inv, NEW s \in Streams, Current(s), stream[s] = "closed", ~HasError(s)
  PROVE  /\ Answered(s) \subseteq Members(cur)
         /\ Members(cur) \ touched \subseteq Answered(s)
<1>1. \A n \in Nodes : go[s][n] \in {"none", "done"} /\ ans[s][n] # "err"
  BY DEF Inv, NoSendOnClosed, HasError
<1>2. \A n \in Nodes : ans[s][n] = "ok" <=> go[s][n] = "done"
  BY <1>1 DEF Inv, Types, Goroutines
<1>3. QED
  BY <1>1, <1>2 DEF Inv, Goroutines, Answered, Members

\* The overlays are those of the group's nodes.
LEMMA EndOverlaysInv == ASSUME Inv, EndOverlays PROVE Inv'
<1>1. CASE HasError("overlay")
  BY <1>1, EndInv DEF EndOverlays, Fail
<1>2. CASE ~HasError("overlay")
  <2>1. /\ pc = "collectOverlay" /\ stream["overlay"] = "closed"
        /\ overlays' = Answered("overlay") /\ pc' = "collectData"
        /\ UNCHANGED <<kind, todo, cur, result, grf, go, ans, stream, stopped, stops, touched>>
    BY <1>2 DEF EndOverlays, streamVars, world
  <2>2. Members(cur) \ touched \subseteq Answered("overlay")
    BY <1>2, <2>1, Collected DEF Streams, Current
  <2>3. Types' /\ Control' /\ Results' /\ NoSendOnClosed'
    BY <2>1 DEF Inv, Types, PcValues, Control, Results, NoSendOnClosed, InGroup, Answered
  <2>4. Keys'
    BY <2>1, <2>2 DEF Keys, Members
  <2>5. Goroutines'
    BY <2>1 DEF Inv, Goroutines, Current, Streams
  <2>6. Asked' = Asked
    BY <2>1 DEF Asked, InGroup
  <2>7. Kept' /\ Counted'
    BY <2>1, <2>6 DEF Inv, Kept, Counted
  <2>8. QED
    BY <2>3, <2>4, <2>5, <2>7 DEF Inv
<1>3. QED
  BY <1>1, <1>2

\* The answers of a group become its map: a node that ran all the time stands
\* there under its own key, and the holders of the group are counted.
LEMMA EndDataInv == ASSUME Inv, EndData PROVE Inv'
<1>1. CASE HasError("data")
  BY <1>1, EndInv DEF EndData, Fail
<1>2. CASE ~HasError("data")
  <2> DEFINE ok == Answered("data")
             keys == {KeyOf(n) : n \in ok}
             found == {n \in ok : Found(n)}
  <2>1. /\ pc = "collectData" /\ stream["data"] = "closed" /\ pc' = "group"
        /\ UNCHANGED <<kind, todo, cur, overlays, go, ans, stream, stopped, stops, touched>>
        /\ grf' = IF kind = "replication" THEN grf + Cardinality(found) ELSE grf
    BY <1>2 DEF EndData, streamVars, world
  <2>2. PICK m \in [keys -> ok] :
          (\A k \in keys : KeyOf(m[k]) = k) /\ result' = [result EXCEPT ![cur] = m]
    BY <1>2 DEF EndData
  <2>3. ok \subseteq Members(cur) /\ Members(cur) \ touched \subseteq ok
    BY <1>2, <2>1, Collected DEF Streams, Current
  <2>4. keys \subseteq Members(cur) \cup {Zero}
    BY <2>3 DEF KeyOf
  <2>5. \A n \in Members(cur) \ touched : n \in keys /\ m[n] = n
    <3> SUFFICES ASSUME NEW n \in Members(cur) \ touched PROVE n \in keys /\ m[n] = n
      OBVIOUS
    <3>1. n \in ok /\ KeyOf(n) = n
      BY <2>1, <2>3 DEF Inv, Keys, KeyOf
    <3>2. n \in keys
      BY <3>1
    <3>3. KeyOf(m[n]) = n /\ n # Zero
      BY <2>2, <3>2, ClusterAssumption DEF Members
    <3>4. QED
      BY <3>2, <3>3 DEF KeyOf
  <2>6. /\ cur \in Groups /\ result'[cur] = m
        /\ \A g \in Groups : g # cur => result'[g] = result[g]
    BY <2>2 DEF Inv, Types
  <2>7. found = ok \cap Holders /\ IsFiniteSet(found) /\ Cardinality(found) \in Nat
    <3>1. found = ok \cap Holders
      BY DEF Found
    <3>2. QED
      BY <3>1, FiniteHolders
  <2>8. Types'
    <3>1. grf' \in Nat
      BY <2>1, <2>7 DEF Inv, Types
    <3>2. result' = [g \in Groups |-> result'[g]]
      BY <2>2 DEF Inv, Types
    <3>3. QED
      BY <2>1, <3>1, <3>2 DEF Inv, Types, PcValues
  <2>9. Control' /\ NoSendOnClosed' /\ Keys'
    BY <2>1 DEF Inv, Control, NoSendOnClosed, Keys, InGroup
  <2>10. Goroutines'
    BY <2>1 DEF Inv, Goroutines, Current, Streams
  <2>11. Results'
    <3>1. DOMAIN m \subseteq Members(cur) \cup {Zero} /\ \A k \in DOMAIN m : m[k] \in Members(cur)
      BY <2>2, <2>3, <2>4
    <3>2. QED
      BY <2>6, <3>1 DEF Inv, Results, Members
  <2>12. /\ Asked' = Asked \cup Members(cur) /\ Asked \cap Members(cur) = {}
         /\ cur \notin todo
    BY <2>1 DEF Inv, Control, Asked, Members, InGroup
  <2>13. Kept'
    <3> SUFFICES ASSUME NEW n \in Asked' \ touched'
                 PROVE  n \in DOMAIN result'[Group[n]] /\ result'[Group[n]][n] = n
      BY DEF Kept
    <3>1. CASE n \in Members(cur)
      <4>1. Group[n] = cur /\ n \in keys /\ m[n] = n
        BY <2>1, <2>5, <3>1 DEF Members
      <4>2. QED
        BY <2>2, <2>6, <4>1
    <3>2. CASE n \in Asked
      <4>1. n \in Nodes /\ Group[n] \in Groups /\ Group[n] # cur
        BY <2>1, <3>2, ClusterAssumption DEF Asked, InGroup
      <4>2. QED
        BY <2>1, <2>6, <3>2, <4>1 DEF Inv, Kept
    <3>3. QED
      BY <2>12, <3>1, <3>2
  <2>14. Counted'
    <3> DEFINE A == Holders \cap Asked
               B == Holders \cap Members(cur)
    <3>1. CASE kind # "replication"
      BY <2>1, <3>1 DEF Inv, Counted
    <3>2. CASE kind = "replication"
      <4>1. /\ (Holders \cap Asked)' = A \cup B /\ A \cap B = {}
            /\ ((Holders \cap Asked) \ touched)' = (A \ touched) \cup (B \ touched)
            /\ (A \ touched) \cap (B \ touched) = {}
        BY <2>1, <2>12
      <4>2. /\ IsFiniteSet(A) /\ IsFiniteSet(B) /\ IsFiniteSet(A \ touched) /\ IsFiniteSet(B \ touched)
            /\ Cardinality(A) \in Nat /\ Cardinality(B) \in Nat
            /\ Cardinality(A \ touched) \in Nat /\ Cardinality(B \ touched) \in Nat
        BY FiniteHolders
      <4>3. /\ Cardinality(A \cup B) = Cardinality(A) + Cardinality(B)
            /\ Cardinality((A \ touched) \cup (B \ touched))
                 = Cardinality(A \ touched) + Cardinality(B \ touched)
        <5>1. Cardinality(A \cap B) = 0 /\ Cardinality((A \ touched) \cap (B \ touched)) = 0
          BY <4>1, FS_EmptySet
        <5>2. Cardinality(A \cup B) = Cardinality(A) + Cardinality(B) - Cardinality(A \cap B)
          BY <4>2, FS_Union
        <5>3. Cardinality((A \ touched) \cup (B \ touched))
                = Cardinality(A \ touched) + Cardinality(B \ touched)
                    - Cardinality((A \ touched) \cap (B \ touched))
          BY <4>2, FS_Union
        <5>4. QED
          BY <4>2, <5>1, <5>2, <5>3
      <4>4. Cardinality(B \ touched) <= Cardinality(found) /\ Cardinality(found) <= Cardinality(B)
        <5>1. B \ touched \subseteq found /\ found \subseteq B
          BY <2>3, <2>7
        <5>2. QED
          BY <5>1, <4>2, <2>7, FS_Subset
      <4>5. Cardinality(A \cup B) <= Cardinality(Holders) /\ Cardinality(Holders) \in Nat
        BY FiniteHolders
      <4>6. /\ Cardinality(A \ touched) <= grf /\ grf <= Cardinality(A) /\ grf \in Nat
        BY <2>1, <3>2 DEF Inv, Counted, Types
      <4>7. grf' = grf + Cardinality(found)
        BY <2>1, <3>2
      <4>8. /\ Cardinality((A \ touched) \cup (B \ touched)) <= grf'
            /\ grf' <= Cardinality(A \cup B) /\ grf' <= Cardinality(Holders)
        BY <4>2, <4>3, <4>4, <4>5, <4>6, <4>7, <2>7
      <4>9. QED
        BY <2>1, <3>2, <4>1, <4>8 DEF Counted
    <3>3. QED
      BY <3>1, <3>2
  <2>15. QED
    BY <2>8, <2>9, <2>10, <2>11, <2>13, <2>14 DEF Inv
<1>3. QED
  BY <1>1, <1>2

\* Every step keeps the invariant.
LEMMA NextInv == Inv /\ [Next]_vars => Inv'
<1> SUFFICES ASSUME Inv, [Next]_vars PROVE Inv'
  OBVIOUS
<1>1. CASE UNCHANGED vars
  <2>1. UNCHANGED <<kind, todo, cur, overlays, result, grf, pc, go, ans, stream, stopped, stops, touched>>
    BY <1>1 DEF vars, callVars, streamVars, world
  <2>2. Types' /\ Control' /\ Goroutines' /\ NoSendOnClosed' /\ Keys' /\ Results'
    BY <2>1 DEF Inv, Types, Control, Goroutines, Current, NoSendOnClosed, Keys, Results
  <2>3. Asked' = Asked
    BY <2>1 DEF Asked
  <2>4. Kept' /\ Counted'
    BY <2>1, <2>3 DEF Inv, Kept, Counted
  <2>5. QED
    BY <2>2, <2>4 DEF Inv
<1>2. CASE \E k \in Kinds : Ask(k)
  BY <1>2, AskInv
<1>3. CASE \E g \in Groups : NextGroup(g)
  BY <1>3, NextGroupInv
<1>4. CASE \E s \in Streams : OpenStream(s)
  BY <1>4, OpenStreamInv
<1>5. CASE \E s \in Streams, n \in Nodes : Receive(s, n) \/ Call(s, n)
  BY <1>5, GoroutineInv
<1>6. CASE \E s \in Streams : Close(s)
  BY <1>6, CloseInv
<1>7. CASE \E n \in Nodes : StopOrStart(n)
  BY <1>7, StopOrStartInv
<1>8. CASE EndOverlays
  BY <1>8, EndOverlaysInv
<1>9. CASE EndData
  BY <1>9, EndDataInv
<1>10. CASE Finish \/ OpenFails
  BY <1>10, EndInv DEF Finish, OpenFails, Fail
<1>11. QED
  <2>1. Addresses \/ Accounting \/ Balances \/ GlobalReplicationFactor
          \/ Overlays \/ Peers \/ Settlements \/ Topologies => \E k \in Kinds : Ask(k)
    BY DEF Addresses, Accounting, Balances, GlobalReplicationFactor, Overlays, Peers,
           Settlements, Topologies, Kinds, Flattened, Keyed
  <2>2. QED
    BY <1>1, <1>2, <1>3, <1>4, <1>5, <1>6, <1>7, <1>8, <1>9, <1>10, <2>1 DEF Next, Caller

\* The inductive invariant holds throughout.
LEMMA InvAlways == Spec => []Inv
<1>1. QED
  BY InitInv, NextInv, PTL DEF Spec

-----------------------------------------------------------------------------
\* The state of a query of the cluster has its types: in particular a node group's
\* map holds data of its own nodes only, and the replication factor is at most the
\* number of nodes.
THEOREM TypeCorrect == Spec => []TypeOK
<1>1. Inv => TypeOK
  <2> SUFFICES ASSUME Inv PROVE TypeOK
    OBVIOUS
  <2>1. Cardinality(Holders) <= Cardinality(Nodes) /\ Cardinality(Nodes) \in Nat /\ Cardinality(Holders) \in Nat
    BY ClusterAssumption, FS_Subset, FS_CardinalityType
  <2>2. grf \in 0..Cardinality(Nodes)
    BY <2>1 DEF Inv, Types, Counted
  <2>3. QED
    BY <2>2 DEF Inv, Types, Results, TypeOK, PcValues
<1>2. QED
  BY <1>1, InvAlways, PTL

\* No goroutine sends on a stream that has been closed.
THEOREM NoSendOnClosedHolds == Spec => []NoSendOnClosed
<1>1. Inv => NoSendOnClosed
  BY DEF Inv
<1>2. QED
  BY <1>1, InvAlways, PTL

\* A query that ends without an error has the data of every node that ran all the
\* time, and counts the replicas as it should.
THEOREM RunningKeptHolds == Spec => []RunningKept
<1>1. Inv => RunningKept
  <2> SUFFICES ASSUME Inv, pc = "ok" PROVE RunningKept
    BY DEF RunningKept
  <2>1. Asked = Nodes
    BY DEF Inv, Control, Asked, InGroup
  <2>2. (Holders \cap Asked) \ touched = Holders \ touched
    BY <2>1, ClusterAssumption
  <2>3. QED
    BY <2>1, <2>2 DEF Inv, Kept, Counted, RunningKept
<1>2. QED
  BY <1>1, InvAlways, PTL

=============================================================================
