------------------------ MODULE MessageChecksProofs ------------------------
(***************************************************************************)
(* Safety of MessageChecks for any number of messages.  The argument: each *)
(* message is in one place between connection and check, so that what the  *)
(* check has got is the beginning of what arrived (Flow); the map of gsoc  *)
(* holds nothing else but the empty message (Seen); and a check waits only *)
(* after every upload has succeeded (Uploads).                             *)
(***************************************************************************)
EXTENDS MessageChecks, FiniteSetTheorems, TLAPS

Types ==
    /\ check \in {"pss", "sequence", "parallel"}
    /\ left \in Nat /\ sentBefore \in BOOLEAN
    /\ main \in {"dial", "send", "wait", "cancel", "done", "ws", "ended"}
    /\ outcome \in {"none", "ok", "err"}
    /\ unsent \subseteq Payloads /\ sent \subseteq Payloads
    /\ {sendErr, cancelled, done, wsClosed, full} \subseteq BOOLEAN
    /\ arrived \in Seq(0..(NumChunks + 1)) /\ pos \in 0..Len(arrived)
    /\ reader \in {"off", "read", "send", "err", "ended"}
    /\ forwarder \in {"off", "select", "forward", "ended"}
    /\ data \in Data /\ got \in Seq(Data)
    /\ consumer \in {"range", "ended"}
    /\ received \subseteq Data

\* Nothing has happened before the subscription.
Untouched ==
    main = "dial" =>
        /\ reader = "off" /\ forwarder = "off" /\ consumer = "ended"
        /\ received = {} /\ got = <<>> /\ pos = 0
        /\ unsent = Payloads /\ sent = {} /\ ~sendErr

\* The receiving goroutine of gsoc stops when its map is full.
Counted ==
    /\ IsFiniteSet(received) /\ Cardinality(received) <= NumChunks
    /\ consumer = "range" => Cardinality(received) < NumChunks

\* A check waits only after all of its uploads have succeeded.
Uploads ==
    /\ main \in {"dial", "send", "wait"} => outcome = "none"
    /\ main = "send" /\ ~sendErr => sent = Payloads \ unsent
    /\ main = "wait" \/ outcome = "ok" => ~sendErr /\ sent = Payloads

Seen ==
    /\ received \subseteq ToSet(arrived) \cup {Empty}
    /\ outcome = "ok" =>
        \/ Payloads \subseteq ToSet(arrived)
        \/ check = "pss" /\ sentBefore /\ Again \in ToSet(arrived)
    /\ Again \in ToSet(arrived) => check = "pss" /\ sentBefore

\* the message the reader has taken and not yet passed on
Held == IF reader = "send" THEN 1 ELSE 0

Flow ==
    /\ reader = "send" => pos > 0
    /\ Len(got) <= Len(arrived) /\ \A i \in 1..Len(got) : got[i] = arrived[i]
    /\ reader \in {"read", "send"} /\ forwarder = "select" => Len(got) = pos - Held
    /\ reader \in {"read", "send"} /\ forwarder = "forward" =>
           data # Empty /\ Len(got) + 1 = pos - Held
    /\ forwarder = "forward" /\ data # Empty =>
           Len(got) < Len(arrived) /\ data = arrived[Len(got) + 1]

Inv == Types /\ Untouched /\ Counted /\ Uploads /\ Seen /\ Flow

----------------------------------------------------------------------------
LEMMA Numbers ==
    /\ NumChunks \in Nat \ {0} /\ Again = NumChunks /\ Noise = NumChunks + 1
    /\ Empty = NumChunks + 2 /\ Data = 0..(NumChunks + 2) /\ Payloads \subseteq 0..(NumChunks - 1)
BY MessagesAssumption DEF Again, Noise, Empty, Data, Payloads

LEMMA Element ==
  ASSUME NEW S, NEW s \in Seq(S), NEW i \in 1..Len(s)
  PROVE  s[i] \in S
OBVIOUS

\* What a check is handed has arrived, or is the empty message.
LEMMA ForwardedArrived ==
  ASSUME Inv, forwarder = "forward", data # Empty
  PROVE  data \in ToSet(arrived)
<1>1. arrived \in Seq(0..(NumChunks + 1)) /\ Len(got) + 1 \in 1..Len(arrived)
  BY DEF Inv, Types, Flow
<1>2. Len(got) + 1 \in DOMAIN arrived /\ data = arrived[Len(got) + 1]
  BY <1>1 DEF Inv, Flow
<1>3. QED
  BY <1>2 DEF ToSet

\* Receiving it keeps the check's history a beginning of what arrived.
LEMMA ReceiveFlow ==
  ASSUME Inv, forwarder = "forward", forwarder' = "select", got' = Got,
         UNCHANGED <<arrived, pos, reader, data>>
  PROVE  got' \in Seq(Data) /\ Flow'
<1>1. got \in Seq(Data) /\ data \in Data
  BY DEF Inv, Types
<1>2. CASE data = Empty
  BY <1>1, <1>2 DEF Inv, Flow, Held, Got
<1>3. CASE data # Empty
  <2>1. /\ got' = Append(got, data)
        /\ Len(got) < Len(arrived) /\ data = arrived[Len(got) + 1]
    BY <1>3 DEF Inv, Flow, Got
  <2>2. /\ got' \in Seq(Data) /\ Len(got') = Len(got) + 1
        /\ \A i \in 1..Len(got) : got'[i] = got[i]
        /\ got'[Len(got) + 1] = data
    BY <1>1, <2>1
  <2>3. Len(got') <= Len(arrived) /\ \A i \in 1..Len(got') : got'[i] = arrived[i]
    BY <1>1, <2>1, <2>2 DEF Inv, Types, Flow
  <2>4. QED
    BY <2>2, <2>3 DEF Inv, Flow, Held
<1>4. QED
  BY <1>2, <1>3

----------------------------------------------------------------------------
LEMMA InitInv == Init => Inv
<1> SUFFICES ASSUME Init PROVE Inv
  OBVIOUS
<1>1. Empty \in Data /\ <<>> \in Seq(Data) /\ <<>> \in Seq(0..(NumChunks + 1)) /\ Len(<<>>) = 0
  BY Numbers
<1>2. Types
  <2>1. pos \in 0..Len(arrived) /\ unsent \subseteq Payloads /\ sent \subseteq Payloads
    BY <1>1 DEF Init
  <2>2. left \in Nat
    BY MessagesAssumption DEF Init
  <2>3. {sendErr, cancelled, done, wsClosed, full} \subseteq BOOLEAN /\ sentBefore \in BOOLEAN
    BY DEF Init
  <2>4. QED
    BY <1>1, <2>1, <2>2, <2>3 DEF Init, Types
<1>3. Untouched /\ Uploads
  BY DEF Init, Untouched, Uploads
<1>4. Flow
  BY <1>1 DEF Init, Flow, Held
<1>5. Counted
  BY Numbers, FS_EmptySet DEF Init, Counted
<1>6. Seen
  BY DEF Init, Seen, ToSet
<1>7. QED
  BY <1>2, <1>3, <1>4, <1>5, <1>6 DEF Inv

LEMMA DialInv ==
  ASSUME Inv, Dial
  PROVE  Inv'
<1> USE DEF Inv, Dial, loopVars, netVars
<1>1. Types' /\ Untouched' /\ Uploads' /\ Seen'
  BY DEF Types, Untouched, Uploads, Seen, Payloads
<1>2. Counted'
  BY Numbers, FS_EmptySet DEF Counted, Untouched
<1>3. Flow'
  <2>1. got = <<>> /\ Len(got) = 0 /\ pos = 0
    BY DEF Untouched
  <2>2. QED
    BY <2>1 DEF Flow, Held
<1>4. QED
  BY <1>1, <1>2, <1>3

LEMMA PassOnInv ==
  ASSUME Inv, PassOn
  PROVE  Inv'
<1> USE DEF Inv, PassOn, Taken, loopVars, mainVars, netVars, consumerVars
<1>1. pos \in 1..Len(arrived) /\ arrived \in Seq(0..(NumChunks + 1))
  BY DEF Types, Flow
<1>2. data' \in 0..(NumChunks + 1)
  BY <1>1, Element
<1>3. Types'
  BY <1>2, Numbers DEF Types, Payloads
<1>4. Untouched' /\ Counted' /\ Uploads' /\ Seen'
  BY DEF Untouched, Counted, Uploads, Seen, Payloads
<1>5. Flow'
  BY <1>1, <1>2, Numbers DEF Flow, Held
<1>6. QED
  BY <1>3, <1>4, <1>5

LEMMA NextTestInv ==
  ASSUME Inv, NextTest
  PROVE  Inv'
<1> USE DEF Inv, NextTest
<1>1. Empty \in Data /\ <<>> \in Seq(Data) /\ <<>> \in Seq(0..(NumChunks + 1)) /\ Len(<<>>) = 0
  BY Numbers
<1>2. Types'
  <2>1. pos' \in 0..Len(arrived') /\ unsent' \subseteq Payloads' /\ sent' \subseteq Payloads'
    BY <1>1 DEF Payloads
  <2>2. left' \in Nat
    BY DEF Types
  <2>3. {sendErr', cancelled', done', wsClosed', full'} \subseteq BOOLEAN /\ sentBefore' \in BOOLEAN
    OBVIOUS
  <2>4. QED
    BY <1>1, <2>1, <2>2, <2>3 DEF Types
<1>3. Untouched' /\ Uploads'
  BY DEF Untouched, Uploads, Payloads
<1>4. Flow'
  BY <1>1 DEF Flow, Held
<1>5. Counted'
  BY Numbers, FS_EmptySet DEF Counted
<1>6. Seen'
  BY DEF Seen, ToSet
<1>7. QED
  BY <1>2, <1>3, <1>4, <1>5, <1>6

LEMMA ReceivePssInv ==
  ASSUME Inv, ReceivePss
  PROVE  Inv'
<1> USE DEF Inv, ReceivePss, Return, FirstClosing, loopVars, netVars
<1>1. got' \in Seq(Data) /\ Flow'
  BY ReceiveFlow
<1>2. Types' /\ Untouched' /\ Counted' /\ Uploads'
  BY <1>1 DEF Types, Untouched, Counted, Uploads, Payloads
<1>3. Seen'
  <2>1. data \in Payloads => Payloads \subseteq ToSet(arrived)
    BY ForwardedArrived, Numbers DEF Payloads
  <2>2. data = Again => Again \in ToSet(arrived) /\ check = "pss" /\ sentBefore
    BY ForwardedArrived, Numbers DEF Seen
  <2>3. QED
    BY <2>1, <2>2 DEF Seen, Uploads, Payloads
<1>4. QED
  BY <1>1, <1>2, <1>3

LEMMA ReceiveGsocInv ==
  ASSUME Inv, ReceiveGsoc
  PROVE  Inv'
<1> USE DEF Inv, ReceiveGsoc, AfterReceive, loopVars, mainVars, netVars
<1>1. got' \in Seq(Data) /\ Flow'
  BY ReceiveFlow
<1>2. full' \in BOOLEAN /\ consumer' \in {"range", "ended"} /\ received' \subseteq Data
  BY DEF Types
<1>3. Types' /\ Untouched' /\ Uploads'
  BY <1>1, <1>2 DEF Types, Untouched, Uploads, Payloads
<1>4. Counted'
  <2>1. /\ IsFiniteSet(received') /\ Cardinality(received') \in Nat
        /\ Cardinality(received) \in Nat
        /\ Cardinality(received') <= Cardinality(received) + 1
    <3>1. IsFiniteSet(received) /\ received' = received \cup {data}
      BY DEF Counted
    <3>2. /\ IsFiniteSet(received')
          /\ Cardinality(received') \in {Cardinality(received), Cardinality(received) + 1}
      BY <3>1, FS_AddElement
    <3>3. Cardinality(received) \in Nat
      BY <3>1, FS_CardinalityType
    <3>4. QED
      BY <3>2, <3>3
  <2>2. Cardinality(received) < NumChunks
    BY DEF Counted
  <2>3. Cardinality(received') <= NumChunks
    BY <2>1, <2>2, Numbers
  <2>4. consumer' = "range" => Cardinality(received') # NumChunks
    OBVIOUS
  <2>5. QED
    BY <2>1, <2>3, <2>4, Numbers DEF Counted
<1>5. Seen'
  BY ForwardedArrived DEF Seen, Payloads
<1>6. QED
  BY <1>1, <1>3, <1>4, <1>5

LEMMA ArriveInv ==
  ASSUME Inv, Arrive
  PROVE  Inv'
<1> USE DEF Inv, Arrive, loopVars, mainVars, listenerVars, consumerVars
<1>1. PICK m \in 0..(NumChunks + 1) :
        arrived' = Append(arrived, m) /\ (m = Again => check = "pss" /\ sentBefore)
  BY Numbers DEF Types
<1>2. /\ arrived \in Seq(0..(NumChunks + 1)) /\ arrived' \in Seq(0..(NumChunks + 1))
      /\ Len(arrived') = Len(arrived) + 1
      /\ \A i \in 1..Len(arrived) : arrived'[i] = arrived[i]
  BY <1>1 DEF Types
<1>3. Types' /\ Untouched' /\ Counted' /\ Uploads'
  BY <1>2 DEF Types, Untouched, Counted, Uploads, Payloads
<1>4. Seen'
  <2>1. DOMAIN arrived = 1..Len(arrived) /\ DOMAIN arrived' = 1..Len(arrived')
    BY <1>2
  <2>2. ToSet(arrived) \subseteq ToSet(arrived')
    BY <1>2, <2>1 DEF ToSet
  <2>3. Again \in ToSet(arrived') => Again \in ToSet(arrived) \/ (check = "pss" /\ sentBefore)
    BY <1>1, <1>2, <2>1 DEF ToSet
  <2>4. QED
    BY <2>2, <2>3 DEF Seen, Payloads
<1>5. Flow'
  BY <1>2 DEF Types, Flow, Held
<1>6. QED
  BY <1>3, <1>4, <1>5

\* The steps that move no message: only program counters, flags and uploads change.
LEMMA DialFailsInv ==
  ASSUME Inv, DialFails
  PROVE  Inv'
<1> USE DEF Inv, DialFails, Return, loopVars, mainVars, netVars, listenerVars, consumerVars
<1>1. Types' /\ Untouched' /\ Uploads'
  BY DEF Types, Untouched, Uploads, Payloads
<1>2. Counted' /\ Seen'
  BY DEF Counted, Seen, Uploads, Payloads
<1>3. Flow'
  BY Numbers DEF Types, Flow, Held
<1>4. QED
  BY <1>1, <1>2, <1>3

LEMMA AllSentInv ==
  ASSUME Inv, AllSent
  PROVE  Inv'
<1> USE DEF Inv, AllSent, SendResult, Return, FirstClosing, loopVars, mainVars, netVars, listenerVars, consumerVars
<1>1. Types' /\ Untouched' /\ Uploads'
  BY DEF Types, Untouched, Uploads, Payloads
<1>2. Counted' /\ Seen'
  BY DEF Counted, Seen, Uploads, Payloads
<1>3. Flow'
  BY Numbers DEF Types, Flow, Held
<1>4. QED
  BY <1>1, <1>2, <1>3

LEMMA ClosedPssInv ==
  ASSUME Inv, ClosedPss
  PROVE  Inv'
<1> USE DEF Inv, ClosedPss, Return, FirstClosing, loopVars, mainVars, netVars, listenerVars, consumerVars
<1>1. Types' /\ Untouched' /\ Uploads'
  BY DEF Types, Untouched, Uploads, Payloads
<1>2. Counted' /\ Seen'
  BY DEF Counted, Seen, Uploads, Payloads
<1>3. Flow'
  BY Numbers DEF Types, Flow, Held
<1>4. QED
  BY <1>1, <1>2, <1>3

LEMMA DoneGsocInv ==
  ASSUME Inv, DoneGsoc
  PROVE  Inv'
<1> USE DEF Inv, DoneGsoc, Return, FirstClosing, Verified, loopVars, mainVars, netVars, listenerVars, consumerVars
<1>1. Types' /\ Untouched' /\ Uploads'
  BY DEF Types, Untouched, Uploads, Payloads
<1>2. Counted' /\ Seen'
  <2>1. Empty \notin Payloads
    BY Numbers
  <2>2. QED
    BY <2>1 DEF Counted, Seen, Uploads, Payloads
<1>3. Flow'
  BY Numbers DEF Types, Flow, Held
<1>4. QED
  BY <1>1, <1>2, <1>3

LEMMA TimedOutInv ==
  ASSUME Inv, TimedOut
  PROVE  Inv'
<1> USE DEF Inv, TimedOut, WaitTimesOut, Return, FirstClosing, loopVars, mainVars, netVars, listenerVars, consumerVars
<1>1. Types' /\ Untouched' /\ Uploads'
  BY DEF Types, Untouched, Uploads, Payloads
<1>2. Counted' /\ Seen'
  BY DEF Counted, Seen, Uploads, Payloads
<1>3. Flow'
  BY Numbers DEF Types, Flow, Held
<1>4. QED
  BY <1>1, <1>2, <1>3

LEMMA ClosingInv ==
  ASSUME Inv, Closing
  PROVE  Inv'
<1> USE DEF Inv, Closing, loopVars, mainVars, netVars, listenerVars, consumerVars
<1>1. Types' /\ Untouched' /\ Uploads'
  <2>1. Types'
    <3>1. UNCHANGED <<check, left, sentBefore, outcome, unsent, sendErr, sent, arrived, pos, reader,
                      forwarder, data, got, consumer, received, full>>
      OBVIOUS
    <3>2. main' \in {"done", "ws", "cancel", "ended"}
      OBVIOUS
    <3>3. {cancelled', done', wsClosed'} \subseteq BOOLEAN
      BY Zenon DEF Types
    <3>4. QED
      BY <3>1, <3>2, <3>3, Zenon DEF Types, Payloads
  <2>2. Untouched'
    BY SMTT(60) DEF Types, Untouched, Payloads
  <2>3. Uploads'
    BY SMTT(60) DEF Types, Uploads, Payloads
  <2>4. QED
    BY <2>1, <2>2, <2>3
<1>2. Counted' /\ Seen'
  BY DEF Counted, Seen, Uploads, Payloads
<1>3. Flow'
  BY Numbers DEF Types, Flow, Held
<1>4. QED
  BY <1>1, <1>2, <1>3

LEMMA ReadMessageInv ==
  ASSUME Inv, ReadMessage
  PROVE  Inv'
<1> USE DEF Inv, ReadMessage, loopVars, mainVars, netVars, listenerVars, consumerVars
<1>1. Types' /\ Untouched' /\ Uploads'
  BY DEF Types, Untouched, Uploads, Payloads
<1>2. Counted' /\ Seen'
  BY DEF Counted, Seen, Uploads, Payloads
<1>3. Flow'
  BY Numbers DEF Types, Flow, Held
<1>4. QED
  BY <1>1, <1>2, <1>3

LEMMA ReadFailsInv ==
  ASSUME Inv, ReadFails
  PROVE  Inv'
<1> USE DEF Inv, ReadFails, loopVars, mainVars, netVars, listenerVars, consumerVars
<1>1. Types' /\ Untouched' /\ Uploads'
  BY DEF Types, Untouched, Uploads, Payloads
<1>2. Counted' /\ Seen'
  BY DEF Counted, Seen, Uploads, Payloads
<1>3. Flow'
  BY Numbers DEF Types, Flow, Held
<1>4. QED
  BY <1>1, <1>2, <1>3

LEMMA ReaderStopsInv ==
  ASSUME Inv, ReaderStops
  PROVE  Inv'
<1> USE DEF Inv, ReaderStops, loopVars, mainVars, netVars, listenerVars, consumerVars
<1>1. Types' /\ Untouched' /\ Uploads'
  BY DEF Types, Untouched, Uploads, Payloads
<1>2. Counted' /\ Seen'
  BY DEF Counted, Seen, Uploads, Payloads
<1>3. Flow'
  BY Numbers DEF Types, Flow, Held
<1>4. QED
  BY <1>1, <1>2, <1>3

LEMMA PassErrorInv ==
  ASSUME Inv, PassError
  PROVE  Inv'
<1> USE DEF Inv, PassError, loopVars, mainVars, netVars, listenerVars, consumerVars
<1>1. Types' /\ Untouched' /\ Uploads'
  BY DEF Types, Untouched, Uploads, Payloads
<1>2. Counted' /\ Seen'
  BY DEF Counted, Seen, Uploads, Payloads
<1>3. Flow'
  BY Numbers DEF Types, Flow, Held
<1>4. QED
  BY <1>1, <1>2, <1>3

LEMMA ReadFromClosedInv ==
  ASSUME Inv, ReadFromClosed
  PROVE  Inv'
<1> USE DEF Inv, ReadFromClosed, loopVars, mainVars, netVars, listenerVars, consumerVars
<1>1. Types' /\ Untouched' /\ Uploads'
  BY Numbers DEF Types, Untouched, Uploads, Payloads
<1>2. Counted' /\ Seen'
  BY DEF Counted, Seen, Uploads, Payloads
<1>3. Flow'
  BY Numbers DEF Types, Flow, Held
<1>4. QED
  BY <1>1, <1>2, <1>3

LEMMA EndForwarderInv ==
  ASSUME Inv, EndForwarder
  PROVE  Inv'
<1> USE DEF Inv, EndForwarder, ForwarderStops, loopVars, mainVars, netVars, listenerVars, consumerVars
<1>1. Types' /\ Untouched' /\ Uploads'
  BY DEF Types, Untouched, Uploads, Payloads
<1>2. Counted' /\ Seen'
  BY DEF Counted, Seen, Uploads, Payloads
<1>3. Flow'
  BY Numbers DEF Types, Flow, Held
<1>4. QED
  BY <1>1, <1>2, <1>3

LEMMA ClosedGsocInv ==
  ASSUME Inv, ClosedGsoc
  PROVE  Inv'
<1> USE DEF Inv, ClosedGsoc, loopVars, mainVars, netVars, listenerVars, consumerVars
<1>1. Types' /\ Untouched' /\ Uploads'
  BY DEF Types, Untouched, Uploads, Payloads
<1>2. Counted' /\ Seen'
  BY DEF Counted, Seen, Uploads, Payloads
<1>3. Flow'
  BY Numbers DEF Types, Flow, Held
<1>4. QED
  BY <1>1, <1>2, <1>3

LEMMA DisconnectInv ==
  ASSUME Inv, Disconnect
  PROVE  Inv'
<1> USE DEF Inv, Disconnect, loopVars, mainVars, netVars, listenerVars, consumerVars
<1>1. Types' /\ Untouched' /\ Uploads'
  BY DEF Types, Untouched, Uploads, Payloads
<1>2. Counted' /\ Seen'
  BY DEF Counted, Seen, Uploads, Payloads
<1>3. Flow'
  BY Numbers DEF Types, Flow, Held
<1>4. QED
  BY <1>1, <1>2, <1>3

LEMMA DeadlineInv ==
  ASSUME Inv, Deadline
  PROVE  Inv'
<1> USE DEF Inv, Deadline, loopVars, mainVars, netVars, listenerVars, consumerVars
<1>1. Types' /\ Untouched' /\ Uploads'
  BY DEF Types, Untouched, Uploads, Payloads
<1>2. Counted' /\ Seen'
  BY DEF Counted, Seen, Uploads, Payloads
<1>3. Flow'
  BY Numbers DEF Types, Flow, Held
<1>4. QED
  BY <1>1, <1>2, <1>3

LEMMA SendInv ==
  ASSUME Inv, NEW m \in Payloads, Send(m)
  PROVE  Inv'
<1> USE DEF Inv, Send, loopVars, mainVars, netVars, listenerVars, consumerVars
<1>1. Types' /\ Untouched' /\ Uploads'
  BY DEF Types, Untouched, Uploads, Payloads
<1>2. Counted' /\ Seen'
  BY DEF Counted, Seen, Uploads, Payloads
<1>3. Flow'
  BY Numbers DEF Types, Flow, Held
<1>4. QED
  BY <1>1, <1>2, <1>3

LEMMA SendFailsInv ==
  ASSUME Inv, NEW m \in Payloads, SendFails(m)
  PROVE  Inv'
<1> USE DEF Inv, SendFails, Return, FirstClosing, loopVars, mainVars, netVars, listenerVars, consumerVars
<1>1. Types' /\ Untouched' /\ Uploads'
  <2>1. Types'
    <3>1. UNCHANGED <<check, left, sentBefore, cancelled, done, wsClosed, arrived, pos, reader,
                      forwarder, data, got, consumer, received, full>>
      OBVIOUS
    <3>2. /\ main' \in {"send", "done", "cancel"} /\ outcome' \in {outcome, "err"}
          /\ sendErr' = TRUE \/ sendErr' = sendErr
      OBVIOUS
    <3>3. unsent' \subseteq Payloads /\ sent' \subseteq Payloads
      BY DEF Types
    <3>4. QED
      BY <3>1, <3>2, <3>3, Zenon DEF Types, Payloads
  <2>2. Untouched'
    BY SMTT(60) DEF Types, Untouched, Payloads
  <2>3. Uploads'
    BY SMTT(60) DEF Types, Uploads, Payloads
  <2>4. QED
    BY <2>1, <2>2, <2>3
<1>2. Counted' /\ Seen'
  BY DEF Counted, Seen, Uploads, Payloads
<1>3. Flow'
  BY Numbers DEF Types, Flow, Held
<1>4. QED
  BY <1>1, <1>2, <1>3

----------------------------------------------------------------------------
LEMMA StepInv == Inv /\ [Next]_vars => Inv'
<1> SUFFICES ASSUME Inv, [Next]_vars PROVE Inv'
  OBVIOUS
<1>1. CASE Main
  BY <1>1, DialInv, DialFailsInv, AllSentInv, ClosedPssInv, DoneGsocInv, TimedOutInv,
     ClosingInv, NextTestInv, SendInv, SendFailsInv DEF Main
<1>2. CASE Listener
  BY <1>2, ReadMessageInv, ReadFailsInv, PassOnInv, ReaderStopsInv, PassErrorInv,
     ReadFromClosedInv DEF Listener
<1>3. CASE EndForwarder \/ ReceivePss \/ ReceiveGsoc \/ ClosedGsoc
  BY <1>3, EndForwarderInv, ReceivePssInv, ReceiveGsocInv, ClosedGsocInv
<1>4. CASE Arrive \/ Disconnect \/ Deadline
  BY <1>4, ArriveInv, DisconnectInv, DeadlineInv
<1>5. CASE UNCHANGED vars
  BY <1>5 DEF vars, Inv, Types, Untouched, Counted, Uploads, Seen, Flow, Held, Payloads
<1>6. QED
  BY <1>1, <1>2, <1>3, <1>4, <1>5 DEF Next

THEOREM Invariance == Spec => []Inv
<1>1. QED
  BY InitInv, StepInv, PTL DEF Spec

\* Type correctness, with the map of gsoc never larger than the number of its
\* messages (the receiving goroutine of run).
THEOREM TypeCorrect == Spec => []TypeOK
<1>1. Inv => TypeOK
  <2>1. Seq(0..(NumChunks + 1)) \subseteq Seq(Data)
    BY Numbers
  <2>2. QED
    BY <2>1 DEF Inv, Types, Counted, TypeOK
<1>2. QED
  BY <1>1, Invariance, PTL

\* For any number of messages a check of messages passes only when all its uploads
\* have succeeded and every message has arrived, where for pss the same text of an
\* earlier iteration or run counts as well (testPss; run of gsoc).
THEOREM PassMeansDeliveredHolds == Spec => []PassMeansDelivered
<1>1. Inv => PassMeansDelivered
  BY DEF Inv, Uploads, Seen, PassMeansDelivered
<1>2. QED
  BY <1>1, Invariance, PTL

\* For any number of messages the listener hands on a beginning of what came over
\* the connection, nothing lost, repeated or reordered (ListenWebSocket).
THEOREM InOrderHolds == Spec => []InOrder
<1>1. ASSUME Inv PROVE InOrder
  <2>1. /\ got \in Seq(Data) /\ arrived \in Seq(0..(NumChunks + 1)) /\ Len(got) <= Len(arrived)
        /\ \A i \in 1..Len(got) : got[i] = arrived[i]
    BY <1>1 DEF Inv, Types, Flow
  <2>2. SubSeq(got, 1, Len(got)) = SubSeq(arrived, 1, Len(got))
    BY <2>1
  <2>3. QED
    BY <2>1, <2>2 DEF InOrder, IsPrefix
<1>2. QED
  BY <1>1, Invariance, PTL
============================================================================
