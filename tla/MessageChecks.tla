--------------------------- MODULE MessageChecks ---------------------------
(***************************************************************************)
(* The websocket listener (pkg/wslistener) and the two checks that use it, *)
(* pss and gsoc: a check subscribes at one node, sends messages through    *)
(* another and decides from what the listener hands it.  pss does so Count *)
(* times, with the same text on the same topic every time.                 *)
(*                                                                         *)
(* A reader goroutine takes messages from the connection and passes them   *)
(* to a forwarder, which passes them to the check; all channels are        *)
(* unbuffered.  Either stops for the context, for the closer of the        *)
(* listener or for an error of the connection, each on its own.  Messages  *)
(* are lost, repeated or reordered by the network, and messages nobody     *)
(* asked for arrive as well.                                               *)
(***************************************************************************)
EXTENDS Naturals, Sequences, SequencesExt, FiniteSets

CONSTANTS
    NumChunks,      \* messages gsoc sends, 10 in the code
    Count,          \* iterations of pss
    MaxArrivals     \* bound on messages that reach the connection

ASSUME MessagesAssumption ==
    NumChunks \in Nat \ {0} /\ Count \in Nat \ {0} /\ MaxArrivals \in Nat

\* Messages are numbers: those of the checks come first.
Again == NumChunks          \* the message of pss as an earlier iteration or run sent it
Noise == NumChunks + 1      \* a message of somebody else on the same topic
Empty == NumChunks + 2      \* the zero value a closed channel yields, as a string

VARIABLES
    check,      \* pss, or gsoc sending in sequence or in parallel
    left,       \* iterations of pss after this one
    sentBefore, \* an earlier iteration or run has sent the text of pss
    main,       \* the check: dial, send, wait, cancel, done, ws or ended
    outcome,    \* what it returns
    unsent,     \* messages still to be sent
    sendErr,    \* an upload has failed
    cancelled,  \* the context of the listener has ended
    done,       \* the closer has closed the channel done
    wsClosed,   \* the connection is closed, by the closer or by the node
    sent,       \* messages accepted by the sending node
    arrived,    \* the messages that came over the connection, in order
    pos,        \* how many of them the reader has read
    reader,     \* read, send, err or ended; ended closes readCh and errCh
    forwarder,  \* select, forward or ended; ended closes ch
    data,       \* what the forwarder is forwarding
    got,        \* history: what the check has received, but for empty messages
    consumer,   \* the receiving goroutine of gsoc: range or ended
    received,   \* its map of messages
    full        \* it has closed its channel done

vars == <<check, left, sentBefore, main, outcome, unsent, sendErr, cancelled, done, wsClosed, sent,
          arrived, pos, reader, forwarder, data, got, consumer, received, full>>
loopVars == <<left, sentBefore>>
mainVars == <<main, outcome, unsent, sendErr, sent>>
netVars == <<cancelled, done, wsClosed, arrived>>
listenerVars == <<pos, reader, forwarder, data>>
consumerVars == <<got, consumer, received, full>>

Payloads == IF check = "pss" THEN {0} ELSE 0..(NumChunks - 1)

Init ==
    /\ check \in {"pss", "sequence", "parallel"}
    /\ left \in IF check = "pss" THEN 0 .. Count - 1 ELSE {0}
    /\ sentBefore \in BOOLEAN
    /\ main = "dial" /\ outcome = "none" /\ unsent = Payloads /\ sendErr = FALSE
    /\ cancelled = FALSE /\ done = FALSE /\ wsClosed = FALSE
    /\ sent = {} /\ arrived = <<>> /\ pos = 0
    /\ reader = "off" /\ forwarder = "off" /\ data = Empty
    /\ got = <<>> /\ consumer = "ended" /\ received = {} /\ full = FALSE

----------------------------------------------------------------------------
(* The listener.                                                           *)

\* ReadMessage returns the next message, also one that was buffered before the
\* connection was closed.
ReadMessage ==
    /\ reader = "read" /\ pos < Len(arrived)
    /\ reader' = "send" /\ pos' = pos + 1
    /\ UNCHANGED <<check, loopVars, mainVars, netVars, forwarder, data, consumerVars>>

ReadFails ==
    /\ reader = "read" /\ wsClosed
    /\ reader' = "err"
    /\ UNCHANGED <<check, loopVars, mainVars, netVars, pos, forwarder, data, consumerVars>>

Taken_SharedBuffer == Last(arrived)

\* the message the reader holds
Taken == arrived[pos]

\* readCh <- data meets the select of the forwarder.
PassOn ==
    /\ reader = "send" /\ forwarder = "select"
    /\ reader' = "read"
    /\ forwarder' = "forward" /\ data' = Taken
    /\ UNCHANGED <<check, loopVars, mainVars, netVars, pos, consumerVars>>

ReaderStops ==
    /\ reader = "send" /\ (done \/ cancelled)
    /\ reader' = "ended"
    /\ UNCHANGED <<check, loopVars, mainVars, netVars, pos, forwarder, data, consumerVars>>

\* errCh <- err meets the select of the forwarder, and both end.
PassError ==
    /\ reader = "err" /\ forwarder = "select"
    /\ reader' = "ended" /\ forwarder' = "ended"
    /\ UNCHANGED <<check, loopVars, mainVars, netVars, pos, data, consumerVars>>

\* The reader has ended and closed readCh: the receive yields no data, which is
\* forwarded as an empty message.
ReadFromClosed ==
    /\ reader = "ended" /\ forwarder = "select"
    /\ forwarder' = "forward" /\ data' = Empty
    /\ UNCHANGED <<check, loopVars, mainVars, netVars, pos, reader, consumerVars>>

ForwarderStops_NotWhileForwarding ==
    forwarder = "select" /\ (cancelled \/ done \/ reader = "ended")

\* What makes the forwarder return: in the outer select the context, the closer
\* or errCh once it is closed, in the inner one the closer alone.
ForwarderStops ==
    \/ forwarder = "select" /\ (cancelled \/ done \/ reader = "ended")
    \/ forwarder = "forward" /\ done

EndForwarder ==
    /\ ForwarderStops
    /\ forwarder' = "ended"
    /\ UNCHANGED <<check, loopVars, mainVars, netVars, pos, reader, data, consumerVars>>

----------------------------------------------------------------------------
(* The checks.                                                             *)

Got == IF data = Empty THEN got ELSE Append(got, data)

Return(o, next) == outcome' = o /\ main' = next

\* gsoc cancels its context before it calls the closer, pss the other way round.
FirstClosing == IF check = "pss" THEN "done" ELSE "cancel"

\* ListenWebSocket, and for gsoc the start of the receiving goroutine
Dial ==
    /\ main = "dial" /\ ~cancelled
    /\ main' = "send"
    /\ reader' = "read" /\ forwarder' = "select"
    /\ consumer' = IF check = "pss" THEN "ended" ELSE "range"
    /\ UNCHANGED <<check, loopVars, outcome, unsent, sendErr, netVars, sent, pos, data,
                   got, received, full>>

DialFails ==
    /\ main = "dial"
    /\ Return("err", "ended")
    /\ UNCHANGED <<check, loopVars, unsent, sendErr, netVars, sent, listenerVars, consumerVars>>

\* SendPSSMessage or UploadSOC succeeds, in order unless they run in parallel.
Send(m) ==
    /\ main = "send" /\ m \in unsent /\ ~cancelled
    /\ check # "parallel" => \A n \in unsent : m <= n
    /\ unsent' = unsent \ {m} /\ sent' = sent \cup {m}
    /\ UNCHANGED <<check, loopVars, main, outcome, sendErr, netVars, listenerVars, consumerVars>>

\* It fails, or only its answer is lost: in parallel the others go on before
\* errG.Wait returns the error.
SendFails(m) ==
    /\ main = "send" /\ m \in unsent
    /\ sent' \in {sent} \cup (IF cancelled THEN {} ELSE {sent \cup {m}})
    /\ IF check = "parallel"
       THEN unsent' = unsent \ {m} /\ sendErr' = TRUE /\ UNCHANGED <<main, outcome>>
       ELSE Return("err", FirstClosing) /\ UNCHANGED <<unsent, sendErr>>
    /\ UNCHANGED <<check, loopVars, netVars, listenerVars, consumerVars>>

SendResult ==
    IF sendErr THEN Return("err", FirstClosing) ELSE main' = "wait" /\ UNCHANGED outcome

AllSent ==
    /\ main = "send" /\ unsent = {}
    /\ SendResult
    /\ UNCHANGED <<check, loopVars, unsent, sendErr, netVars, sent, listenerVars, consumerVars>>

\* ch <- string(data) meets the receive of pss: the right message ends the
\* check, any other is logged.
ReceivePss ==
    /\ check = "pss" /\ main = "wait" /\ forwarder = "forward"
    /\ forwarder' = "select" /\ got' = Got
    /\ IF data \in Payloads \cup {Again} THEN Return("ok", FirstClosing) ELSE UNCHANGED <<main, outcome>>
    /\ UNCHANGED <<check, loopVars, unsent, sendErr, netVars, sent, pos, reader, data,
                   consumer, received, full>>

ClosedPss ==
    /\ check = "pss" /\ main = "wait" /\ forwarder = "ended"
    /\ Return("err", FirstClosing)
    /\ UNCHANGED <<check, loopVars, unsent, sendErr, netVars, sent, listenerVars, consumerVars>>

\* With all messages the goroutine closes done, once, and returns.
AfterReceive(isFull) == IF isFull THEN "ended" ELSE "range"

\* ch <- string(data) meets the range of gsoc's receiving goroutine, which
\* counts distinct messages of whatever content.
ReceiveGsoc ==
    /\ consumer = "range" /\ forwarder = "forward"
    /\ forwarder' = "select" /\ got' = Got
    /\ received' = received \cup {data}
    /\ full' = (Cardinality(received') = NumChunks)
    /\ consumer' = AfterReceive(full')
    /\ UNCHANGED <<check, loopVars, mainVars, netVars, pos, reader, data>>

ClosedGsoc ==
    /\ consumer = "range" /\ forwarder = "ended"
    /\ consumer' = "ended"
    /\ UNCHANGED <<check, loopVars, mainVars, netVars, listenerVars, got, received, full>>

Verified_CountOnly == TRUE

\* gsoc looks at every message it has sent, however many were received.
Verified == Payloads \subseteq received

DoneGsoc ==
    /\ main = "wait" /\ full
    /\ Return(IF Verified THEN "ok" ELSE "err", FirstClosing)
    /\ UNCHANGED <<check, loopVars, unsent, sendErr, netVars, sent, listenerVars, consumerVars>>

\* three minutes, started anew by pss for every message
WaitTimesOut == main = "wait"

TimedOut ==
    /\ WaitTimesOut
    /\ Return("err", FirstClosing)
    /\ UNCHANGED <<check, loopVars, unsent, sendErr, netVars, sent, listenerVars, consumerVars>>

\* cancel, close(done) and ws.Close() on the way out
Closing ==
    /\ \/ main = "cancel" /\ cancelled' = TRUE /\ UNCHANGED <<done, wsClosed>>
          /\ main' = IF check = "pss" THEN "ended" ELSE "done"
       \/ main = "done" /\ done' = TRUE /\ main' = "ws" /\ UNCHANGED <<cancelled, wsClosed>>
       \/ main = "ws" /\ wsClosed' = TRUE /\ UNCHANGED <<cancelled, done>>
          /\ main' = IF check = "pss" THEN "cancel" ELSE "ended"
    /\ UNCHANGED <<check, loopVars, outcome, unsent, sendErr, sent, arrived, listenerVars, consumerVars>>

\* The next iteration of pss, with a context and a listener of its own; what is
\* left of the earlier listener ends by itself and shares nothing with it.
NextTest ==
    /\ check = "pss" /\ main = "ended" /\ outcome = "ok" /\ left > 0
    /\ left' = left - 1 /\ sentBefore' = TRUE
    /\ main' = "dial" /\ outcome' = "none" /\ unsent' = Payloads /\ sendErr' = FALSE
    /\ sent' = {}
    /\ cancelled' = FALSE /\ done' = FALSE /\ wsClosed' = FALSE
    /\ arrived' = <<>> /\ pos' = 0 /\ got' = <<>>
    /\ reader' = "off" /\ forwarder' = "off" /\ data' = Empty
    /\ consumer' = "ended" /\ received' = {} /\ full' = FALSE
    /\ UNCHANGED check

----------------------------------------------------------------------------
(* The network, the nodes and the deadline of the context (external).      *)

Arrive ==
    /\ reader # "off" /\ ~wsClosed /\ Len(arrived) < MaxArrivals
    /\ \E m \in sent \cup {Noise} \cup (IF check = "pss" /\ sentBefore THEN {Again} ELSE {}) :
        arrived' = Append(arrived, m)
    /\ UNCHANGED <<check, loopVars, mainVars, cancelled, done, wsClosed, listenerVars, consumerVars>>

Disconnect ==
    /\ reader # "off" /\ ~wsClosed
    /\ wsClosed' = TRUE
    /\ UNCHANGED <<check, loopVars, mainVars, cancelled, done, arrived, listenerVars, consumerVars>>

Deadline ==
    /\ ~cancelled /\ main # "ended"
    /\ cancelled' = TRUE
    /\ UNCHANGED <<check, loopVars, mainVars, done, wsClosed, arrived, listenerVars, consumerVars>>

----------------------------------------------------------------------------
Listener ==
    \/ ReadMessage \/ ReadFails \/ PassOn \/ ReaderStops \/ PassError
    \/ ReadFromClosed
Main ==
    \/ Dial \/ DialFails \/ AllSent \/ ClosedPss \/ DoneGsoc \/ TimedOut \/ Closing
    \/ NextTest
    \/ \E m \in Payloads : Send(m) \/ SendFails(m)

Next ==
    \/ Main \/ Listener \/ EndForwarder
    \/ ReceivePss \/ ReceiveGsoc \/ ClosedGsoc
    \/ Arrive \/ Disconnect \/ Deadline

\* Goroutines are scheduled, requests end and timers fire; a select takes each
\* of its cases again and again when they stay ready.
Spec ==
    /\ Init /\ [][Next]_vars
    /\ WF_vars(Main) /\ WF_vars(Listener) /\ WF_vars(ReceivePss)
    /\ WF_vars(ReceiveGsoc) /\ WF_vars(ClosedGsoc) /\ SF_vars(EndForwarder)

----------------------------------------------------------------------------
Data == 0..Empty

TypeOK ==
    /\ check \in {"pss", "sequence", "parallel"}
    /\ left \in Nat /\ sentBefore \in BOOLEAN
    /\ main \in {"dial", "send", "wait", "cancel", "done", "ws", "ended"}
    /\ outcome \in {"none", "ok", "err"}
    /\ unsent \subseteq Payloads /\ sent \subseteq Payloads
    /\ {sendErr, cancelled, done, wsClosed, full} \subseteq BOOLEAN
    /\ arrived \in Seq(Data) /\ pos \in 0..Len(arrived)
    /\ reader \in {"off", "read", "send", "err", "ended"}
    /\ forwarder \in {"off", "select", "forward", "ended"}
    /\ data \in Data /\ got \in Seq(Data)
    /\ consumer \in {"range", "ended"}
    /\ received \subseteq Data /\ Cardinality(received) <= NumChunks

\* A check that passes has seen all its uploads succeed, the error of none lost
\* among the others, and every message arrive at the listening node: neither
\* noise, repeated messages nor the empty messages of a closed channel make up
\* for a missing one.  For pss alone a late message of an earlier iteration or run
\* does, since it reads the same (testPss; run, runInParallel and runInSequence).
PassMeansDelivered ==
    outcome = "ok" =>
        /\ ~sendErr /\ sent = Payloads
        /\ \/ Payloads \subseteq ToSet(arrived)
           \/ check = "pss" /\ sentBefore /\ Again \in ToSet(arrived)

\* The listener neither loses, repeats nor reorders what came over the
\* connection, up to the point where it stops (ListenWebSocket).
InOrder == IsPrefix(got, arrived)

\* The checks end, whatever is lost, and the forwarder and the receiving
\* goroutine of the last iteration end with them; every iteration is the last
\* one of some behaviour.
CheckEnds ==
    <>(main = "ended" /\ forwarder \in {"off", "ended"} /\ consumer = "ended")

============================================================================
