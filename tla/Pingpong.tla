------------------------------ MODULE Pingpong ------------------------------
(***************************************************************************)
(* The pingpong check: for one node group after another, a goroutine per   *)
(* node pings the node's peers, a goroutine each (PingStream), and all of  *)
(* them report to Run over unbuffered channels.                            *)
(***************************************************************************)
EXTENDS Integers, Sequences, SequencesExt

CONSTANTS
    Groups,     \* sequence of sets of nodes
    PeersOf     \* the peers of every node

\* the nodes of the cluster are those of its groups
ASSUME PingpongAssumption ==
    /\ Groups \in Seq(SUBSET DOMAIN PeersOf)
    /\ \A n \in DOMAIN PeersOf : \E i \in 1..Len(Groups) : n \in Groups[i]

VARIABLES
    ping,       \* Run: "run", "nil" or "error"
    group,      \* the group at hand
    stream,     \* goroutine of a node: "none", "start", "range", "send" or "ended"
    toSend,     \* messages the goroutine of a node has still to send
    pinger,     \* goroutine of a ping: "none", "ping", "ok", "error" or "ended"
    answered,   \* pings whose answer Run has recorded
    stopped,    \* nodes whose StatefulSet has no replica
    wasStopped  \* nodes that have been stopped at some time

pingpong == <<ping, group, stream, toSend, pinger, answered, stopped, wasStopped>>
cluster == <<stopped, wasStopped>>

\* a message of nodeStream: the answer of a ping, or an error
Msg(ok, q) == [ok |-> ok, q |-> q]

Pings == UNION {{<<n, p>> : p \in PeersOf[n]} : n \in DOMAIN PeersOf}

PingpongInit ==
    /\ ping = "run" /\ group = 0
    /\ stream = [n \in DOMAIN PeersOf |-> "none"]
    /\ toSend = [n \in DOMAIN PeersOf |-> <<>>]
    /\ pinger = [q \in Pings |-> "none"] /\ answered = {}
    /\ stopped \in SUBSET DOMAIN PeersOf /\ wasStopped = stopped

GroupEnded == group > 0 => \A n \in Groups[group] : stream[n] \in {"none", "ended"}

\* nodeStream of the next group, or the end of the loop over the groups;
\* NodesClients leaves out the nodes that are stopped
NextGroup ==
    /\ ping = "run" /\ GroupEnded
    /\ IF group = Len(Groups)
       THEN ping' = "nil" /\ UNCHANGED <<group, stream>>
       ELSE /\ group' = group + 1
            /\ stream' = [n \in DOMAIN stream |->
                            IF n \in Groups[group + 1] \ stopped THEN "start" ELSE stream[n]]
            /\ UNCHANGED ping
    /\ UNCHANGED <<toSend, pinger, answered, cluster>>

\* NodesClients of the next group fails
ClientsFail ==
    /\ ping = "run" /\ GroupEnded /\ group < Len(Groups) /\ ping' = "error"
    /\ UNCHANGED <<group, stream, toSend, pinger, answered, cluster>>

\* Overlay and Peers; an error, or no peers, is the only message then
ReadPeers(n) ==
    /\ stream[n] = "start"
    /\ \/ /\ PeersOf[n] # {} /\ stream' = [stream EXCEPT ![n] = "range"]
          /\ pinger' = [q \in Pings |-> IF q[1] = n THEN "ping" ELSE pinger[q]]
          /\ UNCHANGED toSend
       \/ /\ stream' = [stream EXCEPT ![n] = "send"] /\ toSend' = [toSend EXCEPT ![n] = <<Msg(FALSE, <<n, n>>)>>]
          /\ UNCHANGED pinger
    /\ UNCHANGED <<ping, group, answered, cluster>>

Ping(q) ==
    /\ pinger[q] = "ping"
    /\ \E a \in {"ok", "error"} : pinger' = [pinger EXCEPT ![q] = a]
    /\ UNCHANGED <<ping, group, stream, toSend, answered, cluster>>

\* an error is followed by a message without a round trip time
Forward(q) ==
    /\ pinger[q] \in {"ok", "error"} /\ stream[q[1]] = "range"
    /\ pinger' = [pinger EXCEPT ![q] = "ended"]
    /\ stream' = [stream EXCEPT ![q[1]] = "send"]
    /\ toSend' = [toSend EXCEPT ![q[1]] = 
                    IF pinger[q] = "ok" THEN <<Msg(TRUE, q)>> ELSE <<Msg(FALSE, q), Msg(FALSE, q)>>]
    /\ UNCHANGED <<ping, group, answered, cluster>>

\* the stream of pings is closed when all of them have been forwarded
StreamEnds(n) ==
    /\ stream[n] = "range" /\ \A q \in Pings : q[1] = n => pinger[q] = "ended"
    /\ stream' = [stream EXCEPT ![n] = "ended"]
    /\ UNCHANGED <<ping, group, toSend, pinger, answered, cluster>>

\* After five rounds over the same message its error is returned.
LastTry_Never(t) == FALSE
LastTry(t) == t = 4

ReceivePing(n) ==
    /\ ping = "run" /\ stream[n] = "send"
    /\ LET msg == Head(toSend[n])
       IN  IF msg.ok
           THEN answered' = answered \cup {msg.q} /\ UNCHANGED ping
           ELSE /\ ping' = IF \E t \in 0..4 : LastTry(t) THEN "error" ELSE "run"
                /\ UNCHANGED answered
    /\ toSend' = [toSend EXCEPT ![n] = Tail(@)]
    /\ stream' = [stream EXCEPT ![n] =
                    IF Len(toSend[n]) > 1 THEN "send"
                    ELSE IF \E q \in Pings : q[1] = n /\ pinger[q] # "none" THEN "range" ELSE "ended"]
    /\ UNCHANGED <<group, pinger, cluster>>

PingpongStep ==
    \/ NextGroup \/ ClientsFail
    \/ \E n \in DOMAIN PeersOf : ReadPeers(n) \/ StreamEnds(n) \/ ReceivePing(n)
    \/ \E q \in Pings : Ping(q) \/ Forward(q)

\* A node stops, once, and starts again; what is asked of it meanwhile fails.
StopNode(n) ==
    /\ ping = "run" /\ n \notin wasStopped
    /\ stopped' = stopped \cup {n} /\ wasStopped' = wasStopped \cup {n}
    /\ UNCHANGED <<ping, group, stream, toSend, pinger, answered>>

StartNode(n) ==
    /\ ping = "run" /\ n \in stopped /\ stopped' = stopped \ {n}
    /\ UNCHANGED <<ping, group, stream, toSend, pinger, answered, wasStopped>>

PingpongNext == PingpongStep \/ \E n \in DOMAIN PeersOf : StopNode(n) \/ StartNode(n)

\* nil: every peer of a node that has been running all along has answered
AllAnswered == ping = "nil" => \A q \in Pings : q \in answered \/ q[1] \in wasStopped

============================================================================
