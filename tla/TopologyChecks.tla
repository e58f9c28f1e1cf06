--------------------------- MODULE TopologyChecks ---------------------------
(***************************************************************************)
(* The checks of topology: kademlia (two modes), fullconnectivity,         *)
(* peercount and autotls.  Every node is read in a request of its own, so  *)
(* what is judged is not a snapshot: links may come and go in between.     *)
(* autotls reads certificates twice and compares their serial numbers.     *)
(***************************************************************************)
EXTENDS AccountingChecks

CONSTANTS
    Boot,           \* the bootnodes
    LinkSets,       \* links between nodes to start with; 0 is a foreign node
    MaxFlips,       \* bound on links that change
    ForgeDNSAddress \* whether o.ForgeDNSAddress is given

ASSUME TopologyAssumption ==
    /\ Boot \subseteq Full /\ Pair \subseteq Nodes /\ MaxFlips \in Nat
    /\ ForgeDNSAddress \in BOOLEAN
    /\ \A links \in LinkSets : links \subseteq SUBSET (Nodes \cup {0})

VARIABLES
    links,      \* links[{n, m}]: n and m are connected, as a set of pairs
    depth,      \* depth[n]: n's neighborhood depth
    seen,       \* seen[n]: the peers the check has read from n
    flips,      \* links that changed so far
    cert,       \* cert[n]: none yet, its serial number, expired or not
    addr,       \* addr[n]: the WSS underlay that n announces
    snaps       \* serial numbers read before and after the renewal

topology == <<links, depth, seen, flips, cert, addr, snaps>>

rest == <<others, accounts>>

PeersOf(n) == {m \in Nodes \cup {0} : m # n /\ {n, m} \in links}

\* the proximity order of two overlays: 1 and 2 are neighbors
Proximity(n, m) == IF {n, m} = {1, 2} THEN 1 ELSE 0

-----------------------------------------------------------------------------
(* The scripts *)

Peers(nodes) == ForEach(nodes, LAMBDA n: <<Step("peers", n, 0)>>)

Kademlia == Peers(NodeNames) \o <<Step("kademlia", 1, 0)>>
KademliaDynamic == Peers(NodeNames) \o <<Step("dynamic", 1, 0)>>

FullConnectivity ==
    <<Step("read", 1, "overlays"), Step("read", 1, "overlays")>> \o
    Peers(FullNodeNames) \o <<Step("connected", 1, "full")>> \o
    <<Step("read", 1, "overlays"), Step("read", 1, "overlays")>> \o
    Peers(LightNodeNames) \o <<Step("connected", 1, "light")>>

PeerCount == <<Step("read", 1, "overlays")>> \o Peers(NodeNames)

-----------------------------------------------------------------------------
(* Forge addresses (forge.go).  The short form is a DNS name, made of the  *)
(* address, the peer and the domain; in the long form the address stands   *)
(* by itself and the name is its SNI.  Both end with the peer.             *)

Name(ip, peer, domain) == [ip |-> ip, peer |-> peer, domain |-> domain]
Short(ip, peer, domain) == [form |-> "short", host |-> Name(ip, peer, domain)]
Long(ip, peer, domain) == [form |-> "long", ip |-> ip, host |-> Name(ip, peer, domain)]
WithPeer(a, peer) == [at |-> a, peer |-> peer]

NoInfo == [ip |-> 0, peer |-> 0]

\* the name must end with the domain
ForgeInfoFromHostname(a) ==
    IF a.host.domain = "forge" THEN [ip |-> a.host.ip, peer |-> a.host.peer] ELSE NoInfo

\* of the long form the library takes the peer from the end
ExtractForgeInfo(u) ==
    IF u.at.form = "short" THEN ForgeInfoFromHostname(u.at)
    ELSE [ip |-> u.at.ip, peer |-> u.peer]

ParseForgeUnderlay(u) ==
    LET info == ExtractForgeInfo(u)
    IN  IF info.peer = u.peer THEN info ELSE NoInfo

VerifyForgeAddressFormat_NoRoundTrip(u) == ParseForgeUnderlay(u) # NoInfo

\* the address is rebuilt from its parts, in both forms, and compared
VerifyForgeAddressFormat(u) ==
    LET info == ParseForgeUnderlay(u)
    IN  /\ info # NoInfo
        /\ u.at \in {Short(info.ip, info.peer, "forge"), Long(info.ip, info.peer, "forge")}

\* what node n may announce: both forms, an address that is not its own, the
\* name of another peer, another domain, an address that is not that of its name
Underlays(n) ==
    {WithPeer(Short(n, n, "forge"), n), WithPeer(Long(n, n, "forge"), n),
     WithPeer(Short(3, n, "forge"), n),
     WithPeer(Short(n, 3, "forge"), n), WithPeer(Long(n, 3, "forge"), n),
     WithPeer(Short(n, n, "other"), n), WithPeer(Long(n, n, "other"), n),
     WithPeer([Long(n, n, "forge") EXCEPT !.host.ip = 3], n)}

GoodUnderlay(n) == WithPeer(Short(n, n, "forge"), n)

\* whoever connects to the underlay of n reaches n
AtHome(n) == ExtractForgeInfo(addr[n]).ip = n

-----------------------------------------------------------------------------
(* autotls *)

\* autotls.go: nodes 1 and 2 have WSS underlays, the light node has none
Wss == <<1, 2>>

\* testConnectivity: a failure to disconnect is only a warning
TestConnectivity(source) ==
    ForEach(SetToSeq(Range(Wss) \ {source}), LAMBDA n:
        <<Addresses(n), Ignored(Step("read", source, "disconnect")),
          Step("connect", source, n), Ignored(Step("read", source, "disconnect"))>>)

TestWSSConnectivity == TestConnectivity(3) \o TestConnectivity(1)
TestUltraLightConnectivity == ForEach(LightNodeNames, TestConnectivity)

VerifyWSSUnderlays == ForEach(Wss, LAMBDA n: <<Step("underlay", n, 0)>>)

\* The addresses, their names (an error only of the given DNS server), and
\* their certificates: one that is not trusted is an error, an expired one is
\* tried again, an endpoint that is not reachable is left out.
VerifyForge ==
    ForEach(Wss, LAMBDA n: <<Step("format", n, 0)>>) \o
    ForEach(Wss, LAMBDA n:
        <<[Step("resolve", n, 0) EXCEPT !.err = IF ForgeDNSAddress THEN Fail ELSE 1]>>) \o
    ForEach(Wss, LAMBDA n:
        <<Step("read", n, "certificate"),
          [Polled(Retries, Step("verify", n, 0)) EXCEPT !.err = 1]>>)

Snapshots(when) ==
    ForEach(Wss, LAMBDA n: <<Ignored(Step("snapshot", n, when))>>)

\* renewal.go: without a certificate before there is nothing to compare; when
\* none has changed the check waits once more
VerifyCertificateRenewal ==
    Snapshots("before") \o <<[Step("reachable", 1, 0) EXCEPT !.no = 7]>> \o
    Snapshots("after") \o <<[Step("renewed", 1, 0) EXCEPT !.ok = 4, !.no = 1]>> \o
    Snapshots("after") \o <<Step("renewed", 1, 0)>>

AutoTls ==
    VerifyWSSUnderlays \o <<Step("read", 1, "forge domain")>> \o VerifyForge \o
    TestWSSConnectivity \o TestUltraLightConnectivity \o
    VerifyCertificateRenewal \o TestWSSConnectivity

TopologyCheckNames ==
    {"kademlia", "dynamic", "fullconnectivity", "peercount", "autotls"}

TopologyScript(c) ==
    CASE c = "kademlia" -> Kademlia
      [] c = "dynamic" -> KademliaDynamic
      [] c = "fullconnectivity" -> FullConnectivity
      [] c = "peercount" -> PeerCount
      [] c = "autotls" -> AutoTls

-----------------------------------------------------------------------------
(* The judgements *)

InBin(n, b) == {m \in Full \ {n} : Proximity(n, m) = b}

\* checkKademlia: a bin below the depth has a connected peer (an empty one has
\* none), no peer known at or above it is disconnected
HealthyKademlia ==
    \A n \in Nodes :
        /\ depth[n] > 0
        /\ \A b \in {0, 1} :
              IF b < depth[n] THEN InBin(n, b) \cap seen[n] # {}
              ELSE InBin(n, b) \subseteq seen[n]

\* checkKademliaD, with nodesInDepth and verifyNodes
HealthyDynamic ==
    \A n \in Nodes :
        /\ depth[n] > 0
        /\ {m \in Nodes \ {n} : Proximity(n, m) >= depth[n]} \subseteq seen[n]

FullNodesConnected_CountsSelf ==
    \A n \in Full :
        /\ Cardinality(seen[n]) >=
              (IF n \in Boot THEN Cardinality(Nodes) ELSE Cardinality(Full))
        /\ seen[n] \subseteq Nodes

\* checkFullNodesConnectivity: enough peers, all of them of this cluster
FullNodesConnected ==
    \A n \in Full :
        /\ Cardinality(seen[n]) >=
              (IF n \in Boot THEN Cardinality(Nodes) ELSE Cardinality(Full)) - 1
        /\ seen[n] \subseteq Nodes

LightNodesConnected == \A n \in Light : seen[n] # {} /\ seen[n] \subseteq Nodes

-----------------------------------------------------------------------------
(* The cluster *)

ReadPeers ==
    LET n == Head(todo).n
    IN  /\ At("peers")
        /\ \/ Reply("ok") /\ seen' = [seen EXCEPT ![n] = PeersOf(n)]
           \/ Breaks("err") /\ UNCHANGED seen
        /\ UNCHANGED <<rest, links, depth, flips, cert, addr, snaps>>

Judge ==
    /\ \/ At("kademlia") /\ RightOrNot(HealthyKademlia)
       \/ At("dynamic") /\ RightOrNot(HealthyDynamic)
       \/ At("connected") /\ Head(todo).x = "full" /\ RightOrNot(FullNodesConnected)
       \/ At("connected") /\ Head(todo).x = "light" /\ RightOrNot(LightNodesConnected)
    /\ UNCHANGED <<rest, topology>>

Flip ==
    /\ check \in TopologyCheckNames \ {"autotls"} /\ flips < MaxFlips
    /\ \E n, m \in Full : n # m /\
          links' = (links \ {{n, m}}) \cup ({{n, m}} \ links)
    /\ flips' = flips + 1
    /\ UNCHANGED <<script, rest, depth, seen, cert, addr, snaps>>

\* polled until there is one or the context ends
Underlay ==
    /\ At("underlay")
    /\ (cert[Head(todo).n].serial > 0 /\ Reply("ok")) \/ Breaks("err")
    /\ UNCHANGED <<rest, topology>>

Format ==
    /\ At("format")
    /\ RightOrNot(VerifyForgeAddressFormat(addr[Head(todo).n]))
    /\ UNCHANGED <<rest, topology>>

\* a name that is not found is left out, one with another address is an error
VerifyDNSResolution ==
    /\ At("resolve")
    /\ Reply("ok") \/ Breaks("err") \/ Breaks("no")
    /\ UNCHANGED <<rest, topology>>

\* at another address no one may answer, unless o.ForgeTLSHostAddress is dialed
VerifyNodeTLSCert ==
    LET n == Head(todo).n
    IN  /\ At("verify")
        /\ \/ RightOrNot(~cert[n].expired)
           \/ ~AtHome(n) /\ Reply("err")
           \/ Breaks("err")
        /\ UNCHANGED <<rest, topology>>

\* Connect returns the overlay of the peer that answered; a connection that
\* could not be ended before answers as well
ConnectPeer ==
    /\ At("connect")
    /\ \/ (AtHome(Head(todo).x) \/ errors > 0) /\ Reply("ok")
       \/ ~AtHome(Head(todo).x) /\ Reply("err")
       \/ Breaks("err") \/ Breaks("no")
    /\ UNCHANGED <<rest, topology>>

\* the second snapshot replaces the first one of the same time
Snapshot ==
    LET s == Head(todo)
        others2 == {p \in snaps[s.x] : p[1] # s.n}
    IN  /\ At("snapshot")
        /\ \/ Reply("ok")
              /\ snaps' = [snaps EXCEPT ![s.x] = others2 \cup {<<s.n, cert[s.n].serial>>}]
           \/ ((~AtHome(s.n) /\ Reply("err")) \/ Breaks("err"))
              /\ snaps' = [snaps EXCEPT ![s.x] = others2]
        /\ UNCHANGED <<rest, links, depth, seen, flips, cert, addr>>

\* compareCertRenewals: some serial number of an endpoint that was read both
\* times has changed
Renewed == \E p \in snaps.before : \E q \in snaps.after : p[1] = q[1] /\ p[2] # q[2]

\* none reachable after the expiry is an error at once
Compare ==
    /\ \/ At("reachable") /\ RightOrNot(snaps.before # {})
       \/ At("renewed") /\ Reply(CASE Renewed -> "ok"
                                    [] snaps.before \cap snaps.after # {} -> "no"
                                    [] OTHER -> "err")
    /\ UNCHANGED <<rest, topology>>

\* certmagic: a first certificate, and a new one when it expires
Issue(n) ==
    /\ check = "autotls" /\ n \in Range(Wss)
    /\ cert[n].serial = 0 \/ cert[n].expired
    /\ cert' = [cert EXCEPT ![n] = [serial |-> @.serial + 1, expired |-> FALSE]]
    /\ UNCHANGED <<script, rest, links, depth, seen, flips, addr, snaps>>

Expire(n) ==
    /\ check = "autotls" /\ n \in Range(Wss)
    /\ cert[n].serial = 1 /\ ~cert[n].expired
    /\ cert' = [cert EXCEPT ![n].expired = TRUE]
    /\ UNCHANGED <<script, rest, links, depth, seen, flips, addr, snaps>>

TopologyInit ==
    /\ links \in IF check \in TopologyCheckNames \ {"autotls"} THEN LinkSets ELSE {{}}
    /\ depth \in {[n \in Nodes |-> d] :
                    d \in IF check \in {"kademlia", "dynamic"} THEN {0, 1} ELSE {1}}
    /\ seen = [n \in Nodes |-> {}] /\ flips = 0
    /\ cert = [n \in Nodes |-> [serial |-> 0, expired |-> FALSE]]
    /\ addr \in {[n \in Nodes |-> IF n = 1 THEN u ELSE GoodUnderlay(n)] :
                    u \in IF check = "autotls" THEN Underlays(1) ELSE {GoodUnderlay(1)}}
    /\ snaps = [before |-> {}, after |-> {}]

TopologyStep ==
    \/ ReadPeers \/ Judge \/ Underlay \/ Format \/ VerifyDNSResolution
    \/ VerifyNodeTLSCert \/ ConnectPeer \/ Snapshot \/ Compare

TopologySettled ==
    /\ check \in TopologyCheckNames \ {"autotls"} =>
          /\ flips = 0 /\ depth[1] > 0
          /\ \A n, m \in Nodes : n # m => {n, m} \in links
          /\ \A n \in Nodes : {n, 0} \notin links
    /\ check = "autotls" =>
          /\ \A n \in Range(Wss) : cert[n].serial > 0 /\ ~cert[n].expired
          /\ \A n \in Range(Wss) : addr[n].at.host = Name(n, n, "forge")
          /\ \E p \in snaps.before : p[2] # cert[p[1]].serial
          /\ \A p \in snaps.after : p[2] = cert[p[1]].serial

============================================================================
