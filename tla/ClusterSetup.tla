----------------------------- MODULE ClusterSetup -----------------------------
(***************************************************************************)
(* Starting (or attaching to) a Bee cluster: command.setupCluster with its *)
(* two passes setupBootnodes and setupNodes (cmd/beekeeper/cmd/cluster.go).*)
(* The main goroutine walks the node groups of the cluster configuration,  *)
(* starts one goroutine per node (setupOrAddNode), and then receives one   *)
(* result per goroutine from an unbuffered channel.  Bootnodes are set up  *)
(* and funded first, every other node group after them.                    *)
(*                                                                         *)
(* The steps of NodeGroup.DeployNode are kept apart because the goroutines *)
(* interleave there; what one of them does inside Kubernetes is the        *)
(* subject of module NodeOrchestrator.                                     *)
(***************************************************************************)
EXTENDS Naturals, FiniteSets

CONSTANTS
  BootGroups,   \* node groups with mode "bootnode"
  OtherGroups,  \* the remaining node groups
  Nodes,        \* names of all configured nodes
  Group,        \* the node group of a node
  Own,          \* ClusterNode.Bootnodes of a bootnode, namespace filled in
  Preset,       \* Bootnodes of a group's bee profile (Empty when not set)
  Empty,        \* the empty string
  Addressless,  \* nodes whose API answers with an empty Ethereum address
  NoGroup,      \* no node group is being walked
  NotCreated,   \* the node has no ConfigMap yet
  Torn          \* a string read while it is being overwritten

Groups == BootGroups \cup OtherGroups
Values == {Own[n] : n \in Nodes} \cup {Preset[g] : g \in Groups} \cup {Empty, Torn}

ASSUME ConfigAssumption ==
  /\ BootGroups \cap OtherGroups = {}
  /\ NoGroup \notin Groups
  /\ IsFiniteSet(Nodes)
  /\ Group \in [Nodes -> Groups]
  /\ DOMAIN Own = Nodes
  /\ Addressless \subseteq Nodes
  /\ DOMAIN Preset = Groups

Boot  == {n \in Nodes : Group[n] \in BootGroups}
Other == {n \in Nodes : Group[n] \in OtherGroups}

VARIABLES
  mode,          \* "deploy": startCluster; "add": attach; "static": endpoints
  phase,         \* where the main goroutine is
  todo,          \* node groups the current pass has not visited yet
  cur,           \* the node group being walked, or NoGroup
  left,          \* nodes of cur that have no goroutine yet
  nodeCount,     \* goroutines started in the current pass
  received,      \* results received in the current pass
  bConfig,       \* bConfig.Bootnodes of each group, shared by pointer
  bootnodesOut,  \* second result of setupBootnodes
  gpc,           \* program counter of the goroutine of a node
  res,           \* error part of the result of that goroutine
  registered,    \* nodes present in NodeGroup.nodes
  created,       \* Bootnodes written to the node's ConfigMap, or NotCreated
  ready,         \* nodes startNode has seen ready
  fundAddresses, \* nodes whose address the current pass has collected
  funded         \* nodes passed to a successful funder.Fund

mainVars == <<todo, cur, left, nodeCount, received, bConfig, bootnodesOut>>
nodeVars == <<registered, created, ready>>
fundVars == <<fundAddresses, funded>>
vars == <<mode, phase, mainVars, gpc, res, nodeVars, fundVars>>

LoopPhases == {"bootLoop", "nodeLoop"}
WaitPhases == {"bootWait", "nodeWait"}
FundPhases == {"bootFund", "nodeFund"}
Stopped    == {"done", "exited", "panic"}
Phases     == LoopPhases \cup WaitPhases \cup FundPhases \cup Stopped \cup {"failed"}

\* The nodes of the pass the main goroutine is in, and their goroutines.
Pass    == IF phase \in {"bootLoop", "bootWait"} THEN Boot ELSE Other
Started == {n \in Pass : gpc[n] # "idle"}
Sent    == {n \in Pass : gpc[n] = "sent"}

-----------------------------------------------------------------------------
(* setupCluster up to the first pass.  startCluster with static endpoints   *)
(* is refused before anything is done, so the three modes below remain.     *)
Init ==
  /\ mode \in {"deploy", "add", "static"}
  /\ phase = "bootLoop"
  /\ todo = BootGroups
  /\ cur = NoGroup
  /\ left = {}
  /\ nodeCount = 0
  /\ received = 0
  /\ bConfig = [g \in Groups |-> Empty]
  /\ bootnodesOut = Empty
  /\ gpc = [n \in Nodes |-> "idle"]
  /\ res = [n \in Nodes |-> "none"]
  /\ registered = {}
  /\ created = [n \in Nodes |-> NotCreated]
  /\ ready = {}
  /\ fundAddresses = {}
  /\ funded = {}

(* The main goroutine returns an error: the deferred close(nodeResultChan)  *)
(* runs and setupCluster hands the error to the command.                    *)
Fail ==
  /\ phase' = "failed"
  /\ UNCHANGED <<mode, mainVars, res, nodeVars, fundVars>>

(* A node group names a profile that is not defined.  Goroutines of groups  *)
(* visited before may be running.                                           *)
ProfileMissing(g) ==
  /\ phase \in LoopPhases
  /\ cur = NoGroup
  /\ g \in todo
  /\ Fail
  /\ UNCHANGED gpc

\* Mutant: the profile is used as it is in the second pass too.
GroupBootnodes_AsExported(g) == Preset[g]

\* bConfig.Bootnodes as exported from the bee profile; setupNodes fills in the
\* bootnodes of the first pass where the profile has none.
GroupBootnodes(g) ==
  IF phase = "nodeLoop" /\ Preset[g] = Empty THEN bootnodesOut ELSE Preset[g]

\* Start walking group g (Go map order: any group).
EnterGroup(g) ==
  /\ phase \in LoopPhases
  /\ cur = NoGroup
  /\ g \in todo
  /\ todo' = todo \ {g}
  /\ cur' = g
  /\ left' = {n \in Nodes : Group[n] = g}
  /\ bConfig' = [bConfig EXCEPT ![g] = GroupBootnodes(g)]
  /\ UNCHANGED <<mode, phase, nodeCount, received, bootnodesOut, gpc, res, nodeVars, fundVars>>

\* Mutant: a listed node is counted once for the list and once for the count.
CountNode_Twice == nodeCount' = nodeCount + 2

CountNode == nodeCount' = nodeCount + 1

(* One iteration of the node loop: set the shared bConfig.Bootnodes (first  *)
(* pass, not with static endpoints), count the node, start its goroutine.   *)
Spawn(n) ==
  /\ phase \in LoopPhases
  /\ n \in left
  /\ left' = left \ {n}
  /\ CountNode
  /\ gpc' = [gpc EXCEPT ![n] = "add"]
  /\ IF phase = "bootLoop" /\ mode # "static"
       THEN /\ bConfig' = [bConfig EXCEPT ![cur] = Own[n]]
            /\ bootnodesOut' = Own[n]
       ELSE UNCHANGED <<bConfig, bootnodesOut>>
  /\ UNCHANGED <<mode, phase, todo, cur, received, res, nodeVars, fundVars>>

LeaveGroup ==
  /\ phase \in LoopPhases
  /\ cur # NoGroup
  /\ left = {}
  /\ cur' = NoGroup
  /\ UNCHANGED <<mode, phase, todo, left, nodeCount, received, bConfig, bootnodesOut,
                 gpc, res, nodeVars, fundVars>>

EndLoop ==
  /\ phase \in LoopPhases
  /\ todo = {}
  /\ cur = NoGroup
  /\ phase' = IF phase = "bootLoop" THEN "bootWait" ELSE "nodeWait"
  /\ UNCHANGED <<mode, mainVars, gpc, res, nodeVars, fundVars>>

\* Mutant: the error of a result is not looked at.
ErrResult_Ignored(n) == FALSE

ErrResult(n) == res[n] = "err"

(* <-nodeResultChan meets ch <- nodeResult.  An error makes the function    *)
(* return at once; an address (deploy mode only) that is not empty is kept  *)
(* for funding.                                                             *)
Receive(n) ==
  /\ phase \in WaitPhases
  /\ received < nodeCount
  /\ n \in Pass
  /\ gpc[n] = "send"
  /\ gpc' = [gpc EXCEPT ![n] = "sent"]
  /\ \/ /\ ErrResult(n)
        /\ Fail
     \/ /\ ~ErrResult(n)
        /\ received' = received + 1
        /\ fundAddresses' = IF mode = "deploy" THEN fundAddresses \cup ({n} \ Addressless)
                            ELSE fundAddresses
        /\ UNCHANGED <<mode, phase, todo, cur, left, nodeCount, bConfig, bootnodesOut,
                       res, nodeVars, funded>>

\* Mutant: the loop over the results ends one result early.
AllReceived_OffByOne == received + 1 >= nodeCount

\* for range nodeCount { <-nodeResultChan } is over.
AllReceived == received = nodeCount

(* All results are in: the channel is closed and setupCluster goes on, with *)
(* funding where it applies (fund is skipped for an empty bootnode list but *)
(* called for an empty list of other nodes).                                *)
StartSecondPass ==
  /\ phase' = "nodeLoop"
  /\ todo' = OtherGroups
  /\ nodeCount' = 0
  /\ received' = 0
  /\ fundAddresses' = {}

EndWait ==
  /\ phase \in WaitPhases
  /\ AllReceived
  /\ \/ /\ phase = "bootWait"
        /\ mode = "deploy" /\ fundAddresses # {}
        /\ phase' = "bootFund"
        /\ UNCHANGED <<todo, nodeCount, received, fundAddresses>>
     \/ /\ phase = "bootWait"
        /\ ~(mode = "deploy" /\ fundAddresses # {})
        /\ StartSecondPass
     \/ /\ phase = "nodeWait"
        /\ phase' = IF mode = "deploy" THEN "nodeFund" ELSE "done"
        /\ UNCHANGED <<todo, nodeCount, received, fundAddresses>>
  /\ UNCHANGED <<mode, cur, left, bConfig, bootnodesOut, gpc, res, nodeVars, funded>>

(* fund: one call of funder.Fund with the collected addresses.              *)
Fund ==
  /\ phase \in FundPhases
  /\ \/ /\ Fail
        /\ UNCHANGED gpc
     \/ /\ funded' = funded \cup fundAddresses
        /\ IF phase = "bootFund"
             THEN StartSecondPass
             ELSE /\ phase' = "done"
                  /\ UNCHANGED <<todo, nodeCount, received, fundAddresses>>
        /\ UNCHANGED <<mode, cur, left, bConfig, bootnodesOut, gpc, res, nodeVars>>

-----------------------------------------------------------------------------
(* The goroutine of a node: setupOrAddNode.                                 *)
Running == phase \notin Stopped

\* A step of DeployNode or AddNode returns an error; the result is to be sent.
StepFails(n) ==
  /\ Running
  /\ gpc[n] \in {"add", "key", "create", "start", "address"}
  /\ gpc' = [gpc EXCEPT ![n] = "send"]
  /\ res' = [res EXCEPT ![n] = "err"]
  /\ UNCHANGED <<mode, phase, mainVars, nodeVars, fundVars>>

\* NodeGroup.AddNode registers the node with a pointer to the shared config.
AddNode(n) ==
  /\ Running
  /\ gpc[n] = "add"
  /\ registered' = registered \cup {n}
  /\ IF mode = "deploy"
       THEN gpc' = [gpc EXCEPT ![n] = "key"] /\ UNCHANGED res
       ELSE /\ gpc' = [gpc EXCEPT ![n] = "send"]
            /\ res' = [res EXCEPT ![n] = "ok"]
  /\ UNCHANGED <<mode, phase, mainVars, created, ready, fundVars>>

\* pregenerateSwarmKey: the node is looked up and stored again with its key.
PregenerateSwarmKey(n) ==
  /\ Running
  /\ gpc[n] = "key"
  /\ n \in registered
  /\ gpc' = [gpc EXCEPT ![n] = "create"]
  /\ UNCHANGED <<mode, phase, mainVars, res, nodeVars, fundVars>>

\* createNode copies *n.Config() and creates the Kubernetes resources.  While
\* the main goroutine may still write the config of the group, the copied
\* string may be torn.
CreateNode(n) ==
  /\ Running
  /\ gpc[n] = "create"
  /\ \E v \in {bConfig[Group[n]]} \cup
              (IF cur = Group[n] /\ left # {} /\ phase = "bootLoop" THEN {Torn} ELSE {}) :
       created' = [created EXCEPT ![n] = v]
  /\ gpc' = [gpc EXCEPT ![n] = "start"]
  /\ UNCHANGED <<mode, phase, mainVars, res, registered, ready, fundVars>>

\* Mutant: startNode returns without having seen the node ready.
StartNode_NoWait(n) ==
  /\ Running
  /\ gpc[n] = "start"
  /\ gpc' = [gpc EXCEPT ![n] = "address"]
  /\ UNCHANGED <<mode, phase, mainVars, res, nodeVars, fundVars>>

\* startNode scales the StatefulSet to one and returns once it is ready.
StartNode(n) ==
  /\ Running
  /\ gpc[n] = "start"
  /\ ready' = ready \cup {n}
  /\ gpc' = [gpc EXCEPT ![n] = "address"]
  /\ UNCHANGED <<mode, phase, mainVars, res, registered, created, fundVars>>

\* getEthAddress: from the options' key or from the node's API.
GetEthAddress(n) ==
  /\ Running
  /\ gpc[n] = "address"
  /\ gpc' = [gpc EXCEPT ![n] = "send"]
  /\ res' = [res EXCEPT ![n] = "ok"]
  /\ UNCHANGED <<mode, phase, mainVars, nodeVars, fundVars>>

\* A result sent after the main goroutine has returned meets a closed channel:
\* the Go runtime panics and the process dies.
SendOnClosed(n) ==
  /\ phase = "failed"
  /\ gpc[n] = "send"
  /\ phase' = "panic"
  /\ UNCHANGED <<mode, mainVars, gpc, res, nodeVars, fundVars>>

\* The command reports the error and the process exits, whatever still runs.
Exit ==
  /\ phase = "failed"
  /\ phase' = "exited"
  /\ UNCHANGED <<mode, mainVars, gpc, res, nodeVars, fundVars>>

\* The process is gone, or setupCluster has returned.
Terminated ==
  /\ phase \in Stopped
  /\ UNCHANGED vars

Main ==
  \/ \E g \in Groups : ProfileMissing(g) \/ EnterGroup(g)
  \/ \E n \in Nodes : Spawn(n) \/ Receive(n)
  \/ LeaveGroup \/ EndLoop \/ EndWait \/ Fund \/ Exit

Goroutine(n) ==
  \/ StepFails(n) \/ AddNode(n) \/ PregenerateSwarmKey(n) \/ CreateNode(n)
  \/ StartNode(n) \/ GetEthAddress(n) \/ SendOnClosed(n)

Next == Main \/ (\E n \in Nodes : Goroutine(n)) \/ Terminated

(* The Go scheduler runs every runnable goroutine; the calls of a goroutine *)
(* return, with an error at the latest when the command's context ends.     *)
Fairness == WF_vars(Main) /\ \A n \in Nodes : WF_vars(Goroutine(n))

Spec == Init /\ [][Next]_vars
FairSpec == Spec /\ Fairness

-----------------------------------------------------------------------------
GoroutineStates == {"idle", "add", "key", "create", "start", "address", "send", "sent"}

\* Types of the variables.
TypeOK ==
  /\ mode \in {"deploy", "add", "static"}
  /\ phase \in Phases
  /\ todo \subseteq Groups
  /\ cur \in Groups \cup {NoGroup}
  /\ left \subseteq Nodes
  /\ nodeCount \in 0..Cardinality(Nodes)
  /\ received \in 0..nodeCount
  /\ bConfig \in [Groups -> Values]
  /\ bootnodesOut \in Values
  /\ gpc \in [Nodes -> GoroutineStates]
  /\ res \in [Nodes -> {"none", "ok", "err"}]
  /\ registered \subseteq Nodes
  /\ created \in [Nodes -> Values \cup {NotCreated}]
  /\ ready \subseteq Nodes
  /\ fundAddresses \subseteq Nodes
  /\ funded \subseteq Nodes

\* No goroutine of the second pass starts before every bootnode of the first
\* has been set up, and, when the cluster is started, is ready and, if it has
\* an address, funded.
BootnodesFirst ==
  \A n \in Other : gpc[n] # "idle" =>
    \A b \in Boot : /\ gpc[b] = "sent" /\ res[b] = "ok"
                    /\ mode = "deploy" => b \in ready \cap (funded \cup Addressless)

\* setupCluster succeeds only with every configured node registered and, when
\* the cluster is started, ready and, if it has an address, funded: no result
\* is lost or taken twice.
SuccessIsComplete ==
  phase = "done" => /\ registered = Nodes
                    /\ mode = "deploy" => ready = Nodes /\ funded = Nodes \ Addressless

\* Only nodes that were seen ready are funded, even when the set up fails
\* half way: no address is collected from a goroutine that gave up.
OnlyReadyFunded == funded \cup fundAddresses \subseteq ready

\* All nodes outside the bootnode groups whose profile sets no bootnodes are
\* created with one and the same configured bootnode address.
OthersShareBootnode ==
  Boot # {} => \E b \in Boot : \A n \in Other :
    created[n] # NotCreated /\ Preset[Group[n]] = Empty => created[n] = Own[b]

\* A node is up when its result has been received and carries no error.
Up == {n \in Nodes : gpc[n] = "sent" /\ res[n] = "ok"}
Outcome == CASE phase = "done" -> "ok"
             [] phase \in {"failed", "exited", "panic"} -> "failed"
             [] OTHER -> "open"

Start == INSTANCE OrderedStart WITH First <- Boot, Second <- Other,
                                    up <- Up, outcome <- Outcome

\* The two passes with all their goroutines implement the ordered start: every
\* step is a node coming up in order, the outcome, or invisible.
StartsInOrder == Start!Spec

\* setupCluster ends: the main goroutine never waits for a result nobody sends.
SetupEnds == <>(phase \in Stopped)

=============================================================================
