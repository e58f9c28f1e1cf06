-------------------------- MODULE ClusterSetupProofs --------------------------
(***************************************************************************)
(* Safety of ClusterSetup for every cluster configuration: any number of   *)
(* node groups and nodes, any profiles.                                    *)
(*                                                                         *)
(* What setupCluster promises at its end depends on a count: the main      *)
(* goroutine receives exactly as many results as it has counted, so the    *)
(* argument is that nodeCount and received are the cardinalities of two    *)
(* sets of goroutines, one inside the other.                               *)
(***************************************************************************)
EXTENDS ClusterSetup, FiniteSetTheorems, TLAPS

FirstPass  == {"bootLoop", "bootWait"}
SecondPass == {"nodeLoop", "nodeWait"}
Broken     == {"failed", "exited", "panic"}

PassGroups == IF phase \in FirstPass THEN BootGroups ELSE OtherGroups

\* The variables have their types (counters only as naturals: that they stay
\* below the number of nodes follows from Counting).
Types ==
  /\ mode \in {"deploy", "add", "static"}
  /\ phase \in Phases
  /\ todo \subseteq Groups
  /\ cur \in Groups \cup {NoGroup}
  /\ left \subseteq Nodes
  /\ nodeCount \in Nat
  /\ received \in Nat
  /\ bConfig \in [Groups -> Values]
  /\ bootnodesOut \in Values
  /\ gpc \in [Nodes -> GoroutineStates]
  /\ res \in [Nodes -> {"none", "ok", "err"}]
  /\ registered \subseteq Nodes
  /\ created \in [Nodes -> Values \cup {NotCreated}]
  /\ ready \subseteq Nodes
  /\ fundAddresses \subseteq Nodes
  /\ funded \subseteq Nodes

\* A goroutine and its node.
Local ==
  \A n \in Nodes :
    /\ gpc[n] \notin {"send", "sent"} => res[n] = "none"
    /\ gpc[n] \in {"send", "sent"} => res[n] \in {"ok", "err"}
    /\ gpc[n] = "address" => n \in ready
    /\ gpc[n] \in {"key", "create", "start", "address"} => n \in registered
    /\ res[n] = "ok" => n \in registered
    /\ res[n] = "ok" /\ mode = "deploy" => n \in ready

\* The walk over the groups: idle goroutines are the ones still to be started.
Walk ==
  /\ phase \in LoopPhases =>
       /\ todo \subseteq PassGroups
       /\ cur # NoGroup => cur \in PassGroups \ todo
       /\ left \subseteq {n \in Nodes : Group[n] = cur}
       /\ \A n \in Pass : gpc[n] = "idle" <=> (n \in left \/ Group[n] \in todo)
  /\ phase \in WaitPhases => \A n \in Pass : gpc[n] # "idle"
  /\ phase \in FirstPass \cup {"bootFund"} => \A n \in Other : gpc[n] = "idle"
  /\ phase \notin LoopPhases \cup Broken => cur = NoGroup /\ left = {}

\* The counters of a pass count goroutines.
Counting ==
  /\ phase \in LoopPhases \cup WaitPhases =>
       /\ nodeCount = Cardinality(Started)
       /\ received = Cardinality(Sent)
  /\ received <= nodeCount
  /\ nodeCount <= Cardinality(Nodes)

\* What the passes have achieved.
Progress ==
  /\ phase \notin Broken => \A n \in Nodes : gpc[n] = "sent" => res[n] = "ok"
  /\ phase \in LoopPhases \cup WaitPhases =>
       fundAddresses = IF mode = "deploy" THEN Sent \ Addressless ELSE {}
  /\ phase \in SecondPass \cup {"bootFund", "nodeFund", "done"} =>
       \A b \in Boot : gpc[b] = "sent"
  /\ phase = "bootFund" => mode = "deploy" /\ fundAddresses = Boot \ Addressless
  /\ phase \in SecondPass \cup {"nodeFund", "done"} /\ mode = "deploy" => Boot \ Addressless \subseteq funded
  /\ phase \in {"nodeFund", "done"} => \A n \in Nodes : gpc[n] = "sent"
  /\ phase = "nodeFund" => mode = "deploy" /\ fundAddresses = Other \ Addressless
  /\ funded \cup fundAddresses \subseteq Nodes \ Addressless
  /\ phase = "done" /\ mode = "deploy" => funded = Nodes \ Addressless

\* The inductive invariant.
Inv == Types /\ Local /\ Walk /\ Counting /\ Progress /\ BootnodesFirst /\ OnlyReadyFunded

-----------------------------------------------------------------------------
\* Sets of goroutines are finite, and the sent ones are among the started.
LEMMA FiniteGoroutines ==
  ASSUME Types
  PROVE  /\ Cardinality(Nodes) \in Nat
         /\ IsFiniteSet(Started) /\ Cardinality(Started) \in Nat
         /\ IsFiniteSet(Sent) /\ Cardinality(Sent) \in Nat
         /\ Cardinality(Started) <= Cardinality(Nodes)
         /\ Sent \subseteq Started /\ Started \subseteq Nodes
         /\ Cardinality(Sent) <= Cardinality(Started)
         /\ Cardinality(Sent) = Cardinality(Started) => Sent = Started
<1>1. Sent \subseteq Started /\ Started \subseteq Nodes
  BY ConfigAssumption DEF Sent, Started, Pass, Boot, Other
<1>2. IsFiniteSet(Started) /\ Cardinality(Started) <= Cardinality(Nodes)
  BY <1>1, FS_Subset, ConfigAssumption
<1>3. QED
  BY <1>1, <1>2, FS_Subset, FS_CardinalityType, ConfigAssumption

\* setupCluster starts in a state that satisfies the invariant.
LEMMA InitInv == Init => Inv
<1> SUFFICES ASSUME Init PROVE Inv
  OBVIOUS
<1>1. Types /\ Local
  BY ConfigAssumption DEF Init, Types, Local, Phases, LoopPhases, WaitPhases, FundPhases,
     Stopped, Groups, Values, GoroutineStates
<1>2. Walk
  BY ConfigAssumption DEF Init, Walk, LoopPhases, WaitPhases, FirstPass, PassGroups, Pass,
     Boot, Other, Broken, Groups
<1>3. Started = {} /\ Sent = {}
  BY DEF Init, Started, Sent, Pass, Boot, Other
<1>4. Counting
  BY <1>1, <1>3, FS_EmptySet, FiniteGoroutines DEF Init, Counting
<1>5. Progress /\ BootnodesFirst /\ OnlyReadyFunded
  BY <1>3 DEF Init, Progress, BootnodesFirst, OnlyReadyFunded, Broken, LoopPhases, WaitPhases,
     SecondPass, Boot, Other
<1>6. QED
  BY <1>1, <1>2, <1>4, <1>5 DEF Inv

\* A step of a goroutine between its start and its send leaves the sets that
\* the main goroutine counts alone.
LEMMA GoroutineInv ==
  ASSUME Inv, NEW n \in Nodes,
         \/ StepFails(n) \/ AddNode(n) \/ PregenerateSwarmKey(n)
         \/ CreateNode(n) \/ StartNode(n) \/ GetEthAddress(n)
  PROVE  Inv'
<1> USE DEF Inv
<1> DEFINE Moving == {"add", "key", "create", "start", "address"}
<1>1. /\ gpc[n] \in Moving
      /\ \E s \in GoroutineStates : s \notin {"idle", "sent"} /\ gpc' = [gpc EXCEPT ![n] = s]
      /\ UNCHANGED <<mode, phase, mainVars, fundVars>>
  BY DEF StepFails, AddNode, PregenerateSwarmKey, CreateNode, StartNode, GetEthAddress,
     GoroutineStates
<1>2. UNCHANGED <<mode, phase, todo, cur, left, nodeCount, received, bConfig, bootnodesOut,
                  fundAddresses, funded>>
  BY <1>1 DEF mainVars, fundVars
<1>3. Types'
  <2>1. bConfig[Group[n]] \in Values /\ Torn \in Values
    BY ConfigAssumption DEF Types, Values
  <2>2. QED
    BY <1>1, <1>2, <2>1 DEF Types, StepFails, AddNode, PregenerateSwarmKey, CreateNode, StartNode,
       GetEthAddress, nodeVars, GoroutineStates
<1>4. Local'
  BY <1>2 DEF Types, Local, StepFails, AddNode, PregenerateSwarmKey, CreateNode, StartNode,
     GetEthAddress, nodeVars
<1>5. \A m \in Nodes : /\ gpc'[m] = "idle" <=> gpc[m] = "idle"
                       /\ gpc'[m] = "sent" <=> gpc[m] = "sent"
                       /\ gpc[m] = "sent" => res'[m] = res[m]
  BY <1>1 DEF Types, StepFails, AddNode, PregenerateSwarmKey, CreateNode, StartNode,
     GetEthAddress
<1>6. ready \subseteq ready'
  BY DEF StepFails, AddNode, PregenerateSwarmKey, CreateNode, StartNode, GetEthAddress, nodeVars
<1>7. Started' = Started /\ Sent' = Sent /\ Pass' = Pass /\ PassGroups' = PassGroups
  BY <1>2, <1>5 DEF Started, Sent, Pass, PassGroups, Boot, Other
<1>8. Walk'
  BY <1>2, <1>5, <1>7 DEF Walk, Pass, Boot, Other
<1>9. Counting'
  BY <1>2, <1>7 DEF Counting
<1>10. Progress'
  BY <1>2, <1>5, <1>7 DEF Progress, Boot, Other
<1>11. BootnodesFirst' /\ OnlyReadyFunded'
  BY <1>2, <1>5, <1>6 DEF BootnodesFirst, OnlyReadyFunded, Boot, Other
<1>12. QED
  BY <1>3, <1>4, <1>8, <1>9, <1>10, <1>11

\* Returning an error keeps everything the goroutines and the funding achieved.
LEMMA FailInv ==
  ASSUME Inv, Fail, \/ UNCHANGED gpc
                    \/ \E n \in Nodes : gpc[n] = "send" /\ gpc' = [gpc EXCEPT ![n] = "sent"]
  PROVE  Inv'
<1> USE DEF Inv
<1>1. phase' = "failed"
      /\ UNCHANGED <<mode, todo, cur, left, nodeCount, received, bConfig, bootnodesOut, res,
                     registered, created, ready, fundAddresses, funded>>
  BY DEF Fail, mainVars, nodeVars, fundVars
<1>2. Types' /\ Local'
  BY <1>1 DEF Types, Local, Phases, GoroutineStates
<1>3. Walk' /\ Counting' /\ Progress'
  BY <1>1 DEF Walk, Counting, Progress, LoopPhases, WaitPhases, FirstPass, SecondPass, Broken
<1>4. BootnodesFirst' /\ OnlyReadyFunded'
  BY <1>1 DEF BootnodesFirst, OnlyReadyFunded, Types, Boot, Other
<1>5. QED
  BY <1>2, <1>3, <1>4

\* Entering a group moves its nodes from the unvisited to the pending ones.
LEMMA EnterGroupInv == ASSUME Inv, NEW g \in Groups, EnterGroup(g) PROVE Inv'
<1> USE DEF Inv
<1>1. UNCHANGED <<mode, phase, nodeCount, received, bootnodesOut, gpc, res,
                  registered, created, ready, fundAddresses, funded>>
  BY DEF EnterGroup, nodeVars, fundVars
<1>2. Types'
  <2>1. GroupBootnodes(g) \in Values
    BY ConfigAssumption DEF GroupBootnodes, Values, Types
  <2>2. QED
    BY <1>1, <2>1 DEF Types, EnterGroup
<1>3. Local' /\ Counting' /\ Progress' /\ BootnodesFirst' /\ OnlyReadyFunded'
  BY <1>1 DEF Local, Counting, Progress, BootnodesFirst, OnlyReadyFunded, Started, Sent, Pass,
     Boot, Other
<1>4. Walk'
  <2>1. left = {}
    BY ConfigAssumption DEF Walk, EnterGroup, Types
  <2>2. QED
    BY <1>1, <2>1, ConfigAssumption DEF Walk, EnterGroup, Types, Pass, PassGroups, Boot, Other,
       LoopPhases, WaitPhases, FirstPass, Broken, Groups
<1>5. QED
  BY <1>2, <1>3, <1>4

\* Starting a goroutine adds it to the started ones and counts it.
LEMMA SpawnInv == ASSUME Inv, NEW n \in Nodes, Spawn(n) PROVE Inv'
<1> USE DEF Inv
<1>1. UNCHANGED <<mode, phase, todo, cur, received, res,
                  registered, created, ready, fundAddresses, funded>>
      /\ phase \in LoopPhases /\ n \in left
  BY DEF Spawn, nodeVars, fundVars
<1>2. Types'
  <2>1. Own[n] \in Values
    BY DEF Values
  <2>2. cur \in Groups \cup {NoGroup} /\ nodeCount + 1 \in Nat
    BY DEF Types
  <2>3. QED
    BY <1>1, <2>1, <2>2 DEF Types, Spawn, CountNode, GoroutineStates
<1>3. Group[n] = cur /\ cur \in PassGroups \ todo
  BY <1>1, ConfigAssumption DEF Walk, Types
<1>4. n \in Pass /\ gpc[n] = "idle"
  BY <1>1, <1>3 DEF Walk, Pass, PassGroups, Boot, Other, LoopPhases, FirstPass
<1>5. gpc' = [gpc EXCEPT ![n] = "add"] /\ Pass' = Pass /\ PassGroups' = PassGroups
  BY <1>1 DEF Spawn, Pass, PassGroups
<1>6. Local'
  BY <1>1, <1>4, <1>5 DEF Local, Types
<1>7. Walk'
  BY <1>1, <1>3, <1>4, <1>5, ConfigAssumption DEF Walk, Spawn, Types, Pass, Boot, Other,
     LoopPhases, WaitPhases, FirstPass, Broken, PassGroups
<1>8. Started' = Started \cup {n} /\ n \notin Started /\ Sent' = Sent
  BY <1>4, <1>5 DEF Started, Sent, Types, Pass, Boot, Other
<1>9. Counting'
  <2>1. Cardinality(Started') = Cardinality(Started) + 1
    BY <1>8, FiniteGoroutines, FS_AddElement
  <2>2. Cardinality(Started') <= Cardinality(Nodes)
    BY <1>2, FiniteGoroutines, FS_Subset, ConfigAssumption, <1>8, <1>4
  <2>3. nodeCount' = Cardinality(Started')
    BY <1>1, <2>1 DEF Counting, Spawn, CountNode
  <2>4. QED
    BY <1>1, <1>8, <2>1, <2>2, <2>3, FiniteGoroutines DEF Counting, Types
<1>10. Progress'
  BY <1>1, <1>4, <1>5, <1>8 DEF Progress, Types, LoopPhases, WaitPhases, SecondPass, Broken,
     Pass, Boot, Other
<1>11. BootnodesFirst' /\ OnlyReadyFunded'
  <2>1. OnlyReadyFunded'
    BY <1>1 DEF OnlyReadyFunded
  <2>2. CASE phase = "bootLoop"
    BY <1>1, <1>4, <1>5, <2>1, <2>2, ConfigAssumption DEF BootnodesFirst, Walk, Types, Pass, Boot,
       Other, FirstPass
  <2>3. CASE phase = "nodeLoop"
    <3>1. \A b \in Boot : /\ gpc[b] = "sent" /\ res[b] = "ok"
                          /\ mode = "deploy" => b \in ready \cap (funded \cup Addressless)
      BY <2>3 DEF Progress, SecondPass, Broken, Local, OnlyReadyFunded, Boot
    <3>2. \A b \in Boot : gpc'[b] = gpc[b]
      BY <1>4, <1>5, <3>1 DEF Types, Boot
    <3>3. QED
      BY <1>1, <2>1, <3>1, <3>2 DEF BootnodesFirst, Boot
  <2>4. QED
    BY <1>1, <2>1, <2>2, <2>3 DEF LoopPhases
<1>12. QED
  BY <1>2, <1>6, <1>7, <1>9, <1>10, <1>11

\* Leaving a group and ending a walk leave every goroutine alone.
LEMMA LoopInv == ASSUME Inv, LeaveGroup \/ EndLoop PROVE Inv'
<1> USE DEF Inv
<1>1. UNCHANGED <<mode, todo, left, nodeCount, received, bConfig, bootnodesOut, gpc, res,
                  registered, created, ready, fundAddresses, funded>>
  BY DEF LeaveGroup, EndLoop, mainVars, nodeVars, fundVars
<1>2. Types'
  BY <1>1 DEF Types, LeaveGroup, EndLoop, Phases, WaitPhases, mainVars
<1>3. Pass' = Pass /\ Started' = Started /\ Sent' = Sent
  BY <1>1 DEF LeaveGroup, EndLoop, Pass, Started, Sent, LoopPhases, Boot, Other
<1>4. Local' /\ BootnodesFirst' /\ OnlyReadyFunded'
  BY <1>1 DEF Local, BootnodesFirst, OnlyReadyFunded
<1>5. Counting' /\ Progress'
  BY <1>1, <1>3 DEF LeaveGroup, EndLoop, Counting, Progress, LoopPhases, WaitPhases, SecondPass,
     Broken
<1>6. Walk'
  <2>1. CASE LeaveGroup
    BY <1>1, <1>3, <2>1, ConfigAssumption DEF LeaveGroup, Walk, LoopPhases, WaitPhases, FirstPass,
       PassGroups, Pass, Broken, Types
  <2>2. CASE EndLoop
    <3>1. left = {}
      BY <2>2, ConfigAssumption DEF EndLoop, Walk, Types
    <3>2. QED
      BY <1>1, <1>3, <2>2, <3>1 DEF EndLoop, Walk, LoopPhases, WaitPhases, FirstPass,
         Pass, Broken, mainVars
  <2>3. QED
    BY <2>1, <2>2
<1>7. QED
  BY <1>2, <1>4, <1>5, <1>6

\* Receiving a result adds its goroutine to the sent ones and counts it.
LEMMA ReceiveInv == ASSUME Inv, NEW n \in Nodes, Receive(n) PROVE Inv'
<1> USE DEF Inv
<1>1. gpc[n] = "send" /\ n \in Pass /\ gpc' = [gpc EXCEPT ![n] = "sent"] /\ phase \in WaitPhases
  BY DEF Receive
<1>2. CASE Fail
  BY <1>1, <1>2, FailInv
<1>3. CASE ~Fail
  <2>1. /\ res[n] # "err" /\ received' = received + 1
        /\ received < nodeCount
        /\ fundAddresses' = IF mode = "deploy" THEN fundAddresses \cup ({n} \ Addressless)
                            ELSE fundAddresses
        /\ UNCHANGED <<mode, phase, todo, cur, left, nodeCount, bConfig, bootnodesOut, res,
                       registered, created, ready, funded>>
    BY <1>3 DEF Receive, ErrResult, nodeVars
  <2>2. res[n] = "ok" /\ (mode = "deploy" => n \in ready)
    BY <1>1, <2>1 DEF Local
  <2>3. Types'
    BY <1>1, <2>1 DEF Types, GoroutineStates
  <2>4. Local' /\ OnlyReadyFunded'
    BY <1>1, <2>1, <2>2 DEF Types, Local, OnlyReadyFunded
  <2>5. Pass' = Pass /\ Started' = Started /\ Sent' = Sent \cup {n} /\ n \notin Sent
    BY <1>1, <2>1 DEF Pass, Started, Sent, Types, Boot, Other
  <2>6. Counting'
    <3>1. Cardinality(Sent') = Cardinality(Sent) + 1
      BY <2>5, FS_AddElement, FiniteGoroutines
    <3>2. QED
      BY <1>1, <2>1, <2>5, <3>1 DEF Counting, Types
  <2>7. Walk'
    BY <1>1, <2>1, <2>5 DEF Walk, Types, LoopPhases, WaitPhases, FirstPass, Broken, Pass, Boot,
       Other, PassGroups
  <2>8. Progress'
    BY <1>1, <2>1, <2>2, <2>5 DEF Progress, Types, LoopPhases, WaitPhases, SecondPass, Broken, Boot
  <2>9. BootnodesFirst'
    BY <1>1, <2>1, <2>2 DEF BootnodesFirst, Types, Boot, Other
  <2>10. QED
    BY <2>3, <2>4, <2>6, <2>7, <2>8, <2>9
<1>4. QED
  BY <1>2, <1>3

\* The second pass starts with all bootnodes set up and none of its own nodes.
LEMMA SecondPassInv ==
  ASSUME Inv, StartSecondPass, cur = NoGroup, left = {},
         \A n \in Other : gpc[n] = "idle",
         \A b \in Boot : gpc[b] = "sent" /\ res[b] = "ok",
         mode = "deploy" => Boot \ Addressless \subseteq funded',
         funded' \subseteq ready, funded' \subseteq Nodes \ Addressless, phase \notin Broken,
         UNCHANGED <<mode, cur, left, bConfig, bootnodesOut, gpc, res, nodeVars>>
  PROVE  Inv'
<1> USE DEF Inv
<1>1. /\ phase' = "nodeLoop" /\ todo' = OtherGroups /\ nodeCount' = 0 /\ received' = 0
      /\ fundAddresses' = {} /\ UNCHANGED <<registered, created, ready>>
  BY DEF StartSecondPass, nodeVars
<1>2. Types'
  BY <1>1 DEF Types, Phases, LoopPhases, Groups
<1>3. Local' /\ OnlyReadyFunded' /\ BootnodesFirst'
  BY <1>1 DEF Local, OnlyReadyFunded, BootnodesFirst
<1>4. Pass' = Other /\ Started' = {} /\ Sent' = {}
  BY <1>1 DEF Pass, Started, Sent, Other
<1>5. Counting'
  BY <1>1, <1>4, FS_EmptySet, FiniteGoroutines DEF Counting
<1>6. Walk'
  BY <1>1, <1>4 DEF Walk, LoopPhases, WaitPhases, FirstPass, PassGroups, Broken, Other
<1>7. Progress'
  BY <1>1, <1>4 DEF Progress, LoopPhases, WaitPhases, SecondPass, Broken, Boot
<1>8. QED
  BY <1>2, <1>3, <1>5, <1>6, <1>7

\* When all results are in, every node of the pass has been set up.
LEMMA EndWaitInv == ASSUME Inv, EndWait PROVE Inv'
<1> USE DEF Inv
<1>1. /\ phase \in WaitPhases /\ received = nodeCount
      /\ UNCHANGED <<mode, cur, left, bConfig, bootnodesOut, gpc, res, registered, created, ready,
                     funded>>
  BY DEF EndWait, AllReceived, nodeVars
<1>2. Sent = Started /\ Started = Pass
  BY <1>1, FiniteGoroutines DEF Counting, Walk, Started
<1>3. cur = NoGroup /\ left = {}
  BY <1>1 DEF Walk, WaitPhases, LoopPhases, Broken
<1>4. \A n \in Pass : gpc[n] = "sent" /\ res[n] = "ok"
  BY <1>1, <1>2, ConfigAssumption DEF Sent, Progress, Broken, WaitPhases, Pass, Boot, Other
<1>5. fundAddresses = IF mode = "deploy" THEN Pass \ Addressless ELSE {}
  BY <1>1, <1>2 DEF Progress
<1>6. CASE phase = "bootWait"
  <2>1. Pass = Boot /\ \A n \in Other : gpc[n] = "idle"
    BY <1>6 DEF Pass, Walk, FirstPass
  <2>2. CASE StartSecondPass
    <3>1. mode = "deploy" => Boot \ Addressless = {}
      BY <1>5, <1>6, <2>1, <2>2 DEF EndWait, StartSecondPass
    <3>2. funded' \subseteq ready /\ funded' \subseteq Nodes \ Addressless
      BY <1>1 DEF OnlyReadyFunded, Progress
    <3>3. QED
      BY <1>1, <1>3, <1>4, <1>6, <2>1, <2>2, <3>1, <3>2, SecondPassInv DEF Broken, nodeVars
  <2>3. CASE /\ phase' = "bootFund" /\ mode = "deploy"
             /\ UNCHANGED <<todo, nodeCount, received, fundAddresses>>
    <3>1. Types' /\ Local' /\ Counting' /\ BootnodesFirst' /\ OnlyReadyFunded'
      BY <1>1, <2>3 DEF Types, Local, Counting, BootnodesFirst, OnlyReadyFunded, Phases, FundPhases,
         LoopPhases, WaitPhases
    <3>2. Walk' /\ Progress'
      BY <1>1, <1>3, <1>4, <1>5, <1>6, <2>1, <2>3 DEF Walk, Progress, LoopPhases, WaitPhases,
         FirstPass, SecondPass, Broken, Other, Boot
    <3>3. QED
      BY <3>1, <3>2
  <2>4. QED
    BY <1>6, <2>2, <2>3 DEF EndWait
<1>7. CASE phase = "nodeWait"
  <2>1. /\ phase' = IF mode = "deploy" THEN "nodeFund" ELSE "done"
        /\ UNCHANGED <<todo, nodeCount, received, fundAddresses>>
    BY <1>7 DEF EndWait
  <2>2. Pass = Other /\ Nodes = Boot \cup Other
    BY <1>7, ConfigAssumption DEF Pass, Boot, Other, Groups
  <2>3. Types' /\ Local' /\ Counting' /\ BootnodesFirst' /\ OnlyReadyFunded'
    BY <1>1, <2>1 DEF Types, Local, Counting, BootnodesFirst, OnlyReadyFunded, Phases, FundPhases,
       LoopPhases, WaitPhases, Stopped
  <2>4. Walk' /\ Progress'
    BY <1>1, <1>3, <1>4, <1>5, <1>7, <2>1, <2>2 DEF Walk, Progress, LoopPhases, WaitPhases,
       FirstPass, SecondPass, Broken, Other, Boot
  <2>5. QED
    BY <2>3, <2>4
<1>8. QED
  BY <1>1, <1>6, <1>7 DEF WaitPhases

\* Funding pays for exactly the nodes of the pass, all of them ready.
LEMMA FundInv == ASSUME Inv, Fund PROVE Inv'
<1> USE DEF Inv
<1>1. CASE Fail /\ UNCHANGED gpc
  BY <1>1, FailInv
<1>2. CASE ~(Fail /\ UNCHANGED gpc)
  <2>1. /\ phase \in FundPhases /\ funded' = funded \cup fundAddresses
        /\ UNCHANGED <<mode, cur, left, bConfig, bootnodesOut, gpc, res, registered, created, ready>>
    BY <1>2 DEF Fund, nodeVars
  <2>2. cur = NoGroup /\ left = {} /\ phase \notin Broken
    BY <2>1 DEF Walk, FundPhases, LoopPhases, Broken
  <2>3. funded' \subseteq ready /\ funded' \subseteq Nodes \ Addressless
    BY <2>1 DEF OnlyReadyFunded, Progress
  <2>4. CASE phase = "bootFund"
    <3>1. StartSecondPass /\ fundAddresses = Boot \ Addressless
      BY <1>2, <2>4 DEF Fund, Progress
    <3>2. /\ \A n \in Other : gpc[n] = "idle"
          /\ \A b \in Boot : gpc[b] = "sent" /\ res[b] = "ok"
      BY <2>2, <2>4 DEF Walk, Progress, Boot
    <3>3. QED
      BY <2>1, <2>2, <2>3, <3>1, <3>2, SecondPassInv DEF nodeVars
  <2>5. CASE phase = "nodeFund"
    <3>1. phase' = "done" /\ UNCHANGED <<todo, nodeCount, received, fundAddresses>>
      BY <1>2, <2>5 DEF Fund
    <3>2. mode = "deploy" /\ fundAddresses = Other \ Addressless /\ Boot \ Addressless \subseteq funded
      BY <2>5 DEF Progress
    <3>3. Nodes = Boot \cup Other
      BY ConfigAssumption DEF Boot, Other, Groups
    <3>4. Types' /\ Local' /\ Counting' /\ BootnodesFirst' /\ OnlyReadyFunded'
      BY <2>1, <2>3, <3>1 DEF Types, Local, Counting, BootnodesFirst, OnlyReadyFunded, Phases,
         LoopPhases, WaitPhases, Stopped
    <3>5. Walk' /\ Progress'
      BY <2>1, <2>2, <2>5, <3>1, <3>2, <3>3 DEF Walk, Progress, Types, LoopPhases, WaitPhases,
         FirstPass, SecondPass, Broken, Other, Boot
    <3>6. QED
      BY <3>4, <3>5
  <2>6. QED
    BY <2>1, <2>4, <2>5 DEF FundPhases
<1>3. QED
  BY <1>1, <1>2

\* The end of a failed set up, by panic or by exit.
LEMMA EndInv ==
  ASSUME Inv, phase = "failed", phase' \in {"panic", "exited"},
         UNCHANGED <<mode, mainVars, gpc, res, nodeVars, fundVars>>
  PROVE  Inv'
<1> USE DEF Inv
<1>1. UNCHANGED <<mode, todo, cur, left, nodeCount, received, bConfig, bootnodesOut, gpc, res,
                  registered, created, ready, fundAddresses, funded>>
  BY DEF mainVars, nodeVars, fundVars
<1>2. Types' /\ Local' /\ BootnodesFirst' /\ OnlyReadyFunded'
  BY <1>1 DEF Types, Local, BootnodesFirst, OnlyReadyFunded, Phases, Stopped
<1>3. Walk' /\ Counting' /\ Progress'
  BY <1>1 DEF Walk, Counting, Progress, LoopPhases, WaitPhases, FirstPass, SecondPass, Broken
<1>4. QED
  BY <1>2, <1>3

\* Every step of setupCluster and of its goroutines keeps the invariant.
LEMMA NextInv == Inv /\ [Next]_vars => Inv'
<1> SUFFICES ASSUME Inv, [Next]_vars PROVE Inv'
  OBVIOUS
<1>1. CASE Main
  <2>1. ASSUME NEW g \in Groups, ProfileMissing(g) PROVE Inv'
    BY <2>1, FailInv DEF ProfileMissing
  <2>2. CASE Exit
    BY <2>2, EndInv DEF Exit
  <2>3. QED
    BY <1>1, <2>1, <2>2, EnterGroupInv, SpawnInv, ReceiveInv, LoopInv, EndWaitInv, FundInv DEF Main
<1>2. ASSUME NEW n \in Nodes, Goroutine(n) PROVE Inv'
  <2>1. CASE SendOnClosed(n)
    BY <2>1, EndInv DEF SendOnClosed
  <2>2. QED
    BY <1>2, <2>1, GoroutineInv DEF Goroutine
<1>3. CASE UNCHANGED vars
  <2>1. UNCHANGED <<mode, phase, todo, cur, left, nodeCount, received, bConfig, bootnodesOut, gpc,
                    res, registered, created, ready, fundAddresses, funded>>
    BY <1>3 DEF vars, mainVars, nodeVars, fundVars
  <2>2. QED
    BY <2>1 DEF Inv, Types, Local, Walk, Counting, Progress, BootnodesFirst, OnlyReadyFunded,
       Started, Sent, Pass, PassGroups
<1>4. QED
  BY <1>1, <1>2, <1>3 DEF Next, Terminated

LEMMA InvAlways == Spec => []Inv
  BY InitInv, NextInv, PTL DEF Spec

-----------------------------------------------------------------------------
\* Type correctness, with the bounds on the counters: setupCluster never counts
\* a node twice and never receives more results than it has started goroutines.
THEOREM TypeCorrect == Spec => []TypeOK
<1>1. Inv => TypeOK
  BY FiniteGoroutines DEF Inv, Types, Counting, TypeOK
<1>2. QED
  BY <1>1, InvAlways, PTL

\* For every cluster configuration, no node of the other groups is touched
\* before all bootnodes are set up, and, when starting, ready and, where they have
\* an address, funded.
THEOREM BootnodesFirstHolds == Spec => []BootnodesFirst
<1>1. Inv => BootnodesFirst
  BY DEF Inv
<1>2. QED
  BY <1>1, InvAlways, PTL

\* For every cluster configuration, setupCluster returns success only with every
\* node registered, and, when starting, ready and, where it has an address, funded.
THEOREM SuccessIsCompleteHolds == Spec => []SuccessIsComplete
<1>1. Inv => SuccessIsComplete
  <2> SUFFICES ASSUME Inv, phase = "done"
               PROVE  /\ registered = Nodes
                      /\ mode = "deploy" => ready = Nodes /\ funded = Nodes \ Addressless
    BY DEF SuccessIsComplete
  <2>1. \A n \in Nodes : gpc[n] = "sent" /\ res[n] = "ok"
    BY DEF Inv, Progress, Broken
  <2>2. QED
    BY <2>1 DEF Inv, Progress, Local, Types
<1>2. QED
  BY <1>1, InvAlways, PTL

\* For every cluster configuration and every failure, only ready nodes are funded.
THEOREM OnlyReadyFundedHolds == Spec => []OnlyReadyFunded
<1>1. Inv => OnlyReadyFunded
  BY DEF Inv
<1>2. QED
  BY <1>1, InvAlways, PTL

-----------------------------------------------------------------------------
(* The bootnodes of the second pass.                                        *)

\* Past AddNode a goroutine deploys its node.
Deploying ==
  \A n \in Nodes : gpc[n] \in {"key", "create", "start", "address"} => mode = "deploy"

\* Once a bootnode has its goroutine, what the pass hands on is the address of
\* a bootnode.
HandedOn ==
  mode = "deploy" /\ (\E b \in Boot : gpc[b] # "idle") => \E b \in Boot : bootnodesOut = Own[b]

\* The configuration of a group of the second pass is written when the group is
\* entered and never again.
Configured ==
  /\ phase = "nodeLoop" /\ cur # NoGroup /\ Preset[cur] = Empty => bConfig[cur] = bootnodesOut
  /\ \A n \in Other : gpc[n] # "idle" /\ Preset[Group[n]] = Empty =>
       bConfig[Group[n]] = bootnodesOut

\* What the goroutines of the second pass have made of it.
CreatedAlike ==
  \A n \in Other : created[n] # NotCreated =>
    /\ mode = "deploy" /\ gpc[n] # "idle"
    /\ Preset[Group[n]] = Empty => created[n] = bootnodesOut

Sharing == Deploying /\ HandedOn /\ Configured /\ CreatedAlike

\* A node of the second pass is not of the first.
LEMMA TwoPasses ==
  /\ Boot \subseteq Nodes /\ Other \subseteq Nodes /\ Boot \cap Other = {}
  /\ \A n \in Other : Group[n] \in OtherGroups /\ Group[n] # NoGroup
BY ConfigAssumption DEF Boot, Other, Groups

\* The goroutines read the configuration of their group while nobody writes it.
LEMMA GoroutineSharing ==
  ASSUME Inv, Sharing, NEW n \in Nodes, Goroutine(n) PROVE Sharing'
<1>1. /\ \A m \in Nodes : gpc'[m] = "idle" <=> gpc[m] = "idle"
      /\ UNCHANGED <<mode, cur, bConfig, bootnodesOut>>
      /\ phase' = phase \/ phase' = "panic"
  BY DEF Goroutine, StepFails, AddNode, PregenerateSwarmKey, CreateNode, StartNode, GetEthAddress,
     SendOnClosed, mainVars, Inv, Types
<1>2. HandedOn' /\ Configured'
  BY <1>1, TwoPasses DEF Sharing, HandedOn, Configured
<1>3. Deploying'
  BY DEF Sharing, Deploying, Goroutine, StepFails, AddNode, PregenerateSwarmKey, CreateNode,
     StartNode, GetEthAddress, SendOnClosed, Inv, Types
<1>4. CreatedAlike'
  <2>1. CASE CreateNode(n)
    <3>1. gpc[n] = "create" /\ mode = "deploy"
      BY <2>1 DEF CreateNode, Sharing, Deploying
    <3>2. n \in Other => phase # "bootLoop"
      BY <3>1 DEF Inv, Walk, FirstPass
    <3>3. n \in Other => created' = [created EXCEPT ![n] = bConfig[Group[n]]]
      BY <2>1, <3>2 DEF CreateNode
    <3>4. \A m \in Nodes : m # n => created'[m] = created[m]
      BY <2>1 DEF CreateNode, Inv, Types
    <3>5. QED
      BY <1>1, <3>1, <3>3, <3>4, TwoPasses DEF Sharing, Configured, CreatedAlike, Inv, Types
  <2>2. CASE ~CreateNode(n)
    <3>1. created' = created
      BY <2>2 DEF Goroutine, StepFails, AddNode, PregenerateSwarmKey, StartNode, GetEthAddress,
         SendOnClosed, nodeVars
    <3>2. QED
      BY <1>1, <3>1, TwoPasses DEF Sharing, CreatedAlike
  <2>3. QED
    BY <2>1, <2>2
<1>5. QED
  BY <1>2, <1>3, <1>4 DEF Sharing

\* A new goroutine of the first pass replaces the address that is handed on, at
\* a time when no goroutine of the second is there to have read it.
LEMMA SpawnSharing ==
  ASSUME Inv, Sharing, NEW n \in Nodes, Spawn(n) PROVE Sharing'
<1>1. /\ phase \in LoopPhases /\ n \in left /\ phase' = phase
      /\ gpc' = [gpc EXCEPT ![n] = "add"] /\ UNCHANGED <<mode, cur, created>>
  BY DEF Spawn, nodeVars
<1>2. Group[n] = cur /\ cur \in PassGroups
  <2>1. Group[n] = cur /\ cur # NoGroup
    BY <1>1, ConfigAssumption DEF Inv, Walk
  <2>2. QED
    BY <1>1, <2>1 DEF Inv, Walk
<1>3. Deploying'
  BY <1>1 DEF Sharing, Deploying, Inv, Types
<1>4. CASE phase = "bootLoop"
  <2>1. \A m \in Other : gpc[m] = "idle" /\ gpc'[m] = "idle"
    <3>1. n \notin Other
      BY <1>2, <1>4, ConfigAssumption DEF PassGroups, FirstPass, Other
    <3>2. QED
      BY <1>1, <1>4, <3>1, TwoPasses DEF Inv, Walk, FirstPass, Types
  <2>2. HandedOn'
    <3>1. n \in Boot
      BY <1>2, <1>4 DEF PassGroups, FirstPass, Boot
    <3>2. mode = "deploy" => bootnodesOut' = Own[n]
      BY <1>4 DEF Spawn
    <3>3. QED
      BY <1>1, <3>1, <3>2 DEF HandedOn
  <2>3. Configured' /\ CreatedAlike'
    BY <1>1, <1>4, <2>1 DEF Sharing, Configured, CreatedAlike
  <2>4. QED
    BY <1>3, <2>2, <2>3 DEF Sharing
<1>5. CASE phase = "nodeLoop"
  <2>1. UNCHANGED <<bConfig, bootnodesOut>>
    BY <1>5 DEF Spawn
  <2>2. n \notin Boot
    BY <1>2, <1>5, ConfigAssumption DEF PassGroups, FirstPass, Boot
  <2>3. \A m \in Nodes : m # n => gpc'[m] = gpc[m]
    BY <1>1 DEF Inv, Types
  <2>4. HandedOn'
    BY <1>1, <2>1, <2>2, <2>3, TwoPasses DEF Sharing, HandedOn
  <2>5. Configured'
    BY <1>1, <1>2, <1>5, <2>1, <2>3, TwoPasses DEF Sharing, Configured
  <2>6. CreatedAlike'
    BY <1>1, <2>1, TwoPasses DEF Sharing, CreatedAlike, Inv, Types
  <2>7. QED
    BY <1>3, <2>4, <2>5, <2>6 DEF Sharing
<1>6. QED
  BY <1>1, <1>4, <1>5 DEF LoopPhases

\* Entering a group fills its configuration in, before it has goroutines.
LEMMA EnterGroupSharing ==
  ASSUME Inv, Sharing, NEW g \in Groups, EnterGroup(g) PROVE Sharing'
<1>1. /\ phase \in LoopPhases /\ cur' = g /\ g \in todo
      /\ bConfig' = [bConfig EXCEPT ![g] = GroupBootnodes(g)]
      /\ UNCHANGED <<mode, phase, bootnodesOut, gpc, created>>
  BY DEF EnterGroup, nodeVars
<1>2. \A m \in Other : Group[m] = g => gpc[m] = "idle"
  <2> SUFFICES ASSUME NEW m \in Other, Group[m] = g PROVE gpc[m] = "idle"
    OBVIOUS
  <2>1. CASE phase = "bootLoop"
    BY <2>1 DEF Inv, Walk, FirstPass
  <2>2. CASE phase = "nodeLoop"
    BY <1>1, <2>2 DEF Inv, Walk, Pass
  <2>3. QED
    BY <1>1, <2>1, <2>2 DEF LoopPhases
<1>3. Configured'
  BY <1>1, <1>2, TwoPasses DEF Sharing, Configured, GroupBootnodes, Inv, Types
<1>4. Deploying' /\ HandedOn' /\ CreatedAlike'
  BY <1>1 DEF Sharing, Deploying, HandedOn, CreatedAlike
<1>5. QED
  BY <1>3, <1>4 DEF Sharing

\* Every other step of the main goroutine writes none of this.
LEMMA MainSharing == ASSUME Inv, Sharing, Main PROVE Sharing'
<1>1. ASSUME /\ UNCHANGED <<mode, bConfig, bootnodesOut, created>>
             /\ \A m \in Nodes : gpc'[m] = gpc[m] \/ (gpc[m] = "send" /\ gpc'[m] = "sent")
             /\ phase' = "nodeLoop" => cur' = NoGroup
      PROVE  Sharing'
  BY <1>1, TwoPasses DEF Sharing, Deploying, HandedOn, Configured, CreatedAlike
<1>2. ASSUME NEW n \in Nodes, Receive(n) PROVE Sharing'
  <2>1. /\ UNCHANGED <<mode, bConfig, bootnodesOut, created>> /\ phase' # "nodeLoop"
        /\ gpc[n] = "send" /\ gpc' = [gpc EXCEPT ![n] = "sent"]
    BY <1>2 DEF Receive, Fail, WaitPhases, mainVars, nodeVars
  <2>2. \A m \in Nodes : gpc'[m] = gpc[m] \/ (gpc[m] = "send" /\ gpc'[m] = "sent")
    BY <2>1 DEF Inv, Types
  <2>3. QED
    BY <1>1, <2>1, <2>2
<1>3. ASSUME NEW g \in Groups, ProfileMissing(g) PROVE Sharing'
  BY <1>1, <1>3 DEF ProfileMissing, Fail, mainVars, nodeVars
<1>4. CASE LeaveGroup \/ EndLoop
  BY <1>1, <1>4 DEF LeaveGroup, EndLoop, mainVars, nodeVars
<1>5. CASE EndWait \/ Fund \/ Exit
  <2>1. cur = NoGroup \/ phase' # "nodeLoop"
    BY <1>5 DEF EndWait, Fund, Exit, Inv, Walk, WaitPhases, FundPhases, LoopPhases, Broken
  <2>2. /\ UNCHANGED <<mode, bConfig, bootnodesOut, created, cur, gpc>>
    BY <1>5 DEF EndWait, Fund, Exit, StartSecondPass, Fail, mainVars, nodeVars
  <2>3. QED
    BY <1>1, <2>1, <2>2
<1>6. QED
  BY <1>2, <1>3, <1>4, <1>5, EnterGroupSharing, SpawnSharing DEF Main

\* For every cluster configuration, the nodes of the second pass that leave their
\* bootnodes to setupCluster are created with one and the same bootnode, although
\* each goroutine reads it through a configuration shared by pointer.
THEOREM OthersShareBootnodeHolds == Spec => []OthersShareBootnode
<1>1. Init => Sharing
  <2> SUFFICES ASSUME Init PROVE Sharing
    OBVIOUS
  <2>1. QED
    BY TwoPasses DEF Init, Sharing, Deploying, HandedOn, Configured, CreatedAlike
<1>2. Inv /\ Sharing /\ [Next]_vars => Sharing'
  <2> SUFFICES ASSUME Inv, Sharing, [Next]_vars PROVE Sharing'
    OBVIOUS
  <2>1. CASE UNCHANGED vars
    BY <2>1 DEF vars, mainVars, nodeVars, Sharing, Deploying, HandedOn, Configured, CreatedAlike
  <2>2. QED
    BY <2>1, MainSharing, GoroutineSharing DEF Next, Terminated
<1>3. Inv /\ Sharing => OthersShareBootnode
  <2> SUFFICES ASSUME Inv, Sharing, Boot # {} PROVE OthersShareBootnode
    BY DEF OthersShareBootnode
  <2>1. CASE \A n \in Other : created[n] = NotCreated
    BY <2>1 DEF OthersShareBootnode
  <2>2. ASSUME NEW n \in Other, created[n] # NotCreated PROVE OthersShareBootnode
    <3>1. mode = "deploy" /\ gpc[n] # "idle"
      BY <2>2 DEF Sharing, CreatedAlike
    <3>2. \A b \in Boot : gpc[b] = "sent"
      BY <3>1 DEF Inv, BootnodesFirst
    <3>3. \E b \in Boot : bootnodesOut = Own[b]
      BY <3>1, <3>2 DEF Sharing, HandedOn
    <3>4. QED
      BY <3>3 DEF OthersShareBootnode, Sharing, CreatedAlike
  <2>3. QED
    BY <2>1, <2>2
<1>4. QED
  BY <1>1, <1>2, <1>3, InvAlways, PTL DEF Spec

-----------------------------------------------------------------------------
(* ClusterSetup implements OrderedStart.                                    *)

\* A step that changes neither what is up nor the outcome is a stutter.
LEMMA Stutter ==
  ASSUME Up' = Up, Outcome' = Outcome
  PROVE  UNCHANGED Start!vars
  BY DEF Start!vars

\* A failure is the abstract one: nothing comes up in that step.
LEMMA FailRefines ==
  ASSUME Inv, Fail, phase \notin Stopped \cup {"failed"},
         \/ UNCHANGED gpc
         \/ \E n \in Nodes : gpc[n] = "send" /\ res[n] = "err" /\ gpc' = [gpc EXCEPT ![n] = "sent"]
  PROVE  Start!Next
<1>1. Outcome = "open" /\ Outcome' = "failed"
  BY DEF Fail, Outcome, Stopped
<1>2. Up' = Up
  BY DEF Fail, Up, Inv, Types
<1>3. QED
  BY <1>1, <1>2 DEF Start!Next, Start!Fail

\* An error result is a failure; any other is its node coming up, in order.
LEMMA ReceiveRefines == ASSUME Inv, NEW n \in Nodes, Receive(n) PROVE Start!Next
<1>1. /\ phase \in WaitPhases /\ gpc[n] = "send" /\ gpc' = [gpc EXCEPT ![n] = "sent"]
      /\ phase \notin Stopped \cup {"failed"}
  BY DEF Receive, WaitPhases, Stopped
<1>2. CASE ErrResult(n) /\ Fail
  BY <1>1, <1>2, FailRefines DEF ErrResult
<1>3. CASE ~ErrResult(n) /\ UNCHANGED <<phase, res>>
  <2>1. res[n] = "ok" /\ n \notin Up
    BY <1>1, <1>3 DEF ErrResult, Inv, Local, Up
  <2>2. Up' = Up \cup {n}
    BY <1>1, <1>3, <2>1 DEF Up, Inv, Types
  <2>3. Outcome = "open" /\ Outcome' = Outcome
    BY <1>1, <1>3 DEF Outcome, Stopped
  <2>4. n \in Other => Boot \subseteq Up
    BY <1>1 DEF Inv, BootnodesFirst, Up, Boot
  <2>5. n \in Boot \cup Other
    BY ConfigAssumption DEF Boot, Other, Groups
  <2>6. QED
    BY <2>1, <2>2, <2>3, <2>4, <2>5 DEF Start!Next, Start!ComeUp
<1>4. QED
  BY <1>2, <1>3 DEF Receive

\* Reaching "done" is the abstract success: the invariant says all are up.
LEMMA DoneRefines ==
  ASSUME Inv, Inv', phase' = "done", phase \in WaitPhases \cup FundPhases, UNCHANGED <<gpc, res>>
  PROVE  Start!Next
<1>1. Outcome = "open" /\ Outcome' = "ok"
  BY DEF Outcome, WaitPhases, FundPhases
<1>2. Up' = Up
  BY DEF Up
<1>3. Up' = Nodes
  BY DEF Up, Inv, Progress, Broken
<1>4. Nodes = Boot \cup Other
  BY ConfigAssumption DEF Boot, Other, Groups
<1>5. QED
  BY <1>1, <1>2, <1>3, <1>4 DEF Start!Next, Start!Succeed

\* Every other step of the main goroutine is invisible.
LEMMA MainRefines == ASSUME Inv, Inv', Main PROVE [Start!Next]_(Start!vars)
<1>1. ASSUME NEW g \in Groups, ProfileMissing(g) PROVE Start!Next
  BY <1>1, FailRefines DEF ProfileMissing, LoopPhases, Stopped
<1>2. ASSUME NEW g \in Groups, EnterGroup(g) PROVE UNCHANGED Start!vars
  BY <1>2, Stutter DEF EnterGroup, Up, Outcome
<1>3. ASSUME NEW n \in Nodes, Spawn(n) PROVE UNCHANGED Start!vars
  <2>1. gpc' = [gpc EXCEPT ![n] = "add"] /\ UNCHANGED <<phase, res>>
    BY <1>3 DEF Spawn
  <2>2. gpc[n] = "idle"
    <3>1. phase \in LoopPhases /\ n \in left
      BY <1>3 DEF Spawn
    <3>2. Group[n] = cur /\ cur \in PassGroups \ todo
      BY <3>1, ConfigAssumption DEF Inv, Walk, Types
    <3>3. n \in Pass
      BY <3>1, <3>2 DEF Pass, PassGroups, LoopPhases, FirstPass, Boot, Other
    <3>4. QED
      BY <3>1, <3>3 DEF Inv, Walk
  <2>3. Up' = Up /\ Outcome' = Outcome
    BY <2>1, <2>2 DEF Up, Outcome, Inv, Types
  <2>4. QED
    BY <2>3, Stutter
<1>4. CASE LeaveGroup
  BY <1>4, Stutter DEF LeaveGroup, Up, Outcome
<1>5. CASE EndLoop
  <2>1. UNCHANGED <<gpc, res>> /\ Outcome = "open" /\ Outcome' = "open"
    BY <1>5 DEF EndLoop, Outcome, LoopPhases
  <2>2. QED
    BY <2>1, Stutter DEF Up
<1>6. CASE EndWait
  <2>1. UNCHANGED <<gpc, res>> /\ phase \in WaitPhases
        /\ phase' \in {"bootFund", "nodeLoop", "nodeFund", "done"}
    BY <1>6 DEF EndWait, StartSecondPass
  <2>2. CASE phase' = "done"
    BY <2>1, <2>2, DoneRefines
  <2>3. CASE phase' # "done"
    <3>1. Outcome' = Outcome
      BY <2>1, <2>3 DEF Outcome, WaitPhases
    <3>2. QED
      BY <2>1, <3>1, Stutter DEF Up
  <2>4. QED
    BY <2>2, <2>3
<1>7. CASE Fund
  <2>1. phase \in FundPhases
    BY <1>7 DEF Fund
  <2>2. CASE Fail /\ UNCHANGED gpc
    BY <2>1, <2>2, FailRefines DEF FundPhases, Stopped
  <2>3. CASE UNCHANGED <<gpc, res>> /\ phase' = "done"
    BY <2>1, <2>3, DoneRefines
  <2>4. CASE UNCHANGED <<gpc, res>> /\ phase' = "nodeLoop"
    <3>1. Outcome' = Outcome
      BY <2>1, <2>4 DEF Outcome, FundPhases
    <3>2. QED
      BY <2>4, <3>1, Stutter DEF Up
  <2>5. QED
    BY <1>7, <2>2, <2>3, <2>4 DEF Fund, StartSecondPass
<1>8. CASE Exit
  BY <1>8, Stutter DEF Exit, Up, Outcome
<1>9. QED
  BY <1>1, <1>2, <1>3, <1>4, <1>5, <1>6, <1>7, <1>8, ReceiveRefines DEF Main

\* The goroutines work unseen until their result is received.
LEMMA GoroutineRefines ==
  ASSUME Inv, NEW n \in Nodes, Goroutine(n) PROVE UNCHANGED Start!vars
<1>1. CASE SendOnClosed(n)
  BY <1>1, Stutter DEF SendOnClosed, Up, Outcome
<1>2. CASE ~SendOnClosed(n)
  <2>1. /\ gpc[n] # "sent" /\ UNCHANGED phase
        /\ \E s \in GoroutineStates : s # "sent" /\ gpc' = [gpc EXCEPT ![n] = s]
    BY <1>2 DEF Goroutine, StepFails, AddNode, PregenerateSwarmKey, CreateNode, StartNode,
       GetEthAddress, GoroutineStates
  <2>2. \E r \in {"none", "ok", "err"} : res' = res \/ res' = [res EXCEPT ![n] = r]
    BY <1>2 DEF Goroutine, StepFails, AddNode, PregenerateSwarmKey, CreateNode, StartNode,
       GetEthAddress
  <2>3. Up' = Up
    BY <2>1, <2>2 DEF Up, Inv, Types
  <2>4. QED
    BY <2>1, <2>3, Stutter DEF Outcome
<1>3. QED
  BY <1>1, <1>2

\* For every cluster configuration, setupCluster implements the ordered start.
THEOREM SetupImplementsOrderedStart == Spec => StartsInOrder
<1>1. Init => Start!Init
  <2> SUFFICES ASSUME Init PROVE Start!Init
    OBVIOUS
  <2>1. Up = {} /\ Outcome = "open"
    BY DEF Init, Up, Outcome
  <2>2. QED
    BY <2>1 DEF Start!Init
<1>2. Inv /\ Inv' /\ [Next]_vars => [Start!Next]_(Start!vars)
  <2> SUFFICES ASSUME Inv, Inv', [Next]_vars PROVE [Start!Next]_(Start!vars)
    OBVIOUS
  <2>1. CASE UNCHANGED vars
    BY <2>1, Stutter DEF vars, Up, Outcome
  <2>2. QED
    BY <2>1, MainRefines, GoroutineRefines DEF Next, Terminated
<1>3. QED
  BY <1>1, <1>2, InvAlways, PTL DEF Spec, StartsInOrder, Start!Spec
=============================================================================
