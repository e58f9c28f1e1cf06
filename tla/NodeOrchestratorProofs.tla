------------------------ MODULE NodeOrchestratorProofs ------------------------
(***************************************************************************)
(* Safety of NodeOrchestrator for every set of configurations and any      *)
(* number of commands.  The order of the calls in Create and Delete is the *)
(* whole argument for DependenciesFirst and DeleteLeavesNothing: at every  *)
(* call the invariant says which resources are there, or gone.  For        *)
(* ReadyRunsNewConfig it follows one pod from the StatefulSet that asks    *)
(* for it to the status that reports it.                                   *)
(***************************************************************************)
EXTENDS NodeOrchestrator, TLAPS

CreateCalls == Dependencies \cup Routes \cup {"wss", "statefulset"}
Deploying == op = "deploy" /\ st = "running"
Deleting == op = "delete" /\ st \in {"running", "ok"}

\* The command is at one of its own calls.
AtCall ==
  /\ st = "running" => /\ run > 0
                       /\ \/ op = "deploy" /\ pc \in CreateCalls \cup {"start", "ready"}
                          \/ op = "delete" /\ pc \in Resources
                          \/ op = "stop" /\ pc = "stop"
  /\ op = "delete" /\ st = "ok" => pc = "end"
  /\ op = "deploy" /\ st = "ok" => run > 0

\* Create has set what comes before the call it is at.
SetSoFar ==
  Deploying =>
    /\ pc # "configmap" => objs["configmap"] # 0
    /\ pc \notin {"configmap", "secret"} => objs["secret"] # 0
    /\ pc \notin {"configmap", "secret", "serviceaccount"} => objs["serviceaccount"] # 0
    /\ pc \notin {"configmap", "secret", "serviceaccount", "api"} => objs["api"] # 0
    /\ pc \notin {"configmap", "secret", "serviceaccount", "api"} \cup Routes =>
         \E r \in Routes : objs[r] # 0
    /\ pc \in {"wss", "headless", "statefulset", "start", "ready"} => objs["p2p"] # 0
    /\ pc \in {"statefulset", "start", "ready"} => objs["headless"] # 0
    /\ pc \in {"start", "ready"} => Deployed

\* Delete has removed what comes before the call it is at.
GoneSoFar ==
  Deleting =>
    /\ pc # "statefulset" => objs["statefulset"] = 0
    /\ pc \notin {"statefulset", "headless"} => objs["headless"] = 0
    /\ pc \notin {"statefulset", "headless", "p2p"} => objs["p2p"] = 0
    /\ pc \notin {"statefulset", "headless", "p2p", "wss"} => objs["wss"] = 0
    /\ pc \in {"ingressroute", "api", "serviceaccount", "secret", "configmap", "pvc", "end"} =>
         objs["ingress"] = 0
    /\ pc \in {"api", "serviceaccount", "secret", "configmap", "pvc", "end"} =>
         objs["ingressroute"] = 0
    /\ pc \in {"serviceaccount", "secret", "configmap", "pvc", "end"} => objs["api"] = 0
    /\ pc \in {"secret", "configmap", "pvc", "end"} => objs["serviceaccount"] = 0
    /\ pc \in {"configmap", "pvc", "end"} => objs["secret"] = 0
    /\ pc \in {"pvc", "end"} => objs["configmap"] = 0
    /\ pc = "end" /\ opts.storage => objs["pvc"] = 0

Fresh == op = "deploy" /\ fresh /\ st \in {"running", "ok"}
Asked == st = "ok" \/ pc = "ready"

\* A deploy that began without an older pod: until it asks for one there is no
\* pod of its StatefulSet; then the pod is one of this deploy and it stays.
FreshPod ==
  Fresh =>
    /\ pc # "configmap" => objs["configmap"] = run
    /\ ~Asked => /\ pod.phase # "none" => pod.owner < run
                 /\ Deployed => ~Owned /\ spec.replicas = 0 /\ status.replicas = 0
                 /\ Deployed /\ pc # "start" => spec.uid < run
                 /\ pc = "start" => Deployed /\ objs["statefulset"] = run
    /\ Asked => /\ Deployed /\ objs["statefulset"] = run /\ objs["configmap"] = run
                /\ spec.replicas = 1
                /\ Owned => /\ pod.phase \in {"pending", "running"} /\ pod.rev = run
                            /\ pod.phase = "running" => pod.config = run
                /\ status.replicas = 1 /\ status.ready = 1 => Owned /\ pod.phase = "running"
    /\ st = "ok" => Owned /\ pod.phase = "running"

\* Names of StatefulSets and their pods are not newer than the last command.
Uids == spec.uid <= run /\ pod.owner <= run

Inv == TypeOK /\ AtCall /\ Uids /\ SetSoFar /\ GoneSoFar /\ DependenciesFirst /\ FreshPod

-----------------------------------------------------------------------------
LEMMA InitInv == Init => Inv
<1> SUFFICES ASSUME Init PROVE Inv
  OBVIOUS
<1>1. TypeOK
  <2>1. MaxRuns \in Nat /\ 0 \in 0..MaxRuns /\ 0 \in 0..1
    BY OptionsAssumption
  <2>2. pod \in [phase : {"none", "pending", "running", "terminating"},
                owner : 0..MaxRuns, rev : 0..MaxRuns, config : 0..MaxRuns]
    BY <2>1 DEF Init, NoPod
  <2>3. QED
    BY <2>1, <2>2 DEF Init, TypeOK, Calls
<1>2. AtCall /\ Uids
  BY DEF Init, AtCall, Uids, NoPod
<1>3. SetSoFar /\ GoneSoFar /\ DependenciesFirst /\ FreshPod
  BY DEF Init, SetSoFar, GoneSoFar, DependenciesFirst, FreshPod, Deploying, Deleting, Fresh,
     Deployed, Resources, Dependencies, Routes
<1>4. QED
  BY <1>1, <1>2, <1>3 DEF Inv

\* A new command finds whatever the last one has left.
LEMMA BeginInv ==
  ASSUME Inv, NEW c \in {"deploy", "delete", "stop"}, NEW o \in Options, Begin(c, o)
  PROVE  Inv'
<1> USE DEF Inv
<1>1. /\ run' = run + 1 /\ op' = c /\ opts' = o /\ st' = "running" /\ run < MaxRuns
      /\ pc' = First(c)
      /\ fresh' = (Deployed => ~Owned /\ spec.replicas = 0 /\ status.replicas = 0)
      /\ UNCHANGED <<objs, spec, status, pod>>
  BY DEF Begin
<1>2. pc' = CASE c = "deploy" -> "configmap" [] c = "delete" -> "statefulset" [] OTHER -> "stop"
  BY <1>1 DEF First
<1>3. run \in Nat /\ MaxRuns \in Nat /\ run' \in 0..MaxRuns
  BY <1>1, OptionsAssumption DEF TypeOK
<1>4. TypeOK'
  BY <1>1, <1>2, <1>3 DEF TypeOK, Calls, Resources, Dependencies, Routes
<1>5. AtCall' /\ Uids'
  BY <1>1, <1>2, <1>3 DEF AtCall, Uids, TypeOK, CreateCalls, Resources, Dependencies, Routes
<1>6. SetSoFar' /\ GoneSoFar' /\ DependenciesFirst'
  BY <1>1, <1>2 DEF SetSoFar, GoneSoFar, DependenciesFirst, Deploying, Deleting, Deployed, Routes
<1>7. FreshPod'
  <2>1. spec.uid \in Nat /\ pod.owner \in Nat /\ spec.uid < run' /\ pod.owner < run'
    BY <1>1, <1>3 DEF Uids, TypeOK
  <2>2. SUFFICES ASSUME c = "deploy", fresh' PROVE FreshPod'
    BY <1>1 DEF FreshPod, Fresh
  <2>3. Deployed' = Deployed /\ Owned' = Owned /\ ~Asked' /\ pc' = "configmap"
    BY <1>1, <1>2, <2>2 DEF Deployed, Owned, Asked
  <2>4. QED
    BY <1>1, <2>1, <2>2, <2>3 DEF FreshPod
<1>8. QED
  BY <1>4, <1>5, <1>6, <1>7

\* A command that ends with an error leaves the resources as they are.
LEMMA StopsInv ==
  ASSUME TypeOK', Uids', DependenciesFirst', st' \in {"error", "killed"}
  PROVE  Inv'
  BY DEF Inv, AtCall, SetSoFar, GoneSoFar, FreshPod, Deploying, Deleting, Fresh

LEMMA FailsInv == ASSUME Inv, CallFails \/ ScaleNotFound PROVE Inv'
<1>1. st' \in {"error", "killed"} /\ UNCHANGED <<op, opts, run, fresh, pc, objs, spec, status, pod>>
  BY DEF CallFails, ScaleNotFound, cmdVars
<1>2. TypeOK' /\ Uids' /\ DependenciesFirst'
  BY <1>1 DEF Inv, TypeOK, Uids, DependenciesFirst, Deployed
<1>3. QED
  BY <1>1, <1>2, StopsInv

\* A Set of Create: types first, then what the next call relies on.
LEMMA CreateInv == ASSUME Inv, NEW r \in Resources, Create(r) PROVE Inv'
<1> USE DEF Inv
<1>1. /\ st = "running" /\ op = "deploy" /\ pc = r
      /\ objs' = [objs EXCEPT ![r] = run]
      /\ Return(CreateNext(r))
      /\ UNCHANGED <<op, opts, run, fresh, pod>>
  BY DEF Create, cmdVars
<1>2. r \in CreateCalls /\ run > 0 /\ run \in 0..MaxRuns /\ MaxRuns \in Nat
  BY <1>1, OptionsAssumption DEF AtCall, TypeOK, CreateCalls, Resources, Dependencies, Routes
<1>3. /\ r # "statefulset" => UNCHANGED <<spec, status>>
      /\ r = "statefulset" =>
           /\ spec' = [uid |-> IF Deployed THEN spec.uid ELSE run, replicas |-> 0,
                       rolling |-> opts.rolling, storage |-> opts.storage]
           /\ status' = IF Deployed THEN status ELSE [replicas |-> 0, ready |-> 0]
  BY DEF Create, SetStatefulSet
<1>4. /\ CreateNext(r) \in CreateCalls \cup {"start"}
      /\ CreateNext(r) # "configmap"
      /\ CreateNext(r) = "start" <=> r = "statefulset"
  BY <1>2 DEF CreateNext, CreateCalls, Dependencies, Routes
<1>5. TypeOK'
  <2>1. objs' \in [Resources -> 0..MaxRuns]
    BY <1>1, <1>2 DEF TypeOK
  <2>2. spec' \in [uid : 0..MaxRuns, replicas : 0..1, rolling : BOOLEAN, storage : BOOLEAN]
        /\ status' \in [replicas : 0..1, ready : 0..1]
    BY <1>2, <1>3, OptionsAssumption DEF TypeOK
  <2>3. pc' \in Calls /\ st' \in {"running", "ok", "error", "killed"}
    BY <1>1, <1>4 DEF Return, TypeOK, Calls, CreateCalls, Resources
  <2>4. QED
    BY <1>1, <2>1, <2>2, <2>3 DEF TypeOK
<1>6. Uids' /\ (Deployed => spec.uid' = spec.uid)
  BY <1>1, <1>2, <1>3 DEF Uids, TypeOK
<1>7. DependenciesFirst'
  <2>1. CASE r = "statefulset"
    BY <1>1, <1>2, <2>1 DEF DependenciesFirst, SetSoFar, Deploying, TypeOK, Resources, Dependencies, Routes
  <2>2. CASE r # "statefulset"
    BY <1>1, <1>2, <2>2 DEF DependenciesFirst, Deployed, TypeOK, Resources, Dependencies, Routes
  <2>3. QED
    BY <2>1, <2>2
<1>8. CASE st' \in {"error", "killed"}
  BY <1>5, <1>6, <1>7, <1>8, StopsInv
<1>9. CASE pc' = CreateNext(r) /\ st' = "running"
  <2>1. AtCall'
    BY <1>1, <1>2, <1>4, <1>9 DEF AtCall
  <2>2. SetSoFar' /\ GoneSoFar'
    <3>1. \A q \in Resources : objs'[q] = IF q = r THEN run ELSE objs[q]
      BY <1>1 DEF TypeOK
    <3>2. GoneSoFar' /\ Deploying /\ run # 0
      BY <1>1, <1>2 DEF GoneSoFar, Deleting, Deploying
    <3>3. CASE r \in {"configmap", "secret", "serviceaccount", "api"}
      BY <1>1, <1>9, <3>1, <3>2, <3>3 DEF SetSoFar, CreateNext, Resources, Dependencies, Routes
    <3>4. CASE r \in Routes
      BY <1>1, <1>9, <3>1, <3>2, <3>4 DEF SetSoFar, CreateNext, Resources, Dependencies, Routes
    <3>5. CASE r \in {"p2p", "wss", "headless"}
      BY <1>1, <1>9, <3>1, <3>2, <3>5 DEF SetSoFar, CreateNext, Resources, Dependencies, Routes
    <3>6. CASE r = "statefulset"
      BY <1>1, <1>9, <3>1, <3>2, <3>6 DEF SetSoFar, CreateNext, Deployed, Resources, Dependencies, Routes
    <3>7. QED
      BY <1>2, <3>2, <3>3, <3>4, <3>5, <3>6 DEF CreateCalls, Dependencies
  <2>3. FreshPod'
    <3>1. SUFFICES ASSUME fresh PROVE FreshPod'
      BY <1>1 DEF FreshPod, Fresh
    <3>2. objs'["configmap"] = run'
      BY <1>1, <1>2, <3>1 DEF FreshPod, Fresh, TypeOK, Resources, Dependencies
    <3>3. ~Asked /\ ~Asked'
      BY <1>1, <1>2, <1>4, <1>9 DEF Asked, CreateCalls, Dependencies, Routes
    <3>4. pod.phase # "none" => pod.owner < run
      BY <1>1, <3>1, <3>3 DEF FreshPod, Fresh
    <3>5. CASE r # "statefulset"
      <4>1. UNCHANGED <<spec, status>> /\ objs'["statefulset"] = objs["statefulset"] /\ pc' # "start"
        BY <1>1, <1>2, <1>3, <1>4, <1>9, <3>5 DEF TypeOK, Resources
      <4>2. Deployed' = Deployed /\ Owned' = Owned
        BY <1>1, <4>1 DEF Deployed, Owned
      <4>3. Fresh /\ pc # "start"
        BY <1>1, <1>2, <3>1 DEF Fresh, CreateCalls, Dependencies, Routes
      <4>4. Deployed => ~Owned /\ spec.replicas = 0 /\ status.replicas = 0 /\ spec.uid < run
        BY <3>3, <4>3 DEF FreshPod
      <4>5. st' # "ok"
        BY <1>9
      <4>6. QED
        BY <1>1, <3>2, <3>3, <3>4, <4>1, <4>2, <4>4, <4>5 DEF FreshPod
    <3>6. CASE r = "statefulset"
      <4>1. objs'["statefulset"] = run /\ pc' = "start"
        BY <1>1, <1>2, <1>4, <1>9, <3>6 DEF TypeOK, Resources
      <4>2. spec'.replicas = 0 /\ spec'.uid = (IF Deployed THEN spec.uid ELSE run)
        BY <1>3, <3>6
      <4>3. status'.replicas = 0
        BY <1>1, <1>3, <3>1, <3>3, <3>6 DEF FreshPod, Fresh
      <4>4. ~Owned'
        BY <1>1, <3>1, <3>3, <3>4, <3>6, <4>2, <1>2 DEF FreshPod, Fresh, Owned, TypeOK
      <4>5. QED
        BY <1>1, <1>2, <1>9, <3>2, <3>3, <3>4, <4>1, <4>2, <4>3, <4>4 DEF FreshPod, Fresh, Deployed
    <3>7. QED
      BY <3>5, <3>6
  <2>4. QED
    BY <1>5, <1>6, <1>7, <2>1, <2>2, <2>3
<1>10. QED
  BY <1>1, <1>4, <1>8, <1>9 DEF Return, CreateCalls, Dependencies, Routes

\* A call of Delete.
LEMMA DeleteInv == ASSUME Inv, NEW r \in Resources, Delete(r) PROVE Inv'
<1> USE DEF Inv
<1>1. /\ st = "running" /\ op = "delete" /\ pc = r
      /\ objs' = [objs EXCEPT ![r] = 0]
      /\ Return(DeleteNext(r))
      /\ UNCHANGED <<op, opts, run, fresh, spec, status, pod>>
  BY DEF Delete, cmdVars
<1>2. run > 0 /\ run \in 0..MaxRuns /\ MaxRuns \in Nat
  BY <1>1, OptionsAssumption DEF AtCall, TypeOK
<1>3. DeleteNext(r) \in (Resources \ {"statefulset"}) \cup {"end"}
  BY DEF DeleteNext, Resources, Dependencies, Routes
<1>4. TypeOK'
  <2>1. objs' \in [Resources -> 0..MaxRuns]
    BY <1>1, <1>2 DEF TypeOK
  <2>2. pc' \in Calls /\ st' \in {"running", "ok", "error", "killed"}
    BY <1>1, <1>3 DEF Return, TypeOK, Calls
  <2>3. QED
    BY <1>1, <2>1, <2>2 DEF TypeOK
<1>5. Uids'
  BY <1>1 DEF Uids
<1>6. \A q \in Resources : objs'[q] = IF q = r THEN 0 ELSE objs[q]
  BY <1>1 DEF TypeOK
<1>7. objs'["statefulset"] = 0
  BY <1>1, <1>6 DEF GoneSoFar, Deleting, Resources
<1>8. DependenciesFirst'
  BY <1>7 DEF DependenciesFirst, Deployed
<1>9. CASE st' \in {"error", "killed"}
  BY <1>4, <1>5, <1>8, <1>9, StopsInv
<1>10. CASE pc' = DeleteNext(r) /\ st' = IF DeleteNext(r) = "end" THEN "ok" ELSE "running"
  <2>1. AtCall'
    BY <1>1, <1>2, <1>3, <1>10 DEF AtCall
  <2>2. SetSoFar' /\ FreshPod'
    BY <1>1 DEF SetSoFar, Deploying, FreshPod, Fresh
  <2>3. GoneSoFar'
    <3>1. Deleting
      BY <1>1 DEF Deleting
    <3>2. CASE r \in {"statefulset", "headless", "p2p", "wss"}
      BY <1>1, <1>6, <1>10, <3>1, <3>2 DEF GoneSoFar, DeleteNext, Resources, Dependencies, Routes
    <3>3. CASE r \in {"ingress", "ingressroute", "api"}
      BY <1>1, <1>6, <1>10, <3>1, <3>3 DEF GoneSoFar, DeleteNext, Resources, Dependencies, Routes
    <3>4. CASE r \in {"serviceaccount", "secret"}
      BY <1>1, <1>6, <1>10, <3>1, <3>4 DEF GoneSoFar, DeleteNext, Resources, Dependencies, Routes
    <3>5. CASE r \in {"configmap", "pvc"}
      BY <1>1, <1>6, <1>10, <3>1, <3>5 DEF GoneSoFar, DeleteNext, Resources, Dependencies, Routes
    <3>6. QED
      BY <3>2, <3>3, <3>4, <3>5 DEF Resources, Dependencies, Routes
  <2>4. QED
    BY <1>4, <1>5, <1>8, <2>1, <2>2, <2>3
<1>11. QED
  BY <1>1, <1>9, <1>10 DEF Return

\* Scaling up or down, and the wait for the node.
LEMMA ScaleInv == ASSUME Inv, Start \/ Stop PROVE Inv'
<1> USE DEF Inv
<1>1. /\ st = "running" /\ pc \in {"start", "stop"} /\ Deployed
      /\ UNCHANGED <<op, opts, run, fresh, objs, status, pod>>
      /\ spec' = [spec EXCEPT !.replicas = IF pc = "start" THEN 1 ELSE 0]
      /\ Return(IF pc = "start" THEN "ready" ELSE "end")
  BY DEF Start, Stop, Scale, cmdVars
<1>2. /\ pc = "start" => op = "deploy"
      /\ pc = "stop" => op = "stop"
      /\ run > 0
  BY <1>1 DEF AtCall, CreateCalls, Resources, Dependencies, Routes
<1>3. TypeOK'
  <2>1. spec' \in [uid : 0..MaxRuns, replicas : 0..1, rolling : BOOLEAN, storage : BOOLEAN]
    BY <1>1 DEF TypeOK
  <2>2. pc' \in Calls /\ st' \in {"running", "ok", "error", "killed"}
    BY <1>1 DEF Return, TypeOK, Calls
  <2>3. QED
    BY <1>1, <2>1, <2>2 DEF TypeOK
<1>4. spec'.uid = spec.uid /\ spec'.replicas = IF pc = "start" THEN 1 ELSE 0
  BY <1>1 DEF TypeOK
<1>5. Uids' /\ DependenciesFirst'
  BY <1>1, <1>4 DEF Uids, DependenciesFirst, Deployed
<1>6. CASE st' \in {"error", "killed"}
  BY <1>3, <1>5, <1>6, StopsInv
<1>7. CASE pc = "stop" /\ pc' = "end" /\ st' = "ok"
  BY <1>1, <1>2, <1>3, <1>5, <1>7 DEF AtCall, SetSoFar, GoneSoFar, FreshPod, Deploying, Deleting, Fresh
<1>8. CASE pc = "start" /\ pc' = "ready" /\ st' = "running"
  <2>1. AtCall' /\ GoneSoFar'
    BY <1>1, <1>2, <1>8 DEF AtCall, GoneSoFar, Deleting
  <2>2. SetSoFar'
    BY <1>1, <1>2, <1>8 DEF SetSoFar, Deploying, Deployed, Routes
  <2>3. FreshPod'
    <3>1. SUFFICES ASSUME fresh PROVE FreshPod'
      BY <1>1 DEF FreshPod, Fresh
    <3>2. Fresh /\ ~Asked /\ Asked'
      BY <1>1, <1>2, <1>8, <3>1 DEF Fresh, Asked
    <3>3. Owned' = Owned /\ Deployed' = Deployed
      BY <1>1, <1>4 DEF Owned, Deployed
    <3>4. /\ objs["configmap"] = run /\ objs["statefulset"] = run
          /\ ~Owned /\ status.replicas = 0
      BY <1>1, <1>8, <3>2 DEF FreshPod
    <3>5. QED
      BY <1>1, <1>4, <1>8, <3>2, <3>3, <3>4 DEF FreshPod
  <2>4. QED
    BY <1>3, <1>5, <2>1, <2>2, <2>3
<1>9. QED
  BY <1>1, <1>6, <1>7, <1>8 DEF Return

LEMMA ReadyInv == ASSUME Inv, Ready PROVE Inv'
<1> USE DEF Inv
<1>1. /\ st = "running" /\ pc = "ready" /\ Deployed /\ status.replicas = status.ready
      /\ UNCHANGED <<op, opts, run, fresh, objs, spec, status, pod>>
      /\ \/ status.ready = 1 /\ pc' = "end" /\ st' = "ok"
         \/ UNCHANGED <<pc, st>>
  BY DEF Ready, IsReady, cmdVars, vars
<1>2. op = "deploy" /\ run > 0
  BY <1>1 DEF AtCall, Resources, Dependencies, Routes
<1>3. TypeOK' /\ Uids' /\ DependenciesFirst' /\ AtCall'
  BY <1>1, <1>2 DEF TypeOK, Calls, Uids, DependenciesFirst, Deployed, AtCall
<1>4. SetSoFar' /\ GoneSoFar'
  BY <1>1, <1>2 DEF SetSoFar, GoneSoFar, Deploying, Deleting, Deployed, Routes
<1>5. FreshPod'
  <2>1. Owned' = Owned /\ Deployed' = Deployed /\ Asked /\ Asked'
    BY <1>1 DEF Owned, Deployed, Asked
  <2>2. QED
    BY <1>1, <1>2, <2>1 DEF FreshPod, Fresh
<1>6. QED
  BY <1>3, <1>4, <1>5

\* Kubernetes disturbs neither the resources nor the pod of a fresh deploy.
LEMMA KubernetesInv == ASSUME Inv, Kubernetes PROVE Inv'
<1> USE DEF Inv
<1>1. UNCHANGED <<op, st, pc, opts, run, spec, fresh>>
  BY DEF Kubernetes, CreatePod, StartPod, TerminatePod, RemovePod, WriteStatus, others
<1>2. CASE CreatePod
  <2>1. /\ Deployed /\ spec.replicas = 1 /\ pod.phase = "none" /\ UNCHANGED status
        /\ pod' = [phase |-> "pending", owner |-> spec.uid, rev |-> objs["statefulset"], config |-> 0]
        /\ objs' \in [Resources -> 0..MaxRuns]
        /\ \A q \in Resources \ {"pvc"} : objs'[q] = objs[q]
    BY <1>2 DEF CreatePod, TypeOK, Resources
  <2>2. TypeOK'
    <3>1. 0 \in 0..MaxRuns /\ objs["statefulset"] \in 0..MaxRuns /\ spec.uid \in 0..MaxRuns
      BY OptionsAssumption DEF TypeOK, Resources
    <3>2. QED
      BY <1>1, <2>1, <3>1 DEF TypeOK
  <2>3. AtCall' /\ Uids' /\ DependenciesFirst' /\ Deployed'
    BY <1>1, <2>1 DEF AtCall, Uids, DependenciesFirst, Deployed, Resources, Dependencies, Routes
  <2>4. SetSoFar'
    BY <1>1, <2>1 DEF SetSoFar, Deploying, Deployed, Resources, Dependencies, Routes
  <2>5. GoneSoFar'
    BY <1>1, <2>1 DEF GoneSoFar, Deleting, Deployed, Resources, Dependencies, Routes
  <2>6. FreshPod'
    <3>1. Fresh => Asked
      BY <2>1 DEF FreshPod
    <3>2. SUFFICES ASSUME Fresh, Asked PROVE FreshPod'
      BY <1>1, <3>1 DEF FreshPod, Fresh
    <3>3. Owned' /\ Asked' /\ ~Owned /\ st # "ok"
      BY <1>1, <2>1, <2>3, <3>2 DEF Owned, Asked, FreshPod
    <3>4. objs'["configmap"] = objs["configmap"] /\ objs'["statefulset"] = objs["statefulset"]
      BY <2>1 DEF Resources, Dependencies
    <3>5. QED
      BY <1>1, <2>1, <2>3, <3>2, <3>3, <3>4 DEF FreshPod
  <2>7. QED
    BY <2>2, <2>3, <2>4, <2>5, <2>6
<1>3. CASE StartPod \/ TerminatePod \/ RemovePod \/ WriteStatus
  <2>1. UNCHANGED objs
    BY <1>3 DEF StartPod, TerminatePod, RemovePod, WriteStatus
  <2>2. AtCall' /\ DependenciesFirst' /\ SetSoFar' /\ GoneSoFar' /\ Deployed' = Deployed
    BY <1>1, <2>1 DEF AtCall, DependenciesFirst, SetSoFar, GoneSoFar, Deploying, Deleting, Deployed
  <2>3. CASE StartPod
    <3>1. /\ pod.phase = "pending" /\ UNCHANGED status
          /\ pod' = [pod EXCEPT !.phase = "running", !.config = objs["configmap"]]
      BY <2>3 DEF StartPod
    <3>2. TypeOK' /\ Uids'
      BY <1>1, <2>1, <3>1 DEF TypeOK, Uids, Resources, Dependencies
    <3>3. pod'.phase = "running" /\ pod'.owner = pod.owner /\ pod'.rev = pod.rev
          /\ pod'.config = objs["configmap"]
      BY <3>1 DEF TypeOK
    <3>4. Owned' = Owned /\ Asked' = Asked /\ Fresh' = Fresh
      BY <1>1, <2>1, <3>1, <3>3 DEF Owned, Deployed, Asked, Fresh
    <3>5. Asked /\ Fresh => objs["configmap"] = run
      BY DEF FreshPod
    <3>6. QED
      BY <1>1, <2>1, <2>2, <3>1, <3>2, <3>3, <3>4, <3>5 DEF FreshPod
  <2>4. CASE TerminatePod
    <3>1. /\ pod.phase \in {"pending", "running"} /\ UNCHANGED status
          /\ pod' = [pod EXCEPT !.phase = "terminating"]
          /\ ~Owned \/ spec.replicas = 0 \/ pod.rev # objs["statefulset"]
      BY <2>4 DEF TerminatePod
    <3>2. TypeOK' /\ Uids'
      BY <1>1, <2>1, <3>1 DEF TypeOK, Uids
    <3>3. pod'.phase = "terminating" /\ pod'.owner = pod.owner
      BY <3>1 DEF TypeOK
    <3>4. Owned' = Owned /\ Asked' = Asked /\ Fresh' = Fresh
      BY <1>1, <2>1, <3>1, <3>3 DEF Owned, Deployed, Asked, Fresh
    <3>5. Fresh /\ Asked => ~Owned
      BY <3>1 DEF FreshPod, TypeOK
    <3>6. st = "ok" => Asked
      BY DEF Asked
    <3>7. Fresh => st # "ok"
      BY <3>5, <3>6 DEF FreshPod
    <3>8. FreshPod'
      <4>1. SUFFICES ASSUME Fresh PROVE FreshPod'
        BY <3>4 DEF FreshPod
      <4>2. CASE Asked
        BY <1>1, <2>1, <2>2, <3>1, <3>4, <3>5, <3>7, <4>1, <4>2 DEF FreshPod
      <4>3. CASE ~Asked
        BY <1>1, <2>1, <2>2, <3>1, <3>3, <3>4, <3>7, <4>1, <4>3 DEF FreshPod
      <4>4. QED
        BY <4>2, <4>3
    <3>9. QED
      BY <2>2, <3>2, <3>8
  <2>5. CASE RemovePod
    <3>1. pod.phase = "terminating" /\ UNCHANGED status /\ pod' = NoPod
      BY <2>5 DEF RemovePod
    <3>2. TypeOK' /\ Uids'
      <4>1. 0 \in 0..MaxRuns /\ run >= 0
        BY OptionsAssumption DEF TypeOK
      <4>2. QED
        BY <1>1, <2>1, <3>1, <4>1 DEF TypeOK, Uids, NoPod
    <3>3. ~Owned' /\ pod'.phase = "none" /\ Asked' = Asked /\ Fresh' = Fresh
      BY <1>1, <3>1 DEF Owned, NoPod, Asked, Fresh
    <3>4. Fresh /\ Asked => ~Owned
      BY <3>1 DEF FreshPod
    <3>5. QED
      BY <1>1, <2>1, <2>2, <3>1, <3>2, <3>3, <3>4 DEF FreshPod
  <2>6. CASE WriteStatus
    <3>1. /\ UNCHANGED pod
          /\ status' = [replicas |-> IF Owned THEN 1 ELSE 0,
                        ready |-> IF Owned /\ pod.phase = "running" THEN 1 ELSE 0]
      BY <2>6 DEF WriteStatus
    <3>2. TypeOK' /\ Uids'
      BY <1>1, <2>1, <3>1 DEF TypeOK, Uids
    <3>3. Owned' = Owned /\ Asked' = Asked /\ Fresh' = Fresh
      BY <1>1, <2>1, <3>1 DEF Owned, Deployed, Asked, Fresh
    <3>4. status'.ready = 1 => Owned /\ pod.phase = "running"
      BY <3>1
    <3>5. ~Owned => status'.replicas = 0
      BY <3>1
    <3>6. QED
      BY <1>1, <2>1, <2>2, <3>1, <3>2, <3>3, <3>4, <3>5 DEF FreshPod
  <2>7. QED
    BY <1>3, <2>3, <2>4, <2>5, <2>6
<1>4. QED
  BY <1>2, <1>3 DEF Kubernetes

LEMMA NextInv == Inv /\ [Next]_vars => Inv'
<1> SUFFICES ASSUME Inv, [Next]_vars PROVE Inv'
  OBVIOUS
<1>1. CASE UNCHANGED vars
  BY <1>1 DEF vars, Inv, TypeOK, AtCall, Uids, SetSoFar, GoneSoFar, DependenciesFirst, FreshPod,
     Deploying, Deleting, Fresh, Asked, Deployed, Owned
<1>2. CASE Command
  BY <1>2, CreateInv, DeleteInv, ScaleInv, FailsInv, ReadyInv DEF Command
<1>3. QED
  BY <1>1, <1>2, BeginInv, FailsInv, KubernetesInv DEF Next

LEMMA InvAlways == Spec => []Inv
  BY InitInv, NextInv, PTL DEF Spec

-----------------------------------------------------------------------------
\* Type correctness of the command, the resources and the pod.
THEOREM TypeCorrect == Spec => []TypeOK
<1>1. Inv => TypeOK
  BY DEF Inv
<1>2. QED
  BY <1>1, InvAlways, PTL

\* For any configurations, any failures and any sequence of commands, there is
\* no StatefulSet without the resources Create sets before it.
THEOREM DependenciesFirstHolds == Spec => []DependenciesFirst
<1>1. Inv => DependenciesFirst
  BY DEF Inv
<1>2. QED
  BY <1>1, InvAlways, PTL

\* For any configurations and any earlier commands, a delete that returns no
\* error has removed every resource any deploy may have created.
THEOREM DeleteLeavesNothingHolds == Spec => []DeleteLeavesNothing
<1>1. Inv => DeleteLeavesNothing
  BY DEF Inv, AtCall, GoneSoFar, Deleting, DeleteLeavesNothing, Resources, Dependencies, Routes
<1>2. QED
  BY <1>1, InvAlways, PTL

\* For any configurations and any earlier commands, a deploy that began without
\* an older pod reports success only with a pod running its configuration.
THEOREM ReadyRunsNewConfigHolds == Spec => []ReadyRunsNewConfig
<1>1. Inv => ReadyRunsNewConfig
  BY DEF Inv, FreshPod, Fresh, Asked, ReadyRunsNewConfig
<1>2. QED
  BY <1>1, InvAlways, PTL
=============================================================================
