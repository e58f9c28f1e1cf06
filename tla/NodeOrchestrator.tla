--------------------------- MODULE NodeOrchestrator ---------------------------
(***************************************************************************)
(* One Bee node inside Kubernetes: nodeOrchestrator.Create, Delete, Start, *)
(* Stop and Ready (pkg/orchestration/k8s/orchestrator.go), as the commands *)
(* that deploy a node (NodeGroup.createNode, startNode) and delete it      *)
(* (deleteCluster) call them.  A command is a sequence of API calls.  Each *)
(* call may fail, before or after it took effect, and the process may die  *)
(* between two calls; the operator then runs the same or another command,  *)
(* possibly with a changed configuration.                                  *)
(*                                                                         *)
(* The StatefulSet controller, the kubelet and the garbage collector are   *)
(* external: they are modelled from what the code waits for and relies on. *)
(***************************************************************************)
EXTENDS Naturals

CONSTANTS
  Options,  \* configurations a command may run with
  MaxRuns   \* bound on the number of commands

ASSUME OptionsAssumption ==
  /\ Options \subseteq [traefik : BOOLEAN, wss : BOOLEAN, rolling : BOOLEAN, storage : BOOLEAN]
  /\ MaxRuns \in Nat

\* What every deployment creates before its StatefulSet, whatever its options.
Dependencies == {"configmap", "secret", "serviceaccount", "api", "p2p", "headless"}
Routes       == {"ingress", "ingressroute"}
Resources    == Dependencies \cup Routes \cup {"wss", "statefulset", "pvc"}

VARIABLES
  op,      \* the command: "deploy", "delete" or "stop"
  st,      \* "running", or how the last command ended
  pc,      \* the call the command is at, or failed at
  opts,    \* the configuration the command runs with
  run,     \* number of commands so far; names the revision a command writes
  objs,    \* revision of each resource, 0 when it does not exist
  spec,    \* spec of the StatefulSet: uid, replicas, update strategy
  status,  \* status of the StatefulSet as the controller last wrote it
  pod,     \* the pod <name>-0
  fresh    \* history: nothing of an older pod was left when the deploy began

vars == <<op, st, pc, opts, run, objs, spec, status, pod, fresh>>
cmdVars == <<op, opts, run, fresh>>

NoPod == [phase |-> "none", owner |-> 0, rev |-> 0, config |-> 0]
Deployed == objs["statefulset"] # 0
Owned == Deployed /\ pod.phase # "none" /\ pod.owner = spec.uid

Init ==
  /\ op = "none" /\ st = "ok" /\ pc = "none"
  /\ opts \in Options
  /\ run = 0
  /\ objs = [r \in Resources |-> 0]
  /\ spec = [uid |-> 0, replicas |-> 0, rolling |-> FALSE, storage |-> FALSE]
  /\ status = [replicas |-> 0, ready |-> 0]
  /\ pod = NoPod
  /\ fresh = FALSE

-----------------------------------------------------------------------------
\* First call of a command.
First(c) == CASE c = "deploy" -> "configmap" [] c = "delete" -> "statefulset" [] OTHER -> "stop"

Begin(c, o) ==
  /\ st # "running"
  /\ run < MaxRuns
  /\ run' = run + 1
  /\ op' = c /\ opts' = o /\ pc' = First(c) /\ st' = "running"
  /\ fresh' = (Deployed => ~Owned /\ spec.replicas = 0 /\ status.replicas = 0)
  /\ UNCHANGED <<objs, spec, status, pod>>

\* A call returns: on success the command goes on to the next call or is done.
\* On an error, which may reach the command although the call took effect, the
\* command returns; it may also be killed.
Return(next) ==
  \/ pc' = next /\ st' = IF next = "end" THEN "ok" ELSE "running"
  \/ pc' = pc /\ st' \in {"error", "killed"}

\* A call fails without effect (a port that does not parse, an API error, the
\* end of the command's context) or the command is killed before it.
CallFails ==
  /\ st = "running"
  /\ st' \in {"error", "killed"}
  /\ UNCHANGED <<cmdVars, pc, objs, spec, status, pod>>

\* Mutant: the headless service is created after the StatefulSet.
CreateNext_HeadlessLast(r) ==
  CASE r = "configmap" -> "secret" [] r = "secret" -> "serviceaccount"
    [] r = "serviceaccount" -> "api" [] r = "api" -> "ingress"
    [] r \in Routes -> "p2p" [] r \in {"p2p", "wss"} -> "statefulset"
    [] r = "statefulset" -> "headless" [] r = "headless" -> "start" [] OTHER -> "end"

\* The order of the calls in Create, with startNode after it.
CreateNext(r) ==
  CASE r = "configmap" -> "secret"
    [] r = "secret" -> "serviceaccount"
    [] r = "serviceaccount" -> "api"
    [] r = "api" -> IF opts.traefik THEN "ingressroute" ELSE "ingress"
    [] r \in Routes -> "p2p"
    [] r = "p2p" -> IF opts.wss THEN "wss" ELSE "headless"
    [] r = "wss" -> "headless"
    [] r = "headless" -> "statefulset"
    [] r = "statefulset" -> "start"

\* StatefulSet.Set with Replicas 0.  An update leaves uid and status alone.
SetStatefulSet ==
  /\ spec' = [uid |-> IF Deployed THEN spec.uid ELSE run, replicas |-> 0,
              rolling |-> opts.rolling, storage |-> opts.storage]
  /\ status' = IF Deployed THEN status ELSE [replicas |-> 0, ready |-> 0]

\* One Set of Create: the resource is updated, or created if it is not there.
Create(r) ==
  /\ st = "running" /\ op = "deploy" /\ pc = r
  /\ objs' = [objs EXCEPT ![r] = run]
  /\ IF r = "statefulset" THEN SetStatefulSet ELSE UNCHANGED <<spec, status>>
  /\ Return(CreateNext(r))
  /\ UNCHANGED <<cmdVars, pod>>

\* Mutant: only the ingress of the current configuration is deleted.
DeleteNext_OneRoute(r) ==
  CASE r = "statefulset" -> "headless" [] r = "headless" -> "p2p" [] r = "p2p" -> "wss"
    [] r = "wss" -> IF opts.traefik THEN "ingressroute" ELSE "ingress"
    [] r \in Routes -> "api" [] r = "api" -> "serviceaccount"
    [] r = "serviceaccount" -> "secret" [] r = "secret" -> "configmap"
    [] r = "configmap" -> IF opts.storage THEN "pvc" ELSE "end" [] OTHER -> "end"

\* The order of the calls in Delete; deleteCluster then deletes the volume
\* claim when asked to and when the node group's profile has persistence.
DeleteNext(r) ==
  CASE r = "statefulset" -> "headless"
    [] r = "headless" -> "p2p"
    [] r = "p2p" -> "wss"
    [] r = "wss" -> "ingress"
    [] r = "ingress" -> "ingressroute"
    [] r = "ingressroute" -> "api"
    [] r = "api" -> "serviceaccount"
    [] r = "serviceaccount" -> "secret"
    [] r = "secret" -> "configmap"
    [] r = "configmap" -> IF opts.storage THEN "pvc" ELSE "end"
    [] r = "pvc" -> "end"

\* One call of Delete; a resource that is not there counts as deleted.
Delete(r) ==
  /\ st = "running" /\ op = "delete" /\ pc = r
  /\ objs' = [objs EXCEPT ![r] = 0]
  /\ Return(DeleteNext(r))
  /\ UNCHANGED <<cmdVars, spec, status, pod>>

\* StatefulSet.Scale.
Scale(n) ==
  /\ Deployed
  /\ spec' = [spec EXCEPT !.replicas = n]
  /\ UNCHANGED <<cmdVars, objs, status, pod>>

Start ==
  /\ st = "running" /\ pc = "start"
  /\ Scale(1)
  /\ Return("ready")

Stop ==
  /\ st = "running" /\ pc = "stop"
  /\ Scale(0)
  /\ Return("end")

\* Mutant: the number of ready replicas is not looked at.
IsReady_AnyCount(r) == TRUE

\* Mutant: startNode waits until no replica is left.
IsReady_Zero(r) == r = 0

\* The result of Ready for the number of ready replicas the watch returned.
IsReady(r) == r = 1

(* startNode's loop around ReadyReplicasWatch.  The watch returns for a     *)
(* status with as many ready replicas as replicas, zero of both included;   *)
(* the loop ends when there is exactly one.                                 *)
Ready ==
  /\ st = "running" /\ pc = "ready"
  /\ Deployed
  /\ status.replicas = status.ready
  /\ IF IsReady(status.ready)
       THEN /\ pc' = "end" /\ st' = "ok"
            /\ UNCHANGED <<cmdVars, objs, spec, status, pod>>
       ELSE UNCHANGED vars

\* Scale on a StatefulSet that is not there.
ScaleNotFound ==
  /\ st = "running" /\ pc \in {"start", "stop"}
  /\ ~Deployed
  /\ st' = "error"
  /\ UNCHANGED <<cmdVars, pc, objs, spec, status, pod>>

Command ==
  \/ Start \/ Stop \/ ScaleNotFound \/ Ready
  \/ \E r \in Resources : Create(r) \/ Delete(r)

-----------------------------------------------------------------------------
(* Kubernetes.                                                              *)
others == <<op, st, pc, opts, run, spec, fresh>>

\* The controller creates the pod, and its volume claim when there is none.
CreatePod ==
  /\ Deployed /\ spec.replicas = 1 /\ pod.phase = "none"
  /\ pod' = [phase |-> "pending", owner |-> spec.uid, rev |-> objs["statefulset"], config |-> 0]
  /\ objs' = IF spec.storage /\ objs["pvc"] = 0
               THEN [objs EXCEPT !["pvc"] = objs["statefulset"]] ELSE objs
  /\ UNCHANGED <<others, status>>

\* The kubelet starts the containers once everything they mount is there.
StartPod ==
  /\ pod.phase = "pending"
  /\ \A r \in {"configmap", "secret", "serviceaccount"} : objs[r] # 0
  /\ pod' = [pod EXCEPT !.phase = "running", !.config = objs["configmap"]]
  /\ UNCHANGED <<others, objs, status>>

\* Scaled down, replaced by a rolling update, or collected with its owner.
TerminatePod ==
  /\ pod.phase \in {"pending", "running"}
  /\ \/ ~Owned
     \/ Owned /\ spec.replicas = 0
     \/ Owned /\ spec.rolling /\ pod.rev # objs["statefulset"]
  /\ pod' = [pod EXCEPT !.phase = "terminating"]
  /\ UNCHANGED <<others, objs, status>>

RemovePod ==
  /\ pod.phase = "terminating"
  /\ pod' = NoPod
  /\ UNCHANGED <<others, objs, status>>

WriteStatus ==
  /\ Deployed
  /\ status' = [replicas |-> IF Owned THEN 1 ELSE 0,
                ready |-> IF Owned /\ pod.phase = "running" THEN 1 ELSE 0]
  /\ UNCHANGED <<others, objs, pod>>

Kubernetes == CreatePod \/ StartPod \/ TerminatePod \/ RemovePod \/ WriteStatus

Next ==
  \/ \E c \in {"deploy", "delete", "stop"}, o \in Options : Begin(c, o)
  \/ Command \/ CallFails
  \/ Kubernetes
  \/ st # "running" /\ run = MaxRuns /\ UNCHANGED vars

\* The command goes on with its calls (no failure is forced on it, so that one
\* that waits ends only by what it waits for); Kubernetes does what it is asked.
Fairness ==
  /\ WF_vars(Command)
  /\ WF_vars(CreatePod) /\ WF_vars(StartPod) /\ WF_vars(TerminatePod)
  /\ WF_vars(RemovePod) /\ WF_vars(WriteStatus)

Spec == Init /\ [][Next]_vars
FairSpec == Spec /\ Fairness

-----------------------------------------------------------------------------
Calls == Resources \cup {"none", "start", "ready", "stop", "end"}

\* Types of the variables.
TypeOK ==
  /\ op \in {"none", "deploy", "delete", "stop"}
  /\ st \in {"running", "ok", "error", "killed"}
  /\ pc \in Calls
  /\ opts \in Options
  /\ run \in 0..MaxRuns
  /\ objs \in [Resources -> 0..MaxRuns]
  /\ spec \in [uid : 0..MaxRuns, replicas : 0..1, rolling : BOOLEAN, storage : BOOLEAN]
  /\ status \in [replicas : 0..1, ready : 0..1]
  /\ pod \in [phase : {"none", "pending", "running", "terminating"},
              owner : 0..MaxRuns, rev : 0..MaxRuns, config : 0..MaxRuns]
  /\ fresh \in BOOLEAN

\* Whatever calls fail and whatever commands follow each other, a StatefulSet
\* never stands without what its pods mount, run as and are reached through.
DependenciesFirst ==
  Deployed => /\ \A r \in Dependencies : objs[r] # 0
              /\ \E r \in Routes : objs[r] # 0

\* A delete that succeeds leaves no resource behind, also of deployments made
\* with other options (ingress class, wss port) or given up half way.
DeleteLeavesNothing ==
  op = "delete" /\ st = "ok" =>
    \A r \in Resources : objs[r] # 0 => r = "pvc" /\ ~opts.storage

\* A deploy that starts without an older pod reports success only when a pod
\* of its own StatefulSet runs with the configuration this deploy has written.
ReadyRunsNewConfig ==
  op = "deploy" /\ st = "ok" /\ fresh =>
    Owned /\ pod.phase = "running" /\ pod.config = run

\* Every command ends: startNode's loop does not wait for a node that can
\* never become ready, whatever state earlier commands have left.
CommandEnds == (st = "running") ~> (st # "running")
=============================================================================
