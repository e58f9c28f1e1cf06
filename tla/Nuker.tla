-------------------------------- MODULE Nuker --------------------------------
(***************************************************************************)
(* The nuke command (pkg/nuker/nuker.go): for one StatefulSet after the    *)
(* other, Client.Run puts the "bee db nuke" command into the pod template, *)
(* recreates the pods so that each runs it once, and rolls the StatefulSet *)
(* back to its original shape with the restart command.  In both halves    *)
(* recreatePodsAndWait runs one waiting goroutine per pod beside one that  *)
(* deletes the pods; the goroutines share an errgroup, whose context the   *)
(* first error cancels.                                                    *)
(*                                                                         *)
(* The waiting functions are those of pkg/k8s/pod/client.go.  The API      *)
(* server, the StatefulSet controller and the kubelet are external.  Watch *)
(* events arrive in order and none is lost once a watch is open, so that a *)
(* watcher is advanced by the step that causes the event.                  *)
(***************************************************************************)
EXTENDS Naturals, FiniteSets

CONSTANTS
  Sets,      \* the StatefulSets of the namespace
  Targets,   \* the sets of them a command may select
  Replicas,  \* number of pods of each of them
  OnDelete   \* those whose own update strategy is OnDelete

ASSUME SetsAssumption ==
  /\ Replicas \in [Sets -> Nat]
  /\ OnDelete \subseteq Sets
  /\ "none" \notin Sets
  /\ Targets \subseteq SUBSET Sets

Pods(s) == 1..Replicas[s]
AllPods == UNION {{s} \X Pods(s) : s \in Sets}
Ordinals == UNION {Pods(s) : s \in Sets}

VARIABLES
  targets,   \* the StatefulSets the command has selected
  pc,        \* where Run is
  todo,      \* StatefulSets not visited yet
  cur,       \* the StatefulSet being updated
  err,       \* updateAndRollbackStatefulSet will return an error
  cancelled, \* the command's context has ended (timeout, interrupt)
  w,         \* the waiting goroutine of each pod of cur
  del,       \* number of pods the deleting goroutine has deleted
  deleter,   \* state of that goroutine
  gerr,      \* some goroutine of the errgroup has returned an error
  template,  \* pod template and update strategy of each StatefulSet
  pods,      \* command and phase of each pod
  nuked,     \* history: pods whose nuke command has completed
  badRollback \* history: StatefulSets whose rollback failed and was logged

mainVars == <<todo, cur, err>>
groupVars == <<w, del, deleter, gerr>>
history == <<targets, nuked, badRollback>>
vars == <<pc, mainVars, cancelled, groupVars, template, pods, history>>

Original(s) == [cmd |-> "original", onDelete |-> s \in OnDelete, probes |-> TRUE]
Restored(s) == [cmd |-> "restart", onDelete |-> s \in OnDelete, probes |-> TRUE]
NukeTemplate == [cmd |-> "nuke", onDelete |-> TRUE, probes |-> FALSE]

WaitPhases == {"nuke", "rollback"}
Ended == pc \in {"ok", "failed"}

Init ==
  /\ targets \in Targets /\ todo = targets
  /\ pc = "next" /\ cur = "none" /\ err = FALSE
  /\ cancelled = FALSE
  /\ w = [i \in Ordinals |-> "idle"] /\ del = 0 /\ deleter = "done" /\ gerr = FALSE
  /\ template = [s \in Sets |-> Original(s)]
  /\ pods = [p \in AllPods |-> [cmd |-> "original", phase |-> "running"]]
  /\ nuked = {} /\ badRollback = {}

-----------------------------------------------------------------------------
(* Run.                                                                     *)

HasReplicas(s) == Replicas[s] > 0

\* The loop takes the next StatefulSet (Go map order, or that of the flag) and
\* skips it when it has no replicas.
TakeNext(s) ==
  /\ pc = "next" /\ s \in todo
  /\ todo' = todo \ {s}
  /\ IF HasReplicas(s) THEN cur' = s /\ pc' = "update" ELSE UNCHANGED <<cur, pc>>
  /\ UNCHANGED <<err, cancelled, groupVars, template, pods, history>>

\* The neighborhood arguments cannot be had, or the StatefulSet has no bee
\* container: Run returns before anything of it is touched.
GiveUp(s) ==
  /\ pc = "next" /\ s \in todo /\ HasReplicas(s)
  /\ pc' = "failed"
  /\ UNCHANGED <<mainVars, cancelled, groupVars, template, pods, history>>

\* recreatePodsAndWait starts its goroutines.
StartGroup(phase) ==
  /\ pc' = phase
  /\ w' = [i \in Ordinals |-> IF i \in Pods(cur) THEN "start" ELSE "idle"]
  /\ del' = 0 /\ deleter' = "running"
  /\ gerr' = FALSE

WithNuke == [template EXCEPT ![cur] = NukeTemplate]

\* The template is changed under RetryOnConflict and the pods are recreated.
Update ==
  /\ pc = "update" /\ ~cancelled
  /\ template' = WithNuke
  /\ StartGroup("nuke")
  /\ UNCHANGED <<mainVars, cancelled, pods, history>>

\* The update fails, with or without effect; the deferred rollback runs.
UpdateFails ==
  /\ pc = "update"
  /\ template' \in {template} \cup (IF cancelled THEN {} ELSE {WithNuke})
  /\ err' = TRUE /\ pc' = "restore"
  /\ UNCHANGED <<todo, cur, cancelled, groupVars, pods, history>>

\* Mutant: the readiness probes are not put back.
RestoredTemplate_NoProbes(s) == [Restored(s) EXCEPT !.probes = FALSE]

\* Mutant: the restart command is not put into the template.
RestoredTemplate_NoCommand(s) == [Restored(s) EXCEPT !.cmd = "nuke"]

RestoredTemplate(s) == Restored(s)

Rollback ==
  /\ pc = "restore" /\ ~cancelled
  /\ template' = [template EXCEPT ![cur] = RestoredTemplate(cur)]
  /\ StartGroup("rollback")
  /\ UNCHANGED <<mainVars, cancelled, pods, history>>

\* updateAndRollbackStatefulSet returns: with the error of its own work, never
\* with one of the rollback.
Returned == pc' = IF err THEN "failed" ELSE "next"

\* Putting the template back fails, with or without effect: the error is logged
\* and dropped, and no pod is recreated.
RollbackFails ==
  /\ pc = "restore"
  /\ template' \in {template} \cup
       (IF cancelled THEN {} ELSE {[template EXCEPT ![cur] = RestoredTemplate(cur)]})
  /\ badRollback' = badRollback \cup {cur}
  /\ Returned
  /\ UNCHANGED <<mainVars, cancelled, groupVars, pods, targets, nuked>>

\* All goroutines of the group have returned.
Finished == deleter # "running" /\ \A i \in Pods(cur) : w[i] \in {"ok", "err"}

\* Mutant: the error of the group is only logged in the first half as well.
NukeResult_Dropped == FALSE

NukeResult == gerr

\* g.Wait() returns.
Wait ==
  /\ pc \in WaitPhases
  /\ Finished
  /\ \/ /\ pc = "nuke"
        /\ err' = NukeResult
        /\ pc' = "restore"
        /\ UNCHANGED badRollback
     \/ /\ pc = "rollback"
        /\ badRollback' = IF gerr THEN badRollback \cup {cur} ELSE badRollback
        /\ Returned
        /\ UNCHANGED err
  /\ UNCHANGED <<todo, cur, cancelled, groupVars, template, pods, targets, nuked>>

Succeed ==
  /\ pc = "next" /\ todo = {}
  /\ pc' = "ok"
  /\ UNCHANGED <<mainVars, cancelled, groupVars, template, pods, history>>

\* The command's context ends.
Cancel ==
  /\ ~cancelled /\ ~Ended
  /\ cancelled' = TRUE
  /\ UNCHANGED <<pc, mainVars, groupVars, template, pods, history>>

-----------------------------------------------------------------------------
(* The goroutines of the errgroup.                                          *)
Live == ~cancelled /\ ~gerr

EndWatch(i, r) ==
  /\ w' = [w EXCEPT ![i] = r]
  /\ gerr' = (gerr \/ r = "err")

\* WaitForPodRecreationAndCompletion opens its watch and waits for a deletion.
OpenWatch(i) ==
  /\ pc = "nuke" /\ w[i] = "start" /\ Live
  /\ w' = [w EXCEPT ![i] = "WaitingForDeletion"]
  /\ UNCHANGED <<pc, mainVars, cancelled, del, deleter, gerr, template, pods, history>>

\* The watcher has seen the nuke command complete, or fail.
WatchDone(i) ==
  /\ pc = "nuke" /\ w[i] \in {"Completed", "Error"}
  /\ EndWatch(i, IF w[i] = "Completed" THEN "ok" ELSE "err")
  /\ UNCHANGED <<pc, mainVars, cancelled, del, deleter, template, pods, history>>

\* The phase of a pod as the API reports it; StatefulSet pods restart their
\* containers, so a pod stays Running when its command has ended.
PodPhase(p) ==
  CASE pods[p].phase = "none" -> "NotFound"
    [] pods[p].phase = "pending" -> "Pending"
    [] OTHER -> "Running"

\* WaitForRunning: one poll.
PollRunning(i) ==
  /\ pc = "rollback" /\ w[i] = "start" /\ Live
  /\ PodPhase(<<cur, i>>) # "Pending"
  /\ EndWatch(i, IF PodPhase(<<cur, i>>) = "Running" THEN "ok" ELSE "err")
  /\ UNCHANGED <<pc, mainVars, cancelled, del, deleter, template, pods, history>>

\* A waiting goroutine gives up: the context has ended, five minutes have
\* passed without the awaited events, or a call to the API fails.
GiveUpWaiting(i) ==
  /\ pc \in WaitPhases
  /\ w[i] \notin {"idle", "ok", "err"}
  /\ EndWatch(i, "err")
  /\ UNCHANGED <<pc, mainVars, cancelled, del, deleter, template, pods, history>>

\* What the event of a pod's step does to the watcher of that pod.
Event(p, from, to) ==
  IF p[1] = cur /\ pc = "nuke" /\ w[p[2]] = from
    THEN w' = [w EXCEPT ![p[2]] = to] ELSE UNCHANGED w

Deleted == del + 1

\* The deleting goroutine deletes the next pod; a pod that is gone is passed.
DeleteNext ==
  /\ pc \in WaitPhases /\ deleter = "running"
  /\ del < Replicas[cur] /\ Live
  /\ del' = Deleted
  /\ LET p == <<cur, del + 1>> IN
       pods' = IF pods[p].phase # "none"
                 THEN [pods EXCEPT ![p].phase = "terminating"] ELSE pods
  /\ UNCHANGED <<pc, mainVars, cancelled, w, deleter, gerr, template, history>>

DeleteDone ==
  /\ pc \in WaitPhases /\ deleter = "running"
  /\ del = Replicas[cur]
  /\ deleter' = "done"
  /\ UNCHANGED <<pc, mainVars, cancelled, w, del, gerr, template, pods, history>>

\* A deletion fails, or the group's context has ended.
DeleteFails ==
  /\ pc \in WaitPhases /\ deleter = "running"
  /\ del < Replicas[cur]
  /\ deleter' = "err" /\ gerr' = TRUE
  /\ UNCHANGED <<pc, mainVars, cancelled, w, del, template, pods, history>>

Group ==
  \/ \E i \in Ordinals : OpenWatch(i) \/ WatchDone(i) \/ PollRunning(i) \/ GiveUpWaiting(i)
  \/ DeleteNext \/ DeleteDone \/ (~Live /\ DeleteFails)

Main == (\E s \in Sets : TakeNext(s)) \/ Wait \/ Succeed
        \/ Update \/ Rollback \/ (cancelled /\ (UpdateFails \/ RollbackFails))

Failures == (\E s \in Sets : GiveUp(s)) \/ UpdateFails \/ RollbackFails \/ Cancel
            \/ DeleteFails

-----------------------------------------------------------------------------
(* Kubernetes.                                                              *)
others == <<pc, mainVars, cancelled, del, deleter, gerr, template, targets, badRollback>>

\* The controller of a StatefulSet that is updated by itself replaces a pod
\* that runs an older command.
ReplacePod(p) ==
  /\ pods[p].phase \notin {"none", "terminating"}
  /\ ~template[p[1]].onDelete /\ pods[p].cmd # template[p[1]].cmd
  /\ pods' = [pods EXCEPT ![p].phase = "terminating"]
  /\ UNCHANGED <<others, w, nuked>>

RemovePod(p) ==
  /\ pods[p].phase = "terminating"
  /\ pods' = [pods EXCEPT ![p].phase = "none"]
  /\ Event(p, "WaitingForDeletion", "WaitingForCreation")
  /\ UNCHANGED <<others, nuked>>

RecreatePod(p) ==
  /\ pods[p].phase = "none"
  /\ pods' = [pods EXCEPT ![p] = [cmd |-> template[p[1]].cmd, phase |-> "pending"]]
  /\ Event(p, "WaitingForCreation", "WaitingForRunning")
  /\ UNCHANGED <<others, nuked>>

\* The container starts, or starts again after its command has ended.
RunPod(p) ==
  /\ pods[p].phase \in {"pending", "completed", "failed"}
  /\ pods' = [pods EXCEPT ![p].phase = "running"]
  /\ Event(p, "WaitingForRunning", "WaitingForCompletion")
  /\ UNCHANGED <<others, nuked>>

CompletePod(p) ==
  /\ pods[p].phase = "running" /\ pods[p].cmd = "nuke"
  /\ pods' = [pods EXCEPT ![p].phase = "completed"]
  /\ nuked' = nuked \cup {p}
  /\ Event(p, "WaitingForCompletion", "Completed")
  /\ UNCHANGED others

NukePodFails(p) ==
  /\ pods[p].phase = "running" /\ pods[p].cmd = "nuke"
  /\ pods' = [pods EXCEPT ![p].phase = "failed"]
  /\ Event(p, "WaitingForCompletion", "Error")
  /\ UNCHANGED <<others, nuked>>

Kubernetes(p) == ReplacePod(p) \/ RemovePod(p) \/ RecreatePod(p) \/ RunPod(p) \/ CompletePod(p)

Next ==
  \/ Main \/ Group \/ Failures
  \/ \E p \in AllPods : Kubernetes(p) \/ NukePodFails(p)
  \/ Ended /\ UNCHANGED vars

\* Run and its goroutines go on (waits end by their timeout at the latest),
\* and Kubernetes brings every pod to the state its StatefulSet asks for.
Fairness ==
  /\ WF_vars(Main) /\ WF_vars(Group)
  /\ \A p \in AllPods : WF_vars(ReplacePod(p)) /\ WF_vars(RemovePod(p))
                        /\ WF_vars(RecreatePod(p)) /\ WF_vars(RunPod(p))

Spec == Init /\ [][Next]_vars
FairSpec == Spec /\ Fairness

-----------------------------------------------------------------------------
Watching == {"WaitingForDeletion", "WaitingForCreation", "WaitingForRunning",
             "WaitingForCompletion", "Completed", "Error"}

\* When Run returns no error, the nuke command has completed in every pod of
\* every StatefulSet selected and in no other, whatever the watchers and the deleter interleaved with.
SuccessMeansNuked == pc = "ok" => nuked = {p \in AllPods : p[1] \in targets}

\* At most the StatefulSet at hand deviates from its original shape, wherever
\* the run stops: each one before it has its command, update strategy and
\* readiness probes back, or the failure of its rollback has been logged, and
\* neither the template nor a pod of one still to come has been touched.
OthersRestored ==
  /\ \A s \in Sets : s # cur \/ pc \in {"next", "ok", "failed"} =>
       template[s] \in {Original(s), Restored(s)} \/ s \in badRollback
  /\ \A s \in todo : template[s] = Original(s) /\
       \A i \in Pods(s) : pods[<<s, i>>] = [cmd |-> "original", phase |-> "running"]

\* Run ends, and unless a rollback has failed, no pod goes on with the nuke
\* command afterwards: each one ends up running the restart command, or never
\* left its original.
PodsReturn ==
  <>(Ended /\ (badRollback = {} =>
       \A p \in AllPods : pods[p].phase = "running" /\ pods[p].cmd # "nuke"))

\* nuker.go:214 "Ensure rollback happens regardless of success or failure": no
\* StatefulSet is left with the nuke command when Run has returned.
RollbackHappens == Ended => \A s \in Sets : template[s].cmd # "nuke"
=============================================================================
