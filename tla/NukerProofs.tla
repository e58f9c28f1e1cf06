----------------------------- MODULE NukerProofs -----------------------------
(***************************************************************************)
(* Safety of Nuker for every namespace: any StatefulSets, any number of    *)
(* pods of each, any selection of them, and any interleaving of Run, of    *)
(* its goroutines, of the failures and of Kubernetes.                      *)
(*                                                                         *)
(* Both results rest on what a StatefulSet is owed at each place of the    *)
(* loop.  One still to come is as it was, and Kubernetes leaves it alone.  *)
(* The one at hand has been nuked in all its pods once g.Wait() of the     *)
(* first half has returned nil: a waiting goroutine returns nil only after *)
(* the event of its own pod, and one that returns an error leaves it in    *)
(* the errgroup.  One that is behind Run has been through the rollback.    *)
(***************************************************************************)
EXTENDS Nuker, TLAPS

Cmds == {"original", "restart", "nuke"}
Phases == {"running", "terminating", "none", "pending", "completed", "failed"}
PcValues == {"next", "update", "nuke", "restore", "rollback", "ok", "failed"}
AtHand == {"update", "nuke", "restore", "rollback"}
Untouched == [cmd |-> "original", phase |-> "running"]

\* The variables have their types.
Types ==
  /\ targets \subseteq Sets /\ todo \subseteq targets /\ cur \in Sets \cup {"none"}
  /\ pc \in PcValues
  /\ err \in BOOLEAN /\ gerr \in BOOLEAN /\ cancelled \in BOOLEAN
  /\ w \in [Ordinals -> {"idle", "start", "ok", "err"} \cup Watching]
  /\ del \in Nat /\ deleter \in {"running", "done", "err"}
  /\ template \in [Sets -> [cmd : Cmds, onDelete : BOOLEAN, probes : BOOLEAN]]
  /\ pods \in [AllPods -> [cmd : Cmds, phase : Phases]]
  /\ nuked \subseteq AllPods /\ badRollback \subseteq Sets

\* Where Run can be: the StatefulSet at hand has been taken out of those to come,
\* and Run goes on with the next one only if there has been no error.
Control ==
  /\ cur \notin todo
  /\ pc \in AtHand => cur \in targets
  /\ pc \in {"next", "update", "nuke", "ok"} => ~err
  /\ pc = "ok" => todo = {}

\* The templates: those to come, those behind, and the one at hand.
Templates ==
  /\ \A s \in todo : template[s] = Original(s)
  /\ \A s \in Sets : s # cur \/ pc \notin AtHand =>
       template[s] \in {Original(s), Restored(s)} \/ s \in badRollback
  /\ pc = "rollback" => template[cur] = Restored(cur)

\* The pods of the StatefulSets to come.
Waiting == \A p \in AllPods : p[1] \in todo => pods[p] = Untouched

\* The nuke command is in StatefulSets that were selected only.
Selected ==
  /\ \A s \in Sets : template[s].cmd = "nuke" => s \in targets
  /\ \A p \in AllPods : pods[p].cmd = "nuke" => p[1] \in targets
  /\ \A p \in nuked : p[1] \in targets

\* A goroutine of the first half that has returned nil has seen the nuke command
\* of its pod complete; the error of one that has returned an error is kept.
Watchers ==
  pc = "nuke" => \A i \in Pods(cur) :
    /\ w[i] \in {"ok", "Completed"} => <<cur, i>> \in nuked
    /\ w[i] = "err" => gerr

\* The pods that must have been nuked by now.
Due(p) ==
  /\ p[1] \in targets /\ p[1] \notin todo
  /\ p[1] = cur => pc \in {"next", "ok"} \/ (pc \in {"restore", "rollback"} /\ ~err)

Nuked == pc # "failed" => \A p \in AllPods : Due(p) => p \in nuked

\* The inductive invariant.
Inv == Types /\ Control /\ Templates /\ Waiting /\ Selected /\ Watchers /\ Nuked

-----------------------------------------------------------------------------
\* A pod is known by its StatefulSet and its ordinal.
LEMMA PodFacts ==
  /\ \A p \in AllPods : p[1] \in Sets /\ p[2] \in Pods(p[1]) /\ p[2] \in Ordinals
                        /\ p = <<p[1], p[2]>>
  /\ \A s \in Sets : \A i \in Pods(s) : <<s, i>> \in AllPods /\ i \in Ordinals
                                        /\ <<s, i>>[1] = s /\ <<s, i>>[2] = i
BY DEF AllPods, Ordinals

\* The shapes of a StatefulSet are templates.
LEMMA Shapes ==
  ASSUME NEW s \in Sets
  PROVE  /\ {Original(s), Restored(s), RestoredTemplate(s), NukeTemplate}
              \subseteq [cmd : Cmds, onDelete : BOOLEAN, probes : BOOLEAN]
         /\ Original(s).cmd = "original" /\ Restored(s).cmd = "restart" /\ NukeTemplate.cmd = "nuke"
         /\ RestoredTemplate(s) = Restored(s)
BY DEF Original, Restored, RestoredTemplate, NukeTemplate, Cmds

\* A pod changes its phase and keeps its command.
LEMMA SetPhase ==
  ASSUME Types, NEW p \in AllPods, NEW f \in Phases
  PROVE  [pods EXCEPT ![p].phase = f] = [pods EXCEPT ![p] = [cmd |-> pods[p].cmd, phase |-> f]]
<1>1. pods[p] \in [cmd : Cmds, phase : Phases]
  BY DEF Types
<1>2. [pods[p] EXCEPT !.phase = f] = [cmd |-> pods[p].cmd, phase |-> f]
  BY <1>1
<1>3. [pods EXCEPT ![p].phase = f] = [pods EXCEPT ![p] = [pods[p] EXCEPT !.phase = f]]
  OBVIOUS
<1>4. QED
  BY <1>2, <1>3

\* Run begins in a state that satisfies the invariant.
LEMMA InitInv == Init => Inv
<1> SUFFICES ASSUME Init PROVE Inv
  OBVIOUS
<1>1. Types
  <2>1. targets \subseteq Sets
    BY SetsAssumption DEF Init
  <2>2. template \in [Sets -> [cmd : Cmds, onDelete : BOOLEAN, probes : BOOLEAN]]
    BY Shapes DEF Init
  <2>3. pods \in [AllPods -> [cmd : Cmds, phase : Phases]]
    BY DEF Init, Cmds, Phases
  <2>4. QED
    BY <2>1, <2>2, <2>3 DEF Init, Types, PcValues
<1>2. Control
  BY <1>1, SetsAssumption DEF Init, Control, Types, AtHand
<1>3. Templates /\ Waiting
  BY <1>1, PodFacts DEF Init, Types, Templates, Waiting, Untouched
<1>4. Selected
  <2>1. \A s \in Sets : template[s].cmd = "original"
    BY Shapes DEF Init
  <2>2. \A p \in AllPods : pods[p].cmd = "original"
    BY DEF Init
  <2>3. QED
    BY <2>1, <2>2 DEF Init, Selected
<1>5. Watchers /\ Nuked
  BY DEF Init, Watchers, Nuked, Due
<1>6. QED
  BY <1>1, <1>2, <1>3, <1>4, <1>5 DEF Inv

-----------------------------------------------------------------------------
(* Run.                                                                     *)

\* Taking a StatefulSet: one without replicas has no pod that would be due.
LEMMA TakeNextInv == ASSUME Inv, NEW s \in Sets, TakeNext(s) PROVE Inv'
<1>1. /\ pc = "next" /\ s \in todo /\ todo' = todo \ {s}
      /\ UNCHANGED <<err, cancelled, w, del, deleter, gerr, template, pods, targets, nuked, badRollback>>
  BY DEF TakeNext, groupVars, history
<1>2. \/ HasReplicas(s) /\ cur' = s /\ pc' = "update"
      \/ ~HasReplicas(s) /\ cur' = cur /\ pc' = pc
  BY DEF TakeNext
<1>3. Types' /\ Control'
  BY <1>1, <1>2 DEF Inv, Types, Control, PcValues, AtHand
<1>4. Templates' /\ Waiting' /\ Selected' /\ Watchers'
  BY <1>1, <1>2 DEF Inv, Types, Control, Templates, Waiting, Selected, Watchers, AtHand
<1>5. Nuked'
  <2> SUFFICES ASSUME NEW p \in AllPods, Due(p)' PROVE p \in nuked'
    BY DEF Nuked
  <2>1. CASE p[1] = s
    <3>1. HasReplicas(s)
      <4>1. p[2] \in 1..Replicas[s] /\ Replicas[s] \in Nat
        BY <2>1, PodFacts, SetsAssumption DEF Pods
      <4>2. QED
        BY <4>1 DEF HasReplicas
    <3>2. cur' = s /\ pc' = "update"
      BY <1>2, <3>1
    <3>3. QED
      BY <2>1, <3>2 DEF Due
  <2>2. CASE p[1] # s
    <3>1. Due(p)
      BY <1>1, <2>2 DEF Due
    <3>2. QED
      BY <1>1, <3>1 DEF Inv, Nuked
  <2>3. QED
    BY <2>1, <2>2
<1>6. QED
  BY <1>3, <1>4, <1>5 DEF Inv

\* Run ends between two StatefulSets.
LEMMA RunEndsInv ==
  ASSUME Inv, Succeed \/ \E s \in Sets : GiveUp(s)
  PROVE  Inv'
<1>1. /\ pc = "next" /\ pc' \in {"ok", "failed"} /\ (pc' = "ok" => todo = {})
      /\ UNCHANGED <<todo, cur, err, cancelled, w, del, deleter, gerr, template, pods,
                     targets, nuked, badRollback>>
  BY DEF Succeed, GiveUp, mainVars, groupVars, history
<1>2. Types' /\ Control'
  BY <1>1 DEF Inv, Types, Control, PcValues, AtHand
<1>3. Templates' /\ Waiting' /\ Selected' /\ Watchers' /\ Nuked'
  BY <1>1 DEF Inv, Templates, Waiting, Selected, Watchers, Nuked, Due, AtHand
<1>4. QED
  BY <1>2, <1>3 DEF Inv

\* The nuke command is put into the template, and the goroutines are started.
LEMMA UpdateInv == ASSUME Inv, Update PROVE Inv'
<1>1. /\ pc = "update" /\ pc' = "nuke" /\ template' = [template EXCEPT ![cur] = NukeTemplate]
      /\ w' = [i \in Ordinals |-> IF i \in Pods(cur) THEN "start" ELSE "idle"]
      /\ del' = 0 /\ deleter' = "running" /\ gerr' = FALSE
      /\ UNCHANGED <<todo, cur, err, cancelled, pods, targets, nuked, badRollback>>
  BY DEF Update, StartGroup, WithNuke, mainVars, history
<1>2. cur \in Sets /\ cur \in targets /\ cur \notin todo
  BY <1>1 DEF Inv, Types, Control, AtHand
<1>3. /\ template'[cur] = NukeTemplate
      /\ \A s \in Sets : s # cur => template'[s] = template[s]
  BY <1>1, <1>2 DEF Inv, Types
<1>4. Types'
  <2>1. template' \in [Sets -> [cmd : Cmds, onDelete : BOOLEAN, probes : BOOLEAN]]
    BY <1>1, <1>2, Shapes DEF Inv, Types
  <2>2. QED
    BY <1>1, <2>1 DEF Inv, Types, PcValues
<1>5. Control' /\ Waiting'
  BY <1>1 DEF Inv, Control, Waiting, AtHand
<1>6. Templates'
  BY <1>1, <1>2, <1>3 DEF Inv, Types, Templates, AtHand
<1>7. Selected'
  BY <1>1, <1>2, <1>3 DEF Inv, Selected
<1>8. Watchers'
  BY <1>1, <1>2, PodFacts DEF Watchers
<1>9. Nuked'
  BY <1>1 DEF Inv, Nuked, Due
<1>10. QED
  BY <1>4, <1>5, <1>6, <1>7, <1>8, <1>9 DEF Inv

\* The update fails: the error keeps the StatefulSet from being due.
LEMMA UpdateFailsInv == ASSUME Inv, UpdateFails PROVE Inv'
<1>1. /\ pc = "update" /\ pc' = "restore" /\ err' = TRUE
      /\ template' = template \/ template' = [template EXCEPT ![cur] = NukeTemplate]
      /\ UNCHANGED <<todo, cur, cancelled, w, del, deleter, gerr, pods, targets, nuked, badRollback>>
  BY DEF UpdateFails, WithNuke, groupVars, history
<1>2. cur \in Sets /\ cur \in targets /\ cur \notin todo
  BY <1>1 DEF Inv, Types, Control, AtHand
<1>3. /\ template'[cur] \in {template[cur], NukeTemplate}
      /\ \A s \in Sets : s # cur => template'[s] = template[s]
  BY <1>1, <1>2 DEF Inv, Types
<1>4. Types'
  <2>1. template' \in [Sets -> [cmd : Cmds, onDelete : BOOLEAN, probes : BOOLEAN]]
    BY <1>1, <1>2, Shapes DEF Inv, Types
  <2>2. QED
    BY <1>1, <2>1 DEF Inv, Types, PcValues
<1>5. Control' /\ Waiting' /\ Watchers'
  BY <1>1 DEF Inv, Control, Waiting, Watchers, AtHand
<1>6. Templates'
  BY <1>1, <1>2, <1>3 DEF Inv, Types, Templates, AtHand
<1>7. Selected'
  BY <1>1, <1>2, <1>3 DEF Inv, Selected
<1>8. Nuked'
  BY <1>1 DEF Inv, Nuked, Due
<1>9. QED
  BY <1>4, <1>5, <1>6, <1>7, <1>8 DEF Inv

\* The original shape is put back, with the restart command.
LEMMA RollbackInv == ASSUME Inv, Rollback PROVE Inv'
<1>1. /\ pc = "restore" /\ pc' = "rollback"
      /\ template' = [template EXCEPT ![cur] = RestoredTemplate(cur)]
      /\ w' = [i \in Ordinals |-> IF i \in Pods(cur) THEN "start" ELSE "idle"]
      /\ del' = 0 /\ deleter' = "running" /\ gerr' = FALSE
      /\ UNCHANGED <<todo, cur, err, cancelled, pods, targets, nuked, badRollback>>
  BY DEF Rollback, StartGroup, mainVars, history
<1>2. cur \in Sets /\ cur \in targets /\ cur \notin todo
  BY <1>1 DEF Inv, Types, Control, AtHand
<1>3. /\ template'[cur] = Restored(cur)
      /\ \A s \in Sets : s # cur => template'[s] = template[s]
  BY <1>1, <1>2, Shapes DEF Inv, Types
<1>4. Types'
  <2>1. template' \in [Sets -> [cmd : Cmds, onDelete : BOOLEAN, probes : BOOLEAN]]
    BY <1>1, <1>2, Shapes DEF Inv, Types
  <2>2. QED
    BY <1>1, <2>1 DEF Inv, Types, PcValues
<1>5. Control' /\ Waiting' /\ Watchers'
  BY <1>1 DEF Inv, Control, Waiting, Watchers, AtHand
<1>6. Templates'
  BY <1>1, <1>2, <1>3 DEF Inv, Types, Templates, AtHand
<1>7. Selected'
  BY <1>1, <1>2, <1>3 DEF Inv, Selected
<1>8. Nuked'
  BY <1>1 DEF Inv, Nuked, Due
<1>9. QED
  BY <1>4, <1>5, <1>6, <1>7, <1>8 DEF Inv

\* The rollback fails and is logged.
LEMMA RollbackFailsInv == ASSUME Inv, RollbackFails PROVE Inv'
<1>1. /\ pc = "restore" /\ pc' = IF err THEN "failed" ELSE "next"
      /\ template' = template \/ template' = [template EXCEPT ![cur] = RestoredTemplate(cur)]
      /\ badRollback' = badRollback \cup {cur}
      /\ UNCHANGED <<todo, cur, err, cancelled, w, del, deleter, gerr, pods, targets, nuked>>
  BY DEF RollbackFails, Returned, mainVars, groupVars
<1>2. cur \in Sets /\ cur \in targets /\ cur \notin todo
  BY <1>1 DEF Inv, Types, Control, AtHand
<1>3. \A s \in Sets : s # cur => template'[s] = template[s]
  BY <1>1, <1>2 DEF Inv, Types
<1>4. Types'
  <2>1. template' \in [Sets -> [cmd : Cmds, onDelete : BOOLEAN, probes : BOOLEAN]]
    BY <1>1, <1>2, Shapes DEF Inv, Types
  <2>2. QED
    BY <1>1, <1>2, <2>1 DEF Inv, Types, PcValues
<1>5. Control' /\ Waiting' /\ Watchers'
  BY <1>1 DEF Inv, Types, Control, Waiting, Watchers, AtHand
<1>6. Templates'
  BY <1>1, <1>2, <1>3 DEF Inv, Types, Templates, AtHand
<1>7. Selected'
  BY <1>1, <1>2, <1>3 DEF Inv, Selected
<1>8. Nuked'
  BY <1>1 DEF Inv, Types, Nuked, Due
<1>9. QED
  BY <1>4, <1>5, <1>6, <1>7, <1>8 DEF Inv

\* The goroutines have returned: without an error, each pod has been nuked.
LEMMA WaitInv == ASSUME Inv, Wait PROVE Inv'
<1>1. /\ Finished
      /\ \/ pc = "nuke" /\ err' = gerr /\ pc' = "restore" /\ badRollback' = badRollback
         \/ /\ pc = "rollback" /\ err' = err /\ pc' = IF err THEN "failed" ELSE "next"
            /\ badRollback' = IF gerr THEN badRollback \cup {cur} ELSE badRollback
      /\ UNCHANGED <<todo, cur, cancelled, w, del, deleter, gerr, template, pods, targets, nuked>>
  BY DEF Wait, NukeResult, Returned, groupVars
<1>2. cur \in Sets /\ cur \in targets /\ cur \notin todo
  BY <1>1 DEF Inv, Types, Control, AtHand
<1>3. Types'
  BY <1>1, <1>2 DEF Inv, Types, PcValues
<1>4. Control' /\ Waiting' /\ Watchers' /\ Selected'
  BY <1>1, <1>2 DEF Inv, Types, Control, Waiting, Watchers, Selected, AtHand
<1>5. Templates'
  BY <1>1, <1>2 DEF Inv, Types, Templates, AtHand
<1>6. Nuked'
  <2> SUFFICES ASSUME NEW p \in AllPods, Due(p)', pc' # "failed" PROVE p \in nuked
    BY <1>1 DEF Nuked
  <2>1. CASE pc = "nuke" /\ p[1] = cur
    <3>1. ~gerr
      BY <1>1, <2>1 DEF Due, Inv, Types
    <3>2. p[2] \in Pods(cur) /\ p = <<cur, p[2]>>
      BY <2>1, PodFacts
    <3>3. w[p[2]] = "ok"
      BY <1>1, <2>1, <3>1, <3>2 DEF Finished, Inv, Watchers
    <3>4. QED
      BY <2>1, <3>2, <3>3 DEF Inv, Watchers
  <2>2. CASE ~(pc = "nuke" /\ p[1] = cur)
    <3>1. Due(p) /\ pc # "failed"
      BY <1>1, <2>2 DEF Due, Inv, Types
    <3>2. QED
      BY <3>1 DEF Inv, Nuked
  <2>3. QED
    BY <2>1, <2>2
<1>7. QED
  BY <1>3, <1>4, <1>5, <1>6 DEF Inv

\* The context ends.
LEMMA CancelInv == ASSUME Inv, Cancel PROVE Inv'
<1>1. /\ cancelled' = TRUE
      /\ UNCHANGED <<pc, todo, cur, err, w, del, deleter, gerr, template, pods,
                     targets, nuked, badRollback>>
  BY DEF Cancel, mainVars, groupVars, history
<1>2. QED
  BY <1>1 DEF Inv, Types, Control, Templates, Waiting, Selected, Watchers, Nuked, Due

-----------------------------------------------------------------------------
(* The goroutines.                                                          *)

\* A waiting goroutine goes on or returns.  It returns nil in the first half only
\* when its pod is done, and leaves an error in the group.
LEMMA WatcherInv ==
  ASSUME Inv, NEW i \in Ordinals,
         OpenWatch(i) \/ WatchDone(i) \/ PollRunning(i) \/ GiveUpWaiting(i)
  PROVE  Inv'
<1>1. UNCHANGED <<pc, todo, cur, err, cancelled, del, deleter, template, pods,
                     targets, nuked, badRollback>>
  BY DEF OpenWatch, WatchDone, PollRunning, GiveUpWaiting, mainVars, history
<1>2. \E r \in {"WaitingForDeletion", "ok", "err"} :
        /\ w' = [w EXCEPT ![i] = r] /\ gerr' = (gerr \/ r = "err")
        /\ pc = "nuke" /\ r = "ok" => w[i] = "Completed"
  BY DEF Inv, Types, OpenWatch, WatchDone, PollRunning, GiveUpWaiting, EndWatch
<1>3. PICK r \in {"WaitingForDeletion", "ok", "err"} :
        /\ w' = [w EXCEPT ![i] = r] /\ gerr' = (gerr \/ r = "err")
        /\ pc = "nuke" /\ r = "ok" => w[i] = "Completed"
  BY <1>2
<1>4. Types'
  <2>1. w' \in [Ordinals -> {"idle", "start", "ok", "err"} \cup Watching]
    BY <1>3 DEF Inv, Types, Watching
  <2>2. QED
    BY <1>1, <1>3, <2>1 DEF Inv, Types
<1>5. Control' /\ Templates' /\ Waiting' /\ Selected' /\ Nuked'
  BY <1>1 DEF Inv, Control, Templates, Waiting, Selected, Nuked, Due
<1>6. Watchers'
  <2> SUFFICES ASSUME pc = "nuke", NEW j \in Pods(cur)
               PROVE  /\ w'[j] \in {"ok", "Completed"} => <<cur, j>> \in nuked
                      /\ w'[j] = "err" => gerr'
    BY <1>1 DEF Watchers
  <2>1. j \in Ordinals
    BY PodFacts DEF Inv, Types, Control, AtHand
  <2>2. w'[j] = IF j = i THEN r ELSE w[j]
    BY <1>3, <2>1 DEF Inv, Types
  <2>3. QED
    BY <1>3, <2>2 DEF Inv, Watchers
<1>7. QED
  BY <1>4, <1>5, <1>6 DEF Inv

\* The deleting goroutine.
LEMMA DeleteNextInv == ASSUME Inv, DeleteNext PROVE Inv'
<1> DEFINE p == <<cur, del + 1>>
<1>1. /\ pc \in WaitPhases /\ del < Replicas[cur] /\ del' = del + 1
      /\ pods' = pods \/ pods' = [pods EXCEPT ![p].phase = "terminating"]
      /\ UNCHANGED <<pc, todo, cur, err, cancelled, w, deleter, gerr, template,
                     targets, nuked, badRollback>>
  BY DEF DeleteNext, Deleted, mainVars, history
<1>2. cur \in Sets /\ cur \notin todo
  BY <1>1 DEF Inv, Types, Control, AtHand, WaitPhases
<1>3. p \in AllPods /\ p[1] = cur /\ pods[p].cmd \in Cmds
  <2>1. del + 1 \in Pods(cur)
    BY <1>1, <1>2, SetsAssumption DEF Pods, Inv, Types
  <2>2. p \in AllPods /\ p[1] = cur
    BY <1>2, <2>1, PodFacts
  <2>3. QED
    BY <2>2 DEF Inv, Types
<1> DEFINE gone == [cmd |-> pods[p].cmd, phase |-> "terminating"]
<1>4. pods' = pods \/ pods' = [pods EXCEPT ![p] = gone]
  BY <1>1, <1>3, SetPhase DEF Inv, Phases
<1>5. \A q \in AllPods : pods'[q].cmd = pods[q].cmd /\ (q[1] # cur => pods'[q] = pods[q])
  <2> HIDE DEF p
  <2>1. \A q \in AllPods : q # p => pods'[q] = pods[q]
    BY <1>4 DEF Inv, Types
  <2>2. pods'[p] = pods[p] \/ pods'[p] = gone
    BY <1>3, <1>4 DEF Inv, Types
  <2>3. pods'[p].cmd = pods[p].cmd
    BY <2>2
  <2>4. QED
    BY <1>3, <2>1, <2>3
<1>6. Types'
  <2>1. pods' \in [AllPods -> [cmd : Cmds, phase : Phases]]
    BY <1>3, <1>4, SMTT(60) DEF Inv, Types, Phases
  <2>2. QED
    BY <1>1, <2>1 DEF Inv, Types
<1>7. Control' /\ Templates' /\ Watchers' /\ Nuked'
  BY <1>1 DEF Inv, Control, Templates, Watchers, Nuked, Due
<1>8. Waiting' /\ Selected'
  BY <1>1, <1>2, <1>5 DEF Inv, Waiting, Selected
<1>9. QED
  BY <1>6, <1>7, <1>8 DEF Inv

\* It has deleted all, or fails and leaves its error in the group.
LEMMA DeleterEndsInv == ASSUME Inv, DeleteDone \/ DeleteFails PROVE Inv'
<1>1. /\ deleter' \in {"done", "err"} /\ (gerr' = gerr \/ gerr' = TRUE)
      /\ UNCHANGED <<pc, todo, cur, err, cancelled, w, del, template, pods,
                     targets, nuked, badRollback>>
  BY DEF DeleteDone, DeleteFails, mainVars, history
<1>2. Types'
  BY <1>1 DEF Inv, Types
<1>3. Control' /\ Templates' /\ Waiting' /\ Selected' /\ Nuked'
  BY <1>1 DEF Inv, Control, Templates, Waiting, Selected, Nuked, Due
<1>4. Watchers'
  BY <1>1 DEF Inv, Types, Watchers
<1>5. QED
  BY <1>2, <1>3, <1>4 DEF Inv

-----------------------------------------------------------------------------
(* Kubernetes.                                                              *)

\* A step of a pod that does not touch the pods of StatefulSets to come, gives no
\* pod the nuke command that its template does not have, and brings no watcher to
\* "Completed" but that of a pod it adds to nuked.
LEMMA PodStepInv ==
  ASSUME Inv, NEW p \in AllPods, NEW c \in Cmds, NEW f \in Phases, NEW from, NEW to,
         UNCHANGED others, Event(p, from, to),
         pods' = [pods EXCEPT ![p] = [cmd |-> c, phase |-> f]],
         p[1] \in todo => FALSE,
         c \in {pods[p].cmd, template[p[1]].cmd},
         \/ nuked' = nuked /\ to # "Completed"
         \/ nuked' = nuked \cup {p} /\ pods[p].cmd = "nuke",
         to \in Watching
  PROVE  Inv'
<1>1. UNCHANGED <<pc, todo, cur, err, cancelled, del, deleter, gerr, template, targets, badRollback>>
  BY DEF others, mainVars
<1>2. /\ pods'[p] = [cmd |-> c, phase |-> f]
      /\ \A q \in AllPods : q # p => pods'[q] = pods[q]
  BY DEF Inv, Types
<1>3. \A j \in Ordinals :
        \/ w'[j] = w[j]
        \/ w'[j] = to /\ (pc = "nuke" => p[1] = cur /\ p[2] = j)
  BY DEF Event, Inv, Types
<1>4. Types'
  <2>1. pods' \in [AllPods -> [cmd : Cmds, phase : Phases]]
    BY DEF Inv, Types
  <2>2. w' \in [Ordinals -> {"idle", "start", "ok", "err"} \cup Watching]
    BY DEF Event, Inv, Types
  <2>3. nuked' \subseteq AllPods
    BY DEF Inv, Types
  <2>4. QED
    BY <1>1, <2>1, <2>2, <2>3 DEF Inv, Types
<1>5. Control' /\ Templates'
  BY <1>1 DEF Inv, Control, Templates
<1>6. Waiting'
  BY <1>1, <1>2 DEF Inv, Waiting
<1>7. Selected'
  <2>1. p[1] \in Sets
    BY PodFacts
  <2>2. \A q \in AllPods : pods'[q].cmd = "nuke" => q[1] \in targets
    BY <1>2, <2>1 DEF Inv, Selected
  <2>3. \A q \in nuked' : q[1] \in targets
    BY DEF Inv, Selected
  <2>4. QED
    BY <1>1, <2>2, <2>3 DEF Inv, Selected
<1>8. Watchers'
  <2> SUFFICES ASSUME pc = "nuke", NEW j \in Pods(cur)
               PROVE  /\ w'[j] \in {"ok", "Completed"} => <<cur, j>> \in nuked'
                      /\ w'[j] = "err" => gerr
    BY <1>1 DEF Watchers
  <2>1. j \in Ordinals
    BY PodFacts DEF Inv, Types, Control, AtHand
  <2>2. CASE w'[j] = w[j]
    BY <2>2 DEF Inv, Watchers
  <2>3. CASE w'[j] = to /\ p[1] = cur /\ p[2] = j
    <3>1. p = <<cur, j>>
      BY <2>3, PodFacts
    <3>2. QED
      BY <2>3, <3>1 DEF Watching
  <2>4. QED
    BY <1>3, <2>1, <2>2, <2>3
<1>9. Nuked'
  BY <1>1 DEF Inv, Nuked, Due
<1>10. QED
  BY <1>4, <1>5, <1>6, <1>7, <1>8, <1>9 DEF Inv

\* A pod of a StatefulSet to come runs its original command, which its template
\* has as well: nothing that Kubernetes does applies to it.
LEMMA KubernetesInv ==
  ASSUME Inv, NEW p \in AllPods, Kubernetes(p) \/ NukePodFails(p)
  PROVE  Inv'
<1>1. p[1] \in Sets /\ pods[p] \in [cmd : Cmds, phase : Phases] /\ template[p[1]].cmd \in Cmds
  BY PodFacts DEF Inv, Types
<1>2. p[1] \in todo => pods[p].cmd = "original" /\ pods[p].phase = "running"
                       /\ template[p[1]].cmd = "original"
  BY <1>1, Shapes DEF Inv, Waiting, Untouched, Templates
<1>3. \A f \in Phases : [pods EXCEPT ![p].phase = f] = [pods EXCEPT ![p] = [cmd |-> pods[p].cmd, phase |-> f]]
  BY SetPhase DEF Inv
<1>4. CASE ReplacePod(p)
  <2>1. /\ UNCHANGED <<others, nuked>> /\ p[1] \notin todo
        /\ pods' = [pods EXCEPT ![p] = [cmd |-> pods[p].cmd, phase |-> "terminating"]]
        /\ UNCHANGED w
    BY <1>2, <1>3, <1>4 DEF ReplacePod, Phases
  <2>2. Event(p, "Error", "Error")
    BY <2>1 DEF Event, Inv, Types
  <2>3. QED
    BY <1>1, <2>1, <2>2, PodStepInv DEF Phases, Watching
<1>5. CASE RemovePod(p)
  <2>1. /\ UNCHANGED <<others, nuked>> /\ p[1] \notin todo
        /\ pods' = [pods EXCEPT ![p] = [cmd |-> pods[p].cmd, phase |-> "none"]]
        /\ Event(p, "WaitingForDeletion", "WaitingForCreation")
    BY <1>2, <1>3, <1>5 DEF RemovePod, Phases
  <2>2. QED
    BY <1>1, <2>1, PodStepInv DEF Phases, Watching
<1>6. CASE RecreatePod(p)
  <2>1. /\ UNCHANGED <<others, nuked>> /\ p[1] \notin todo
        /\ pods' = [pods EXCEPT ![p] = [cmd |-> template[p[1]].cmd, phase |-> "pending"]]
        /\ Event(p, "WaitingForCreation", "WaitingForRunning")
    BY <1>2, <1>6 DEF RecreatePod
  <2>2. QED
    BY <1>1, <2>1, PodStepInv DEF Phases, Watching
<1>7. CASE RunPod(p)
  <2>1. /\ UNCHANGED <<others, nuked>> /\ p[1] \notin todo
        /\ pods' = [pods EXCEPT ![p] = [cmd |-> pods[p].cmd, phase |-> "running"]]
        /\ Event(p, "WaitingForRunning", "WaitingForCompletion")
    BY <1>2, <1>3, <1>7 DEF RunPod, Phases
  <2>2. QED
    BY <1>1, <2>1, PodStepInv DEF Phases, Watching
<1>8. CASE CompletePod(p)
  <2>1. /\ UNCHANGED others /\ nuked' = nuked \cup {p} /\ pods[p].cmd = "nuke" /\ p[1] \notin todo
        /\ pods' = [pods EXCEPT ![p] = [cmd |-> pods[p].cmd, phase |-> "completed"]]
        /\ Event(p, "WaitingForCompletion", "Completed")
    BY <1>2, <1>3, <1>8 DEF CompletePod, Phases
  <2>2. QED
    BY <1>1, <2>1, PodStepInv DEF Phases, Watching
<1>9. CASE NukePodFails(p)
  <2>1. /\ UNCHANGED <<others, nuked>> /\ p[1] \notin todo
        /\ pods' = [pods EXCEPT ![p] = [cmd |-> pods[p].cmd, phase |-> "failed"]]
        /\ Event(p, "WaitingForCompletion", "Error")
    BY <1>2, <1>3, <1>9 DEF NukePodFails, Phases
  <2>2. QED
    BY <1>1, <2>1, PodStepInv DEF Phases, Watching
<1>10. QED
  BY <1>4, <1>5, <1>6, <1>7, <1>8, <1>9 DEF Kubernetes

-----------------------------------------------------------------------------
\* Every step keeps the invariant.
LEMMA NextInv == Inv /\ [Next]_vars => Inv'
<1> SUFFICES ASSUME Inv, [Next]_vars PROVE Inv'
  OBVIOUS
<1>1. CASE UNCHANGED vars
  <2>1. UNCHANGED <<pc, todo, cur, err, cancelled, w, del, deleter, gerr, template, pods,
                    targets, nuked, badRollback>>
    BY <1>1 DEF vars, mainVars, groupVars, history
  <2>2. Types' /\ Control' /\ Templates' /\ Waiting'
    BY <2>1 DEF Inv, Types, Control, Templates, Waiting
  <2>3. Selected' /\ Watchers' /\ Nuked'
    BY <2>1 DEF Inv, Selected, Watchers, Nuked, Due
  <2>4. QED
    BY <2>2, <2>3 DEF Inv
<1>2. CASE Main
  BY <1>2, TakeNextInv, WaitInv, RunEndsInv, UpdateInv, RollbackInv, UpdateFailsInv,
     RollbackFailsInv DEF Main
<1>3. CASE Group
  BY <1>3, WatcherInv, DeleteNextInv, DeleterEndsInv DEF Group
<1>4. CASE Failures
  BY <1>4, RunEndsInv, UpdateFailsInv, RollbackFailsInv, CancelInv, DeleterEndsInv DEF Failures
<1>5. CASE \E p \in AllPods : Kubernetes(p) \/ NukePodFails(p)
  BY <1>5, KubernetesInv
<1>6. QED
  BY <1>1, <1>2, <1>3, <1>4, <1>5 DEF Next

\* The inductive invariant holds throughout.
LEMMA InvAlways == Spec => []Inv
<1>1. QED
  BY InitInv, NextInv, PTL DEF Spec

\* Wherever Run stops, at most the StatefulSet at hand deviates from its original
\* shape, unless the failure of a rollback has been logged; nothing of one still to
\* come has been touched.
THEOREM OthersRestoredHolds == Spec => []OthersRestored
<1>1. Inv => OthersRestored
  <2> SUFFICES ASSUME Inv PROVE OthersRestored
    OBVIOUS
  <2>1. \A s \in todo : \A i \in Pods(s) : pods[<<s, i>>] = Untouched
    BY PodFacts DEF Inv, Types, Waiting
  <2>2. pc \in {"next", "ok", "failed"} => pc \notin AtHand
    BY DEF AtHand
  <2>3. QED
    BY <2>1, <2>2 DEF Inv, Templates, OthersRestored, Untouched
<1>2. QED
  BY <1>1, InvAlways, PTL

\* When Run returns no error, the nuke command has completed in every pod of every
\* StatefulSet selected and in no other.
THEOREM SuccessMeansNukedHolds == Spec => []SuccessMeansNuked
<1>1. Inv => SuccessMeansNuked
  <2> SUFFICES ASSUME Inv, pc = "ok" PROVE nuked = {p \in AllPods : p[1] \in targets}
    BY DEF SuccessMeansNuked
  <2>1. \A p \in AllPods : p[1] \in targets => p \in nuked
    BY DEF Inv, Control, Nuked, Due
  <2>2. \A p \in nuked : p \in AllPods /\ p[1] \in targets
    BY DEF Inv, Types, Selected
  <2>3. QED
    BY <2>1, <2>2
<1>2. QED
  BY <1>1, InvAlways, PTL

=============================================================================
