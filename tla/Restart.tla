------------------------------ MODULE Restart ------------------------------
(***************************************************************************)
(* The restart command (pkg/restart) beside the StatefulSet controller:    *)
(* without an image the pods of the nodes are deleted one by one; with one *)
(* the image of their StatefulSets is updated, and pods of a StatefulSet   *)
(* updated OnDelete are deleted.  Any call may fail, the command may be    *)
(* given again, and a StatefulSet may be deleted beside it.                *)
(***************************************************************************)
EXTENDS Integers, Sequences, SequencesExt, FiniteSets

CONSTANTS
    Owner,          \* the StatefulSet of every pod; a pod without one has "none"
    Listed,         \* nodes GetNodes returns, in order
    Strategies,     \* update strategies of the StatefulSets, one is chosen
    MaxCommands, MaxDeaths      \* bounds: commands, and pods that die or StatefulSets deleted

ASSUME RestartAssumption ==
    /\ Listed \in Seq(DOMAIN Owner)
    /\ MaxCommands \in Nat \ {0} /\ MaxDeaths \in Nat

VARIABLES
    cmd,        \* "list", "get", "update", "delete", "nil" or "error"
    withImage,  \* --image is given
    commands,   \* commands given so far
    queue,      \* pods or StatefulSets still to handle
    sets,       \* statefulSetMap: the pods of every StatefulSet still to handle
    there,      \* the StatefulSets that have not been deleted
    strategy,   \* update strategy of every StatefulSet
    template,   \* image in every StatefulSet: "old" or "new"
    pod,        \* state and image of every pod, and whether this command met it
    deaths

restart == <<cmd, withImage, commands, queue, sets, there, strategy, template, pod, deaths>>

PodNames == DOMAIN Owner
SetNames == {Owner[p] : p \in PodNames} \ {"none"}
NoSets == [s \in SetNames |-> <<>>]

RestartInit ==
    /\ cmd = "list" /\ withImage \in BOOLEAN /\ commands = 1
    /\ queue = <<>> /\ sets = NoSets
    /\ there = SetNames /\ strategy \in Strategies
    /\ template = [s \in SetNames |-> "old"]
    /\ pod = [p \in PodNames |-> [st |-> "up", image |-> "old", before |-> TRUE]]
    /\ deaths = 0

\* GetNodes, and the choice between the two ways
GetNodes ==
    /\ cmd = "list"
    /\ \/ cmd' = (IF withImage THEN "get" ELSE "delete") /\ queue' = Listed
       \/ cmd' = "error" /\ UNCHANGED queue
    /\ UNCHANGED <<withImage, commands, sets, there, strategy, template, pod, deaths>>

\* the StatefulSets of the pods; a pod that is not there is an error, one that
\* has no StatefulSet is left out
GetPod ==
    /\ cmd = "get" /\ queue # <<>>
    /\ \/ /\ pod[Head(queue)].st # "gone" /\ queue' = Tail(queue) /\ UNCHANGED cmd
          /\ sets' = [s \in SetNames |->
                        IF s = Owner[Head(queue)] THEN Append(sets[s], Head(queue)) ELSE sets[s]]
       \/ cmd' = "error" /\ UNCHANGED <<queue, sets>>
    /\ UNCHANGED <<withImage, commands, there, strategy, template, pod, deaths>>

\* the map is gone over in any order; the strategy of a StatefulSet that is
\* not there is the empty one
NextSet ==
    /\ \/ cmd = "get" /\ queue = <<>>
       \/ cmd = "delete" /\ queue = <<>> /\ withImage
    /\ IF sets = NoSets THEN cmd' = "nil" /\ UNCHANGED <<queue, sets>>
       ELSE \/ \E s \in SetNames :
                /\ sets[s] # <<>> /\ sets' = [sets EXCEPT ![s] = <<>>] /\ cmd' = "update"
                /\ queue' = <<s>> \o (IF s \in there /\ strategy[s] = "OnDelete" THEN sets[s] ELSE <<>>)
            \/ cmd' = "error" /\ UNCHANGED <<queue, sets>>
    /\ UNCHANGED <<withImage, commands, there, strategy, template, pod, deaths>>

\* the image of a StatefulSet that is there; one that is not is no error
SetImage(s, image) ==
    template' = IF s \in there THEN [template EXCEPT ![s] = image] ELSE template

\* the update may be carried out although its answer is an error
UpdateImage ==
    /\ cmd = "update"
    /\ LET s == Head(queue)
       IN  \/ cmd' = "delete" /\ queue' = Tail(queue) /\ SetImage(s, "new")
           \/ /\ cmd' = "error" /\ UNCHANGED queue
              /\ \E image \in {template[s], "new"} : SetImage(s, image)
    /\ UNCHANGED <<withImage, commands, sets, there, strategy, pod, deaths>>

\* a pod that is not there is an error, too
DeletePod ==
    /\ cmd = "delete" /\ queue # <<>>
    /\ LET p == Head(queue)
       IN  \/ /\ pod[p].st # "gone" /\ pod' = [pod EXCEPT ![p].st = "terminating"]
              /\ queue' = Tail(queue) /\ UNCHANGED cmd
           \/ cmd' = "error" /\ UNCHANGED <<queue, pod>>
    /\ UNCHANGED <<withImage, commands, sets, there, strategy, template, deaths>>

AllDeleted ==
    /\ cmd = "delete" /\ queue = <<>> /\ ~withImage /\ cmd' = "nil"
    /\ UNCHANGED <<withImage, commands, queue, sets, there, strategy, template, pod, deaths>>

RestartStep == GetNodes \/ GetPod \/ NextSet \/ UpdateImage \/ DeletePod \/ AllDeleted

\* the operator gives the command again, after an error or not
RestartAgain ==
    /\ cmd \in {"nil", "error"} /\ commands < MaxCommands
    /\ cmd' = "list" /\ commands' = commands + 1 /\ queue' = <<>> /\ sets' = NoSets
    /\ pod' = [p \in PodNames |-> [pod[p] EXCEPT !.before = TRUE]]
    /\ UNCHANGED <<withImage, there, strategy, template, deaths>>

-----------------------------------------------------------------------------
(* Kubernetes *)

RemovePod(p) ==
    /\ pod[p].st = "terminating" /\ pod' = [pod EXCEPT ![p].st = "gone"]
    /\ UNCHANGED <<cmd, withImage, commands, queue, sets, there, strategy, template, deaths>>

RecreatePod(p) ==
    /\ pod[p].st = "gone" /\ Owner[p] \in there
    /\ pod' = [pod EXCEPT ![p] = [st |-> "up", image |-> template[Owner[p]], before |-> FALSE]]
    /\ UNCHANGED <<cmd, withImage, commands, queue, sets, there, strategy, template, deaths>>

RollPod(p) ==
    /\ pod[p].st = "up" /\ Owner[p] \in there /\ strategy[Owner[p]] = "RollingUpdate"
    /\ pod[p].image # template[Owner[p]]
    /\ pod' = [pod EXCEPT ![p].st = "terminating"]
    /\ UNCHANGED <<cmd, withImage, commands, queue, sets, there, strategy, template, deaths>>

PodDies(p) ==
    /\ pod[p].st = "up" /\ deaths < MaxDeaths /\ deaths' = deaths + 1
    /\ pod' = [pod EXCEPT ![p].st = "gone"]
    /\ UNCHANGED <<cmd, withImage, commands, queue, sets, there, strategy, template>>

\* pods of a StatefulSet that is deleted are deleted after it
CollectPod(p) ==
    /\ pod[p].st = "up" /\ Owner[p] \in SetNames \ there
    /\ pod' = [pod EXCEPT ![p].st = "terminating"]
    /\ UNCHANGED <<cmd, withImage, commands, queue, sets, there, strategy, template, deaths>>

\* another command or a user deletes a StatefulSet, for good
DeleteSet(s) ==
    /\ s \in there /\ deaths < MaxDeaths /\ deaths' = deaths + 1 /\ there' = there \ {s}
    /\ UNCHANGED <<cmd, withImage, commands, queue, sets, strategy, template, pod>>

Kubernetes == \E p \in PodNames : RemovePod(p) \/ RecreatePod(p) \/ RollPod(p) \/ CollectPod(p)

RestartNext ==
    \/ RestartStep \/ RestartAgain \/ Kubernetes
    \/ \E p \in PodNames : PodDies(p)
    \/ \E s \in SetNames : DeleteSet(s)

Targets == {p \in Range(Listed) : ~withImage \/ Owner[p] # "none"}

\* nil without an image: no pod of before the command is left running; nil
\* with one: every StatefulSet concerned that has not been deleted has the new
\* image, and with OnDelete no pod of it runs the old one.
NothingOldLeft ==
    cmd = "nil" => \A p \in Targets :
        /\ ~withImage /\ pod[p].st = "up" => ~pod[p].before
        /\ withImage /\ Owner[p] \in there =>
            /\ template[Owner[p]] = "new"
            /\ strategy[Owner[p]] = "OnDelete" /\ pod[p].st = "up" => pod[p].image = "new"

\* what nil promises for later
AllNew == \A p \in Targets : Owner[p] \in there =>
    pod[p].st = "up" /\ (withImage => pod[p].image = "new")

============================================================================
