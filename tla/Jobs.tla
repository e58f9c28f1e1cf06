-------------------------------- MODULE Jobs --------------------------------
(***************************************************************************)
(* The checks that run goroutines of their own, the executors, the restart *)
(* command and the block time: one of them is the job of a behaviour.      *)
(***************************************************************************)
EXTENDS Load, Durability, Pingpong, Restart, BlockTime

VARIABLE job

vars == <<job, scheduler, load, durability, pingpong, restart, blocktime>>

JobNames == {"load", "periodic", "durability", "pingpong", "restart", "blocktime"}

Init ==
    /\ job \in JobNames
    /\ SchedulerInit /\ LoadInit /\ DurabilityInit /\ PingpongInit
    /\ IF job = "restart" THEN RestartInit
       ELSE RestartInit /\ withImage = FALSE /\ strategy = CHOOSE s \in Strategies : TRUE
    /\ job # "pingpong" => stopped = {}
    /\ BlockTimeInit
    /\ job # "blocktime" =>
        height = 0 /\ pruned = -1 /\ gap = [h \in 1..MaxHeight |-> CHOOSE g \in Gaps : TRUE]

LoadJob ==
    /\ job = "load" /\ LoadNext
    /\ UNCHANGED <<job, durability, pingpong, restart, blocktime>>

PeriodicJob ==
    /\ job = "periodic" /\ PeriodicNext
    /\ UNCHANGED <<job, load, durability, pingpong, restart, blocktime>>

DurabilityJob ==
    /\ job = "durability" /\ DurabilityStep
    /\ UNCHANGED <<job, scheduler, load, pingpong, restart, blocktime>>

PingpongJob ==
    /\ job = "pingpong" /\ PingpongNext
    /\ UNCHANGED <<job, scheduler, load, durability, restart, blocktime>>

RestartJob ==
    /\ job = "restart" /\ RestartNext
    /\ UNCHANGED <<job, scheduler, load, durability, pingpong, blocktime>>

BlockTimeJob ==
    /\ job = "blocktime" /\ BlockTimeNext
    /\ UNCHANGED <<job, scheduler, load, durability, pingpong, restart>>

\* what the caller waits for has returned
JobOver ==
    CASE job = "load" -> exec # "run"
      [] job = "periodic" -> closing \in {"nil", "error"}
      [] job = "durability" -> DurabilityEnded
      [] job = "pingpong" -> ping # "run"
      [] job = "restart" -> cmd \in {"nil", "error"}
      [] job = "blocktime" -> fetch \in {"ok", "error"}

Done == JobOver /\ UNCHANGED vars

Next ==
    \/ Done
    \/ LoadJob \/ PeriodicJob \/ DurabilityJob \/ PingpongJob \/ RestartJob \/ BlockTimeJob

\* goroutines are scheduled and requests end
JobStep ==
    \/ LoadJob /\ LoadStep
    \/ PeriodicJob /\ PeriodicStep
    \/ DurabilityJob
    \/ PingpongJob /\ PingpongStep
    \/ RestartJob /\ RestartStep
    \/ BlockTimeJob /\ BlockTimeStep

\* timers end and the controllers of Kubernetes do their work
ClockStep == (LoadJob /\ RunReturns) \/ (RestartJob /\ Kubernetes)

Spec == Init /\ [][Next]_vars /\ WF_vars(JobStep) /\ WF_vars(ClockStep)

-----------------------------------------------------------------------------
(* Properties *)

\* The executor returns nil only for a task that has, or at the end of the
\* duration: an error of the task may be lost to the timer, never to the
\* context.
NilIsDue == exec = "nil" => expired \/ doneCh = "nil"

\* Close returns nil only when the goroutine of the periodic task has ended.
Quiet == closing = "nil" => worker = "ended"

\* What nil means: all peers of the nodes that were running have answered
\* (pingpong), no node whose StatefulSet is there runs what it ran before
\* (restart), the file is counted once (durability), nothing runs behind a
\* closed executor.
NilMeansDone == AllAnswered /\ NothingOldLeft /\ FileCountedOnce /\ NilIsDue /\ Quiet

\* The load check reports a mismatch only when a node returned other data than
\* it was asked for, although the content, the address and the buffer are
\* shared with uploads that are still under way.
MismatchIsReal == mismatch => lied

\* the job and its goroutines have ended, or nobody has asked them to
Ended ==
    CASE job = "load" -> LoadEnded
      [] job = "periodic" -> closing = "no" \/ worker = "ended"
      [] job = "durability" -> DurabilityEnded
      [] job = "pingpong" -> ping # "run"
      [] job = "restart" -> cmd = "error" \/ (cmd = "nil" /\ AllNew)
      [] job = "blocktime" -> fetch # "previous"

\* Every job comes to its end, with its goroutines: those of the load check
\* once the executor has returned, that of the periodic task once it is
\* closed; what restart has asked for happens.
JobEnds == ~Ended ~> Ended

============================================================================
