----------------------------- MODULE Scheduler -----------------------------
(***************************************************************************)
(* The two executors of pkg/scheduler.  DurationExecutor runs a task in a  *)
(* goroutine and returns at the first of the task's result, the end of the *)
(* duration and the end of the context.  PeriodicExecutor repeats a task   *)
(* at every tick until it is closed, by executePeriodically of the command *)
(* once the command's context has ended.                                   *)
(***************************************************************************)
EXTENDS Integers, Sequences, SequencesExt, FiniteSets

CONSTANT MaxPasses      \* bound on the passes of a periodic task

ASSUME PassesAssumption == MaxPasses \in Nat \ {0}

VARIABLES
    cancelled,  \* the command's context has ended
    expired,    \* Run has returned because the duration was over
    doneCh,     \* "none", or the result of the task in the channel
    exec,       \* DurationExecutor.Run: "run", or what it returned
    worker,     \* goroutine of the periodic executor: "task", "idle" or "ended"
    tick,       \* a tick waits in the ticker's channel
    passes,     \* passes of the periodic task so far
    closing     \* Close: "no", "wait", or what it returned

clock == <<cancelled, expired>>
duration == <<doneCh, exec>>
periodic == <<worker, tick, passes, closing>>
scheduler == <<clock, duration, periodic>>

SchedulerInit ==
    /\ cancelled = FALSE /\ expired = FALSE /\ doneCh = "none" /\ exec = "run"
    /\ worker = "task" /\ tick = FALSE /\ passes = 1 /\ closing = "no"

Cancel == ~cancelled /\ cancelled' = TRUE /\ UNCHANGED <<expired, duration, periodic>>

\* The context of the task ends with that of the command, and with Run.
CtxDone == cancelled \/ exec # "run"

\* the task returns r: into the channel, or nowhere once the context has ended
TaskReturns(r) == doneCh' = r \/ (CtxDone /\ doneCh' = doneCh)

\* the select of Run, whichever case is ready; the duration may be over at any
\* time
RunReturns ==
    /\ exec = "run"
    /\ \/ cancelled /\ exec' = "ctx" /\ UNCHANGED expired
       \/ exec' = "nil" /\ expired' = TRUE
       \/ doneCh # "none" /\ exec' = doneCh /\ UNCHANGED expired
    /\ UNCHANGED <<cancelled, doneCh, periodic>>

\* the ticker drops a tick that nobody took, and sends none when stopped
Tick ==
    /\ ~tick /\ closing = "no" /\ passes < MaxPasses
    /\ tick' = TRUE
    /\ UNCHANGED <<clock, duration, worker, passes, closing>>

PassEnds ==
    /\ worker = "task" /\ worker' = "idle"
    /\ UNCHANGED <<clock, duration, tick, passes, closing>>

\* the select between two passes: tick, quit and context in any order
NextPass ==
    /\ worker = "idle" /\ tick
    /\ worker' = "task" /\ tick' = FALSE /\ passes' = passes + 1
    /\ UNCHANGED <<clock, duration, closing>>

WorkerEnds ==
    /\ worker = "idle" /\ (cancelled \/ closing # "no")
    /\ worker' = "ended"
    /\ UNCHANGED <<clock, duration, tick, passes, closing>>

Close ==
    /\ cancelled /\ closing = "no" /\ closing' = "wait"
    /\ UNCHANGED <<clock, duration, worker, tick, passes>>

\* Shutdown waits for what was added to it and has not called Done.
Pending == worker # "ended"

CloseReturns ==
    /\ closing = "wait"
    /\ \/ ~Pending /\ closing' = "nil"
       \/ Pending /\ closing' = "error"
    /\ UNCHANGED <<clock, duration, worker, tick, passes>>

PeriodicStep == PassEnds \/ NextPass \/ WorkerEnds \/ Close \/ CloseReturns

PeriodicNext == Cancel \/ Tick \/ PeriodicStep

============================================================================
