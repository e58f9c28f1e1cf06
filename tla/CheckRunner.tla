----------------------------- MODULE CheckRunner -----------------------------
(***************************************************************************)
(* CheckRunner.Run and checkRun.Run (pkg/check/runner.go): all requested   *)
(* checks are validated, then run in order.  Each runs in a goroutine that *)
(* puts its error into a channel of capacity one, while the runner waits   *)
(* for that error or for the end of the check's context, whichever it sees *)
(* first.  A check whose context has ended may go on running.              *)
(***************************************************************************)
EXTENDS Naturals, FiniteSets

CONSTANTS
  N,      \* number of requested checks
  Timed   \* the checks that have a timeout of their own

ASSUME CheckAssumption == N \in Nat /\ Timed \subseteq 1..N

Checks == 1..N

VARIABLES
  pc,       \* where Run is
  idx,      \* the check at hand
  ctxDone,  \* the command's context has ended
  expired,  \* checks whose own context has ended or was cancelled
  act,      \* the goroutine of each check
  ret,      \* what the action of each check has returned
  results,  \* what the runner has recorded for each check
  outcome   \* what Run has returned: "none" while it runs

ctxVars == <<ctxDone, expired>>
runnerVars == <<pc, idx, ctxVars, act, ret, results, outcome>>

RunnerInit ==
  /\ pc = "validate" /\ idx = 1
  /\ ctxDone = FALSE /\ expired = {}
  /\ act = [i \in Checks |-> "idle"]
  /\ ret = [i \in Checks |-> "none"]
  /\ results = [i \in Checks |-> "none"]
  /\ outcome = "none"

-----------------------------------------------------------------------------
\* All checks are looked up and prepared before the first one runs.
ValidateChecks ==
  /\ pc = "validate"
  /\ IF idx <= N THEN idx' = idx + 1 /\ UNCHANGED pc
                 ELSE idx' = 1 /\ pc' = "next"
  /\ UNCHANGED <<ctxVars, act, ret, results, outcome>>

\* An unknown check, an unknown type or options that cannot be made.
Invalid ==
  /\ pc = "validate" /\ idx <= N
  /\ pc' = "done" /\ outcome' = "error"
  /\ UNCHANGED <<idx, ctxVars, act, ret, results>>

StartCheck ==
  /\ pc = "next" /\ idx <= N
  /\ act' = [act EXCEPT ![idx] = "running"]
  /\ pc' = "wait"
  /\ UNCHANGED <<idx, ctxVars, ret, results, outcome>>

\* Mutant: the first failure ends the run.
After_FirstFailure(r) == IF r = "err" THEN N + 1 ELSE idx + 1

\* The runner goes on with the next check whatever the result.
After(r) == idx + 1

\* The runner records a result; the deferred cancelCheck ends the context.
Record(r) ==
  /\ results' = [results EXCEPT ![idx] = r]
  /\ expired' = expired \cup {idx}
  /\ idx' = After(r)
  /\ pc' = "next"
  /\ UNCHANGED <<ctxDone, act, ret, outcome>>

\* select: the channel has the action's error.
TakeResult ==
  /\ pc = "wait" /\ act[idx] = "sent"
  /\ Record(ret[idx])

\* Mutant: an ended context is no failure.
ContextError_Nil == "ok"

ContextError == "err"

ContextEnded(i) == ctxDone \/ i \in expired

\* select: the context of the check has ended; its goroutine is left alone.
TakeDone ==
  /\ pc = "wait" /\ ContextEnded(idx)
  /\ Record(ContextError)

\* hasFailures decides what Run returns.
Finish ==
  /\ pc = "next" /\ idx > N
  /\ pc' = "done"
  /\ outcome' = IF \E i \in Checks : results[i] = "err" THEN "error" ELSE "nil"
  /\ UNCHANGED <<idx, ctxVars, act, ret, results>>

Runner == ValidateChecks \/ Invalid \/ StartCheck \/ TakeResult \/ TakeDone \/ Finish

\* The action of a check returns.
Return(i) ==
  /\ act[i] = "running"
  /\ act' = [act EXCEPT ![i] = "returned"]
  /\ \E r \in {"ok", "err"} : ret' = [ret EXCEPT ![i] = r]
  /\ UNCHANGED <<pc, idx, ctxVars, results, outcome>>

\* Mutant: the channel has no buffer.
CanSend_Unbuffered(i) == pc = "wait" /\ idx = i

\* ch <- err: the channel has room for the one value that is ever sent.
CanSend(i) == i \in Checks

Send(i) ==
  /\ act[i] = "returned" /\ CanSend(i)
  /\ act' = [act EXCEPT ![i] = "sent"]
  /\ UNCHANGED <<pc, idx, ctxVars, ret, results, outcome>>

Timeout(i) ==
  /\ i \in Timed \ expired
  /\ act[i] # "idle"
  /\ expired' = expired \cup {i}
  /\ UNCHANGED <<pc, idx, ctxDone, act, ret, results, outcome>>

Cancel ==
  /\ ~ctxDone
  /\ ctxDone' = TRUE
  /\ UNCHANGED <<pc, idx, expired, act, ret, results, outcome>>

RunnerNext ==
  \/ Runner \/ Cancel
  \/ \E i \in Checks : Return(i) \/ Send(i) \/ Timeout(i)
  \/ pc = "done" /\ UNCHANGED runnerVars

(* The runner is scheduled, timeouts expire, and a check without a timeout  *)
(* returns.  One with a timeout may hang for ever.                          *)
Fairness ==
  /\ WF_runnerVars(Runner)
  /\ \A i \in Checks : WF_runnerVars(Send(i)) /\ WF_runnerVars(Timeout(i))
  /\ \A i \in Checks \ Timed : WF_runnerVars(Return(i))

RunnerSpec == RunnerInit /\ [][RunnerNext]_runnerVars
FairSpec == RunnerSpec /\ Fairness

-----------------------------------------------------------------------------
\* Types of the variables.
TypeOK ==
  /\ pc \in {"validate", "next", "wait", "done"}
  /\ idx \in 1..(N + 1)
  /\ ctxDone \in BOOLEAN
  /\ expired \subseteq Checks
  /\ act \in [Checks -> {"idle", "running", "returned", "sent"}]
  /\ ret \in [Checks -> {"none", "ok", "err"}]
  /\ results \in [Checks -> {"none", "ok", "err"}]
  /\ outcome \in {"none", "nil", "error"}

\* Run returns nil only when the action of every requested check has returned
\* nil: no timeout, cancellation or late result is taken for a success.
NilMeansAllPassed == outcome = "nil" => \A i \in Checks : ret[i] = "ok"

\* Once validated, every requested check is run and reported on, whatever
\* happens to the ones before it; a failed validation runs none of them.
AllOrNothing ==
  outcome # "none" =>
    \/ \A i \in Checks : results[i] # "none"
    \/ \A i \in Checks : act[i] = "idle"

\* Run ends although a check with a timeout may never return, and the goroutine
\* of a check that returns is never stuck, even when the runner has stopped
\* waiting for it.
RunEnds == <>[](pc = "done" /\ \A i \in Checks : act[i] # "returned")

=============================================================================
