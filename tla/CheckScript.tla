---------------------------- MODULE CheckScript ----------------------------
(***************************************************************************)
(* What the sequential checks of pkg/check have in common: each sends one  *)
(* request after another through the Bee client (pkg/bee/client.go) and    *)
(* decides at every answer whether to go on, to try again, to leave some   *)
(* requests out or to return an error.  A check is a script, the sequence  *)
(* of the requests it still has to make, and every request carries the     *)
(* decisions the code takes on its answers.                                *)
(*                                                                         *)
(* The answers come from the environment: a node answers according to its  *)
(* state, or the request breaks, before or after it took effect.           *)
(***************************************************************************)
EXTENDS Integers, Sequences, SequencesExt, FiniteSets

CONSTANTS
    MaxErrors,      \* bound on the requests of one run that break
    MaxRuns         \* bound on the times the check is run

ASSUME ScriptAssumption == MaxErrors \in Nat /\ MaxRuns \in Nat \ {0}

VARIABLES
    check,      \* the check that runs
    todo,       \* its remaining requests
    tries,      \* answers to the first of them that led to another try
    verdict,    \* what Run returned: "none" yet, "pass" (nil), "fail" or "panic"
    errors,     \* requests of this run that broke
    runs        \* runs of the check so far

script == <<check, todo, tries, verdict, errors, runs>>

\* decisions: a positive number is the number of requests to go forward
Fail == -1
Retry == 0

\* A request op to node n about x, strict as most are: any answer but the
\* expected one is returned as an error.
Step(op, n, x) ==
    [op |-> op, n |-> n, x |-> x,
     ok |-> 1, no |-> Fail, err |-> Fail, max |-> 1, out |-> Fail]

\* the request is made up to k times, until the answer is right
Retried(k, s) == [s EXCEPT !.no = Retry, !.err = Retry, !.max = k]

\* an error is returned, a wrong answer asked for again, up to k times
Polled(k, s) == [s EXCEPT !.no = Retry, !.max = k]

\* the answer is logged and nothing else
Ignored(s) == [s EXCEPT !.no = 1, !.err = 1]

\* the request must be refused: any error will do
Denied(s) == [s EXCEPT !.ok = Fail, !.no = 1, !.err = 1]

\* an error of one of the requests is logged: the rest of them is left out, and
\* so are the k requests that follow
OrSkip(requests, k) ==
    [i \in DOMAIN requests |->
        LET skip(d) == IF d = Fail THEN Len(requests) - i + 1 + k ELSE d
        IN  [requests[i] EXCEPT !.no = skip(@), !.err = skip(@), !.out = skip(@)]]

\* the requests of a loop over a sequence of values
ForEach(values, Body(_)) == FlattenSeq([i \in DOMAIN values |-> Body(values[i])])

At(op) == todo # <<>> /\ Head(todo).op = op

Decide(d) ==
    /\ todo' = IF d = Fail THEN <<>> ELSE SubSeq(todo, d + 1, Len(todo))
    /\ verdict' = CASE d = Fail -> "fail"
                    [] Len(todo) <= d -> "pass"
                    [] OTHER -> verdict

\* the code's reaction to answer a, "ok", "no" or "err", of the first request
Answer(a) ==
    LET s == Head(todo)
    IN  IF s[a] = Retry /\ tries + 1 < s.max
        THEN tries' = tries + 1 /\ UNCHANGED <<todo, verdict>>
        ELSE tries' = 0 /\ Decide(IF s[a] = Retry THEN s.out ELSE s[a])

\* an answer: the expected one, another one, or an error of the node
Reply(a) == Answer(a) /\ UNCHANGED <<check, errors, runs>>

RightOrNot(right) == Reply(IF right THEN "ok" ELSE "no")

\* the network or the node fails: the answer is an error (or wrong data)
Breaks(a) ==
    /\ errors < MaxErrors /\ errors' = errors + 1
    /\ Answer(a)
    /\ UNCHANGED <<check, runs>>

\* the check is run again, with the script s
Rerun(s) ==
    /\ verdict \in {"pass", "fail"} /\ runs < MaxRuns
    /\ runs' = runs + 1 /\ todo' = s
    /\ tries' = 0 /\ verdict' = "none" /\ errors' = 0
    /\ UNCHANGED check

ScriptInit == tries = 0 /\ verdict = "none" /\ errors = 0 /\ runs = 1

============================================================================
