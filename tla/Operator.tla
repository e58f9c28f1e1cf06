------------------------------ MODULE Operator ------------------------------
(***************************************************************************)
(* The node operator (pkg/funder/operator, pod.Client.WatchNewRunning,     *)
(* service.Client.FindNode).  Run watches the pods of a namespace and      *)
(* hands each one it sees ready, over an unbuffered channel, to a          *)
(* goroutine that looks for a service that selects the pod, asks that      *)
(* service for the node's addresses up to five times and funds the         *)
(* Ethereum address.  Pods come and go meanwhile, the API server may end   *)
(* the watch, a request may fail or never be answered (no client here has  *)
(* a timeout), and the context ends with --timeout, 0 by default.          *)
(***************************************************************************)
EXTENDS Naturals, Sequences, SequencesExt, FiniteSets

CONSTANTS
    Pods,
    Labels,         \* Labels[p]: the labels of pod p
    Services,       \* the services in the order they are listed: [selector: set of
                    \* labels, selects: the selector is not nil, api: has an api port]
    MaxRetries,     \* attempts to get the addresses, 5 in the code
    MaxChanges      \* bound on changes of pods

NoPod == "no pod"
NoAddress == "empty address"    \* the zero value of bee.Addresses.Ethereum

ASSUME OperatorAssumption ==
    /\ IsFiniteSet(Pods) /\ NoPod \notin Pods
    /\ Services \in Seq([selector : SUBSET UNION {Labels[p] : p \in Pods},
                          selects : BOOLEAN, api : BOOLEAN])
    /\ MaxRetries \in Nat \ {0} /\ MaxChanges \in Nat

VARIABLES
    cancelled,  \* the context has ended
    state,      \* state[p]: absent, pending, ready or terminating
    events,     \* the result channel of the watch
    watchOpen,  \* the API server still serves the watch
    watcher,    \* WatchNewRunning: open, select, sending or returned
    sending,    \* the pod it is sending
    funding,    \* the goroutine: select, find, addresses, fund or ended
    pod,        \* the pod it has received
    service,    \* index of the service found for it, 0 for none
    hung,       \* the request under way is not answered
    attempts,   \* attempts made to get the addresses
    address,    \* the address of the node, once known
    funded,     \* history: <<pod, address>> for every call of Fund
    reported,   \* history: changes to ready reported by the watch
    received,   \* history: pods received by the goroutine
    changes

operatorVars == <<cancelled, state, events, watchOpen, watcher, sending, funding, pod,
                  service, hung, attempts, address, funded, reported, received, changes>>
watchVars == <<watchOpen, watcher, sending>>
askVars == <<service, attempts, address>>
fundVars == <<funding, pod, askVars, hung, funded, received>>
kubeVars == <<state, events, reported, changes>>

----------------------------------------------------------------------------
OperatorInit ==
    /\ cancelled = FALSE
    /\ state \in [Pods -> {"absent", "pending", "ready"}]
    /\ events = <<>> /\ watchOpen = TRUE
    /\ watcher = "open" /\ sending = NoPod
    /\ funding = "select" /\ pod = NoPod
    /\ service = 0 /\ attempts = 0 /\ address = NoAddress /\ hung = FALSE
    /\ funded = {} /\ reported = 0 /\ received = 0 /\ changes = 0

(* WatchNewRunning *)

\* A watch without a resource version begins with the pods that exist.
OpenWatch ==
    /\ watcher = "open" /\ ~cancelled
    /\ watcher' = "select"
    /\ events' = SetToSeq({<<"Added", p, state[p]>> : p \in {q \in Pods : state[q] # "absent"}})
    /\ UNCHANGED <<cancelled, state, watchOpen, sending, fundVars, reported, changes>>

\* Run returns; the deferred close of newPods is the state "returned".
CloseNewPods == watcher' = "returned"

OpenWatchFails ==
    /\ watcher = "open"
    /\ CloseNewPods
    /\ UNCHANGED <<cancelled, watchOpen, sending, fundVars, kubeVars>>

\* Only changes count: the pods that were there already are left alone.
IsReady(e) == e[1] = "Modified" /\ e[3] = "ready"

TakeEvent ==
    /\ watcher = "select" /\ events # <<>>
    /\ LET e == Head(events)  IN
        IF IsReady(e) THEN watcher' = "sending" /\ sending' = e[2]
        ELSE UNCHANGED <<watcher, sending>>
    /\ events' = Tail(events)
    /\ UNCHANGED <<cancelled, state, watchOpen, fundVars, reported, changes>>

\* The context has ended, or the server has and its events are used up.
EndWatch ==
    /\ watcher = "select"
    /\ cancelled \/ (~watchOpen /\ events = <<>>)
    /\ CloseNewPods
    /\ UNCHANGED <<cancelled, watchOpen, sending, fundVars, kubeVars>>

(* the goroutine of Run *)

\* newPods <- pod meets <-newPods
Receive ==
    /\ watcher = "sending" /\ funding = "select"
    /\ watcher' = "select" /\ sending' = NoPod
    /\ funding' = "find" /\ pod' = sending /\ received' = received + 1
    /\ UNCHANGED <<cancelled, watchOpen, askVars, hung, funded, kubeVars>>

\* The context has ended or the channel is closed.
StopsReceiving == cancelled \/ watcher = "returned"

EndFunding ==
    /\ funding = "select" /\ StopsReceiving
    /\ funding' = "ended"
    /\ UNCHANGED <<cancelled, watchVars, pod, askVars, hung, funded, received, kubeVars>>

\* Every label of the selector is one of the pod's.
Matches_Any(s, p) == s.selects /\ s.selector \cap Labels[p] # {}
Matches(s, p) == s.selects /\ s.selector \subseteq Labels[p]

\* FindNode takes the first service listed that matches the pod and has an api
\* port; addresses is declared anew.
FindNode ==
    /\ funding = "find" /\ ~cancelled /\ ~hung
    /\ \E i \in DOMAIN Services :
        /\ Matches(Services[i], pod) /\ Services[i].api
        /\ \A j \in 1 .. i - 1 : ~(Matches(Services[j], pod) /\ Services[j].api)
        /\ service' = i
    /\ funding' = "addresses" /\ attempts' = 0 /\ address' = NoAddress
    /\ UNCHANGED <<cancelled, watchVars, pod, hung, funded, received, kubeVars>>

\* A request fails, at the latest when the context ends.
RequestFails == (hung => cancelled) /\ hung' = FALSE

AfterNotFound_Return == "ended"
AfterNotFound == "select"

\* No service matches the pod, or the request fails: on with the next pod.
FindNodeFails ==
    /\ funding = "find" /\ RequestFails
    /\ funding' = AfterNotFound
    /\ UNCHANGED <<cancelled, watchVars, pod, askVars, funded, received, kubeVars>>

\* Kubernetes passes a request to a service on to some ready pod it selects.
Answering == {q \in Pods : Services[service].selector \subseteq Labels[q] /\ state[q] = "ready"}

\* An attempt succeeds and ends the loop.  The status of the answer is not looked
\* at: an error of the node that is valid JSON counts as an empty address.
GetAddresses ==
    /\ funding = "addresses" /\ ~cancelled /\ ~hung
    /\ attempts' = attempts + 1
    /\ \E q \in Answering : address' \in {q, NoAddress}
    /\ funding' = "fund"
    /\ UNCHANGED <<cancelled, watchVars, pod, service, hung, funded, received, kubeVars>>

MoreAttempts_Always(n) == TRUE
MoreAttempts(n) == n < MaxRetries

\* An attempt fails and assigns an empty value to addresses.  After the last one
\* the error is logged, and the code goes on to fund what addresses holds.
GetAddressesFails ==
    /\ funding = "addresses" /\ RequestFails
    /\ attempts' = attempts + 1 /\ address' = NoAddress
    /\ funding' = IF MoreAttempts(attempts + 1) THEN "addresses" ELSE "fund"
    /\ UNCHANGED <<cancelled, watchVars, pod, service, funded, received, kubeVars>>

\* funder.Fund; its error is logged
Fund ==
    /\ funding = "fund" /\ RequestFails
    /\ funded' = funded \cup {<<pod, address>>}
    /\ funding' = "select"
    /\ UNCHANGED <<cancelled, watchVars, pod, askVars, received, kubeVars>>

\* The request under way (to the API server, the node or the chain) is never
\* answered: http.Client{} has no timeout.
Hang ==
    /\ funding \in {"find", "addresses", "fund"} /\ ~hung /\ hung' = TRUE
    /\ UNCHANGED <<cancelled, watchVars, funding, pod, askVars, funded, received, kubeVars>>

----------------------------------------------------------------------------
(* Kubernetes and the context (external).                                  *)

Successors(s) ==
    CASE s = "absent"  -> {"pending"}
      [] s = "pending" -> {"ready", "terminating"}
      [] s = "ready"   -> {"pending", "ready", "terminating"}
      [] OTHER         -> {"absent"}

\* A pod changes, or only its status does, and the watch reports it.
PodChanges(p) ==
    /\ changes < MaxChanges /\ changes' = changes + 1
    /\ \E s \in Successors(state[p]) :
        LET e == <<CASE state[p] = "absent" -> "Added"
                     [] s = "absent"        -> "Deleted"
                     [] OTHER               -> "Modified", p, s>>
        IN
        /\ state' = [state EXCEPT ![p] = s]
        /\ IF watcher \in {"select", "sending"} /\ watchOpen
           THEN /\ events' = Append(events, e)
                /\ reported' = reported + (IF IsReady(e) THEN 1 ELSE 0)
           ELSE UNCHANGED <<events, reported>>
    /\ UNCHANGED <<cancelled, watchVars, fundVars>>

\* The API server ends the watch.
CloseWatch ==
    /\ watcher \in {"select", "sending"} /\ watchOpen
    /\ watchOpen' = FALSE
    /\ UNCHANGED <<cancelled, watcher, sending, fundVars, kubeVars>>

EndContext ==
    /\ ~cancelled /\ cancelled' = TRUE
    /\ UNCHANGED <<watchVars, fundVars, kubeVars>>

----------------------------------------------------------------------------
Watching == OpenWatch \/ OpenWatchFails \/ TakeEvent \/ EndWatch
Funding ==
    \/ Receive \/ EndFunding \/ FindNode \/ FindNodeFails
    \/ GetAddresses \/ GetAddressesFails \/ Fund

OperatorNext ==
    \/ Watching \/ Funding \/ Hang
    \/ CloseWatch \/ EndContext
    \/ \E p \in Pods : PodChanges(p)

\* Both goroutines are scheduled, the watch is opened or refused, and a request
\* that does not hang is answered or fails; nothing is assumed of pods, of the
\* end of the watch or of the context.
OperatorSpec ==
    /\ OperatorInit /\ [][OperatorNext]_operatorVars
    /\ WF_operatorVars(Watching) /\ WF_operatorVars(Funding)

----------------------------------------------------------------------------
OperatorTypeOK ==
    /\ cancelled \in BOOLEAN /\ watchOpen \in BOOLEAN /\ hung \in BOOLEAN
    /\ state \in [Pods -> {"absent", "pending", "ready", "terminating"}]
    /\ events \in Seq({"Added", "Modified", "Deleted"} \X Pods \X
                      {"absent", "pending", "ready", "terminating"})
    /\ watcher \in {"open", "select", "sending", "returned"}
    /\ sending \in Pods \cup {NoPod} /\ (watcher = "sending") = (sending # NoPod)
    /\ funding \in {"select", "find", "addresses", "fund", "ended"}
    /\ pod \in Pods \cup {NoPod} /\ service \in 0 .. Len(Services)
    /\ attempts \in 0..MaxRetries
    /\ address \in Pods \cup {NoAddress}
    /\ funded \subseteq (Pods \X (Pods \cup {NoAddress}))
    /\ reported \in Nat /\ received \in Nat
    /\ changes \in 0..MaxChanges

\* Whatever fails, hangs or is replaced in between, the address funded for a pod
\* is empty or the one of a pod that a single service with an api port selects
\* together with it: where every such service selects one node, as those that
\* beekeeper creates do, no node is funded in the name of another (Run, FindNode).
OwnAddress ==
    \A f \in funded :
        f[2] # NoAddress =>
            \E i \in DOMAIN Services :
                /\ Services[i].selects /\ Services[i].api
                /\ Services[i].selector \subseteq Labels[f[1]] \cap Labels[f[2]]

\* Every change to ready that the watch reports reaches the goroutine, in spite
\* of earlier pods that fail or are slow, unless Run is stopped, the watch ends
\* or a request is never answered; and with the watch ended and no request left
\* hanging the goroutine ends as well (WatchNewRunning, Run).
EventsHandled ==
    /\ \A n \in 1 .. MaxChanges :
        (reported >= n) ~> (received >= n \/ cancelled \/ watcher = "returned" \/ hung)
    /\ (watcher = "returned") ~> (funding = "ended" \/ hung)

----------------------------------------------------------------------------
(* What the documentation and the tests say.                               *)

\* "cancel() // stop the watch loop" (pkg/k8s/pod/client_test.go): once the
\* context has ended, WatchNewRunning returns.
CancelStops == cancelled ~> watcher = "returned"
============================================================================
