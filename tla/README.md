# Beekeeper in TLA+

Beekeeper starts, attaches to, tests and maintains clusters of Ethereum Swarm
Bee nodes in Kubernetes. This directory holds TLA+ models of the parts of it
that are concurrent, fail half way or depend on an order, the TLC runs that
check them on small instances, and TLAPS proofs of the properties that matter
most for every instance.

## 1. The system

| Component | State | Operations | What makes it correct |
|---|---|---|---|
| Cluster set up (`cmd/beekeeper/cmd/cluster.go`, `pkg/orchestration/k8s/nodegroup.go`) | node groups, results of the goroutines, addresses to fund | `setupCluster`, `setupBootnodes`, `setupNodes`, `setupOrAddNode`, `DeployNode`, `AddNode`, `fund` | bootnodes are up before anything else starts; success means complete; it ends |
| Node orchestrator (`pkg/orchestration/k8s/orchestrator.go`, `pkg/k8s/*`) | up to eleven Kubernetes resources and the pod of a node | `Create`, `Delete`, `Start`, `Stop`, `Ready` | a StatefulSet never stands without what its pod needs; delete leaves nothing; ready means running what was deployed |
| Nuker (`pkg/nuker`, `pkg/k8s/pod`) | pod templates, the errgroup's goroutines | `Run`, `NukeByStatefulSets`, `updateAndRollbackStatefulSet`, `recreatePodsAndWait` | every pod is nuked on success; StatefulSets get their shape back |
| Check runner (`pkg/check/runner.go`) | results, contexts and goroutines of the checks | `Run`, `checkRun.Run` | nil means all passed; every check is run and reported; it ends |
| Node groups as data sources (`nodegroup.go`, `cluster.go`) | nodes, streams | `Overlays`, `Peers`, `Balances`, ... `Stream` | running nodes are in the result under their own overlay; streams are closed once, after the last send |
| Restart (`pkg/restart`) | pods, StatefulSets | `RestartPods`, `RestartCluster` | what is restarted when one step fails |
| Operator (`pkg/funder/operator`, `pod.Client.WatchNewRunning`) | watch events, the funding goroutine, retries | `Run` | every pod that becomes ready is taken up, and funded under an address of its service; it ends with its context |
| Stamper (`pkg/stamper`) | postage batches of nodes | `Create`, `Dilute`, `Topup`, `Set` | batches are topped up and diluted as the flags say, never paid for without end, whatever fails |
| Scheduler (`pkg/scheduler`) | a task, its timer, shutdown | `PeriodicExecutor`, `DurationExecutor` | no overlap, no lost error, bounded shutdown |
| WebSocket listener, pss and gsoc (`pkg/wslistener`, `pkg/check/pss`, `pkg/check/gsoc`) | a connection, its two goroutines, the check's receiver | `ListenWebSocket`, `testPss`, `run` | a pass means that every message arrived; order is kept; nothing is stuck |
| Bee client (`pkg/bee`) | the node's postage batches, and how long it polls for them | uploads and downloads, `CreatePostageBatch`, `GetOrCreateMutableBatch`, `TopUpPostageBatch`, `DilutePostageBatch`, ... | nothing is paid for twice without a cause |
| Checks of content (`pkg/check/{pushsync,pullsync,retrieval,fileretrieval,soc,redundancy,manifest,feed,act,gc,postage,...}`) and simulations (`pkg/simulate/*`) | what was uploaded where, tries left | `Run` | nil means stored where it belongs; an error has a reason |
| Checks of accounting (`balances`, `settlements`, `cashout`, `stake`, `withdraw`) | balances and settlements read, transactions sent | `Run` | nil means that the money has moved |
| Checks of topology (`kademlia`, `fullconnectivity`, `peercount`, `autotls`) | peers read node by node, certificates | `Run` | what was read at different times is judged rightly |
| Load, data durability, pingpong (`pkg/check/{load,datadurability,pingpong}`) | goroutines that share variables and channels | `Run` | a mismatch is real, nothing is counted twice, all answers are in |
| Block time (`pkg/swap/block.go`) | the cached block time | `FetchBlockTime` | the value is one the chain can have |
| HTTP and Kubernetes transport, configuration, command line, logging, metrics, tracing | mostly stateless | | |

How they meet: a command sets the cluster up (one goroutine per node, results
on a channel), which calls the node group, which calls the node orchestrator,
which calls the Kubernetes API; checks then use the node groups as data sources
from a goroutine the check runner waits for, and the Bee client for everything
else. Nuke, restart, stamper and the operator work on the same Kubernetes
resources from other processes, the last two under an executor of `pkg/scheduler`
or a watch.

What is hard here: goroutines that share a configuration by pointer and report
through one unbuffered channel; sequences of ten API calls any of which may
fail after it took effect, or be the last before the process dies; watches that
are opened too late; statuses that are older than the spec they are read for;
a timeout that races the result it bounds; deferred work on a context that has
ended; checks that read one node after another while the cluster moves on, and
retry requests that may have taken effect. `PROJECT.json` lists these as hazards at their lines.

## 2. Modules

* `ClusterSetup` - the main goroutine of `setupCluster` and one goroutine per
  node. `phase`, `todo`, `cur`, `left` are the position in the loops of the two
  passes, `nodeCount` and `received` the counters, `gpc` and `res` the program
  counter and result of each goroutine. The unbuffered channel is the
  rendezvous `Receive`. `bConfig` is shared by pointer, so `CreateNode` reads
  whatever the loop has last written, or a torn string while it may be writing.
  The steps of `DeployNode` are separate because they interleave. `Addressless` are
  the nodes that answer with an empty Ethereum address, which is not funded.
* `OrderedStart` - what setting up promises: nodes come up one by one, the
  second set after all of the first, and the set up succeeds exactly with all
  of them. `ClusterSetup!StartsInOrder` is the refinement.
* `NodeOrchestrator` - one node in Kubernetes. `pc` is the API call at hand,
  `objs` the revision of every resource, `spec`, `status` and `pod` what the
  StatefulSet controller and the kubelet see and do. A command may fail at any
  call, before or after the effect, or be killed; the next one may run with
  other options.
* `Nuker` - `Run` over several StatefulSets, with the errgroup of
  `recreatePodsAndWait` (one waiter per pod and one deleter) in both halves and
  the state machine of `processEventInState`.
* `CheckRunner` - the runner's loop, the goroutine and buffered channel of
  each check, its timeout and the command's context.
* `ClusterData` - the eight queries of a cluster over its node groups. A query
  opens a stream per group (one goroutine per node that is not stopped, one that
  waits for them and closes the channel), reads it, and for accounting, balances
  and settlements reads the overlays in a second stream, for which the stopped
  nodes are looked up anew; `FlattenX` merges the groups. Nodes are stopped and
  started meanwhile.
* `Stamper` - the commands create, dilute, topup and set over nodes and their
  batches. Price and list of batches are read once per node (`snapPrice`,
  `snap`) and used while blocks, uploads and price changes go on; a request may be
  refused, or be carried out with its answer lost. What the chain holds (`batches`)
  and what a node lists (`shown`) are apart: a top-up or a dilution is listed only once
  the node has seen it (`Sync`), for which `pkg/bee/client.go` polls up to a minute and
  the stamper does not. Amounts and times keep their integer divisions, with one block
  time for the node's TTL and another for the client's amounts (`NodeBlockTime`,
  `SecondsPerBlock`). `broken` and `late` are history: the nodes a pass failed at or
  that have changed since it began, and whether the list at hand lacked a top-up.
* `Operator` - `WatchNewRunning` and the funding goroutine of `Run`, joined by
  an unbuffered channel, beside pods that change and an API server that ends
  its watch. `FindNode` takes the first listed service whose selector the pod's labels
  satisfy and that has an api port; the request goes to any ready pod that service
  selects. A request may fail, or never be answered (`Hang`): the client has no timeout.
  `funded`, `reported` and `received` are history.
* `MessageChecks` - the reader and the forwarder of `ListenWebSocket`, the closer,
  and the two checks that use them, each with the order in which it cancels and
  closes. A receive from the closed `readCh` yields the empty message, as in Go. pss
  goes through its `Count` iterations (`NextTest`), each with the same text on the same
  topic, so that the text of an earlier iteration or run may arrive in a later one (`Again`).
* `CheckScript`, `BeeClient`, `ContentChecks`, `AccountingChecks`, `TopologyChecks`, and
  `Checks` over them - the sequential checks and the simulations. Each check is a
  script (`ContentScript`, `AccountingScript`, `TopologyScript`): the sequence of the
  requests it sends, in the order of its code, where each request carries the
  decisions that the code takes on its answers (go on, try again and how often,
  skip, return an error). The answers come from a cluster that works in its own
  time: batches mature, items are pushed to the closest node and replicated,
  garbage is collected, peers pay each other, transactions are mined, links come
  and go, certificates expire and are issued. A request may break before or after
  it took effect. The check may be run again on what it left behind. An item has a
  `home`, the full node closest to it, where it is stored, and a `near`, the closest of
  the overlays the check has read, which may be a light node's; `HasChunk` retrieves,
  as the request behind it does. cashout waits for the `actions` of its own run only.
* `Scheduler`, `Load`, `Durability`, `Pingpong`, `Restart`, `BlockTime`, and `Jobs` over them
  - the executors and the parts that run goroutines of their own or wait for
  something outside. `Load` runs under `DurationExecutor`, as the code runs it;
  goroutines of its earlier iterations go on beside the later ones over the same
  buffer. `Durability` keeps the one variable `err` that all goroutines assign.
  `Pingpong` has a goroutine per node and one per ping, with their unbuffered
  channels, while nodes stop and start (`NodesClients` leaves out the stopped ones).
  `Restart` runs beside the StatefulSet controller, with failing calls, a second
  command and StatefulSets that are deleted meanwhile, which `UpdateImage` takes for updated. `BlockTime` keeps the loop over offsets, the division and the
  cache; the conversion of an infinite or undefined quotient is a choice
  (`MaxInt64` stands for the largest value of the type).
* `MC*` - the instances for TLC. `*Proofs` - theorems and their proofs, one module per
  model; `ChecksProofs` holds those of `Checks`, `CheckRunner` and `Operator`.
  Definitions with a suffix (`Joined_AtOnce`) stand beside the one they are a
  faulty version of: with one of them in its place, the property named in
  `PROJECT.json` under `mutants` is violated.

Kubernetes (controllers, kubelet, garbage collector), Bee nodes, the chain and the
network are external: they are modelled from what the code waits for and relies
on, with the freedom they have (a status may lag, a pod may be slow, a rolling
update may come late, a message may be lost, repeated or invented, a transaction
may be mined late).

## 3. Runs

| Run | Shows |
|---|---|
| `ClusterSetup` | for every schedule and every failure: `BootnodesFirst`, `SuccessIsComplete`, `OnlyReadyFunded`, `OthersShareBootnode`, termination (`SetupEnds`), refinement of `OrderedStart` (`StartsInOrder`) |
| `NodeOrchestrator` | over any three commands: `DependenciesFirst`, `DeleteLeavesNothing`, `ReadyRunsNewConfig`, and that commands end (`CommandEnds`) |
| `Nuker` | `OthersRestored`, `SuccessMeansNuked`; `Run` ends, and afterwards no pod stays with the nuke command (`PodsReturn`) |
| `NukerRollback` (violated) | `RollbackHappens`: the rollback is not guaranteed, for it runs on a context that may have ended, and its error is only logged |
| `CheckRunner` | `NilMeansAllPassed`, `AllOrNothing`; the run ends and no goroutine is stuck (`RunEnds`) |
| `ClusterData` | `NoSendOnClosed`, `RunningKept`; every one of the eight queries ends, with no goroutine behind a result (`QueryEnds`) |
| `Stamper` | no top-up brings a batch above what the flags ask for, unless the node had not listed an earlier one (`NoOverpay`, of steps), a pass of set leaves the nodes it did not fail at with the TTL and the room the flags allow (`SetHeals`), repeated passes settle (`Settles`) |
| `Operator` | the address funded is empty or of a pod of the same service (`OwnAddress`); every change to ready is received unless a request hangs, and the goroutine ends with `Run` (`EventsHandled`) |
| `OperatorCancel` (violated) | `CancelStops`: the funding goroutine ends with the context while the watcher waits to send a pod to it, and `Run` never returns |
| `MessageChecks` | `PassMeansDelivered`, `InOrder`; the checks end and leave no receiving goroutine (`CheckEnds`) |
| `Checks` | a check of content that passes has found what it uploaded at the closest full node, or at the node it asks whoever uploaded (`PassMeansStored`), one of money has seen the transactions of its run through (`PassMeansPaid`), batches are bought for a cause (`PaysForCause`), autotls accepts only right addresses and a certificate issued meanwhile (`AutoTlsIsReal`), an error has a reason (`BlameIsReal`) |
| `Jobs` | nil means that the peers of the nodes that ran all along have answered, no pod with the old image or unmet is left in a StatefulSet that is there, files are counted once, the executor's nil is due and `Close` leaves no task (`NilMeansDone`); `MismatchIsReal`; `BlockTimeInRange`; every job ends with its goroutines (`JobEnds`) |

Bounds. `ClusterSetup`: three bootnodes in two groups (one group with two, so
that they share a configuration) and two other groups of one node, one of them
with its own bootnodes, one node without an address; more nodes repeat the same goroutine. `NodeOrchestrator`:
`MaxRuns = 3` commands, enough for deploy - deploy with other options - delete
and for deploy - delete - deploy. `Nuker`: `Targets` gives either three
StatefulSets (one `OnDelete` by itself, one without replicas) or one with two
pods and one without, so that there is a StatefulSet before and after the one at
hand and a watcher beside another. `CheckRunner`: three checks, so that a timed
out check has one before and one after it. `ClusterData`: a group of two nodes and
one of one, `MaxStops = 2`, so that a node can stop between the two streams and
start again. `Stamper`: two nodes with one or two batches each, `MaxEvents = 1` and
`MaxFailures = 2`: a failure or a late list at one node and a second at the other or in the
next pass, and a block, an upload or a new price before or after the list of batches is
read; blocks of 2 seconds for the node and of 3 for the client, and a batch of 5 blocks,
which lasts just long enough not to be topped up before its dilution rounds it down.
`Operator`: two pods, each with a service of its own beside one without an api port
and one without a selector, `MaxRetries = 2`, `MaxChanges = 3`: a pod becomes ready while the
other one is funded. `MessageChecks`: `NumChunks = 2`, `MaxArrivals = 3`, one more than gsoc
waits for, so that noise or a repetition displaces a message; `Count = 2` iterations of pss. `Checks`: three full
nodes and a light one, so that there is a node beside the uploader and the closest
one; contents close to one node, or to two of which one is the light node; links complete, with one missing or
with a foreign peer; `Retries = 2` and `PollTries = 2`, a try that fails and one that is the
last; one broken request per run (`MaxErrors = 1`), two exchanges between peers and
one link that changes, each at any point; `MaxRuns = 2`, since what a run leaves behind
is met by the second. `Jobs`: two uploads beside each other over two iterations
(one of an earlier iteration beside one of a later); three chunks two at a time,
so that one waits for a slot; two groups of nodes for pingpong, each of which may stop once; two StatefulSets
of either strategy and a pod without one, two commands, and one pod that dies or
StatefulSet that is deleted by itself; chains of up to six blocks with gaps of 0 or 3 seconds, which round both
ways, and offsets that are zero, too large or pruned away. Every passing run explores
all its states.

Fairness. Goroutines that can run are run by the Go scheduler (weak fairness of
the main goroutine and of each goroutine or group). Calls to the API return:
with a result, or with an error when the context of the command ends. No
failure is ever forced to make a liveness property hold, except where the code
itself has a timeout (the nuker's waits, the timeout of a check, the three
minutes of pss and gsoc). Kubernetes eventually does what its controllers do (weak
fairness of each of their steps). Strong fairness is assumed once, of the end
of the forwarder in `MessageChecks`: a Go `select` chooses among its ready cases
at random, so it does not prefer the closed channel for ever. Nothing is assumed
of pods, of the network or of the end of a context in `Operator` and
`MessageChecks`, nor that a request of the operator is answered: `EventsHandled` leaves
out what waits behind one that is not. `Checks`
has no fairness and no liveness property: that a check ends follows from its script but for
two loops, which the code does not bound (below). In `Jobs` the goroutines of the job and the clock
are fair; the clock only because the duration and the tick are timers.

### Disagreements seen while modelling

Besides the two violated runs, the models show these; no run is kept for them.

* A pass of the set up does not wait for its nodes when one of them fails
  (`cluster.go:258` says "wait for nodes to be setup"): it returns at the first error,
  and the deferred close turns the others' sends into a panic.
* `Set` of the stamper pays before it dilutes, so that a batch it dilutes ends at
  `--topup-to` over `2^d`, which no flag check keeps above `--ttl-threshold`, and is topped up
  again by the next pass. A batch that is diluted without a top-up, because what is left of its TTL is
  above `--ttl-threshold`, may end below it: the contract divides the balance, and the
  division rounds away less than a block. `SetHeals` states both. A dilution asked for
  from a list that lacks the last one is refused, since its depth is no longer greater.
* The bootnodes of one group share a configuration by pointer and may be
  created with each other's bootnodes (`cluster.go:250`).
* "best-effort" (`orchestrator.go:390`): an error of deleting the wss service
  aborts `Delete` before the ingress, the API service and the secrets.
* "To reliably detect nuke execution" (`nuker.go:311`): nothing orders the opening
  of a watch before the deletion of its pod.
* "rolled back and are ready" (`nuker.go:252`): the poll may read the pod of before.
* "run all tests sequentially" (`check.go:40`): a check whose context has ended goes
  on beside the next one.
* "If not provided, all batches are topped up" (`stamper.go:109`): `Topup` returns
  from inside its loop after the first batch in use; and `--batch-ids` does not
  override the labels, both have to match (`node.go:208-214`).
* "ensures that all Bee nodes in the namespace maintain sufficient balances"
  (`cmd/operator.go:33`): the operator's client has no timeout and its context none by
  default, so that one request without an answer ends the funding of all later pods.
* "Existing nodes that require balance top-ups" (`operator.go:30`): events of
  pods that are there already are skipped, and after five failed attempts the
  empty address is handed to the funder.
* The reader of a websocket stays at `errCh <- err` when the forwarder has ended
  before it (`wslistener.go:39`).
* pushsync's mode for chunks never fails for want of replicas
  (`check_chunks.go:95`); networkavailability downloads through the node it uploaded to
  (`:93`); fullconnectivity counts light peers; settlements only logs an asymmetry;
  a denial in act is any error at all; a failed disconnect in autotls is a warning.
* stake: an error of `WaitMined` returns before the deferred unpause is in place; the
  contract stays paused, and the next run skips its test and passes. withdraw
  compares sums only, so that a late transaction of an earlier run is taken for its own.
  cashout forgets the cheques of an earlier run whose answer was lost, and passes while
  they are unconfirmed or bounced.
* pushsync asks the closest node it knows of although that may have taken the upload itself, or
  be a light node; fileretrieval downloads through the last node, which may be the uploader.
* settlements does not end with a single full node (`settlements.go:303` draws a second one
  until it differs), and autotls polls for the underlays until its context ends
  (`autotls.go:131`).
* pingpong leaves out stopped nodes without a word (the TODO at `pingpong.go:50`), and a
  StatefulSet that is gone counts as updated in restart (`statefulset/client.go:218`).
* load: goroutines of an iteration outlive it and pile up, a failed upload writes the
  zero address over a good one. datadurability: a download is judged by an `err`
  another goroutine may have assigned, so that the error of a chunk is lost. pingpong: after an error the other
  goroutines stay blocked at their sends.
* balances uses a random source that may be nil; longavailability draws from
  none when every node has pinned the file; the simulation of pushsync freezes the uploaders
  too, although its comment excludes them, and may look for buckets without end.
* restart silently skips pods without a StatefulSet. The block time is 0 for blocks of
  less than half a second, and an arbitrary number when there are fewer than
  two blocks; either is then cached.

## 4. Proofs

`ClusterSetupProofs` (any configuration: `ConfigAssumption` asks only for disjoint
groups, finitely many nodes and total functions):

* `TypeCorrect`, `BootnodesFirstHolds`, `SuccessIsCompleteHolds`, `OnlyReadyFundedHolds`,
  `OthersShareBootnodeHolds`;
* `SetupImplementsOrderedStart`: every step of the set up is a step of `OrderedStart` or
  invisible.

None of these is inductive. The strengthening says that `nodeCount` is the
number of goroutines the pass has started and `received` the number of results
taken (cardinalities of sets of nodes, hence the finite set theorems), that the
nodes without a goroutine are those in `left` or in groups still in `todo`, that
a goroutine past `StartNode` belongs to a ready node, that an address is kept
exactly for the nodes received that have one, and that the goroutines of the second pass are
idle during the first. For `OthersShareBootnode` (`Sharing`): once a bootnode has its
goroutine, what is handed on is the address of a bootnode; the configuration of a group of
the second pass is written when the group is entered and never again, so that its
goroutines read it while nobody writes; and what they have created has that address.

`NodeOrchestratorProofs` (any set of options, any number of commands):

* `TypeCorrect`, `DependenciesFirstHolds`, `DeleteLeavesNothingHolds`, `ReadyRunsNewConfigHolds`.

The strengthening states at each call which resources exist (`SetSoFar`) or are
gone (`GoneSoFar`), and follows one pod from the StatefulSet that asks for it
to the status that reports it (`FreshPod`).

`ChecksProofs`, of `CheckRunner` (any number of checks, any of them with a timeout):

* `TypeCorrect`, `NilMeansAllPassedHolds`, `AllOrNothingHolds`.

That nil means all passed rests on where a result can come from: what is in the
channel of a check is what its action returned (`Returned`), a success recorded is
the check's own (`OwnSuccess`), and the checks before the one at hand are recorded
(`Progress`).

`MessageChecksProofs` (any number of messages, sent and arriving):

* `TypeCorrect`, `PassMeansDeliveredHolds`, `InOrderHolds`.

The strengthening follows a message: between the connection and the check it is
held by the reader (`Held`) or the forwarder, so that the length of what the check
has got, and hence the next message, is known while both run (`Flow`); the
map of gsoc holds what has arrived and at most the empty message, which is no
payload (`Seen`); pss ends with its text, which has arrived in this iteration, sent in it or
in an earlier one; and the wait begins only with all uploads accepted (`Uploads`).

`ClusterDataProofs` (any node groups, any number of stops and starts):

* `TypeCorrect`, `NoSendOnClosedHolds`, `RunningKeptHolds`.

A stream is closed only after its goroutines are counted out, and what it has
carried is the answer of every node of its group that was never touched, under the
node's own overlay; the two streams of a query that needs overlays are followed one
after the other, and the merge of the groups loses and doubles nothing because groups
are disjoint (again cardinalities, for the replication factor).

`NukerProofs` (any StatefulSets, pods and selections):

* `OthersRestoredHolds`, `SuccessMeansNukedHolds`.

The invariant says what a StatefulSet is owed at each place of the loop: one still to
come is untouched, Kubernetes included (`Templates`, `Waiting`); a waiting goroutine
of the nuke phase that returned nil has seen the event of its own pod, and one that
returned an error has left it in the errgroup (`Watchers`); behind the first
`g.Wait()` every pod of the set is nuked (`Nuked`).

`JobsProofs` (any numbers of uploads, iterations, chunks, nodes, pods and blocks):

* `NilMeansDoneHolds`, `MismatchIsRealHolds`, `BlockTimeInRangeHolds`.

One invariant with a part per job; a job's steps leave the state of the others alone.
`Load`: only the uploaders of the iteration at hand send what the downloaders compare
with (`OwnContent`), and a download is compared before the next iteration begins (`Downloads`).
`Durability`: the file is counted once, by the once function or at the end (`Counts`), and while
all chunks have failed the shared `err` is set when a goroutine looks (`SharedErr`).
`Pingpong`: a ping that has ended is recorded, or its message is on the way (`Recorded`), and every node
that was never stopped has its goroutine.
`Restart`: a pod is still to be looked at, or its StatefulSet is gone, still in the map or at hand,
or both have the new image unless the pod's deletion is due (`ImagesUpdated`).
`BlockTime`: the timestamp is a recursive function of the height, so that bounds on
a difference would need induction over data, which is out of reach; the lemma is
proved instead from the smallest height that would violate it (the library's
theorem that the order of the naturals is well founded takes no operator as a parameter).

`StamperProofs` (any nodes, batches, prices, flags and estimates of the block time:
`FlagsAssumption` is what `Create` refuses and an `1 << extraDepth` that is positive):

* `TypeCorrect`, `NoOverpayHolds`, `SetHealsHolds`.

Nobody but this loop tops up or dilutes, each batch once per list, so that what the
list says of a batch it has not come to is at most too high in balance, unless a top-up was
missing from it (`ListIsOld`); a TTL in the list is the balance at some price there was (`TtlOfPrice`).
What is left and what is added, each at its own price, stay below the limit. For
`SetHeals` a second invariant follows a pass: the nodes behind it are healed (`Behind`),
and on the node at hand the batches before the index are healed, those after it are
as listed, and the one between its top-up and its dilution is healed by the latter (`AtHand`).
The arithmetic needs `2^(a+b) = 2^a * 2^b`, another induction over data; here `2^n` is the
number of subsets of an interval, of which the library knows the cardinality, and the
law is a bijection.

`ChecksProofs`, of `Operator` (any finite set of pods without the name that stands for
none, any labels and services, any number of attempts and of changes):

* `OwnAddressHolds`, `OperatorTypeCorrect`.

While a pod is at hand, the service found for it selects it and has an api port, and the
address is empty or of a pod that service selects (`AddressOfService`); an attempt is made
only while one is left.

`ChecksProofs`, of `Checks` (any full and light nodes, in whatever order a map lists them, any
items, placements, retries, polls, uploading nodes, runs and lost responses):

* `PaysForCauseHolds`, `PassMeansPaidHolds`, `AutoTlsIsRealHolds`, `PassMeansStoredHolds`.

A script is put together by loops (`ForEach`, that is `FlattenSeq`) over nodes and contents
whose number the constants give. What is needed of a script is therefore stated of any
sequence of requests, in such a form that a concatenation has it when its parts have
it, and that the rest of a script has it; the lemma about a loop (`FlattenIn`) is proved from
the smallest number of rounds that would violate it, in place of an induction. Then:

* `PaysForCause` (`PaysInv`). The rest of the script is a walk: only the list that found no
  batch leads to a purchase, and only a purchase to the polls for it (`Walk`, `Entry`). So a
  batch paid for without an excuse is usable, or is being polled for, and whoever is about
  to buy has an excuse for every purchase so far (`Accounted`).
* `PassMeansPaid` (`PaidInv`). The place in the script says how far the money is: `StakeInv` and
  `WithdrawInv` name the stage behind each request of scripts of fixed length, `CashoutInv` says
  of every node whose cheque this run has cashed that it is paid, or that its round of
  confirmation is still to come whole (`Rounded`).
* `AutoTlsIsReal` (`AutoInv`). A request that must still pass cannot be skipped: no answer
  to an earlier one leads beyond it (`Unskipped`, `Awaits`), and only the right answer leads on from
  it (`Strict`). Serial numbers that were read were issued, and they only grow (`Recorded`);
  unless a request broke, the connection to a node was made at its own address (`Homed`).
* `PassMeansStored` (`StoreInv`). After every upload comes, unskippably, a request that only an
  item at its home, or at the node the check trusts, lets pass (`Confirms`, `Reaches`, `Verified`): a
  request to that node itself, or through a node to which the check uploads no such item.
  What an item may be at is in the invariant (`Placed`): at its home or the trusted node, or
  only where the check put it. Nothing is assumed of how many nodes there are: where the reader
  may be the uploader, the property says so (`Trusted`).

The assumptions are those of the modules (`ScriptAssumption`, `ClientAssumption`,
`ContentAssumption`, `ItemsAssumption`, `AccountingAssumption`, `TopologyAssumption`): finitely many
nodes, full and light ones apart, at least one retry, and items numbered from 1, enough for every
check. `OptionsFit` keeps to options with which the code does not index beyond its list of names.

Each strengthening was checked by TLC on the instance of its run before it was
proved (of `StoreInv`, with the uploads of the script at hand for the set that exists).
What stays with TLC:

* liveness under fairness (`SetupEnds`, `CommandEnds`, `PodsReturn`, `RunEnds`, `QueryEnds`,
  `Settles`, `EventsHandled`, `CheckEnds` of `MessageChecks` and `JobEnds`), which is out of the prover's reach;
* `BlameIsReal` of `Checks`. It needs, of each of the 36 scripts, at each request, that a settled
  cluster gives the answer the code wants; its invariant would be a table as long as the scripts.

The type invariants of `ClusterSetup`, `NodeOrchestrator`, `CheckRunner` and `MessageChecks` are
proved and no longer repeated in their runs.

## 5. Not modelled, and the plan

The manifests' fields, log texts, flags, URLs and encodings are data. Bee's own
protocol is outside this repository. Left out, and listed in `PROJECT.json` with
the reason: the random neighborhood provider (one request, never enabled), the
configuration (its parsing is a library's, its inheritance a copy of fields by reflection), the node
funder and provider (one call of another repository's library), the random, bigint and
test helpers, the command line, logging, metrics and tracing, and the generated
binding `stake/contract.go`. Of the Bee client, getters that no check uses are left out, and the
building of chunks; of the Geth client, its single transfers. Loops of simulations that
never end are bounded passes.

Next, in this order:

1. `BlameIsReal` of `Checks` as a theorem, check by check.
2. An abstract specification of a check (ask, wait, judge once) and `Checks` shown to
   implement it.
3. Configuration inheritance as a function, checked against a reference.
