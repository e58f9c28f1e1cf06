------------------------------ MODULE Stamper ------------------------------
(***************************************************************************)
(* The stamper (pkg/stamper, cmd/beekeeper/cmd/stamper.go): one command,   *)
(* create, topup, dilute or set, goes through the nodes one after another  *)
(* and through the postage batches of each; topup, dilute and set are      *)
(* repeated for ever under --periodic-check.                               *)
(*                                                                         *)
(* Every request to a node is a step of its own.  Between two of them      *)
(* blocks are mined, chunks are stamped and the price moves, so the list   *)
(* of batches the client works from may be out of date; a request may be   *)
(* refused, or carried out with its answer lost.  And a node lists what    *)
(* happens on the chain late: bee/client.go waits up to a minute for a     *)
(* top-up or a dilution to show, the stamper does not wait at all.         *)
(*                                                                         *)
(* A batch's balance is what is left per chunk.  The node reports          *)
(* batchTTL, the balance divided by the price, in seconds; diluting by d   *)
(* levels spreads the balance over 2^d times as many chunks.               *)
(***************************************************************************)
EXTENDS Integers, Sequences, SequencesExt, FiniteSets

CONSTANTS
    NodeCount,          \* nodes are 1..NodeCount, in the order of GetNodes
    Names,              \* identifiers and labels of batches
    InitBatches,        \* the lists of batches a node may start with
    Prices,             \* prices per chunk and block, 0 included
    Commands,           \* subset of {"create", "topup", "dilute", "set"}
    Duration, Depth,    \* --duration (seconds) and --depth of create
    TtlThreshold,       \* --ttl-threshold, seconds
    TopUpTo,            \* --topup-to, seconds
    UsageThreshold,     \* --usage-threshold, percent
    ExtraDepth,         \* --dilution-depth
    NodeBlockTime,      \* the block time a node reckons batchTTL with
    SecondsPerBlock,    \* the block time the client has from FetchBlockTime
    BucketDepth,        \* postage.BucketDepth
    BatchIDs, PostageLabels,    \* --batch-ids, --postage-labels; {} when not given
    MaxEvents,          \* bound on blocks, uploads and price changes
    MaxFailures         \* bound on refused requests, lost answers and late lists

Nodes == 1..NodeCount

BatchRecords == [id : Names, label : Names, balance : Nat, depth : Nat, util : Nat,
                 usable : BOOLEAN]

Capacity(b) == 2^(b.depth - BucketDepth)

\* what the contract and the node keep: no batch is shallower than its buckets,
\* no bucket is overfull
Sound(b) == b.depth >= BucketDepth /\ b.util <= Capacity(b)

\* Create refuses a duration of 0 and a depth of BucketDepth or less before it
\* does anything; no other flag is looked at.  1 << extraDepth is an int64, which
\* is positive up to 62 (Set panics from 64 on).
ASSUME FlagsAssumption ==
    /\ {Duration, Depth, TtlThreshold, TopUpTo, UsageThreshold, ExtraDepth, BucketDepth,
        MaxEvents, MaxFailures} \subseteq Nat
    /\ {NodeBlockTime, SecondsPerBlock, NodeCount} \subseteq Nat \ {0}
    /\ Duration > 0 /\ Depth > BucketDepth /\ ExtraDepth <= 62

\* Prices have a maximum, and nodes hold batches as the contract does.
ASSUME ChainAssumption ==
    /\ Prices \subseteq Nat /\ \E p \in Prices : \A q \in Prices : q <= p
    /\ "new" \in Names /\ BatchIDs \cup PostageLabels \subseteq Names
    /\ \A bs \in InitBatches : bs \in Seq(BatchRecords) /\ \A i \in DOMAIN bs : Sound(bs[i])

VARIABLES
    price,      \* current price of the chain
    batches,    \* batches[n]: the batches of node n on the chain
    shown,      \* shown[n]: the list of them the node shows
    cmd,        \* the command that runs
    pc,         \* where the client is
    node, idx,  \* node and position in its list the client is at
    snap,       \* the list as the node reported it, with batchTTL
    snapPrice,  \* the price as the node reported it
    late,       \* when that list was read, a top-up was missing from it
    passed,     \* a pass over the nodes has ended
    broken,     \* nodes where the pass failed or that changed since it began
    events, failures

vars == <<price, batches, shown, cmd, pc, node, idx, snap, snapPrice, late, passed,
          broken, events, failures>>
client == <<cmd, pc, node, idx, snap, snapPrice, late, passed>>

Periodic == cmd # "create"

----------------------------------------------------------------------------
(* What a node reports (external), and what the client makes of it.        *)

\* batchTTL; a node reports -1 when stamps cost nothing
BatchTTL(b) == IF price = 0 THEN -1 ELSE (b.balance \div price) * NodeBlockTime

ReportOf(b) == [id |-> b.id, label |-> b.label, balance |-> b.balance, depth |-> b.depth,
                util |-> b.util, usable |-> b.usable, ttl |-> BatchTTL(b)]

ReportRecords == [id : Names, label : Names, balance : Nat, depth : Nat, util : Nat,
                  usable : BOOLEAN, ttl : Int]

Report(bs) == [i \in DOMAIN bs |-> ReportOf(bs[i])]

\* BatchUsage, in percent
BatchUsage(b) == (b.util * 100) \div Capacity(b)

isValidBatch(b) ==
    /\ b.usable /\ b.util # 0 /\ b.ttl > 0
    /\ BatchIDs # {} => b.id \in BatchIDs
    /\ PostageLabels # {} => b.label \in PostageLabels

NeedsDilution(b) == BatchUsage(b) >= UsageThreshold

\* Set counts on the TTL the batch will have once diluted: the reported one
\* over this scale.
Scale(b) == IF cmd = "set" /\ NeedsDilution(b) THEN 2^ExtraDepth ELSE 1

WantsTopup_Always(b) == TopUpTo * Scale(b) > b.ttl

\* handleTopup goes on to the request
WantsTopup(b) ==
    /\ b.ttl <= TtlThreshold * Scale(b)
    /\ TopUpTo * Scale(b) > b.ttl

Blocks(secs) == secs \div SecondsPerBlock

\* the amount per chunk that handleTopup sends
TopupAmount(b) ==
    Blocks((TopUpTo * Scale(b) - b.ttl) \div Scale(b)) * snapPrice

\* the batches of the list the loop of the command stops at
Handles(b) ==
    /\ isValidBatch(b)
    /\ CASE cmd = "topup"  -> TRUE
         [] cmd = "dilute" -> NeedsDilution(b)
         [] cmd = "set"    -> b.ttl <= TtlThreshold * Scale(b) \/ NeedsDilution(b)
         [] OTHER          -> FALSE

\* the next of them, or one past the end of the list
NextHandled ==
    LET ks == {k \in idx..Len(snap) : Handles(snap[k])}
    IN  IF ks = {} THEN Len(snap) + 1 ELSE CHOOSE k \in ks : \A j \in ks : k <= j

----------------------------------------------------------------------------
Init ==
    /\ price \in Prices
    /\ batches \in [Nodes -> InitBatches] /\ shown = batches
    /\ cmd \in Commands
    /\ pc = "idle" /\ node = 1 /\ idx = 1
    /\ snap = <<>> /\ snapPrice = 0 /\ late = FALSE
    /\ passed = FALSE /\ broken = {}
    /\ events = 0 /\ failures = 0

FirstStep == IF cmd = "dilute" THEN "list" ELSE "price"

\* Client.Create, Topup, Dilute and Set up to the loop: the nodes are listed and,
\* but for Dilute, the block time fetched.
Begin ==
    /\ pc = "idle"
    /\ pc' = FirstStep /\ node' = 1 /\ idx' = 1
    /\ passed' = FALSE /\ broken' = {}
    /\ UNCHANGED <<price, batches, shown, cmd, snap, snapPrice, late, events, failures>>

\* One of these fails: executePeriodically logs it and waits for the ticker.
BeginFails ==
    /\ pc = "idle" /\ failures < MaxFailures
    /\ failures' = failures + 1
    /\ pc' = IF Periodic THEN "idle" ELSE "done"
    /\ UNCHANGED <<price, batches, shown, cmd, node, idx, snap, snapPrice, late, passed,
                   broken, events>>

\* on to the next node of the loop, or to the end of the pass
GoTo(n) ==
    IF n <= NodeCount
    THEN pc' = FirstStep /\ node' = n /\ UNCHANGED passed
    ELSE pc' = (IF Periodic THEN "idle" ELSE "done") /\ passed' = TRUE /\ UNCHANGED node

EndNode_Past == pc' = FirstStep /\ node' = node + 1 /\ UNCHANGED passed

\* The loop over the nodes goes on whether this node succeeded or not.
EndNode == GoTo(node + 1)

NodeFails_Stops ==
    /\ broken' = broken \cup {node}
    /\ pc' = (IF Periodic THEN "idle" ELSE "done") /\ passed' = TRUE
    /\ idx' = 1
    /\ UNCHANGED <<cmd, node, snap, snapPrice, late>>

\* the command returns an error for this node; it is logged
NodeFails ==
    /\ broken' = broken \cup {node}
    /\ EndNode
    /\ idx' = 1
    /\ UNCHANGED <<cmd, snap, snapPrice, late>>

\* Outcomes of a request: carried out and answered, refused, or carried out
\* with the answer lost.
Carried == {"ok", "lost"}
Outcomes(possible) ==
    IF ~possible THEN {"refused"}
    ELSE {"ok"} \cup (IF failures < MaxFailures THEN {"refused", "lost"} ELSE {})
CountFailure(o, possible) ==
    failures' = IF possible /\ o # "ok" THEN failures + 1 ELSE failures

\* getPrice
ReadPrice ==
    /\ pc = "price"
    /\ \E o \in Outcomes(price > 0) \ {"lost"} :
        /\ CountFailure(o, price > 0)
        /\ \/ /\ o = "ok"
              /\ snapPrice' = price
              /\ pc' = IF cmd = "create" THEN "create" ELSE "list"
              /\ UNCHANGED <<cmd, node, idx, snap, late, passed, broken>>
           \/ o = "refused" /\ NodeFails
    /\ UNCHANGED <<price, batches, shown, events>>

Stale(n) == shown[n] # batches[n]

\* PostageBatches: the node answers with what it has seen of the chain
ReadBatches ==
    /\ pc = "list"
    /\ \/ /\ Stale(node) => failures < MaxFailures
          /\ failures' = IF Stale(node) THEN failures + 1 ELSE failures
          /\ broken' = IF Stale(node) THEN broken \cup {node} ELSE broken
          /\ snap' = Report(shown[node])
          /\ late' = \E i \in DOMAIN shown[node] :
                        shown[node][i].balance < batches[node][i].balance
          /\ pc' = "batch" /\ idx' = 1
          /\ UNCHANGED <<cmd, node, snapPrice, passed>>
       \/ /\ failures < MaxFailures /\ failures' = failures + 1
          /\ NodeFails
    /\ UNCHANGED <<price, batches, shown, events>>

\* No batch of the list is left for the loop of the command.
NoMoreBatches ==
    /\ pc = "batch" /\ NextHandled > Len(snap)
    /\ EndNode /\ idx' = 1
    /\ UNCHANGED <<price, batches, shown, cmd, snap, snapPrice, late, broken, events, failures>>

\* After a batch is done: Topup and Dilute return at the first batch they
\* stop at, Set goes on with the list.
AfterBatch(k) ==
    IF cmd = "set"
    THEN pc' = "batch" /\ idx' = k + 1 /\ UNCHANGED <<node, passed>>
    ELSE EndNode /\ idx' = 1

Expired(k) == batches[node][k].balance = 0

\* the contract: the amount is added to what is left per chunk
ToppedUp(b, amount) == [b EXCEPT !.balance = @ + amount]

\* handleTopup with a request
TopupBatch ==
    /\ pc = "batch" /\ NextHandled <= Len(snap) /\ cmd # "dilute"
    /\ LET k == NextHandled  IN
        /\ WantsTopup(snap[k])
        /\ \E o \in Outcomes(~Expired(k)) :
            /\ CountFailure(o, ~Expired(k))
            /\ batches' = IF o \in Carried
                          THEN [batches EXCEPT ![node][k] = ToppedUp(@, TopupAmount(snap[k]))]
                          ELSE batches
            /\ \/ /\ o = "ok"
                  /\ IF cmd = "set" /\ NeedsDilution(snap[k])
                     THEN pc' = "dilute" /\ idx' = k /\ UNCHANGED <<node, passed>>
                     ELSE AfterBatch(k)
                  /\ UNCHANGED <<cmd, snap, snapPrice, late, broken>>
               \/ o # "ok" /\ NodeFails
    /\ UNCHANGED <<price, shown, events>>

\* handleTopup without one.
KeepTtl ==
    /\ pc = "batch" /\ NextHandled <= Len(snap) /\ cmd # "dilute"
    /\ LET k == NextHandled  IN
        /\ ~WantsTopup(snap[k])
        /\ IF cmd = "set" /\ NeedsDilution(snap[k])
           THEN pc' = "dilute" /\ idx' = k /\ UNCHANGED <<node, passed>>
           ELSE AfterBatch(k)
    /\ UNCHANGED <<price, batches, shown, cmd, snap, snapPrice, late, broken, events, failures>>

NewDepth_Same(b) == b.depth
NewDepth(b) == b.depth + ExtraDepth

\* the contract: a deeper batch with the balance spread over its chunks
Diluted(b, depth) ==
    [b EXCEPT !.depth = depth, !.balance = @ \div (2^(depth - b.depth))]

\* the contract takes only a greater depth
Dilutable(k) == ~Expired(k) /\ NewDepth(snap[k]) > batches[node][k].depth

\* handleDilution, of Set after the top-up and of Dilute
DiluteBatch ==
    /\ \/ pc = "dilute"
       \/ pc = "batch" /\ cmd = "dilute" /\ NextHandled <= Len(snap)
    /\ LET k == IF pc = "dilute" THEN idx ELSE NextHandled  IN
        \E o \in Outcomes(Dilutable(k)) :
            /\ CountFailure(o, Dilutable(k))
            /\ batches' = IF o \in Carried
                          THEN [batches EXCEPT ![node][k] = Diluted(@, NewDepth(snap[k]))]
                          ELSE batches
            /\ \/ o = "ok" /\ AfterBatch(k) /\ UNCHANGED <<cmd, snap, snapPrice, late, broken>>
               \/ o # "ok" /\ NodeFails
    /\ UNCHANGED <<price, shown, events>>

NewBatch == [id |-> "new", label |-> "new", balance |-> Blocks(Duration) * snapPrice,
             depth |-> Depth, util |-> 0, usable |-> TRUE]

\* stamperNode.Create: the new batch is stamped from once it is used
CreateBatch ==
    /\ pc = "create"
    /\ \E o \in Outcomes(TRUE) :
        /\ CountFailure(o, TRUE)
        /\ batches' = IF o \in Carried
                      THEN [batches EXCEPT ![node] = Append(@, NewBatch)]
                      ELSE batches
        /\ \/ o = "ok" /\ EndNode /\ idx' = 1 /\ UNCHANGED <<cmd, snap, snapPrice, late, broken>>
           \/ o # "ok" /\ NodeFails
    /\ UNCHANGED <<price, shown, events>>

----------------------------------------------------------------------------
(* The chain, and what the node sees and stamps (external).                *)

Event == events < MaxEvents /\ events' = events + 1

\* Everybody's chunks are paid for the next block.
Block ==
    /\ Event
    /\ batches' = [n \in Nodes |-> [i \in DOMAIN batches[n] |->
                    [batches[n][i] EXCEPT !.balance = IF @ < price THEN 0 ELSE @ - price]]]
    /\ broken' = Nodes
    /\ UNCHANGED <<price, shown, client, failures>>

\* The node has seen what happened on the chain.
Sync(n) ==
    /\ Stale(n)
    /\ shown' = [shown EXCEPT ![n] = batches[n]]
    /\ UNCHANGED <<price, batches, client, broken, events, failures>>

HasRoom(b) == b.util < Capacity(b)

\* A chunk is stamped with a batch the node knows (on the chain it is as deep or
\* deeper).
Upload(n, i) ==
    /\ Event
    /\ shown[n][i].usable /\ shown[n][i].balance > 0
    /\ HasRoom(shown[n][i]) /\ HasRoom(batches[n][i])
    /\ shown' = [shown EXCEPT ![n][i].util = @ + 1]
    /\ batches' = [batches EXCEPT ![n][i].util = @ + 1]
    /\ broken' = broken \cup {n}
    /\ UNCHANGED <<price, client, failures>>

PriceChange ==
    /\ Event
    /\ \E p \in Prices \ {price} : price' = p
    /\ broken' = Nodes
    /\ UNCHANGED <<batches, shown, client, failures>>

Step ==
    \/ Begin \/ ReadPrice \/ ReadBatches \/ NoMoreBatches
    \/ TopupBatch \/ KeepTtl \/ DiluteBatch \/ CreateBatch

Next ==
    \/ Step \/ BeginFails
    \/ Block \/ PriceChange
    \/ \E n \in Nodes : Sync(n) \/ \E i \in DOMAIN shown[n] : Upload(n, i)

\* The ticker of executePeriodically goes on for ever when --timeout is 0, every
\* request is answered or fails, and a node shows what is on the chain in the end.
Spec ==
    /\ Init /\ [][Next]_vars
    /\ WF_vars(Step) /\ \A n \in Nodes : WF_vars(Sync(n))

----------------------------------------------------------------------------
TypeOK ==
    /\ price \in Prices /\ snapPrice \in Prices \cup {0}
    /\ cmd \in Commands
    /\ pc \in {"idle", "price", "list", "batch", "dilute", "create", "done"}
    /\ node \in Nodes /\ idx \in 1..(Len(snap) + 1)
    /\ broken \subseteq Nodes /\ passed \in BOOLEAN /\ late \in BOOLEAN
    /\ events \in 0..MaxEvents /\ failures \in 0..MaxFailures
    /\ snap \in Seq(ReportRecords)
    /\ \A list \in {batches, shown} :
        /\ list \in [Nodes -> Seq(BatchRecords)]
        /\ \A n \in Nodes : \A i \in DOMAIN list[n] : Sound(list[n][i])

MaxPrice == CHOOSE p \in Prices : \A q \in Prices : q <= p

Reported(n) == Report(batches[n])
InLoop(n) == {b \in ToSet(Reported(n)) : isValidBatch(b)}

\* --topup-to on top of the longest TTL that still calls for a top-up
PayLimit ==
    MaxPrice * (Blocks(TopUpTo) + (TtlThreshold * (2^ExtraDepth)) \div NodeBlockTime + 1)

\* The stamper does not pay for more than the flags ask: however old the list
\* and the price it works from, however often passes are repeated, answers lost
\* and dilutions refused after their top-up was paid, a batch is brought above
\* PayLimit only when the node did not list a top-up yet that it had carried out
\* (handleTopup, Set): the stamper does not wait for that, and pays again.
NoOverpay ==
    [][\A n \in Nodes : \A i \in DOMAIN batches[n] :
        batches'[n][i].balance > batches[n][i].balance =>
            late \/ batches'[n][i].balance <= PayLimit]_vars

\* At the end of a pass the node was not left out of.
PassDone(c, n) == cmd = c /\ passed /\ n \notin broken

\* Above the threshold or --topup-to, or what the dilution leaves of a top-up to
\* --topup-to; rounding takes less than a block.
EnoughTtl(ttl) ==
    \/ ttl + NodeBlockTime > (IF TtlThreshold <= TopUpTo THEN TtlThreshold ELSE TopUpTo)
    \/ ttl >= (Blocks(TopUpTo) \div (2^ExtraDepth)) * NodeBlockTime

\* Below the threshold, or as low as a single dilution can make it.
EnoughRoom(usage) == usage < UsageThreshold \/ usage * (2^ExtraDepth) <= 100

\* A pass of set in which nothing fails or changes on a node leaves each of
\* its batches in use with a TTL above the threshold or, where the batch was
\* diluted after its top-up, of --topup-to over 2^ExtraDepth, and with room,
\* whatever the flags and whatever failed on the other nodes (Client.Set,
\* stamperNode.Set).
SetHeals ==
    \A n \in Nodes : PassDone("set", n) =>
        \A b \in InLoop(n) : EnoughTtl(b.ttl) /\ EnoughRoom(BatchUsage(b))

\* Once requests no longer fail and nothing changes, repeated passes bring every
\* batch in use below the usage threshold, although Dilute stops at the first
\* batch of a node, and under set above the TTL threshold as well.
Settled ==
    \A n \in Nodes : \A b \in InLoop(n) :
        ~NeedsDilution(b) /\ (cmd = "set" => b.ttl > TtlThreshold)
Settles == cmd \in {"dilute", "set"} => <>[]Settled

============================================================================
