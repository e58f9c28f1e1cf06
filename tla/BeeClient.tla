----------------------------- MODULE BeeClient -----------------------------
(***************************************************************************)
(* The Bee client (pkg/bee/client.go) as the checks use it: the requests,  *)
(* by the name of the method that sends them, with the retries that the    *)
(* method makes itself, and the postage batches that it buys, tops up and  *)
(* dilutes.  A batch is paid for by a transaction: it is pending until     *)
(* the chain has confirmed it and usable afterwards, until it is used up.  *)
(***************************************************************************)
EXTENDS CheckScript

CONSTANTS
    Full, Light,        \* the nodes, as numbers
    PollTries,          \* bound on polls for a batch (900 and 60 in the code)
    ClientRetries       \* retryCount of the client

ASSUME ClientAssumption ==
    /\ Full \subseteq Nat /\ Light \subseteq Nat /\ Full \cap Light = {}
    /\ IsFiniteSet(Full) /\ IsFiniteSet(Light)
    /\ PollTries \in Nat \ {0} /\ ClientRetries \in Nat \ {0}

Nodes == Full \cup Light

VARIABLES
    pend,       \* pend[n]: batches of n that are paid for and not yet usable
    use,        \* use[n]: usable batches of n
    bought,     \* bought[n]: transactions that bought a batch for n
    excuse,     \* excuse[n]: times n's client could not know of a good batch
    stamp       \* the batch of the postage check: amount, depth and what is due

batches == <<pend, use, bought, excuse, stamp>>

-----------------------------------------------------------------------------
(* The requests *)

Addresses(n) == Step("read", n, "addresses")
Overlay(n) == Retried(ClientRetries, Step("read", n, "overlay"))
Topology(n) == Retried(ClientRetries, Step("read", n, "topology"))
HasChunk(n, x) == Step("has", n, x)
UploadChunk(n, x) == Step("upload", n, x)
UploadBytes(n, x) == Step("upload", n, x)
UploadSOC(n, x) == Step("upload", n, x)
UploadFile(n, x) == Step("upload", n, x)
UploadActFile(n, x) == Step("upload", n, x)
UploadCollection(n, x) == Step("upload", n, x)
CreateRootFeedManifest(n, x) == Step("upload", n, x)
Direct(s) == [s EXCEPT !.op = "push"]
DownloadBytes(n, x) == Step("download", n, x)
DownloadChunk(n, x) == Step("download", n, x)
DownloadFileBytes(n, x) == Step("feedfile", n, x)
DownloadFile(n, x) == Step("download", n, x)
DownloadManifestFile(n, x) == Step("download", n, x)
UpdateFeedWithReference(n, x) == Step("update", n, x)
UpdateFeedWithRootChunk(n, x) == Step("update", n, x)
FindFeedUpdate(n, x) == Step("find", n, x)

CreateTag(n) == Step("read", n, "tag")
WaitSync(n) == Step("read", n, "sync")

\* chain state and block time, then the list of batches: one that exists, is
\* mutable, of this label, usable, not expired and not full is taken
ChainState(n) == Step("read", n, "chain")
PostageBatches_NeverFit(n) == [Step("list", n, 0) EXCEPT !.no = 1]
PostageBatches(n) == [Step("list", n, 0) EXCEPT !.ok = 3, !.no = 1]

\* the purchase, and the polls until the batch is usable; errors are skipped
CreatePostageBatch(n) ==
    <<Step("buy", n, 0), Retried(PollTries, Step("usable", n, 0))>>

GetOrCreateMutableBatch(n) ==
    <<ChainState(n), PostageBatches(n)>> \o CreatePostageBatch(n)

PostageStamp(n, x) == Step("stamp", n, x)

TopUpPostageBatch(n) ==
    <<Step("read", n, "stamp"), Step("topup", n, 0),
      Polled(PollTries, Step("toppedup", n, 0))>>

DilutePostageBatch(n) ==
    <<Step("read", n, "stamp"), Step("dilute", n, 0),
      Polled(PollTries, Step("diluted", n, 0))>>

-----------------------------------------------------------------------------
(* The node's side *)

\* the calls whose answer the scripts do not tell apart
Read ==
    /\ At("read")
    /\ Reply("ok") \/ Breaks("err")
    /\ UNCHANGED batches

List ==
    /\ At("list")
    /\ \/ RightOrNot(use[Head(todo).n] > 0)
       \/ Breaks("err")
    /\ UNCHANGED batches

\* the transaction is sent; when the response is lost the client cannot tell
Buy ==
    LET n == Head(todo).n
    IN  /\ At("buy")
        /\ \/ Reply("ok") /\ pend' = [pend EXCEPT ![n] = @ + 1]
              /\ bought' = [bought EXCEPT ![n] = @ + 1] /\ UNCHANGED excuse
           \/ Breaks("err") /\ pend' = [pend EXCEPT ![n] = @ + 1]
              /\ bought' = [bought EXCEPT ![n] = @ + 1]
              /\ excuse' = [excuse EXCEPT ![n] = @ + 1]
           \/ Breaks("err") /\ UNCHANGED <<pend, bought, excuse>>
        /\ stamp' = [amount |-> 1, depth |-> 1, dueAmount |-> 0, dueDepth |-> 0]
        /\ UNCHANGED use

\* batches become usable in the order they were bought
Usable ==
    LET n == Head(todo).n
        lastPoll == tries + 1 = Head(todo).max
    IN  /\ At("usable")
        /\ \/ pend[n] = 0 /\ Reply("ok") /\ UNCHANGED excuse
           \/ ((pend[n] > 0 /\ Reply("no")) \/ Breaks("err"))
              /\ excuse' = [excuse EXCEPT ![n] = IF lastPoll THEN @ + 1 ELSE @]
        /\ UNCHANGED <<pend, use, bought, stamp>>

Mature(n) ==
    /\ pend[n] > 0
    /\ pend' = [pend EXCEPT ![n] = @ - 1]
    /\ use' = [use EXCEPT ![n] = @ + 1]
    /\ UNCHANGED <<script, bought, excuse, stamp>>

\* between two runs a batch expires or fills up
UsedUp(n) ==
    /\ verdict # "none" /\ runs < MaxRuns /\ use[n] = 1
    /\ use' = [use EXCEPT ![n] = 0]
    /\ excuse' = [excuse EXCEPT ![n] = @ + 1]
    /\ UNCHANGED <<script, pend, bought, stamp>>

StampIs ==
    /\ At("stamp")
    /\ \/ RightOrNot(<<stamp.amount, stamp.depth>> = Head(todo).x)
       \/ Breaks("err")
    /\ UNCHANGED batches

TopUp ==
    /\ At("topup")
    /\ \/ Reply("ok") /\ stamp' = [stamp EXCEPT !.dueAmount = 1]
       \/ Breaks("err") /\ UNCHANGED stamp
    /\ UNCHANGED <<pend, use, bought, excuse>>

Dilute ==
    /\ At("dilute")
    /\ \/ Reply("ok") /\ stamp' = [stamp EXCEPT !.dueDepth = 1]
       \/ Breaks("err") /\ UNCHANGED stamp
    /\ UNCHANGED <<pend, use, bought, excuse>>

\* the transaction is mined: amount and depth only grow
Mined ==
    /\ stamp.dueAmount + stamp.dueDepth > 0
    /\ stamp' = [amount |-> stamp.amount + stamp.dueAmount,
                 depth |-> stamp.depth + stamp.dueDepth,
                 dueAmount |-> 0, dueDepth |-> 0]
    /\ UNCHANGED <<script, pend, use, bought, excuse>>

Increased ==
    /\ \/ At("toppedup") /\ RightOrNot(stamp.amount > 1)
       \/ At("diluted") /\ RightOrNot(stamp.depth > 1)
       \/ (At("toppedup") \/ At("diluted")) /\ Breaks("err")
    /\ UNCHANGED batches

ClientInit ==
    /\ pend = [n \in Nodes |-> 0] /\ use \in [Nodes -> {0}]
    /\ bought = [n \in Nodes |-> 0] /\ excuse = [n \in Nodes |-> 0]
    /\ stamp = [amount |-> 0, depth |-> 0, dueAmount |-> 0, dueDepth |-> 0]

============================================================================
