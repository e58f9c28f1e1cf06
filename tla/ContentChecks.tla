--------------------------- MODULE ContentChecks ---------------------------
(***************************************************************************)
(* The checks of content: pushsync (three modes), pullsync, retrieval,     *)
(* fileretrieval (two modes), soc, redundancy, manifest (v1, v2), feed     *)
(* (v1, v2), act, gc and postage, one script each.  Content is a small set *)
(* of items, an item being a chunk, a file, a collection or a manifest.    *)
(*                                                                         *)
(* The cluster: an upload stores an item at the node that takes it, and    *)
(* pushes it to the closest full node later (deferred) or before it        *)
(* answers (direct); that node, the item's home, replicates it in its      *)
(* neighborhood; a node serves what it or the home has.  The checks do not *)
(* know the home: they take the closest of the overlays they have read,    *)
(* which may be that of a light node or leave out the home's node group.   *)
(***************************************************************************)
EXTENDS BeeClient

CONSTANTS
    Items,              \* contents of one run
    Placements,         \* the possible closest nodes and homes of the items
    Retries,            \* o.Retries and the literal bounds of polling loops
    Threshold,          \* o.ReplicationFactorThreshold
    UploadNodeCount,    \* o.UploadNodeCount
    PerNode             \* o.ChunksPerNode, o.FilesPerNode, o.NUpdates

ASSUME ContentAssumption ==
    /\ Items \subseteq Nat \ {0} /\ IsFiniteSet(Items)
    /\ Placements \subseteq [near: [Items -> Nodes], home: [Items -> Full]]
    /\ Retries \in Nat \ {0} /\ Threshold \in Nat /\ PerNode \in Nat \ {0}
    /\ UploadNodeCount \in 0..Cardinality(Nodes)

VARIABLES
    near,       \* near[x]: the node closest to x of the overlays the check reads
    home,       \* home[x]: the full node closest to x, where it is stored
    hood,       \* the full nodes within the neighborhood of every home[x]
    stored,     \* stored[n]: the items node n has
    posted,     \* items whose upload was answered
    feed,       \* updates of the feed that were accepted, and that are found
    grants,     \* the access lists written so far, by history
    reserve     \* the reserve and the pins of the node of the gc check

content == <<near, home, hood, stored, posted, feed, grants, reserve>>

\* The names come from a map, in whatever order.
NodeNames == SetToSeq(Nodes)
FullNodeNames == SetToSeq(Full)
LightNodeNames == SetToSeq(Light)

\* Content j of the i-th uploading node.
Item(i, j) == (i - 1) * PerNode + j

\* The contents are numbered, and there are enough of them for every check.
ASSUME ItemsAssumption ==
    /\ Items = 1..Cardinality(Items) /\ Cardinality(Items) >= 4
    /\ \A i \in {1} \cup 1..UploadNodeCount, j \in 1..PerNode : Item(i, j) \in Items

\* The nodes other than the skipped ones, the closest to x first: ties and
\* distances beyond the closest are in any order.
ClosestNodeFromMap(x, skip) ==
    LET rest == Nodes \ (skip \cup {near[x]})
    IN  IF near[x] \in skip THEN SetToSeq(rest)
        ELSE <<near[x]>> \o SetToSeq(rest)

-----------------------------------------------------------------------------
(* The scripts *)

\* pkg/check/pushsync/pushsync.go, defaultCheck
Pushsync ==
    ForEach([i \in 1..UploadNodeCount |-> i], LAMBDA i:
        LET n == NodeNames[i]
        IN  GetOrCreateMutableBatch(n) \o
            ForEach([j \in 1..PerNode |-> Item(i, j)], LAMBDA x:
                <<UploadChunk(n, x), Polled(Retries, HasChunk(near[x], x))>>))

\* The replica loop of the two other modes: the first candidate that has x
\* ends it, an error or a "no" goes on to the next one.
Replicas(candidates, x) ==
    [k \in DOMAIN candidates |->
        [Ignored(HasChunk(candidates[k], x)) EXCEPT !.ok = Len(candidates) - k + 1]]

\* check_chunks.go: running out of candidates ends the test case as well
PushsyncChunks ==
    ForEach([i \in 1..UploadNodeCount |-> i], LAMBDA i:
        LET n == FullNodeNames[i]
        IN  GetOrCreateMutableBatch(n) \o
            ForEach([j \in 1..PerNode |-> Item(i, j)], LAMBDA x:
                <<UploadChunk(n, x), HasChunk(near[x], x), Overlay(n)>> \o
                Replicas(ClosestNodeFromMap(x, {near[x], n}), x)))

\* check_lightnode.go: a batch for every light node; running out of candidates
\* is an error
LightUploads ==
    IF UploadNodeCount < Len(LightNodeNames) THEN UploadNodeCount ELSE Len(LightNodeNames)

PushsyncLight ==
    ForEach(LightNodeNames, GetOrCreateMutableBatch) \o
    ForEach([i \in 1..LightUploads |-> i], LAMBDA i:
        LET n == LightNodeNames[i]
        IN  GetOrCreateMutableBatch(n) \o
            ForEach([j \in 1..PerNode |-> Item(i, j)], LAMBDA x:
                <<Retried(3, UploadChunk(n, x)), Retried(3, HasChunk(near[x], x))>> \o
                LET replicas == Replicas(ClosestNodeFromMap(x, {near[x]}), x)
                IN  [replicas EXCEPT ![Len(replicas)].no = Fail, ![Len(replicas)].err = Fail]))

\* pullsync.go: the connected peers of the closest node that have x within
\* their depth must have it; one that is not among the overlays is an error,
\* and so is it when there are none
Pullsync ==
    ForEach([i \in 1..UploadNodeCount |-> i], LAMBDA i:
        LET n == NodeNames[i]
        IN  GetOrCreateMutableBatch(n) \o
            ForEach([j \in 1..PerNode |-> Item(i, j)], LAMBDA x:
                LET replicating == SetToSeq(hood \ {near[x]})
                IN  <<UploadChunk(n, x), Topology(near[x]), Step("read", near[x], "peers")>> \o
                    (IF replicating = <<>> THEN <<Step("giveup", n, x)>> ELSE <<>>) \o
                    ForEach(replicating, LAMBDA r: <<Polled(Retries, HasChunk(r, x))>>) \o
                    <<Step("factor", n, x)>>))

Retrieval_SameNode ==
    ForEach([i \in 1..UploadNodeCount |-> i], LAMBDA i:
        LET up == FullNodeNames[i]
            down == FullNodeNames[i]
        IN  GetOrCreateMutableBatch(up) \o
            ForEach([j \in 1..PerNode |-> Item(i, j)], LAMBDA x:
                <<UploadChunk(up, x), DownloadChunk(down, x)>>))

\* retrieval.go: the next full node downloads
Retrieval ==
    ForEach([i \in 1..UploadNodeCount |-> i], LAMBDA i:
        LET up == FullNodeNames[i]
            down == FullNodeNames[(i % Len(FullNodeNames)) + 1]
        IN  GetOrCreateMutableBatch(up) \o
            ForEach([j \in 1..PerNode |-> Item(i, j)], LAMBDA x:
                <<UploadChunk(up, x), DownloadChunk(down, x)>>))

\* fileretrieval.go, defaultCheck: the last node downloads
FileRetrieval ==
    ForEach([i \in 1..UploadNodeCount |-> i], LAMBDA i:
        LET n == NodeNames[i]
        IN  ForEach([j \in 1..PerNode |-> Item(i, j)], LAMBDA x:
                GetOrCreateMutableBatch(n) \o
                <<UploadFile(n, x), DownloadFile(Last(NodeNames), x)>>))

\* fileretrieval.go, fullCheck: all others download
FileRetrievalFull ==
    ForEach([i \in 1..UploadNodeCount |-> i], LAMBDA i:
        LET n == NodeNames[i]
        IN  ForEach([j \in 1..PerNode |-> Item(i, j)], LAMBDA x:
                GetOrCreateMutableBatch(n) \o <<UploadFile(n, x)>> \o
                ForEach(SetToSeq(Nodes \ {n}), LAMBDA c:
                    <<DownloadFile(c, x)>>)))

\* soc.go: the node downloads its own upload
Soc ==
    GetOrCreateMutableBatch(1) \o <<UploadSOC(1, 1), DownloadChunk(1, 1)>>

\* redundancy.go: at every level a complete upload is served, a short one not
Redundancy ==
    ForEach([level \in 1..Cardinality(Items) |-> level], LAMBDA level:
        GetOrCreateMutableBatch(1) \o
        <<Direct(UploadChunk(1, level)), DownloadBytes(2, level),
          Step("short", 1, level), Denied(Step("refused", 2, level))>>)

-----------------------------------------------------------------------------
(* Collections and feeds.  Item 1 is the collection without directories,   *)
(* item 2 the root manifest of the feed, items 3 and 4 the two versions.   *)

\* downloadAndVerify of both versions of the manifest check
DownloadAndVerify(n, x) == Retried(Retries, DownloadManifestFile(n, x))
VerifyFeed(n, x) == Retried(Retries, Step("feedfile", n, x))

CheckWithoutSubDirs ==
    GetOrCreateMutableBatch(1) \o <<UploadCollection(1, 1), DownloadAndVerify(2, 1)>>

\* manifest_v1.go: the feed refers to the collection
CheckWithSubDirs ==
    GetOrCreateMutableBatch(1) \o <<CreateRootFeedManifest(1, 2)>> \o
    ForEach(<<3, 4>>, LAMBDA x:
        <<UploadCollection(1, x), UpdateFeedWithReference(1, x), VerifyFeed(2, x)>>) \o
    <<DownloadAndVerify(2, 4)>>

\* manifest_v2.go: the update holds the root chunk of the collection
CheckWithSubDirsV2 ==
    GetOrCreateMutableBatch(1) \o <<CreateRootFeedManifest(1, 2)>> \o
    ForEach(<<3, 4>>, LAMBDA x:
        <<UploadCollection(1, x), DownloadChunk(1, x),
          UpdateFeedWithRootChunk(1, x), VerifyFeed(2, x)>>) \o
    <<DownloadAndVerify(2, 4)>>

Manifest == CheckWithoutSubDirs \o CheckWithSubDirs
ManifestV2 == CheckWithoutSubDirs \o CheckWithSubDirsV2

\* feed_v1.go: the updates, and the last of them read through another node
Feed ==
    GetOrCreateMutableBatch(1) \o <<CreateRootFeedManifest(1, 2)>> \o
    ForEach(<<3, 4>>, LAMBDA x:
        <<Direct(UploadFile(1, x)), UpdateFeedWithReference(1, x)>>) \o
    <<FindFeedUpdate(2, 2), DownloadFileBytes(2, 4)>>

\* feed_v2.go
FeedV2 ==
    GetOrCreateMutableBatch(1) \o <<CreateRootFeedManifest(1, 2)>> \o
    ForEach(<<3, 4>>, LAMBDA x:
        <<Direct(UploadFile(1, x)), DownloadChunk(1, x),
          UpdateFeedWithRootChunk(1, x)>>) \o
    <<FindFeedUpdate(2, 2), DownloadFileBytes(2, 4)>>

\* checkAvailability of both versions, with o.RootRef given: content of an
\* earlier run, here item 1
FeedAvailability == <<DownloadFile(1, 1)>>

-----------------------------------------------------------------------------
(* Access control, reserve and postage *)

AddActGrantees(n, list) == Step("grant", n, <<list, {}>>)
PatchActGrantees(n, add, revoke) == Step("grant", n, <<add, revoke>>)
GetActGrantees(n, count) == Step("grantees", n, count)
\* with the public key of node key and the history of index h
DownloadActFile(n, key, h) == Step("actfile", n, <<key, h>>)

\* act.go: the publisher is the light node
ActUpload ==
    LET up == LightNodeNames[1]
        one == FullNodeNames[1]
    IN  ForEach(<<up>> \o SubSeq(FullNodeNames, 1, 3), LAMBDA n: <<Ignored(Addresses(n))>>) \o
        GetOrCreateMutableBatch(up) \o
        <<UploadActFile(up, 1), DownloadActFile(up, up, 1),
          Denied(DownloadActFile(up, one, 1))>>

ActGrant ==
    LET up == LightNodeNames[1]
        one == FullNodeNames[1]
        two == FullNodeNames[2]
        three == FullNodeNames[3]
    IN  <<AddActGrantees(up, {two, three}), GetActGrantees(up, 2),
          DownloadActFile(up, up, 2), DownloadActFile(two, up, 2),
          PatchActGrantees(up, {one}, {two, three}), GetActGrantees(up, 1),
          Denied(DownloadActFile(two, up, 3))>>

Act == ActUpload \o ActGrant

ReserveState(n, x) == Step("reserve", n, x)
Bulk(n, class) == Step("bulk", n, class)
HasChunks(n, class, count) == Step("count", n, <<class, count>>)
GetPins(n, count) == Step("count", n, <<"pins", count>>)
GetPinnedRootHash(n, count) == Step("count", n, <<"pins", count>>)
UnpinRootHash(n) == Step("unpin", n, 0)

\* gc/reserve.go: a verbose purchase also reads the reserve, twice
BuyVerbosely(n) ==
    <<Step("read", n, "reserve")>> \o CreatePostageBatch(n) \o
    <<Step("read", n, "reserve")>>

GcFill ==
    <<Overlay(1), ReserveState(1, "fresh")>> \o
    BuyVerbosely(1) \o <<Bulk(1, "pins"), Bulk(1, "low")>> \o
    BuyVerbosely(1) \o <<Bulk(1, "higher")>>

Gc ==
    GcFill \o
    <<ReserveState(1, "settled"), HasChunks(1, "low", 9), HasChunks(1, "higher", 10),
      Bulk(1, "high"), HasChunks(1, "high", 5),
      HasChunks(1, "pins", 1), GetPins(1, 1), GetPinnedRootHash(1, 1),
      UnpinRootHash(1), GetPinnedRootHash(1, 0), GetPins(1, 0)>>

\* postage.go
Postage ==
    LET n == FullNodeNames[1]
    IN  CreatePostageBatch(n) \o <<PostageStamp(n, <<1, 1>>)>> \o
        TopUpPostageBatch(n) \o <<PostageStamp(n, <<2, 1>>)>> \o
        DilutePostageBatch(n) \o <<PostageStamp(n, <<2, 2>>)>>

-----------------------------------------------------------------------------
(* The checks and simulations that go round until their context ends, one  *)
(* round each: they count what goes wrong and return nil.                  *)

\* smoke.go: per size up to three uploads, and up to three downloads
Smoke ==
    LET files == ForEach([j \in 1..PerNode |-> j], LAMBDA x:
            <<[Retried(3, Direct(UploadBytes(1, x))) EXCEPT !.out = 3],
              [Retried(3, DownloadBytes(2, x)) EXCEPT !.ok = 2, !.out = 1],
              Ignored(Topology(2))>>)
    IN  OrSkip(GetOrCreateMutableBatch(1), Len(files)) \o files

\* longavailability.go: content of an earlier run, here item 1, through a node
\* that has not pinned it
FindRandomNode == ForEach(NodeNames, LAMBDA n: <<Step("read", n, "pins")>>)
LongAvailability ==
    OrSkip(FindRandomNode, 1) \o <<[Retried(Retries, DownloadFile(2, 1)) EXCEPT !.out = 1]>>

\* networkavailability/check.go: one chunk per neighborhood; the node that
\* uploaded them downloads them
NetworkAvailability ==
    LET k == PerNode
        one(x) == OrSkip(GetOrCreateMutableBatch(1), 1 + (k - x) * 5 + k) \o
                  <<Ignored(Direct(UploadChunk(1, x)))>>
    IN  <<Ignored(Step("read", 1, "reserve"))>> \o
        ForEach([j \in 1..k |-> j], one) \o
        ForEach([j \in 1..k |-> j], LAMBDA x: <<Ignored(DownloadChunk(1, x))>>)

\* simulate/upload: per file up to Retries attempts, each with a batch
SimulateUpload ==
    LET attempt(x, r) ==
            GetOrCreateMutableBatch(1) \o
            <<[UploadFile(1, x) EXCEPT !.ok = 1 + 5 * (Retries - r),
                                       !.err = IF r = Retries THEN Fail ELSE 1]>>
    IN  <<Overlay(1)>> \o
        ForEach([j \in 1..PerNode |-> j], LAMBDA x:
            <<CreateTag(1)>> \o
            ForEach([r \in 1..Retries |-> r], LAMBDA r: attempt(x, r)) \o
            (IF x < PerNode THEN <<Ignored(WaitSync(1))>> ELSE <<>>))

\* simulate/retrieval: only a tag that cannot be created ends it before its
\* context does, and that is an error as well
SimulateRetrieval ==
    ForEach([i \in 1..UploadNodeCount |-> i], LAMBDA i:
        LET n == NodeNames[i]
            chunks == ForEach([j \in 1..PerNode |-> Item(i, j)], LAMBDA x:
                <<CreateTag(n), [UploadChunk(n, x) EXCEPT !.err = 3],
                  [WaitSync(n) EXCEPT !.err = 2], Ignored(DownloadChunk(2, x))>>)
        IN  OrSkip(GetOrCreateMutableBatch(n), Len(chunks)) \o chunks) \o
    <<Step("giveup", 1, 0)>>

\* simulate/pushsync: the nodes are frozen bucket by bucket, the last bucket
\* (that of the uploaders) included; downloads are only counted
ToBuckets(names, start, step) ==
    LET rest == SubSeq(names, start + step + 1, Len(names))
    IN  <<SubSeq(names, 1, start), SubSeq(names, start + 1, start + step), rest>>

UploadChunks(n, x) == CreatePostageBatch(n) \o <<UploadChunk(n, x)>>
DownloadChunks(n, x) ==
    LET all == Retries * Retries
    IN  [r \in 1..all |-> [Ignored(DownloadChunk(n, x)) EXCEPT !.ok = all - r + 1]]

SimulatePushsync ==
    LET buckets == ToBuckets(NodeNames, 1, 2)
        up == Last(buckets)[1]
    IN  <<Step("read", 1, "record")>> \o
        ForEach([b \in DOMAIN buckets |-> b], LAMBDA b:
            ForEach(buckets[b], LAMBDA n: <<Addresses(n), Step("read", n, "freeze")>>) \o
            UploadChunks(up, b) \o DownloadChunks(1, b))

ContentCheckNames ==
    {"pushsync", "chunks", "light", "pullsync", "retrieval", "fileretrieval",
     "full", "soc", "redundancy", "manifest", "manifest2", "feed", "feed2",
     "availability", "act", "gc", "postage", "smoke", "longavailability",
     "networkavailability", "simupload", "simretrieval", "simpushsync"}

ContentScript(c) ==
    CASE c = "pushsync" -> Pushsync
      [] c = "chunks" -> PushsyncChunks
      [] c = "light" -> PushsyncLight
      [] c = "pullsync" -> Pullsync
      [] c = "retrieval" -> Retrieval
      [] c = "fileretrieval" -> FileRetrieval
      [] c = "full" -> FileRetrievalFull
      [] c = "soc" -> Soc
      [] c = "redundancy" -> Redundancy
      [] c = "manifest" -> Manifest
      [] c = "manifest2" -> ManifestV2
      [] c = "feed" -> Feed
      [] c = "feed2" -> FeedV2
      [] c = "availability" -> FeedAvailability
      [] c = "act" -> Act
      [] c = "gc" -> Gc
      [] c = "postage" -> Postage
      [] c = "smoke" -> Smoke
      [] c = "longavailability" -> LongAvailability
      [] c = "networkavailability" -> NetworkAvailability
      [] c = "simupload" -> SimulateUpload
      [] c = "simretrieval" -> SimulateRetrieval
      [] c = "simpushsync" -> SimulatePushsync

-----------------------------------------------------------------------------
(* The cluster *)

Served(n, x) == x \in stored[n] \cup stored[home[x]]

\* A deferred upload: stored by the node that takes it.  The response may be
\* lost after that.
Upload ==
    LET s == Head(todo)
    IN  /\ At("upload")
        /\ \/ Reply("ok") /\ posted' = posted \cup {s.x}
              /\ stored' = [stored EXCEPT ![s.n] = @ \cup {s.x}]
           \/ Breaks("err") /\ stored' = [stored EXCEPT ![s.n] = @ \cup {s.x}]
              /\ UNCHANGED posted
           \/ Breaks("err") /\ UNCHANGED <<stored, posted>>
        /\ UNCHANGED <<batches, near, home, hood, feed, grants, reserve>>

\* A direct upload: pushed to its home before it is answered.
Push ==
    LET s == Head(todo)
    IN  /\ At("push")
        /\ \/ Reply("ok") /\ posted' = posted \cup {s.x}
              /\ stored' = [stored EXCEPT ![home[s.x]] = @ \cup {s.x}]
           \/ Breaks("err") /\ UNCHANGED <<stored, posted>>
        /\ UNCHANGED <<batches, near, home, hood, feed, grants, reserve>>

\* pushsync: what some node has arrives at its home
Sync(x) ==
    /\ x \notin stored[home[x]] /\ \E n \in Nodes : x \in stored[n]
    /\ stored' = [stored EXCEPT ![home[x]] = @ \cup {x}]
    /\ UNCHANGED <<script, batches, near, home, hood, posted, feed, grants, reserve>>

\* pullsync: a neighbor fetches it
Replicate(x, m) ==
    /\ m \in hood /\ x \in stored[home[x]] \ stored[m]
    /\ stored' = [stored EXCEPT ![m] = @ \cup {x}]
    /\ UNCHANGED <<script, batches, near, home, hood, posted, feed, grants, reserve>>

\* a GET of the chunk: the node retrieves what it does not have
Has ==
    LET s == Head(todo)
    IN  /\ At("has")
        /\ RightOrNot(Served(s.n, s.x)) \/ Breaks("err")
        /\ UNCHANGED <<batches, content>>

\* the item, an error when it is not found, or (a fault) other bytes
Download ==
    LET s == Head(todo)
    IN  /\ At("download")
        /\ \/ Reply(IF Served(s.n, s.x) THEN "ok" ELSE "err")
           \/ Breaks("err") \/ Breaks("no")
        /\ UNCHANGED <<batches, content>>

\* nodes that have x or retrieve it, over all node groups
GlobalReplicationFactor ==
    LET x == Head(todo).x
    IN  /\ At("factor")
        /\ \/ RightOrNot(Cardinality({n \in Nodes : Served(n, x)}) >= Threshold)
           \/ Breaks("err")
        /\ UNCHANGED <<batches, content>>

\* the return of an error that depends on no answer
GiveUp == At("giveup") /\ Reply("no") /\ UNCHANGED <<batches, content>>

\* uploadChunks leaves out too many chunks: nothing that can be put together
UploadShort ==
    /\ At("short")
    /\ Reply("ok") \/ Breaks("err")
    /\ UNCHANGED <<batches, content>>

DownloadShort ==
    /\ At("refused")
    /\ Reply("err") \/ Breaks("err") \/ Breaks("ok")
    /\ UNCHANGED <<batches, content>>

UpdateFeed ==
    /\ At("update")
    /\ \/ Reply("ok") /\ feed' = [feed EXCEPT !.up = @ + 1]
       \/ Breaks("err") /\ UNCHANGED feed
    /\ UNCHANGED <<batches, near, home, hood, stored, posted, grants, reserve>>

SyncFeed ==
    /\ feed.net < feed.up
    /\ feed' = [feed EXCEPT !.net = @ + 1]
    /\ UNCHANGED <<script, batches, near, home, hood, stored, posted, grants, reserve>>

FindFeed ==
    /\ At("find")
    /\ \/ feed.net = 0 /\ Reply("err")
       \/ feed.net > 0 /\ RightOrNot(feed.net = Head(todo).x)
       \/ Breaks("err")
    /\ UNCHANGED <<batches, content>>

\* The feed's manifest (item 2) leads to the latest update that is found,
\* version 1 being item 3: an older version is other bytes.
FeedFile ==
    LET s == Head(todo)
    IN  /\ At("feedfile")
        /\ \/ ~(Served(s.n, 2) /\ feed.net > 0 /\ Served(s.n, feed.net + 2)) /\ Reply("err")
           \/ Served(s.n, 2) /\ feed.net > 0 /\ Served(s.n, feed.net + 2)
              /\ RightOrNot(feed.net + 2 = s.x)
           \/ Breaks("err") \/ Breaks("no")
        /\ UNCHANGED <<batches, content>>

\* every write of an access list makes a new history; the first is the upload's
Grant ==
    LET s == Head(todo)
        now == IF grants = <<>> THEN {} ELSE Last(grants)
    IN  /\ At("grant")
        /\ \/ Reply("ok") /\ grants' = Append(grants, (now \cup s.x[1]) \ s.x[2])
           \/ Breaks("err") /\ UNCHANGED grants
        /\ UNCHANGED <<batches, near, home, hood, stored, posted, feed, reserve>>

Grantees ==
    /\ At("grantees")
    /\ RightOrNot(Cardinality(Last(grants)) = Head(todo).x) \/ Breaks("err")
    /\ UNCHANGED <<batches, content>>

\* history 1 has no grantees, history h + 1 is grants[h]
ActFile ==
    LET s == Head(todo)
        publisher == LightNodeNames[1]
        allowed == /\ s.x[1] = publisher
                   /\ s.n = publisher \/ (s.x[2] > 1 /\ s.n \in grants[s.x[2] - 1])
    IN  /\ At("actfile")
        /\ \/ Reply(IF allowed /\ Served(s.n, 1) THEN "ok" ELSE "err")
           \/ Breaks("err") \/ Breaks("no")
        /\ UNCHANGED <<batches, content>>

\* "fresh": both radiuses are zero; "settled": they agree
Reserve ==
    LET grown == bought[1] > 0
    IN  /\ At("reserve")
        /\ \/ RightOrNot(IF Head(todo).x = "fresh" THEN ~grown ELSE reserve.evicted)
           \/ Breaks("err")
        /\ UNCHANGED <<batches, content>>

Capacity == [pins |-> 1, low |-> 10, higher |-> 10, high |-> 5]

UploadBulk ==
    /\ At("bulk")
    /\ \/ Reply("ok")
          /\ reserve' = [reserve EXCEPT ![Head(todo).x] = Capacity[Head(todo).x]]
       \/ Breaks("err") /\ UNCHANGED reserve
    /\ UNCHANGED <<batches, near, home, hood, stored, posted, feed, grants>>

\* more than the reserve holds: the low chunks go to the cache, which drops one
Evict ==
    /\ reserve.low = 10 /\ reserve.higher = 10
    /\ reserve' = [reserve EXCEPT !.low = 9, !.evicted = TRUE]
    /\ UNCHANGED <<script, batches, near, home, hood, stored, posted, feed, grants>>

Count ==
    LET s == Head(todo)
    IN  /\ At("count")
        /\ RightOrNot(reserve[s.x[1]] = s.x[2]) \/ Breaks("err")
        /\ UNCHANGED <<batches, content>>

Unpin ==
    /\ At("unpin")
    /\ \/ Reply("ok") /\ reserve' = [reserve EXCEPT !.pins = 0]
       \/ Breaks("err") /\ UNCHANGED reserve
    /\ UNCHANGED <<batches, near, home, hood, stored, posted, feed, grants>>

-----------------------------------------------------------------------------
Empty == [pins |-> 0, low |-> 0, higher |-> 0, high |-> 0, evicted |-> FALSE]

\* the content of an earlier run
Kept == {"availability", "longavailability"}

ContentInit ==
    /\ \E p \in Placements : near = p.near /\ home = p.home
    /\ hood \in {{}, Full}
    /\ stored = [n \in Nodes |->
                    IF check \in Kept /\ n = home[1] THEN {1} ELSE {}]
    /\ posted = {} /\ feed = [up |-> 0, net |-> 0] /\ grants = <<>>
    /\ reserve = Empty

\* what a check sends, and its answers
ContentStep ==
    \/ Upload \/ Push \/ Has \/ Download \/ GlobalReplicationFactor \/ GiveUp
    \/ UploadShort \/ DownloadShort \/ UpdateFeed \/ FindFeed \/ FeedFile
    \/ Grant \/ Grantees \/ ActFile \/ Reserve \/ UploadBulk \/ Count \/ Unpin

\* what the cluster does by itself
ContentSettles ==
    \/ \E x \in Items : Sync(x) \/ \E m \in Full : Replicate(x, m)
    \/ SyncFeed \/ Evict

\* another run has other content
ContentAgain ==
    /\ stored' = [n \in Nodes |-> IF check \in Kept THEN stored[n] ELSE {}]
    /\ posted' = {} /\ feed' = [up |-> 0, net |-> 0] /\ grants' = <<>>
    /\ reserve' = [Empty EXCEPT !.pins = reserve.pins]
    /\ UNCHANGED <<near, home, hood>>

\* everything that was asked for has arrived where it belongs
ContentSettled ==
    /\ \A x \in posted : x \in stored[home[x]]
    /\ (check = "pullsync" => hood # {}) /\ feed.net = feed.up /\ check # "simretrieval"
    /\ (reserve.low = 10 => reserve.higher < 10)

============================================================================
