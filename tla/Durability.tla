----------------------------- MODULE Durability -----------------------------
(***************************************************************************)
(* The data durability check: a file with a list of chunks is fetched, and *)
(* goroutines, at most Concurrency at a time, download the chunks through  *)
(* nodes that have not pinned it.  All goroutines assign the one variable  *)
(* err of Run before they look at it.                                      *)
(***************************************************************************)
EXTENDS Integers, FiniteSets

CONSTANTS
    ChunkCount, Concurrency,
    MaxAttempts                 \* attempts to fetch the file

ASSUME DurabilityAssumption ==
    /\ ChunkCount \in Nat \ {0} /\ Concurrency \in Nat \ {0} /\ MaxAttempts \in Nat

VARIABLES
    stage,      \* Run: "fetch", "nodes", "loop", "count", "nil" or "error"
    attempt,    \* attempts to fetch the file
    nextChunk,  \* chunks whose goroutine was started
    slots,      \* elements in limitCh
    chunk,      \* goroutines: "none", "download", "judge", "ended"
    err,        \* the shared err is not nil
    failed,     \* chunks whose download failed
    once,       \* the once function was called
    counted,    \* fileAttemptCounted
    metrics     \* FileDownloadAttempts, FileDownloadErrors, ChunkDownloadAttempts

durability == <<stage, attempt, nextChunk, slots, chunk, err, failed, once, counted, metrics>>

Chunks == 1..ChunkCount

DurabilityInit ==
    /\ stage = "fetch" /\ attempt = 0 /\ nextChunk = 0 /\ slots = 0
    /\ chunk = [c \in Chunks |-> "none"]
    /\ err = FALSE /\ failed = {} /\ once = FALSE /\ counted = FALSE
    /\ metrics = [attempts |-> 0, errors |-> 0, chunks |-> 0]

\* a file that cannot be fetched from any node, or parsed, ends the check
FetchFile ==
    /\ stage = "fetch"
    /\ IF attempt = MaxAttempts
       THEN stage' = "error" /\ UNCHANGED attempt
       ELSE \/ attempt' = attempt + 1 /\ UNCHANGED stage
            \/ stage' \in {"nodes", "error"} /\ UNCHANGED attempt
    /\ UNCHANGED <<nextChunk, slots, chunk, err, failed, once, counted, metrics>>

FindRandomEligibleNodes ==
    /\ stage = "nodes" /\ stage' \in {"loop", "error"}
    /\ UNCHANGED <<attempt, nextChunk, slots, chunk, err, failed, once, counted, metrics>>

StartDownload ==
    /\ stage = "loop" /\ nextChunk < ChunkCount /\ slots < Concurrency
    /\ slots' = slots + 1 /\ nextChunk' = nextChunk + 1
    /\ chunk' = [chunk EXCEPT ![nextChunk + 1] = "download"]
    /\ metrics' = [metrics EXCEPT !.chunks = @ + 1]
    /\ UNCHANGED <<stage, attempt, err, failed, once, counted>>

ChunkDownloaded(c) ==
    /\ chunk[c] = "download" /\ chunk' = [chunk EXCEPT ![c] = "judge"]
    /\ \E e \in BOOLEAN :
        err' = e /\ failed' = IF e THEN failed \cup {c} ELSE failed
    /\ UNCHANGED <<stage, attempt, nextChunk, slots, once, counted, metrics>>

\* the first goroutine that finds an error counts the file
CountFile == counted' = TRUE /\ metrics' = [metrics EXCEPT !.attempts = @ + 1, !.errors = @ + 1]

\* err may have been set by another goroutine since
Judge(c) ==
    /\ chunk[c] = "judge" /\ chunk' = [chunk EXCEPT ![c] = "ended"]
    /\ slots' = slots - 1
    /\ IF err /\ ~once
       THEN once' = TRUE /\ CountFile
       ELSE UNCHANGED <<once, counted, metrics>>
    /\ UNCHANGED <<stage, attempt, nextChunk, err, failed>>

\* wg.Wait, then the attempt is counted unless a goroutine has done it
Finish ==
    /\ stage = "loop" /\ \A c \in Chunks : chunk[c] = "ended"
    /\ stage' = "nil"
    /\ metrics' = IF counted THEN metrics ELSE [metrics EXCEPT !.attempts = @ + 1]
    /\ UNCHANGED <<attempt, nextChunk, slots, chunk, err, failed, once, counted>>

DurabilityStep ==
    \/ FetchFile \/ FindRandomEligibleNodes \/ StartDownload \/ Finish
    \/ \E c \in Chunks : ChunkDownloaded(c) \/ Judge(c)

DurabilityEnded == stage \in {"nil", "error"}

\* The file counts once, as one attempt; it counts as an error only if a chunk
\* failed, and although the goroutines share one err the failure goes unnoticed
\* only beside a chunk that was downloaded.
FileCountedOnce ==
    stage = "nil" =>
        /\ metrics.attempts = 1 /\ metrics.errors <= 1 /\ metrics.chunks = ChunkCount
        /\ metrics.errors = 1 => failed # {}
        /\ failed = Chunks => metrics.errors = 1

============================================================================
