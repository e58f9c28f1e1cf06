----------------------------- MODULE BlockTime -----------------------------
(***************************************************************************)
(* FetchBlockTime of the Geth client: the average time between blocks over *)
(* the last offset blocks, fewer where the chain is short or an older      *)
(* block is missing, rounded to seconds and cached.                        *)
(***************************************************************************)
EXTENDS Integers, FiniteSets, FiniteSetsExt

CONSTANTS
    MaxHeight,      \* bound on the height of the chain
    Gaps,           \* seconds between two blocks
    Offsets,        \* offsets asked for
    MaxCalls,       \* bound on the calls
    MaxInt64        \* the largest value of the type

ASSUME BlockTimeAssumption ==
    /\ MaxHeight \in Nat /\ Gaps \subseteq Nat /\ Offsets \subseteq Int
    /\ MaxCalls \in Nat /\ MaxInt64 \in Nat

VARIABLES
    height,     \* the last block of the chain
    gap,        \* seconds between a block and the one before
    pruned,     \* blocks up to this one are not known to the node any more
    fetch,      \* "start", "previous", "ok" or "error"
    calls,
    want,       \* the offset asked for
    offset,     \* retryOffset
    latest,     \* latestBlockNumber
    cache,      \* the cached block time, 0 when there is none
    value,      \* what the last call returned
    short       \* a value was computed over a chain of fewer than two blocks

blocktime == <<height, gap, pruned, fetch, calls, want, offset, latest, cache, value, short>>

Heights == 0..MaxHeight

timestamp[h \in Heights] == IF h = 0 THEN 1 ELSE timestamp[h - 1] + gap[h]

BlockTimeInit ==
    /\ height \in Heights /\ gap \in [1..MaxHeight -> Gaps] /\ pruned \in -1..(height - 1)
    /\ fetch = "ok" /\ calls = 0 /\ want = 0 /\ offset = 0 /\ latest = 0
    /\ cache = 0 /\ value = 0 /\ short = FALSE

\* WithOffset
WithOffset(o) == IF o > 0 THEN o ELSE 1

Clamp(o, number) == IF o > number \div 2 THEN number \div 2 ELSE o

\* the call: from the cache, or after the latest block was read
FetchBlockTime(o, refresh) ==
    /\ fetch \in {"ok", "error"} /\ calls < MaxCalls /\ calls' = calls + 1
    /\ want' = WithOffset(o)
    /\ IF cache > 0 /\ ~refresh
       THEN fetch' = "ok" /\ value' = cache /\ UNCHANGED <<offset, latest>>
       ELSE \/ fetch' = "error" /\ UNCHANGED <<value, offset, latest>>
            \/ /\ fetch' = "previous" /\ latest' = height /\ offset' = Clamp(WithOffset(o), height)
               /\ UNCHANGED value
    /\ UNCHANGED <<height, gap, pruned, cache, short>>

\* math.Round of a quotient that is not negative
Rounded_OverRequested(d) == (2 * d + want) \div (2 * want)
Rounded(d) == (2 * d + offset) \div (2 * offset)

Returns(v) == fetch' = "ok" /\ value' = v /\ cache' = v

\* the loop over the offsets: a block that is missing halves the offset
FetchPrevious ==
    /\ fetch = "previous"
    /\ IF offset = 0
       THEN \* a division by zero: the conversion of infinity depends on the build
            /\ \E v \in {-MaxInt64 - 1, MaxInt64} : Returns(v)
            /\ short' = TRUE /\ UNCHANGED offset
       ELSE \/ fetch' = "error" /\ UNCHANGED <<value, cache, offset, short>>
            \/ /\ latest - offset <= pruned /\ offset > 1 /\ offset' = offset \div 2
               /\ UNCHANGED <<fetch, value, cache, short>>
            \/ /\ latest - offset > pruned
               /\ Returns(Rounded(timestamp[latest] - timestamp[latest - offset]))
               /\ UNCHANGED <<offset, short>>
    /\ UNCHANGED <<height, gap, pruned, calls, want, latest>>

Block ==
    /\ height < MaxHeight /\ height' = height + 1
    /\ UNCHANGED <<gap, pruned, fetch, calls, want, offset, latest, cache, value, short>>

BlockTimeStep == FetchPrevious

BlockTimeNext ==
    BlockTimeStep \/ Block \/ \E o \in Offsets, refresh \in BOOLEAN : FetchBlockTime(o, refresh)

\* Computed over two blocks or more, cached or not, the block time lies between
\* the shortest and the longest time between two blocks of the chain; zero,
\* with which callers divide, needs blocks of the same second.
BlockTimeInRange ==
    fetch = "ok" /\ calls > 0 /\ ~short =>
        /\ value >= Min({gap[h] : h \in 1..height})
        /\ value <= Max({gap[h] : h \in 1..height})

============================================================================
