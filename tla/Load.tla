-------------------------------- MODULE Load --------------------------------
(***************************************************************************)
(* The load check: in every iteration several goroutines upload the same   *)
(* content, the first that ends lets the main goroutine go on, and others  *)
(* download it and compare.  The content, the address and the duration of  *)
(* an iteration are shared by its goroutines; those of an earlier          *)
(* iteration may still run, over the same buffer.                          *)
(***************************************************************************)
EXTENDS Scheduler

CONSTANTS
    Uploaders, Downloaders,     \* sets of nodes
    Retries,                    \* attempts of an uploader or a downloader
    MaxIter                     \* bound on the iterations

ASSUME LoadAssumption == Retries \in Nat \ {0} /\ MaxIter \in Nat \ {0}

VARIABLES
    main,       \* control of the goroutine of run
    iter,       \* iterations begun
    txData,     \* the content in the buffer: the iteration it was made for
    up,         \* goroutines that upload, of every iteration
    tx,         \* iterations with a successful upload (txDuration > 0)
    address,    \* content the address of an iteration leads to
    released,   \* iterations with upload.Done called
    down,       \* goroutines that download
    mismatch,   \* a mismatch was reported
    lied        \* a node returned other data than was asked for

load == <<main, iter, txData, up, tx, address, released, down, mismatch, lied>>

Iters == 1..MaxIter
ZeroAddress == 0
Torn == -1          \* neither the content of one iteration nor of another

LoadInit ==
    /\ main = "setup" /\ iter = 0 /\ txData = 0
    /\ up = [i \in Iters |-> [u \in Uploaders |-> [pc |-> "none", tries |-> 0, sent |-> 0]]]
    /\ tx = {} /\ address = [i \in Iters |-> ZeroAddress] /\ released = {}
    /\ down = [d \in Downloaders |-> [pc |-> "none", tries |-> 0, got |-> 0]]
    /\ mismatch = FALSE /\ lied = FALSE

\* options and node groups are looked at: not enough nodes is an error
Setup ==
    /\ main = "setup"
    /\ \/ main' = "top" /\ UNCHANGED doneCh
       \/ main' = "ended" /\ TaskReturns("error")
    /\ UNCHANGED <<clock, exec, periodic, iter, txData, up, tx, address, released, down, mismatch, lied>>

BeginIteration ==
    /\ main = "top"
    /\ IF CtxDone
       THEN main' = "ended" /\ TaskReturns("nil") /\ UNCHANGED <<iter, txData, up>>
       ELSE /\ iter < MaxIter
            /\ main' = "wait" /\ iter' = iter + 1 /\ txData' = iter + 1
            /\ up' = [up EXCEPT ![iter + 1] = [u \in Uploaders |-> [@[u] EXCEPT !.pc = "check"]]]
            /\ UNCHANGED doneCh
    /\ UNCHANGED <<clock, exec, periodic, tx, address, released, down, mismatch, lied>>

\* upload.Wait; without a successful upload the iteration ends here
UploadDone ==
    /\ main = "wait" /\ iter \in released
    /\ IF iter \in tx
       THEN /\ main' = "join"
            /\ down' = [d \in Downloaders |-> [pc |-> "try", tries |-> 0, got |-> 0]]
       ELSE main' = "top" /\ UNCHANGED down
    /\ UNCHANGED <<scheduler, iter, txData, up, tx, address, released, mismatch, lied>>

\* wg.Wait
Joined_AtOnce == TRUE
Joined == \A d \in Downloaders : down[d].pc = "ended"

EndIteration ==
    /\ main = "join" /\ Joined /\ main' = "top"
    /\ UNCHANGED <<scheduler, iter, txData, up, tx, address, released, down, mismatch, lied>>

Goroutine(i, u, pc) ==
    /\ up[i][u].pc = pc
    /\ UNCHANGED <<scheduler, main, iter, txData, down, mismatch, lied>>

Goes(i, u, pc) == up' = [up EXCEPT ![i][u].pc = pc]
TriesAgain(i, u) == up' = [up EXCEPT ![i][u] = [pc |-> "check", tries |-> @.tries + 1, sent |-> 0]]

\* the first goroutine that ends, with or without success, is not waited for
Releases_OnSuccess(i) == released' = IF i \in tx THEN released \cup {i} ELSE released
Releases(i) == released' = released \cup {i}
Ends(i, u) == up' = [up EXCEPT ![i][u] = [pc |-> "ended", tries |-> 0, sent |-> 0]] /\ Releases(i)

\* CommittedDepth and the batch: an error of the first ends the goroutine, one
\* of the second is an attempt
CheckCommittedDepth(i, u) ==
    \/ Ends(i, u)
    \/ /\ ~CtxDone /\ UNCHANGED released
       /\ \/ Goes(i, u, "wait")
          \/ TriesAgain(i, u)
          \/ up' = [up EXCEPT ![i][u].pc = "upload", ![i][u].sent = txData]

UploadLoop(i, u) ==
    /\ Goroutine(i, u, "check")
    /\ IF i \in tx \/ up[i][u].tries = Retries \/ CtxDone
       THEN Ends(i, u)
       ELSE CheckCommittedDepth(i, u)
    /\ UNCHANGED <<tx, address>>

WaitForDepth(i, u) ==
    /\ Goroutine(i, u, "wait")
    /\ CheckCommittedDepth(i, u)
    /\ UNCHANGED <<tx, address>>

\* The request reads the buffer while it is sent; an error overwrites the
\* address another goroutine has set.
UploadData(i, u) ==
    /\ Goroutine(i, u, "upload")
    /\ \/ /\ \E a \in {txData} \cup (IF up[i][u].sent = txData THEN {} ELSE {up[i][u].sent, Torn}) :
                address' = [address EXCEPT ![i] = a]
          /\ tx' = tx \cup {i} /\ TriesAgain(i, u) /\ UNCHANGED released
       \/ address' = [address EXCEPT ![i] = ZeroAddress] /\ Ends(i, u) /\ UNCHANGED tx

Uploader(i, u) ==
    UploadLoop(i, u) \/ WaitForDepth(i, u) \/ UploadData(i, u)

DownloadData(d) ==
    /\ down[d].pc = "try"
    /\ \/ (down[d].tries = Retries \/ CtxDone) /\ down' = [down EXCEPT ![d].pc = "ended"] /\ UNCHANGED lied
       \/ /\ down[d].tries < Retries
          /\ \/ down' = [down EXCEPT ![d].tries = @ + 1] /\ UNCHANGED lied
             \/ /\ ~CtxDone /\ address[iter] # ZeroAddress
                /\ \E got \in {address[iter], Torn} :
                    /\ down' = [down EXCEPT ![d] = [@ EXCEPT !.pc = "compare", !.got = got]]
                    /\ lied' = (lied \/ got # address[iter])
    /\ UNCHANGED <<scheduler, main, iter, txData, up, tx, address, released, mismatch>>

CompareData(d) ==
    /\ down[d].pc = "compare"
    /\ mismatch' = (mismatch \/ down[d].got # txData)
    /\ down' = [down EXCEPT ![d] = [pc |-> "ended", tries |-> 0, got |-> 0]]
    /\ UNCHANGED <<scheduler, main, iter, txData, up, tx, address, released, lied>>

LoadStep ==
    \/ Setup \/ BeginIteration \/ UploadDone \/ EndIteration
    \/ \E i \in Iters, u \in Uploaders : Uploader(i, u)
    \/ \E d \in Downloaders : DownloadData(d) \/ CompareData(d)

\* nobody looks at the command's context after Run has returned
LoadNext == LoadStep \/ (exec = "run" /\ (Cancel \/ RunReturns) /\ UNCHANGED load)

LoadEnded ==
    /\ main = "ended" /\ \A d \in Downloaders : down[d].pc \in {"none", "ended"}
    /\ \A i \in Iters, u \in Uploaders : up[i][u].pc \in {"none", "ended"}

============================================================================
