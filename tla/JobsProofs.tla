----------------------------- MODULE JobsProofs -----------------------------
(***************************************************************************)
(* Safety of the jobs for every value of the constants: any number of      *)
(* uploaders and iterations, any chunks and slots, any groups and peers,   *)
(* any pods and StatefulSets, a chain of any height.                       *)
(*                                                                         *)
(* A job touches the variables of its component only, so the invariant is  *)
(* a conjunction with a part for each of them, and each part is inductive  *)
(* by itself.                                                              *)
(***************************************************************************)
EXTENDS Jobs, FiniteSetTheorems, SequenceTheorems, NaturalsInduction,
        WellFoundedInduction, TLAPS

-----------------------------------------------------------------------------
(* The executors and the load check.                                        *)

UpPcs == {"none", "check", "wait", "upload", "ended"}
UpRecords == [pc : UpPcs, tries : Int, sent : Int]
DownRecords == [pc : {"none", "try", "compare", "ended"}, tries : Int, got : Int]

LoadTypes ==
  /\ iter \in 0..MaxIter
  /\ up \in [Iters -> [Uploaders -> UpRecords]]
  /\ address \in [Iters -> Int]
  /\ down \in [Downloaders -> DownRecords]
  /\ mismatch \in BOOLEAN /\ lied \in BOOLEAN

\* The channel of the duration executor holds the one result of the task.
ResultOnce ==
  /\ doneCh \in {"none", "nil", "error"}
  /\ doneCh # "none" => main = "ended"

\* Goroutines of the iteration at hand send its content, and its address leads to
\* that content or nowhere; those of an earlier one touch their own address only.
OwnContent ==
  /\ txData = iter
  /\ \A i \in Iters, u \in Uploaders :
       /\ i > iter => up[i][u].pc = "none"
       /\ i = iter /\ up[i][u].pc = "upload" => up[i][u].sent = iter
  /\ \A i \in Iters : (i > iter => address[i] = 0) /\ (i = iter => address[i] \in {0, iter})

\* Data is downloaded and compared within the iteration.
Downloads ==
  /\ main \in {"wait", "join"} => iter \in Iters
  /\ \A d \in Downloaders :
       /\ down[d].pc \in {"try", "compare"} => main = "join"
       /\ down[d].pc = "compare" => down[d].got = txData \/ lied

LoadInv ==
  LoadTypes /\ ResultOnce /\ NilIsDue /\ Quiet /\ OwnContent /\ Downloads /\ MismatchIsReal

\* The load check begins in a state that satisfies the invariant.
LEMMA LoadInitInv == SchedulerInit /\ LoadInit => LoadInv
<1> SUFFICES ASSUME SchedulerInit, LoadInit PROVE LoadInv
  OBVIOUS
<1> USE LoadAssumption
<1>1. LoadTypes
  <2>1. /\ [pc |-> "none", tries |-> 0, sent |-> 0] \in UpRecords
        /\ [pc |-> "none", tries |-> 0, got |-> 0] \in DownRecords
    BY DEF UpRecords, DownRecords, UpPcs
  <2>2. up \in [Iters -> [Uploaders -> UpRecords]] /\ down \in [Downloaders -> DownRecords]
    BY <2>1 DEF LoadInit
  <2>3. iter \in 0..MaxIter
    BY DEF LoadInit
  <2>4. address \in [Iters -> Int]
    BY DEF LoadInit, ZeroAddress
  <2>5. mismatch \in BOOLEAN /\ lied \in BOOLEAN
    BY DEF LoadInit
  <2>6. QED
    BY <2>2, <2>3, <2>4, <2>5 DEF LoadTypes
<1>2. ResultOnce /\ NilIsDue /\ Quiet /\ MismatchIsReal
  BY DEF SchedulerInit, LoadInit, ResultOnce, NilIsDue, Quiet, MismatchIsReal
<1>3. OwnContent
  BY DEF LoadInit, OwnContent, ZeroAddress, Iters
<1>4. Downloads
  BY DEF LoadInit, Downloads
<1>5. QED
  BY <1>1, <1>2, <1>3, <1>4 DEF LoadInv

\* Steps of the executors: the result of the duration executor, the passes of the
\* periodic one.
LEMMA SchedulerStepInv ==
  ASSUME LoadInv, UNCHANGED load, Cancel \/ RunReturns \/ PeriodicNext
  PROVE  LoadInv'
<1>1. UNCHANGED <<main, iter, txData, up, tx, address, released, down, mismatch, lied>>
  BY DEF load
<1>2. LoadTypes' /\ OwnContent' /\ Downloads' /\ MismatchIsReal'
  BY <1>1 DEF LoadInv, LoadTypes, OwnContent, Downloads, MismatchIsReal
<1>3. doneCh' = doneCh
  BY DEF Cancel, RunReturns, PeriodicNext, Tick, PeriodicStep, PassEnds, NextPass, WorkerEnds,
         Close, CloseReturns, duration
<1>4. ResultOnce'
  BY <1>1, <1>3 DEF LoadInv, ResultOnce
<1>5. NilIsDue'
  <2>1. CASE RunReturns
    BY <1>3, <2>1 DEF RunReturns, LoadInv, NilIsDue
  <2>2. CASE Cancel \/ PeriodicNext
    <3>1. UNCHANGED <<exec, expired>>
      BY <2>2 DEF Cancel, PeriodicNext, Tick, PeriodicStep, PassEnds, NextPass, WorkerEnds,
                  Close, CloseReturns, duration, clock
    <3>2. QED
      BY <1>3, <3>1 DEF LoadInv, NilIsDue
  <2>3. QED
    BY <2>1, <2>2
<1>6. Quiet'
  <2>1. CASE PeriodicStep
    BY <2>1 DEF PeriodicStep, PassEnds, NextPass, WorkerEnds, Close, CloseReturns, Pending, LoadInv, Quiet
  <2>2. CASE Cancel \/ RunReturns \/ Tick
    BY <2>2 DEF Cancel, RunReturns, Tick, periodic, LoadInv, Quiet
  <2>3. QED
    BY <2>1, <2>2 DEF PeriodicNext
<1>7. QED
  BY <1>2, <1>4, <1>5, <1>6 DEF LoadInv

\* The goroutine of run goes from one iteration to the next only when nobody
\* downloads any more.
LEMMA MainStepInv ==
  ASSUME LoadInv, Setup \/ BeginIteration \/ UploadDone \/ EndIteration
  PROVE  LoadInv'
<1> USE LoadAssumption
<1>1. CASE Setup \/ (BeginIteration /\ CtxDone)
  <2>1. /\ main \in {"setup", "top"} /\ main' \in {"top", "ended"}
        /\ doneCh' = doneCh \/ (doneCh' \in {"nil", "error"} /\ main' = "ended")
        /\ UNCHANGED <<clock, exec, periodic, iter, txData, up, tx, address, released, down, mismatch, lied>>
    BY <1>1 DEF Setup, BeginIteration, TaskReturns
  <2>2. LoadTypes' /\ OwnContent' /\ MismatchIsReal'
    BY <2>1 DEF LoadInv, LoadTypes, OwnContent, MismatchIsReal
  <2>3. Quiet' /\ ResultOnce' /\ NilIsDue'
    BY <2>1 DEF LoadInv, Quiet, ResultOnce, NilIsDue, clock, periodic
  <2>4. Downloads'
    BY <2>1 DEF LoadInv, Downloads
  <2>5. QED
    BY <2>2, <2>3, <2>4 DEF LoadInv
<1>2. CASE BeginIteration /\ ~CtxDone
  <2>1. /\ main = "top" /\ main' = "wait" /\ iter < MaxIter /\ iter' = iter + 1 /\ txData' = iter + 1
        /\ up' = [up EXCEPT ![iter + 1] = [u \in Uploaders |-> [@[u] EXCEPT !.pc = "check"]]]
        /\ UNCHANGED <<doneCh, clock, exec, periodic, tx, address, released, down, mismatch, lied>>
    BY <1>2 DEF BeginIteration
  <2>2. iter + 1 \in Iters /\ iter \in Int
    BY <2>1 DEF LoadInv, LoadTypes, Iters
  <2>3. /\ \A i \in Iters, u \in Uploaders : i # iter + 1 => up'[i][u] = up[i][u]
        /\ \A u \in Uploaders : up'[iter + 1][u] = [up[iter + 1][u] EXCEPT !.pc = "check"]
    <3>1. /\ \A i \in Iters : i # iter + 1 => up'[i] = up[i]
          /\ up'[iter + 1] = [u \in Uploaders |-> [up[iter + 1][u] EXCEPT !.pc = "check"]]
      BY <2>1, <2>2 DEF LoadInv, LoadTypes
    <3>2. QED
      BY <3>1
  <2>4. \A u \in Uploaders : up'[iter + 1][u] \in UpRecords /\ up'[iter + 1][u].pc = "check"
    <3> SUFFICES ASSUME NEW u \in Uploaders
                 PROVE  up'[iter + 1][u] \in UpRecords /\ up'[iter + 1][u].pc = "check"
      OBVIOUS
    <3> DEFINE r == up[iter + 1][u]
    <3>1. r \in UpRecords
      BY <2>2 DEF LoadInv, LoadTypes
    <3>2. up'[iter + 1][u] = [r EXCEPT !.pc = "check"]
      BY <2>3
    <3> HIDE DEF r
    <3>3. QED
      BY <3>1, <3>2 DEF UpRecords, UpPcs
  <2>5. LoadTypes'
    <3>1. up' \in [Iters -> [Uploaders -> UpRecords]]
      <4>1. [u \in Uploaders |-> [up[iter + 1][u] EXCEPT !.pc = "check"]] \in [Uploaders -> UpRecords]
        BY <2>3, <2>4
      <4>2. QED
        BY <2>1, <2>2, <4>1 DEF LoadInv, LoadTypes
    <3>2. QED
      BY <2>1, <2>2, <3>1 DEF LoadInv, LoadTypes, Iters
  <2>6. OwnContent'
    <3>1. txData' = iter'
      BY <2>1
    <3>2. ASSUME NEW i \in Iters, NEW u \in Uploaders
          PROVE  /\ i > iter' => up'[i][u].pc = "none"
                 /\ i = iter' /\ up'[i][u].pc = "upload" => up'[i][u].sent = iter'
      BY <2>1, <2>2, <2>3, <2>4 DEF LoadInv, OwnContent, Iters
    <3>3. ASSUME NEW i \in Iters
          PROVE  (i > iter' => address'[i] = 0) /\ (i = iter' => address'[i] \in {0, iter'})
      BY <2>1, <2>2 DEF LoadInv, OwnContent, Iters
    <3>4. QED
      BY <3>1, <3>2, <3>3 DEF OwnContent
  <2>7. Downloads'
    BY <2>1, <2>2 DEF LoadInv, Downloads
  <2>8. ResultOnce' /\ NilIsDue' /\ Quiet' /\ MismatchIsReal'
    BY <2>1 DEF LoadInv, ResultOnce, NilIsDue, Quiet, MismatchIsReal, clock, periodic
  <2>9. QED
    BY <2>5, <2>6, <2>7, <2>8 DEF LoadInv
<1>3. CASE UploadDone \/ EndIteration
  <2>1. /\ main' \in {"join", "top"} /\ main \in {"wait", "join"}
        /\ UNCHANGED <<scheduler, iter, txData, up, tx, address, released, mismatch, lied>>
        /\ \/ main' = "join" /\ down' = [d \in Downloaders |-> [pc |-> "try", tries |-> 0, got |-> 0]]
           \/ main' = "top" /\ down' = down /\ (main = "join" => Joined)
    BY <1>3 DEF UploadDone, EndIteration
  <2>2. LoadTypes'
    BY <2>1 DEF LoadInv, LoadTypes, DownRecords
  <2>3. OwnContent' /\ MismatchIsReal'
    BY <2>1 DEF LoadInv, OwnContent, MismatchIsReal
  <2>4. ResultOnce' /\ NilIsDue' /\ Quiet'
    BY <2>1 DEF LoadInv, ResultOnce, NilIsDue, Quiet, scheduler, clock, duration, periodic
  <2>5. Downloads'
    BY <2>1 DEF LoadInv, Downloads, Joined
  <2>6. QED
    BY <2>2, <2>3, <2>4, <2>5 DEF LoadInv
<1>4. QED
  BY <1>1, <1>2, <1>3

\* A record of an uploader of which some fields are set.
LEMMA UpGoes ==
  ASSUME LoadTypes, NEW i \in Iters, NEW u \in Uploaders, NEW c
  PROVE  [up EXCEPT ![i][u].pc = c]
           = [up EXCEPT ![i][u] = [pc |-> c, tries |-> up[i][u].tries, sent |-> up[i][u].sent]]
<1> DEFINE r == up[i][u]
<1>1. r \in UpRecords
  BY DEF LoadTypes
<1>2. [r EXCEPT !.pc = c] = [pc |-> c, tries |-> r.tries, sent |-> r.sent]
  <2> HIDE DEF r
  <2>1. QED
    BY <1>1 DEF UpRecords
<1>3. [up EXCEPT ![i][u].pc = c] = [up EXCEPT ![i][u] = [r EXCEPT !.pc = c]]
  OBVIOUS
<1>4. QED
  BY <1>2, <1>3

LEMMA UpSends ==
  ASSUME LoadTypes, NEW i \in Iters, NEW u \in Uploaders
  PROVE  [up EXCEPT ![i][u].pc = "upload", ![i][u].sent = txData]
           = [up EXCEPT ![i][u] = [pc |-> "upload", tries |-> up[i][u].tries, sent |-> txData]]
<1> DEFINE r == up[i][u]
           f == up[i]
<1>1. r \in UpRecords /\ f \in [Uploaders -> UpRecords]
  BY DEF LoadTypes
<1>2. [[r EXCEPT !.pc = "upload"] EXCEPT !.sent = txData] = [pc |-> "upload", tries |-> r.tries, sent |-> txData]
  <2> HIDE DEF r
  <2>1. [r EXCEPT !.pc = "upload"] = [pc |-> "upload", tries |-> r.tries, sent |-> r.sent]
    BY <1>1 DEF UpRecords
  <2>2. [[pc |-> "upload", tries |-> r.tries, sent |-> r.sent] EXCEPT !.sent = txData]
          = [pc |-> "upload", tries |-> r.tries, sent |-> txData]
    OBVIOUS
  <2>3. QED
    BY <2>1, <2>2
<1>3. [up EXCEPT ![i][u].pc = "upload", ![i][u].sent = txData]
        = [up EXCEPT ![i] = [f EXCEPT ![u] = [[r EXCEPT !.pc = "upload"] EXCEPT !.sent = txData]]]
  BY <1>1 DEF LoadTypes
<1>4. QED
  BY <1>2, <1>3

\* What a goroutine that uploads does: it never sends, nor leaves at its address,
\* the content of another iteration while its own is at hand.
LEMMA UploaderStep ==
  ASSUME LoadTypes, OwnContent, NEW i \in Iters, NEW u \in Uploaders, Uploader(i, u)
  PROVE  /\ up[i][u].pc # "none"
         /\ UNCHANGED <<scheduler, main, iter, txData, down, mismatch, lied>>
         /\ \E r \in UpRecords : /\ up' = [up EXCEPT ![i][u] = r]
                                 /\ r.pc = "upload" => r.sent = txData
         /\ \E a \in Int : /\ address' = [address EXCEPT ![i] = a]
                           /\ i = iter => a \in {address[i], 0, iter}
<1> USE LoadAssumption
<1>1. /\ up[i][u] \in UpRecords /\ up[i][u].tries \in Int /\ up[i][u].sent \in Int
      /\ address[i] \in Int /\ address = [address EXCEPT ![i] = address[i]]
      /\ txData \in Int /\ txData = iter
  BY DEF LoadTypes, OwnContent, UpRecords
<1>2. /\ up[i][u].pc \in {"check", "wait", "upload"}
      /\ UNCHANGED <<scheduler, main, iter, txData, down, mismatch, lied>>
  BY DEF Uploader, UploadLoop, WaitForDepth, UploadData, Goroutine
<1> DEFINE Sound(r) == /\ r \in UpRecords /\ up' = [up EXCEPT ![i][u] = r]
                       /\ r.pc = "upload" => r.sent = txData
<1>3. ASSUME Ends(i, u) PROVE \E r : Sound(r)
  <2>1. Sound([pc |-> "ended", tries |-> 0, sent |-> 0])
    BY <1>3 DEF Ends, UpRecords, UpPcs
  <2>2. QED
    BY <2>1
<1>4. ASSUME TriesAgain(i, u) PROVE \E r : Sound(r)
  <2>1. up' = [up EXCEPT ![i][u] = [pc |-> "check", tries |-> up[i][u].tries + 1, sent |-> 0]]
    BY <1>4 DEF TriesAgain, LoadTypes
  <2>2. Sound([pc |-> "check", tries |-> up[i][u].tries + 1, sent |-> 0])
    BY <1>1, <2>1 DEF UpRecords, UpPcs
  <2>3. QED
    BY <2>2
<1>5. ASSUME Goes(i, u, "wait") PROVE \E r : Sound(r)
  <2>1. up' = [up EXCEPT ![i][u] = [pc |-> "wait", tries |-> up[i][u].tries, sent |-> up[i][u].sent]]
    BY <1>5, UpGoes, ZenonT(60) DEF Goes
  <2>2. Sound([pc |-> "wait", tries |-> up[i][u].tries, sent |-> up[i][u].sent])
    BY <1>1, <2>1 DEF UpRecords, UpPcs
  <2>3. QED
    BY <2>2
<1>6. ASSUME up' = [up EXCEPT ![i][u].pc = "upload", ![i][u].sent = txData] PROVE \E r : Sound(r)
  <2>1. up' = [up EXCEPT ![i][u] = [pc |-> "upload", tries |-> up[i][u].tries, sent |-> txData]]
    BY <1>6, UpSends
  <2>2. Sound([pc |-> "upload", tries |-> up[i][u].tries, sent |-> txData])
    BY <1>1, <2>1 DEF UpRecords, UpPcs
  <2>3. QED
    BY <2>2
<1>7. \E r : Sound(r)
  <2> HIDE DEF Sound
  <2>1. ASSUME CheckCommittedDepth(i, u) PROVE \E r : Sound(r)
    BY <2>1, <1>3, <1>4, <1>5, <1>6 DEF CheckCommittedDepth
  <2>2. QED
    BY <2>1, <1>3, <1>4 DEF Uploader, UploadLoop, WaitForDepth, UploadData
<1>8. \E a \in Int : address' = [address EXCEPT ![i] = a] /\ (i = iter => a \in {address[i], 0, iter})
  <2>1. CASE address' = address
    BY <1>1, <2>1
  <2>2. CASE UploadData(i, u)
    <3>1. up[i][u].pc = "upload"
      BY <2>2 DEF UploadData, Goroutine
    <3>2. i = iter => up[i][u].sent = txData
      BY <1>1, <3>1 DEF OwnContent
    <3>3. \E a \in {txData, ZeroAddress, up[i][u].sent, Torn} :
            /\ address' = [address EXCEPT ![i] = a]
            /\ a \in {txData, ZeroAddress} \/ up[i][u].sent # txData
      BY <2>2 DEF UploadData
    <3>4. PICK a \in {txData, ZeroAddress, up[i][u].sent, Torn} :
            /\ address' = [address EXCEPT ![i] = a]
            /\ a \in {txData, ZeroAddress} \/ up[i][u].sent # txData
      BY <3>3
    <3>5. a \in Int /\ (i = iter => a \in {address[i], 0, iter})
      BY <1>1, <3>2, <3>4 DEF ZeroAddress, Torn
    <3>6. QED
      BY <3>4, <3>5
  <2>3. QED
    BY <2>1, <2>2 DEF Uploader, UploadLoop, WaitForDepth
<1>9. QED
  BY <1>2, <1>7, <1>8

LEMMA UploaderInv ==
  ASSUME LoadInv, NEW i \in Iters, NEW u \in Uploaders, Uploader(i, u)
  PROVE  LoadInv'
<1>1. /\ up[i][u].pc # "none"
      /\ UNCHANGED <<scheduler, main, iter, txData, down, mismatch, lied>>
  BY UploaderStep DEF LoadInv
<1>2. PICK r \in UpRecords : up' = [up EXCEPT ![i][u] = r] /\ (r.pc = "upload" => r.sent = txData)
  BY UploaderStep DEF LoadInv
<1>3. PICK a \in Int : address' = [address EXCEPT ![i] = a] /\ (i = iter => a \in {address[i], 0, iter})
  BY UploaderStep DEF LoadInv
<1>4. /\ \A j \in Iters, v \in Uploaders : up'[j][v] = IF j = i /\ v = u THEN r ELSE up[j][v]
      /\ \A j \in Iters : address'[j] = IF j = i THEN a ELSE address[j]
  BY <1>2, <1>3 DEF LoadInv, LoadTypes
<1>5. LoadTypes'
  <2>1. up' \in [Iters -> [Uploaders -> UpRecords]]
    BY <1>2 DEF LoadInv, LoadTypes
  <2>2. address' \in [Iters -> Int]
    BY <1>3 DEF LoadInv, LoadTypes
  <2>3. QED
    BY <1>1, <2>1, <2>2 DEF LoadInv, LoadTypes
<1>6. i <= iter /\ iter \in Int
  BY <1>1 DEF LoadInv, OwnContent, LoadTypes, Iters
<1>7. OwnContent'
  BY <1>1, <1>2, <1>3, <1>4, <1>6 DEF LoadInv, OwnContent
<1>8. Downloads' /\ MismatchIsReal'
  BY <1>1 DEF LoadInv, Downloads, MismatchIsReal
<1>9. ResultOnce' /\ NilIsDue' /\ Quiet'
  BY <1>1 DEF LoadInv, ResultOnce, NilIsDue, Quiet, scheduler, clock, duration, periodic
<1>10. QED
  BY <1>5, <1>7, <1>8, <1>9 DEF LoadInv

\* What is downloaded is what the address leads to, or the node has lied; it is
\* compared with the content of the same iteration.
LEMMA DownloaderInv ==
  ASSUME LoadInv, NEW d \in Downloaders, DownloadData(d) \/ CompareData(d)
  PROVE  LoadInv'
<1> USE LoadAssumption
<1>1. /\ UNCHANGED <<scheduler, main, iter, txData, up, tx, address, released>>
      /\ down[d].pc \in {"try", "compare"}
  BY DEF DownloadData, CompareData
<1>2. main = "join" /\ iter \in Iters /\ txData = iter /\ address[iter] \in {0, iter}
  BY <1>1 DEF LoadInv, Downloads, OwnContent
<1>3. \E r \in DownRecords :
        /\ down' = [down EXCEPT ![d] = r]
        /\ r.pc = "compare" => r.got = txData \/ lied'
  <2>1. down[d] \in DownRecords /\ down[d].tries \in Int /\ down[d].got \in Int
    BY DEF LoadInv, LoadTypes, DownRecords
  <2> DEFINE Sound(r) == r \in DownRecords /\ down' = [down EXCEPT ![d] = r]
                         /\ (r.pc = "compare" => r.got = txData \/ lied')
  <2>2. CASE CompareData(d)
    <3>1. Sound([pc |-> "ended", tries |-> 0, got |-> 0])
      BY <2>2 DEF CompareData, DownRecords
    <3>2. QED
      BY <3>1
  <2>3. CASE DownloadData(d)
    <3>1. down[d].pc = "try"
      BY <2>3 DEF DownloadData
    <3>2. CASE down' = [down EXCEPT ![d].pc = "ended"]
      <4>1. Sound([down[d] EXCEPT !.pc = "ended"])
        BY <2>1, <3>2 DEF DownRecords
      <4>2. QED
        BY <4>1
    <3>3. CASE down' = [down EXCEPT ![d].tries = @ + 1]
      <4>1. down' = [down EXCEPT ![d] = [down[d] EXCEPT !.tries = down[d].tries + 1]]
        BY <3>3 DEF LoadInv, LoadTypes
      <4>2. [down[d] EXCEPT !.tries = down[d].tries + 1] \in DownRecords
        BY <2>1 DEF DownRecords
      <4>3. [down[d] EXCEPT !.tries = down[d].tries + 1].pc = "try"
        BY <2>1, <3>1 DEF DownRecords
      <4>4. Sound([down[d] EXCEPT !.tries = down[d].tries + 1])
        BY <4>1, <4>2, <4>3
      <4>5. QED
        BY <4>4
    <3>4. CASE \E got \in {address[iter], Torn} :
                 /\ address[iter] # ZeroAddress
                 /\ down' = [down EXCEPT ![d] = [@ EXCEPT !.pc = "compare", !.got = got]]
                 /\ lied' = (lied \/ got # address[iter])
      <4>1. PICK got \in {address[iter], Torn} :
                 /\ address[iter] # ZeroAddress
                 /\ down' = [down EXCEPT ![d] = [@ EXCEPT !.pc = "compare", !.got = got]]
                 /\ lied' = (lied \/ got # address[iter])
        BY <3>4
      <4>2. got \in Int /\ (got = txData \/ lied')
        <5>1. CASE got = address[iter]
          BY <1>2, <4>1, <5>1 DEF ZeroAddress, Iters
        <5>2. CASE got # address[iter]
          <6>1. got \in Int
            BY <4>1, <5>2 DEF Torn
          <6>2. lied'
            BY <4>1, <5>2, Zenon
          <6>3. QED
            BY <6>1, <6>2
        <5>3. QED
          BY <5>1, <5>2
      <4> DEFINE r == [down[d] EXCEPT !.pc = "compare", !.got = got]
      <4>3. down' = [down EXCEPT ![d] = r]
        BY <4>1 DEF LoadInv, LoadTypes
      <4>4. r \in DownRecords /\ r.got = got
        BY <2>1, <4>2 DEF DownRecords
      <4>5. Sound(r)
        BY <4>2, <4>3, <4>4
      <4>6. QED
        BY <4>5
    <3>5. QED
      BY <2>3, <3>2, <3>3, <3>4 DEF DownloadData
  <2>4. QED
    BY <2>2, <2>3
<1>4. PICK r \in DownRecords : down' = [down EXCEPT ![d] = r] /\ (r.pc = "compare" => r.got = txData \/ lied')
  BY <1>3
<1>5. /\ (lied => lied') /\ lied' \in BOOLEAN /\ mismatch' \in BOOLEAN
      /\ mismatch' => mismatch \/ (down[d].pc = "compare" /\ down[d].got # txData)
  <2>1. CASE CompareData(d)
    BY <2>1 DEF CompareData, LoadInv, LoadTypes
  <2>2. CASE DownloadData(d)
    BY <2>2 DEF DownloadData, LoadInv, LoadTypes
  <2>3. QED
    BY <2>1, <2>2
<1>6. LoadTypes'
  <2>1. down' \in [Downloaders -> DownRecords]
    BY <1>4 DEF LoadInv, LoadTypes
  <2>2. QED
    BY <1>1, <1>5, <2>1 DEF LoadInv, LoadTypes
<1>7. OwnContent'
  BY <1>1 DEF LoadInv, OwnContent
<1>8. ResultOnce' /\ NilIsDue' /\ Quiet'
  BY <1>1 DEF LoadInv, ResultOnce, NilIsDue, Quiet, scheduler, clock, duration, periodic
<1>9. Downloads'
  <2>1. \A e \in Downloaders : down'[e] = IF e = d THEN r ELSE down[e]
    BY <1>4 DEF LoadInv, LoadTypes
  <2>2. QED
    BY <1>1, <1>2, <1>4, <1>5, <2>1 DEF LoadInv, Downloads
<1>10. MismatchIsReal'
  BY <1>5 DEF LoadInv, Downloads, MismatchIsReal
<1>11. QED
  BY <1>6, <1>7, <1>8, <1>9, <1>10 DEF LoadInv

\* Every step of the executors and of the load check keeps their invariant.
LEMMA LoadNextInv ==
  ASSUME LoadInv, LoadNext \/ (PeriodicNext /\ UNCHANGED load) \/ UNCHANGED <<scheduler, load>>
  PROVE  LoadInv'
<1>1. CASE LoadStep
  BY <1>1, MainStepInv, UploaderInv, DownloaderInv DEF LoadStep
<1>2. CASE UNCHANGED load /\ (Cancel \/ RunReturns \/ PeriodicNext)
  BY <1>2, SchedulerStepInv
<1>3. CASE UNCHANGED <<scheduler, load>>
  <2>1. UNCHANGED <<main, iter, txData, up, tx, address, released, down, mismatch, lied>>
        /\ UNCHANGED <<expired, doneCh, exec, worker, closing>>
    BY <1>3 DEF load, scheduler, clock, duration, periodic
  <2>2. LoadTypes' /\ OwnContent' /\ Downloads' /\ MismatchIsReal'
    BY <2>1 DEF LoadInv, LoadTypes, OwnContent, Downloads, MismatchIsReal
  <2>3. ResultOnce' /\ NilIsDue' /\ Quiet'
    BY <2>1 DEF LoadInv, ResultOnce, NilIsDue, Quiet
  <2>4. QED
    BY <2>2, <2>3 DEF LoadInv
<1>4. QED
  BY <1>1, <1>2, <1>3 DEF LoadNext

-----------------------------------------------------------------------------
(* The data durability check.                                               *)

DurabilityTypes ==
  /\ stage \in {"fetch", "nodes", "loop", "nil", "error"}
  /\ nextChunk \in 0..ChunkCount
  /\ chunk \in [Chunks -> {"none", "download", "judge", "ended"}]
  /\ failed \subseteq Chunks
  /\ err \in BOOLEAN /\ once \in BOOLEAN /\ counted \in BOOLEAN
  /\ metrics \in [attempts : Nat, errors : Nat, chunks : Nat]

\* The chunks whose download has ended.
Fetched == {c \in Chunks : chunk[c] \in {"judge", "ended"}}

\* The file is counted by the once function or at the end; a chunk when it is
\* started.
Counts ==
  /\ once = counted
  /\ metrics.errors = IF once THEN 1 ELSE 0
  /\ metrics.attempts = IF once \/ stage = "nil" THEN 1 ELSE 0
  /\ metrics.chunks = nextChunk
  /\ \A c \in Chunks : chunk[c] # "none" => c <= nextChunk
  /\ stage = "nil" => \A c \in Chunks : chunk[c] = "ended"

\* The shared err tells of a chunk that failed, and while all have failed it is
\* set, and seen by every goroutine that ends.
SharedErr ==
  /\ failed \subseteq Fetched
  /\ err \/ once => failed # {}
  /\ Fetched \subseteq failed /\ Fetched # {} => err
  /\ Fetched \subseteq failed /\ (\E c \in Chunks : chunk[c] = "ended") => once

DurabilityInv == DurabilityTypes /\ Counts /\ SharedErr

LEMMA DurabilityInitInv == DurabilityInit => DurabilityInv
<1> SUFFICES ASSUME DurabilityInit PROVE DurabilityInv
  OBVIOUS
<1> USE DurabilityAssumption
<1>1. stage = "fetch" /\ nextChunk = 0 /\ chunk = [c \in Chunks |-> "none"] /\ failed = {}
      /\ err = FALSE /\ once = FALSE /\ counted = FALSE
      /\ metrics = [attempts |-> 0, errors |-> 0, chunks |-> 0]
  BY DEF DurabilityInit
<1>2. DurabilityTypes
  <2>1. metrics \in [attempts : Nat, errors : Nat, chunks : Nat] /\ nextChunk \in 0..ChunkCount
    BY <1>1
  <2>2. chunk \in [Chunks -> {"none", "download", "judge", "ended"}]
    BY <1>1
  <2>3. err \in BOOLEAN /\ once \in BOOLEAN /\ counted \in BOOLEAN
    BY <1>1
  <2>4. QED
    BY <1>1, <2>1, <2>2, <2>3 DEF DurabilityTypes
<1>3. Counts
  BY <1>1 DEF Counts
<1>4. SharedErr
  BY <1>1 DEF SharedErr, Fetched
<1>5. QED
  BY <1>2, <1>3, <1>4 DEF DurabilityInv

\* Run before it waits for the goroutines.
LEMMA BeforeLoopInv == ASSUME DurabilityInv, FetchFile \/ FindRandomEligibleNodes PROVE DurabilityInv'
<1>1. /\ stage \in {"fetch", "nodes"} /\ stage' \in {"fetch", "nodes", "loop", "error"}
      /\ UNCHANGED <<nextChunk, slots, chunk, err, failed, once, counted, metrics>>
  BY DEF FetchFile, FindRandomEligibleNodes
<1>2. DurabilityTypes' /\ Counts'
  BY <1>1 DEF DurabilityInv, DurabilityTypes, Counts
<1>3. SharedErr'
  BY <1>1 DEF DurabilityInv, SharedErr, Fetched
<1>4. QED
  BY <1>2, <1>3 DEF DurabilityInv

\* The metrics with some counters raised.
LEMMA MetricsExcept ==
  ASSUME DurabilityTypes
  PROVE  /\ [metrics EXCEPT !.chunks = @ + 1]
              = [attempts |-> metrics.attempts, errors |-> metrics.errors, chunks |-> metrics.chunks + 1]
         /\ [metrics EXCEPT !.attempts = @ + 1]
              = [attempts |-> metrics.attempts + 1, errors |-> metrics.errors, chunks |-> metrics.chunks]
         /\ [metrics EXCEPT !.attempts = @ + 1, !.errors = @ + 1]
              = [attempts |-> metrics.attempts + 1, errors |-> metrics.errors + 1, chunks |-> metrics.chunks]
         /\ metrics.attempts \in Nat /\ metrics.errors \in Nat /\ metrics.chunks \in Nat
<1>1. metrics \in [attempts : Nat, errors : Nat, chunks : Nat]
  BY DEF DurabilityTypes
<1>2. [metrics EXCEPT !.chunks = @ + 1]
        = [attempts |-> metrics.attempts, errors |-> metrics.errors, chunks |-> metrics.chunks + 1]
  BY <1>1
<1>3. [metrics EXCEPT !.attempts = @ + 1]
        = [attempts |-> metrics.attempts + 1, errors |-> metrics.errors, chunks |-> metrics.chunks]
  BY <1>1
<1>4. [metrics EXCEPT !.attempts = @ + 1, !.errors = @ + 1]
        = [attempts |-> metrics.attempts + 1, errors |-> metrics.errors + 1, chunks |-> metrics.chunks]
  <2> DEFINE m == [attempts |-> metrics.attempts + 1, errors |-> metrics.errors, chunks |-> metrics.chunks]
  <2>1. [m EXCEPT !.errors = @ + 1]
          = [attempts |-> metrics.attempts + 1, errors |-> metrics.errors + 1, chunks |-> metrics.chunks]
    OBVIOUS
  <2>2. [metrics EXCEPT !.attempts = @ + 1, !.errors = @ + 1]
          = [[metrics EXCEPT !.attempts = @ + 1] EXCEPT !.errors = @ + 1]
    OBVIOUS
  <2>3. QED
    BY <1>3, <2>1, <2>2
<1>5. QED
  BY <1>1, <1>2, <1>3, <1>4

LEMMA StartDownloadInv == ASSUME DurabilityInv, StartDownload PROVE DurabilityInv'
<1> USE DurabilityAssumption
<1> DEFINE n == nextChunk + 1
<1>1. /\ stage = "loop" /\ nextChunk < ChunkCount /\ nextChunk' = n
      /\ chunk' = [chunk EXCEPT ![n] = "download"]
      /\ UNCHANGED <<stage, err, failed, once, counted>>
      /\ metrics' = [attempts |-> metrics.attempts, errors |-> metrics.errors, chunks |-> metrics.chunks + 1]
      /\ metrics.attempts \in Nat /\ metrics.errors \in Nat /\ metrics.chunks \in Nat
  BY MetricsExcept DEF StartDownload, DurabilityInv
<1>2. n \in Chunks /\ nextChunk \in Nat /\ chunk[n] = "none"
  <2>1. n \in Chunks /\ nextChunk \in Nat
    BY <1>1 DEF DurabilityInv, DurabilityTypes, Chunks
  <2>2. QED
    BY <2>1 DEF DurabilityInv, Counts, DurabilityTypes, Chunks
<1>3. \A c \in Chunks : chunk'[c] = IF c = n THEN "download" ELSE chunk[c]
  BY <1>1 DEF DurabilityInv, DurabilityTypes
<1>4. DurabilityTypes'
  <2>1. chunk' \in [Chunks -> {"none", "download", "judge", "ended"}]
    BY <1>1 DEF DurabilityInv, DurabilityTypes
  <2>2. metrics' \in [attempts : Nat, errors : Nat, chunks : Nat] /\ nextChunk' \in 0..ChunkCount
    BY <1>1, <1>2
  <2>3. QED
    BY <1>1, <2>1, <2>2 DEF DurabilityInv, DurabilityTypes
<1>5. Counts'
  BY <1>1, <1>2, <1>3 DEF DurabilityInv, Counts, Chunks
<1>6. Fetched' = Fetched /\ \A c \in Chunks : chunk'[c] = "ended" <=> chunk[c] = "ended"
  BY <1>2, <1>3 DEF Fetched
<1>7. SharedErr'
  BY <1>1, <1>6 DEF DurabilityInv, SharedErr
<1>8. QED
  BY <1>4, <1>5, <1>7 DEF DurabilityInv

\* A goroutine assigns err; the last one to do so before a judgement decides.
LEMMA ChunkDownloadedInv ==
  ASSUME DurabilityInv, NEW c \in Chunks, ChunkDownloaded(c)
  PROVE  DurabilityInv'
<1>1. PICK e \in BOOLEAN : err' = e /\ failed' = IF e THEN failed \cup {c} ELSE failed
  BY DEF ChunkDownloaded
<1>2. /\ chunk[c] = "download" /\ chunk' = [chunk EXCEPT ![c] = "judge"]
      /\ UNCHANGED <<stage, nextChunk, once, counted, metrics>>
  BY DEF ChunkDownloaded
<1>3. \A d \in Chunks : chunk'[d] = IF d = c THEN "judge" ELSE chunk[d]
  BY <1>2 DEF DurabilityInv, DurabilityTypes
<1>4. DurabilityTypes'
  <2>1. chunk' \in [Chunks -> {"none", "download", "judge", "ended"}]
    BY <1>2 DEF DurabilityInv, DurabilityTypes
  <2>2. QED
    BY <1>1, <1>2, <2>1 DEF DurabilityInv, DurabilityTypes
<1>5. Counts'
  BY <1>2, <1>3 DEF DurabilityInv, Counts
<1>6. Fetched' = Fetched \cup {c} /\ c \notin Fetched
      /\ \A d \in Chunks : chunk'[d] = "ended" <=> chunk[d] = "ended"
  BY <1>2, <1>3 DEF Fetched
<1>7. SharedErr'
  <2>1. CASE e = TRUE
    BY <1>1, <1>2, <1>6, <2>1 DEF DurabilityInv, SharedErr
  <2>2. CASE e = FALSE
    BY <1>1, <1>2, <1>6, <2>2 DEF DurabilityInv, SharedErr
  <2>3. QED
    BY <2>1, <2>2
<1>8. QED
  BY <1>4, <1>5, <1>7 DEF DurabilityInv

LEMMA JudgeInv == ASSUME DurabilityInv, NEW c \in Chunks, Judge(c) PROVE DurabilityInv'
<1>1. /\ chunk[c] = "judge" /\ chunk' = [chunk EXCEPT ![c] = "ended"]
      /\ UNCHANGED <<stage, nextChunk, err, failed>>
  BY DEF Judge
<1>2. \A d \in Chunks : chunk'[d] = IF d = c THEN "ended" ELSE chunk[d]
  BY <1>1 DEF DurabilityInv, DurabilityTypes
<1>3. chunk' \in [Chunks -> {"none", "download", "judge", "ended"}]
  BY <1>1 DEF DurabilityInv, DurabilityTypes
<1>4. Fetched' = Fetched /\ c \in Fetched /\ stage # "nil"
  BY <1>1, <1>2 DEF Fetched, DurabilityInv, Counts
<1>5. CASE err /\ ~once
  <2>1. /\ once' = TRUE /\ counted' = TRUE
        /\ metrics' = [attempts |-> metrics.attempts + 1, errors |-> metrics.errors + 1, chunks |-> metrics.chunks]
        /\ metrics.attempts \in Nat /\ metrics.errors \in Nat /\ metrics.chunks \in Nat
    BY <1>5, MetricsExcept DEF Judge, CountFile, DurabilityInv
  <2>2. metrics' \in [attempts : Nat, errors : Nat, chunks : Nat]
    BY <2>1
  <2>3. DurabilityTypes'
    BY <1>1, <1>3, <2>1, <2>2 DEF DurabilityInv, DurabilityTypes
  <2>4. Counts'
    BY <1>1, <1>2, <1>4, <1>5, <2>1 DEF DurabilityInv, Counts
  <2>5. SharedErr'
    BY <1>1, <1>4, <1>5, <2>1 DEF DurabilityInv, SharedErr
  <2>6. QED
    BY <2>3, <2>4, <2>5 DEF DurabilityInv
<1>6. CASE ~(err /\ ~once)
  <2>1. UNCHANGED <<once, counted, metrics>>
    BY <1>6 DEF Judge
  <2>2. DurabilityTypes'
    BY <1>1, <1>3, <2>1 DEF DurabilityInv, DurabilityTypes
  <2>3. Counts'
    BY <1>1, <1>2, <1>4, <2>1 DEF DurabilityInv, Counts
  <2>4. SharedErr'
    BY <1>1, <1>4, <1>6, <2>1 DEF DurabilityInv, SharedErr
  <2>5. QED
    BY <2>2, <2>3, <2>4 DEF DurabilityInv
<1>7. QED
  BY <1>5, <1>6

LEMMA FinishInv == ASSUME DurabilityInv, Finish PROVE DurabilityInv'
<1>1. /\ stage = "loop" /\ stage' = "nil" /\ (\A c \in Chunks : chunk[c] = "ended")
      /\ UNCHANGED <<nextChunk, chunk, err, failed, once, counted>>
      /\ metrics' = IF counted THEN metrics
                    ELSE [attempts |-> metrics.attempts + 1, errors |-> metrics.errors, chunks |-> metrics.chunks]
      /\ metrics.attempts \in Nat /\ metrics.errors \in Nat /\ metrics.chunks \in Nat
  BY MetricsExcept DEF Finish, DurabilityInv
<1>2. DurabilityTypes'
  <2>1. metrics' \in [attempts : Nat, errors : Nat, chunks : Nat]
    BY <1>1 DEF DurabilityInv, DurabilityTypes
  <2>2. QED
    BY <1>1, <2>1 DEF DurabilityInv, DurabilityTypes
<1>3. Counts'
  <2>1. CASE counted
    BY <1>1, <2>1 DEF DurabilityInv, Counts
  <2>2. CASE ~counted
    BY <1>1, <2>2 DEF DurabilityInv, Counts
  <2>3. QED
    BY <2>1, <2>2
<1>4. SharedErr'
  BY <1>1 DEF DurabilityInv, SharedErr, Fetched
<1>5. QED
  BY <1>2, <1>3, <1>4 DEF DurabilityInv

\* Every step of the durability check keeps its invariant.
LEMMA DurabilityNextInv ==
  ASSUME DurabilityInv, DurabilityStep \/ UNCHANGED durability
  PROVE  DurabilityInv'
<1>1. CASE DurabilityStep
  BY <1>1, BeforeLoopInv, StartDownloadInv, FinishInv, ChunkDownloadedInv, JudgeInv DEF DurabilityStep
<1>2. CASE UNCHANGED durability
  <2>1. UNCHANGED <<stage, nextChunk, chunk, err, failed, once, counted, metrics>>
    BY <1>2 DEF durability
  <2>2. QED
    BY <2>1 DEF DurabilityInv, DurabilityTypes, Counts, SharedErr, Fetched
<1>3. QED
  BY <1>1, <1>2

\* The file is counted once, with all its chunks.
LEMMA DurabilityGoal == DurabilityInv => FileCountedOnce
<1> SUFFICES ASSUME DurabilityInv, stage = "nil" PROVE FileCountedOnce
  BY DEF FileCountedOnce
<1> USE DurabilityAssumption
<1>1. \A c \in Chunks : chunk[c] = "ended"
  BY DEF DurabilityInv, Counts
<1>2. 1 \in Chunks /\ ChunkCount \in Chunks
  BY DEF Chunks
<1>3. nextChunk = ChunkCount
  BY <1>1, <1>2 DEF DurabilityInv, DurabilityTypes, Counts
<1>4. Fetched = Chunks
  BY <1>1 DEF Fetched
<1>5. failed = Chunks => once
  BY <1>1, <1>2, <1>4 DEF DurabilityInv, SharedErr
<1>6. once => failed # {}
  BY DEF DurabilityInv, SharedErr
<1>7. metrics.attempts = 1 /\ metrics.errors = (IF once THEN 1 ELSE 0) /\ metrics.chunks = ChunkCount
  BY <1>3 DEF DurabilityInv, Counts
<1>8. QED
  BY <1>5, <1>6, <1>7 DEF FileCountedOnce

-----------------------------------------------------------------------------
(* The pingpong check.                                                      *)

PingNodes == DOMAIN PeersOf

PingpongTypes ==
  /\ ping \in {"run", "nil", "error"} /\ group \in 0..Len(Groups)
  /\ stream \in [PingNodes -> {"none", "start", "range", "send", "ended"}]
  /\ toSend = [n \in PingNodes |-> toSend[n]]
  /\ pinger \in [Pings -> {"none", "ping", "ok", "error", "ended"}]
  /\ answered \subseteq Pings
  /\ stopped \subseteq wasStopped

\* What a goroutine sends next: the answer of a ping that has ended, or an error.
Error(n) == Head(toSend[n]).ok = FALSE
Answer(n, q) == toSend[n] = <<Msg(TRUE, q)>>

Messages ==
  \A n \in PingNodes : stream[n] = "send" =>
    \/ \E q \in Pings : q[1] = n /\ pinger[q] = "ended" /\ Answer(n, q)
    \/ Error(n)

\* A ping that has ended is recorded, or its message is on the way.
Recorded ==
  \A q \in Pings : pinger[q] = "ended" =>
    q \in answered \/ (stream[q[1]] = "send" /\ (Answer(q[1], q) \/ Error(q[1])))

\* The peers of a node whose goroutine has ended have answered, and so have those
\* of the groups behind Run unless a node was stopped; one without a goroutine was.
NodesDone ==
  /\ \A q \in Pings : stream[q[1]] = "ended" => q \in answered
  /\ \A i \in 1..Len(Groups) : i < group =>
       \A q \in Pings : q[1] \in Groups[i] => q \in answered \/ q[1] \in wasStopped
  /\ \A n \in PingNodes : group > 0 /\ n \in Groups[group] /\ stream[n] = "none" => n \in wasStopped

\* Goroutines are at work for the group at hand only.
AtWork ==
  \A n \in PingNodes : stream[n] \in {"none", "ended"} \/ (group > 0 /\ n \in Groups[group])

PingpongInv ==
  /\ PingpongTypes /\ AllAnswered
  /\ ping = "run" => Messages /\ Recorded /\ NodesDone /\ AtWork

\* A ping is one of a node.
LEMMA PingNode == \A q \in Pings : q[1] \in PingNodes
BY DEF Pings, PingNodes

LEMMA PingpongInitInv == PingpongInit => PingpongInv
<1> SUFFICES ASSUME PingpongInit PROVE PingpongInv
  OBVIOUS
<1>1. Len(Groups) \in Nat
  BY PingpongAssumption
<1>2. PingpongTypes /\ AllAnswered
  BY <1>1 DEF PingpongInit, PingpongTypes, AllAnswered, PingNodes
<1>3. Messages /\ Recorded /\ NodesDone /\ AtWork
  BY <1>1, PingNode DEF PingpongInit, Messages, Recorded, NodesDone, AtWork, PingNodes
<1>4. QED
  BY <1>2, <1>3 DEF PingpongInv

\* The next group begins, or the check ends, when the group's goroutines have.
LEMMA NextGroupInv == ASSUME PingpongInv, NextGroup \/ ClientsFail PROVE PingpongInv'
<1>1. /\ ping = "run" /\ GroupEnded /\ UNCHANGED <<toSend, pinger, answered, stopped, wasStopped>>
      /\ Len(Groups) \in Nat /\ group \in 0..Len(Groups)
  BY PingpongAssumption DEF NextGroup, ClientsFail, cluster, PingpongInv, PingpongTypes
<1>2. ASSUME NEW i \in 1..Len(Groups), i <= group, NEW q \in Pings, q[1] \in Groups[i]
      PROVE  q \in answered \/ q[1] \in wasStopped
  <2>1. CASE i = group
    BY <1>1, <1>2, <2>1, PingNode DEF GroupEnded, PingpongInv, NodesDone
  <2>2. CASE i < group
    BY <1>1, <1>2, <2>2 DEF PingpongInv, NodesDone
  <2>3. QED
    BY <1>1, <1>2, <2>1, <2>2
<1>3. CASE ClientsFail
  BY <1>1, <1>3 DEF ClientsFail, PingpongInv, PingpongTypes, AllAnswered
<1>4. CASE NextGroup /\ group = Len(Groups)
  <2>1. ping' = "nil" /\ UNCHANGED <<group, stream>>
    BY <1>4 DEF NextGroup
  <2>2. PingpongTypes'
    BY <1>1, <2>1 DEF PingpongInv, PingpongTypes
  <2>3. \A q \in Pings : q \in answered \/ q[1] \in wasStopped
    <3> SUFFICES ASSUME NEW q \in Pings PROVE q \in answered \/ q[1] \in wasStopped
      OBVIOUS
    <3>1. PICK i \in 1..Len(Groups) : q[1] \in Groups[i]
      BY PingNode, PingpongAssumption DEF PingNodes
    <3>2. QED
      BY <1>1, <1>2, <1>4, <3>1
  <2>4. QED
    BY <1>1, <2>1, <2>2, <2>3 DEF PingpongInv, PingpongTypes, AllAnswered
<1>5. CASE NextGroup /\ group # Len(Groups)
  <2>1. /\ group' = group + 1 /\ ping' = ping
        /\ stream' = [n \in PingNodes |-> IF n \in Groups[group + 1] \ stopped THEN "start" ELSE stream[n]]
    BY <1>5 DEF NextGroup, PingpongInv, PingpongTypes
  <2>2. PingpongTypes' /\ AllAnswered'
    BY <1>1, <1>5, <2>1 DEF PingpongInv, PingpongTypes, AllAnswered
  <2>3. \A n \in PingNodes : stream'[n] = stream[n] \/ stream'[n] = "start"
    BY <2>1
  <2>4. Messages'
    BY <1>1, <2>3 DEF PingpongInv, Messages, Answer, Error
  <2>5. \A n \in PingNodes : stream[n] \in {"none", "ended"}
    BY <1>1 DEF GroupEnded, PingpongInv, AtWork
  <2>6. Recorded'
    BY <1>1, <2>5, PingNode DEF PingpongInv, Recorded
  <2>7. NodesDone'
    <3>1. \A n \in PingNodes : n \in Groups[group + 1] /\ stream'[n] = "none" => n \in wasStopped
      BY <2>1 DEF PingpongInv, PingpongTypes
    <3>2. QED
      BY <1>1, <1>2, <2>1, <2>3, <3>1, PingNode DEF PingpongInv, NodesDone
  <2>8. AtWork'
    BY <1>1, <2>1, <2>5 DEF AtWork
  <2>9. QED
    BY <2>2, <2>4, <2>6, <2>7, <2>8 DEF PingpongInv
<1>6. QED
  BY <1>3, <1>4, <1>5

\* A step that leaves Run and what it has recorded alone: the goroutines of one
\* node, n, go on, and their part of the invariant is kept.
LEMMA NodeStepInv ==
  ASSUME PingpongInv, NEW n \in PingNodes, PingpongTypes',
         UNCHANGED <<ping, group, answered, stopped, wasStopped>>,
         stream[n] \notin {"none", "ended"}, stream'[n] # "none",
         \A m \in PingNodes : m # n => stream'[m] = stream[m] /\ toSend'[m] = toSend[m],
         \A q \in Pings : q[1] # n => pinger'[q] = pinger[q],
         ping = "run" =>
           /\ stream'[n] = "send" => \/ \E q \in Pings : q[1] = n /\ pinger'[q] = "ended" /\ Answer(n, q)'
                                     \/ Error(n)'
           /\ \A q \in Pings : q[1] = n =>
                /\ pinger'[q] = "ended" => q \in answered \/ (stream'[n] = "send" /\ (Answer(n, q)' \/ Error(n)'))
                /\ stream'[n] = "ended" => q \in answered
  PROVE  PingpongInv'
<1>1. AllAnswered'
  BY DEF PingpongInv, AllAnswered
<1>2. CASE ping # "run"
  BY <1>1, <1>2 DEF PingpongInv
<1>3. CASE ping = "run"
  <2>1. \A m \in PingNodes : m # n => \A q : (Answer(m, q)' <=> Answer(m, q)) /\ (Error(m)' <=> Error(m))
    BY DEF Answer, Error
  <2>2. Messages'
    <3> SUFFICES ASSUME NEW m \in PingNodes, stream'[m] = "send"
                 PROVE  \/ \E q \in Pings : q[1] = m /\ pinger'[q] = "ended" /\ Answer(m, q)'
                        \/ Error(m)'
      BY DEF Messages
    <3>1. CASE m = n
      BY <1>3, <3>1
    <3>2. CASE m # n
      BY <1>3, <2>1, <3>2 DEF PingpongInv, Messages
    <3>3. QED
      BY <3>1, <3>2
  <2>3. Recorded'
    <3> SUFFICES ASSUME NEW q \in Pings, pinger'[q] = "ended"
                 PROVE  q \in answered' \/ (stream'[q[1]] = "send" /\ (Answer(q[1], q)' \/ Error(q[1])'))
      BY DEF Recorded
    <3>1. CASE q[1] = n
      BY <1>3, <3>1
    <3>2. CASE q[1] # n
      BY <1>3, <2>1, <3>2, PingNode DEF PingpongInv, Recorded
    <3>3. QED
      BY <3>1, <3>2
  <2>4. NodesDone'
    BY <1>3, PingNode DEF PingpongInv, NodesDone
  <2>5. AtWork'
    BY <1>3 DEF PingpongInv, AtWork
  <2>6. QED
    BY <1>1, <2>2, <2>3, <2>4, <2>5 DEF PingpongInv
<1>4. QED
  BY <1>2, <1>3

LEMMA ReadPeersInv == ASSUME PingpongInv, NEW n \in PingNodes, ReadPeers(n) PROVE PingpongInv'
<1>1. stream[n] = "start" /\ UNCHANGED <<ping, group, answered, stopped, wasStopped>>
  BY DEF ReadPeers, cluster
<1>2. CASE /\ stream' = [stream EXCEPT ![n] = "range"] /\ toSend' = toSend
           /\ pinger' = [q \in Pings |-> IF q[1] = n THEN "ping" ELSE pinger[q]]
  <2>1. PingpongTypes'
    BY <1>1, <1>2 DEF PingpongInv, PingpongTypes
  <2>2. stream'[n] = "range" /\ \A m \in PingNodes : m # n => stream'[m] = stream[m] /\ toSend'[m] = toSend[m]
    BY <1>2 DEF PingpongInv, PingpongTypes
  <2>3. \A q \in Pings : pinger'[q] = IF q[1] = n THEN "ping" ELSE pinger[q]
    BY <1>2
  <2>4. QED
    BY <1>1, <2>1, <2>2, <2>3, NodeStepInv
<1>3. CASE /\ stream' = [stream EXCEPT ![n] = "send"] /\ pinger' = pinger
           /\ toSend' = [toSend EXCEPT ![n] = <<Msg(FALSE, <<n, n>>)>>]
  <2>1. PingpongTypes'
    BY <1>1, <1>3 DEF PingpongInv, PingpongTypes
  <2>2. /\ stream'[n] = "send" /\ toSend'[n] = <<Msg(FALSE, <<n, n>>)>>
        /\ \A m \in PingNodes : m # n => stream'[m] = stream[m] /\ toSend'[m] = toSend[m]
    BY <1>3 DEF PingpongInv, PingpongTypes
  <2>3. Error(n)'
    BY <2>2 DEF Error, Msg
  <2>4. QED
    BY <1>1, <1>3, <2>1, <2>2, <2>3, NodeStepInv
<1>4. QED
  BY <1>2, <1>3 DEF ReadPeers

LEMMA StreamEndsInv == ASSUME PingpongInv, NEW n \in PingNodes, StreamEnds(n) PROVE PingpongInv'
<1>1. /\ stream[n] = "range" /\ (\A q \in Pings : q[1] = n => pinger[q] = "ended")
      /\ stream' = [stream EXCEPT ![n] = "ended"] /\ UNCHANGED <<ping, group, toSend, pinger, answered, stopped, wasStopped>>
  BY DEF StreamEnds, cluster
<1>2. PingpongTypes'
  BY <1>1 DEF PingpongInv, PingpongTypes
<1>3. stream'[n] = "ended" /\ \A m \in PingNodes : m # n => stream'[m] = stream[m]
  BY <1>1 DEF PingpongInv, PingpongTypes
<1>4. ping = "run" => \A q \in Pings : q[1] = n => q \in answered
  BY <1>1 DEF PingpongInv, Recorded
<1>5. QED
  BY <1>1, <1>2, <1>3, <1>4, NodeStepInv

LEMMA PingInv == ASSUME PingpongInv, NEW q \in Pings, Ping(q) PROVE PingpongInv'
<1>1. pinger[q] = "ping" /\ UNCHANGED <<ping, group, stream, toSend, answered, stopped, wasStopped>>
  BY DEF Ping, cluster
<1>2. PICK a \in {"ok", "error"} : pinger' = [pinger EXCEPT ![q] = a]
  BY DEF Ping
<1>3. PingpongTypes' /\ AllAnswered'
  BY <1>1, <1>2 DEF PingpongInv, PingpongTypes, AllAnswered
<1>4. \A r \in Pings : pinger'[r] = "ended" <=> pinger[r] = "ended"
  BY <1>1, <1>2 DEF PingpongInv, PingpongTypes
<1>5. ping' = "run" => Messages' /\ Recorded' /\ NodesDone' /\ AtWork'
  BY <1>1, <1>4 DEF PingpongInv, Messages, Recorded, NodesDone, AtWork, Answer, Error
<1>6. QED
  BY <1>3, <1>5 DEF PingpongInv

LEMMA ForwardInv == ASSUME PingpongInv, NEW q \in Pings, Forward(q) PROVE PingpongInv'
<1> DEFINE n == q[1]
           msgs == IF pinger[q] = "ok" THEN <<Msg(TRUE, q)>> ELSE <<Msg(FALSE, q), Msg(FALSE, q)>>
<1>1. /\ n \in PingNodes /\ stream[n] = "range" /\ UNCHANGED <<ping, group, answered, stopped, wasStopped>>
      /\ pinger' = [pinger EXCEPT ![q] = "ended"] /\ stream' = [stream EXCEPT ![n] = "send"]
      /\ toSend' = [toSend EXCEPT ![n] = msgs]
  BY PingNode DEF Forward, cluster
<1> HIDE DEF n
<1>2. PingpongTypes'
  BY <1>1 DEF PingpongInv, PingpongTypes
<1>3. /\ stream'[n] = "send" /\ toSend'[n] = msgs
      /\ \A m \in PingNodes : m # n => stream'[m] = stream[m] /\ toSend'[m] = toSend[m]
      /\ \A r \in Pings : pinger'[r] = IF r = q THEN "ended" ELSE pinger[r]
  BY <1>1 DEF PingpongInv, PingpongTypes
<1>4. Answer(n, q)' \/ Error(n)'
  <2>1. CASE pinger[q] = "ok"
    BY <1>3, <2>1 DEF Answer
  <2>2. CASE pinger[q] # "ok"
    <3>1. toSend'[n] = <<Msg(FALSE, q), Msg(FALSE, q)>>
      BY <1>3, <2>2
    <3>2. Head(toSend'[n]) = Msg(FALSE, q)
      BY <3>1
    <3>3. QED
      BY <3>2 DEF Error, Msg
  <2>3. QED
    BY <2>1, <2>2
<1>5. \A r \in Pings : r[1] # n => pinger'[r] = pinger[r]
  BY <1>3 DEF n
<1>6. ping = "run" => \A r \in Pings : r[1] = n /\ r # q /\ pinger[r] = "ended" => r \in answered
  BY <1>1 DEF PingpongInv, Recorded
<1>7. pinger'[q] = "ended" /\ q[1] = n
  BY <1>3 DEF n
<1>8. ping = "run" =>
        \A r \in Pings : r[1] = n /\ pinger'[r] = "ended" =>
           r \in answered \/ (stream'[n] = "send" /\ (Answer(n, r)' \/ Error(n)'))
  BY <1>3, <1>4, <1>6
<1>9. QED
  BY <1>1, <1>2, <1>3, <1>4, <1>5, <1>7, <1>8, NodeStepInv

\* Run records an answer, and ends with an error when it receives one.
LEMMA ReceivePingInv == ASSUME PingpongInv, NEW n \in PingNodes, ReceivePing(n) PROVE PingpongInv'
<1>1. /\ ping = "run" /\ stream[n] = "send" /\ UNCHANGED <<group, pinger, stopped, wasStopped>>
      /\ toSend' = [toSend EXCEPT ![n] = Tail(@)]
      /\ \E c \in {"send", "range", "ended"} : stream' = [stream EXCEPT ![n] = c]
  BY DEF ReceivePing, cluster
<1>2. CASE Error(n)
  <2>1. ping' = "error" /\ answered' = answered
    <3>1. ~Head(toSend[n]).ok
      BY <1>2 DEF Error
    <3>2. \E t \in 0..4 : LastTry(t)
      BY DEF LastTry
    <3>3. QED
      BY <3>1, <3>2 DEF ReceivePing
  <2>2. PingpongTypes'
    BY <1>1, <2>1 DEF PingpongInv, PingpongTypes
  <2>3. QED
    BY <2>1, <2>2 DEF PingpongInv, AllAnswered
<1>3. CASE ~Error(n)
  <2>1. PICK q \in Pings : q[1] = n /\ pinger[q] = "ended" /\ toSend[n] = <<Msg(TRUE, q)>>
    BY <1>1, <1>3 DEF PingpongInv, Messages, Answer
  <2>2. Head(toSend[n]) = Msg(TRUE, q) /\ Len(toSend[n]) = 1
    BY <2>1
  <2>3. ping' = ping /\ answered' = answered \cup {q}
    BY <2>2 DEF ReceivePing, Msg
  <2>4. stream' = [stream EXCEPT ![n] = "range"]
    <3>1. ~(Len(toSend[n]) > 1) /\ \E r \in Pings : r[1] = n /\ pinger[r] # "none"
      BY <2>1, <2>2
    <3>2. stream' = [stream EXCEPT ![n] =
            IF Len(toSend[n]) > 1 THEN "send"
            ELSE IF \E r \in Pings : r[1] = n /\ pinger[r] # "none" THEN "range" ELSE "ended"]
      BY DEF ReceivePing
    <3>3. QED
      BY <3>1, <3>2
  <2>5. PingpongTypes' /\ AllAnswered'
    BY <1>1, <2>3, <2>4 DEF PingpongInv, PingpongTypes, AllAnswered
  <2>6. /\ stream'[n] = "range"
        /\ \A m \in PingNodes : m # n => stream'[m] = stream[m] /\ toSend'[m] = toSend[m]
    BY <1>1, <2>4 DEF PingpongInv, PingpongTypes
  <2>7. \A m \in PingNodes : m # n => \A r : (Answer(m, r)' <=> Answer(m, r)) /\ (Error(m)' <=> Error(m))
    BY <2>6 DEF Answer, Error
  <2>8. Messages'
    BY <1>1, <2>6, <2>7 DEF PingpongInv, Messages
  <2>9. \A r \in Pings : r[1] = n /\ pinger[r] = "ended" => r \in answered'
    <3> SUFFICES ASSUME NEW r \in Pings, r[1] = n, pinger[r] = "ended", r \notin answered PROVE r = q
      BY <2>3
    <3>1. Answer(n, r)
      BY <1>1, <1>3 DEF PingpongInv, Recorded
    <3>2. <<Msg(TRUE, r)>> = <<Msg(TRUE, q)>>
      BY <2>1, <3>1 DEF Answer
    <3>3. QED
      BY <3>2 DEF Msg
  <2>10. Recorded'
    BY <1>1, <2>3, <2>6, <2>7, <2>9, PingNode DEF PingpongInv, Recorded
  <2>11. NodesDone' /\ AtWork'
    BY <1>1, <2>3, <2>6, PingNode DEF PingpongInv, NodesDone, AtWork
  <2>12. QED
    BY <2>5, <2>8, <2>10, <2>11 DEF PingpongInv
<1>4. QED
  BY <1>2, <1>3

\* A node stops or starts beside the check.
LEMMA StopStartInv ==
  ASSUME PingpongInv, NEW n \in PingNodes, StopNode(n) \/ StartNode(n)
  PROVE  PingpongInv'
<1>1. /\ UNCHANGED <<ping, group, stream, toSend, pinger, answered>>
      /\ stopped' \subseteq wasStopped' /\ wasStopped \subseteq wasStopped'
  BY DEF StopNode, StartNode, PingpongInv, PingpongTypes
<1>2. PingpongTypes' /\ AllAnswered'
  BY <1>1 DEF PingpongInv, PingpongTypes, AllAnswered
<1>3. ping' = "run" => Messages' /\ Recorded' /\ AtWork'
  BY <1>1 DEF PingpongInv, Messages, Recorded, AtWork, Answer, Error
<1>4. ping' = "run" => NodesDone'
  BY <1>1 DEF PingpongInv, NodesDone
<1>5. QED
  BY <1>2, <1>3, <1>4 DEF PingpongInv

\* Every step of the pingpong check, and of its nodes, keeps its invariant.
LEMMA PingpongNextInv ==
  ASSUME PingpongInv, PingpongNext \/ UNCHANGED pingpong
  PROVE  PingpongInv'
<1>1. CASE PingpongStep
  BY <1>1, NextGroupInv, ReadPeersInv, StreamEndsInv, ReceivePingInv, PingInv, ForwardInv
     DEF PingpongStep, PingNodes
<1>0. CASE \E n \in PingNodes : StopNode(n) \/ StartNode(n)
  BY <1>0, StopStartInv
<1>2. CASE UNCHANGED pingpong
  <2>1. UNCHANGED <<ping, group, stream, toSend, pinger, answered, stopped, wasStopped>>
    BY <1>2 DEF pingpong
  <2>2. PingpongTypes' /\ AllAnswered'
    BY <2>1 DEF PingpongInv, PingpongTypes, AllAnswered
  <2>3. ping' = "run" => Messages' /\ Recorded' /\ NodesDone' /\ AtWork'
    BY <2>1 DEF PingpongInv, Messages, Recorded, NodesDone, AtWork, Answer, Error
  <2>4. QED
    BY <2>2, <2>3 DEF PingpongInv
<1>3. QED
  BY <1>0, <1>1, <1>2 DEF PingpongNext, PingNodes

-----------------------------------------------------------------------------
(* The restart command.                                                     *)

PodRecords == [st : {"up", "terminating", "gone"}, image : {"old", "new"}, before : BOOLEAN]
In(p, q) == \E i \in 1..Len(q) : q[i] = p

RestartTypes ==
  /\ cmd \in {"list", "get", "update", "delete", "nil", "error"}
  /\ withImage \in BOOLEAN
  /\ queue \in Seq(PodNames \cup SetNames)
  /\ sets \in [SetNames -> Seq(PodNames)]
  /\ there \subseteq SetNames
  /\ template \in [SetNames -> {"old", "new"}]
  /\ pod \in [PodNames -> PodRecords]

\* What is in the queue at each place of the command.
Queues ==
  /\ cmd \in {"get", "update"} => withImage
  /\ cmd \in {"get", "delete"} => queue \in Seq(PodNames)
  /\ cmd = "update" => queue # <<>> /\ Head(queue) \in SetNames /\ Tail(queue) \in Seq(PodNames)
  /\ cmd = "nil" => queue = <<>>

\* Without an image: a pod that is no longer in the queue has been deleted by this
\* command, and if it runs, it is another one.
PodsDeleted ==
  ~withImage /\ cmd \in {"delete", "nil"} =>
    \A p \in Range(Listed) : In(p, queue) \/ (pod[p].st = "up" => ~pod[p].before)

\* With one: a pod is still to be looked at, or its StatefulSet is to be handled, or
\* at hand, or it has been deleted or has the new image, and so has the pod unless
\* its deletion is due.
Updated(p) == Owner[p] \in there =>
  /\ template[Owner[p]] = "new"
  /\ strategy[Owner[p]] = "OnDelete" /\ pod[p].st = "up" =>
       pod[p].image = "new" \/ (cmd = "delete" /\ In(p, queue))

Planned(p) ==
  \/ cmd = "get" /\ In(p, queue)
  \/ cmd \in {"get", "update", "delete"} /\ In(p, sets[Owner[p]])
  \/ /\ cmd = "update" /\ Head(queue) = Owner[p]
     /\ Owner[p] \in there /\ strategy[Owner[p]] = "OnDelete" => In(p, Tail(queue))

ImagesUpdated ==
  withImage /\ cmd \in {"get", "update", "delete", "nil"} =>
    \A p \in Range(Listed) : Owner[p] # "none" => Planned(p) \/ Updated(p)

RestartInv == RestartTypes /\ Queues /\ PodsDeleted /\ ImagesUpdated

\* Facts about the queues.
LEMMA TailIn ==
  ASSUME NEW S, NEW q \in Seq(S), q # <<>>
  PROVE  /\ Tail(q) \in Seq(S) /\ Head(q) \in S
         /\ \A p : In(p, q) => p = Head(q) \/ In(p, Tail(q))
<1>1. /\ Tail(q) \in Seq(S) /\ Head(q) = q[1] /\ Head(q) \in S /\ Len(q) \in Nat /\ Len(q) > 0
      /\ Len(Tail(q)) = Len(q) - 1 /\ \A j \in 1..Len(Tail(q)) : Tail(q)[j] = q[j + 1]
  OBVIOUS
<1>2. ASSUME NEW p, NEW j \in 1..Len(q), q[j] = p, p # Head(q) PROVE In(p, Tail(q))
  <2>1. j # 1
    BY <1>1, <1>2
  <2>2. j - 1 \in 1..Len(Tail(q)) /\ Tail(q)[j - 1] = p
    BY <1>1, <1>2, <2>1
  <2>3. QED
    BY <2>2 DEF In
<1>3. QED
  BY <1>1, <1>2 DEF In

LEMMA AppendIn ==
  ASSUME NEW S, NEW q \in Seq(S), NEW x \in S
  PROVE  /\ Append(q, x) \in Seq(S) /\ In(x, Append(q, x))
         /\ \A p : In(p, q) => In(p, Append(q, x))
<1>1. /\ Append(q, x) \in Seq(S) /\ Len(q) \in Nat /\ Len(Append(q, x)) = Len(q) + 1
      /\ Append(q, x)[Len(q) + 1] = x /\ \A j \in 1..Len(q) : Append(q, x)[j] = q[j]
  OBVIOUS
<1>2. QED
  BY <1>1 DEF In

LEMMA ConcatHead ==
  ASSUME NEW S, NEW T, NEW q \in Seq(S), NEW x \in T
  PROVE  /\ <<x>> \o q \in Seq(S \cup T) /\ <<x>> \o q # <<>>
         /\ Head(<<x>> \o q) = x /\ Tail(<<x>> \o q) = q
<1> DEFINE r == <<x>> \o q
<1>1. q \in Seq(S \cup T) /\ <<x>> \in Seq(S \cup T) /\ Len(q) \in Nat
  OBVIOUS
<1>2. /\ r \in Seq(S \cup T) /\ Len(r) = Len(q) + 1
      /\ r[1] = x /\ \A j \in 1..Len(q) : r[j + 1] = q[j]
  BY <1>1, ConcatProperties
<1> HIDE DEF r
<1>3. r # <<>> /\ Head(r) = x
  BY <1>1, <1>2
<1>4. Tail(r) \in Seq(S \cup T) /\ Len(Tail(r)) = Len(q) /\ \A j \in 1..Len(q) : Tail(r)[j] = q[j]
  BY <1>1, <1>2, <1>3
<1>5. Tail(r) = q
  BY <1>1, <1>4, SeqEqual
<1>6. QED
  BY <1>2, <1>3, <1>5 DEF r

LEMMA NotInEmpty == \A p : ~In(p, <<>>)
BY DEF In

\* The listed pods, and the StatefulSet of a pod.
LEMMA ListedPods ==
  /\ \A p \in Range(Listed) : p \in PodNames /\ In(p, Listed)
  /\ \A p \in PodNames : Owner[p] # "none" => Owner[p] \in SetNames
<1>1. \A p \in Range(Listed) : \E j \in 1..Len(Listed) : Listed[j] = p
  BY RestartAssumption DEF Range
<1>2. QED
  BY <1>1, RestartAssumption DEF In, PodNames, SetNames

LEMMA RestartInitInv == RestartInit => RestartInv
<1> SUFFICES ASSUME RestartInit PROVE RestartInv
  OBVIOUS
<1>1. cmd = "list" /\ withImage \in BOOLEAN /\ queue = <<>> /\ sets = NoSets
      /\ there = SetNames /\ template = [s \in SetNames |-> "old"]
      /\ pod = [p \in PodNames |-> [st |-> "up", image |-> "old", before |-> TRUE]]
  BY DEF RestartInit
<1>2. RestartTypes
  <2>1. pod \in [PodNames -> PodRecords]
    BY <1>1 DEF PodRecords
  <2>2. sets \in [SetNames -> Seq(PodNames)] /\ queue \in Seq(PodNames \cup SetNames)
    BY <1>1 DEF NoSets
  <2>3. QED
    BY <1>1, <2>1, <2>2 DEF RestartTypes
<1>3. Queues /\ PodsDeleted /\ ImagesUpdated
  BY <1>1 DEF Queues, PodsDeleted, ImagesUpdated
<1>4. QED
  BY <1>2, <1>3 DEF RestartInv

\* The command ends with an error: nothing is promised.
LEMMA RestartErrorInv ==
  ASSUME RestartInv, RestartTypes', cmd' \in {"error", "list"}
  PROVE  RestartInv'
BY DEF RestartInv, Queues, PodsDeleted, ImagesUpdated

LEMMA GetNodesInv == ASSUME RestartInv, GetNodes PROVE RestartInv'
<1>1. /\ cmd = "list" /\ UNCHANGED <<withImage, sets, there, strategy, template, pod>>
      /\ \/ cmd' = (IF withImage THEN "get" ELSE "delete") /\ queue' = Listed
         \/ cmd' = "error" /\ queue' = queue
  BY DEF GetNodes
<1>2. Listed \in Seq(PodNames) /\ Listed \in Seq(PodNames \cup SetNames)
  BY RestartAssumption DEF PodNames
<1>3. RestartTypes'
  BY <1>1, <1>2 DEF RestartInv, RestartTypes
<1>4. CASE cmd' = "error"
  BY <1>3, <1>4, RestartErrorInv
<1>5. CASE cmd' # "error"
  <2>1. Queues'
    BY <1>1, <1>2, <1>5 DEF Queues
  <2>2. PodsDeleted'
    BY <1>1, <1>5, ListedPods DEF PodsDeleted
  <2>3. ImagesUpdated'
    BY <1>1, <1>5, ListedPods DEF ImagesUpdated, Planned
  <2>4. QED
    BY <1>3, <2>1, <2>2, <2>3 DEF RestartInv
<1>6. QED
  BY <1>4, <1>5

LEMMA GetPodInv == ASSUME RestartInv, GetPod PROVE RestartInv'
<1> DEFINE h == Head(queue)
<1>1. /\ cmd = "get" /\ queue # <<>> /\ UNCHANGED <<withImage, there, strategy, template, pod>>
      /\ \/ /\ queue' = Tail(queue) /\ cmd' = cmd
            /\ sets' = [s \in SetNames |-> IF s = Owner[h] THEN Append(sets[s], h) ELSE sets[s]]
         \/ cmd' = "error" /\ UNCHANGED <<queue, sets>>
  BY DEF GetPod
<1>2. /\ withImage /\ queue \in Seq(PodNames) /\ h \in PodNames /\ Tail(queue) \in Seq(PodNames)
      /\ \A p : In(p, queue) => p = h \/ In(p, Tail(queue))
  BY <1>1, TailIn DEF RestartInv, Queues
<1> HIDE DEF h
<1>3. CASE cmd' = "error"
  <2>1. RestartTypes'
    BY <1>1, <1>3 DEF RestartInv, RestartTypes
  <2>2. QED
    BY <1>3, <2>1, RestartErrorInv
<1>4. CASE cmd' # "error"
  <2>1. /\ queue' = Tail(queue) /\ cmd' = cmd
        /\ sets' = [s \in SetNames |-> IF s = Owner[h] THEN Append(sets[s], h) ELSE sets[s]]
    BY <1>1, <1>4
  <2>2. \A s \in SetNames : sets'[s] \in Seq(PodNames)
    BY <1>2, <2>1, AppendIn DEF RestartInv, RestartTypes
  <2>3. RestartTypes'
    <3>1. queue' \in Seq(PodNames \cup SetNames)
      BY <1>2, <2>1
    <3>2. sets' \in [SetNames -> Seq(PodNames)]
      BY <2>1, <2>2
    <3>3. QED
      BY <1>1, <2>1, <3>1, <3>2 DEF RestartInv, RestartTypes
  <2>4. Queues' /\ PodsDeleted'
    BY <1>1, <1>2, <2>1 DEF Queues, PodsDeleted
  <2>5. ImagesUpdated'
    <3> SUFFICES ASSUME NEW p \in Range(Listed), Owner[p] # "none" PROVE Planned(p)' \/ Updated(p)'
      BY DEF ImagesUpdated
    <3>1. Owner[p] \in SetNames
      BY ListedPods
    <3>2. CASE In(p, queue)
      <4>1. CASE p = h
        <5>1. In(h, sets'[Owner[h]])
          <6> DEFINE t == Owner[h]
          <6>1. t \in SetNames
            BY <3>1, <4>1
          <6>2. sets'[t] = Append(sets[t], h) /\ sets[t] \in Seq(PodNames)
            BY <2>1, <6>1 DEF RestartInv, RestartTypes
          <6>3. QED
            BY <1>2, <6>2, AppendIn
        <5>2. QED
          BY <1>1, <2>1, <4>1, <5>1 DEF Planned
      <4>2. CASE In(p, Tail(queue))
        BY <1>1, <2>1, <4>2 DEF Planned
      <4>3. QED
        BY <1>2, <3>2, <4>1, <4>2
    <3>3. CASE In(p, sets[Owner[p]])
      <4> DEFINE t == Owner[p]
      <4>1. In(p, sets'[t])
        <5>1. t \in SetNames /\ In(p, sets[t])
          BY <3>1, <3>3
        <5>2. sets[t] \in Seq(PodNames) /\ (sets'[t] = Append(sets[t], h) \/ sets'[t] = sets[t])
          BY <2>1, <5>1 DEF RestartInv, RestartTypes
        <5>3. QED
          BY <1>2, <5>1, <5>2, AppendIn
      <4>2. QED
        BY <1>1, <2>1, <4>1 DEF Planned
    <3>4. CASE Updated(p)
      BY <1>1, <2>1, <3>4 DEF Updated
    <3>5. QED
      BY <1>1, <1>2, <3>2, <3>3, <3>4 DEF RestartInv, ImagesUpdated, Planned
  <2>6. QED
    BY <2>3, <2>4, <2>5 DEF RestartInv
<1>5. QED
  BY <1>3, <1>4

LEMMA NextSetInv == ASSUME RestartInv, NextSet PROVE RestartInv'
<1>1. /\ cmd \in {"get", "delete"} /\ queue = <<>> /\ withImage
      /\ UNCHANGED <<withImage, there, strategy, template, pod>>
  BY DEF NextSet, RestartInv, Queues
<1>2. \A p \in Range(Listed) : Owner[p] # "none" =>
        /\ Owner[p] \in SetNames
        /\ In(p, sets[Owner[p]]) \/ Updated(p)
  BY <1>1, NotInEmpty, ListedPods DEF RestartInv, ImagesUpdated, Planned
<1>3. ASSUME NEW p, Updated(p), cmd' # "get" PROVE Updated(p)'
  BY <1>1, <1>3, NotInEmpty DEF Updated
<1>4. CASE sets = NoSets
  <2>1. cmd' = "nil" /\ UNCHANGED <<queue, sets>>
    BY <1>4 DEF NextSet
  <2>2. RestartTypes' /\ Queues' /\ PodsDeleted'
    BY <1>1, <2>1 DEF RestartInv, RestartTypes, Queues, PodsDeleted
  <2>3. \A p \in Range(Listed) : Owner[p] # "none" => Updated(p)
    BY <1>2, <1>4, NotInEmpty DEF NoSets
  <2>4. ImagesUpdated'
    BY <1>3, <2>1, <2>3 DEF ImagesUpdated
  <2>5. QED
    BY <2>2, <2>4 DEF RestartInv
<1>5. CASE cmd' = "error" /\ UNCHANGED <<queue, sets>>
  <2>1. RestartTypes'
    BY <1>1, <1>5 DEF RestartInv, RestartTypes
  <2>2. QED
    BY <1>5, <2>1, RestartErrorInv
<1>6. ASSUME NEW s \in SetNames, cmd' = "update", sets' = [sets EXCEPT ![s] = <<>>],
             queue' = <<s>> \o (IF s \in there /\ strategy[s] = "OnDelete" THEN sets[s] ELSE <<>>)
      PROVE  RestartInv'
  <2> DEFINE q == IF s \in there /\ strategy[s] = "OnDelete" THEN sets[s] ELSE <<>>
  <2>1. q \in Seq(PodNames) /\ (s \in there /\ strategy[s] = "OnDelete" => q = sets[s])
    BY DEF RestartInv, RestartTypes
  <2>2. queue' = <<s>> \o q
    BY <1>6
  <2> HIDE DEF q
  <2>3. /\ queue' \in Seq(PodNames \cup SetNames) /\ queue' # <<>>
        /\ Head(queue') = s /\ Tail(queue') = q
    BY <2>1, <2>2, ConcatHead
  <2>4. /\ sets' \in [SetNames -> Seq(PodNames)]
        /\ \A t \in SetNames : t # s => sets'[t] = sets[t]
    BY <1>6 DEF RestartInv, RestartTypes
  <2>5. RestartTypes'
    BY <1>1, <1>6, <2>3, <2>4 DEF RestartInv, RestartTypes
  <2>6. Queues' /\ PodsDeleted'
    BY <1>1, <1>6, <2>1, <2>3 DEF Queues, PodsDeleted
  <2>7. ImagesUpdated'
    <3> SUFFICES ASSUME NEW p \in Range(Listed), Owner[p] # "none" PROVE Planned(p)' \/ Updated(p)'
      BY DEF ImagesUpdated
    <3>1. CASE Updated(p)
      BY <1>3, <1>6, <3>1
    <3>2. CASE In(p, sets[Owner[p]]) /\ Owner[p] = s
      <4>1. Head(queue') = Owner[p] /\ (Owner[p] \in there /\ strategy[Owner[p]] = "OnDelete" => In(p, Tail(queue')))
        BY <2>1, <2>3, <3>2
      <4>2. QED
        BY <1>1, <1>6, <4>1 DEF Planned
    <3>3. CASE In(p, sets[Owner[p]]) /\ Owner[p] # s
      <4>1. In(p, sets'[Owner[p]])
        BY <1>2, <2>4, <3>3
      <4>2. QED
        BY <1>6, <4>1 DEF Planned
    <3>4. QED
      BY <1>2, <3>1, <3>2, <3>3
  <2>8. QED
    BY <2>5, <2>6, <2>7 DEF RestartInv
<1>7. QED
  BY <1>4, <1>5, <1>6 DEF NextSet

LEMMA UpdateImageInv == ASSUME RestartInv, UpdateImage PROVE RestartInv'
<1> DEFINE s == Head(queue)
<1>1. /\ cmd = "update" /\ UNCHANGED <<withImage, sets, there, strategy, pod>>
      /\ \/ cmd' = "delete" /\ queue' = Tail(queue) /\ SetImage(s, "new")
         \/ /\ cmd' = "error" /\ queue' = queue
            /\ \E t \in {template[s], "new"} : SetImage(s, t)
  BY DEF UpdateImage
<1>2. withImage /\ s \in SetNames /\ Tail(queue) \in Seq(PodNames)
  BY <1>1 DEF RestartInv, Queues
<1> HIDE DEF s
<1>3. template' \in [SetNames -> {"old", "new"}]
  BY <1>1, <1>2 DEF RestartInv, RestartTypes, SetImage
<1>4. CASE cmd' = "error"
  <2>1. RestartTypes'
    BY <1>1, <1>3, <1>4 DEF RestartInv, RestartTypes
  <2>2. QED
    BY <1>4, <2>1, RestartErrorInv
<1>5. CASE cmd' # "error"
  <2>0. /\ cmd' = "delete" /\ queue' = Tail(queue)
        /\ template' = IF s \in there THEN [template EXCEPT ![s] = "new"] ELSE template
    BY <1>1, <1>5 DEF SetImage
  <2>1. /\ cmd' = "delete" /\ queue' = Tail(queue) /\ queue' \in Seq(PodNames)
        /\ queue' \in Seq(PodNames \cup SetNames)
        /\ (s \in there => template'[s] = "new") /\ \A t \in SetNames : t # s => template'[t] = template[t]
    <3>1. queue' \in Seq(PodNames)
      BY <1>2, <2>0
    <3>2. queue' \in Seq(PodNames \cup SetNames)
      BY <3>1
    <3>3. (s \in there => template'[s] = "new") /\ \A t \in SetNames : t # s => template'[t] = template[t]
      BY <1>2, <2>0 DEF RestartInv, RestartTypes
    <3>4. QED
      BY <2>0, <3>1, <3>2, <3>3
  <2>2. RestartTypes'
    BY <1>1, <1>3, <2>1 DEF RestartInv, RestartTypes
  <2>3. Queues' /\ PodsDeleted'
    BY <1>1, <1>2, <2>1 DEF Queues, PodsDeleted
  <2>4. ImagesUpdated'
    <3> SUFFICES ASSUME NEW p \in Range(Listed), Owner[p] # "none" PROVE Planned(p)' \/ Updated(p)'
      BY DEF ImagesUpdated
    <3>1. Owner[p] \in SetNames
      BY ListedPods
    <3>2. CASE In(p, sets[Owner[p]])
      BY <1>1, <2>1, <3>2 DEF Planned
    <3>3. CASE s = Owner[p] /\ (Owner[p] \in there /\ strategy[Owner[p]] = "OnDelete" => In(p, Tail(queue)))
      BY <1>1, <2>1, <3>3 DEF Updated
    <3>4. CASE Updated(p)
      BY <1>1, <2>1, <3>1, <3>4 DEF Updated
    <3>5. QED
      BY <1>1, <1>2, <3>2, <3>3, <3>4 DEF RestartInv, ImagesUpdated, Planned, s
  <2>5. QED
    BY <2>2, <2>3, <2>4 DEF RestartInv
<1>6. QED
  BY <1>4, <1>5

\* A pod whose state is set.
LEMMA PodExcept ==
  ASSUME RestartTypes, NEW p \in PodNames, NEW x \in {"up", "terminating", "gone"}
  PROVE  \E r \in PodRecords : [pod EXCEPT ![p].st = x] = [pod EXCEPT ![p] = r] /\ r.st = x
<1> DEFINE o == pod[p]
<1>1. o \in PodRecords
  BY DEF RestartTypes
<1>2. [pod EXCEPT ![p].st = x] = [pod EXCEPT ![p] = [o EXCEPT !.st = x]]
  OBVIOUS
<1>3. [o EXCEPT !.st = x] \in PodRecords /\ [o EXCEPT !.st = x].st = x
  <2> HIDE DEF o
  <2>1. QED
    BY <1>1 DEF PodRecords
<1>4. QED
  BY <1>2, <1>3

\* A pod ends or comes back: if it runs then, it is a new one with the image of its
\* StatefulSet.
LEMMA PodChangeInv ==
  ASSUME RestartInv, NEW p \in PodNames, NEW r \in PodRecords, pod' = [pod EXCEPT ![p] = r],
         r.st = "up" => ~r.before /\ Owner[p] # "none" /\ r.image = template[Owner[p]],
         UNCHANGED <<cmd, withImage, sets, there, strategy, template, queue>>
  PROVE  RestartInv'
<1>1. \A o \in PodNames : pod'[o] = IF o = p THEN r ELSE pod[o]
  BY DEF RestartInv, RestartTypes
<1>2. RestartTypes'
  <2>1. pod' \in [PodNames -> PodRecords]
    BY DEF RestartInv, RestartTypes
  <2>2. QED
    BY <2>1 DEF RestartInv, RestartTypes
<1>3. Queues'
  BY DEF RestartInv, Queues
<1>4. PodsDeleted'
  BY <1>1, ListedPods DEF RestartInv, PodsDeleted
<1>5. ImagesUpdated'
  <2> SUFFICES ASSUME NEW o \in Range(Listed), Owner[o] # "none", Planned(o) \/ Updated(o)
               PROVE  Planned(o)' \/ Updated(o)'
    BY DEF RestartInv, ImagesUpdated
  <2>1. CASE Planned(o)
    BY <2>1 DEF Planned
  <2>2. CASE Updated(o)
    <3>1. pod'[o] = pod[o] \/ (o = p /\ pod'[o] = r)
      BY <1>1, ListedPods
    <3>2. QED
      BY <2>2, <3>1 DEF Updated
  <2>3. QED
    BY <2>1, <2>2
<1>6. QED
  BY <1>2, <1>3, <1>4, <1>5 DEF RestartInv

LEMMA KubernetesInv ==
  ASSUME RestartInv, NEW p \in PodNames,
         RemovePod(p) \/ RecreatePod(p) \/ RollPod(p) \/ CollectPod(p) \/ PodDies(p)
  PROVE  RestartInv'
<1>1. UNCHANGED <<cmd, withImage, sets, there, strategy, template, queue>>
  BY DEF RemovePod, RecreatePod, RollPod, CollectPod, PodDies
<1>2. CASE RecreatePod(p)
  <2> DEFINE r == [st |-> "up", image |-> template[Owner[p]], before |-> FALSE]
  <2>1. pod' = [pod EXCEPT ![p] = r] /\ Owner[p] # "none"
    BY <1>2 DEF RecreatePod, RestartInv, RestartTypes, SetNames
  <2>2. template[Owner[p]] \in {"old", "new"}
    BY <2>1, ListedPods DEF RestartInv, RestartTypes
  <2>3. r \in PodRecords /\ ~r.before /\ r.image = template[Owner[p]]
    BY <2>2 DEF PodRecords
  <2> HIDE DEF r
  <2>4. QED
    BY <1>1, <2>1, <2>3, PodChangeInv
<1>3. CASE RemovePod(p) \/ RollPod(p) \/ CollectPod(p) \/ PodDies(p)
  <2>1. PICK x \in {"terminating", "gone"} : pod' = [pod EXCEPT ![p].st = x]
    BY <1>3 DEF RemovePod, RollPod, CollectPod, PodDies
  <2>2. PICK r \in PodRecords : [pod EXCEPT ![p].st = x] = [pod EXCEPT ![p] = r] /\ r.st = x
    BY PodExcept, ZenonT(60) DEF RestartInv
  <2>3. QED
    BY <1>1, <2>1, <2>2, PodChangeInv
<1>4. QED
  BY <1>2, <1>3

LEMMA DeletePodInv == ASSUME RestartInv, DeletePod PROVE RestartInv'
<1> DEFINE h == Head(queue)
<1>1. /\ cmd = "delete" /\ queue # <<>> /\ UNCHANGED <<withImage, sets, there, strategy, template>>
      /\ \/ queue' = Tail(queue) /\ cmd' = cmd /\ pod' = [pod EXCEPT ![h].st = "terminating"]
         \/ cmd' = "error" /\ UNCHANGED <<queue, pod>>
  BY DEF DeletePod
<1>2. /\ queue \in Seq(PodNames) /\ h \in PodNames /\ Tail(queue) \in Seq(PodNames)
      /\ \A p : In(p, queue) => p = h \/ In(p, Tail(queue))
  BY <1>1, TailIn DEF RestartInv, Queues
<1> HIDE DEF h
<1>3. CASE cmd' = "error"
  <2>1. RestartTypes'
    BY <1>1, <1>3 DEF RestartInv, RestartTypes
  <2>2. QED
    BY <1>3, <2>1, RestartErrorInv
<1>4. CASE cmd' # "error"
  <2>1. queue' = Tail(queue) /\ cmd' = cmd /\ pod' = [pod EXCEPT ![h].st = "terminating"]
    BY <1>1, <1>4
  <2>2. PICK r \in PodRecords : pod' = [pod EXCEPT ![h] = r] /\ r.st = "terminating"
    BY <1>2, <2>1, PodExcept DEF RestartInv
  <2>3. \A o \in PodNames : pod'[o] = IF o = h THEN r ELSE pod[o]
    BY <2>2 DEF RestartInv, RestartTypes
  <2>4. RestartTypes'
    <3>1. pod' \in [PodNames -> PodRecords]
      BY <2>2 DEF RestartInv, RestartTypes
    <3>2. queue' \in Seq(PodNames \cup SetNames)
      BY <1>2, <2>1
    <3>3. QED
      BY <1>1, <2>1, <3>1, <3>2 DEF RestartInv, RestartTypes
  <2>5. Queues'
    BY <1>1, <1>2, <2>1 DEF Queues
  <2>6. PodsDeleted'
    <3> SUFFICES ASSUME ~withImage, NEW p \in Range(Listed)
                 PROVE  In(p, queue') \/ (pod'[p].st = "up" => ~pod'[p].before)
      BY <1>1 DEF PodsDeleted
    <3>1. In(p, queue) \/ (pod[p].st = "up" => ~pod[p].before)
      BY <1>1 DEF RestartInv, PodsDeleted
    <3>2. QED
      BY <1>2, <2>1, <2>2, <2>3, <3>1, ListedPods
  <2>7. ImagesUpdated'
    <3> SUFFICES ASSUME withImage, NEW p \in Range(Listed), Owner[p] # "none"
                 PROVE  Planned(p)' \/ Updated(p)'
      BY <1>1 DEF ImagesUpdated
    <3>1. In(p, sets[Owner[p]]) \/ Updated(p)
      BY <1>1 DEF RestartInv, ImagesUpdated, Planned
    <3>2. CASE In(p, sets[Owner[p]])
      BY <1>1, <2>1, <3>2 DEF Planned
    <3>3. CASE Updated(p)
      <4>1. CASE p = h
        BY <1>1, <1>2, <2>2, <2>3, <3>3, <4>1 DEF Updated
      <4>2. CASE p # h
        <5>1. pod'[p] = pod[p] /\ (In(p, queue) => In(p, queue'))
          BY <1>2, <2>1, <2>3, <4>2, ListedPods
        <5>2. QED
          BY <1>1, <2>1, <3>3, <5>1 DEF Updated
      <4>3. QED
        BY <4>1, <4>2
    <3>4. QED
      BY <3>1, <3>2, <3>3
  <2>8. QED
    BY <2>4, <2>5, <2>6, <2>7 DEF RestartInv
<1>5. QED
  BY <1>3, <1>4

LEMMA AllDeletedInv == ASSUME RestartInv, AllDeleted PROVE RestartInv'
<1>1. /\ cmd = "delete" /\ queue = <<>> /\ ~withImage /\ cmd' = "nil"
      /\ UNCHANGED <<withImage, queue, sets, there, strategy, template, pod>>
  BY DEF AllDeleted
<1>2. RestartTypes' /\ Queues' /\ PodsDeleted'
  BY <1>1 DEF RestartInv, RestartTypes, Queues, PodsDeleted
<1>3. ImagesUpdated'
  BY <1>1 DEF ImagesUpdated
<1>4. QED
  BY <1>2, <1>3 DEF RestartInv

LEMMA RestartAgainInv == ASSUME RestartInv, RestartAgain PROVE RestartInv'
<1>1. /\ cmd' = "list" /\ queue' = <<>> /\ sets' = NoSets
      /\ pod' = [p \in PodNames |-> [pod[p] EXCEPT !.before = TRUE]]
      /\ UNCHANGED <<withImage, there, strategy, template>>
  BY DEF RestartAgain
<1>2. pod' \in [PodNames -> PodRecords]
  <2>1. ASSUME NEW p \in PodNames PROVE [pod[p] EXCEPT !.before = TRUE] \in PodRecords
    <3> DEFINE o == pod[p]
    <3>1. o \in PodRecords
      BY DEF RestartInv, RestartTypes
    <3> HIDE DEF o
    <3>2. [o EXCEPT !.before = TRUE] \in PodRecords
      BY <3>1 DEF PodRecords
    <3>3. QED
      BY <3>2 DEF o
  <2>2. QED
    BY <1>1, <2>1
<1>3. RestartTypes'
  BY <1>1, <1>2 DEF RestartInv, RestartTypes, NoSets
<1>4. QED
  BY <1>1, <1>3, RestartErrorInv

\* A StatefulSet is deleted: nothing is promised for its pods any more.
LEMMA DeleteSetInv == ASSUME RestartInv, NEW s \in SetNames, DeleteSet(s) PROVE RestartInv'
<1>1. /\ UNCHANGED <<cmd, withImage, queue, sets, strategy, template, pod>>
      /\ there' \subseteq there
  BY DEF DeleteSet
<1>2. RestartTypes' /\ Queues' /\ PodsDeleted'
  BY <1>1 DEF RestartInv, RestartTypes, Queues, PodsDeleted
<1>3. ImagesUpdated'
  BY <1>1 DEF RestartInv, ImagesUpdated, Planned, Updated
<1>4. QED
  BY <1>2, <1>3 DEF RestartInv

\* Every step of the restart command and of Kubernetes keeps the invariant.
LEMMA RestartNextInv ==
  ASSUME RestartInv, RestartNext \/ UNCHANGED restart
  PROVE  RestartInv'
<1>1. CASE RestartStep
  BY <1>1, GetNodesInv, GetPodInv, NextSetInv, UpdateImageInv, DeletePodInv, AllDeletedInv DEF RestartStep
<1>2. CASE RestartAgain
  BY <1>2, RestartAgainInv
<1>3. CASE Kubernetes \/ \E p \in PodNames : PodDies(p)
  BY <1>3, KubernetesInv DEF Kubernetes
<1>4. CASE UNCHANGED restart
  <2>1. UNCHANGED <<cmd, withImage, queue, sets, there, strategy, template, pod>>
    BY <1>4 DEF restart
  <2>2. RestartTypes' /\ Queues' /\ PodsDeleted'
    BY <2>1 DEF RestartInv, RestartTypes, Queues, PodsDeleted
  <2>3. ImagesUpdated'
    BY <2>1 DEF RestartInv, ImagesUpdated, Planned, Updated
  <2>4. QED
    BY <2>2, <2>3 DEF RestartInv
<1>5. CASE \E s \in SetNames : DeleteSet(s)
  BY <1>5, DeleteSetInv
<1>6. QED
  BY <1>1, <1>2, <1>3, <1>4, <1>5 DEF RestartNext

LEMMA RestartGoal == RestartInv => NothingOldLeft
<1> SUFFICES ASSUME RestartInv, cmd = "nil", NEW p \in Targets
             PROVE  /\ ~withImage /\ pod[p].st = "up" => ~pod[p].before
                    /\ withImage /\ Owner[p] \in there =>
                         /\ template[Owner[p]] = "new"
                         /\ strategy[Owner[p]] = "OnDelete" /\ pod[p].st = "up" => pod[p].image = "new"
  BY DEF NothingOldLeft
<1>1. p \in Range(Listed) /\ (withImage => Owner[p] # "none") /\ queue = <<>>
  BY DEF Targets, RestartInv, Queues
<1>2. ~withImage => (pod[p].st = "up" => ~pod[p].before)
  BY <1>1, NotInEmpty DEF RestartInv, PodsDeleted
<1>3. withImage => Updated(p)
  BY <1>1 DEF RestartInv, ImagesUpdated, Planned
<1>4. QED
  BY <1>2, <1>3 DEF Updated

-----------------------------------------------------------------------------
(* Block time: the average over the last blocks lies between two of the      *)
(* times it is an average of.  timestamp is recursive; what holds of every   *)
(* height is shown by the smallest height at which it would not.             *)

\* A set of natural numbers that is not empty has a smallest element.
LEMMA Smallest ==
  ASSUME NEW S \in SUBSET Nat, S # {}
  PROVE  \E m \in S : \A n \in S : m <= n
<1> DEFINE R == {ss \in Nat \X Nat : ss[1] < ss[2]}
<1>1. IsWellFoundedOn(R, Nat)
  BY NatLessThanWellFounded, Zenon DEF OpToRel
<1>2. PICK m \in S : \A n \in S : <<n, m>> \notin R
  <2> HIDE DEF R
  <2>1. QED
    BY <1>1, WFMin
<1>3. \A n \in S : ~(n < m)
  <2> SUFFICES ASSUME NEW n \in S, n < m PROVE FALSE
    OBVIOUS
  <2>1. <<n, m>> \in R
    OBVIOUS
  <2>2. QED
    BY <1>2, <2>1
<1>4. QED
  BY <1>3

\* f is the timestamps of the blocks up to k.
Equation(f, k) == f = [h \in 0..k |-> IF h = 0 THEN 1 ELSE f[h - 1] + gap[h]]

LEMMA EquationSolved == \E f : Equation(f, MaxHeight)
<1> DEFINE S == {k \in Nat : ~ \E f : Equation(f, k)}
<1>1. SUFFICES ASSUME S # {} PROVE FALSE
  BY BlockTimeAssumption
<1>2. PICK m \in S : \A n \in S : m <= n
  BY <1>1, Smallest
<1>3. CASE m = 0
  <2>1. Equation([h \in 0..0 |-> 1], 0)
    BY DEF Equation
  <2>2. QED
    BY <1>3, <2>1
<1>4. CASE m > 0
  <2>1. m - 1 \in Nat /\ m - 1 \notin S
    BY <1>2, <1>4
  <2>2. PICK f : Equation(f, m - 1)
    BY <2>1
  <2> DEFINE g == [h \in 0..m |-> IF h = m THEN f[m - 1] + gap[m] ELSE f[h]]
  <2>3. \A h \in 0..m : g[h] = IF h = 0 THEN 1 ELSE g[h - 1] + gap[h]
    <3> SUFFICES ASSUME NEW h \in 0..m PROVE g[h] = IF h = 0 THEN 1 ELSE g[h - 1] + gap[h]
      OBVIOUS
    <3>1. CASE h = m
      BY <1>4, <3>1
    <3>2. CASE h # m
      BY <1>4, <2>2, <3>2 DEF Equation
    <3>3. QED
      BY <3>1, <3>2
  <2>4. Equation(g, m)
    BY <2>3 DEF Equation
  <2>5. QED
    BY <2>4
<1>5. QED
  BY <1>2, <1>3, <1>4

LEMMA TimestampIs ==
  \A h \in Heights : timestamp[h] = IF h = 0 THEN 1 ELSE timestamp[h - 1] + gap[h]
<1>1. PICK f : Equation(f, MaxHeight)
  BY EquationSolved
<1>2. Equation(timestamp, MaxHeight)
  BY <1>1 DEF timestamp, Equation, Heights
<1>3. QED
  BY <1>2 DEF Equation, Heights

BlockTimeTypes ==
  /\ height \in Heights /\ latest \in 0..height
  /\ gap \in [1..MaxHeight -> Gaps] /\ offset \in Int
  /\ fetch = "previous" => offset \in 0..latest

\* v lies between two of the times between the blocks up to k.
Between(v, k) == \E l \in 1..k, u \in 1..k : gap[l] <= v /\ v <= gap[u]

BlockTimeInv ==
  /\ BlockTimeTypes
  /\ ~short => cache \in Nat
  /\ ~short /\ cache > 0 => Between(cache, height)
  /\ ~short /\ fetch = "ok" /\ calls > 0 => value \in Nat /\ Between(value, height)

LEMMA GapIsNat == ASSUME BlockTimeTypes PROVE \A h \in 1..height : gap[h] \in Nat
<1> SUFFICES ASSUME NEW h \in 1..height PROVE gap[h] \in Nat
  OBVIOUS
<1>1. h \in 1..MaxHeight
  BY BlockTimeAssumption DEF BlockTimeTypes, Heights
<1>2. gap[h] \in Gaps
  BY <1>1 DEF BlockTimeTypes
<1>3. QED
  BY <1>2, BlockTimeAssumption

LEMMA TimestampIsNat == ASSUME BlockTimeTypes PROVE \A h \in 0..height : timestamp[h] \in Nat
<1> DEFINE S == {h \in 0..height : timestamp[h] \notin Nat}
<1>1. height \in Nat /\ \A h \in 0..height : h \in Heights
  BY BlockTimeAssumption DEF BlockTimeTypes, Heights
<1>2. SUFFICES ASSUME S # {} PROVE FALSE
  OBVIOUS
<1>3. PICK m \in S : \A n \in S : m <= n
  <2>1. S \in SUBSET Nat
    BY <1>1
  <2> HIDE DEF S
  <2>2. QED
    BY <1>2, <2>1, Smallest
<1>4. m # 0
  BY <1>1, TimestampIs
<1>5. timestamp[m - 1] \in Nat /\ gap[m] \in Nat
  BY <1>1, <1>3, <1>4, GapIsNat
<1>6. QED
  BY <1>1, <1>4, <1>5, TimestampIs

LEMMA LowSum ==
  ASSUME NEW k \in Nat, k > 0, NEW a \in Nat, NEW g \in Nat, NEW d \in Int, a * k <= d
  PROVE  a <= g => a * (k + 1) <= d + g
OBVIOUS
LEMMA LowSumNew ==
  ASSUME NEW k \in Nat, k > 0, NEW a \in Nat, NEW g \in Nat, NEW d \in Int, a * k <= d
  PROVE  g <= a => g * (k + 1) <= d + g
OBVIOUS
LEMMA HighSum ==
  ASSUME NEW k \in Nat, k > 0, NEW a \in Nat, NEW g \in Nat, NEW d \in Int, d <= a * k
  PROVE  g <= a => d + g <= a * (k + 1)
OBVIOUS
LEMMA HighSumNew ==
  ASSUME NEW k \in Nat, k > 0, NEW a \in Nat, NEW g \in Nat, NEW d \in Int, d <= a * k
  PROVE  a <= g => d + g <= g * (k + 1)
OBVIOUS
LEMMA DivLow ==
  ASSUME NEW a \in Nat, NEW b \in Nat, b > 0, NEW m \in Nat, b * m <= a
  PROVE  m <= a \div b
OBVIOUS
LEMMA DivHigh ==
  ASSUME NEW a \in Nat, NEW b \in Nat, b > 0, NEW m \in Nat, a < b * (m + 1)
  PROVE  a \div b <= m
OBVIOUS

\* The time over k blocks is at least k times one of the times between them,
\* and at most k times another.
LEMMA Average ==
  ASSUME BlockTimeTypes, NEW l \in 1..height, NEW k \in 1..l
  PROVE  /\ \E a \in 1..l : gap[a] * k <= timestamp[l] - timestamp[l - k]
         /\ \E b \in 1..l : timestamp[l] - timestamp[l - k] <= gap[b] * k
<1> DEFINE T(n) == timestamp[l] - timestamp[l - n]
           Low(n) == \E a \in 1..l : gap[a] * n <= T(n)
           High(n) == \E b \in 1..l : T(n) <= gap[b] * n
           S == {n \in 1..l : ~(Low(n) /\ High(n))}
<1>1. height \in Nat /\ l \in Nat /\ l <= height /\ \A h \in 0..height : h \in Heights
  BY BlockTimeAssumption DEF BlockTimeTypes, Heights
<1>2. \A h \in 1..l : gap[h] \in Nat
  BY <1>1, GapIsNat
<1>3. \A h \in 0..l : timestamp[h] \in Nat
  BY <1>1, TimestampIsNat
<1>4. \A h \in 1..l : timestamp[h] = timestamp[h - 1] + gap[h]
  BY <1>1, TimestampIs
<1>5. SUFFICES ASSUME S # {} PROVE FALSE
  OBVIOUS
<1>6. PICK m \in S : \A n \in S : m <= n
  <2>1. S \in SUBSET Nat
    BY <1>1
  <2> HIDE DEF S
  <2>2. QED
    BY <1>5, <2>1, Smallest
<1>7. m \in 1..l
  OBVIOUS
<1>8. CASE m = 1
  <2>1. T(1) = gap[l] /\ gap[l] \in Nat
    BY <1>1, <1>2, <1>3, <1>4
  <2>2. gap[l] * 1 = gap[l]
    BY <2>1
  <2>3. Low(1) /\ High(1)
    BY <1>1, <2>1, <2>2
  <2>4. QED
    BY <1>8, <2>3
<1>9. CASE m > 1
  <2> DEFINE n == m - 1
             g == gap[l - n]
             d == T(n)
  <2>1. n \in 1..l /\ n \in Nat /\ n > 0 /\ l - n \in 1..l /\ (l - n) - 1 = l - m /\ m = n + 1
    BY <1>1, <1>7, <1>9
  <2>2. Low(n) /\ High(n)
    BY <1>6, <2>1
  <2>3. g \in Nat /\ d \in Int
    BY <1>1, <1>2, <1>3, <2>1
  <2>4. T(m) = d + g
    BY <1>1, <1>2, <1>3, <1>4, <1>7, <2>1
  <2>5. Low(m)
    <3>1. PICK a \in 1..l : gap[a] * n <= d
      BY <2>2
    <3>2. gap[a] \in Nat
      BY <1>2
    <3>3. CASE gap[a] <= g
      BY <2>1, <2>3, <2>4, <3>1, <3>2, <3>3, LowSum
    <3>4. CASE g <= gap[a]
      BY <2>1, <2>3, <2>4, <3>1, <3>2, <3>4, LowSumNew
    <3>5. QED
      BY <2>3, <3>2, <3>3, <3>4
  <2>6. High(m)
    <3>1. PICK b \in 1..l : d <= gap[b] * n
      BY <2>2
    <3>2. gap[b] \in Nat
      BY <1>2
    <3>3. CASE g <= gap[b]
      BY <2>1, <2>3, <2>4, <3>1, <3>2, <3>3, HighSum
    <3>4. CASE gap[b] <= g
      BY <2>1, <2>3, <2>4, <3>1, <3>2, <3>4, HighSumNew
    <3>5. QED
      BY <2>3, <3>2, <3>3, <3>4
  <2>7. QED
    BY <1>6, <2>5, <2>6
<1>10. QED
  BY <1>7, <1>8, <1>9

\* What FetchPrevious returns: the quotient, rounded.
LEMMA RoundedBetween ==
  ASSUME BlockTimeTypes, fetch = "previous", offset # 0
  PROVE  LET v == Rounded(timestamp[latest] - timestamp[latest - offset])
         IN  v \in Nat /\ Between(v, height)
<1> DEFINE d == timestamp[latest] - timestamp[latest - offset]
<1>1. height \in Nat /\ latest \in 1..height /\ offset \in 1..latest
  BY BlockTimeAssumption DEF BlockTimeTypes, Heights
<1>2. PICK a \in 1..latest : gap[a] * offset <= d
  BY <1>1, Average
<1>3. PICK b \in 1..latest : d <= gap[b] * offset
  BY <1>1, Average
<1>4. gap[a] \in Nat /\ gap[b] \in Nat /\ a \in 1..height /\ b \in 1..height
  BY <1>1, GapIsNat
<1>5. d \in Int
  BY <1>1, TimestampIsNat
<1> HIDE DEF d
<1>6. 0 <= gap[a] * offset
  BY <1>1, <1>4
<1>7. d \in Nat
  BY <1>1, <1>2, <1>4, <1>5, <1>6
<1> DEFINE n == 2 * d + offset
           c == 2 * offset
<1>8. n \in Nat /\ c \in Nat /\ c > 0
  BY <1>1, <1>7
<1>9. c * gap[a] <= n
  BY <1>1, <1>2, <1>4, <1>7
<1>10. n < c * (gap[b] + 1)
  BY <1>1, <1>3, <1>4, <1>7
<1> HIDE DEF n, c
<1>11. gap[a] <= n \div c /\ n \div c <= gap[b] /\ n \div c \in Nat
  <2>1. gap[a] <= n \div c
    BY <1>4, <1>8, <1>9, DivLow
  <2>2. n \div c <= gap[b]
    BY <1>4, <1>8, <1>10, DivHigh
  <2>3. n \div c \in Int
    BY <1>8
  <2>4. QED
    BY <1>4, <2>1, <2>2, <2>3
<1>12. Rounded(d) = n \div c
  BY DEF Rounded, n, c
<1>13. QED
  BY <1>4, <1>11, <1>12 DEF Between, d

LEMMA BlockTimeInitInv == BlockTimeInit => BlockTimeInv
<1> SUFFICES ASSUME BlockTimeInit PROVE BlockTimeInv
  OBVIOUS
<1>1. BlockTimeTypes
  BY BlockTimeAssumption DEF BlockTimeInit, BlockTimeTypes, Heights
<1>2. QED
  BY <1>1 DEF BlockTimeInit, BlockTimeInv

\* A longer chain has the times between the blocks of the shorter one.
LEMMA BlockInv == ASSUME BlockTimeInv, Block PROVE BlockTimeInv'
<1>1. /\ UNCHANGED <<gap, fetch, calls, offset, latest, cache, value, short>>
      /\ height' = height + 1 /\ height < MaxHeight
  BY DEF Block
<1>2. BlockTimeTypes'
  BY <1>1, BlockTimeAssumption DEF BlockTimeInv, BlockTimeTypes, Heights
<1>3. height \in Nat /\ \A h \in 1..height : h \in 1..height'
  BY <1>1, BlockTimeAssumption DEF BlockTimeInv, BlockTimeTypes, Heights
<1>4. ~short /\ cache > 0 => Between(cache, height)'
  BY <1>1, <1>3 DEF BlockTimeInv, Between
<1>5. ~short /\ fetch = "ok" /\ calls > 0 => value \in Nat /\ Between(value, height)'
  BY <1>1, <1>3 DEF BlockTimeInv, Between
<1>6. QED
  BY <1>1, <1>2, <1>4, <1>5 DEF BlockTimeInv

LEMMA FetchBlockTimeInv ==
  ASSUME BlockTimeInv, NEW o \in Offsets, NEW refresh \in BOOLEAN, FetchBlockTime(o, refresh)
  PROVE  BlockTimeInv'
<1>1. /\ UNCHANGED <<height, gap, cache, short>>
      /\ \/ /\ cache > 0 /\ fetch' = "ok" /\ value' = cache /\ UNCHANGED <<offset, latest>>
         \/ fetch' = "error" /\ UNCHANGED <<offset, latest>>
         \/ fetch' = "previous" /\ latest' = height /\ offset' = Clamp(WithOffset(o), height)
  BY DEF FetchBlockTime
<1>2. height \in Nat /\ o \in Int
  BY BlockTimeAssumption DEF BlockTimeInv, BlockTimeTypes, Heights
<1>3. Clamp(WithOffset(o), height) \in 0..height
  BY <1>2 DEF Clamp, WithOffset
<1>4. BlockTimeTypes'
  BY <1>1, <1>2, <1>3 DEF BlockTimeInv, BlockTimeTypes
<1>5. ~short /\ cache > 0 => Between(cache, height)'
  BY <1>1 DEF BlockTimeInv, Between
<1>6. ~short /\ fetch' = "ok" => value' \in Nat /\ Between(value, height)'
  <2> SUFFICES ASSUME ~short, fetch' = "ok" PROVE value' \in Nat /\ Between(value, height)'
    OBVIOUS
  <2>1. cache > 0 /\ value' = cache /\ height' = height /\ gap' = gap
    BY <1>1
  <2>2. PICK l \in 1..height, u \in 1..height : gap[l] <= cache /\ cache <= gap[u]
    BY <2>1 DEF BlockTimeInv, Between
  <2>3. Between(value, height)'
    BY <2>1, <2>2 DEF Between
  <2>4. cache \in Nat
    BY DEF BlockTimeInv
  <2>5. QED
    BY <2>1, <2>3, <2>4
<1>7. QED
  BY <1>1, <1>4, <1>5, <1>6 DEF BlockTimeInv

LEMMA FetchPreviousInv == ASSUME BlockTimeInv, FetchPrevious PROVE BlockTimeInv'
<1>1. fetch = "previous" /\ UNCHANGED <<height, gap, latest>>
  BY DEF FetchPrevious
<1>2. height \in Nat /\ latest \in Nat /\ offset \in 0..latest
  BY <1>1, BlockTimeAssumption DEF BlockTimeInv, BlockTimeTypes, Heights
<1>3. ASSUME offset' = offset, fetch' # "previous" PROVE BlockTimeTypes'
  BY <1>1, <1>3 DEF BlockTimeInv, BlockTimeTypes
<1>4. CASE offset = 0
  <2>1. fetch' = "ok" /\ short' = TRUE /\ offset' = offset /\ cache' \in Int
    BY <1>4, BlockTimeAssumption DEF FetchPrevious, Returns
  <2>2. QED
    BY <1>3, <2>1 DEF BlockTimeInv
<1>5. CASE offset # 0 /\ fetch' = "error" /\ UNCHANGED <<value, cache, offset, short>>
  <2>1. BlockTimeTypes'
    BY <1>3, <1>5
  <2>2. ~short /\ cache > 0 => Between(cache, height)'
    BY <1>1, <1>5 DEF BlockTimeInv, Between
  <2>3. QED
    BY <1>5, <2>1, <2>2 DEF BlockTimeInv
<1>6. CASE offset # 0 /\ offset' = offset \div 2 /\ UNCHANGED <<fetch, value, cache, short>>
  <2>1. offset' \in 0..latest
    BY <1>2, <1>6
  <2>2. BlockTimeTypes'
    BY <1>1, <2>1 DEF BlockTimeInv, BlockTimeTypes
  <2>3. ~short /\ cache > 0 => Between(cache, height)'
    BY <1>1, <1>6 DEF BlockTimeInv, Between
  <2>4. QED
    BY <1>1, <1>6, <2>2, <2>3 DEF BlockTimeInv
<1>7. CASE offset # 0 /\ UNCHANGED <<offset, short>>
           /\ Returns(Rounded(timestamp[latest] - timestamp[latest - offset]))
  <2> DEFINE v == Rounded(timestamp[latest] - timestamp[latest - offset])
  <2>1. v \in Nat /\ Between(v, height)
    BY <1>1, <1>7, RoundedBetween DEF BlockTimeInv
  <2>2. fetch' = "ok" /\ value' = v /\ cache' = v
    BY <1>7 DEF Returns
  <2> HIDE DEF v
  <2>3. BlockTimeTypes'
    BY <1>3, <1>7, <2>2
  <2>4. Between(value, height)' /\ Between(cache, height)'
    BY <1>1, <2>1, <2>2 DEF Between
  <2>5. QED
    BY <2>1, <2>2, <2>3, <2>4 DEF BlockTimeInv
<1>8. QED
  BY <1>4, <1>5, <1>6, <1>7 DEF FetchPrevious

\* Every step of FetchBlockTime and of the chain keeps the invariant.
LEMMA BlockTimeNextInv ==
  ASSUME BlockTimeInv, BlockTimeNext \/ UNCHANGED blocktime
  PROVE  BlockTimeInv'
<1>1. CASE BlockTimeNext
  BY <1>1, BlockInv, FetchBlockTimeInv, FetchPreviousInv DEF BlockTimeNext, BlockTimeStep
<1>2. CASE UNCHANGED blocktime
  <2>1. UNCHANGED <<height, gap, fetch, calls, offset, latest, cache, value, short>>
    BY <1>2 DEF blocktime
  <2>2. BlockTimeTypes'
    BY <2>1 DEF BlockTimeInv, BlockTimeTypes
  <2>3. QED
    BY <2>1, <2>2 DEF BlockTimeInv, Between
<1>3. QED
  BY <1>1, <1>2

\* Of the times between blocks there is a longest one.
LEMMA LongestGap ==
  ASSUME BlockTimeTypes, height > 0
  PROVE  \E m \in 1..height : \A h \in 1..height : gap[h] <= gap[m]
<1> DEFINE Longest(k) == \E m \in 1..k : \A h \in 1..k : gap[h] <= gap[m]
           S == {k \in 1..height : ~Longest(k)}
<1>1. height \in Nat
  BY BlockTimeAssumption DEF BlockTimeTypes, Heights
<1>2. \A h \in 1..height : gap[h] \in Nat
  BY GapIsNat
<1>3. SUFFICES ASSUME S # {} PROVE FALSE
  BY <1>1
<1>4. PICK k \in S : \A n \in S : k <= n
  <2>1. S \in SUBSET Nat
    BY <1>1
  <2> HIDE DEF S
  <2>2. QED
    BY <1>3, <2>1, Smallest
<1>5. k \in 1..height
  OBVIOUS
<1>6. k # 1
  BY <1>1, <1>2
<1>7. PICK m \in 1..(k - 1) : \A h \in 1..(k - 1) : gap[h] <= gap[m]
  <2> DEFINE n == k - 1
  <2>1. n \in 1..height /\ ~(k <= n)
    BY <1>1, <1>5, <1>6
  <2>2. Longest(n)
    <3> HIDE DEF n, Longest
    <3>1. QED
      BY <1>4, <2>1
  <2>3. QED
    BY <2>2
<1>8. CASE gap[m] <= gap[k]
  <2>1. \A h \in 1..k : gap[h] <= gap[k]
    BY <1>1, <1>2, <1>5, <1>7, <1>8
  <2>2. QED
    BY <1>1, <1>5, <2>1
<1>9. CASE gap[k] <= gap[m]
  <2>1. \A h \in 1..k : gap[h] <= gap[m]
    BY <1>1, <1>2, <1>5, <1>7, <1>9
  <2>2. QED
    BY <1>1, <1>5, <2>1
<1>10. QED
  BY <1>1, <1>2, <1>5, <1>7, <1>8, <1>9

LEMMA BlockTimeGoal == BlockTimeInv => BlockTimeInRange
<1> SUFFICES ASSUME BlockTimeInv, fetch = "ok", calls > 0, ~short
             PROVE  /\ value >= Min({gap[h] : h \in 1..height})
                    /\ value <= Max({gap[h] : h \in 1..height})
  BY DEF BlockTimeInRange
<1> DEFINE G == {gap[h] : h \in 1..height}
<1>1. PICK l \in 1..height, u \in 1..height : gap[l] <= value /\ value <= gap[u]
  BY DEF BlockTimeInv, Between
<1>2. height \in Nat /\ height > 0 /\ BlockTimeTypes /\ value \in Nat
  BY <1>1, BlockTimeAssumption DEF BlockTimeInv, BlockTimeTypes, Heights
<1>3. G \in SUBSET Nat /\ gap[l] \in G /\ gap[u] \in G
  BY <1>2, GapIsNat
<1>4. PICK x \in G : \A y \in G : y <= x
  BY <1>2, LongestGap
<1> HIDE DEF G
<1>5. PICK z \in G : \A y \in G : z <= y
  BY <1>3, Smallest
<1>6. Min(G) \in G /\ \A y \in G : Min(G) <= y
  BY <1>5 DEF Min
<1>7. Max(G) \in G /\ \A y \in G : Max(G) >= y
  BY <1>3, <1>4 DEF Max
<1>8. Min(G) \in Nat /\ Max(G) \in Nat /\ gap[l] \in Nat /\ gap[u] \in Nat
  BY <1>3, <1>6, <1>7
<1>9. value >= Min(G) /\ value <= Max(G)
  BY <1>1, <1>2, <1>3, <1>6, <1>7, <1>8
<1>10. QED
  BY <1>9 DEF G

-----------------------------------------------------------------------------
(* The jobs together.                                                        *)

Inv == LoadInv /\ DurabilityInv /\ PingpongInv /\ RestartInv /\ BlockTimeInv

LEMMA InitInv == Init => Inv
<1> SUFFICES ASSUME Init PROVE Inv
  OBVIOUS
<1>1. SchedulerInit /\ LoadInit /\ DurabilityInit /\ PingpongInit /\ RestartInit /\ BlockTimeInit
  BY DEF Init
<1>2. QED
  BY <1>1, LoadInitInv, DurabilityInitInv, PingpongInitInv, RestartInitInv, BlockTimeInitInv DEF Inv

\* A job leaves the variables of the others alone.
LEMMA NextInv == ASSUME Inv, [Next]_vars PROVE Inv'
<1>1. LoadNext \/ (PeriodicNext /\ UNCHANGED load) \/ UNCHANGED <<scheduler, load>>
  BY DEF Next, Done, LoadJob, PeriodicJob, DurabilityJob, PingpongJob, RestartJob, BlockTimeJob, vars
<1>2. DurabilityStep \/ UNCHANGED durability
  BY DEF Next, Done, LoadJob, PeriodicJob, DurabilityJob, PingpongJob, RestartJob, BlockTimeJob, vars
<1>3. PingpongNext \/ UNCHANGED pingpong
  BY DEF Next, Done, LoadJob, PeriodicJob, DurabilityJob, PingpongJob, RestartJob, BlockTimeJob, vars
<1>4. RestartNext \/ UNCHANGED restart
  BY DEF Next, Done, LoadJob, PeriodicJob, DurabilityJob, PingpongJob, RestartJob, BlockTimeJob, vars
<1>5. BlockTimeNext \/ UNCHANGED blocktime
  BY DEF Next, Done, LoadJob, PeriodicJob, DurabilityJob, PingpongJob, RestartJob, BlockTimeJob, vars
<1>6. LoadInv'
  BY <1>1, LoadNextInv DEF Inv
<1>7. DurabilityInv'
  BY <1>2, DurabilityNextInv DEF Inv
<1>8. PingpongInv'
  BY <1>3, PingpongNextInv DEF Inv
<1>9. RestartInv'
  BY <1>4, RestartNextInv DEF Inv
<1>10. BlockTimeInv'
  BY <1>5, BlockTimeNextInv DEF Inv
<1>11. QED
  BY <1>6, <1>7, <1>8, <1>9, <1>10 DEF Inv

\* The invariant holds in every state of a behaviour of Spec.
THEOREM InvAlways == Spec => []Inv
BY InitInv, NextInv, PTL DEF Spec

\* For any number of nodes, pods, peers and chunks: nil of the pingpong check
\* means that all peers of the nodes that ran answered, nil of restart that nothing
\* of before is left in the StatefulSets that are there,
\* the durability check counts a file once, and the executors return nil only
\* for a task or a duration that has ended.
THEOREM NilMeansDoneHolds == Spec => []NilMeansDone
<1>1. Inv => NilMeansDone
  BY DurabilityGoal, RestartGoal DEF Inv, LoadInv, PingpongInv, NilMeansDone
<1>2. QED
  BY <1>1, InvAlways, PTL

\* For any number of uploaders, downloaders and iterations, whatever content,
\* address and buffer they share: a mismatch the load check reports is one.
THEOREM MismatchIsRealHolds == Spec => []MismatchIsReal
<1>1. Inv => MismatchIsReal
  BY DEF Inv, LoadInv
<1>2. QED
  BY <1>1, InvAlways, PTL

\* For a chain of any height with any times between its blocks: the block time
\* of FetchBlockTime, cached or not, lies between the shortest and the longest.
THEOREM BlockTimeInRangeHolds == Spec => []BlockTimeInRange
<1>1. Inv => BlockTimeInRange
  BY BlockTimeGoal DEF Inv
<1>2. QED
  BY <1>1, InvAlways, PTL

=============================================================================
