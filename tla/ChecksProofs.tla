---------------------------- MODULE ChecksProofs ----------------------------
(* What holds of the checks for every number of nodes, items, rounds and     *)
(* retries: a batch is bought for a cause; a check of money that passes has  *)
(* seen its transactions through, one of AutoTLS a second certificate, and   *)
(* one of content every item that it uploaded where it looks for it.         *)
(*                                                                           *)
(* A check is a script, a sequence of requests put together by loops over    *)
(* nodes and rounds.  An invariant says of the rest of the script that what  *)
(* is to come guards what has been done; it is preserved because the rest    *)
(* only gets shorter, and it holds of a script because it holds of its parts *)
(* and of their concatenation.                                               *)
(*                                                                           *)
(* The last two sections are about the runner that executes the checks and   *)
(* the operator that funds the nodes.                                        *)
EXTENDS Checks, CheckRunner, Operator, FiniteSetTheorems, SequenceTheorems,
        NaturalsInduction, WellFoundedInduction, TLAPS

-----------------------------------------------------------------------------
(* Scripts as sequences.  Requests carry values of many kinds, so that a    *)
(* script is said to be a sequence, but not of what.                        *)

IsSeq(s) == Len(s) \in Nat /\ s = [i \in 1..Len(s) |-> s[i]]

Elements(s) == {s[i] : i \in 1..Len(s)}

LEMMA SeqOfElements == ASSUME NEW s, IsSeq(s) PROVE s \in Seq(Elements(s))
<1>1. Len(s) \in Nat /\ s \in [1..Len(s) -> Elements(s)]
  BY DEF IsSeq, Elements
<1>2. QED
  BY <1>1

LEMMA SeqIsSeq == ASSUME NEW U, NEW s \in Seq(U) PROVE IsSeq(s) /\ \A i \in 1..Len(s) : s[i] \in U
<1>1. Len(s) \in Nat /\ s \in [1..Len(s) -> U]
  BY LenProperties
<1>2. s = [i \in 1..Len(s) |-> s[i]]
  BY <1>1
<1>3. IsSeq(s)
  BY <1>1, <1>2 DEF IsSeq
<1>4. QED
  BY <1>1, <1>3

LEMMA Joined ==
  ASSUME NEW s, NEW t, IsSeq(s), IsSeq(t)
  PROVE  /\ IsSeq(s \o t) /\ Len(s \o t) = Len(s) + Len(t)
         /\ \A i \in 1..Len(s) : (s \o t)[i] = s[i]
         /\ \A i \in 1..Len(t) : (s \o t)[Len(s) + i] = t[i]
<1> DEFINE U == Elements(s) \cup Elements(t)
<1>1. s \in Seq(U) /\ t \in Seq(U)
  <2>1. s \in Seq(Elements(s)) /\ t \in Seq(Elements(t))
    BY SeqOfElements
  <2>2. Seq(Elements(s)) \subseteq Seq(U) /\ Seq(Elements(t)) \subseteq Seq(U)
    OBVIOUS
  <2>3. QED
    BY <2>1, <2>2
<1> HIDE DEF U
<1>2. s \o t \in Seq(U) /\ Len(s \o t) = Len(s) + Len(t)
  BY <1>1
<1>3. /\ \A i \in 1..Len(s) : (s \o t)[i] = s[i]
      /\ \A i \in 1..Len(t) : (s \o t)[Len(s) + i] = t[i]
  BY <1>1
<1>4. IsSeq(s \o t)
  BY <1>2, SeqIsSeq
<1>5. QED
  BY <1>2, <1>3, <1>4

LEMMA Rest ==
  ASSUME NEW s, IsSeq(s), NEW d \in 1..Len(s)
  PROVE  /\ IsSeq(SubSeq(s, d + 1, Len(s))) /\ Len(SubSeq(s, d + 1, Len(s))) = Len(s) - d
         /\ \A i \in 1..(Len(s) - d) : SubSeq(s, d + 1, Len(s))[i] = s[d + i]
<1>1. s \in Seq(Elements(s)) /\ Len(s) \in Nat
  BY SeqOfElements DEF IsSeq
<1> DEFINE t == SubSeq(s, d + 1, Len(s))
<1>2. t \in Seq(Elements(s)) /\ Len(t) = Len(s) - d /\ \A i \in 1..(Len(s) - d) : t[i] = s[d + i]
  BY <1>1
<1>3. IsSeq(t)
  BY <1>2, SeqIsSeq
<1>4. QED
  BY <1>2, <1>3

LEMMA One == ASSUME NEW a PROVE IsSeq(<<a>>) /\ Len(<<a>>) = 1 /\ <<a>>[1] = a
BY DEF IsSeq
LEMMA Two ==
  ASSUME NEW a, NEW b
  PROVE IsSeq(<<a, b>>) /\ Len(<<a, b>>) = 2 /\ <<a, b>>[1] = a /\ <<a, b>>[2] = b
BY DEF IsSeq
LEMMA Three ==
  ASSUME NEW a, NEW b, NEW c
  PROVE /\ IsSeq(<<a, b, c>>) /\ Len(<<a, b, c>>) = 3
        /\ <<a, b, c>>[1] = a /\ <<a, b, c>>[2] = b /\ <<a, b, c>>[3] = c
BY DEF IsSeq
LEMMA Nil == IsSeq(<<>>) /\ Len(<<>>) = 0
BY DEF IsSeq

-----------------------------------------------------------------------------
(* FlattenSeq is a recursive function, whose equation has a solution since  *)
(* there is no smallest length without one; what holds of every prefix holds*)
(* of the whole for the same reason.                                        *)

LEMMA Smallest ==
  ASSUME NEW S \in SUBSET Nat, S # {}
  PROVE  \E m \in S : \A n \in S : m <= n
<1> DEFINE R == {ss \in Nat \X Nat : ss[1] < ss[2]}
<1>1. IsWellFoundedOn(R, Nat)
  BY NatLessThanWellFounded, Zenon DEF OpToRel
<1>2. PICK m \in S : \A n \in S : <<n, m>> \notin R
  <2> HIDE DEF R
  <2>1. QED
    BY <1>1, WFMin
<1>3. \A n \in S : ~(n < m)
  <2> SUFFICES ASSUME NEW n \in S, n < m PROVE FALSE
    OBVIOUS
  <2>1. <<n, m>> \in R
    OBVIOUS
  <2>2. QED
    BY <1>2, <2>1
<1>4. QED
  BY <1>3

Flattens(f, seqs, k) == f = [i \in 1..k |-> IF i = 1 THEN seqs[i] ELSE f[i - 1] \o seqs[i]]

LEMMA FlattensSolved == ASSUME NEW seqs, NEW K \in Nat PROVE \E f : Flattens(f, seqs, K)
<1> DEFINE S == {k \in Nat : ~ \E f : Flattens(f, seqs, k)}
<1>1. SUFFICES ASSUME S # {} PROVE FALSE
  OBVIOUS
<1>2. PICK m \in S : \A n \in S : m <= n
  BY <1>1, Smallest
<1>3. CASE m = 0
  <2>1. Flattens(<<>>, seqs, 0)
    BY DEF Flattens
  <2>2. QED
    BY <1>3, <2>1
<1>4. CASE m > 0
  <2>1. m - 1 \in Nat /\ m - 1 \notin S
    BY <1>2, <1>4
  <2>2. PICK f : Flattens(f, seqs, m - 1)
    BY <2>1
  <2> DEFINE last == IF m = 1 THEN seqs[m] ELSE f[m - 1] \o seqs[m]
             g == [i \in 1..m |-> IF i = m THEN last ELSE f[i]]
  <2>3. ASSUME NEW i \in 1..m PROVE g[i] = IF i = 1 THEN seqs[i] ELSE g[i - 1] \o seqs[i]
    <3>1. CASE i = m
      BY <1>4, <3>1
    <3>2. CASE i # m
      <4>1. i \in 1..(m - 1) /\ g[i] = f[i] /\ (i # 1 => i - 1 \in 1..m /\ i - 1 # m)
        BY <3>2
      <4>2. f[i] = IF i = 1 THEN seqs[i] ELSE f[i - 1] \o seqs[i]
        BY <2>2, <4>1 DEF Flattens
      <4>3. i # 1 => g[i - 1] = f[i - 1]
        BY <4>1
      <4> HIDE DEF g
      <4>4. QED
        BY <4>1, <4>2, <4>3
    <3>3. QED
      BY <3>1, <3>2
  <2>4. Flattens(g, seqs, m)
    BY <2>3 DEF Flattens
  <2>5. QED
    BY <2>4
<1>5. QED
  BY <1>2, <1>3, <1>4

LEMMA FlattenIn ==
  ASSUME NEW U, NEW K \in Nat, NEW seqs, seqs \in [1..K -> Seq(U)], NEW P,
         <<>> \in P[0], \A i \in 1..K : \A s \in P[i - 1] \cap Seq(U) : s \o seqs[i] \in P[i]
  PROVE  FlattenSeq(seqs) \in P[K] \cap Seq(U)
<1>1. seqs \in Seq(Seq(U)) /\ Len(seqs) = K
  OBVIOUS
<1>2. CASE K = 0
  <2>1. seqs = <<>>
    BY <1>1, <1>2
  <2>2. QED
    BY <1>1, <1>2, <2>1 DEF FlattenSeq
<1>3. CASE K > 0
  <2> DEFINE f == CHOOSE f : f = [i \in 1..Len(seqs) |-> IF i = 1 THEN seqs[i] ELSE f[i - 1] \o seqs[i]]
             S == {k \in 1..K : f[k] \notin P[k] \cap Seq(U)}
  <2>1. FlattenSeq(seqs) = f[K]
    BY <1>1, <1>3 DEF FlattenSeq
  <2>2. Flattens(f, seqs, K)
    BY <1>1, FlattensSolved DEF Flattens
  <2> HIDE DEF f
  <2>3. \A i \in 1..K : f[i] = IF i = 1 THEN seqs[i] ELSE f[i - 1] \o seqs[i]
    BY <2>2 DEF Flattens
  <2>4. SUFFICES ASSUME S # {} PROVE FALSE
    BY <1>3, <2>1
  <2>5. PICK m \in S : \A n \in S : m <= n
    <3>1. S \in SUBSET Nat
      OBVIOUS
    <3> HIDE DEF S
    <3>2. QED
      BY <2>4, <3>1, Smallest
  <2>6. CASE m = 1
    <3>1. f[1] = seqs[1] /\ seqs[1] \in Seq(U) /\ seqs[1] = <<>> \o seqs[1]
      BY <1>3, <2>3
    <3>2. <<>> \o seqs[1] \in P[1]
      <4>1. 1 \in 1..K /\ <<>> \in P[1 - 1] \cap Seq(U)
        BY <1>3
      <4>2. QED
        BY <4>1
    <3>3. QED
      BY <2>5, <2>6, <3>1, <3>2
  <2>7. CASE m # 1
    <3>1. m - 1 \in 1..K /\ m - 1 \notin S /\ m \in 1..K
      BY <2>5, <2>7
    <3>2. f[m - 1] \in P[m - 1] \cap Seq(U) /\ f[m] = f[m - 1] \o seqs[m] /\ seqs[m] \in Seq(U)
      BY <2>3, <2>7, <3>1
    <3>3. f[m] \in P[m] /\ f[m] \in Seq(U)
      BY <3>1, <3>2
    <3>4. QED
      BY <2>5, <3>3
  <2>8. QED
    BY <2>6, <2>7
<1>4. QED
  BY <1>2, <1>3

-----------------------------------------------------------------------------
(* The walk through a script.  A purchase is reached from the list that had *)
(* no usable batch, and the polls for it from the purchase, both of the same*)
(* node; no other request leads there.                                      *)

Paying == {"buy", "usable"}

\* the decisions of a request are numbers of requests, and the last try decides
Sound(r) ==
  /\ r.ok \in Nat \cup {Fail} /\ r.no \in Nat \cup {Fail} /\ r.err \in Nat \cup {Fail}
  /\ r.out \in (Nat \cup {Fail}) \ {Retry}
  /\ r.op = "usable" => r.no = Retry /\ r.err = Retry /\ r.max \in Nat \ {0}

\* request t, d requests after r
Entry(r, d, t) ==
  /\ t.op = "buy" =>
        d \notin {r.ok, r.err, r.out} /\ (d = r.no => r.op = "list" /\ r.n = t.n)
  /\ t.op = "usable" =>
        d \notin {r.no, r.err, r.out} /\ (d = r.ok => r.op = "buy" /\ r.n = t.n)

\* the polls t follow their purchase r
Awaited(r, t) == r.ok = 1 /\ t.op = "usable" /\ t.n = r.n

Walk(s) ==
  /\ IsSeq(s)
  /\ \A i \in 1..Len(s) : Sound(s[i])
  /\ \A i, j \in 1..Len(s) : i < j => Entry(s[i], j - i, s[j])
  /\ \A i \in 1..Len(s) : s[i].op = "buy" => i + 1 \in 1..Len(s) /\ Awaited(s[i], s[i + 1])

\* no decision leads further than to the end of s, or to e requests after it
Tight(s, e) ==
  \A i \in 1..Len(s) : \A d \in {s[i].ok, s[i].no, s[i].err, s[i].out} :
    d <= Len(s) + 1 - i \/ d = Len(s) + 1 + e - i

Frugal(s, e) == Walk(s) /\ Tight(s, e) /\ (Len(s) > 0 => s[1].op \notin Paying)

\* what a check may start with
Fresh(s) == Walk(s) /\ (Len(s) > 0 => s[1].op \notin Paying)

\* a request that pays nothing, and one that only goes on to the next
Plain(r) == Sound(r) /\ r.op \notin Paying
Steady(r) == Plain(r) /\ r.ok <= 1 /\ r.no <= 1 /\ r.err <= 1 /\ r.out <= 1

AllPlain(s) == IsSeq(s) /\ \A i \in 1..Len(s) : Plain(s[i])

LEMMA PlainEntry == ASSUME NEW r, NEW d, NEW t, Plain(t) PROVE Entry(r, d, t)
BY DEF Plain, Paying, Entry

LEMMA FarEntry ==
  ASSUME NEW r, NEW d, NEW t, d \notin {r.ok, r.no, r.err, r.out}
  PROVE  Entry(r, d, t)
BY DEF Entry

LEMMA PlainWalk == ASSUME NEW s, AllPlain(s) PROVE Walk(s)
BY PlainEntry DEF AllPlain, Plain, Walk, Paying

LEMMA SteadyFrugal ==
  ASSUME NEW s, IsSeq(s), \A i \in 1..Len(s) : Steady(s[i]), NEW e \in Nat
  PROVE  Frugal(s, e)
<1>1. Walk(s)
  BY PlainWalk DEF Steady, AllPlain
<1>2. Tight(s, e)
  <2> SUFFICES ASSUME NEW i \in 1..Len(s), NEW d \in {s[i].ok, s[i].no, s[i].err, s[i].out}
               PROVE  d <= Len(s) + 1 - i
    BY DEF Tight
  <2>1. d <= 1 /\ d \in Int /\ Len(s) \in Nat
    BY DEF Steady, Plain, Sound, Fail, IsSeq
  <2>2. QED
    BY <2>1
<1>3. QED
  BY <1>1, <1>2 DEF Frugal, Steady, Plain, IsSeq

LEMMA JoinedIndex ==
  ASSUME NEW s, NEW t, IsSeq(s), IsSeq(t), NEW i \in 1..Len(s \o t)
  PROVE  \/ i \in 1..Len(s) /\ (s \o t)[i] = s[i]
         \/ i - Len(s) \in 1..Len(t) /\ (s \o t)[i] = t[i - Len(s)]
<1>1. Len(s) \in Nat /\ Len(t) \in Nat /\ i \in 1..(Len(s) + Len(t))
  BY Joined DEF IsSeq
<1>2. CASE i <= Len(s)
  BY <1>1, <1>2, Joined
<1>3. CASE i > Len(s)
  <2>1. i - Len(s) \in 1..Len(t) /\ Len(s) + (i - Len(s)) = i
    BY <1>1, <1>3
  <2>2. QED
    BY <2>1, Joined
<1>4. QED
  BY <1>1, <1>2, <1>3

\* A walk stays one when it is joined with another, given that the requests of
\* the first lead to no paying request of the second.
LEMMA WalkJoined ==
  ASSUME NEW s, NEW t, Walk(s), Walk(t),
         \A i \in 1..Len(s) : \A j \in 1..Len(t) : Entry(s[i], Len(s) + j - i, t[j])
  PROVE  Walk(s \o t)
<1>1. IsSeq(s) /\ IsSeq(t) /\ IsSeq(s \o t) /\ Len(s) \in Nat /\ Len(t) \in Nat
  BY Joined DEF Walk, IsSeq
<1>2. \A i \in 1..Len(s \o t) : Sound((s \o t)[i])
  BY <1>1, JoinedIndex DEF Walk
<1>3. ASSUME NEW i \in 1..Len(s \o t), NEW j \in 1..Len(s \o t), i < j
      PROVE  Entry((s \o t)[i], j - i, (s \o t)[j])
  <2>1. CASE i \in 1..Len(s) /\ (s \o t)[i] = s[i] /\ j \in 1..Len(s) /\ (s \o t)[j] = s[j]
    BY <1>3, <2>1 DEF Walk
  <2>2. CASE i \in 1..Len(s) /\ (s \o t)[i] = s[i] /\ j - Len(s) \in 1..Len(t) /\ (s \o t)[j] = t[j - Len(s)]
    <3>1. Entry(s[i], Len(s) + (j - Len(s)) - i, t[j - Len(s)])
      BY <2>2
    <3>2. Len(s) + (j - Len(s)) - i = j - i
      BY <1>1, <2>2
    <3>3. QED
      BY <2>2, <3>1, <3>2
  <2>3. CASE i - Len(s) \in 1..Len(t) /\ (s \o t)[i] = t[i - Len(s)]
             /\ j - Len(s) \in 1..Len(t) /\ (s \o t)[j] = t[j - Len(s)]
    <3>1. i - Len(s) < j - Len(s) /\ (j - Len(s)) - (i - Len(s)) = j - i
      BY <1>1, <1>3
    <3>2. Entry(t[i - Len(s)], (j - Len(s)) - (i - Len(s)), t[j - Len(s)])
      BY <2>3, <3>1 DEF Walk
    <3>3. QED
      BY <2>3, <3>1, <3>2
  <2>4. ~(i - Len(s) \in 1..Len(t) /\ j \in 1..Len(s))
    BY <1>1, <1>3
  <2>5. QED
    BY <1>1, <2>1, <2>2, <2>3, <2>4, JoinedIndex
<1>4. ASSUME NEW i \in 1..Len(s \o t), (s \o t)[i].op = "buy"
      PROVE  i + 1 \in 1..Len(s \o t) /\ Awaited((s \o t)[i], (s \o t)[i + 1])
  <2>1. CASE i \in 1..Len(s) /\ (s \o t)[i] = s[i]
    <3>1. i + 1 \in 1..Len(s) /\ Awaited(s[i], s[i + 1])
      BY <1>4, <2>1 DEF Walk
    <3>2. (s \o t)[i + 1] = s[i + 1] /\ i + 1 \in 1..Len(s \o t)
      BY <1>1, <3>1, Joined
    <3>3. QED
      BY <2>1, <3>1, <3>2
  <2>2. CASE i - Len(s) \in 1..Len(t) /\ (s \o t)[i] = t[i - Len(s)]
    <3> DEFINE k == i - Len(s)
    <3>1. k + 1 \in 1..Len(t) /\ Awaited(t[k], t[k + 1])
      BY <1>4, <2>2 DEF Walk
    <3>2. (s \o t)[Len(s) + (k + 1)] = t[k + 1] /\ Len(s \o t) = Len(s) + Len(t)
      BY <1>1, <3>1, Joined
    <3>3. Len(s) + (k + 1) = i + 1 /\ i + 1 \in 1..Len(s \o t)
      BY <1>1, <3>1, <3>2
    <3>4. QED
      BY <2>2, <3>1, <3>2, <3>3
  <2>3. QED
    BY <1>1, <2>1, <2>2, JoinedIndex
<1>5. QED
  BY <1>1, <1>2, <1>3, <1>4 DEF Walk

LEMMA PlainFresh == ASSUME NEW s, AllPlain(s) PROVE Fresh(s)
<1>1. Len(s) \in Nat
  BY DEF AllPlain, IsSeq
<1>2. QED
  BY <1>1, PlainWalk DEF AllPlain, Plain, Fresh

LEMMA FreshThenPlain ==
  ASSUME NEW s, NEW t, Fresh(s), AllPlain(t)
  PROVE  Fresh(s \o t)
<1>1. Walk(s \o t)
  BY WalkJoined, PlainWalk, PlainEntry DEF AllPlain, Fresh
<1>2. /\ IsSeq(s) /\ IsSeq(t) /\ Len(s) \in Nat /\ Len(t) \in Nat
      /\ Len(s \o t) = Len(s) + Len(t)
  BY Joined DEF Fresh, Walk, AllPlain, IsSeq
<1>3. CASE Len(s) > 0
  BY <1>1, <1>2, <1>3, Joined DEF Fresh
<1>4. CASE Len(s) = 0
  <2>1. \A i \in 1..Len(t) : (s \o t)[Len(s) + i] = t[i]
    BY <1>2, Joined
  <2>2. Len(t) > 0 => (s \o t)[1] = t[1] /\ Plain(t[1])
    BY <1>2, <1>4, <2>1 DEF AllPlain
  <2>3. QED
    BY <1>1, <1>2, <1>4, <2>2 DEF Fresh, Plain
<1>5. QED
  BY <1>2, <1>3, <1>4

LEMMA PlainJoined == ASSUME NEW s, NEW t, AllPlain(s), AllPlain(t) PROVE AllPlain(s \o t)
BY Joined, JoinedIndex DEF AllPlain

LEMMA FrugalJoined ==
  ASSUME NEW s, NEW t, NEW e \in Nat, NEW f \in Nat, Frugal(s, f), f = 0 \/ f = Len(t) + e, Frugal(t, e)
  PROVE  Frugal(s \o t, e)
<1>1. /\ IsSeq(s) /\ IsSeq(t) /\ Len(s) \in Nat /\ Len(t) \in Nat
      /\ IsSeq(s \o t) /\ Len(s \o t) = Len(s) + Len(t)
  BY Joined DEF Frugal, Walk, IsSeq
<1>2. Walk(s \o t)
  <2>1. ASSUME NEW i \in 1..Len(s), NEW j \in 1..Len(t)
        PROVE  Entry(s[i], Len(s) + j - i, t[j])
    <3>1. CASE j = 1
      <4>1. Plain(t[1])
        BY <1>1, <3>1 DEF Plain, Frugal, Walk
      <4>2. QED
        BY <3>1, <4>1, PlainEntry
    <3>2. CASE j # 1
      <4>1. ASSUME NEW d \in {s[i].ok, s[i].no, s[i].err, s[i].out} PROVE d # Len(s) + j - i
        <5>1. d <= Len(s) + 1 - i \/ d = Len(s) + 1 + f - i
          BY DEF Frugal, Tight
        <5>2. d \in Int
          <6>1. Sound(s[i])
            BY DEF Frugal, Walk
          <6>2. QED
            BY <6>1 DEF Sound, Fail
        <5>3. QED
          BY <1>1, <3>2, <5>1, <5>2
      <4>2. QED
        BY <4>1, FarEntry
    <3>3. QED
      BY <3>1, <3>2
  <2>2. QED
    BY <2>1, WalkJoined DEF Frugal
<1>3. Tight(s \o t, e)
  <2> SUFFICES ASSUME NEW i \in 1..Len(s \o t),
                      NEW d \in {(s \o t)[i].ok, (s \o t)[i].no, (s \o t)[i].err, (s \o t)[i].out}
               PROVE  d <= Len(s \o t) + 1 - i \/ d = Len(s \o t) + 1 + e - i
    BY DEF Tight
  <2>0. d \in Int
    BY <1>2, SMTT(60) DEF Walk, Sound, Fail
  <2>1. CASE i \in 1..Len(s) /\ (s \o t)[i] = s[i]
    <3>1. d <= Len(s) + 1 - i \/ d = Len(s) + 1 + f - i
      BY <2>1 DEF Frugal, Tight
    <3>2. QED
      BY <1>1, <2>0, <3>1
  <2>2. CASE i - Len(s) \in 1..Len(t) /\ (s \o t)[i] = t[i - Len(s)]
    <3>1. d <= Len(t) + 1 - (i - Len(s)) \/ d = Len(t) + 1 + e - (i - Len(s))
      BY <2>2 DEF Frugal, Tight
    <3>2. QED
      BY <1>1, <2>0, <3>1
  <2>3. QED
    BY <1>1, <2>1, <2>2, JoinedIndex
<1>4. Len(s \o t) > 0 => (s \o t)[1].op \notin Paying
  <2>1. CASE Len(s) > 0
    BY <1>1, <2>1, Joined DEF Frugal
  <2>2. CASE Len(s) = 0
    <3>1. \A i \in 1..Len(t) : (s \o t)[Len(s) + i] = t[i]
      BY <1>1, Joined
    <3>2. Len(t) > 0 => (s \o t)[1] = t[1]
      BY <1>1, <2>2, <3>1
    <3>3. QED
      BY <1>1, <2>2, <3>2 DEF Frugal
  <2>3. QED
    BY <1>1, <2>1, <2>2
<1>5. QED
  BY <1>2, <1>3, <1>4 DEF Frugal

\* The loops.
Together(seqs) == UNION {Elements(seqs[i]) : i \in 1..Len(seqs)}

LEMMA SeqsTogether ==
  ASSUME NEW seqs, IsSeq(seqs), \A i \in 1..Len(seqs) : IsSeq(seqs[i])
  PROVE  seqs \in [1..Len(seqs) -> Seq(Together(seqs))]
<1>1. ASSUME NEW i \in 1..Len(seqs) PROVE seqs[i] \in Seq(Together(seqs))
  <2>1. seqs[i] \in Seq(Elements(seqs[i])) /\ Elements(seqs[i]) \subseteq Together(seqs)
    BY SeqOfElements DEF Together
  <2> HIDE DEF Together
  <2>2. Seq(Elements(seqs[i])) \subseteq Seq(Together(seqs))
    BY <2>1
  <2>3. QED
    BY <2>1, <2>2
<1>2. QED
  BY <1>1 DEF IsSeq

LEMMA FlattenFrugal ==
  ASSUME NEW seqs, IsSeq(seqs), NEW e, e \in [0..Len(seqs) -> Nat],
         \A i \in 1..Len(seqs) : Frugal(seqs[i], e[i]) /\ (e[i - 1] = 0 \/ e[i - 1] = Len(seqs[i]) + e[i])
  PROVE  Frugal(FlattenSeq(seqs), e[Len(seqs)])
<1> DEFINE K == Len(seqs)
           U == Together(seqs)
           P == [k \in 0..K |-> {s \in Seq(U) : Frugal(s, e[k])}]
<1>1. K \in Nat /\ seqs \in [1..K -> Seq(U)]
  BY SeqsTogether DEF Frugal, Walk, IsSeq
<1> HIDE DEF U
<1>2. <<>> \in P[0]
  <2>1. Frugal(<<>>, e[0])
    <3>1. e[0] \in Nat /\ \A i \in 1..Len(<<>>) : Steady(<<>>[i])
      BY <1>1, Nil
    <3>2. QED
      BY <3>1, Nil, SteadyFrugal
  <2>2. QED
    BY <1>1, <2>1
<1>3. ASSUME NEW i \in 1..K, NEW s \in P[i - 1] \cap Seq(U) PROVE s \o seqs[i] \in P[i]
  <2>1. i - 1 \in 0..K /\ i \in 0..K
    BY <1>1
  <2>2. Frugal(s, e[i - 1]) /\ s \in Seq(U) /\ seqs[i] \in Seq(U)
    BY <1>1, <2>1
  <2>3. Frugal(s \o seqs[i], e[i])
    BY <2>1, <2>2, FrugalJoined
  <2>4. s \o seqs[i] \in Seq(U)
    BY <2>2
  <2>5. QED
    BY <2>1, <2>3, <2>4
<1>4. FlattenSeq(seqs) \in P[K] \cap Seq(U)
  <2> HIDE DEF P, K
  <2>1. QED
    BY <1>1, <1>2, <1>3, FlattenIn
<1>5. QED
  BY <1>1, <1>4

LEMMA EachFrugal ==
  ASSUME NEW seqs, IsSeq(seqs), \A i \in 1..Len(seqs) : Frugal(seqs[i], 0)
  PROVE  Frugal(FlattenSeq(seqs), 0)
<1> DEFINE e == [k \in 0..Len(seqs) |-> 0]
<1>1. e \in [0..Len(seqs) -> Nat] /\ Len(seqs) \in Nat
  BY DEF IsSeq
<1>2. \A i \in 1..Len(seqs) : e[i] = 0 /\ e[i - 1] = 0
  BY <1>1
<1>3. e[Len(seqs)] = 0
  BY <1>1
<1> HIDE DEF e
<1>4. QED
  BY <1>1, <1>2, <1>3, FlattenFrugal

LEMMA EachPlain ==
  ASSUME NEW seqs, IsSeq(seqs), \A i \in 1..Len(seqs) : AllPlain(seqs[i])
  PROVE  AllPlain(FlattenSeq(seqs))
<1> DEFINE K == Len(seqs)
           U == Together(seqs)
           A == {s \in Seq(U) : AllPlain(s)}
           P == [k \in 0..K |-> A]
<1>1. K \in Nat /\ seqs \in [1..K -> Seq(U)]
  BY SeqsTogether DEF AllPlain, IsSeq
<1> HIDE DEF U
<1>2. <<>> \in P[0]
  <2>1. AllPlain(<<>>)
    BY Nil DEF AllPlain
  <2>2. QED
    BY <1>1, <2>1
<1>3. ASSUME NEW i \in 1..K, NEW s \in P[i - 1] \cap Seq(U) PROVE s \o seqs[i] \in P[i]
  <2>1. AllPlain(s) /\ s \in Seq(U) /\ seqs[i] \in Seq(U)
    BY <1>1
  <2>2. AllPlain(s \o seqs[i])
    BY <2>1, PlainJoined
  <2>3. s \o seqs[i] \in Seq(U)
    BY <2>1
  <2>4. QED
    BY <1>1, <2>2, <2>3
<1>4. FlattenSeq(seqs) \in P[K] \cap Seq(U)
  <2> HIDE DEF P, K
  <2>1. QED
    BY <1>1, <1>2, <1>3, FlattenIn
<1>5. QED
  BY <1>1, <1>4

LEMMA Listed ==
  ASSUME NEW K \in Nat, NEW t, t = [i \in 1..K |-> t[i]]
  PROVE  IsSeq(t) /\ Len(t) = K
<1>1. t \in Seq({t[i] : i \in 1..K}) /\ Len(t) = K
  OBVIOUS
<1>2. QED
  BY <1>1 DEF IsSeq

IsRequest(r) ==
  r = [op |-> r.op, n |-> r.n, x |-> r.x, ok |-> r.ok, no |-> r.no, err |-> r.err,
       max |-> r.max, out |-> r.out]

\* An error that skips the rest leads to where the rest ends.
LEMMA SkipFrugal ==
  ASSUME NEW s, Frugal(s, 0), \A i \in 1..Len(s) : IsRequest(s[i]), NEW k \in Nat
  PROVE  Frugal(OrSkip(s, k), k) /\ Len(OrSkip(s, k)) = Len(s)
<1> DEFINE t == OrSkip(s, k)
           skip(i, d) == IF d = Fail THEN Len(s) - i + 1 + k ELSE d
<1>1. IsSeq(s) /\ Len(s) \in Nat /\ DOMAIN s = 1..Len(s)
  BY DEF Frugal, Walk, IsSeq
<1>2. t = [i \in 1..Len(s) |-> [s[i] EXCEPT !.no = skip(i, @), !.err = skip(i, @), !.out = skip(i, @)]]
  BY <1>1 DEF OrSkip
<1>3. IsSeq(t) /\ Len(t) = Len(s)
  <2>1. t = [i \in 1..Len(s) |-> t[i]]
    BY <1>2
  <2>2. QED
    BY <1>1, <2>1, Listed
<1>4. ASSUME NEW i \in 1..Len(s)
      PROVE  /\ t[i].op = s[i].op /\ t[i].n = s[i].n /\ t[i].ok = s[i].ok /\ t[i].max = s[i].max
             /\ t[i].no = skip(i, s[i].no) /\ t[i].err = skip(i, s[i].err)
             /\ t[i].out = skip(i, s[i].out)
  <2>1. t[i] = [s[i] EXCEPT !.no = skip(i, @), !.err = skip(i, @), !.out = skip(i, @)]
    BY <1>2
  <2> HIDE DEF t, skip
  <2>2. QED
    BY <2>1 DEF IsRequest
<1> HIDE DEF t
<1>5. ASSUME NEW i \in 1..Len(s)
      PROVE  /\ Sound(t[i]) /\ Sound(s[i]) /\ Len(s) - i + 1 + k \in Nat \ {0}
             /\ \A d \in {t[i].no, t[i].err, t[i].out} :
                  d \in {s[i].no, s[i].err, s[i].out} \/ d = Len(s) - i + 1 + k
  <2>1. Sound(s[i]) /\ Len(s) - i + 1 + k \in Nat \ {0}
    BY <1>1 DEF Frugal, Walk
  <2> DEFINE m == Len(s) - i + 1 + k
  <2>2. /\ t[i].no = IF s[i].no = Fail THEN m ELSE s[i].no
        /\ t[i].err = IF s[i].err = Fail THEN m ELSE s[i].err
        /\ t[i].out = IF s[i].out = Fail THEN m ELSE s[i].out
        /\ m \in Nat \ {0}
    BY <1>4, <2>1
  <2> HIDE DEF m
  <2>3. Sound(t[i])
    BY <1>4, <2>1, <2>2, SMTT(60) DEF Sound, Fail, Retry
  <2>4. \A d \in {t[i].no, t[i].err, t[i].out} : d \in {s[i].no, s[i].err, s[i].out} \/ d = m
    BY <2>2
  <2>5. QED
    BY <2>1, <2>3, <2>4 DEF m
<1>6. ASSUME NEW i \in 1..Len(s), NEW j \in 1..Len(s), i < j
      PROVE  Entry(t[i], j - i, t[j])
  <2>1. Entry(s[i], j - i, s[j])
    BY <1>1, <1>6 DEF Frugal, Walk
  <2>2. j - i # Len(s) - i + 1 + k
    BY <1>1
  <2>3. QED
    BY <1>4, <2>1, <2>2 DEF Entry
<1>7. Walk(t)
  <2>1. ASSUME NEW i \in 1..Len(s), t[i].op = "buy"
        PROVE  i + 1 \in 1..Len(s) /\ Awaited(t[i], t[i + 1])
    <3>1. i + 1 \in 1..Len(s) /\ Awaited(s[i], s[i + 1])
      BY <1>4, <2>1 DEF Frugal, Walk
    <3>2. QED
      BY <1>4, <3>1 DEF Awaited
  <2>2. QED
    BY <1>3, <1>5, <1>6, <2>1 DEF Walk
<1>8. Tight(t, k)
  <2> SUFFICES ASSUME NEW i \in 1..Len(s), NEW d \in {t[i].ok, t[i].no, t[i].err, t[i].out}
               PROVE  d <= Len(s) + 1 - i \/ d = Len(s) + 1 + k - i
    BY <1>3 DEF Tight
  <2>1. d \in {s[i].ok, s[i].no, s[i].err, s[i].out} \/ d = Len(s) - i + 1 + k
    BY <1>4, <1>5
  <2>2. CASE d \in {s[i].ok, s[i].no, s[i].err, s[i].out}
    <3>1. d <= Len(s) + 1 - i \/ d = Len(s) + 1 + 0 - i
      BY <2>2 DEF Frugal, Tight
    <3>2. QED
      BY <1>1, <3>1
  <2>3. QED
    BY <1>1, <2>1, <2>2
<1>9. Len(t) > 0 => t[1].op \notin Paying
  BY <1>1, <1>3, <1>4 DEF Frugal
<1>10. QED
  BY <1>3, <1>7, <1>8, <1>9 DEF Frugal, t

-----------------------------------------------------------------------------
(* The requests and the scripts. *)

LEMMA StepSteady ==
  ASSUME NEW op, op \notin Paying, NEW n, NEW x, NEW k
  PROVE  /\ Steady(Step(op, n, x)) /\ Steady(Retried(k, Step(op, n, x)))
         /\ Steady(Polled(k, Step(op, n, x))) /\ Steady(Ignored(Step(op, n, x)))
         /\ Steady(Denied(Step(op, n, x)))
<1>1. Sound(Step(op, n, x)) /\ Sound(Retried(k, Step(op, n, x))) /\ Sound(Polled(k, Step(op, n, x)))
  BY DEF Paying, Step, Retried, Polled, Sound, Fail, Retry
<1>2. Sound(Ignored(Step(op, n, x))) /\ Sound(Denied(Step(op, n, x)))
  BY DEF Paying, Step, Ignored, Denied, Sound, Fail, Retry
<1>3. QED
  BY <1>1, <1>2 DEF Steady, Plain, Step, Retried, Polled, Ignored, Denied, Fail, Retry

LEMMA BatchFrugal ==
  ASSUME NEW n
  PROVE  /\ Frugal(GetOrCreateMutableBatch(n), 0) /\ Len(GetOrCreateMutableBatch(n)) = 4
         /\ \A i \in 1..4 : IsRequest(GetOrCreateMutableBatch(n)[i])
<1> DEFINE s == GetOrCreateMutableBatch(n)
<1> DEFINE u == <<ChainState(n), PostageBatches(n)>>
           v == CreatePostageBatch(n)
<1>1. /\ IsSeq(u) /\ Len(u) = 2 /\ u[1] = ChainState(n) /\ u[2] = PostageBatches(n)
      /\ IsSeq(v) /\ Len(v) = 2 /\ v[1] = Step("buy", n, 0)
      /\ v[2] = Retried(PollTries, Step("usable", n, 0)) /\ s = u \o v
  BY Two DEF CreatePostageBatch, GetOrCreateMutableBatch
<1> HIDE DEF s, u, v
<1>3. /\ IsSeq(s) /\ Len(s) = 4 /\ s[1] = u[1] /\ s[2] = u[2] /\ s[3] = v[1] /\ s[4] = v[2]
  <2>0. IsSeq(u) /\ IsSeq(v)
    BY <1>1
  <2>1. /\ IsSeq(u \o v) /\ Len(u \o v) = Len(u) + Len(v)
        /\ \A i \in 1..Len(u) : (u \o v)[i] = u[i]
        /\ \A i \in 1..Len(v) : (u \o v)[Len(u) + i] = v[i]
    BY <2>0, Joined
  <2>2. IsSeq(s) /\ Len(s) = 4 /\ (\A i \in 1..2 : s[i] = u[i]) /\ (\A i \in 1..2 : s[2 + i] = v[i])
    BY <1>1, <2>1
  <2>3. s[2 + 1] = v[1] /\ s[2 + 2] = v[2]
    BY <2>2
  <2>4. QED
    BY <2>2, <2>3
<1>2. /\ s[1] = [op |-> "read", n |-> n, x |-> "chain", ok |-> 1, no |-> -1, err |-> -1, max |-> 1, out |-> -1]
      /\ s[2] = [op |-> "list", n |-> n, x |-> 0, ok |-> 3, no |-> 1, err |-> -1, max |-> 1, out |-> -1]
      /\ s[3] = [op |-> "buy", n |-> n, x |-> 0, ok |-> 1, no |-> -1, err |-> -1, max |-> 1, out |-> -1]
      /\ s[4] = [op |-> "usable", n |-> n, x |-> 0, ok |-> 1, no |-> 0, err |-> 0, max |-> PollTries, out |-> -1]
  BY <1>1, <1>3 DEF Step, Retried, Fail, Retry, ChainState, PostageBatches
<1>4. \A i \in 1..4 : i = 1 \/ i = 2 \/ i = 3 \/ i = 4
  OBVIOUS
<1>5. \A i \in 1..4 : IsRequest(s[i])
  BY <1>2, <1>4 DEF IsRequest
<1>6. \A i \in 1..4 : Sound(s[i])
  BY <1>2, <1>4, ClientAssumption DEF Sound, Fail, Retry
<1>7. \A i, j \in 1..4 : i < j => Entry(s[i], j - i, s[j])
  BY <1>2, <1>4 DEF Entry
<1>8. Tight(s, 0)
  BY <1>2, <1>3, <1>4 DEF Tight
<1>9. s[1].op \notin Paying
  BY <1>2 DEF Paying
<1>10. \A i \in 1..4 : s[i].op = "buy" => i + 1 \in 1..4 /\ Awaited(s[i], s[i + 1])
  BY <1>2, <1>4 DEF Awaited
<1>11. Frugal(s, 0)
  BY <1>3, <1>6, <1>7, <1>8, <1>9, <1>10 DEF Frugal, Walk
<1>12. QED
  BY <1>3, <1>5, <1>11 DEF s

LEMMA LoopFrugal ==
  ASSUME NEW K \in Nat, NEW seqs, seqs = [i \in 1..K |-> seqs[i]],
         \A i \in 1..K : Frugal(seqs[i], 0)
  PROVE  Frugal(FlattenSeq(seqs), 0)
BY Listed, EachFrugal

LEMMA LoopPlain ==
  ASSUME NEW K \in Nat, NEW seqs, seqs = [i \in 1..K |-> seqs[i]],
         \A i \in 1..K : AllPlain(seqs[i])
  PROVE  AllPlain(FlattenSeq(seqs))
BY Listed, EachPlain

LEMMA SteadyTuples ==
  ASSUME NEW a, Steady(a)
  PROVE  /\ Frugal(<<a>>, 0) /\ AllPlain(<<a>>)
         /\ \A b : Steady(b) => Frugal(<<a, b>>, 0) /\ AllPlain(<<a, b>>)
         /\ \A b, c : Steady(b) /\ Steady(c) => Frugal(<<a, b, c>>, 0) /\ AllPlain(<<a, b, c>>)
<1>1. \A s : IsSeq(s) /\ (\A i \in 1..Len(s) : Steady(s[i])) => Frugal(s, 0) /\ AllPlain(s)
  BY SteadyFrugal DEF AllPlain, Steady
<1>2. Frugal(<<a>>, 0) /\ AllPlain(<<a>>)
  BY <1>1, One
<1>3. ASSUME NEW b, Steady(b) PROVE Frugal(<<a, b>>, 0) /\ AllPlain(<<a, b>>)
  <2>1. \A i \in 1..Len(<<a, b>>) : i = 1 \/ i = 2
    BY Two
  <2>2. QED
    BY <1>1, <1>3, <2>1, Two
<1>4. ASSUME NEW b, NEW c, Steady(b), Steady(c)
      PROVE  Frugal(<<a, b, c>>, 0) /\ AllPlain(<<a, b, c>>)
  <2>1. \A i \in 1..Len(<<a, b, c>>) : i = 1 \/ i = 2 \/ i = 3
    BY Three
  <2>2. QED
    BY <1>1, <1>4, <2>1, Three
<1>5. QED
  BY <1>2, <1>3, <1>4

\* Parts that lead no further than their ends, one after the other.
LEMMA FrugalThen ==
  ASSUME NEW s, NEW t, Frugal(s, 0), Frugal(t, 0)
  PROVE  Frugal(s \o t, 0)
BY FrugalJoined

LEMMA ListOfSet ==
  ASSUME NEW S, IsFiniteSet(S)
  PROVE  /\ SetToSeq(S) \in Seq(S) /\ IsSeq(SetToSeq(S)) /\ Len(SetToSeq(S)) = Cardinality(S)
         /\ \A i, j \in 1..Cardinality(S) : SetToSeq(S)[i] = SetToSeq(S)[j] => i = j
<1>1. Cardinality(S) \in Nat /\ ExistsBijection(1..Cardinality(S), S)
  BY FS_CardinalityType
<1>2. PICK f \in Bijection(1..Cardinality(S), S) : TRUE
  BY <1>1 DEF ExistsBijection
<1>3. f \in [1..Cardinality(S) -> S] /\ IsInjective(f)
  BY <1>2 DEF Bijection, Injection, IsInjective
<1>4. SetToSeq(S) \in [1..Cardinality(S) -> S] /\ IsInjective(SetToSeq(S))
  BY <1>3 DEF SetToSeq
<1>5. SetToSeq(S) \in Seq(S) /\ Len(SetToSeq(S)) = Cardinality(S)
  BY <1>1, <1>4
<1>6. QED
  BY <1>4, <1>5, SeqIsSeq DEF IsInjective

LEMMA NamesListed ==
  /\ IsFiniteSet(Nodes) /\ IsSeq(NodeNames) /\ IsSeq(FullNodeNames) /\ IsSeq(LightNodeNames)
  /\ UploadNodeCount \in Nat /\ PerNode \in Nat
<1>1. IsFiniteSet(Nodes)
  BY ClientAssumption, FS_Union DEF Nodes
<1>2. QED
  BY <1>1, ClientAssumption, ContentAssumption, ListOfSet, FS_CardinalityType
     DEF NodeNames, FullNodeNames, LightNodeNames

\* The loop over the uploading nodes, and in it the one over their contents.
LEMMA ContentsFrugal ==
  ASSUME NEW asked, asked = [j \in 1..PerNode |-> asked[j]], \A j \in 1..PerNode : Frugal(asked[j], 0)
  PROVE  Frugal(FlattenSeq(asked), 0)
BY NamesListed, LoopFrugal

LEMMA UploadsFrugal ==
  ASSUME NEW parts, parts = [i \in 1..UploadNodeCount |-> parts[i]],
         \A i \in 1..UploadNodeCount : Frugal(parts[i], 0)
  PROVE  Frugal(FlattenSeq(parts), 0)
BY NamesListed, LoopFrugal

LEMMA BatchThen ==
  ASSUME NEW n, NEW s, Frugal(s, 0)
  PROVE  Frugal(GetOrCreateMutableBatch(n) \o s, 0)
BY BatchFrugal, FrugalThen

LEMMA ReplicasFrugal ==
  ASSUME NEW c, IsSeq(c), NEW x
  PROVE  Frugal(Replicas(c, x), 0) /\ Len(Replicas(c, x)) = Len(c)
<1> DEFINE s == Replicas(c, x)
           one(k) == [Ignored(HasChunk(c[k], x)) EXCEPT !.ok = Len(c) - k + 1]
<1>1. Len(c) \in Nat /\ DOMAIN c = 1..Len(c) /\ s = [k \in 1..Len(c) |-> one(k)]
  BY DEF IsSeq, Replicas
<1>2. s = [k \in 1..Len(c) |-> s[k]] /\ \A k \in 1..Len(c) : s[k] = one(k)
  BY <1>1
<1> HIDE DEF s
<1>3. IsSeq(s) /\ Len(s) = Len(c)
  <2> HIDE DEF one
  <2>1. QED
    BY <1>1, <1>2, Listed
<1>4. ASSUME NEW k \in 1..Len(c)
      PROVE  /\ s[k].op = "has" /\ s[k].ok = Len(c) - k + 1
             /\ s[k].no = 1 /\ s[k].err = 1 /\ s[k].out = -1
  <2> DEFINE m == c[k]
             l == Len(c) - k + 1
  <2>1. s[k] = [Ignored(HasChunk(m, x)) EXCEPT !.ok = l]
    BY <1>2
  <2> HIDE DEF m, l
  <2>2. s[k].op = "has" /\ s[k].ok = l /\ s[k].no = 1 /\ s[k].err = 1 /\ s[k].out = -1
    BY <2>1 DEF Ignored, HasChunk, Step, Fail
  <2>3. QED
    BY <2>2 DEF l
<1>5. \A k \in 1..Len(c) : Plain(s[k])
  BY <1>1, <1>4 DEF Plain, Sound, Paying, Retry, Fail
<1>6. Walk(s)
  BY <1>3, <1>5, PlainWalk DEF AllPlain
<1>7. Tight(s, 0)
  BY <1>1, <1>3, <1>4 DEF Tight
<1>8. Len(s) > 0 => s[1].op \notin Paying
  <2> SUFFICES ASSUME Len(s) > 0 PROVE Plain(s[1])
    BY DEF Plain
  <2>1. 1 \in 1..Len(c)
    BY <1>1, <1>3
  <2>2. QED
    BY <1>5, <2>1
<1>9. Frugal(s, 0)
  BY <1>6, <1>7, <1>8 DEF Frugal
<1>10. QED
  BY <1>3, <1>9 DEF s

LEMMA CandidatesListed == ASSUME NEW x, NEW skip PROVE IsSeq(ClosestNodeFromMap(x, skip))
<1> DEFINE left == Nodes \ (skip \cup {near[x]})
<1>1. IsSeq(SetToSeq(left))
  BY ListOfSet, FS_Subset, NamesListed
<1>2. IsSeq(<<near[x]>> \o SetToSeq(left))
  BY <1>1, One, Joined
<1>3. QED
  BY <1>1, <1>2 DEF ClosestNodeFromMap

LEMMA NilFrugal == Frugal(<<>>, 0)
<1>1. \A i \in 1..Len(<<>>) : Steady(<<>>[i])
  BY Nil
<1>2. QED
  BY <1>1, Nil, SteadyFrugal

LEMMA PushsyncFrugal == Frugal(Pushsync, 0)
<1> DEFINE asked(n, x) == <<UploadChunk(n, x), Polled(Retries, HasChunk(near[x], x))>>
           inner(i) == [j \in 1..PerNode |-> asked(NodeNames[i], Item(i, j))]
           body(i) == GetOrCreateMutableBatch(NodeNames[i]) \o FlattenSeq(inner(i))
           all == [i \in 1..UploadNodeCount |-> body(i)]
<1>1. Pushsync = FlattenSeq(all)
  BY DEF Pushsync, ForEach
<1>2. \A n, x : Frugal(asked(n, x), 0)
  BY StepSteady, SteadyTuples DEF UploadChunk, HasChunk, Paying
<1> HIDE DEF asked
<1>3. \A i : Frugal(FlattenSeq(inner(i)), 0)
  BY <1>2, ContentsFrugal
<1> HIDE DEF inner
<1>4. \A i : Frugal(body(i), 0)
  BY <1>3, BatchThen
<1> HIDE DEF body
<1>5. QED
  BY <1>1, <1>4, UploadsFrugal

LEMMA PushsyncChunksFrugal == Frugal(PushsyncChunks, 0)
<1> DEFINE head(n, x) == <<UploadChunk(n, x), HasChunk(near[x], x), Overlay(n)>>
           tail(n, x) == Replicas(ClosestNodeFromMap(x, {near[x], n}), x)
           asked(n, x) == head(n, x) \o tail(n, x)
           inner(i) == [j \in 1..PerNode |-> asked(FullNodeNames[i], Item(i, j))]
           body(i) == GetOrCreateMutableBatch(FullNodeNames[i]) \o FlattenSeq(inner(i))
           all == [i \in 1..UploadNodeCount |-> body(i)]
<1>1. PushsyncChunks = FlattenSeq(all)
  BY DEF PushsyncChunks, ForEach
<1>2. \A n, x : Frugal(head(n, x), 0)
  BY StepSteady, SteadyTuples DEF UploadChunk, HasChunk, Overlay, Paying
<1>3. \A n, x : Frugal(tail(n, x), 0)
  BY CandidatesListed, ReplicasFrugal
<1>4. \A n, x : Frugal(asked(n, x), 0)
  <2> HIDE DEF head, tail
  <2>1. QED
    BY <1>2, <1>3, FrugalThen
<1> HIDE DEF asked
<1>5. \A i : Frugal(FlattenSeq(inner(i)), 0)
  BY <1>4, ContentsFrugal
<1> HIDE DEF inner
<1>6. \A i : Frugal(body(i), 0)
  BY <1>5, BatchThen
<1> HIDE DEF body
<1>7. QED
  BY <1>1, <1>6, UploadsFrugal

LEMMA PullsyncFrugal == ASSUME IsFiniteSet(hood) PROVE Frugal(Pullsync, 0)
<1> DEFINE replicating(x) == SetToSeq(hood \ {near[x]})
           head(n, x) == <<UploadChunk(n, x), Topology(near[x]), Step("read", near[x], "peers")>>
           none(n, x) == IF replicating(x) = <<>> THEN <<Step("giveup", n, x)>> ELSE <<>>
           each(x) == [r \in DOMAIN replicating(x) |-> <<Polled(Retries, HasChunk(replicating(x)[r], x))>>]
           last(n, x) == <<Step("factor", n, x)>>
           asked(n, x) == head(n, x) \o none(n, x) \o FlattenSeq(each(x)) \o last(n, x)
           inner(i) == [j \in 1..PerNode |-> asked(NodeNames[i], Item(i, j))]
           body(i) == GetOrCreateMutableBatch(NodeNames[i]) \o FlattenSeq(inner(i))
           all == [i \in 1..UploadNodeCount |-> body(i)]
<1>1. Pullsync = FlattenSeq(all)
  <2> DEFINE loop(n, x) ==
        LET replicates == SetToSeq(hood \ {near[x]})
        IN  <<UploadChunk(n, x), Topology(near[x]), Step("read", near[x], "peers")>> \o
            (IF replicates = <<>> THEN <<Step("giveup", n, x)>> ELSE <<>>) \o
            ForEach(replicates, LAMBDA r: <<Polled(Retries, HasChunk(r, x))>>) \o
            <<Step("factor", n, x)>>
  <2>1. \A n, x : loop(n, x) = asked(n, x)
    BY DEF ForEach
  <2>2. Pullsync = ForEach([i \in 1..UploadNodeCount |-> i], LAMBDA i:
            GetOrCreateMutableBatch(NodeNames[i]) \o
            ForEach([j \in 1..PerNode |-> Item(i, j)], LAMBDA x: loop(NodeNames[i], x)))
    BY DEF Pullsync
  <2> HIDE DEF loop, asked
  <2>3. QED
    BY <2>1, <2>2 DEF ForEach
<1>2. \A n, x : Frugal(head(n, x), 0) /\ Frugal(last(n, x), 0)
  BY StepSteady, SteadyTuples DEF UploadChunk, Topology, Paying
<1>3. \A n, x : Frugal(none(n, x), 0)
  BY StepSteady, SteadyTuples, NilFrugal DEF Paying
<1>4. ASSUME NEW x PROVE Frugal(FlattenSeq(each(x)), 0)
  <2>1. IsSeq(replicating(x))
    BY ListOfSet, FS_Subset
  <2>2. Len(replicating(x)) \in Nat /\ DOMAIN replicating(x) = 1..Len(replicating(x))
    BY <2>1 DEF IsSeq
  <2>3. \A r \in DOMAIN replicating(x) : Frugal(each(x)[r], 0)
    BY StepSteady, SteadyTuples DEF HasChunk, Paying
  <2> HIDE DEF replicating
  <2>4. each(x) = [r \in 1..Len(replicating(x)) |-> each(x)[r]]
    BY <2>2
  <2> HIDE DEF each
  <2>5. QED
    BY <2>2, <2>3, <2>4, LoopFrugal
<1>5. \A n, x : Frugal(asked(n, x), 0)
  <2> HIDE DEF head, none, each, last
  <2>1. QED
    BY <1>2, <1>3, <1>4, FrugalThen
<1> HIDE DEF asked
<1>6. \A i : Frugal(FlattenSeq(inner(i)), 0)
  BY <1>5, ContentsFrugal
<1> HIDE DEF inner
<1>7. \A i : Frugal(body(i), 0)
  BY <1>6, BatchThen
<1> HIDE DEF body
<1>8. QED
  BY <1>1, <1>7, UploadsFrugal

\* check_lightnode.go: the last candidate must have it.
LEMMA LastReplicaFrugal ==
  ASSUME NEW c, IsSeq(c), NEW x
  PROVE  Frugal([Replicas(c, x) EXCEPT ![Len(Replicas(c, x))].no = Fail,
                                       ![Len(Replicas(c, x))].err = Fail], 0)
<1> DEFINE s == Replicas(c, x)
           t == [s EXCEPT ![Len(s)].no = Fail, ![Len(s)].err = Fail]
           one(k) == [Ignored(HasChunk(c[k], x)) EXCEPT !.ok = Len(c) - k + 1]
<1>1. Len(c) \in Nat /\ DOMAIN c = 1..Len(c) /\ s = [k \in 1..Len(c) |-> one(k)]
  BY DEF IsSeq, Replicas
<1>2. Len(s) = Len(c)
  BY ReplicasFrugal
<1>3. t = [k \in 1..Len(c) |-> t[k]] /\ \A k \in 1..Len(c) :
          t[k] = IF k = Len(c) THEN [one(k) EXCEPT !.no = Fail, !.err = Fail] ELSE one(k)
  <2> HIDE DEF one
  <2>1. t = [s EXCEPT ![Len(c)].no = Fail, ![Len(c)].err = Fail]
    BY <1>2
  <2> HIDE DEF s
  <2>2. QED
    BY <1>1, <2>1
<1> HIDE DEF t
<1>4. IsSeq(t) /\ Len(t) = Len(c)
  <2>1. Len(c) \in Nat /\ t = [k \in 1..Len(c) |-> t[k]]
    BY <1>1, <1>3
  <2>2. QED
    BY <2>1, Listed
<1>5. ASSUME NEW k \in 1..Len(c)
      PROVE  /\ t[k].op = "has" /\ t[k].ok = Len(c) - k + 1
             /\ t[k].no \in {1, -1} /\ t[k].err \in {1, -1} /\ t[k].out = -1
  <2> DEFINE m == c[k]
             l == Len(c) - k + 1
             w == [Ignored(HasChunk(m, x)) EXCEPT !.ok = l]
  <2>1. t[k] = w \/ t[k] = [w EXCEPT !.no = Fail, !.err = Fail]
    BY <1>3
  <2> HIDE DEF m, l
  <2>2. CASE t[k] = w
    BY <2>2 DEF Ignored, HasChunk, Step, Fail, l
  <2>3. CASE t[k] = [w EXCEPT !.no = Fail, !.err = Fail]
    <3>1. w.op = "has" /\ w.ok = l /\ w.out = -1 /\ {"no", "err", "ok", "op", "out"} \subseteq DOMAIN w
      BY DEF Ignored, HasChunk, Step, Fail
    <3>2. t[k].op = w.op /\ t[k].ok = w.ok /\ t[k].out = w.out
      BY <2>3 DEF Ignored, HasChunk, Step
    <3>3. t[k].no = -1 /\ t[k].err = -1
      BY <2>3 DEF Ignored, HasChunk, Step, Fail
    <3>4. QED
      BY <3>1, <3>2, <3>3 DEF l
  <2>4. QED
    BY <2>1, <2>2, <2>3
<1>6. ASSUME NEW k \in 1..Len(c) PROVE Plain(t[k])
  <2>1. Len(c) - k + 1 \in Nat
    BY <1>1
  <2>2. QED
    BY <1>5, <2>1 DEF Plain, Sound, Paying, Retry, Fail
<1>7. Walk(t)
  BY <1>4, <1>6, PlainWalk DEF AllPlain
<1>8. Tight(t, 0)
  <2> SUFFICES ASSUME NEW k \in 1..Len(c), NEW d \in {t[k].ok, t[k].no, t[k].err, t[k].out}
               PROVE  d <= Len(c) + 1 - k
    BY <1>4 DEF Tight
  <2>1. d = Len(c) - k + 1 \/ d = 1 \/ d = -1
    BY <1>5
  <2>2. QED
    BY <1>1, <2>1
<1>9. Len(t) > 0 => t[1].op \notin Paying
  <2> SUFFICES ASSUME Len(t) > 0 PROVE Plain(t[1])
    BY DEF Plain
  <2>1. 1 \in 1..Len(c)
    BY <1>1, <1>4
  <2>2. QED
    BY <1>6, <2>1
<1>10. Frugal(t, 0)
  BY <1>7, <1>8, <1>9 DEF Frugal
<1>11. QED
  BY <1>10 DEF t

LEMMA NamesFrugal ==
  ASSUME NEW names, IsSeq(names), NEW parts, parts = [i \in DOMAIN names |-> parts[i]],
         \A i \in DOMAIN names : Frugal(parts[i], 0)
  PROVE  Frugal(FlattenSeq(parts), 0)
<1>1. Len(names) \in Nat /\ DOMAIN names = 1..Len(names)
  BY DEF IsSeq
<1>2. QED
  BY <1>1, LoopFrugal

LEMMA LightUploadsNat == LightUploads \in Nat /\ LightUploads <= UploadNodeCount
BY NamesListed DEF LightUploads, IsSeq

LEMMA PushsyncLightFrugal == Frugal(PushsyncLight, 0)
<1> DEFINE cands(x) == ClosestNodeFromMap(x, {near[x]})
           tail(x) == [Replicas(cands(x), x) EXCEPT ![Len(Replicas(cands(x), x))].no = Fail,
                                                    ![Len(Replicas(cands(x), x))].err = Fail]
           head(n, x) == <<Retried(3, UploadChunk(n, x)), Retried(3, HasChunk(near[x], x))>>
           asked(n, x) == head(n, x) \o tail(x)
           inner(i) == [j \in 1..PerNode |-> asked(LightNodeNames[i], Item(i, j))]
           body(i) == GetOrCreateMutableBatch(LightNodeNames[i]) \o FlattenSeq(inner(i))
           first == [i \in DOMAIN LightNodeNames |-> GetOrCreateMutableBatch(LightNodeNames[i])]
           all == [i \in 1..LightUploads |-> body(i)]
<1>1. PushsyncLight = FlattenSeq(first) \o FlattenSeq(all)
  <2> DEFINE loop(n, x) ==
        <<Retried(3, UploadChunk(n, x)), Retried(3, HasChunk(near[x], x))>> \o
        LET replicas == Replicas(ClosestNodeFromMap(x, {near[x]}), x)
        IN  [replicas EXCEPT ![Len(replicas)].no = Fail, ![Len(replicas)].err = Fail]
  <2>1. \A n, x : loop(n, x) = asked(n, x)
    OBVIOUS
  <2>2. PushsyncLight = ForEach(LightNodeNames, GetOrCreateMutableBatch) \o
          ForEach([i \in 1..LightUploads |-> i], LAMBDA i:
            GetOrCreateMutableBatch(LightNodeNames[i]) \o
            ForEach([j \in 1..PerNode |-> Item(i, j)], LAMBDA x: loop(LightNodeNames[i], x)))
    BY DEF PushsyncLight
  <2> HIDE DEF loop, asked
  <2>3. QED
    BY <2>1, <2>2 DEF ForEach
<1>2. \A n, x : Frugal(head(n, x), 0)
  BY StepSteady, SteadyTuples DEF UploadChunk, HasChunk, Paying
<1>3. \A x : Frugal(tail(x), 0)
  BY CandidatesListed, LastReplicaFrugal
<1> HIDE DEF head, tail
<1>4. \A n, x : Frugal(asked(n, x), 0)
  BY <1>2, <1>3, FrugalThen
<1> HIDE DEF asked
<1>5. \A i : Frugal(FlattenSeq(inner(i)), 0)
  BY <1>4, ContentsFrugal
<1> HIDE DEF inner
<1>6. \A i : Frugal(body(i), 0)
  BY <1>5, BatchThen
<1> HIDE DEF body
<1>7. Frugal(FlattenSeq(first), 0)
  BY NamesListed, NamesFrugal, BatchFrugal
<1>9. Frugal(FlattenSeq(all), 0)
  BY <1>6, LightUploadsNat, LoopFrugal
<1> HIDE DEF first, all
<1>8. QED
  BY <1>1, <1>7, <1>9, FrugalThen

LEMMA RetrievalFrugal == Frugal(Retrieval, 0)
<1> DEFINE up(i) == FullNodeNames[i]
           down(i) == FullNodeNames[(i % Len(FullNodeNames)) + 1]
           asked(i, x) == <<UploadChunk(up(i), x), DownloadChunk(down(i), x)>>
           inner(i) == [j \in 1..PerNode |-> asked(i, Item(i, j))]
           body(i) == GetOrCreateMutableBatch(up(i)) \o FlattenSeq(inner(i))
           all == [i \in 1..UploadNodeCount |-> body(i)]
<1>1. Retrieval = FlattenSeq(all)
  BY DEF Retrieval, ForEach
<1>2. \A i, x : Frugal(asked(i, x), 0)
  BY StepSteady, SteadyTuples DEF UploadChunk, DownloadChunk, Paying
<1> HIDE DEF asked
<1>3. \A i : Frugal(FlattenSeq(inner(i)), 0)
  BY <1>2, ContentsFrugal
<1> HIDE DEF inner
<1>4. \A i : Frugal(body(i), 0)
  BY <1>3, BatchThen
<1> HIDE DEF body
<1>5. QED
  BY <1>1, <1>4, UploadsFrugal

LEMMA FileRetrievalFrugal == Frugal(FileRetrieval, 0)
<1> DEFINE asked(n, x) == <<UploadFile(n, x), DownloadFile(Last(NodeNames), x)>>
           inner(i) == [j \in 1..PerNode |-> GetOrCreateMutableBatch(NodeNames[i]) \o asked(NodeNames[i], Item(i, j))]
           all == [i \in 1..UploadNodeCount |-> FlattenSeq(inner(i))]
<1>1. FileRetrieval = FlattenSeq(all)
  BY DEF FileRetrieval, ForEach
<1>2. \A n, x : Frugal(asked(n, x), 0)
  BY StepSteady, SteadyTuples DEF UploadFile, DownloadFile, Paying
<1> HIDE DEF asked
<1>3. \A i : Frugal(FlattenSeq(inner(i)), 0)
  BY <1>2, ContentsFrugal, BatchThen
<1> HIDE DEF inner
<1>4. QED
  BY <1>1, <1>3, UploadsFrugal

LEMMA FileRetrievalFullFrugal == Frugal(FileRetrievalFull, 0)
<1> DEFINE rests(n) == SetToSeq(Nodes \ {n})
           each(n, x) == [c \in DOMAIN rests(n) |-> <<DownloadFile(rests(n)[c], x)>>]
           asked(n, x) == GetOrCreateMutableBatch(n) \o <<UploadFile(n, x)>> \o FlattenSeq(each(n, x))
           inner(i) == [j \in 1..PerNode |-> asked(NodeNames[i], Item(i, j))]
           all == [i \in 1..UploadNodeCount |-> FlattenSeq(inner(i))]
<1>1. FileRetrievalFull = FlattenSeq(all)
  BY DEF FileRetrievalFull, ForEach
<1>2. \A n, x : Frugal(<<UploadFile(n, x)>>, 0)
  BY StepSteady, SteadyTuples DEF UploadFile, Paying
<1>3. ASSUME NEW n, NEW x PROVE Frugal(FlattenSeq(each(n, x)), 0)
  <2>1. IsSeq(rests(n))
    BY ListOfSet, FS_Subset, NamesListed
  <2>2. \A c \in DOMAIN rests(n) : Frugal(<<DownloadFile(rests(n)[c], x)>>, 0)
    BY StepSteady, SteadyTuples DEF DownloadFile, Paying
  <2> HIDE DEF rests
  <2>3. QED
    BY <2>1, <2>2, NamesFrugal
<1> HIDE DEF each
<1>4. \A n, x : Frugal(asked(n, x), 0)
  BY <1>2, <1>3, BatchFrugal, FrugalThen
<1> HIDE DEF asked
<1>5. \A i : Frugal(FlattenSeq(inner(i)), 0)
  BY <1>4, ContentsFrugal
<1> HIDE DEF inner
<1>6. QED
  BY <1>1, <1>5, UploadsFrugal


LEMMA DirectSteady ==
  ASSUME NEW op, NEW n, NEW x
  PROVE  Steady(Direct(Step(op, n, x))) /\ Steady(Ignored(Direct(Step(op, n, x))))
BY DEF Direct, Ignored, Step, Steady, Plain, Sound, Paying, Fail, Retry

LEMMA FourSteady ==
  ASSUME NEW a, NEW b, NEW c, NEW d, Steady(a), Steady(b), Steady(c), Steady(d)
  PROVE  Frugal(<<a, b, c, d>>, 0)
<1> DEFINE s == <<a, b, c, d>>
<1>1. IsSeq(s) /\ Len(s) = 4 /\ s[1] = a /\ s[2] = b /\ s[3] = c /\ s[4] = d
  BY DEF IsSeq
<1> HIDE DEF s
<1>2. \A i \in 1..4 : i = 1 \/ i = 2 \/ i = 3 \/ i = 4
  OBVIOUS
<1>3. \A i \in 1..Len(s) : Steady(s[i])
  BY <1>1, <1>2
<1>4. Frugal(s, 0)
  BY <1>1, <1>3, SteadyFrugal
<1>5. QED
  BY <1>4 DEF s

LEMMA SocFrugal == Frugal(Soc, 0)
<1>1. Frugal(<<UploadSOC(1, 1), DownloadChunk(1, 1)>>, 0)
  BY StepSteady, SteadyTuples DEF UploadSOC, DownloadChunk, Paying
<1>2. QED
  BY <1>1, BatchThen DEF Soc

LEMMA RedundancyFrugal == ASSUME IsFiniteSet(Items) PROVE Frugal(Redundancy, 0)
<1> DEFINE asked(level) == <<Direct(UploadChunk(1, level)), DownloadBytes(2, level),
                             Step("short", 1, level), Denied(Step("refused", 2, level))>>
           all == [level \in 1..Cardinality(Items) |-> GetOrCreateMutableBatch(1) \o asked(level)]
<1>1. Redundancy = FlattenSeq(all)
  BY DEF Redundancy, ForEach
<1>2. \A level : Frugal(asked(level), 0)
  BY StepSteady, DirectSteady, FourSteady DEF UploadChunk, DownloadBytes, Paying
<1> HIDE DEF asked
<1>3. \A i \in 1..Cardinality(Items) : Frugal(all[i], 0)
  BY <1>2, BatchThen
<1>4. Cardinality(Items) \in Nat /\ all = [i \in 1..Cardinality(Items) |-> all[i]]
  BY FS_CardinalityType
<1> HIDE DEF all
<1>5. QED
  BY <1>1, <1>3, <1>4, LoopFrugal

\* The loop over the two versions of the collection.
LEMMA VersionsFrugal ==
  ASSUME NEW parts, parts = [i \in DOMAIN <<3, 4>> |-> parts[i]],
         \A i \in DOMAIN <<3, 4>> : Frugal(parts[i], 0)
  PROVE  Frugal(FlattenSeq(parts), 0)
BY Two, NamesFrugal

LEMMA WithoutSubDirsFrugal == Frugal(CheckWithoutSubDirs, 0)
<1>1. Frugal(<<UploadCollection(1, 1), DownloadAndVerify(2, 1)>>, 0)
  BY StepSteady, SteadyTuples DEF UploadCollection, DownloadAndVerify, DownloadManifestFile, Paying
<1>2. QED
  BY <1>1, BatchThen DEF CheckWithoutSubDirs

LEMMA ManifestFrugal == Frugal(Manifest, 0)
<1> DEFINE root == <<CreateRootFeedManifest(1, 2)>>
           version(x) == <<UploadCollection(1, x), UpdateFeedWithReference(1, x), VerifyFeed(2, x)>>
           all == [i \in DOMAIN <<3, 4>> |-> version(<<3, 4>>[i])]
           last == <<DownloadAndVerify(2, 4)>>
<1>1. CheckWithSubDirs = GetOrCreateMutableBatch(1) \o root \o FlattenSeq(all) \o last
  BY DEF CheckWithSubDirs, ForEach
<1>2. Frugal(root, 0) /\ Frugal(last, 0) /\ \A x : Frugal(version(x), 0)
  BY StepSteady, SteadyTuples
     DEF CreateRootFeedManifest, UploadCollection, UpdateFeedWithReference, VerifyFeed,
         DownloadAndVerify, DownloadManifestFile, Paying
<1> HIDE DEF root, last, version
<1>3. Frugal(FlattenSeq(all), 0)
  BY <1>2, VersionsFrugal
<1> HIDE DEF all
<1>4. Frugal(CheckWithSubDirs, 0)
  BY <1>1, <1>2, <1>3, BatchFrugal, FrugalThen
<1>5. QED
  BY <1>4, WithoutSubDirsFrugal, FrugalThen DEF Manifest

LEMMA ManifestV2Frugal == Frugal(ManifestV2, 0)
<1> DEFINE root == <<CreateRootFeedManifest(1, 2)>>
           version(x) == <<UploadCollection(1, x), DownloadChunk(1, x),
                           UpdateFeedWithRootChunk(1, x), VerifyFeed(2, x)>>
           all == [i \in DOMAIN <<3, 4>> |-> version(<<3, 4>>[i])]
           last == <<DownloadAndVerify(2, 4)>>
<1>1. CheckWithSubDirsV2 = GetOrCreateMutableBatch(1) \o root \o FlattenSeq(all) \o last
  BY DEF CheckWithSubDirsV2, ForEach
<1>2. Frugal(root, 0) /\ Frugal(last, 0) /\ \A x : Frugal(version(x), 0)
  BY StepSteady, SteadyTuples, FourSteady
     DEF CreateRootFeedManifest, UploadCollection, DownloadChunk, UpdateFeedWithRootChunk, VerifyFeed,
         DownloadAndVerify, DownloadManifestFile, Paying
<1> HIDE DEF root, last, version
<1>3. Frugal(FlattenSeq(all), 0)
  BY <1>2, VersionsFrugal
<1> HIDE DEF all
<1>4. Frugal(CheckWithSubDirsV2, 0)
  BY <1>1, <1>2, <1>3, BatchFrugal, FrugalThen
<1>5. QED
  BY <1>4, WithoutSubDirsFrugal, FrugalThen DEF ManifestV2

LEMMA FeedFrugal == Frugal(Feed, 0)
<1> DEFINE root == <<CreateRootFeedManifest(1, 2)>>
           version(x) == <<Direct(UploadFile(1, x)), UpdateFeedWithReference(1, x)>>
           all == [i \in DOMAIN <<3, 4>> |-> version(<<3, 4>>[i])]
           last == <<FindFeedUpdate(2, 2), DownloadFileBytes(2, 4)>>
<1>1. Feed = GetOrCreateMutableBatch(1) \o root \o FlattenSeq(all) \o last
  BY DEF Feed, ForEach
<1>2. Frugal(root, 0) /\ Frugal(last, 0) /\ \A x : Frugal(version(x), 0)
  BY StepSteady, DirectSteady, SteadyTuples
     DEF CreateRootFeedManifest, UploadFile, UpdateFeedWithReference, FindFeedUpdate,
         DownloadFileBytes, Paying
<1> HIDE DEF root, last, version
<1>3. Frugal(FlattenSeq(all), 0)
  BY <1>2, VersionsFrugal
<1> HIDE DEF all
<1>4. QED
  BY <1>1, <1>2, <1>3, BatchFrugal, FrugalThen

LEMMA FeedV2Frugal == Frugal(FeedV2, 0)
<1> DEFINE root == <<CreateRootFeedManifest(1, 2)>>
           version(x) == <<Direct(UploadFile(1, x)), DownloadChunk(1, x), UpdateFeedWithRootChunk(1, x)>>
           all == [i \in DOMAIN <<3, 4>> |-> version(<<3, 4>>[i])]
           last == <<FindFeedUpdate(2, 2), DownloadFileBytes(2, 4)>>
<1>1. FeedV2 = GetOrCreateMutableBatch(1) \o root \o FlattenSeq(all) \o last
  BY DEF FeedV2, ForEach
<1>2. Frugal(root, 0) /\ Frugal(last, 0) /\ \A x : Frugal(version(x), 0)
  BY StepSteady, DirectSteady, SteadyTuples
     DEF CreateRootFeedManifest, UploadFile, DownloadChunk, UpdateFeedWithRootChunk, FindFeedUpdate,
         DownloadFileBytes, Paying
<1> HIDE DEF root, last, version
<1>3. Frugal(FlattenSeq(all), 0)
  BY <1>2, VersionsFrugal
<1> HIDE DEF all
<1>4. QED
  BY <1>1, <1>2, <1>3, BatchFrugal, FrugalThen

LEMMA ActFresh == Fresh(Act)
<1> DEFINE up == LightNodeNames[1]
           one == FullNodeNames[1]
           two == FullNodeNames[2]
           three == FullNodeNames[3]
           names == <<up>> \o SubSeq(FullNodeNames, 1, 3)
           keys == [i \in DOMAIN names |-> <<Ignored(Addresses(names[i]))>>]
           upload == <<UploadActFile(up, 1), DownloadActFile(up, up, 1), Denied(DownloadActFile(up, one, 1))>>
           batch == GetOrCreateMutableBatch(up)
<1>1. ActUpload = FlattenSeq(keys) \o batch \o upload
  BY DEF ActUpload, ForEach
<1>2. Frugal(FlattenSeq(keys), 0)
  <2>1. IsSeq(names)
    <3>1. IsSeq(SubSeq(FullNodeNames, 1, 3))
      BY DEF IsSeq
    <3>2. QED
      BY <3>1, One, Joined
  <2>2. \A i \in DOMAIN names : Frugal(<<Ignored(Addresses(names[i]))>>, 0)
    BY StepSteady, SteadyTuples DEF Addresses, Paying
  <2> HIDE DEF names
  <2>3. QED
    BY <2>1, <2>2, NamesFrugal
<1>3. Frugal(upload, 0)
  BY StepSteady, SteadyTuples DEF UploadActFile, DownloadActFile, Paying
<1>4. Frugal(batch, 0)
  BY BatchFrugal
<1> HIDE DEF batch, keys, upload
<1>5. Frugal(ActUpload, 0)
  BY <1>1, <1>2, <1>3, <1>4, FrugalThen
<1>6. AllPlain(ActGrant)
  <2> DEFINE g == ActGrant
  <2>1. g = <<AddActGrantees(up, {two, three}), GetActGrantees(up, 2),
          DownloadActFile(up, up, 2), DownloadActFile(two, up, 2),
          PatchActGrantees(up, {one}, {two, three}), GetActGrantees(up, 1),
          Denied(DownloadActFile(two, up, 3))>>
    BY DEF ActGrant
  <2>2. IsSeq(g) /\ Len(g) = 7
    BY <2>1 DEF IsSeq
  <2>3. \A i \in 1..7 : i = 1 \/ i = 2 \/ i = 3 \/ i = 4 \/ i = 5 \/ i = 6 \/ i = 7
    OBVIOUS
  <2>4. /\ Steady(g[1]) /\ Steady(g[2]) /\ Steady(g[3]) /\ Steady(g[4])
        /\ Steady(g[5]) /\ Steady(g[6]) /\ Steady(g[7])
    BY <2>1, StepSteady DEF AddActGrantees, GetActGrantees, DownloadActFile, PatchActGrantees, Paying
  <2> HIDE DEF g
  <2>5. AllPlain(g)
    BY <2>2, <2>3, <2>4 DEF AllPlain, Steady
  <2>6. QED
    BY <2>5 DEF g
<1>7. QED
  BY <1>5, <1>6, FreshThenPlain DEF Act, Frugal, Fresh


LEMMA SmokeFresh == Fresh(Smoke)
<1> DEFINE up(x) == [Retried(3, Direct(UploadBytes(1, x))) EXCEPT !.out = 3]
           down(x) == [Retried(3, DownloadBytes(2, x)) EXCEPT !.ok = 2, !.out = 1]
           asked(x) == <<up(x), down(x), Ignored(Topology(2))>>
           all == [j \in 1..PerNode |-> asked(j)]
           files == FlattenSeq(all)
<1>1. Smoke = OrSkip(GetOrCreateMutableBatch(1), Len(files)) \o files
  BY DEF Smoke, ForEach
<1>2. ASSUME NEW x PROVE AllPlain(asked(x))
  <2>1. Plain(up(x))
    BY DEF Retried, Direct, UploadBytes, Step, Plain, Sound, Paying, Fail, Retry
  <2>2. Plain(down(x))
    BY DEF Retried, DownloadBytes, Step, Plain, Sound, Paying, Fail, Retry
  <2>3. Plain(Ignored(Topology(2)))
    BY DEF Ignored, Topology, Retried, Step, Plain, Sound, Paying, Fail, Retry
  <2>4. \A i \in 1..Len(asked(x)) : i = 1 \/ i = 2 \/ i = 3
    BY Three
  <2> HIDE DEF up, down
  <2>5. QED
    BY <2>1, <2>2, <2>3, <2>4, Three DEF AllPlain
<1> HIDE DEF asked
<1>3. AllPlain(files)
  BY <1>2, NamesListed, LoopPlain
<1> HIDE DEF files
<1>4. Fresh(OrSkip(GetOrCreateMutableBatch(1), Len(files)))
  <2>1. Len(files) \in Nat
    BY <1>3 DEF AllPlain, IsSeq
  <2>2. QED
    BY <2>1, BatchFrugal, SkipFrugal DEF Frugal, Fresh
<1>5. QED
  BY <1>1, <1>3, <1>4, FreshThenPlain

LEMMA EachIn ==
  ASSUME NEW Q, NEW K \in Nat, NEW seqs, seqs \in [1..K -> Seq(Q)]
  PROVE  FlattenSeq(seqs) \in Seq(Q)
<1> DEFINE P == [i \in 0..K |-> Seq(Q)]
<1>1. <<>> \in P[0]
  OBVIOUS
<1>2. \A i \in 1..K : \A s \in P[i - 1] \cap Seq(Q) : s \o seqs[i] \in P[i]
  OBVIOUS
<1> HIDE DEF P
<1>3. QED
  BY <1>1, <1>2, FlattenIn

LEMMA LongAvailabilityFresh == Fresh(LongAvailability)
<1> DEFINE K == Len(NodeNames)
           all == [i \in DOMAIN NodeNames |-> <<Step("read", NodeNames[i], "pins")>>]
           Q == {Step("read", n, "pins") : n \in Elements(NodeNames)}
           last == [Retried(Retries, DownloadFile(2, 1)) EXCEPT !.out = 1]
<1>1. FindRandomNode = FlattenSeq(all)
  BY DEF FindRandomNode, ForEach
<1>2. Frugal(FindRandomNode, 0)
  <2>1. \A i \in DOMAIN NodeNames : Frugal(<<Step("read", NodeNames[i], "pins")>>, 0)
    BY StepSteady, SteadyTuples DEF Paying
  <2>2. QED
    BY <1>1, <2>1, NamesListed, NamesFrugal
<1>3. FindRandomNode \in Seq(Q)
  <2>1. K \in Nat /\ DOMAIN NodeNames = 1..K
    BY NamesListed DEF IsSeq
  <2>2. all \in [1..K -> Seq(Q)]
    <3>1. \A i \in 1..K : Step("read", NodeNames[i], "pins") \in Q
      BY DEF Elements
    <3>2. \A q \in Q : <<q>> \in Seq(Q)
      OBVIOUS
    <3> HIDE DEF Q
    <3>3. QED
      BY <2>1, <3>1, <3>2
  <2> HIDE DEF Q, K, all
  <2>3. QED
    BY <1>1, <2>1, <2>2, EachIn
<1>4. \A i \in 1..Len(FindRandomNode) : IsRequest(FindRandomNode[i])
  <2>1. \A q \in Q : IsRequest(q)
    BY DEF Step, IsRequest
  <2> HIDE DEF Q
  <2>2. QED
    BY <1>3, <2>1
<1>5. Fresh(OrSkip(FindRandomNode, 1))
  BY <1>2, <1>4, SkipFrugal DEF Frugal, Fresh
<1>6. AllPlain(<<last>>)
  <2>1. Plain(last)
    BY DEF Retried, DownloadFile, Step, Plain, Sound, Paying, Fail, Retry
  <2> HIDE DEF last
  <2>2. QED
    BY <2>1, One DEF AllPlain
<1> HIDE DEF last
<1>7. Fresh(OrSkip(FindRandomNode, 1) \o <<last>>)
  BY <1>5, <1>6, FreshThenPlain
<1>8. QED
  BY <1>7 DEF LongAvailability, last

LEMMA NetworkAvailabilityFresh == Fresh(NetworkAvailability)
<1> DEFINE k == PerNode
           e == [i \in 0..k |-> (k - i) * 5 + k]
           skips(x) == OrSkip(GetOrCreateMutableBatch(1), 1 + (k - x) * 5 + k)
           put(x) == <<Ignored(Direct(UploadChunk(1, x)))>>
           ups == [x \in 1..k |-> skips(x) \o put(x)]
           get(x) == <<Ignored(DownloadChunk(1, x))>>
           downs == [x \in 1..k |-> get(x)]
           first == <<Ignored(Step("read", 1, "reserve"))>>
<1>1. NetworkAvailability = first \o FlattenSeq(ups) \o FlattenSeq(downs)
  BY DEF NetworkAvailability, ForEach
<1>2. k \in Nat
  BY NamesListed
<1> HIDE DEF k
<1>3. ASSUME NEW x \in 1..k PROVE Frugal(ups[x], e[x]) /\ Len(ups[x]) = 5
  <2> DEFINE m == (k - x) * 5 + k
  <2>1. m \in Nat /\ e[x] = m /\ 1 + m \in Nat
    BY <1>2
  <2>2. Frugal(put(x), m) /\ Len(put(x)) = 1
    <3>1. Steady(Ignored(Direct(UploadChunk(1, x))))
      BY DirectSteady DEF UploadChunk
    <3>2. IsSeq(put(x)) /\ Len(put(x)) = 1 /\ \A i \in 1..Len(put(x)) : Steady(put(x)[i])
      BY <3>1, One
    <3> HIDE DEF put, m
    <3>3. QED
      BY <2>1, <3>2, SteadyFrugal
  <2>3. Frugal(skips(x), 1 + m) /\ Len(skips(x)) = 4
    <3>1. skips(x) = OrSkip(GetOrCreateMutableBatch(1), 1 + m)
      BY <1>2
    <3> HIDE DEF m, skips
    <3>2. QED
      BY <2>1, <3>1, BatchFrugal, SkipFrugal
  <2>4. ups[x] = skips(x) \o put(x)
    OBVIOUS
  <2> HIDE DEF m, skips, put, e, ups
  <2>5. Frugal(skips(x) \o put(x), m)
    BY <2>1, <2>2, <2>3, FrugalJoined
  <2>6. Len(skips(x) \o put(x)) = 5
    <3>1. IsSeq(skips(x)) /\ IsSeq(put(x))
      BY <2>2, <2>3 DEF Frugal, Fresh, Walk
    <3>2. Len(skips(x) \o put(x)) = Len(skips(x)) + Len(put(x))
      BY <3>1, Joined
    <3>3. QED
      BY <2>2, <2>3, <3>2
  <2>7. QED
    BY <2>1, <2>4, <2>5, <2>6
<1>4. Frugal(FlattenSeq(ups), k)
  <2>1. e \in [0..k -> Nat] /\ e[k] = k
    BY <1>2
  <2>2. \A i \in 1..k : e[i - 1] = 5 + e[i]
    BY <1>2
  <2>3. ups = [x \in 1..k |-> ups[x]]
    OBVIOUS
  <2> HIDE DEF e, ups
  <2>4. IsSeq(ups) /\ Len(ups) = k
    BY <1>2, <2>3, Listed
  <2>5. QED
    BY <1>3, <2>1, <2>2, <2>4, FlattenFrugal, ZenonT(60)
<1>5. AllPlain(FlattenSeq(downs))
  <2>1. \A x \in 1..k : AllPlain(downs[x])
    BY StepSteady, SteadyTuples DEF DownloadChunk, Paying
  <2>2. downs = [x \in 1..k |-> downs[x]]
    OBVIOUS
  <2> HIDE DEF downs
  <2>3. QED
    BY <1>2, <2>1, <2>2, LoopPlain
<1>6. Frugal(first, 0)
  BY StepSteady, SteadyTuples DEF Paying
<1> HIDE DEF ups, downs, first
<1>7. Frugal(first \o FlattenSeq(ups), k)
  BY <1>2, <1>4, <1>6, FrugalJoined
<1>8. QED
  BY <1>1, <1>5, <1>7, FreshThenPlain DEF Frugal, Fresh

LEMMA SimulateUploadFrugal == Frugal(SimulateUpload, 0)
<1> DEFINE e == [r \in 0..Retries |-> 5 * (Retries - r)]
           put(x, r) == [UploadFile(1, x) EXCEPT !.ok = 1 + 5 * (Retries - r),
                                                 !.err = IF r = Retries THEN Fail ELSE 1]
           attempt(x, r) == GetOrCreateMutableBatch(1) \o <<put(x, r)>>
           tried(x) == [r \in 1..Retries |-> attempt(x, r)]
           wait(x) == IF x < PerNode THEN <<Ignored(WaitSync(1))>> ELSE <<>>
           body(x) == <<CreateTag(1)>> \o FlattenSeq(tried(x)) \o wait(x)
           all == [j \in 1..PerNode |-> body(j)]
<1>1. SimulateUpload = <<Overlay(1)>> \o FlattenSeq(all)
  <2> DEFINE tries1(x, r) ==
            GetOrCreateMutableBatch(1) \o
            <<[UploadFile(1, x) EXCEPT !.ok = 1 + 5 * (Retries - r),
                                       !.err = IF r = Retries THEN Fail ELSE 1]>>
  <2>1. SimulateUpload = <<Overlay(1)>> \o
        ForEach([j \in 1..PerNode |-> j], LAMBDA x:
            <<CreateTag(1)>> \o
            ForEach([r \in 1..Retries |-> r], LAMBDA r: tries1(x, r)) \o
            (IF x < PerNode THEN <<Ignored(WaitSync(1))>> ELSE <<>>))
    BY DEF SimulateUpload
  <2>2. \A x, r : tries1(x, r) = attempt(x, r)
    OBVIOUS
  <2> HIDE DEF tries1, attempt
  <2>3. QED
    BY <2>1, <2>2 DEF ForEach
<1>2. Retries \in Nat
  BY ContentAssumption
<1>3. ASSUME NEW x, NEW r \in 1..Retries PROVE Frugal(attempt(x, r), e[r]) /\ Len(attempt(x, r)) = 5
  <2> DEFINE m == 5 * (Retries - r)
             p == put(x, r)
  <2>1. m \in Nat /\ e[r] = m
    BY <1>2
  <2>2. p.op = "upload" /\ p.ok = 1 + m /\ p.no = -1 /\ (p.err = -1 \/ p.err = 1) /\ p.out = -1
    <3> HIDE DEF m
    <3>1. p = [UploadFile(1, x) EXCEPT !.ok = 1 + m, !.err = IF r = Retries THEN Fail ELSE 1]
      BY DEF m
    <3>2. QED
      BY <3>1 DEF UploadFile, Step, Fail
  <2> HIDE DEF p, m
  <2>3. Plain(p)
    BY <2>1, <2>2 DEF Plain, Sound, Paying, Fail, Retry
  <2>4. Frugal(<<p>>, m)
    <3>1. Walk(<<p>>)
      BY <2>3, One, PlainWalk DEF AllPlain
    <3>2. Tight(<<p>>, m)
      BY <2>1, <2>2, One DEF Tight
    <3>3. QED
      BY <2>3, <3>1, <3>2, One DEF Frugal, Plain
  <2>5. Frugal(GetOrCreateMutableBatch(1) \o <<p>>, m)
    BY <2>1, <2>4, BatchFrugal, FrugalJoined
  <2>6. Len(GetOrCreateMutableBatch(1) \o <<p>>) = 5
    <3> DEFINE b == GetOrCreateMutableBatch(1)
               w == <<p>>
    <3>1. IsSeq(b) /\ IsSeq(w) /\ Len(b) = 4 /\ Len(w) = 1
      BY BatchFrugal, One DEF Frugal, Walk
    <3> HIDE DEF b, w
    <3>2. IsSeq(b) /\ IsSeq(w)
      BY <3>1
    <3>3. Len(b \o w) = Len(b) + Len(w)
      BY <3>2, Joined
    <3>4. Len(b \o w) = 5
      BY <3>1, <3>3
    <3>5. QED
      BY <3>4 DEF b, w
  <2>7. attempt(x, r) = GetOrCreateMutableBatch(1) \o <<p>>
    BY DEF p
  <2>8. QED
    BY <2>1, <2>5, <2>6, <2>7
<1> HIDE DEF attempt
<1>4. ASSUME NEW x PROVE Frugal(FlattenSeq(tried(x)), 0)
  <2>1. e \in [0..Retries -> Nat] /\ e[Retries] = 0
    BY <1>2
  <2>2. \A i \in 1..Retries : e[i - 1] = 5 + e[i]
    BY <1>2
  <2>3. tried(x) = [r \in 1..Retries |-> tried(x)[r]] /\ \A r \in 1..Retries : tried(x)[r] = attempt(x, r)
    OBVIOUS
  <2> HIDE DEF e, tried
  <2>4. IsSeq(tried(x)) /\ Len(tried(x)) = Retries
    BY <1>2, <2>3, Listed
  <2>5. Frugal(FlattenSeq(tried(x)), e[Len(tried(x))])
    <3>1. e \in [0..Len(tried(x)) -> Nat]
      BY <2>1, <2>4
    <3>2. ASSUME NEW i \in 1..Len(tried(x))
          PROVE  Frugal(tried(x)[i], e[i]) /\ e[i - 1] = Len(tried(x)[i]) + e[i]
      <4>1. i \in 1..Retries /\ tried(x)[i] = attempt(x, i)
        BY <2>3, <2>4
      <4>2. Frugal(attempt(x, i), e[i]) /\ Len(attempt(x, i)) = 5 /\ e[i - 1] = 5 + e[i]
        BY <1>3, <2>2, <4>1
      <4>3. QED
        BY <4>1, <4>2
    <3>3. QED
      BY <2>4, <3>1, <3>2, FlattenFrugal
  <2>6. QED
    BY <2>1, <2>4, <2>5
<1>5. \A x : Frugal(<<CreateTag(1)>>, 0) /\ Frugal(wait(x), 0) /\ Frugal(<<Overlay(1)>>, 0)
  BY StepSteady, SteadyTuples, NilFrugal DEF CreateTag, WaitSync, Overlay, Paying
<1> HIDE DEF tried, wait
<1>6. \A x : Frugal(body(x), 0)
  BY <1>4, <1>5, FrugalThen
<1> HIDE DEF body
<1>7. Frugal(FlattenSeq(all), 0)
  BY <1>6, ContentsFrugal
<1> HIDE DEF all
<1>8. QED
  BY <1>1, <1>5, <1>7, FrugalThen

LEMMA SimulateRetrievalFrugal == Frugal(SimulateRetrieval, 0)
<1> DEFINE asked(n, x) == <<CreateTag(n), [UploadChunk(n, x) EXCEPT !.err = 3],
                            [WaitSync(n) EXCEPT !.err = 2], Ignored(DownloadChunk(2, x))>>
           inner(i) == [j \in 1..PerNode |-> asked(NodeNames[i], Item(i, j))]
           chunks(i) == FlattenSeq(inner(i))
           body(i) == OrSkip(GetOrCreateMutableBatch(NodeNames[i]), Len(chunks(i))) \o chunks(i)
           all == [i \in 1..UploadNodeCount |-> body(i)]
           last == <<Step("giveup", 1, 0)>>
<1>1. SimulateRetrieval = FlattenSeq(all) \o last
  BY DEF SimulateRetrieval, ForEach
<1>2. ASSUME NEW n, NEW x PROVE Frugal(asked(n, x), 0)
  <2> DEFINE s == asked(n, x)
  <2>1. IsSeq(s) /\ Len(s) = 4 /\ s[1] = CreateTag(n) /\ s[2] = [UploadChunk(n, x) EXCEPT !.err = 3]
        /\ s[3] = [WaitSync(n) EXCEPT !.err = 2] /\ s[4] = Ignored(DownloadChunk(2, x))
    BY DEF IsSeq
  <2> HIDE DEF s
  <2>2. /\ s[1].op = "read" /\ s[1].ok = 1 /\ s[1].no = -1 /\ s[1].err = -1 /\ s[1].out = -1
        /\ s[2].op = "upload" /\ s[2].ok = 1 /\ s[2].no = -1 /\ s[2].err = 3 /\ s[2].out = -1
        /\ s[3].op = "read" /\ s[3].ok = 1 /\ s[3].no = -1 /\ s[3].err = 2 /\ s[3].out = -1
        /\ s[4].op = "download" /\ s[4].ok = 1 /\ s[4].no = 1 /\ s[4].err = 1 /\ s[4].out = -1
    BY <2>1 DEF CreateTag, UploadChunk, WaitSync, Ignored, DownloadChunk, Step, Fail
  <2>3. \A i \in 1..4 : i = 1 \/ i = 2 \/ i = 3 \/ i = 4
    OBVIOUS
  <2>4. \A i \in 1..4 : Plain(s[i])
    BY <2>2, <2>3 DEF Plain, Sound, Paying, Fail, Retry
  <2>5. Tight(s, 0)
    <3> SUFFICES ASSUME NEW i \in 1..4, NEW d \in {s[i].ok, s[i].no, s[i].err, s[i].out}
                 PROVE  d <= 5 - i
      BY <2>1 DEF Tight
    <3>1. CASE i \in {1, 4}
      BY <2>2, <3>1
    <3>2. CASE i \in {2, 3}
      BY <2>2, <3>2
    <3>3. QED
      BY <2>3, <3>1, <3>2
  <2>6. Frugal(s, 0)
    BY <2>1, <2>2, <2>4, <2>5, PlainWalk DEF Frugal, AllPlain, Paying
  <2>7. QED
    BY <2>6 DEF s
<1> HIDE DEF asked
<1>3. \A i : Frugal(chunks(i), 0)
  BY <1>2, ContentsFrugal
<1> HIDE DEF chunks
<1>4. ASSUME NEW i PROVE Frugal(body(i), 0)
  <2> DEFINE b == GetOrCreateMutableBatch(NodeNames[i])
             l == Len(chunks(i))
  <2>1. l \in Nat /\ IsSeq(chunks(i))
    BY <1>3 DEF Frugal, Walk, IsSeq
  <2>2. Frugal(OrSkip(b, l), l)
    <3>1. Frugal(b, 0) /\ \A j \in 1..Len(b) : IsRequest(b[j])
      BY BatchFrugal
    <3> HIDE DEF b, l
    <3>2. QED
      BY <2>1, <3>1, SkipFrugal
  <2> HIDE DEF b
  <2>3. Frugal(OrSkip(b, l) \o chunks(i), 0)
    BY <1>3, <2>1, <2>2, FrugalJoined
  <2>4. QED
    BY <2>3 DEF b
<1> HIDE DEF body
<1>5. Frugal(FlattenSeq(all), 0)
  BY <1>4, UploadsFrugal
<1>6. Frugal(last, 0)
  BY StepSteady, SteadyTuples DEF Paying
<1> HIDE DEF all, last
<1>7. QED
  BY <1>1, <1>5, <1>6, FrugalThen


LEMMA StepPlain ==
  ASSUME NEW op, op \notin Paying, NEW n, NEW x, NEW k
  PROVE  /\ Plain(Step(op, n, x)) /\ Plain(Ignored(Step(op, n, x))) /\ Plain(Polled(k, Step(op, n, x)))
         /\ Plain(Denied(Step(op, n, x))) /\ Plain(Retried(k, Step(op, n, x)))
BY StepSteady DEF Steady

LEMMA PlainTuples ==
  ASSUME NEW a, Plain(a)
  PROVE  /\ AllPlain(<<a>>)
         /\ \A b : Plain(b) => AllPlain(<<a, b>>)
         /\ \A b, c : Plain(b) /\ Plain(c) => AllPlain(<<a, b, c>>)
         /\ \A b, c, d : Plain(b) /\ Plain(c) /\ Plain(d) => AllPlain(<<a, b, c, d>>)
<1>1. AllPlain(<<a>>)
  BY One DEF AllPlain
<1>2. ASSUME NEW b, Plain(b) PROVE AllPlain(<<a, b>>)
  <2>1. \A i \in 1..Len(<<a, b>>) : i = 1 \/ i = 2
    BY Two
  <2>2. QED
    BY <1>2, <2>1, Two DEF AllPlain
<1>3. ASSUME NEW b, NEW c, Plain(b), Plain(c) PROVE AllPlain(<<a, b, c>>)
  <2>1. \A i \in 1..Len(<<a, b, c>>) : i = 1 \/ i = 2 \/ i = 3
    BY Three
  <2>2. QED
    BY <1>3, <2>1, Three DEF AllPlain
<1>4. ASSUME NEW b, NEW c, NEW d, Plain(b), Plain(c), Plain(d) PROVE AllPlain(<<a, b, c, d>>)
  <2> DEFINE s == <<a, b, c, d>>
  <2>1. IsSeq(s) /\ Len(s) = 4 /\ s[1] = a /\ s[2] = b /\ s[3] = c /\ s[4] = d
    BY DEF IsSeq
  <2> HIDE DEF s
  <2>2. \A i \in 1..4 : i = 1 \/ i = 2 \/ i = 3 \/ i = 4
    OBVIOUS
  <2>3. AllPlain(s)
    BY <1>4, <2>1, <2>2 DEF AllPlain
  <2>4. QED
    BY <2>3 DEF s
<1>5. QED
  BY <1>1, <1>2, <1>3, <1>4

LEMMA NamesPlain ==
  ASSUME NEW names, IsSeq(names), NEW parts, parts = [i \in DOMAIN names |-> parts[i]],
         \A i \in DOMAIN names : AllPlain(parts[i])
  PROVE  AllPlain(FlattenSeq(parts))
<1>1. Len(names) \in Nat /\ DOMAIN names = 1..Len(names)
  BY DEF IsSeq
<1>2. QED
  BY <1>1, LoopPlain

LEMMA ReadsFrugal ==
  /\ Frugal(Reads, 0) /\ Frugal(<<Step("symmetric", 1, 0)>>, 0) /\ Frugal(<<ValidateSettlements>>, 0)
  /\ \A b : Frugal(ReadsAll(b), 0) /\ AllPlain(ReadsAll(b))
<1>1. /\ Frugal(Reads, 0) /\ AllPlain(Reads) /\ Frugal(<<Step("symmetric", 1, 0)>>, 0)
      /\ Frugal(<<ValidateSettlements>>, 0)
  BY StepSteady, SteadyTuples DEF Reads, ValidateSettlements, Paying
<1>2. \A b : Frugal(<<Step("settlements", 1, b)>>, 0) /\ AllPlain(<<Step("settlements", 1, b)>>)
  BY StepSteady, SteadyTuples DEF Paying
<1>3. QED
  BY <1>1, <1>2, FrugalThen, PlainJoined DEF ReadsAll

LEMMA RoundsPlain == AllPlain(Rounds)
<1> DEFINE verdicts(r) == [ValidateSettlements EXCEPT !.no = IF r = Retries THEN Fail ELSE 1,
                                                      !.ok = 4 * (Retries - r) + 1]
           all == [r \in 1..Retries |-> ReadsAll(TRUE) \o <<verdicts(r)>>]
<1>1. Rounds = FlattenSeq(all)
  BY DEF Rounds, ForEach
<1>2. ASSUME NEW r \in 1..Retries PROVE AllPlain(ReadsAll(TRUE) \o <<verdicts(r)>>)
  <2>1. 4 * (Retries - r) + 1 \in Nat \ {0}
    BY ContentAssumption
  <2>2. Plain(verdicts(r))
    BY <2>1 DEF ValidateSettlements, Step, Plain, Sound, Paying, Fail, Retry
  <2> HIDE DEF verdicts
  <2>3. QED
    BY <2>2, PlainTuples, ReadsFrugal, PlainJoined
<1> HIDE DEF verdicts
<1>3. \A r \in 1..Retries : AllPlain(all[r])
  BY <1>2
<1>4. all = [r \in 1..Retries |-> all[r]] /\ Retries \in Nat
  BY ContentAssumption
<1> HIDE DEF all
<1>5. QED
  BY <1>1, <1>3, <1>4, LoopPlain

LEMMA AccountsFresh ==
  /\ Fresh(Balances) /\ Fresh(BalancesDry) /\ Fresh(SettlementsDry)
  /\ Fresh(Settlements) /\ Fresh(SettlementsExpected)
<1> DEFINE dry == Reads \o <<Step("symmetric", 1, 0)>>
           first == ReadsAll(FALSE) \o <<ValidateSettlements>>
           balanced == dry \o GetOrCreateMutableBatch(1)
           paid == first \o GetOrCreateMutableBatch(1)
           put == <<Direct(UploadFile(1, 1))>>
           get == <<DownloadFile(2, 1)>>
<1>1. Frugal(dry, 0) /\ Frugal(first, 0)
  BY ReadsFrugal, FrugalThen
<1>2. Fresh(BalancesDry) /\ Fresh(SettlementsDry)
  BY <1>1 DEF BalancesDry, SettlementsDry, Frugal, Fresh
<1> HIDE DEF dry, first
<1>3. Fresh(balanced) /\ Fresh(paid)
  BY <1>1, BatchFrugal, FrugalThen DEF Frugal, Fresh
<1>4. Fresh(Balances)
  <2>1. AllPlain(<<Step("panic", 1, 0)>>)
    BY StepSteady, SteadyTuples DEF Paying
  <2> HIDE DEF balanced
  <2>2. Fresh(balanced \o <<Step("panic", 1, 0)>>)
    BY <1>3, <2>1, FreshThenPlain
  <2>3. QED
    BY <2>2 DEF Balances, BalancesDry, balanced, dry
<1>5. AllPlain(put) /\ AllPlain(get)
  BY StepSteady, DirectSteady, SteadyTuples DEF UploadFile, DownloadFile, Paying
<1> HIDE DEF paid, put, get
<1>6. Fresh(paid \o put \o Rounds \o get \o Rounds)
  <2>1. Fresh(paid \o put)
    BY <1>3, <1>5, FreshThenPlain
  <2>2. Fresh(paid \o put \o Rounds)
    BY <2>1, RoundsPlain, FreshThenPlain
  <2>3. Fresh(paid \o put \o Rounds \o get)
    BY <1>5, <2>2, FreshThenPlain
  <2>4. QED
    BY <2>3, RoundsPlain, FreshThenPlain
<1>7. Fresh(Settlements)
  BY <1>6 DEF Settlements, SettlementsDry, paid, first, put, get
<1>8. Fresh(SettlementsExpected)
  <2>1. AllPlain(<<Step("happened", 1, 0)>>)
    BY StepSteady, SteadyTuples DEF Paying
  <2>2. QED
    BY <1>7, <2>1, FreshThenPlain DEF SettlementsExpected
<1>9. QED
  BY <1>2, <1>4, <1>7, <1>8

LEMMA CashoutPlain == AllPlain(Cashout)
<1> DEFINE out(n) == <<[Step("uncashed", n, 0) EXCEPT !.no = 4], [Step("uncashed", n, 0) EXCEPT !.no = 3],
                       Step("read", n, "chequebook"), Step("cashout", n, 0)>>
           outs == [i \in DOMAIN <<1, 2>> |-> out(<<1, 2>>[i])]
           all == [r \in 1..Retries |-> ConfirmRound(r)]
<1>1. CashoutAll = FlattenSeq(outs) /\ Cashout = CashoutAll \o FlattenSeq(all)
  BY DEF CashoutAll, Cashout, ForEach
<1>2. AllPlain(CashoutAll)
  <2>1. ASSUME NEW n PROVE AllPlain(out(n))
    <3>1. /\ Plain([Step("uncashed", n, 0) EXCEPT !.no = 4])
          /\ Plain([Step("uncashed", n, 0) EXCEPT !.no = 3])
      BY DEF Step, Plain, Sound, Paying, Fail, Retry
    <3>2. Plain(Step("read", n, "chequebook")) /\ Plain(Step("cashout", n, 0))
      BY StepPlain DEF Paying
    <3>3. QED
      BY <3>1, <3>2, PlainTuples
  <2> HIDE DEF out
  <2>2. QED
    BY <1>1, <2>1, Two, NamesPlain
<1>3. ASSUME NEW r \in 1..Retries PROVE AllPlain(ConfirmRound(r))
  <2> DEFINE next(k) == IF r = Retries THEN Fail ELSE k
  <2>1. 4 * (Retries - r) + 1 \in Nat \ {0}
    BY ContentAssumption
  <2>2. next(4) \in {-1, 4} /\ next(2) \in {-1, 2}
    BY DEF Fail
  <2>3. ConfirmRound(r) = <<[Step("confirmed", 1, 0) EXCEPT !.no = next(4)], Step("paid", 1, 0),
          [Step("confirmed", 2, 0) EXCEPT !.no = next(2)],
          [Step("paid", 2, 0) EXCEPT !.ok = 4 * (Retries - r) + 1]>>
    BY DEF ConfirmRound
  <2> HIDE DEF next
  <2>4. /\ Plain([Step("confirmed", 1, 0) EXCEPT !.no = next(4)]) /\ Plain(Step("paid", 1, 0))
        /\ Plain([Step("confirmed", 2, 0) EXCEPT !.no = next(2)])
        /\ Plain([Step("paid", 2, 0) EXCEPT !.ok = 4 * (Retries - r) + 1])
    BY <2>1, <2>2 DEF Step, Plain, Sound, Paying, Fail, Retry
  <2>5. QED
    BY <2>3, <2>4, PlainTuples
<1>4. AllPlain(FlattenSeq(all))
  <2>1. Retries \in Nat /\ all = [r \in 1..Retries |-> all[r]] /\ \A r \in 1..Retries : AllPlain(all[r])
    BY <1>3, ContentAssumption
  <2> HIDE DEF all
  <2>2. QED
    BY <2>1, LoopPlain
<1> HIDE DEF all
<1>5. QED
  BY <1>1, <1>2, <1>4, PlainJoined


LEMMA StakeRequests ==
  /\ IsSeq(Stake) /\ Len(Stake) = 21
  /\ Stake[1] = Step("session", 2, 0) /\ Stake[2] = [Step("running", 2, 0) EXCEPT !.no = 21]
  /\ Stake[3] = Step("stake", 2, 0)
  /\ Stake[4] = [Step("deposit", 2, 0) EXCEPT !.ok = Fail, !.no = 1] /\ Stake[5] = Step("stake", 2, 0)
  /\ Stake[6] = Step("deposit", 2, 1) /\ Stake[7] = Step("stake", 2, 1)
  /\ Stake[8] = Step("withdrawable", 2, 1) /\ Stake[9] = Step("deposit", 2, 1)
  /\ Stake[10] = Step("stake", 2, 2) /\ Stake[11] = Step("withdrawable", 2, 1)
  /\ Stake[12] = Denied(Step("migrate", 2, 0)) /\ Stake[13] = Step("stake", 2, 2)
  /\ Stake[14] = Step("pause", 2, TRUE) /\ Stake[15] = Step("mined", 2, 0)
  /\ Stake[16] = [Step("migrate", 2, 0) EXCEPT !.no = 4, !.err = 4]
  /\ Stake[17] = [Step("stake", 2, 0) EXCEPT !.no = 3, !.err = 3]
  /\ Stake[18] = [Step("withdrawable", 2, 0) EXCEPT !.no = 2, !.err = 2]
  /\ Stake[19] = [Ignored(Step("pause", 2, FALSE)) EXCEPT !.ok = 3, !.no = 3, !.err = 3]
  /\ Stake[20] = Ignored(Step("pause", 2, FALSE)) /\ Stake[21] = Step("giveup", 2, 0)
BY DEF Stake, IsSeq, ExpectStakeAmountIs, ExpectWithdrawableStake, DepositStake, MigrateStake

LEMMA UpTo21 ==
  \A i \in 1..21 : \/ i = 1 \/ i = 2 \/ i = 3 \/ i = 4 \/ i = 5 \/ i = 6 \/ i = 7
                   \/ i = 8 \/ i = 9 \/ i = 10 \/ i = 11 \/ i = 12 \/ i = 13 \/ i = 14
                   \/ i = 15 \/ i = 16 \/ i = 17 \/ i = 18 \/ i = 19 \/ i = 20 \/ i = 21
OBVIOUS

LEMMA StakePlain == AllPlain(Stake)
<1> DEFINE s == Stake
<1>1. Plain(s[1]) /\ Plain(s[3]) /\ Plain(s[5]) /\ Plain(s[6]) /\ Plain(s[7])
  BY StakeRequests DEF Step, Plain, Sound, Paying, Fail, Retry
<1>7. Plain(s[8]) /\ Plain(s[9]) /\ Plain(s[10]) /\ Plain(s[11]) /\ Plain(s[13])
  BY StakeRequests DEF Step, Plain, Sound, Paying, Fail, Retry
<1>8. Plain(s[14]) /\ Plain(s[15]) /\ Plain(s[21])
  BY StakeRequests DEF Step, Plain, Sound, Paying, Fail, Retry
<1>9. Plain(s[12]) /\ Plain(s[20])
  BY StakeRequests DEF Denied, Ignored, Step, Plain, Sound, Paying, Fail, Retry
<1>2. Plain(s[2]) /\ Plain(s[4])
  BY StakeRequests DEF Step, Plain, Sound, Paying, Fail, Retry
<1>3. Plain(s[16]) /\ Plain(s[17]) /\ Plain(s[18])
  BY StakeRequests DEF Step, Plain, Sound, Paying, Fail, Retry
<1>4. Plain(s[19])
  BY StakeRequests DEF Ignored, Step, Plain, Sound, Paying, Fail, Retry
<1> HIDE DEF s
<1>5. \A i \in 1..21 : Plain(s[i])
  BY <1>1, <1>2, <1>3, <1>4, <1>7, <1>8, <1>9, UpTo21
<1>6. QED
  BY <1>5, StakeRequests DEF AllPlain, s

LEMMA WithdrawPlain == AllPlain(Withdraw)
<1> DEFINE denied == WalletWithdraw("native", "zero")
           refused == <<[denied[1] EXCEPT !.err = 3], [denied[2] EXCEPT !.err = 2], Denied(denied[3])>>
<1>1. Withdraw = WalletWithdraw("native", "target") \o refused \o WalletWithdraw("bzz", "target")
  BY DEF Withdraw
<1>2. \A t, to : AllPlain(WalletWithdraw(t, to))
  BY StepPlain, PlainTuples DEF WalletWithdraw, Paying
<1>3. AllPlain(refused)
  <2>1. denied[1] = Step("wallet", 1, "native") /\ denied[2] = Step("withdraw", 1, <<"native", "zero">>)
        /\ denied[3] = Step("spent", 1, "native")
    BY DEF WalletWithdraw
  <2> HIDE DEF denied
  <2>2. Plain([denied[1] EXCEPT !.err = 3]) /\ Plain([denied[2] EXCEPT !.err = 2])
    BY <2>1 DEF Step, Plain, Sound, Paying, Fail, Retry
  <2>3. Plain(Denied(denied[3]))
    BY <2>1, StepPlain DEF Paying
  <2>4. QED
    BY <2>2, <2>3, PlainTuples
<1> HIDE DEF refused
<1>4. QED
  BY <1>1, <1>2, <1>3, PlainJoined

LEMMA PeersPlain == ASSUME NEW names, IsSeq(names) PROVE AllPlain(Peers(names))
<1> DEFINE all == [i \in DOMAIN names |-> <<Step("peers", names[i], 0)>>]
<1>1. Peers(names) = FlattenSeq(all)
  BY DEF Peers, ForEach
<1>2. \A i \in DOMAIN names : AllPlain(<<Step("peers", names[i], 0)>>)
  BY StepPlain, PlainTuples DEF Paying
<1>3. QED
  BY <1>1, <1>2, NamesPlain

LEMMA PeerChecksPlain ==
  AllPlain(Kademlia) /\ AllPlain(KademliaDynamic) /\ AllPlain(FullConnectivity) /\ AllPlain(PeerCount)
<1>1. /\ AllPlain(Peers(NodeNames)) /\ AllPlain(Peers(FullNodeNames)) /\ AllPlain(Peers(LightNodeNames))
  BY NamesListed, PeersPlain
<1> DEFINE two == <<Step("read", 1, "overlays"), Step("read", 1, "overlays")>>
           full == <<Step("connected", 1, "full")>>
           light == <<Step("connected", 1, "light")>>
<1>2. /\ AllPlain(<<Step("kademlia", 1, 0)>>) /\ AllPlain(<<Step("dynamic", 1, 0)>>)
      /\ AllPlain(<<Step("read", 1, "overlays")>>) /\ AllPlain(two) /\ AllPlain(full) /\ AllPlain(light)
  BY StepPlain, PlainTuples DEF Paying
<1>3. AllPlain(Kademlia) /\ AllPlain(KademliaDynamic) /\ AllPlain(PeerCount)
  BY <1>1, <1>2, PlainJoined DEF Kademlia, KademliaDynamic, PeerCount
<1>4. FullConnectivity = two \o Peers(FullNodeNames) \o full \o two \o Peers(LightNodeNames) \o light
  BY DEF FullConnectivity
<1> HIDE DEF two, full, light
<1>5. AllPlain(FullConnectivity)
  <2>1. AllPlain(two \o Peers(FullNodeNames))
    BY <1>1, <1>2, PlainJoined
  <2>2. AllPlain(two \o Peers(FullNodeNames) \o full)
    BY <1>2, <2>1, PlainJoined
  <2>3. AllPlain(two \o Peers(FullNodeNames) \o full \o two)
    BY <1>2, <2>2, PlainJoined
  <2>4. AllPlain(two \o Peers(FullNodeNames) \o full \o two \o Peers(LightNodeNames))
    BY <1>1, <2>3, PlainJoined
  <2>5. QED
    BY <1>2, <1>4, <2>4, PlainJoined
<1>6. QED
  BY <1>3, <1>5

LEMMA WssPlain ==
  ASSUME NEW parts, parts = [i \in DOMAIN Wss |-> parts[i]], \A i \in DOMAIN Wss : AllPlain(parts[i])
  PROVE  AllPlain(FlattenSeq(parts))
BY Two, NamesPlain DEF Wss

LEMMA ConnectivityPlain == ASSUME NEW source PROVE AllPlain(TestConnectivity(source))
<1> DEFINE names == SetToSeq(Range(Wss) \ {source})
           one(n) == <<Addresses(n), Ignored(Step("read", source, "disconnect")),
                       Step("connect", source, n), Ignored(Step("read", source, "disconnect"))>>
           all == [i \in DOMAIN names |-> one(names[i])]
<1>1. TestConnectivity(source) = FlattenSeq(all)
  BY DEF TestConnectivity, ForEach
<1>2. IsSeq(names)
  <2>1. Range(Wss) = {1, 2}
    BY DEF Wss, Range
  <2>2. IsFiniteSet({1, 2})
    <3>1. IsFiniteSet({1}) /\ IsFiniteSet({2}) /\ {1, 2} = {1} \cup {2}
      BY FS_Singleton
    <3>2. QED
      BY <3>1, FS_Union
  <2>3. IsFiniteSet(Range(Wss) \ {source})
    BY <2>1, <2>2, FS_Subset
  <2>4. QED
    BY <2>3, ListOfSet
<1>3. \A n : AllPlain(one(n))
  BY StepPlain, PlainTuples DEF Addresses, Paying
<1> HIDE DEF names, one
<1>4. QED
  BY <1>1, <1>2, <1>3, NamesPlain

LEMMA AutoTlsPlain == AllPlain(AutoTls)
<1>1. AllPlain(VerifyWSSUnderlays)
  <2> DEFINE all == [i \in DOMAIN Wss |-> <<Step("underlay", Wss[i], 0)>>]
  <2>1. VerifyWSSUnderlays = FlattenSeq(all)
    BY DEF VerifyWSSUnderlays, ForEach
  <2>2. \A i : AllPlain(<<Step("underlay", Wss[i], 0)>>)
    BY StepPlain, PlainTuples DEF Paying
  <2>3. QED
    BY <2>1, <2>2, WssPlain
<1>2. AllPlain(VerifyForge)
  <2> DEFINE one(n) == <<Step("format", n, 0)>>
             two(n) == <<[Step("resolve", n, 0) EXCEPT !.err = IF ForgeDNSAddress THEN Fail ELSE 1]>>
             three(n) == <<Step("read", n, "certificate"),
                           [Polled(Retries, Step("verify", n, 0)) EXCEPT !.err = 1]>>
             ones == [i \in DOMAIN Wss |-> one(Wss[i])]
             twos == [i \in DOMAIN Wss |-> two(Wss[i])]
             threes == [i \in DOMAIN Wss |-> three(Wss[i])]
  <2>1. VerifyForge = FlattenSeq(ones) \o FlattenSeq(twos) \o FlattenSeq(threes)
    BY DEF VerifyForge, ForEach
  <2>2. \A n : AllPlain(one(n))
    BY StepPlain, PlainTuples DEF Paying
  <2>3. ASSUME NEW n PROVE AllPlain(two(n)) /\ AllPlain(three(n))
    <3>1. Plain([Step("resolve", n, 0) EXCEPT !.err = IF ForgeDNSAddress THEN Fail ELSE 1])
      BY DEF Step, Plain, Sound, Paying, Fail, Retry
    <3>2. Plain([Polled(Retries, Step("verify", n, 0)) EXCEPT !.err = 1])
      BY DEF Polled, Step, Plain, Sound, Paying, Fail, Retry
    <3>4. Plain(Step("read", n, "certificate"))
      BY StepPlain DEF Paying
    <3>3. QED
      BY <3>1, <3>2, <3>4, PlainTuples
  <2> HIDE DEF one, two, three
  <2>4. AllPlain(FlattenSeq(ones)) /\ AllPlain(FlattenSeq(twos)) /\ AllPlain(FlattenSeq(threes))
    BY <2>2, <2>3, WssPlain
  <2> HIDE DEF ones, twos, threes
  <2>5. QED
    BY <2>1, <2>4, PlainJoined
<1>3. AllPlain(TestWSSConnectivity)
  BY ConnectivityPlain, PlainJoined DEF TestWSSConnectivity
<1>4. AllPlain(TestUltraLightConnectivity)
  <2> DEFINE all == [i \in DOMAIN LightNodeNames |-> TestConnectivity(LightNodeNames[i])]
  <2>1. TestUltraLightConnectivity = FlattenSeq(all)
    BY DEF TestUltraLightConnectivity, ForEach
  <2>2. QED
    BY <2>1, ConnectivityPlain, NamesListed, NamesPlain
<1>5. \A when : AllPlain(Snapshots(when))
  <2> SUFFICES ASSUME NEW when PROVE AllPlain(Snapshots(when))
    OBVIOUS
  <2> DEFINE all == [i \in DOMAIN Wss |-> <<Ignored(Step("snapshot", Wss[i], when))>>]
  <2>1. Snapshots(when) = FlattenSeq(all)
    BY DEF Snapshots, ForEach
  <2>2. \A i : AllPlain(<<Ignored(Step("snapshot", Wss[i], when))>>)
    BY StepPlain, PlainTuples DEF Paying
  <2>3. QED
    BY <2>1, <2>2, WssPlain
<1>6. AllPlain(VerifyCertificateRenewal)
  <2> DEFINE a == <<[Step("reachable", 1, 0) EXCEPT !.no = 7]>>
             b == <<[Step("renewed", 1, 0) EXCEPT !.ok = 4, !.no = 1]>>
             c == <<Step("renewed", 1, 0)>>
  <2>1. VerifyCertificateRenewal = Snapshots("before") \o a \o Snapshots("after") \o b \o Snapshots("after") \o c
    BY DEF VerifyCertificateRenewal
  <2>2. AllPlain(a) /\ AllPlain(b) /\ AllPlain(c)
    <3>1. Plain([Step("reachable", 1, 0) EXCEPT !.no = 7])
      BY DEF Step, Plain, Sound, Paying, Fail, Retry
    <3>2. Plain([Step("renewed", 1, 0) EXCEPT !.ok = 4, !.no = 1])
      BY DEF Step, Plain, Sound, Paying, Fail, Retry
    <3>3. Plain(Step("renewed", 1, 0))
      BY StepPlain DEF Paying
    <3>4. QED
      BY <3>1, <3>2, <3>3, PlainTuples
  <2> HIDE DEF a, b, c
  <2>3. AllPlain(Snapshots("before") \o a \o Snapshots("after"))
    BY <1>5, <2>2, PlainJoined
  <2>4. AllPlain(Snapshots("before") \o a \o Snapshots("after") \o b)
    BY <2>2, <2>3, PlainJoined
  <2>5. AllPlain(Snapshots("before") \o a \o Snapshots("after") \o b \o Snapshots("after"))
    BY <1>5, <2>4, PlainJoined
  <2>6. QED
    BY <2>1, <2>2, <2>5, PlainJoined
<1>7. AllPlain(<<Step("read", 1, "forge domain")>>)
  BY StepPlain, PlainTuples DEF Paying
<1>8. AllPlain(VerifyWSSUnderlays \o <<Step("read", 1, "forge domain")>> \o VerifyForge)
  BY <1>1, <1>2, <1>7, PlainJoined
<1> DEFINE z == VerifyWSSUnderlays \o <<Step("read", 1, "forge domain")>> \o VerifyForge
<1>9. AutoTls = z \o TestWSSConnectivity \o TestUltraLightConnectivity \o
                VerifyCertificateRenewal \o TestWSSConnectivity
  BY DEF AutoTls
<1> HIDE DEF z
<1>10. AllPlain(z \o TestWSSConnectivity \o TestUltraLightConnectivity)
  BY <1>3, <1>4, <1>8, PlainJoined DEF z
<1>11. AllPlain(z \o TestWSSConnectivity \o TestUltraLightConnectivity \o VerifyCertificateRenewal)
  BY <1>6, <1>10, PlainJoined
<1>12. QED
  BY <1>3, <1>9, <1>11, PlainJoined


Purchasing == {"gc", "postage", "simpushsync"}

LEMMA ScriptFresh ==
  ASSUME check \in CheckNames \ Purchasing, hood \in {{}, Full}
  PROVE  Fresh(Script(check))
<1>1. IsFiniteSet(hood) /\ IsFiniteSet(Items)
  BY ClientAssumption, ContentAssumption, FS_EmptySet
<1>2. CASE check \in ContentCheckNames
  <2>1. Script(check) = ContentScript(check)
    BY <1>2 DEF Script, ContentCheckNames, AccountingCheckNames, TopologyCheckNames
  <2>2. Fresh(FeedAvailability)
    BY StepSteady, SteadyTuples DEF FeedAvailability, DownloadFile, Paying, Frugal, Fresh
  <2>3. CASE check \in {"pushsync", "chunks", "light", "pullsync"}
    BY <1>1, <2>1, <2>3, PushsyncFrugal, PushsyncChunksFrugal, PushsyncLightFrugal, PullsyncFrugal
       DEF ContentScript, Frugal, Fresh
  <2>4. CASE check \in {"retrieval", "fileretrieval", "full", "soc"}
    BY <2>1, <2>4, RetrievalFrugal, FileRetrievalFrugal, FileRetrievalFullFrugal, SocFrugal
       DEF ContentScript, Frugal, Fresh
  <2>5. CASE check \in {"redundancy", "manifest", "manifest2", "feed", "feed2"}
    BY <1>1, <2>1, <2>5, RedundancyFrugal, ManifestFrugal, ManifestV2Frugal, FeedFrugal, FeedV2Frugal
       DEF ContentScript, Frugal, Fresh
  <2>6. CASE check \in {"availability", "act", "smoke", "longavailability"}
    BY <2>1, <2>2, <2>6, ActFresh, SmokeFresh, LongAvailabilityFresh DEF ContentScript
  <2>7. CASE check \in {"networkavailability", "simupload", "simretrieval"}
    BY <2>1, <2>7, NetworkAvailabilityFresh, SimulateUploadFrugal, SimulateRetrievalFrugal
       DEF ContentScript, Frugal, Fresh
  <2>8. QED
    BY <1>2, <2>3, <2>4, <2>5, <2>6, <2>7 DEF ContentCheckNames, Purchasing
<1>3. CASE check \in AccountingCheckNames
  <2>1. Script(check) = AccountingScript(check)
    BY <1>3 DEF Script, ContentCheckNames, AccountingCheckNames, TopologyCheckNames
  <2>2. Fresh(Cashout) /\ Fresh(Stake) /\ Fresh(Withdraw)
    BY CashoutPlain, StakePlain, WithdrawPlain, PlainFresh
  <2>3. QED
    BY <1>3, <2>1, <2>2, AccountsFresh DEF AccountingScript, AccountingCheckNames
<1>4. CASE check \in TopologyCheckNames
  <2>1. Script(check) = TopologyScript(check)
    BY <1>4 DEF Script, ContentCheckNames, AccountingCheckNames, TopologyCheckNames
  <2>2. Fresh(Kademlia) /\ Fresh(KademliaDynamic) /\ Fresh(FullConnectivity) /\ Fresh(PeerCount) /\ Fresh(AutoTls)
    BY PeerChecksPlain, AutoTlsPlain, PlainFresh
  <2>3. QED
    BY <1>4, <2>1, <2>2 DEF TopologyScript, TopologyCheckNames
<1>5. QED
  BY <1>2, <1>3, <1>4 DEF CheckNames

-----------------------------------------------------------------------------
(* One answer.  The request is made again, or the check ends, or it goes on *)
(* to a later request.                                                      *)

Answers == {"ok", "no", "err"}

TriesAgain(a) == Head(todo)[a] = Retry /\ tries + 1 < Head(todo).max /\ tries' = tries + 1 /\ UNCHANGED <<todo, verdict>>
Ends == tries' = 0 /\ todo' = <<>> /\ verdict' \in {"pass", "fail"}
GoesOn(d) ==
  /\ tries' = 0 /\ verdict' = verdict /\ IsSeq(todo') /\ Len(todo') = Len(todo) - d
  /\ \A i \in 1..(Len(todo) - d) : todo'[i] = todo[d + i]

\* the decision taken on the answer
Chosen(a) == IF Head(todo)[a] = Retry THEN Head(todo).out ELSE Head(todo)[a]

LEMMA HeadIsFirst == ASSUME NEW s, IsSeq(s), s # <<>> PROVE Head(s) = s[1] /\ Len(s) \in Nat \ {0}
<1>1. s \in Seq(Elements(s)) /\ Len(s) \in Nat
  BY SeqOfElements DEF IsSeq
<1>2. QED
  BY <1>1

LEMMA Answered ==
  ASSUME IsSeq(todo), todo # <<>>, Sound(Head(todo)), NEW a \in Answers, Answer(a)
  PROVE  \/ TriesAgain(a)
         \/ Ends /\ (verdict' = "pass" => Chosen(a) \in Nat /\ Len(todo) <= Chosen(a))
         \/ Chosen(a) \in 1..(Len(todo) - 1) /\ GoesOn(Chosen(a))
<1>1. CASE Head(todo)[a] = Retry /\ tries + 1 < Head(todo).max
  BY <1>1 DEF Answer, TriesAgain
<1>2. CASE ~(Head(todo)[a] = Retry /\ tries + 1 < Head(todo).max)
  <2> DEFINE d == Chosen(a)
  <2>1. tries' = 0 /\ Decide(d)
    BY <1>2 DEF Answer, Chosen
  <2>2. d \in (Nat \cup {Fail}) \ {Retry}
    BY DEF Sound, Chosen, Answers, Fail, Retry
  <2>3. Len(todo) \in Nat \ {0}
    BY HeadIsFirst
  <2> HIDE DEF d
  <2>4. CASE d = Fail
    <3>1. ~(Len(todo) <= d)
      BY <2>3, <2>4 DEF Fail
    <3>2. todo' = <<>> /\ verdict' = "fail"
      BY <2>1, <2>4, <3>1 DEF Decide
    <3>3. QED
      BY <2>1, <2>4, <3>2 DEF Ends, d
  <2>5. CASE d # Fail /\ Len(todo) <= d
    <3>1. SubSeq(todo, d + 1, Len(todo)) = <<>>
      <4>1. todo \in Seq(Elements(todo))
        BY SeqOfElements
      <4>2. QED
        BY <2>2, <2>3, <2>5, <4>1 DEF Fail, Retry
    <3>2. d \in Nat /\ Len(todo) <= d /\ todo' = <<>> /\ verdict' = "pass"
      BY <2>1, <2>2, <2>5, <3>1 DEF Decide
    <3>3. QED
      BY <2>1, <3>2 DEF Ends, d
  <2>6. CASE d # Fail /\ ~(Len(todo) <= d)
    <3>1. d \in 1..(Len(todo) - 1) /\ d \in 1..Len(todo)
      BY <2>2, <2>3, <2>6 DEF Retry
    <3>2. todo' = SubSeq(todo, d + 1, Len(todo)) /\ verdict' = verdict
      BY <2>1, <2>6 DEF Decide
    <3>3. GoesOn(d)
      BY <2>1, <3>1, <3>2, Rest DEF GoesOn
    <3>4. QED
      BY <3>1, <3>3 DEF d
  <2>7. QED
    BY <2>4, <2>5, <2>6
<1>3. QED
  BY <1>1, <1>2

\* A walk goes on as one, and enters a purchase or its polls only where it may.
LEMMA WalkGoesOn ==
  ASSUME Walk(todo), todo # <<>>, NEW a \in Answers, Chosen(a) \in 1..(Len(todo) - 1), GoesOn(Chosen(a))
  PROVE  /\ Walk(todo') /\ todo' # <<>> /\ Head(todo') = todo[1 + Chosen(a)]
         /\ Head(todo').op = "buy" => a = "no" /\ Head(todo).op = "list" /\ Head(todo).n = Head(todo').n
         /\ Head(todo').op = "usable" => a = "ok" /\ Head(todo).op = "buy" /\ Head(todo).n = Head(todo').n
<1> DEFINE d == Chosen(a)
<1>0. d \in 1..(Len(todo) - 1) /\ GoesOn(d) /\ d \in {Head(todo)[a], Head(todo).out}
  BY DEF Chosen
<1>1. IsSeq(todo) /\ IsSeq(todo') /\ Head(todo) = todo[1] /\ Len(todo) \in Nat \ {0}
  BY <1>0, HeadIsFirst DEF Walk, GoesOn
<1> HIDE DEF d
<1>2. /\ Len(todo') = Len(todo) - d /\ Len(todo') \in Nat \ {0}
      /\ \A i \in 1..Len(todo') : todo'[i] = todo[d + i] /\ d + i \in 1..Len(todo)
  <2>1. /\ Len(todo') = Len(todo) - d
        /\ \A i \in 1..(Len(todo) - d) : todo'[i] = todo[d + i]
    BY <1>0 DEF GoesOn
  <2>2. Len(todo) - d \in Nat \ {0} /\ \A i \in 1..(Len(todo) - d) : d + i \in 1..Len(todo)
    BY <1>0, <1>1
  <2>3. QED
    BY <2>1, <2>2
<1>3. todo' # <<>> /\ Head(todo') = todo[1 + d]
  <2>1. todo' # <<>>
    BY <1>2, Nil
  <2>2. Head(todo') = todo'[1]
    BY <1>1, <2>1, HeadIsFirst
  <2>3. QED
    BY <1>0, <1>2, <2>1, <2>2
<1>4. Walk(todo')
  <2>1. \A i \in 1..Len(todo') : Sound(todo'[i])
    BY <1>2 DEF Walk
  <2>2. ASSUME NEW i \in 1..Len(todo'), NEW j \in 1..Len(todo'), i < j
        PROVE  Entry(todo'[i], j - i, todo'[j])
    <3>1. d + i < d + j /\ (d + j) - (d + i) = j - i
      BY <1>0, <1>1, <1>2, <2>2
    <3>2. Entry(todo[d + i], (d + j) - (d + i), todo[d + j])
      BY <1>2, <3>1 DEF Walk
    <3>3. QED
      BY <1>2, <3>1, <3>2
  <2>3. ASSUME NEW i \in 1..Len(todo'), todo'[i].op = "buy"
        PROVE  i + 1 \in 1..Len(todo') /\ Awaited(todo'[i], todo'[i + 1])
    <3>1. d + i \in 1..Len(todo) /\ todo'[i] = todo[d + i]
      BY <1>2
    <3>2. (d + i) + 1 \in 1..Len(todo) /\ Awaited(todo[d + i], todo[(d + i) + 1])
      BY <2>3, <3>1 DEF Walk
    <3>3. i + 1 \in 1..Len(todo') /\ (d + i) + 1 = d + (i + 1)
      BY <1>0, <1>1, <1>2, <3>2
    <3>4. QED
      BY <1>2, <3>1, <3>2, <3>3
  <2>4. QED
    BY <1>1, <2>1, <2>2, <2>3 DEF Walk
<1>5. Entry(todo[1], d, todo[1 + d])
  <2>1. 1 \in 1..Len(todo) /\ 1 + d \in 1..Len(todo) /\ 1 < 1 + d /\ (1 + d) - 1 = d
    BY <1>0, <1>1
  <2>2. Entry(todo[1], (1 + d) - 1, todo[1 + d])
    BY <2>1 DEF Walk
  <2>3. QED
    BY <2>1, <2>2
<1>6. QED
  BY <1>0, <1>1, <1>3, <1>4, <1>5 DEF Entry, Answers, d


-----------------------------------------------------------------------------
(* Why a second batch is paid for.                                          *)

Counted ==
  /\ pend \in [Nodes -> Nat] /\ use \in [Nodes -> Nat]
  /\ bought \in [Nodes -> Nat] /\ excuse \in [Nodes -> Nat]

\* the check is at the purchase, or at its polls, for node n
Here(op, n) == todo # <<>> /\ Head(todo).op = op /\ Head(todo).n = n

\* A batch that was paid for without an excuse is usable, or the check still
\* waits for it; and whoever is about to buy has an excuse for every purchase.
Accounted(n) ==
  /\ bought[n] <= 1 + excuse[n]
  /\ bought[n] = 1 + excuse[n] => use[n] > 0 \/ (pend[n] > 0 /\ Here("usable", n))
  /\ Here("buy", n) => bought[n] <= excuse[n]

\* The run of a check that buys through GetOrCreateMutableBatch.
Run ==
  /\ tries \in Nat /\ Walk(todo)
  /\ verdict # "none" => todo = <<>>
  /\ At("usable") => tries < Head(todo).max

PaysInv ==
  /\ check \in CheckNames /\ hood \in {{}, Full} /\ Counted
  /\ check \notin Purchasing => Run /\ \A n \in Nodes : Accounted(n)

\* What the checks ask for outside of GetOrCreateMutableBatch.
Elsewhere ==
  /\ todo # <<>> /\ Head(todo).op \notin {"list", "buy", "usable"}
  /\ \/ \E a \in Answers : Answer(a)
     \/ todo' = <<>> /\ tries' = 0 /\ verdict' = "panic"
  /\ UNCHANGED <<check, runs, near, home, hood, pend, use, bought, excuse>>

\* An answer at request r keeps the run in order, and what it can lead to.
LEMMA RunGoesOn ==
  ASSUME Run, todo # <<>>, NEW a \in Answers, Answer(a)
  PROVE  /\ Run'
         /\ \A n : Here("buy", n)' => (a = "no" /\ Here("list", n)) \/ (Here("buy", n) /\ todo' = todo)
         /\ \A n : Here("usable", n)' => (a = "ok" /\ Here("buy", n)) \/ (Here("usable", n) /\ todo' = todo)
         /\ todo' = todo => Head(todo)[a] = Retry /\ tries + 1 < Head(todo).max
         /\ verdict = "none"
<1>0. verdict = "none" /\ Walk(todo) /\ tries \in Nat
  BY DEF Run
<1>1. IsSeq(todo) /\ Head(todo) = todo[1] /\ Len(todo) \in Nat \ {0} /\ Sound(Head(todo))
  <2>1. IsSeq(todo) /\ Head(todo) = todo[1] /\ Len(todo) \in Nat \ {0}
    BY <1>0, HeadIsFirst DEF Walk
  <2>2. Sound(todo[1])
    BY <1>0, <2>1 DEF Walk
  <2>3. QED
    BY <2>1, <2>2
<1>2. CASE TriesAgain(a)
  <2>1. todo' = todo /\ verdict' = verdict /\ tries' = tries + 1
        /\ Head(todo)[a] = Retry /\ tries + 1 < Head(todo).max
    BY <1>2 DEF TriesAgain
  <2>2. Run'
    BY <1>0, <2>1 DEF Run, At
  <2>3. QED
    BY <1>0, <2>1, <2>2 DEF Here
<1>3. CASE Ends
  <2>1. todo' = <<>> /\ tries' = 0
    BY <1>3 DEF Ends
  <2>2. Walk(<<>>)
    BY NilFrugal DEF Frugal
  <2>3. Run'
    BY <2>1, <2>2 DEF Run, At
  <2>4. QED
    BY <1>0, <2>1, <2>3 DEF Here
<1>4. CASE Chosen(a) \in 1..(Len(todo) - 1) /\ GoesOn(Chosen(a))
  <2>1. /\ Walk(todo') /\ todo' # <<>>
        /\ Head(todo').op = "buy" => a = "no" /\ Head(todo).op = "list" /\ Head(todo).n = Head(todo').n
        /\ Head(todo').op = "usable" => a = "ok" /\ Head(todo).op = "buy" /\ Head(todo).n = Head(todo').n
    BY <1>0, <1>4, WalkGoesOn
  <2>2. tries' = 0 /\ verdict' = verdict /\ Len(todo') = Len(todo) - Chosen(a)
    BY <1>4 DEF GoesOn
  <2>3. todo' # todo
    BY <1>1, <1>4, <2>2
  <2>4. At("usable")' => 0 < Head(todo').max
    <3>1. IsSeq(todo') /\ Head(todo') = todo'[1] /\ 1 \in 1..Len(todo')
      BY <2>1, HeadIsFirst DEF Walk
    <3>2. Sound(Head(todo'))
      BY <2>1, <3>1 DEF Walk
    <3>3. QED
      BY <3>2 DEF Sound, At
  <2>5. Run'
    BY <1>0, <2>1, <2>2, <2>4 DEF Run
  <2>6. QED
    BY <1>0, <2>1, <2>3, <2>5 DEF Here
<1>5. QED
  BY <1>1, <1>2, <1>3, <1>4, Answered

LEMMA ElsewherePays == ASSUME PaysInv, Elsewhere PROVE PaysInv'
<1>1. check' = check /\ hood' = hood /\ pend' = pend /\ use' = use /\ bought' = bought /\ excuse' = excuse
  BY DEF Elsewhere
<1>2. SUFFICES ASSUME check \notin Purchasing PROVE Run' /\ \A n \in Nodes : Accounted(n)'
  BY <1>1 DEF PaysInv, Counted
<1>3. Run /\ \A n \in Nodes : Accounted(n)
  BY <1>2 DEF PaysInv
<1>4. \A n : ~Here("buy", n) /\ ~Here("list", n) /\ ~Here("usable", n)
  BY DEF Elsewhere, Here
<1>5. Run' /\ \A n : ~Here("buy", n)' /\ ~Here("usable", n)'
  <2>1. CASE todo' = <<>> /\ tries' = 0
    <3>1. Walk(<<>>)
      BY NilFrugal DEF Frugal
    <3>2. QED
      BY <2>1, <3>1 DEF Run, At, Here
  <2>2. CASE \E a \in Answers : Answer(a)
    BY <1>3, <1>4, <2>2, RunGoesOn DEF Elsewhere
  <2>3. QED
    BY <2>1, <2>2 DEF Elsewhere
<1>6. QED
  BY <1>1, <1>3, <1>4, <1>5 DEF Accounted

LEMMA ListPays == ASSUME PaysInv, List, UNCHANGED hood PROVE PaysInv'
<1>1. /\ todo # <<>> /\ Head(todo).op = "list"
      /\ check' = check /\ pend' = pend /\ use' = use /\ bought' = bought /\ excuse' = excuse
      /\ \/ Answer("ok") \/ Answer("err")
         \/ Answer("no") /\ ~(use[Head(todo).n] > 0)
  BY DEF List, At, RightOrNot, Reply, Breaks, batches
<1>2. SUFFICES ASSUME check \notin Purchasing PROVE Run' /\ \A n \in Nodes : Accounted(n)'
  BY <1>1 DEF PaysInv, Counted
<1>3. Run /\ Counted /\ \A n \in Nodes : Accounted(n)
  BY <1>2 DEF PaysInv
<1>4. \A n : ~Here("buy", n) /\ ~Here("usable", n)
  BY <1>1 DEF Here
<1>5. Run' /\ \A n : ~Here("usable", n)' /\ (Here("buy", n)' => Here("list", n) /\ ~(use[n] > 0))
  <2>1. CASE Answer("ok") \/ Answer("err")
    BY <1>1, <1>3, <1>4, <2>1, RunGoesOn DEF Answers
  <2>2. CASE Answer("no") /\ ~(use[Head(todo).n] > 0)
    BY <1>1, <1>3, <1>4, <2>2, RunGoesOn DEF Answers, Here
  <2>3. QED
    BY <1>1, <2>1, <2>2
<1>6. ASSUME NEW n \in Nodes PROVE Accounted(n)'
  <2>1. Accounted(n) /\ bought[n] \in Nat /\ excuse[n] \in Nat
    BY <1>3 DEF Counted
  <2>2. bought[n] = 1 + excuse[n] => use[n] > 0
    BY <1>4, <2>1 DEF Accounted
  <2>3. Here("buy", n)' => bought[n] <= excuse[n]
    BY <1>5, <2>1, <2>2 DEF Accounted
  <2>4. QED
    BY <1>1, <2>1, <2>2, <2>3 DEF Accounted
<1>7. QED
  BY <1>5, <1>6

\* The purchase is answered: the polls for it come next.
LEMMA BuyAwaits ==
  ASSUME Run, todo # <<>>, Head(todo).op = "buy", Answer("ok"), NEW n, Head(todo).n = n
  PROVE  Here("usable", n)'
<1>1. IsSeq(todo) /\ Head(todo) = todo[1] /\ 1 \in 1..Len(todo) /\ Len(todo) \in Nat
  BY HeadIsFirst DEF Run, Walk
<1>2. 1 + 1 \in 1..Len(todo) /\ Awaited(todo[1], todo[1 + 1]) /\ Sound(Head(todo))
  BY <1>1 DEF Run, Walk
<1>3. Chosen("ok") = 1 /\ Head(todo)["ok"] = 1
  BY <1>1, <1>2 DEF Chosen, Awaited, Retry
<1>4. ~TriesAgain("ok") /\ Len(todo) > 1
  BY <1>1, <1>2, <1>3 DEF TriesAgain, Retry
<1>5. tries' = 0 /\ Decide(1)
  BY <1>3 DEF Answer, Retry
<1>6. ~Ends
  BY <1>1, <1>4, <1>5 DEF Ends, Decide, Fail, Run
<1>7. GoesOn(1) /\ 1 \in 1..(Len(todo) - 1)
  BY <1>1, <1>2, <1>3, <1>4, <1>6, Answered DEF Answers
<1>8. todo' # <<>> /\ Head(todo') = todo[1 + 1]
  BY <1>3, <1>7, WalkGoesOn DEF Answers, Run
<1>9. QED
  BY <1>1, <1>2, <1>8 DEF Here, Awaited


\* The purchase: one more batch, and an excuse when the response is lost.
LEMMA BuyPays == ASSUME PaysInv, Buy, UNCHANGED hood PROVE PaysInv'
<1> DEFINE m == Head(todo).n
<1>1. /\ todo # <<>> /\ Head(todo).op = "buy" /\ check' = check /\ use' = use /\ hood' = hood
      /\ \/ /\ Answer("ok") /\ pend' = [pend EXCEPT ![m] = @ + 1]
            /\ bought' = [bought EXCEPT ![m] = @ + 1] /\ excuse' = excuse
         \/ /\ Answer("err") /\ pend' = [pend EXCEPT ![m] = @ + 1]
            /\ bought' = [bought EXCEPT ![m] = @ + 1]
            /\ excuse' = [excuse EXCEPT ![m] = @ + 1]
         \/ Answer("err") /\ pend' = pend /\ bought' = bought /\ excuse' = excuse
  BY DEF Buy, At, Reply, Breaks
<1>2. Counted
  BY DEF PaysInv
<1>3. Counted'
  <2>1. pend' \in [Nodes -> Nat]
    BY <1>1, <1>2 DEF Counted
  <2>2. bought' \in [Nodes -> Nat]
    <3>1. bought \in [Nodes -> Nat]
      BY <1>2 DEF Counted
    <3>2. bought' = bought \/ bought' = [bought EXCEPT ![m] = @ + 1]
      BY <1>1
    <3> HIDE DEF m
    <3>3. QED
      BY <3>1, <3>2
  <2>3. excuse' \in [Nodes -> Nat]
    BY <1>1, <1>2 DEF Counted
  <2>4. QED
    BY <1>1, <1>2, <2>1, <2>2, <2>3 DEF Counted
<1>4. SUFFICES ASSUME check \notin Purchasing PROVE Run' /\ \A n \in Nodes : Accounted(n)'
  BY <1>1, <1>3 DEF PaysInv
<1>5. Run /\ \A n \in Nodes : Accounted(n)
  BY <1>4 DEF PaysInv
<1>6. Here("buy", m) /\ \A n : (Here("buy", n) => n = m) /\ ~Here("usable", n) /\ ~Here("list", n)
  BY <1>1 DEF Here
<1>7. Run' /\ \A n : (Here("buy", n)' => n = m)
  BY <1>1, <1>5, <1>6, RunGoesOn DEF Answers
<1> HIDE DEF m
<1>8. ASSUME NEW n \in Nodes, n # m PROVE Accounted(n)'
  <2>1. pend'[n] = pend[n] /\ bought'[n] = bought[n] /\ excuse'[n] = excuse[n] /\ use'[n] = use[n]
    BY <1>1, <1>2, <1>8 DEF Counted
  <2>2. Accounted(n) /\ ~Here("usable", n) /\ ~Here("buy", n)'
    BY <1>5, <1>6, <1>7, <1>8
  <2>3. QED
    BY <2>1, <2>2 DEF Accounted
<1>9. ASSUME NEW n \in Nodes, n = m PROVE Accounted(n)'
  <2>0. /\ bought[n] <= excuse[n] /\ bought[n] \in Nat /\ excuse[n] \in Nat /\ pend[n] \in Nat
    BY <1>2, <1>5, <1>6, <1>9 DEF Accounted, Counted
  <2>1. CASE /\ Answer("ok") /\ pend' = [pend EXCEPT ![m] = @ + 1]
             /\ bought' = [bought EXCEPT ![m] = @ + 1] /\ excuse' = excuse
    <3>1. pend'[n] = pend[n] + 1 /\ bought'[n] = bought[n] + 1 /\ excuse'[n] = excuse[n]
      BY <1>2, <1>9, <2>1 DEF Counted
    <3>2. Here("usable", n)'
      BY <1>1, <1>5, <1>9, <2>1, BuyAwaits DEF m
    <3>3. ~Here("buy", n)'
      BY <3>2 DEF Here
    <3>4. QED
      BY <2>0, <3>1, <3>2, <3>3 DEF Accounted
  <2>2. CASE /\ pend' = [pend EXCEPT ![m] = @ + 1]
             /\ bought' = [bought EXCEPT ![m] = @ + 1]
             /\ excuse' = [excuse EXCEPT ![m] = @ + 1]
    <3>1. bought'[n] = bought[n] + 1 /\ excuse'[n] = excuse[n] + 1
      BY <1>2, <1>9, <2>2 DEF Counted
    <3>2. QED
      BY <2>0, <3>1 DEF Accounted
  <2>3. CASE bought' = bought /\ excuse' = excuse
    BY <2>0, <2>3 DEF Accounted
  <2>4. QED
    BY <1>1, <2>1, <2>2, <2>3 DEF m
<1>10. QED
  BY <1>7, <1>8, <1>9

\* A poll: the last one that does not see the batch is an excuse.
LEMMA UsablePays == ASSUME PaysInv, Usable, UNCHANGED hood PROVE PaysInv'
<1> DEFINE m == Head(todo).n
           last == tries + 1 = Head(todo).max
<1>1. /\ todo # <<>> /\ Head(todo).op = "usable" /\ check' = check /\ hood' = hood
      /\ pend' = pend /\ use' = use /\ bought' = bought
      /\ \/ pend[m] = 0 /\ Answer("ok") /\ excuse' = excuse
         \/ /\ Answer("no") \/ Answer("err")
            /\ excuse' = [excuse EXCEPT ![m] = IF last THEN @ + 1 ELSE @]
  BY DEF Usable, At, Reply, Breaks
<1>2. Counted
  BY DEF PaysInv
<1>3. Counted'
  <2>1. excuse' \in [Nodes -> Nat]
    BY <1>1, <1>2 DEF Counted
  <2>2. QED
    BY <1>1, <1>2, <2>1 DEF Counted
<1>4. SUFFICES ASSUME check \notin Purchasing PROVE Run' /\ \A n \in Nodes : Accounted(n)'
  BY <1>1, <1>3 DEF PaysInv
<1>5. Run /\ \A n \in Nodes : Accounted(n)
  BY <1>4 DEF PaysInv
<1>6. \A n : (Here("usable", n) => n = m) /\ ~Here("buy", n) /\ ~Here("list", n)
  BY <1>1 DEF Here
<1>7. Run' /\ \A n : ~Here("buy", n)'
  BY <1>1, <1>5, <1>6, RunGoesOn DEF Answers
<1>8. ASSUME NEW n \in Nodes, n # m PROVE Accounted(n)'
  <2>1. excuse'[n] = excuse[n]
    BY <1>1, <1>2, <1>8 DEF Counted
  <2>2. Accounted(n) /\ ~Here("usable", n) /\ ~Here("buy", n)'
    BY <1>5, <1>6, <1>7, <1>8
  <2>3. QED
    BY <1>1, <2>1, <2>2 DEF Accounted
<1>9. ASSUME NEW n \in Nodes, n = m PROVE Accounted(n)'
  <2>0. /\ Accounted(n) /\ bought[n] \in Nat /\ excuse[n] \in Nat /\ pend[n] \in Nat /\ ~Here("buy", n)'
    BY <1>2, <1>5, <1>7, <1>9 DEF Counted
  <2>1. CASE pend[n] = 0 /\ excuse' = excuse
    BY <1>1, <2>0, <2>1 DEF Accounted
  <2>2. CASE last /\ excuse' = [excuse EXCEPT ![m] = IF last THEN @ + 1 ELSE @]
    <3>1. excuse'[n] = excuse[n] + 1
      BY <1>2, <1>9, <2>2 DEF Counted
    <3>2. QED
      BY <1>1, <2>0, <3>1 DEF Accounted
  <2>3. CASE ~last /\ (Answer("no") \/ Answer("err")) /\ excuse' = [excuse EXCEPT ![m] = IF last THEN @ + 1 ELSE @]
    <3>1. excuse'[n] = excuse[n]
      BY <1>2, <1>9, <2>3 DEF Counted
    <3>2. Sound(Head(todo)) /\ tries \in Nat /\ tries < Head(todo).max
      <4>1. IsSeq(todo) /\ Head(todo) = todo[1] /\ 1 \in 1..Len(todo)
        BY <1>1, <1>5, HeadIsFirst DEF Run, Walk
      <4>2. QED
        BY <1>1, <1>5, <4>1 DEF Run, Walk, At
    <3>3. Head(todo).no = Retry /\ Head(todo).err = Retry /\ tries + 1 < Head(todo).max
      BY <1>1, <2>3, <3>2 DEF Sound
    <3>4. todo' = todo
      BY <2>3, <3>3 DEF Answer
    <3>5. QED
      BY <1>1, <2>0, <3>1, <3>4 DEF Accounted, Here
  <2>4. QED
    BY <1>1, <1>9, <2>1, <2>2, <2>3
<1>10. QED
  BY <1>7, <1>8, <1>9


\* Every other request leaves the batches alone.
LEMMA BatchElsewhere ==
  ASSUME Read \/ StampIs \/ TopUp \/ Dilute \/ Increased, UNCHANGED content
  PROVE  Elsewhere
<1>1. CASE Read
  BY <1>1 DEF Read, At, Reply, Breaks, Answers, Elsewhere, batches, content
<1>2. CASE StampIs
  BY <1>2 DEF StampIs, At, RightOrNot, Reply, Breaks, Answers, Elsewhere, batches, content
<1>3. CASE TopUp
  BY <1>3 DEF TopUp, At, Reply, Breaks, Answers, Elsewhere, batches, content
<1>4. CASE Dilute
  BY <1>4 DEF Dilute, At, Reply, Breaks, Answers, Elsewhere, batches, content
<1>5. CASE Increased
  BY <1>5 DEF Increased, At, RightOrNot, Reply, Breaks, Answers, Elsewhere, batches, content
<1>6. QED
  BY <1>1, <1>2, <1>3, <1>4, <1>5

LEMMA ContentElsewhere == ASSUME ContentStep PROVE Elsewhere
<1>1. CASE Upload
  BY <1>1 DEF Upload, At, Reply, Breaks, Answers, Elsewhere, batches, content
<1>2. CASE Push
  BY <1>2 DEF Push, At, Reply, Breaks, Answers, Elsewhere, batches, content
<1>3. CASE Has
  BY <1>3 DEF Has, At, RightOrNot, Reply, Breaks, Answers, Elsewhere, batches, content
<1>4. CASE Download
  BY <1>4 DEF Download, At, Reply, Breaks, Answers, Elsewhere, batches, content
<1>5. CASE GlobalReplicationFactor
  BY <1>5 DEF GlobalReplicationFactor, At, RightOrNot, Reply, Breaks, Answers, Elsewhere, batches, content
<1>6. CASE GiveUp
  BY <1>6 DEF GiveUp, At, Reply, Breaks, Answers, Elsewhere, batches, content
<1>7. CASE UploadShort
  BY <1>7 DEF UploadShort, At, Reply, Breaks, Answers, Elsewhere, batches, content
<1>8. CASE DownloadShort
  BY <1>8 DEF DownloadShort, At, Reply, Breaks, Answers, Elsewhere, batches, content
<1>9. CASE UpdateFeed
  BY <1>9 DEF UpdateFeed, At, Reply, Breaks, Answers, Elsewhere, batches, content
<1>10. CASE FindFeed
  BY <1>10 DEF FindFeed, At, RightOrNot, Reply, Breaks, Answers, Elsewhere, batches, content
<1>11. CASE FeedFile
  BY <1>11 DEF FeedFile, At, RightOrNot, Reply, Breaks, Answers, Elsewhere, batches, content
<1>12. CASE Grant
  BY <1>12 DEF Grant, At, Reply, Breaks, Answers, Elsewhere, batches, content
<1>13. CASE Grantees
  BY <1>13 DEF Grantees, At, RightOrNot, Reply, Breaks, Answers, Elsewhere, batches, content
<1>14. CASE ActFile
  BY <1>14 DEF ActFile, At, Reply, Breaks, Answers, Elsewhere, batches, content
<1>15. CASE Reserve
  BY <1>15 DEF Reserve, At, RightOrNot, Reply, Breaks, Answers, Elsewhere, batches, content
<1>16. CASE UploadBulk
  BY <1>16 DEF UploadBulk, At, Reply, Breaks, Answers, Elsewhere, batches, content
<1>17. CASE Count
  BY <1>17 DEF Count, At, RightOrNot, Reply, Breaks, Answers, Elsewhere, batches, content
<1>18. CASE Unpin
  BY <1>18 DEF Unpin, At, Reply, Breaks, Answers, Elsewhere, batches, content
<1>19. QED
  BY <1>1, <1>2, <1>3, <1>4, <1>5, <1>6, <1>7, <1>8, <1>9, <1>10, <1>11, <1>12, <1>13, <1>14, <1>15, <1>16, <1>17, <1>18 DEF ContentStep

LEMMA AccountingElsewhere == ASSUME AccountingStep PROVE Elsewhere
<1>1. CASE Account
  BY <1>1 DEF Account, At, Reply, Breaks, Answers, Elsewhere, batches, others
<1>2. CASE SettlementsRead
  BY <1>2 DEF SettlementsRead, At, Reply, Breaks, Answers, Elsewhere, batches, others
<1>20. CASE BalancesValid \/ SettlementsValid
  BY <1>20 DEF BalancesValid, SettlementsValid, At, RightOrNot, Reply, Breaks, Answers, Elsewhere, batches, others
<1>3. CASE Happened
  BY <1>3 DEF Happened, At, RightOrNot, Reply, Breaks, Answers, Elsewhere, batches, others
<1>4. CASE Panics
  BY <1>4 DEF Panics, At, Reply, Breaks, Answers, Elsewhere, batches, others
<1>5. CASE Uncashed
  BY <1>5 DEF Uncashed, At, RightOrNot, Reply, Breaks, Answers, Elsewhere, batches, others
<1>6. CASE CashoutTx
  BY <1>6 DEF CashoutTx, At, Reply, Breaks, Answers, Elsewhere, batches, others
<1>7. CASE Confirmed
  BY <1>7 DEF Confirmed, At, RightOrNot, Reply, Breaks, Answers, Elsewhere, batches, others
<1>8. CASE Paid
  BY <1>8 DEF Paid, At, RightOrNot, Reply, Breaks, Answers, Elsewhere, batches, others
<1>9. CASE Session
  BY <1>9 DEF Session, At, Reply, Breaks, Answers, Elsewhere, batches, others
<1>10. CASE Running
  BY <1>10 DEF Running, At, RightOrNot, Reply, Breaks, Answers, Elsewhere, batches, others
<1>11. CASE StakeIs
  BY <1>11 DEF StakeIs, At, RightOrNot, Reply, Breaks, Answers, Elsewhere, batches, others
<1>12. CASE Deposit
  BY <1>12 DEF Deposit, At, RightOrNot, Reply, Breaks, Answers, Elsewhere, batches, others
<1>13. CASE Migrate
  BY <1>13 DEF Migrate, At, Reply, Breaks, Answers, Elsewhere, batches, others
<1>14. CASE Pause
  BY <1>14 DEF Pause, At, Reply, Breaks, Answers, Elsewhere, batches, others
<1>15. CASE WaitMined
  BY <1>15 DEF WaitMined, At, Reply, Breaks, Answers, Elsewhere, batches, others
<1>16. CASE Wallet
  BY <1>16 DEF Wallet, At, Reply, Breaks, Answers, Elsewhere, batches, others
<1>17. CASE WithdrawTx
  BY <1>17 DEF WithdrawTx, At, Reply, Breaks, Answers, Elsewhere, batches, others
<1>18. CASE Spent
  BY <1>18 DEF Spent, At, RightOrNot, Reply, Breaks, Answers, Elsewhere, batches, others
<1>19. QED
  BY <1>1, <1>2, <1>3, <1>4, <1>5, <1>6, <1>7, <1>8, <1>9, <1>10, <1>11, <1>12, <1>13, <1>14, <1>15, <1>16, <1>17, <1>18, <1>20 DEF AccountingStep

LEMMA TopologyElsewhere == ASSUME TopologyStep PROVE Elsewhere
<1>1. CASE ReadPeers
  BY <1>1 DEF ReadPeers, At, Reply, Breaks, Answers, Elsewhere, batches, others, rest
<1>2. CASE Judge
  BY <1>2 DEF Judge, At, RightOrNot, Reply, Breaks, Answers, Elsewhere, batches, others, rest
<1>3. CASE Underlay
  BY <1>3 DEF Underlay, At, RightOrNot, Reply, Breaks, Answers, Elsewhere, batches, others, rest
<1>4. CASE Format
  BY <1>4 DEF Format, At, RightOrNot, Reply, Breaks, Answers, Elsewhere, batches, others, rest
<1>5. CASE VerifyDNSResolution
  BY <1>5 DEF VerifyDNSResolution, At, Reply, Breaks, Answers, Elsewhere, batches, others, rest
<1>6. CASE VerifyNodeTLSCert
  BY <1>6 DEF VerifyNodeTLSCert, At, RightOrNot, Reply, Breaks, Answers, Elsewhere, batches, others, rest
<1>7. CASE ConnectPeer
  BY <1>7 DEF ConnectPeer, At, Reply, Breaks, Answers, Elsewhere, batches, others, rest
<1>8. CASE Snapshot
  BY <1>8 DEF Snapshot, At, Reply, Breaks, Answers, Elsewhere, batches, others, rest
<1>9. CASE Compare
  BY <1>9 DEF Compare, At, RightOrNot, Reply, Breaks, Answers, Elsewhere, batches, others, rest
<1>10. QED
  BY <1>1, <1>2, <1>3, <1>4, <1>5, <1>6, <1>7, <1>8, <1>9 DEF TopologyStep

LEMMA RequestPays == ASSUME PaysInv, Request PROVE PaysInv'
<1>1. CASE BatchStep /\ UNCHANGED <<content, accounts, topology>>
  <2>1. UNCHANGED content /\ UNCHANGED hood
    BY <1>1 DEF content
  <2>2. CASE Read \/ StampIs \/ TopUp \/ Dilute \/ Increased
    BY <2>1, <2>2, BatchElsewhere, ElsewherePays
  <2>3. QED
    BY <1>1, <2>1, <2>2, ListPays, BuyPays, UsablePays DEF BatchStep
<1>2. CASE ContentStep \/ AccountingStep \/ TopologyStep
  BY <1>2, ContentElsewhere, AccountingElsewhere, TopologyElsewhere, ElsewherePays
<1>3. QED
  BY <1>1, <1>2 DEF Request

\* A step of the cluster, that of a batch apart.
LEMMA UntouchedPays ==
  ASSUME PaysInv, UNCHANGED <<check, todo, tries, verdict, hood, pend, use, bought, excuse>>
  PROVE  PaysInv'
BY DEF PaysInv, Counted, Run, Accounted, Here, At

LEMMA MaturePays ==
  ASSUME PaysInv, NEW m \in Nodes, Mature(m), UNCHANGED hood
  PROVE  PaysInv'
<1>1. /\ UNCHANGED <<check, todo, tries, verdict, hood, bought, excuse>>
      /\ pend[m] > 0 /\ pend' = [pend EXCEPT ![m] = @ - 1] /\ use' = [use EXCEPT ![m] = @ + 1]
  BY DEF Mature, script
<1>2. Counted
  BY DEF PaysInv
<1>3. /\ pend' \in [Nodes -> Nat] /\ use' \in [Nodes -> Nat]
      /\ \A n \in Nodes : use'[n] >= use[n] /\ (n # m => pend'[n] = pend[n]) /\ use'[m] > 0
  <2>1. pend' \in [Nodes -> Nat] /\ \A n \in Nodes : n # m => pend'[n] = pend[n]
    BY <1>1, <1>2 DEF Counted
  <2>2. use' \in [Nodes -> Nat] /\ \A n \in Nodes : use'[n] >= use[n] /\ use'[m] > 0
    BY <1>1, <1>2 DEF Counted
  <2>3. QED
    BY <2>1, <2>2
<1>4. Counted'
  BY <1>1, <1>2, <1>3 DEF Counted
<1>5. Run => Run'
  BY <1>1 DEF Run, At
<1>6. ASSUME NEW n \in Nodes, Accounted(n) PROVE Accounted(n)'
  <2>1. use[n] \in Nat /\ use'[n] \in Nat
    BY <1>2, <1>3 DEF Counted
  <2>2. QED
    BY <1>1, <1>3, <1>6, <2>1 DEF Accounted, Here
<1>7. QED
  BY <1>1, <1>4, <1>5, <1>6 DEF PaysInv

LEMMA UsedUpPays ==
  ASSUME PaysInv, NEW m \in Nodes, UsedUp(m), UNCHANGED hood
  PROVE  PaysInv'
<1>1. /\ UNCHANGED <<check, todo, tries, verdict, hood, bought, pend>> /\ verdict # "none"
      /\ use' = [use EXCEPT ![m] = 0] /\ excuse' = [excuse EXCEPT ![m] = @ + 1]
  BY DEF UsedUp, script
<1>2. Counted
  BY DEF PaysInv
<1>3. Counted'
  BY <1>1, <1>2 DEF Counted
<1>4. Run => Run' /\ todo = <<>>
  BY <1>1 DEF Run, At
<1>5. ASSUME NEW n \in Nodes, Accounted(n), todo = <<>> PROVE Accounted(n)'
  <2>1. bought[n] \in Nat /\ excuse[n] \in Nat
    BY <1>2 DEF Counted
  <2>2. CASE n = m
    <3>1. excuse'[n] = excuse[n] + 1
      BY <1>1, <1>2, <2>2 DEF Counted
    <3>2. QED
      BY <1>1, <1>5, <2>1, <3>1 DEF Accounted, Here
  <2>3. CASE n # m
    <3>1. excuse'[n] = excuse[n] /\ use'[n] = use[n]
      BY <1>1, <1>2, <2>3 DEF Counted
    <3>2. QED
      BY <1>1, <1>5, <3>1 DEF Accounted, Here
  <2>4. QED
    BY <2>2, <2>3
<1>6. QED
  BY <1>1, <1>3, <1>4, <1>5 DEF PaysInv

LEMMA AgainPays == ASSUME PaysInv, Again PROVE PaysInv'
<1>1. /\ check' = check /\ hood' = hood /\ pend' = pend /\ use' = use /\ bought' = bought /\ excuse' = excuse
      /\ todo' = Script(check) /\ tries' = 0 /\ verdict # "none" /\ verdict' = "none"
  BY DEF Again, Rerun, ContentAgain, batches
<1>2. SUFFICES ASSUME check \notin Purchasing PROVE Run' /\ \A n \in Nodes : Accounted(n)'
  BY <1>1 DEF PaysInv, Counted
<1>3. Run /\ todo = <<>> /\ \A n \in Nodes : Accounted(n)
  BY <1>1, <1>2 DEF PaysInv, Run
<1>4. Fresh(todo')
  BY <1>1, <1>2, ScriptFresh DEF PaysInv
<1>5. ~At("usable")' /\ \A n : ~Here("buy", n)'
  <2>1. todo' # <<>> => Head(todo') = todo'[1] /\ Len(todo') > 0
    BY <1>4, HeadIsFirst DEF Fresh, Walk
  <2>2. QED
    BY <1>4, <2>1 DEF Fresh, Paying, At, Here
<1>6. Run'
  BY <1>1, <1>4, <1>5 DEF Fresh, Run
<1>7. QED
  BY <1>1, <1>3, <1>5, <1>6 DEF Accounted, Here

\* The inductive invariant holds at the start and is kept by every step.
LEMMA InitPays == Init => PaysInv
<1> SUFFICES ASSUME Init PROVE PaysInv
  OBVIOUS
<1>1. /\ check \in CheckNames /\ hood \in {{}, Full} /\ todo = Script(check) /\ tries = 0 /\ verdict = "none"
  BY DEF Init, ContentInit, ScriptInit
<1>2. Counted /\ \A n \in Nodes : bought[n] = 0 /\ excuse[n] = 0
  BY DEF Init, ClientInit, Counted
<1>3. SUFFICES ASSUME check \notin Purchasing PROVE Run /\ \A n \in Nodes : Accounted(n)
  BY <1>1, <1>2 DEF PaysInv
<1>4. Fresh(todo)
  BY <1>1, <1>3, ScriptFresh
<1>5. ~At("usable")
  <2>1. todo # <<>> => Head(todo) = todo[1] /\ Len(todo) > 0
    BY <1>4, HeadIsFirst DEF Fresh, Walk
  <2>2. QED
    BY <1>4, <2>1 DEF Fresh, Paying, At
<1>6. QED
  BY <1>1, <1>2, <1>4, <1>5 DEF Fresh, Run, Accounted

LEMMA NextPays == PaysInv /\ [Next]_vars => PaysInv'
<1> SUFFICES ASSUME PaysInv, [Next]_vars PROVE PaysInv'
  OBVIOUS
<1>1. CASE Request
  BY <1>1, RequestPays
<1>2. CASE Settle
  <2>1. CASE BatchSettles /\ UNCHANGED <<content, accounts, topology>>
    <3>1. UNCHANGED hood
      BY <2>1 DEF content
    <3>2. CASE Mined
      BY <3>1, <3>2, UntouchedPays DEF Mined, script
    <3>3. QED
      BY <2>1, <3>1, <3>2, MaturePays DEF BatchSettles
  <2>2. CASE ContentSettles
    BY <2>2, UntouchedPays DEF ContentSettles, Sync, Replicate, SyncFeed, Evict, script, batches
  <2>3. CASE AccountingSettles
    BY <2>3, UntouchedPays DEF AccountingSettles, CashoutMined, WithdrawMined, script, others, batches
  <2>4. CASE \E n \in Nodes : Issue(n)
    BY <2>4, UntouchedPays DEF Issue, script, rest, others, batches
  <2>5. QED
    BY <1>2, <2>1, <2>2, <2>3, <2>4 DEF Settle
<1>3. CASE Disturb
  <2>1. CASE (\E n \in Nodes : UsedUp(n)) /\ UNCHANGED <<content, accounts, topology>>
    BY <2>1, UsedUpPays DEF content
  <2>2. CASE Exchange
    BY <2>2, UntouchedPays DEF Exchange, script, others, batches
  <2>3. CASE Flip \/ \E n \in Nodes : Expire(n)
    BY <2>3, UntouchedPays DEF Flip, Expire, script, rest, others, batches
  <2>4. QED
    BY <1>3, <2>1, <2>2, <2>3 DEF Disturb
<1>4. CASE Again
  BY <1>4, AgainPays
<1>5. CASE UNCHANGED vars
  BY <1>5, UntouchedPays DEF vars, script, batches, content
<1>6. QED
  BY <1>1, <1>2, <1>3, <1>4, <1>5 DEF Next, Done

\* No check pays for a second batch of a node without a cause, whatever the
\* order in which its requests, their lost responses and the chain's
\* confirmations come, and however often it is run: BeeV2.GetOrCreateMutableBatch
\* lists the batches before it buys one, and polls for the one it bought.
THEOREM PaysForCauseHolds == Spec => []PaysForCause
<1>1. PaysInv => PaysForCause
  BY DEF PaysInv, PaysForCause, Accounted, Purchasing
<1>2. QED
  BY InitPays, NextPays, <1>1, PTL DEF Spec


-----------------------------------------------------------------------------
(* Which action answers which request.                                      *)

Asked(ops) == todo # <<>> /\ Head(todo).op \in ops

LEMMA BatchAsks ==
  /\ Read => Asked({"read"})
  /\ List => Asked({"list"})
  /\ Buy => Asked({"buy"})
  /\ Usable => Asked({"usable"})
  /\ StampIs => Asked({"stamp"})
  /\ TopUp => Asked({"topup"})
  /\ Dilute => Asked({"dilute"})
  /\ Increased => Asked({"toppedup", "diluted"})
BY DEF Read, List, Buy, Usable, StampIs, TopUp, Dilute, Increased, At, Asked


LEMMA ContentAsks ==
  /\ Upload => Asked({"upload"})
  /\ Push => Asked({"push"})
  /\ Has => Asked({"has"})
  /\ Download => Asked({"download"})
  /\ GlobalReplicationFactor => Asked({"factor"})
  /\ GiveUp => Asked({"giveup"})
  /\ UploadShort => Asked({"short"})
  /\ DownloadShort => Asked({"refused"})
  /\ UpdateFeed => Asked({"update"})
  /\ FindFeed => Asked({"find"})
  /\ FeedFile => Asked({"feedfile"})
  /\ Grant => Asked({"grant"})
  /\ Grantees => Asked({"grantees"})
  /\ ActFile => Asked({"actfile"})
  /\ Reserve => Asked({"reserve"})
  /\ UploadBulk => Asked({"bulk"})
  /\ Count => Asked({"count"})
  /\ Unpin => Asked({"unpin"})
BY DEF Upload, Push, Has, Download, GlobalReplicationFactor, GiveUp,
       UploadShort, DownloadShort, UpdateFeed, FindFeed, FeedFile, Grant,
       Grantees, ActFile, Reserve, UploadBulk, Count, Unpin, At, Asked


LEMMA AccountingAsks ==
  /\ Account => Asked({"account"})
  /\ SettlementsRead => Asked({"settlements"})
  /\ BalancesValid => Asked({"symmetric"})
  /\ SettlementsValid => Asked({"valid"})
  /\ Happened => Asked({"happened"})
  /\ Panics => Asked({"panic"})
  /\ Uncashed => Asked({"uncashed"})
  /\ CashoutTx => Asked({"cashout"})
  /\ Confirmed => Asked({"confirmed"})
  /\ Paid => Asked({"paid"})
  /\ Session => Asked({"session"})
  /\ Running => Asked({"running"})
  /\ StakeIs => Asked({"stake", "withdrawable"})
  /\ Deposit => Asked({"deposit"})
  /\ Migrate => Asked({"migrate"})
  /\ Pause => Asked({"pause"})
  /\ WaitMined => Asked({"mined"})
  /\ Wallet => Asked({"wallet"})
  /\ WithdrawTx => Asked({"withdraw"})
  /\ Spent => Asked({"spent"})
BY DEF Account, SettlementsRead, BalancesValid, SettlementsValid, Happened, Panics, Uncashed, CashoutTx, Confirmed,
       Paid, Session, Running, StakeIs, Deposit, Migrate, Pause, WaitMined,
       Wallet, WithdrawTx, Spent, At, Asked


LEMMA TopologyAsks ==
  /\ ReadPeers => Asked({"peers"})
  /\ Judge => Asked({"kademlia", "dynamic", "connected"})
  /\ Underlay => Asked({"underlay"})
  /\ Format => Asked({"format"})
  /\ VerifyDNSResolution => Asked({"resolve"})
  /\ VerifyNodeTLSCert => Asked({"verify"})
  /\ ConnectPeer => Asked({"connect"})
  /\ Snapshot => Asked({"snapshot"})
  /\ Compare => Asked({"reachable", "renewed"})
BY DEF ReadPeers, Judge, Underlay, Format, VerifyDNSResolution,
       VerifyNodeTLSCert, ConnectPeer, Snapshot, Compare, At, Asked


LEMMA RequestAsks ==
  ASSUME Request
  PROVE  /\ todo # <<>> /\ UNCHANGED <<check, runs, near, home, hood>>
         /\ \/ \E a \in Answers : Answer(a)
            \/ todo' = <<>> /\ tries' = 0 /\ verdict' = "panic"
<1>1. CASE Elsewhere
  BY <1>1 DEF Elsewhere
<1>2. CASE (List \/ Buy \/ Usable) /\ UNCHANGED content
  BY <1>2 DEF List, Buy, Usable, content, At, RightOrNot, Reply, Breaks, Answers
<1>3. CASE BatchStep /\ UNCHANGED <<content, accounts, topology>>
  BY <1>1, <1>2, <1>3, BatchElsewhere DEF BatchStep
<1>4. QED
  BY <1>1, <1>3, ContentElsewhere, AccountingElsewhere, TopologyElsewhere DEF Request


-----------------------------------------------------------------------------
(* Where a check is in its script: what is left of it is its end.           *)

RestOf(t, s) ==
  IsSeq(t) /\ Len(t) <= Len(s) /\ \A i \in 1..Len(t) : t[i] = s[Len(s) - Len(t) + i]

LEMMA RestAtEnds == ASSUME NEW s, IsSeq(s) PROVE RestOf(s, s) /\ RestOf(<<>>, s)
<1>1. Len(s) \in Nat
  BY DEF IsSeq
<1>2. RestOf(s, s)
  BY <1>1 DEF RestOf
<1>3. RestOf(<<>>, s)
  BY <1>1, Nil DEF RestOf
<1>4. QED
  BY <1>2, <1>3

LEMMA RestHead ==
  ASSUME NEW s, IsSeq(s), RestOf(todo, s), todo # <<>>
  PROVE  /\ IsSeq(todo) /\ Len(todo) \in 1..Len(s) /\ Len(s) \in Nat
         /\ Head(todo) = s[Len(s) - Len(todo) + 1]
<1>1. IsSeq(todo) /\ Len(todo) <= Len(s) /\ Len(s) \in Nat
  BY DEF RestOf, IsSeq
<1>2. Head(todo) = todo[1] /\ Len(todo) \in Nat \ {0}
  BY <1>1, HeadIsFirst
<1>3. todo[1] = s[Len(s) - Len(todo) + 1]
  BY <1>2 DEF RestOf
<1>4. QED
  BY <1>1, <1>2, <1>3

\* The answer to request p of a script without retries: the check goes on to a
\* later request, or it ends.
LEMMA RestAnswered ==
  ASSUME NEW s, AllPlain(s), RestOf(todo, s), todo # <<>>, NEW a \in Answers, Answer(a),
         NEW p, p = Len(s) - Len(todo) + 1, s[p][a] # Retry
  PROVE  /\ RestOf(todo', s) /\ p \in 1..Len(s)
         /\ \/ todo' = <<>> /\ verdict' = "fail"
            \/ todo' = <<>> /\ verdict' = "pass" /\ s[p][a] \in Nat /\ p + s[p][a] > Len(s)
            \/ /\ s[p][a] \in Nat \ {0} /\ p + s[p][a] <= Len(s) /\ verdict' = verdict
               /\ Len(s) - Len(todo') + 1 = p + s[p][a]
<1>0. IsSeq(s)
  BY DEF AllPlain
<1>1. /\ IsSeq(todo) /\ Len(todo) \in 1..Len(s) /\ Len(s) \in Nat /\ Head(todo) = s[p]
      /\ p \in 1..Len(s)
  BY <1>0, RestHead
<1>2. Sound(Head(todo)) /\ Chosen(a) = s[p][a] /\ ~TriesAgain(a)
  BY <1>1 DEF AllPlain, Plain, Chosen, TriesAgain
<1>3. CASE Ends /\ (verdict' = "pass" => Chosen(a) \in Nat /\ Len(todo) <= Chosen(a))
  <2>1. todo' = <<>> /\ verdict' \in {"pass", "fail"} /\ RestOf(todo', s)
    BY <1>0, <1>3, RestAtEnds DEF Ends
  <2>2. QED
    BY <1>1, <1>2, <1>3, <2>1
<1>4. CASE Chosen(a) \in 1..(Len(todo) - 1) /\ GoesOn(Chosen(a))
  <2> DEFINE d == Chosen(a)
  <2>1. /\ d \in 1..(Len(todo) - 1) /\ verdict' = verdict /\ IsSeq(todo')
        /\ Len(todo') = Len(todo) - d /\ \A i \in 1..(Len(todo) - d) : todo'[i] = todo[d + i]
    BY <1>4 DEF GoesOn
  <2> HIDE DEF d
  <2>2. ASSUME NEW i \in 1..Len(todo') PROVE todo'[i] = s[Len(s) - Len(todo') + i]
    <3>1. d + i \in 1..Len(todo) /\ todo'[i] = todo[d + i]
      BY <1>1, <2>1
    <3>2. todo[d + i] = s[Len(s) - Len(todo) + (d + i)]
      BY <3>1 DEF RestOf
    <3>3. Len(s) - Len(todo) + (d + i) = Len(s) - Len(todo') + i
      BY <1>1, <2>1
    <3>4. QED
      BY <3>1, <3>2, <3>3
  <2>3. RestOf(todo', s)
    BY <1>1, <2>1, <2>2 DEF RestOf
  <2>4. d \in Nat \ {0} /\ p + d <= Len(s) /\ Len(s) - Len(todo') + 1 = p + d
    BY <1>1, <2>1
  <2>5. d = s[p][a]
    BY <1>2 DEF d
  <2>6. QED
    BY <1>1, <2>1, <2>3, <2>4, <2>5
<1>5. QED
  BY <1>1, <1>2, <1>3, <1>4, Answered

-----------------------------------------------------------------------------
(* What an answer says: the right one is given only in the right state.     *)

Fits(a) ==
  LET h == Head(todo)
  IN  /\ h.op = "giveup" => a = "no"
      /\ h.op = "has" /\ a = "ok" => Served(h.n, h.x)
      /\ h.op = "download" /\ a = "ok" => Served(h.n, h.x)
      /\ h.op = "feedfile" /\ a = "ok" => Served(h.n, 2) /\ Served(h.n, h.x)
      /\ h.op = "actfile" /\ a = "ok" => Served(h.n, 1)
      /\ h.op = "confirmed" /\ a = "ok" => (h.n \in actions => cheques[h.n] # "sent")
      /\ h.op = "paid" /\ a = "ok" => (h.n \in actions => cheques[h.n] # "bounced")
      /\ h.op = "stake" /\ a = "ok" => chain.stake = h.x
      /\ h.op = "wallet" /\ a = "ok" => wallet' = [wallet EXCEPT ![h.x].before = wallet[h.x].balance]
      /\ h.op = "withdraw" /\ a = "ok" => wallet' = [wallet EXCEPT ![h.x[1]].due = @ + 1]
      /\ h.op = "spent" /\ a = "ok" => wallet[h.x].balance <= wallet[h.x].before - 1
      /\ h.op = "underlay" /\ a = "ok" => cert[h.n].serial > 0
      /\ h.op = "format" /\ a = "ok" => VerifyForgeAddressFormat(addr[h.n])
      /\ h.op = "reachable" /\ a = "no" => snaps.before = {}
      /\ h.op = "renewed" /\ a = "ok" => Renewed
      /\ h.op = "running" /\ a = "no" => chain.paused /\ chain' = chain
      /\ h.op = "session" /\ a = "ok" => chain' = [chain EXCEPT !.session = chain.nonce]
      /\ h.op = "connect" /\ a = "ok" => AtHome(h.x) \/ errors > 0

\* The action that answers a request is the one of that name.
LEMMA RequestIs ==
  ASSUME Request, NEW o, Head(todo).op = o
  PROVE
  /\ o = "stake" => StakeIs
  /\ o = "giveup" => GiveUp
  /\ o = "confirmed" => Confirmed
  /\ o = "paid" => Paid
  /\ o = "wallet" => Wallet
  /\ o = "withdraw" => WithdrawTx
  /\ o = "spent" => Spent
  /\ o = "has" => Has
  /\ o = "download" => Download
  /\ o = "feedfile" => FeedFile
  /\ o = "actfile" => ActFile
  /\ o = "underlay" => Underlay
  /\ o = "format" => Format
  /\ o = "reachable" => Compare
  /\ o = "renewed" => Compare
  /\ o = "running" => Running
  /\ o = "session" => Session
  /\ o = "connect" => ConnectPeer
<1>1. CASE o = "stake"
  BY <1>1, BatchAsks, ContentAsks, AccountingAsks, TopologyAsks DEF Request, BatchStep, ContentStep, AccountingStep, TopologyStep, Asked
<1>2. CASE o = "giveup"
  BY <1>2, BatchAsks, ContentAsks, AccountingAsks, TopologyAsks DEF Request, BatchStep, ContentStep, AccountingStep, TopologyStep, Asked
<1>3. CASE o = "confirmed"
  BY <1>3, BatchAsks, ContentAsks, AccountingAsks, TopologyAsks DEF Request, BatchStep, ContentStep, AccountingStep, TopologyStep, Asked
<1>4. CASE o = "paid"
  BY <1>4, BatchAsks, ContentAsks, AccountingAsks, TopologyAsks DEF Request, BatchStep, ContentStep, AccountingStep, TopologyStep, Asked
<1>5. CASE o = "wallet"
  BY <1>5, BatchAsks, ContentAsks, AccountingAsks, TopologyAsks DEF Request, BatchStep, ContentStep, AccountingStep, TopologyStep, Asked
<1>6. CASE o = "withdraw"
  BY <1>6, BatchAsks, ContentAsks, AccountingAsks, TopologyAsks DEF Request, BatchStep, ContentStep, AccountingStep, TopologyStep, Asked
<1>7. CASE o = "spent"
  BY <1>7, BatchAsks, ContentAsks, AccountingAsks, TopologyAsks DEF Request, BatchStep, ContentStep, AccountingStep, TopologyStep, Asked
<1>8. CASE o = "has"
  BY <1>8, BatchAsks, ContentAsks, AccountingAsks, TopologyAsks DEF Request, BatchStep, ContentStep, AccountingStep, TopologyStep, Asked
<1>9. CASE o = "download"
  BY <1>9, BatchAsks, ContentAsks, AccountingAsks, TopologyAsks DEF Request, BatchStep, ContentStep, AccountingStep, TopologyStep, Asked
<1>10. CASE o = "feedfile"
  BY <1>10, BatchAsks, ContentAsks, AccountingAsks, TopologyAsks DEF Request, BatchStep, ContentStep, AccountingStep, TopologyStep, Asked
<1>11. CASE o = "actfile"
  BY <1>11, BatchAsks, ContentAsks, AccountingAsks, TopologyAsks DEF Request, BatchStep, ContentStep, AccountingStep, TopologyStep, Asked
<1>12. CASE o = "underlay"
  BY <1>12, BatchAsks, ContentAsks, AccountingAsks, TopologyAsks DEF Request, BatchStep, ContentStep, AccountingStep, TopologyStep, Asked
<1>13. CASE o = "format"
  BY <1>13, BatchAsks, ContentAsks, AccountingAsks, TopologyAsks DEF Request, BatchStep, ContentStep, AccountingStep, TopologyStep, Asked
<1>14. CASE o = "reachable"
  BY <1>14, BatchAsks, ContentAsks, AccountingAsks, TopologyAsks DEF Request, BatchStep, ContentStep, AccountingStep, TopologyStep, Asked
<1>15. CASE o = "renewed"
  BY <1>15, BatchAsks, ContentAsks, AccountingAsks, TopologyAsks DEF Request, BatchStep, ContentStep, AccountingStep, TopologyStep, Asked
<1>16. CASE o = "running"
  BY <1>16, BatchAsks, ContentAsks, AccountingAsks, TopologyAsks DEF Request, BatchStep, ContentStep, AccountingStep, TopologyStep, Asked
<1>17. CASE o = "session"
  BY <1>17, BatchAsks, ContentAsks, AccountingAsks, TopologyAsks DEF Request, BatchStep, ContentStep, AccountingStep, TopologyStep, Asked
<1>18. CASE o = "connect"
  BY <1>18, BatchAsks, ContentAsks, AccountingAsks, TopologyAsks DEF Request, BatchStep, ContentStep, AccountingStep, TopologyStep, Asked
<1>19. QED
  BY <1>1, <1>2, <1>3, <1>4, <1>5, <1>6, <1>7, <1>8, <1>9, <1>10, <1>11, <1>12, <1>13, <1>14, <1>15, <1>16, <1>17, <1>18

LEMMA AnswersFit ==
  ASSUME Request
  PROVE  (\E a \in Answers : Answer(a) /\ Fits(a)) \/ (todo' = <<>> /\ tries' = 0 /\ verdict' = "panic")
<1>1. CASE Head(todo).op = "stake"
  <2>1. StakeIs
    BY <1>1, RequestIs
  <2>2. QED
    BY <1>1, <2>1 DEF StakeIs, At, RightOrNot, Reply, Breaks, Answers, Fits
<1>2. CASE Head(todo).op = "giveup"
  <2>1. GiveUp
    BY <1>2, RequestIs
  <2>2. QED
    BY <1>2, <2>1 DEF GiveUp, At, Reply, Answers, Fits
<1>3. CASE Head(todo).op = "confirmed"
  <2>1. Confirmed
    BY <1>3, RequestIs
  <2>2. QED
    BY <1>3, <2>1 DEF Confirmed, At, RightOrNot, Reply, Breaks, Answers, Fits
<1>4. CASE Head(todo).op = "paid"
  <2>1. Paid
    BY <1>4, RequestIs
  <2>2. QED
    BY <1>4, <2>1 DEF Paid, At, RightOrNot, Reply, Breaks, Answers, Fits
<1>5. CASE Head(todo).op = "wallet"
  <2>1. Wallet
    BY <1>5, RequestIs
  <2>2. QED
    BY <1>5, <2>1 DEF Wallet, At, Reply, Breaks, Answers, Fits
<1>6. CASE Head(todo).op = "withdraw"
  <2>1. WithdrawTx
    BY <1>6, RequestIs
  <2>2. QED
    BY <1>6, <2>1 DEF WithdrawTx, At, Reply, Breaks, Answers, Fits
<1>7. CASE Head(todo).op = "spent"
  <2>1. Spent
    BY <1>7, RequestIs
  <2>2. QED
    BY <1>7, <2>1 DEF Spent, At, RightOrNot, Reply, Breaks, Answers, Fits
<1>8. CASE Head(todo).op = "has"
  <2>1. Has
    BY <1>8, RequestIs
  <2>2. QED
    BY <1>8, <2>1 DEF Has, At, RightOrNot, Reply, Breaks, Answers, Fits
<1>9. CASE Head(todo).op = "download"
  <2>1. Download
    BY <1>9, RequestIs
  <2>2. QED
    BY <1>9, <2>1 DEF Download, At, Reply, Breaks, Answers, Fits
<1>10. CASE Head(todo).op = "feedfile"
  <2>1. FeedFile
    BY <1>10, RequestIs
  <2>2. QED
    BY <1>10, <2>1 DEF FeedFile, At, RightOrNot, Reply, Breaks, Answers, Fits
<1>11. CASE Head(todo).op = "actfile"
  <2>1. ActFile
    BY <1>11, RequestIs
  <2>2. QED
    BY <1>11, <2>1 DEF ActFile, At, Reply, Breaks, Answers, Fits
<1>12. CASE Head(todo).op = "underlay"
  <2>1. Underlay
    BY <1>12, RequestIs
  <2>2. QED
    BY <1>12, <2>1 DEF Underlay, At, RightOrNot, Reply, Breaks, Answers, Fits
<1>13. CASE Head(todo).op = "format"
  <2>1. Format
    BY <1>13, RequestIs
  <2>2. QED
    BY <1>13, <2>1 DEF Format, At, RightOrNot, Reply, Answers, Fits
<1>14. CASE Head(todo).op = "reachable"
  <2>1. Compare
    BY <1>14, RequestIs
  <2>2. QED
    BY <1>14, <2>1 DEF Compare, At, RightOrNot, Reply, Answers, Fits
<1>15. CASE Head(todo).op = "renewed"
  <2>1. Compare
    BY <1>15, RequestIs
  <2>2. QED
    BY <1>15, <2>1 DEF Compare, At, Reply, Answers, Fits
<1>16. CASE Head(todo).op = "running"
  <2>1. Running
    BY <1>16, RequestIs
  <2>2. QED
    BY <1>16, <2>1 DEF Running, At, RightOrNot, Reply, Breaks, Answers, Fits, accounts
<1>17. CASE Head(todo).op = "session"
  <2>1. Session
    BY <1>17, RequestIs
  <2>2. QED
    BY <1>17, <2>1 DEF Session, At, Reply, Breaks, Answers, Fits
<1>18. CASE Head(todo).op = "connect"
  <2>1. ConnectPeer
    BY <1>18, RequestIs
  <2>2. QED
    BY <1>18, <2>1 DEF ConnectPeer, At, Reply, Breaks, Answers, Fits
<1>19. CASE Head(todo).op \notin {"stake", "giveup", "confirmed", "paid", "wallet", "withdraw", "spent", "has",
                "download", "feedfile", "actfile", "underlay", "format", "reachable", "renewed", "running",
                "session", "connect"}
  BY <1>19, RequestAsks DEF Fits
<1>20. QED
  BY <1>1, <1>2, <1>3, <1>4, <1>5, <1>6, <1>7, <1>8, <1>9, <1>10, <1>11, <1>12, <1>13, <1>14, <1>15, <1>16, <1>17,
     <1>18, <1>19

-----------------------------------------------------------------------------
(* The stake check.                                                         *)

ChainFields == {"stake", "paused", "nonce", "session"}

\* the contract was found paused and no transaction of the session was sent
Skipped == chain.paused /\ chain.session = chain.nonce

\* Before the look at the contract nothing was sent, and once the stake was
\* found to be zero it stays so until the check returns nil.
StakeInv ==
  check = "stake" =>
    /\ RestOf(todo, Stake) /\ ChainFields \subseteq DOMAIN chain
    /\ Len(todo) = 20 => chain.session = chain.nonce
    /\ Len(todo) \in {4, 3} => chain.stake = 0
    /\ verdict = "pass" => chain.stake = 0 \/ Skipped

\* Where the answers to request i lead.
LEMMA StakeDecisions ==
  ASSUME NEW i \in 1..21, NEW a \in Answers
  PROVE  /\ Stake[i][a] # Retry
         /\ i + Stake[i][a] = 18 => i = 17 /\ a = "ok"
         /\ i + Stake[i][a] = 19 => i = 18 /\ a = "ok"
         /\ i + Stake[i][a] = 2 => (i = 1 /\ a = "ok") \/ Stake[i][a] = Fail
         /\ Stake[i][a] \in Nat /\ i + Stake[i][a] > 21 => (i = 2 /\ a = "no") \/ i = 19 \/ (i = 21 /\ a = "ok")
<1> DEFINE s == Stake
<1>0. a = "ok" \/ a = "no" \/ a = "err"
  BY DEF Answers
<1>1. i \in {1, 3, 5, 6, 7, 8, 9, 10, 11, 13, 14, 15, 21} => s[i]["ok"] = 1 /\ s[i]["no"] = -1 /\ s[i]["err"] = -1
  BY StakeRequests DEF Step, Fail
<1>2. /\ s[2]["ok"] = 1 /\ s[2]["no"] = 21 /\ s[2]["err"] = -1
      /\ s[4]["ok"] = -1 /\ s[4]["no"] = 1 /\ s[4]["err"] = -1
      /\ s[12]["ok"] = -1 /\ s[12]["no"] = 1 /\ s[12]["err"] = 1
  BY StakeRequests DEF Denied, Step, Fail
<1>3. /\ s[16]["ok"] = 1 /\ s[16]["no"] = 4 /\ s[16]["err"] = 4
      /\ s[17]["ok"] = 1 /\ s[17]["no"] = 3 /\ s[17]["err"] = 3
      /\ s[18]["ok"] = 1 /\ s[18]["no"] = 2 /\ s[18]["err"] = 2
  BY StakeRequests DEF Step, Fail
<1>4. /\ s[19]["ok"] = 3 /\ s[19]["no"] = 3 /\ s[19]["err"] = 3
      /\ s[20]["ok"] = 1 /\ s[20]["no"] = 1 /\ s[20]["err"] = 1
  BY StakeRequests DEF Ignored, Step, Fail
<1> HIDE DEF s
<1>5. CASE i \in {1, 3, 5, 6, 7, 8, 9, 10, 11, 13, 14, 15, 21}
  BY <1>0, <1>1, <1>5 DEF s, Fail, Retry
<1>6. CASE i \in {2, 4, 12}
  BY <1>0, <1>2, <1>6 DEF s, Fail, Retry
<1>7. CASE i \in {16, 17, 18}
  BY <1>0, <1>3, <1>7 DEF s, Fail, Retry
<1>8. CASE i \in {19, 20}
  BY <1>0, <1>4, <1>8 DEF s, Fail, Retry
<1>9. QED
  BY <1>5, <1>6, <1>7, <1>8, UpTo21

\* Only deposits and withdrawals move the stake.
LEMMA ChainKept ==
  ASSUME Request, ChainFields \subseteq DOMAIN chain
  PROVE  ChainFields \subseteq DOMAIN chain' /\ (Asked({"deposit", "migrate"}) \/ chain'.stake = chain.stake)
<1>1. CASE Session \/ Pause
  BY <1>1 DEF Session, Pause, ChainFields
<1>2. CASE Deposit \/ Migrate
  BY <1>2, AccountingAsks DEF Deposit, Migrate, Asked
<1>3. CASE chain' = chain
  BY <1>3
<1>4. ASSUME AccountingStep PROVE Session \/ Pause \/ Deposit \/ Migrate \/ chain' = chain
  BY <1>4 DEF AccountingStep, Account, SettlementsRead, BalancesValid, SettlementsValid, Happened, Panics, Uncashed, CashoutTx, Confirmed, Paid,
       Running, StakeIs, WaitMined, Wallet, WithdrawTx, Spent, accounts
<1>5. ASSUME TopologyStep PROVE chain' = chain
  BY <1>5 DEF TopologyStep, ReadPeers, Judge, Underlay, Format, VerifyDNSResolution, VerifyNodeTLSCert,
       ConnectPeer, Snapshot, Compare, rest, accounts
<1>6. QED
  BY <1>1, <1>2, <1>3, <1>4, <1>5 DEF Request, accounts

LEMMA Counterpart == ASSUME NEW n \in 1..21, NEW q, q = 22 - n PROVE q \in 1..21 /\ n = 22 - q
OBVIOUS
LEMMA StakeRequest == ASSUME PaysInv, StakeInv, check = "stake", Request PROVE StakeInv'
<1>1. RestOf(todo, Stake) /\ ChainFields \subseteq DOMAIN chain /\ IsSeq(Stake) /\ Len(Stake) = 21
  BY StakeRequests DEF StakeInv
<1>2. /\ todo # <<>> /\ UNCHANGED <<check, runs>>
      /\ (\E a \in Answers : Answer(a) /\ Fits(a)) \/ (todo' = <<>> /\ verdict' = "panic")
  BY RequestAsks, AnswersFit
<1> DEFINE p == Len(Stake) - Len(todo) + 1
<1>3. p \in 1..21 /\ Len(todo) = 22 - p /\ Head(todo) = Stake[p] /\ Len(todo) \in 1..21
  <2>1. Len(todo) \in 1..Len(Stake) /\ Head(todo) = Stake[p]
    BY <1>1, <1>2, RestHead
  <2>2. Len(todo) \in 1..21 /\ p = 22 - Len(todo)
    BY <1>1, <2>1
  <2> HIDE DEF p
  <2>3. p \in 1..21 /\ Len(todo) = 22 - p
    BY <2>2, Counterpart
  <2>4. QED
    BY <2>1, <2>2, <2>3, Zenon
<1>4. p = Len(Stake) - Len(todo) + 1
  OBVIOUS
<1> HIDE DEF p
<1>5. ChainFields \subseteq DOMAIN chain' /\ (Asked({"deposit", "migrate"}) \/ chain'.stake = chain.stake)
  BY <1>1, ChainKept
<1>6. CASE todo' = <<>> /\ verdict' = "panic"
  BY <1>1, <1>2, <1>5, <1>6, RestAtEnds, Nil DEF StakeInv
<1>7. ASSUME NEW a \in Answers, Answer(a), Fits(a) PROVE StakeInv'
  <2> DEFINE d == Stake[p][a]
  <2>1. /\ RestOf(todo', Stake)
        /\ \/ todo' = <<>> /\ verdict' = "fail"
           \/ todo' = <<>> /\ verdict' = "pass" /\ d \in Nat /\ p + d > 21
           \/ d \in Nat \ {0} /\ p + d <= 21 /\ verdict' = verdict /\ 21 - Len(todo') + 1 = p + d
    <3>1. d # Retry
      BY <1>3, StakeDecisions
    <3>2. /\ RestOf(todo', Stake)
          /\ \/ todo' = <<>> /\ verdict' = "fail"
             \/ todo' = <<>> /\ verdict' = "pass" /\ d \in Nat /\ p + d > Len(Stake)
             \/ d \in Nat \ {0} /\ p + d <= Len(Stake) /\ verdict' = verdict /\ Len(Stake) - Len(todo') + 1 = p + d
      BY <1>1, <1>2, <1>4, <1>7, <3>1, RestAnswered, StakePlain, ZenonT(60)
    <3>3. QED
      BY <1>1, <3>2
  <2>2. /\ p + d = 18 => p = 17 /\ a = "ok"
        /\ p + d = 19 => p = 18 /\ a = "ok"
        /\ p + d = 2 => (p = 1 /\ a = "ok") \/ d = Fail
        /\ d \in Nat /\ p + d > 21 => (p = 2 /\ a = "no") \/ p = 19 \/ (p = 21 /\ a = "ok")
    BY <1>3, StakeDecisions
  <2> HIDE DEF d
  <2>3. Len(todo') \in Nat /\ verdict = "none"
    BY <1>2, <2>1 DEF RestOf, IsSeq, PaysInv, Run, Purchasing
  <2>4. ASSUME p \in {18, 19} PROVE chain'.stake = 0
    <3>1. chain.stake = 0
      BY <1>3, <2>4 DEF StakeInv
    <3>2. Head(todo).op \in {"withdrawable", "pause"}
      <4>1. Stake[18].op = "withdrawable" /\ Stake[19].op = "pause"
        BY StakeRequests DEF Ignored, Step
      <4>2. QED
        BY <1>3, <2>4, <4>1
    <3>3. QED
      BY <1>5, <3>1, <3>2 DEF Asked
  <2>5. ASSUME p = 17, a = "ok" PROVE chain'.stake = 0
    <3>1. Head(todo).op = "stake" /\ Head(todo).x = 0
      <4>1. Stake[17].op = "stake" /\ Stake[17].x = 0
        BY StakeRequests DEF Step
      <4>2. QED
        BY <1>3, <2>5, <4>1
    <3>2. chain.stake = 0
      BY <1>7, <2>5, <3>1 DEF Fits
    <3>3. QED
      BY <1>5, <3>1, <3>2 DEF Asked
  <2>6. ASSUME p = 2, a = "no" PROVE Skipped'
    <3>1. Head(todo).op = "running" /\ Len(todo) = 20
      <4>1. Stake[2].op = "running"
        BY StakeRequests DEF Step
      <4>2. QED
        BY <1>3, <2>6, <4>1
    <3>2. chain.paused /\ chain' = chain /\ chain.session = chain.nonce
      BY <1>7, <2>6, <3>1 DEF Fits, StakeInv
    <3>3. QED
      BY <3>2, Zenon DEF Skipped
  <2>7. ASSUME p = 1, a = "ok" PROVE chain'.session = chain'.nonce
    <3>1. Head(todo).op = "session"
      <4>1. Stake[1].op = "session"
        BY StakeRequests DEF Step
      <4>2. QED
        BY <1>3, <2>7, <4>1
    <3>2. chain' = [chain EXCEPT !.session = chain.nonce]
      BY <1>7, <2>7, <3>1 DEF Fits
    <3>3. QED
      BY <1>1, <3>2 DEF ChainFields
  <2>8. CASE todo' = <<>> /\ verdict' = "fail"
    BY <1>5, <2>1, <2>8, Nil DEF StakeInv
  <2>9. CASE todo' = <<>> /\ verdict' = "pass" /\ d \in Nat /\ p + d > 21
    <3>1. ~(p = 21 /\ a = "ok")
      <4>1. Stake[21].op = "giveup"
        BY StakeRequests DEF Step
      <4>2. QED
        BY <1>3, <1>7, <4>1 DEF Fits
    <3>2. chain'.stake = 0 \/ Skipped'
      BY <2>2, <2>4, <2>6, <2>9, <3>1
    <3>3. QED
      BY <1>5, <2>1, <2>9, <3>2, Nil DEF StakeInv
  <2>10. CASE d \in Nat \ {0} /\ p + d <= 21 /\ verdict' = verdict /\ 21 - Len(todo') + 1 = p + d
    <3>1. p + d = 22 - Len(todo') /\ d # Fail
      BY <1>3, <2>3, <2>10 DEF Fail
    <3>2. Len(todo') = 20 => chain'.session = chain'.nonce
      BY <2>2, <2>7, <3>1
    <3>3. Len(todo') \in {4, 3} => chain'.stake = 0
      <4>1. Len(todo') = 4 => p = 17 /\ a = "ok"
        BY <2>2, <3>1
      <4>2. Len(todo') = 3 => p = 18
        BY <2>2, <3>1
      <4>3. QED
        BY <2>4, <2>5, <4>1, <4>2
    <3>4. verdict' # "pass"
      BY <2>3, <2>10
    <3>5. QED
      BY <1>5, <2>1, <3>2, <3>3, <3>4 DEF StakeInv
  <2>11. QED
    BY <2>1, <2>8, <2>9, <2>10
<1>8. QED
  BY <1>2, <1>6, <1>7

-----------------------------------------------------------------------------
(* The withdraw check.                                                      *)

\* a token of which nothing was asked for, and one whose withdrawal was
Untouched(w) == w.balance = 0 /\ w.before = 0 /\ w.due = 0
Requested(w) == w.before = 0 /\ w.balance - w.due = -1

\* request k compares the balance: at request p the withdrawal is to come, was
\* requested, or is mined
Stage(w, k, p) ==
  /\ p < k => Untouched(w)
  /\ p = k => Requested(w)
  /\ p > k => w.due = 0

Purse == [balance : Int, before : Int, due : Nat]

WithdrawInv ==
  check = "withdraw" =>
    /\ RestOf(todo, Withdraw) /\ wallet \in [{"native", "bzz"} -> Purse]
    /\ runs = 1 /\ verdict \in {"none", "pass"} =>
         Stage(wallet["native"], 3, 10 - Len(todo)) /\ Stage(wallet["bzz"], 9, 10 - Len(todo))

LEMMA WithdrawRequests ==
  /\ IsSeq(Withdraw) /\ Len(Withdraw) = 9
  /\ Withdraw[1] = Step("wallet", 1, "native") /\ Withdraw[2] = Step("withdraw", 1, <<"native", "target">>)
  /\ Withdraw[3] = Step("spent", 1, "native")
  /\ Withdraw[4] = [Step("wallet", 1, "native") EXCEPT !.err = 3]
  /\ Withdraw[5] = [Step("withdraw", 1, <<"native", "zero">>) EXCEPT !.err = 2]
  /\ Withdraw[6] = Denied(Step("spent", 1, "native"))
  /\ Withdraw[7] = Step("wallet", 1, "bzz") /\ Withdraw[8] = Step("withdraw", 1, <<"bzz", "target">>)
  /\ Withdraw[9] = Step("spent", 1, "bzz")
<1> DEFINE a == Step("wallet", 1, "native")
           b == Step("withdraw", 1, <<"native", "target">>)
           c == Step("spent", 1, "native")
           d == [Step("wallet", 1, "native") EXCEPT !.err = 3]
           e == [Step("withdraw", 1, <<"native", "zero">>) EXCEPT !.err = 2]
           f == Denied(Step("spent", 1, "native"))
           g == Step("wallet", 1, "bzz")
           h == Step("withdraw", 1, <<"bzz", "target">>)
           k == Step("spent", 1, "bzz")
<1>1. Withdraw = <<a, b, c>> \o <<d, e, f>> \o <<g, h, k>>
  BY DEF Withdraw, WalletWithdraw
<1> HIDE DEF a, b, c, d, e, f, g, h, k
<1>2. \A s, t : IsSeq(s) /\ IsSeq(t) /\ Len(t) = 3 =>
        /\ IsSeq(s \o t) /\ Len(s \o t) = Len(s) + 3 /\ \A i \in 1..Len(s) : (s \o t)[i] = s[i]
        /\ (s \o t)[Len(s) + 1] = t[1] /\ (s \o t)[Len(s) + 2] = t[2] /\ (s \o t)[Len(s) + 3] = t[3]
  <2> SUFFICES ASSUME NEW s, NEW t, IsSeq(s), IsSeq(t), Len(t) = 3
               PROVE  /\ IsSeq(s \o t) /\ Len(s \o t) = Len(s) + 3
                      /\ \A i \in 1..Len(s) : (s \o t)[i] = s[i]
                      /\ (s \o t)[Len(s) + 1] = t[1] /\ (s \o t)[Len(s) + 2] = t[2]
                      /\ (s \o t)[Len(s) + 3] = t[3]
    OBVIOUS
  <2>1. 1 \in 1..Len(t) /\ 2 \in 1..Len(t) /\ 3 \in 1..Len(t)
    OBVIOUS
  <2>2. IsSeq(s \o t) /\ Len(s \o t) = Len(s) + Len(t) /\ \A i \in 1..Len(s) : (s \o t)[i] = s[i]
    BY Joined, ZenonT(60)
  <2>3. \A i \in 1..Len(t) : (s \o t)[Len(s) + i] = t[i]
    BY Joined, SMTT(60)
  <2>4. QED
    BY <2>1, <2>2, <2>3
<1> DEFINE s == <<a, b, c>> \o <<d, e, f>>
<1>5. /\ IsSeq(s) /\ Len(s) = 6 /\ s[1] = a /\ s[2] = b /\ s[3] = c /\ s[4] = d /\ s[5] = e /\ s[6] = f
  BY <1>2, Three
<1> HIDE DEF s
<1>3. /\ IsSeq(s \o <<g, h, k>>) /\ Len(s \o <<g, h, k>>) = 9
      /\ \A i \in 1..6 : (s \o <<g, h, k>>)[i] = s[i]
      /\ (s \o <<g, h, k>>)[7] = g /\ (s \o <<g, h, k>>)[8] = h /\ (s \o <<g, h, k>>)[9] = k
  <2> DEFINE t == <<g, h, k>>
  <2>1. IsSeq(t) /\ Len(t) = 3 /\ t[1] = g /\ t[2] = h /\ t[3] = k
    BY Three
  <2> HIDE DEF t
  <2>2. IsSeq(s \o t) /\ Len(s \o t) = Len(s) + 3 /\ \A i \in 1..Len(s) : (s \o t)[i] = s[i]
    BY <1>2, <1>5, <2>1
  <2>3. (s \o t)[Len(s) + 1] = t[1] /\ (s \o t)[Len(s) + 2] = t[2] /\ (s \o t)[Len(s) + 3] = t[3]
    BY <1>2, <1>5, <2>1
  <2>4. QED
    BY <1>5, <2>1, <2>2, <2>3 DEF t
<1>4. QED
  BY <1>1, <1>3, <1>5 DEF a, b, c, d, e, f, g, h, k, s

LEMMA UpTo9 ==
  \A i \in 1..9 : i = 1 \/ i = 2 \/ i = 3 \/ i = 4 \/ i = 5 \/ i = 6 \/ i = 7 \/ i = 8 \/ i = 9
OBVIOUS

\* Where the answers to request i lead.
LEMMA WithdrawDecisions ==
  ASSUME NEW i \in 1..9, NEW a \in Answers
  PROVE  /\ Withdraw[i][a] # Retry
         /\ i \in {1, 2, 3, 7, 8, 9} => (a = "ok" /\ Withdraw[i][a] = 1) \/ Withdraw[i][a] = Fail
         /\ i \in {4, 5, 6} => i + Withdraw[i][a] \in 5..7 \/ Withdraw[i][a] = Fail
<1> DEFINE s == Withdraw
<1>0. a = "ok" \/ a = "no" \/ a = "err"
  BY DEF Answers
<1>1. i \in {1, 2, 3, 7, 8, 9} => s[i]["ok"] = 1 /\ s[i]["no"] = -1 /\ s[i]["err"] = -1
  BY WithdrawRequests DEF Step, Fail
<1>2. /\ s[4]["ok"] = 1 /\ s[4]["no"] = -1 /\ s[4]["err"] = 3
      /\ s[5]["ok"] = 1 /\ s[5]["no"] = -1 /\ s[5]["err"] = 2
      /\ s[6]["ok"] = -1 /\ s[6]["no"] = 1 /\ s[6]["err"] = 1
  BY WithdrawRequests DEF Denied, Step, Fail
<1> HIDE DEF s
<1>5. CASE i \in {1, 2, 3, 7, 8, 9}
  BY <1>0, <1>1, <1>5 DEF s, Fail, Retry
<1>6. CASE i \in {4, 5, 6}
  BY <1>0, <1>2, <1>6 DEF s, Fail, Retry
<1>9. QED
  BY <1>5, <1>6, UpTo9

\* Which requests move money.
LEMMA WalletKept ==
  ASSUME Request
  PROVE  \/ wallet' = wallet
         \/ Asked({"wallet"}) /\ wallet' = [wallet EXCEPT ![Head(todo).x].before = wallet[Head(todo).x].balance]
         \/ /\ Asked({"withdraw"}) /\ Head(todo).x[2] # "zero"
            /\ wallet' = [wallet EXCEPT ![Head(todo).x[1]].due = @ + 1]
<1>1. CASE Wallet
  BY <1>1, AccountingAsks DEF Wallet
<1>2. CASE WithdrawTx
  BY <1>2, AccountingAsks DEF WithdrawTx
<1>3. CASE wallet' = wallet
  BY <1>3
<1>4. ASSUME AccountingStep PROVE Wallet \/ WithdrawTx \/ wallet' = wallet
  BY <1>4 DEF AccountingStep, Account, SettlementsRead, BalancesValid, SettlementsValid, Happened, Panics, Uncashed, CashoutTx, Confirmed, Paid,
       Session, Running, StakeIs, Deposit, Migrate, Pause, WaitMined, Spent, accounts
<1>5. ASSUME TopologyStep PROVE wallet' = wallet
  BY <1>5 DEF TopologyStep, ReadPeers, Judge, Underlay, Format, VerifyDNSResolution, VerifyNodeTLSCert,
       ConnectPeer, Snapshot, Compare, rest, accounts
<1>6. QED
  BY <1>1, <1>2, <1>3, <1>4, <1>5 DEF Request, accounts


\* A token between the request and the comparison, before both or after both.
LEMMA StageKept ==
  ASSUME NEW w, NEW v, NEW k \in Int, NEW p \in Int, NEW q \in Int, Stage(w, k, p), p < q, p # k, p < k => q < k,
         v.due = w.due, v.balance = w.balance, v.before = w.before \/ v.before = w.balance
  PROVE  Stage(v, k, q)
BY DEF Stage, Untouched

LEMMA StageRequested ==
  ASSUME NEW w, NEW v, NEW k \in Int, NEW p \in Int, NEW q \in Int, Stage(w, k, p), p < k, q = k,
         v.due = w.due + 1, v.balance = w.balance, v.before = w.before
  PROVE  Stage(v, k, q)
BY DEF Stage, Untouched, Requested

LEMMA StageMined ==
  ASSUME NEW w \in Purse, NEW k \in Int, NEW p \in Int, NEW q \in Int, Stage(w, k, p), p = k, q > k,
         w.balance <= w.before - 1
  PROVE  Stage(w, k, q)
BY DEF Stage, Requested, Purse

\* What request p can do to the purses.
LEMMA PursesKept ==
  ASSUME wallet \in [{"native", "bzz"} -> Purse], Request, NEW p \in 1..9, Head(todo) = Withdraw[p]
  PROVE  /\ wallet' \in [{"native", "bzz"} -> Purse]
         /\ p \notin {1, 2, 4} => wallet'["native"] = wallet["native"]
         /\ p \notin {7, 8} => wallet'["bzz"] = wallet["bzz"]
         /\ \A t \in {"native", "bzz"} : p \in {1, 4, 7} =>
              /\ wallet'[t].due = wallet[t].due /\ wallet'[t].balance = wallet[t].balance
              /\ wallet'[t].before = wallet[t].before \/ wallet'[t].before = wallet[t].balance
<1> DEFINE h == Head(todo)
<1>1. /\ p \in {1, 4} => h.op = "wallet" /\ h.x = "native"
      /\ p = 7 => h.op = "wallet" /\ h.x = "bzz"
      /\ p \in {3, 6, 9} => h.op = "spent"
  <2>1. /\ Withdraw[1].op = "wallet" /\ Withdraw[1].x = "native"
        /\ Withdraw[4].op = "wallet" /\ Withdraw[4].x = "native"
        /\ Withdraw[7].op = "wallet" /\ Withdraw[7].x = "bzz"
    BY WithdrawRequests DEF Step
  <2>2. Withdraw[3].op = "spent" /\ Withdraw[6].op = "spent" /\ Withdraw[9].op = "spent"
    BY WithdrawRequests DEF Denied, Step
  <2>3. QED
    BY <2>1, <2>2
<1>2. /\ p = 2 => h.op = "withdraw" /\ h.x[1] = "native"
      /\ p = 5 => h.op = "withdraw" /\ h.x[2] = "zero"
      /\ p = 8 => h.op = "withdraw" /\ h.x[1] = "bzz"
  BY WithdrawRequests DEF Step
<1>3. \/ wallet' = wallet
      \/ h.op = "wallet" /\ wallet' = [wallet EXCEPT ![h.x].before = wallet[h.x].balance]
      \/ h.op = "withdraw" /\ h.x[2] # "zero" /\ wallet' = [wallet EXCEPT ![h.x[1]].due = @ + 1]
  BY WalletKept DEF Asked
<1> HIDE DEF h
<1>4. p \in {1, 4} \/ p = 7 \/ p \in {3, 6, 9} \/ p = 2 \/ p = 5 \/ p = 8
  BY UpTo9
<1>5. CASE wallet' = wallet
  BY <1>5
<1>6. CASE p \in {1, 4, 7} /\ wallet' = [wallet EXCEPT ![h.x].before = wallet[h.x].balance]
  <2>1. h.x \in {"native", "bzz"} /\ (p \in {1, 4} => h.x = "native") /\ (p = 7 => h.x = "bzz")
    BY <1>1, <1>6
  <2>2. wallet[h.x] \in Purse /\ wallet'[h.x] = [wallet[h.x] EXCEPT !.before = wallet[h.x].balance]
    BY <1>6, <2>1
  <2>3. /\ wallet'[h.x].due = wallet[h.x].due /\ wallet'[h.x].balance = wallet[h.x].balance
        /\ wallet'[h.x].before = wallet[h.x].balance /\ wallet'[h.x] \in Purse
    BY <2>2 DEF Purse
  <2>4. \A t \in {"native", "bzz"} \ {h.x} : wallet'[t] = wallet[t]
    BY <1>6, <2>1
  <2>5. wallet' \in [{"native", "bzz"} -> Purse]
    BY <1>6, <2>1, <2>3, <2>4
  <2>6. QED
    BY <1>6, <2>1, <2>3, <2>4, <2>5
<1>7. CASE p \in {2, 8} /\ wallet' = [wallet EXCEPT ![h.x[1]].due = @ + 1]
  <2>1. h.x[1] \in {"native", "bzz"} /\ (p = 2 => h.x[1] = "native") /\ (p = 8 => h.x[1] = "bzz")
    BY <1>2, <1>7
  <2>2. wallet[h.x[1]] \in Purse /\ wallet'[h.x[1]] = [wallet[h.x[1]] EXCEPT !.due = @ + 1]
    BY <1>7, <2>1
  <2>3. wallet'[h.x[1]] \in Purse
    BY <2>2 DEF Purse
  <2>4. \A t \in {"native", "bzz"} \ {h.x[1]} : wallet'[t] = wallet[t]
    BY <1>7, <2>1
  <2>5. wallet' \in [{"native", "bzz"} -> Purse]
    BY <1>7, <2>1, <2>3, <2>4
  <2>6. QED
    BY <1>7, <2>1, <2>4, <2>5
<1>8. QED
  BY <1>1, <1>2, <1>3, <1>4, <1>5, <1>6, <1>7


LEMMA Counterpart9 == ASSUME NEW n \in 1..9, NEW q, q = 10 - n PROVE q \in 1..9 /\ n = 10 - q
OBVIOUS

LEMMA WithdrawRequest == ASSUME PaysInv, WithdrawInv, check = "withdraw", Request PROVE WithdrawInv'
<1>1. /\ RestOf(todo, Withdraw) /\ wallet \in [{"native", "bzz"} -> Purse]
      /\ IsSeq(Withdraw) /\ Len(Withdraw) = 9
  BY WithdrawRequests DEF WithdrawInv
<1>2. /\ todo # <<>> /\ UNCHANGED <<check, runs>>
      /\ (\E a \in Answers : Answer(a) /\ Fits(a)) \/ (todo' = <<>> /\ verdict' = "panic")
  BY RequestAsks, AnswersFit
<1> DEFINE p == Len(Withdraw) - Len(todo) + 1
<1>3. p \in 1..9 /\ p = 10 - Len(todo) /\ Head(todo) = Withdraw[p]
  <2>1. Len(todo) \in 1..Len(Withdraw) /\ Head(todo) = Withdraw[p]
    BY <1>1, <1>2, RestHead
  <2>2. Len(todo) \in 1..9 /\ p = 10 - Len(todo)
    BY <1>1, <2>1
  <2> HIDE DEF p
  <2>3. p \in 1..9
    BY <2>2, Counterpart9
  <2>4. QED
    BY <2>1, <2>2, <2>3, Zenon
<1>4. p = Len(Withdraw) - Len(todo) + 1
  OBVIOUS
<1> HIDE DEF p
<1>5. /\ wallet' \in [{"native", "bzz"} -> Purse]
      /\ p \notin {1, 2, 4} => wallet'["native"] = wallet["native"]
      /\ p \notin {7, 8} => wallet'["bzz"] = wallet["bzz"]
      /\ \A t \in {"native", "bzz"} : p \in {1, 4, 7} =>
           /\ wallet'[t].due = wallet[t].due /\ wallet'[t].balance = wallet[t].balance
           /\ wallet'[t].before = wallet[t].before \/ wallet'[t].before = wallet[t].balance
  BY <1>1, <1>3, PursesKept
<1>6. CASE todo' = <<>> /\ verdict' = "panic"
  BY <1>1, <1>2, <1>5, <1>6, RestAtEnds DEF WithdrawInv
<1>7. ASSUME NEW a \in Answers, Answer(a), Fits(a) PROVE WithdrawInv'
  <2> DEFINE d == Withdraw[p][a]
  <2>1. /\ RestOf(todo', Withdraw)
        /\ \/ todo' = <<>> /\ verdict' = "fail"
           \/ todo' = <<>> /\ verdict' = "pass" /\ d \in Nat /\ p + d > 9
           \/ d \in Nat \ {0} /\ p + d <= 9 /\ verdict' = verdict /\ 9 - Len(todo') + 1 = p + d
    <3>1. d # Retry
      BY <1>3, WithdrawDecisions
    <3>2. /\ RestOf(todo', Withdraw)
          /\ \/ todo' = <<>> /\ verdict' = "fail"
             \/ todo' = <<>> /\ verdict' = "pass" /\ d \in Nat /\ p + d > Len(Withdraw)
             \/ d \in Nat \ {0} /\ p + d <= Len(Withdraw) /\ verdict' = verdict /\ Len(Withdraw) - Len(todo') + 1 = p + d
      BY <1>1, <1>2, <1>4, <1>7, <3>1, RestAnswered, WithdrawPlain
    <3>3. QED
      BY <1>1, <3>2
  <2>2. /\ p \in {1, 2, 3, 7, 8, 9} => (a = "ok" /\ d = 1) \/ d = Fail
        /\ p \in {4, 5, 6} => p + d \in 5..7 \/ d = Fail
    BY <1>3, WithdrawDecisions
  <2> HIDE DEF d
  <2>3. SUFFICES ASSUME runs = 1, verdict' \in {"none", "pass"}, NEW q, q = 10 - Len(todo')
                 PROVE  Stage(wallet'["native"], 3, q) /\ Stage(wallet'["bzz"], 9, q)
    BY <1>2, <1>5, <2>1 DEF WithdrawInv
  <2>4. verdict = "none" /\ Stage(wallet["native"], 3, p) /\ Stage(wallet["bzz"], 9, p)
    <3>1. verdict = "none"
      BY <1>2 DEF PaysInv, Run, Purchasing
    <3>2. QED
      BY <1>3, <2>3, <3>1 DEF WithdrawInv
  <2>5. /\ p \in {1, 2, 3, 7, 8, 9} => a = "ok" /\ q = p + 1
        /\ p \in {4, 5, 6} => q \in 5..7 /\ q > p
    <3>1. d \in Nat \ {0} /\ q = p + d
      <4>1. CASE todo' = <<>> /\ verdict' = "pass" /\ d \in Nat /\ p + d > 9
        <5>1. q = 10
          BY <2>3, <4>1, Nil
        <5>2. p = 9 /\ d = 1
          BY <1>3, <2>2, <4>1 DEF Fail
        <5>3. QED
          BY <5>1, <5>2
      <4>2. CASE d \in Nat \ {0} /\ 9 - Len(todo') + 1 = p + d
        <5>1. Len(todo') \in Nat
          BY <2>1 DEF RestOf, IsSeq
        <5>2. QED
          BY <2>3, <4>2, <5>1
      <4>3. QED
        BY <2>1, <2>3, <4>1, <4>2
    <3>2. QED
      BY <1>3, <2>2, <3>1 DEF Fail
  <2>6. p \in Int /\ q \in Int /\ p < q /\ wallet["native"] \in Purse /\ wallet["bzz"] \in Purse
    BY <1>1, <1>3, <2>5
  <2>7. Stage(wallet'["native"], 3, q)
    <3>1. CASE p \in {1, 4} \/ p \in {5, 6, 7, 8, 9}
      BY <1>5, <2>4, <2>5, <2>6, <3>1, StageKept
    <3>2. CASE p = 2
      <4>1. Withdraw[2].op = "withdraw" /\ Withdraw[2].x[1] = "native"
        BY WithdrawRequests DEF Step
      <4>2. wallet' = [wallet EXCEPT !["native"].due = @ + 1]
        BY <1>3, <1>7, <2>5, <3>2, <4>1 DEF Fits
      <4>3. /\ wallet'["native"].due = wallet["native"].due + 1
            /\ wallet'["native"].balance = wallet["native"].balance
            /\ wallet'["native"].before = wallet["native"].before
        BY <1>1, <4>2 DEF Purse
      <4>4. QED
        BY <2>4, <2>5, <2>6, <3>2, <4>3, StageRequested
    <3>3. CASE p = 3
      <4>1. Withdraw[3].op = "spent" /\ Withdraw[3].x = "native"
        BY WithdrawRequests DEF Step
      <4>2. wallet["native"].balance <= wallet["native"].before - 1
        BY <1>3, <1>7, <2>5, <3>3, <4>1 DEF Fits
      <4>3. QED
        BY <1>5, <2>4, <2>5, <2>6, <3>3, <4>2, StageMined
    <3>4. QED
      BY <1>3, <3>1, <3>2, <3>3, UpTo9
  <2>8. Stage(wallet'["bzz"], 9, q)
    <3>1. CASE p \in {1, 2, 3, 4, 5, 6, 7}
      <4>1. q < 9 /\ p < 9
        BY <2>5, <3>1
      <4>2. QED
        BY <1>5, <2>4, <2>6, <3>1, <4>1, StageKept
    <3>2. CASE p = 8
      <4>1. Withdraw[8].op = "withdraw" /\ Withdraw[8].x[1] = "bzz"
        BY WithdrawRequests DEF Step
      <4>2. wallet' = [wallet EXCEPT !["bzz"].due = @ + 1]
        BY <1>3, <1>7, <2>5, <3>2, <4>1 DEF Fits
      <4>3. /\ wallet'["bzz"].due = wallet["bzz"].due + 1
            /\ wallet'["bzz"].balance = wallet["bzz"].balance
            /\ wallet'["bzz"].before = wallet["bzz"].before
        BY <1>1, <4>2 DEF Purse
      <4>4. QED
        BY <2>4, <2>5, <2>6, <3>2, <4>3, StageRequested
    <3>3. CASE p = 9
      <4>1. Withdraw[9].op = "spent" /\ Withdraw[9].x = "bzz"
        BY WithdrawRequests DEF Step
      <4>2. wallet["bzz"].balance <= wallet["bzz"].before - 1
        BY <1>3, <1>7, <2>5, <3>3, <4>1 DEF Fits
      <4>3. QED
        BY <1>5, <2>4, <2>5, <2>6, <3>3, <4>2, StageMined
    <3>4. QED
      BY <1>3, <3>1, <3>2, <3>3, UpTo9
  <2>9. QED
    BY <2>7, <2>8
<1>8. QED
  BY <1>2, <1>6, <1>7


-----------------------------------------------------------------------------
(* The cashout check.                                                       *)

\* a loop whose body is four requests
Fours(s, seqs, k) ==
  IsSeq(s) /\ Len(s) = 4 * k /\ \A r \in 1..k : \A j \in 1..4 : s[4 * r - 4 + j] = seqs[r][j]

LEMMA OneFourMore ==
  ASSUME NEW seqs, NEW i \in Nat \ {0}, NEW s, Fours(s, seqs, i - 1), NEW t, t = seqs[i], IsSeq(t), Len(t) = 4
  PROVE  Fours(s \o t, seqs, i)
<1>1. IsSeq(s) /\ Len(s) = 4 * i - 4 /\ \A r \in 1..(i - 1) : \A j \in 1..4 : s[4 * r - 4 + j] = seqs[r][j]
  BY DEF Fours
<1>2. /\ IsSeq(s \o t) /\ Len(s \o t) = 4 * i
      /\ \A k \in 1..(4 * i - 4) : (s \o t)[k] = s[k]
      /\ \A k \in 1..4 : (s \o t)[4 * i - 4 + k] = t[k]
  <2>1. /\ IsSeq(s \o t) /\ Len(s \o t) = (4 * i - 4) + 4
        /\ \A k \in 1..(4 * i - 4) : (s \o t)[k] = s[k]
        /\ \A k \in 1..4 : (s \o t)[4 * i - 4 + k] = t[k]
    <3> DEFINE m == 4 * i - 4
    <3>1. Len(s) = m /\ IsSeq(s)
      BY <1>1
    <3> HIDE DEF m
    <3>2. /\ IsSeq(s \o t) /\ Len(s \o t) = m + 4
          /\ \A k \in 1..m : (s \o t)[k] = s[k]
          /\ \A k \in 1..4 : (s \o t)[m + k] = t[k]
      <4>1. IsSeq(s) /\ IsSeq(t) /\ Len(t) = 4
        BY <1>1
      <4>2. /\ IsSeq(s \o t) /\ Len(s \o t) = Len(s) + Len(t)
            /\ \A k \in 1..Len(s) : (s \o t)[k] = s[k]
        BY <4>1, Joined, ZenonT(60)
      <4>4. \A k \in 1..Len(t) : (s \o t)[Len(s) + k] = t[k]
        BY <4>1, Joined
      <4>3. QED
        BY <3>1, <4>1, <4>2, <4>4, Zenon
    <3>3. QED
      BY <3>2 DEF m
  <2>2. (4 * i - 4) + 4 = 4 * i
    OBVIOUS
  <2>3. QED
    BY <2>1, <2>2, Zenon
<1>3. ASSUME NEW r \in 1..i, NEW j \in 1..4 PROVE (s \o t)[4 * r - 4 + j] = seqs[r][j]
  <2>1. CASE r = i
    BY <1>2, <2>1
  <2>2. CASE r # i
    <3>1. r \in 1..(i - 1) /\ 4 * r - 4 + j \in 1..(4 * i - 4)
      BY <2>2
    <3>2. QED
      BY <1>1, <1>2, <3>1
  <2>3. QED
    BY <2>1, <2>2
<1>4. QED
  BY <1>2, <1>3 DEF Fours

LEMMA FlattenFours ==
  ASSUME NEW seqs, IsSeq(seqs), \A r \in 1..Len(seqs) : IsSeq(seqs[r]) /\ Len(seqs[r]) = 4
  PROVE  Fours(FlattenSeq(seqs), seqs, Len(seqs))
<1> DEFINE K == Len(seqs)
           U == Together(seqs)
           P == [k \in 0..K |-> {s \in Seq(U) : Fours(s, seqs, k)}]
<1>1. K \in Nat /\ seqs \in [1..K -> Seq(U)]
  BY SeqsTogether DEF IsSeq
<1> HIDE DEF U
<1>2. <<>> \in P[0]
  <2>1. Fours(<<>>, seqs, 0)
    BY Nil DEF Fours
  <2>2. QED
    BY <1>1, <2>1
<1>3. ASSUME NEW i \in 1..K, NEW s \in P[i - 1] \cap Seq(U) PROVE s \o seqs[i] \in P[i]
  <2>1. i - 1 \in 0..K /\ i \in 0..K
    BY <1>1
  <2>2. Fours(s, seqs, i - 1) /\ s \in Seq(U) /\ seqs[i] \in Seq(U) /\ IsSeq(seqs[i]) /\ Len(seqs[i]) = 4
    BY <1>1, <2>1
  <2>6. Fours(s \o seqs[i], seqs, i)
    BY <2>2, OneFourMore
  <2>7. s \o seqs[i] \in Seq(U)
    BY <2>2
  <2>8. QED
    BY <2>1, <2>6, <2>7
<1>4. FlattenSeq(seqs) \in P[K] \cap Seq(U)
  <2> HIDE DEF P, K
  <2>1. QED
    BY <1>1, <1>2, <1>3, FlattenIn
<1>5. QED
  BY <1>1, <1>4

\* The requests of the check: four for each cashout, then four in each round.
LEMMA CashoutRequests ==
  /\ IsSeq(Cashout) /\ Len(Cashout) = 8 + 4 * Retries
  /\ \A n \in {1, 2} :
       /\ Cashout[4 * n - 3] = [Step("uncashed", n, 0) EXCEPT !.no = 4]
       /\ Cashout[4 * n - 2] = [Step("uncashed", n, 0) EXCEPT !.no = 3]
       /\ Cashout[4 * n - 1] = Step("read", n, "chequebook")
       /\ Cashout[4 * n] = Step("cashout", n, 0)
  /\ \A r \in 1..Retries :
       /\ Cashout[4 * r + 5] = [Step("confirmed", 1, 0) EXCEPT !.no = IF r = Retries THEN Fail ELSE 4]
       /\ Cashout[4 * r + 6] = Step("paid", 1, 0)
       /\ Cashout[4 * r + 7] = [Step("confirmed", 2, 0) EXCEPT !.no = IF r = Retries THEN Fail ELSE 2]
       /\ Cashout[4 * r + 8] = [Step("paid", 2, 0) EXCEPT !.ok = 4 * (Retries - r) + 1]
<1> DEFINE out(n) == <<[Step("uncashed", n, 0) EXCEPT !.no = 4], [Step("uncashed", n, 0) EXCEPT !.no = 3],
                       Step("read", n, "chequebook"), Step("cashout", n, 0)>>
           outs == [i \in DOMAIN <<1, 2>> |-> out(<<1, 2>>[i])]
           all == [r \in 1..Retries |-> ConfirmRound(r)]
           A == FlattenSeq(outs)
           B == FlattenSeq(all)
<1>1. Cashout = A \o B /\ Retries \in Nat
  BY ContentAssumption DEF CashoutAll, Cashout, ForEach
<1>2. Fours(A, outs, 2) /\ outs[1] = out(1) /\ outs[2] = out(2)
  <2>1. outs = [i \in 1..2 |-> outs[i]] /\ outs[1] = out(1) /\ outs[2] = out(2)
    OBVIOUS
  <2>2. \A n : IsSeq(out(n)) /\ Len(out(n)) = 4
    BY DEF IsSeq
  <2> HIDE DEF out, outs
  <2>5. IsSeq(outs) /\ Len(outs) = 2
    BY <2>1, Listed
  <2>6. \A r \in 1..2 : r = 1 \/ r = 2
    OBVIOUS
  <2>3. IsSeq(outs) /\ Len(outs) = 2 /\ \A r \in 1..2 : IsSeq(outs[r]) /\ Len(outs[r]) = 4
    BY <2>1, <2>2, <2>5, <2>6, Zenon
  <2>4. QED
    BY <2>1, <2>3, FlattenFours
<1>3. Fours(B, all, Retries) /\ \A r \in 1..Retries : all[r] = ConfirmRound(r)
  <2>1. all = [i \in 1..Retries |-> all[i]] /\ \A r \in 1..Retries : all[r] = ConfirmRound(r)
    OBVIOUS
  <2>2. \A r : IsSeq(ConfirmRound(r)) /\ Len(ConfirmRound(r)) = 4
    BY DEF ConfirmRound, IsSeq
  <2> HIDE DEF all
  <2>3. IsSeq(all) /\ Len(all) = Retries /\ \A r \in 1..Retries : IsSeq(all[r]) /\ Len(all[r]) = 4
    BY <1>1, <2>1, <2>2, Listed
  <2>4. QED
    BY <2>1, <2>3, FlattenFours
<1>4. \A n : /\ out(n)[1] = [Step("uncashed", n, 0) EXCEPT !.no = 4]
             /\ out(n)[2] = [Step("uncashed", n, 0) EXCEPT !.no = 3]
             /\ out(n)[3] = Step("read", n, "chequebook") /\ out(n)[4] = Step("cashout", n, 0)
  OBVIOUS
<1>5. \A r : /\ ConfirmRound(r)[1] = [Step("confirmed", 1, 0) EXCEPT !.no = IF r = Retries THEN Fail ELSE 4]
             /\ ConfirmRound(r)[2] = Step("paid", 1, 0)
             /\ ConfirmRound(r)[3] = [Step("confirmed", 2, 0) EXCEPT !.no = IF r = Retries THEN Fail ELSE 2]
             /\ ConfirmRound(r)[4] = [Step("paid", 2, 0) EXCEPT !.ok = 4 * (Retries - r) + 1]
  BY DEF ConfirmRound
<1> HIDE DEF out, outs, all, A, B
<1>6. /\ IsSeq(A) /\ Len(A) = 8 /\ IsSeq(B) /\ Len(B) = 4 * Retries
      /\ \A n \in {1, 2} : \A j \in 1..4 : A[4 * n - 4 + j] = out(n)[j]
      /\ \A r \in 1..Retries : \A j \in 1..4 : B[4 * r - 4 + j] = ConfirmRound(r)[j]
  <2>1. IsSeq(A) /\ Len(A) = 8 /\ \A n \in 1..2 : \A j \in 1..4 : A[4 * n - 4 + j] = outs[n][j]
    BY <1>2 DEF Fours
  <2>2. \A n \in {1, 2} : n \in 1..2 /\ outs[n] = out(n)
    BY <1>2
  <2>3. \A n \in {1, 2} : \A j \in 1..4 : A[4 * n - 4 + j] = out(n)[j]
    BY <2>1, <2>2, Zenon
  <2>4. /\ IsSeq(B) /\ Len(B) = 4 * Retries
        /\ \A r \in 1..Retries : \A j \in 1..4 : B[4 * r - 4 + j] = all[r][j]
    BY <1>3 DEF Fours
  <2>5. \A r \in 1..Retries : \A j \in 1..4 : B[4 * r - 4 + j] = ConfirmRound(r)[j]
    BY <1>3, <2>4, Zenon
  <2>6. QED
    BY <2>1, <2>3, <2>4, <2>5, Zenon
<1>7. /\ IsSeq(Cashout) /\ Len(Cashout) = 8 + 4 * Retries
      /\ \A k \in 1..8 : Cashout[k] = A[k]
      /\ \A k \in 1..(4 * Retries) : Cashout[8 + k] = B[k]
  <2> DEFINE m == 4 * Retries
  <2>1. Len(B) = m
    BY <1>6
  <2> HIDE DEF m
  <2>2. /\ IsSeq(A \o B) /\ Len(A \o B) = 8 + m /\ \A k \in 1..8 : (A \o B)[k] = A[k]
        /\ \A k \in 1..m : (A \o B)[8 + k] = B[k]
    <3>1. IsSeq(A) /\ IsSeq(B) /\ Len(A) = 8
      BY <1>6
    <3>5. ASSUME NEW s, NEW t, IsSeq(s), IsSeq(t)
          PROVE  IsSeq(s \o t) /\ Len(s \o t) = Len(s) + Len(t) /\ \A k \in 1..Len(s) : (s \o t)[k] = s[k]
      BY <3>5, Joined
    <3>6. ASSUME NEW s, NEW t, IsSeq(s), IsSeq(t)
          PROVE  \A k \in 1..Len(t) : (s \o t)[Len(s) + k] = t[k]
      BY <3>6, Joined
    <3>2. IsSeq(A \o B) /\ Len(A \o B) = Len(A) + Len(B) /\ \A k \in 1..Len(A) : (A \o B)[k] = A[k]
      BY <3>1, <3>5, Zenon
    <3>4. \A k \in 1..Len(B) : (A \o B)[Len(A) + k] = B[k]
      <4>1. IsSeq(A) /\ IsSeq(B)
        BY <3>1
      <4>2. QED
        BY <4>1, <3>6
    <3>3. QED
      BY <2>1, <3>1, <3>2, <3>4, Zenon
  <2>3. QED
    BY <1>1, <2>2 DEF m
<1>8. ASSUME NEW n \in {1, 2}, NEW j \in 1..4 PROVE Cashout[4 * n - 4 + j] = out(n)[j]
  <2>1. 4 * n - 4 + j \in 1..8
    OBVIOUS
  <2>2. QED
    BY <1>6, <1>7, <2>1
<1>9. ASSUME NEW r \in 1..Retries, NEW j \in 1..4 PROVE Cashout[4 * r + 4 + j] = ConfirmRound(r)[j]
  <2>1. 4 * r - 4 + j \in 1..(4 * Retries) /\ 8 + (4 * r - 4 + j) = 4 * r + 4 + j
    BY <1>1
  <2>2. Cashout[8 + (4 * r - 4 + j)] = B[4 * r - 4 + j]
    BY <1>7, <2>1
  <2>3. QED
    BY <1>6, <2>1, <2>2
<1>10. ASSUME NEW n \in {1, 2}
       PROVE  /\ Cashout[4 * n - 3] = out(n)[1] /\ Cashout[4 * n - 2] = out(n)[2]
              /\ Cashout[4 * n - 1] = out(n)[3] /\ Cashout[4 * n] = out(n)[4]
  <2>1. /\ 4 * n - 4 + 1 = 4 * n - 3 /\ 4 * n - 4 + 2 = 4 * n - 2 /\ 4 * n - 4 + 3 = 4 * n - 1
        /\ 4 * n - 4 + 4 = 4 * n
    OBVIOUS
  <2>2. 1 \in 1..4 /\ 2 \in 1..4 /\ 3 \in 1..4 /\ 4 \in 1..4
    OBVIOUS
  <2>3. /\ Cashout[4 * n - 4 + 1] = out(n)[1] /\ Cashout[4 * n - 4 + 2] = out(n)[2]
        /\ Cashout[4 * n - 4 + 3] = out(n)[3] /\ Cashout[4 * n - 4 + 4] = out(n)[4]
    BY <1>8, <2>2, Zenon
  <2>4. QED
    BY <2>1, <2>3, Zenon
<1>11. ASSUME NEW r \in 1..Retries
       PROVE  /\ Cashout[4 * r + 5] = ConfirmRound(r)[1] /\ Cashout[4 * r + 6] = ConfirmRound(r)[2]
              /\ Cashout[4 * r + 7] = ConfirmRound(r)[3] /\ Cashout[4 * r + 8] = ConfirmRound(r)[4]
  <2>1. /\ 4 * r + 4 + 1 = 4 * r + 5 /\ 4 * r + 4 + 2 = 4 * r + 6 /\ 4 * r + 4 + 3 = 4 * r + 7
        /\ 4 * r + 4 + 4 = 4 * r + 8
    OBVIOUS
  <2>2. 1 \in 1..4 /\ 2 \in 1..4 /\ 3 \in 1..4 /\ 4 \in 1..4
    OBVIOUS
  <2>3. /\ Cashout[4 * r + 4 + 1] = ConfirmRound(r)[1] /\ Cashout[4 * r + 4 + 2] = ConfirmRound(r)[2]
        /\ Cashout[4 * r + 4 + 3] = ConfirmRound(r)[3] /\ Cashout[4 * r + 4 + 4] = ConfirmRound(r)[4]
    BY <1>9, <2>2, Zenon
  <2>4. QED
    BY <2>1, <2>3, Zenon
<1>12. ASSUME NEW n \in {1, 2}
       PROVE  /\ Cashout[4 * n - 3] = [Step("uncashed", n, 0) EXCEPT !.no = 4]
              /\ Cashout[4 * n - 2] = [Step("uncashed", n, 0) EXCEPT !.no = 3]
              /\ Cashout[4 * n - 1] = Step("read", n, "chequebook")
              /\ Cashout[4 * n] = Step("cashout", n, 0)
  BY <1>4, <1>10
<1>13. ASSUME NEW r \in 1..Retries
       PROVE  /\ Cashout[4 * r + 5] = [Step("confirmed", 1, 0) EXCEPT !.no = IF r = Retries THEN Fail ELSE 4]
              /\ Cashout[4 * r + 6] = Step("paid", 1, 0)
              /\ Cashout[4 * r + 7] = [Step("confirmed", 2, 0) EXCEPT !.no = IF r = Retries THEN Fail ELSE 2]
              /\ Cashout[4 * r + 8] = [Step("paid", 2, 0) EXCEPT !.ok = 4 * (Retries - r) + 1]
  BY <1>5, <1>11
<1>14. QED
  BY <1>7, <1>12, <1>13


\* A cashout is judged only once it is confirmed, the second one only after the
\* first was judged, and the check ends only after the second was.
Leads(r, a, t) ==
  /\ t.op = "paid" => a = "ok" /\ r.op = "confirmed" /\ r.n = t.n
  /\ t.op = "confirmed" /\ t.n = 2 => a = "ok" /\ r.op = "paid" /\ r.n = 1

Follows(s, i, a) ==
  s[i][a] \in Nat =>
    IF i + s[i][a] <= Len(s) THEN Leads(s[i], a, s[i + s[i][a]])
    ELSE a = "ok" /\ s[i].op = "paid" /\ s[i].n = 2

Rounded(s) ==
  /\ IsSeq(s)
  /\ \A i \in 1..Len(s) : Sound(s[i]) /\ s[i].n \in Pair /\ \A a \in Answers : s[i][a] # Retry /\ Follows(s, i, a)

LEMMA Decisions ==
  ASSUME NEW op, NEW n, NEW x, NEW k
  PROVE  /\ Step(op, n, x).op = op /\ Step(op, n, x).n = n
         /\ Step(op, n, x)["ok"] = 1 /\ Step(op, n, x)["no"] = -1 /\ Step(op, n, x)["err"] = -1
         /\ [Step(op, n, x) EXCEPT !.no = k].op = op /\ [Step(op, n, x) EXCEPT !.no = k].n = n
         /\ [Step(op, n, x) EXCEPT !.no = k]["ok"] = 1 /\ [Step(op, n, x) EXCEPT !.no = k]["no"] = k
         /\ [Step(op, n, x) EXCEPT !.no = k]["err"] = -1
         /\ [Step(op, n, x) EXCEPT !.ok = k].op = op /\ [Step(op, n, x) EXCEPT !.ok = k].n = n
         /\ [Step(op, n, x) EXCEPT !.ok = k]["ok"] = k /\ [Step(op, n, x) EXCEPT !.ok = k]["no"] = -1
         /\ [Step(op, n, x) EXCEPT !.ok = k]["err"] = -1
BY DEF Step, Fail

LEMMA CashoutPair == ASSUME NEW i \in 1..Len(Cashout) PROVE Cashout[i].n \in Pair
<1> DEFINE s == Cashout
<1>1. Len(s) = 8 + 4 * Retries /\ Retries \in Nat \ {0}
  BY CashoutRequests, ContentAssumption
<1>2. ASSUME NEW n \in {1, 2}, i \in {4 * n - 3, 4 * n - 2, 4 * n - 1, 4 * n} PROVE s[i].n \in Pair
  <2>0. /\ s[4 * n - 3] = [Step("uncashed", n, 0) EXCEPT !.no = 4]
        /\ s[4 * n - 2] = [Step("uncashed", n, 0) EXCEPT !.no = 3]
        /\ s[4 * n - 1] = Step("read", n, "chequebook") /\ s[4 * n] = Step("cashout", n, 0)
    BY CashoutRequests
  <2> HIDE DEF s
  <2>1. s[4 * n - 3].n = n /\ s[4 * n - 2].n = n
    BY <2>0, Decisions
  <2>2. s[4 * n - 1].n = n /\ s[4 * n].n = n
    BY <2>0, Decisions
  <2>3. QED
    BY <1>2, <2>1, <2>2 DEF Pair
<1>3. ASSUME NEW r \in 1..Retries, i \in {4 * r + 5, 4 * r + 6, 4 * r + 7, 4 * r + 8} PROVE s[i].n \in Pair
  <2>0. /\ s[4 * r + 5] = [Step("confirmed", 1, 0) EXCEPT !.no = IF r = Retries THEN Fail ELSE 4]
        /\ s[4 * r + 6] = Step("paid", 1, 0)
        /\ s[4 * r + 7] = [Step("confirmed", 2, 0) EXCEPT !.no = IF r = Retries THEN Fail ELSE 2]
        /\ s[4 * r + 8] = [Step("paid", 2, 0) EXCEPT !.ok = 4 * (Retries - r) + 1]
    BY CashoutRequests
  <2> HIDE DEF s
  <2>1. s[4 * r + 5].n = 1 /\ s[4 * r + 6].n = 1
    BY <2>0, Decisions
  <2>2. s[4 * r + 7].n = 2 /\ s[4 * r + 8].n = 2
    BY <2>0, Decisions
  <2>3. QED
    BY <1>3, <2>1, <2>2 DEF Pair
<1>4. i \in 1..(8 + 4 * Retries)
  BY <1>1
<1> HIDE DEF s
<1>5. CASE i \in 1..8
  <2>1. i \in {4 * 1 - 3, 4 * 1 - 2, 4 * 1 - 1, 4 * 1} \/ i \in {4 * 2 - 3, 4 * 2 - 2, 4 * 2 - 1, 4 * 2}
    BY <1>5
  <2>2. QED
    BY <1>2, <2>1 DEF s
<1>6. CASE i \notin 1..8
  <2>1. i \in 9..(8 + 4 * Retries)
    BY <1>1, <1>4, <1>6
  <2> DEFINE r == (i - 5) \div 4
  <2>2. r \in 1..Retries /\ i \in {4 * r + 5, 4 * r + 6, 4 * r + 7, 4 * r + 8}
    BY <1>1, <2>1
  <2> HIDE DEF r
  <2>3. QED
    BY <1>3, <2>2 DEF s
<1>7. QED
  BY <1>5, <1>6

LEMMA CashoutRounded == Rounded(Cashout)
<1> DEFINE s == Cashout
           R == Retries
<1>1. IsSeq(s) /\ Len(s) = 8 + 4 * R /\ R \in Nat \ {0} /\ \A i \in 1..Len(s) : Sound(s[i])
  BY CashoutRequests, CashoutPlain, ContentAssumption DEF AllPlain, Plain
<1>2. /\ s[1].op = "uncashed" /\ s[2].op = "uncashed" /\ s[3].op = "read" /\ s[4].op = "cashout"
      /\ s[5].op = "uncashed" /\ s[6].op = "uncashed" /\ s[7].op = "read" /\ s[8].op = "cashout"
      /\ s[1]["no"] = 4 /\ s[2]["no"] = 3 /\ s[3]["no"] = -1 /\ s[4]["no"] = -1
      /\ s[5]["no"] = 4 /\ s[6]["no"] = 3 /\ s[7]["no"] = -1 /\ s[8]["no"] = -1
      /\ \A i \in {1, 2, 3, 4, 5, 6, 7, 8} : s[i]["ok"] = 1 /\ s[i]["err"] = -1
  <2>1. \A n \in {1, 2} : /\ s[4 * n - 3].op = "uncashed" /\ s[4 * n - 2].op = "uncashed"
                          /\ s[4 * n - 1].op = "read" /\ s[4 * n].op = "cashout"
                          /\ s[4 * n - 3]["no"] = 4 /\ s[4 * n - 2]["no"] = 3
                          /\ s[4 * n - 1]["no"] = -1 /\ s[4 * n]["no"] = -1
                          /\ s[4 * n - 3]["ok"] = 1 /\ s[4 * n - 2]["ok"] = 1
                          /\ s[4 * n - 1]["ok"] = 1 /\ s[4 * n]["ok"] = 1
                          /\ s[4 * n - 3]["err"] = -1 /\ s[4 * n - 2]["err"] = -1
                          /\ s[4 * n - 1]["err"] = -1 /\ s[4 * n]["err"] = -1
    <3> SUFFICES ASSUME NEW n \in {1, 2}
                 PROVE  /\ s[4 * n - 3].op = "uncashed" /\ s[4 * n - 2].op = "uncashed"
                        /\ s[4 * n - 1].op = "read" /\ s[4 * n].op = "cashout"
                        /\ s[4 * n - 3]["no"] = 4 /\ s[4 * n - 2]["no"] = 3
                        /\ s[4 * n - 1]["no"] = -1 /\ s[4 * n]["no"] = -1
                        /\ s[4 * n - 3]["ok"] = 1 /\ s[4 * n - 2]["ok"] = 1
                        /\ s[4 * n - 1]["ok"] = 1 /\ s[4 * n]["ok"] = 1
                        /\ s[4 * n - 3]["err"] = -1 /\ s[4 * n - 2]["err"] = -1
                        /\ s[4 * n - 1]["err"] = -1 /\ s[4 * n]["err"] = -1
      OBVIOUS
    <3>1. /\ s[4 * n - 3] = [Step("uncashed", n, 0) EXCEPT !.no = 4]
          /\ s[4 * n - 2] = [Step("uncashed", n, 0) EXCEPT !.no = 3]
          /\ s[4 * n - 1] = Step("read", n, "chequebook")
          /\ s[4 * n] = Step("cashout", n, 0)
      BY CashoutRequests
    <3> HIDE DEF s
    <3>2. s[4 * n - 3].op = "uncashed" /\ s[4 * n - 3]["ok"] = 1 /\ s[4 * n - 3]["no"] = 4 /\ s[4 * n - 3]["err"] = -1
      BY <3>1, Decisions
    <3>3. s[4 * n - 2].op = "uncashed" /\ s[4 * n - 2]["ok"] = 1 /\ s[4 * n - 2]["no"] = 3 /\ s[4 * n - 2]["err"] = -1
      BY <3>1, Decisions
    <3>4. s[4 * n - 1].op = "read" /\ s[4 * n - 1]["ok"] = 1 /\ s[4 * n - 1]["no"] = -1 /\ s[4 * n - 1]["err"] = -1
      BY <3>1, Decisions
    <3>5. s[4 * n].op = "cashout" /\ s[4 * n]["ok"] = 1 /\ s[4 * n]["no"] = -1 /\ s[4 * n]["err"] = -1
      BY <3>1, Decisions
    <3>6. QED
      BY <3>2, <3>3, <3>4, <3>5
  <2> HIDE DEF s
  <2>2. QED
    BY <2>1
<1>3. ASSUME NEW r \in 1..R
      PROVE  /\ s[4 * r + 5].op = "confirmed" /\ s[4 * r + 5].n = 1 /\ s[4 * r + 5]["ok"] = 1
             /\ s[4 * r + 5]["no"] = (IF r = R THEN -1 ELSE 4) /\ s[4 * r + 5]["err"] = -1
             /\ s[4 * r + 6].op = "paid" /\ s[4 * r + 6].n = 1 /\ s[4 * r + 6]["ok"] = 1
             /\ s[4 * r + 6]["no"] = -1 /\ s[4 * r + 6]["err"] = -1
             /\ s[4 * r + 7].op = "confirmed" /\ s[4 * r + 7].n = 2 /\ s[4 * r + 7]["ok"] = 1
             /\ s[4 * r + 7]["no"] = (IF r = R THEN -1 ELSE 2) /\ s[4 * r + 7]["err"] = -1
             /\ s[4 * r + 8].op = "paid" /\ s[4 * r + 8].n = 2 /\ s[4 * r + 8]["ok"] = 4 * (R - r) + 1
             /\ s[4 * r + 8]["no"] = -1 /\ s[4 * r + 8]["err"] = -1
  <2>1. /\ s[4 * r + 5] = [Step("confirmed", 1, 0) EXCEPT !.no = IF r = R THEN -1 ELSE 4]
        /\ s[4 * r + 6] = Step("paid", 1, 0)
        /\ s[4 * r + 7] = [Step("confirmed", 2, 0) EXCEPT !.no = IF r = R THEN -1 ELSE 2]
        /\ s[4 * r + 8] = [Step("paid", 2, 0) EXCEPT !.ok = 4 * (R - r) + 1]
    BY CashoutRequests DEF Fail
  <2> HIDE DEF s
  <2>2. /\ s[4 * r + 5].op = "confirmed" /\ s[4 * r + 5].n = 1 /\ s[4 * r + 5]["ok"] = 1
        /\ s[4 * r + 5]["no"] = (IF r = R THEN -1 ELSE 4) /\ s[4 * r + 5]["err"] = -1
    BY <2>1, Decisions
  <2>3. /\ s[4 * r + 6].op = "paid" /\ s[4 * r + 6].n = 1 /\ s[4 * r + 6]["ok"] = 1
        /\ s[4 * r + 6]["no"] = -1 /\ s[4 * r + 6]["err"] = -1
    BY <2>1, Decisions
  <2>4. /\ s[4 * r + 7].op = "confirmed" /\ s[4 * r + 7].n = 2 /\ s[4 * r + 7]["ok"] = 1
        /\ s[4 * r + 7]["no"] = (IF r = R THEN -1 ELSE 2) /\ s[4 * r + 7]["err"] = -1
    BY <2>1, Decisions
  <2>5. /\ s[4 * r + 8].op = "paid" /\ s[4 * r + 8].n = 2 /\ s[4 * r + 8]["ok"] = 4 * (R - r) + 1
        /\ s[4 * r + 8]["no"] = -1 /\ s[4 * r + 8]["err"] = -1
    BY <2>1, Decisions
  <2>6. QED
    BY <2>2, <2>3, <2>4, <2>5
<1> HIDE DEF s
<1>4. SUFFICES ASSUME NEW i \in 1..Len(s), NEW a \in Answers PROVE s[i][a] # Retry /\ Follows(s, i, a)
  BY <1>1, CashoutPair DEF Rounded, s
<1>5. a = "ok" \/ a = "no" \/ a = "err"
  BY DEF Answers
<1>6. CASE i \in 1..8
  <2>0. i = 1 \/ i = 2 \/ i = 3 \/ i = 4 \/ i = 5 \/ i = 6 \/ i = 7 \/ i = 8
    BY <1>6
  <2> DEFINE d == s[i][a]
  <2>1. d = -1 \/ (d \in Nat \ {0} /\ i + d \in 1..9)
    <3>1. CASE a = "ok"
      <4>1. s[i]["ok"] = 1
        BY <1>2, <2>0
      <4>2. QED
        BY <1>6, <3>1, <4>1
    <3>2. CASE a = "err"
      <4>1. s[i]["err"] = -1
        BY <1>2, <2>0
      <4>2. QED
        BY <3>2, <4>1
    <3>3. CASE a = "no"
      <4>1. CASE i = 1 \/ i = 5
        <5>1. s[i]["no"] = 4
          BY <1>2, <4>1
        <5>2. QED
          BY <3>3, <4>1, <5>1
      <4>2. CASE i = 2 \/ i = 6
        <5>1. s[i]["no"] = 3
          BY <1>2, <4>2
        <5>2. QED
          BY <3>3, <4>2, <5>1
      <4>3. CASE i = 3 \/ i = 4 \/ i = 7 \/ i = 8
        <5>1. s[i]["no"] = -1
          BY <1>2, <4>3
        <5>2. QED
          BY <3>3, <5>1
      <4>4. QED
        BY <2>0, <4>1, <4>2, <4>3
    <3>4. QED
      BY <1>5, <3>1, <3>2, <3>3
  <2>2. \A j \in 1..9 : s[j].op # "paid" /\ (s[j].op = "confirmed" => s[j].n = 1)
    <3>1. s[9].op = "confirmed" /\ s[9].n = 1
      <4>1. 1 \in 1..R /\ 4 * 1 + 5 = 9
        BY <1>1
      <4>2. QED
        BY <1>3, <4>1
    <3>2. \A j \in 1..9 : j = 1 \/ j = 2 \/ j = 3 \/ j = 4 \/ j = 5 \/ j = 6 \/ j = 7 \/ j = 8 \/ j = 9
      OBVIOUS
    <3>3. QED
      BY <1>2, <3>1, <3>2
  <2>3. Len(s) >= 9
    BY <1>1
  <2>4. d = s[i][a]
    OBVIOUS
  <2> HIDE DEF d
  <2>5. CASE d = -1
    BY <2>4, <2>5 DEF Follows, Retry
  <2>6. CASE d \in Nat \ {0} /\ i + d \in 1..9
    <3>1. i + d <= Len(s) /\ Leads(s[i], a, s[i + d])
      BY <1>1, <2>2, <2>3, <2>6 DEF Leads
    <3>2. QED
      BY <2>4, <2>6, <3>1 DEF Follows, Retry
  <2>7. QED
    BY <2>1, <2>5, <2>6
<1>7. ASSUME NEW r \in 1..R, i \in {4 * r + 5, 4 * r + 6, 4 * r + 7, 4 * r + 8}
      PROVE  s[i][a] # Retry /\ Follows(s, i, a)
  <2>0. 4 * r + 8 <= Len(s) /\ r \in Int /\ Len(s) \in Int
    BY <1>1
  <2>1. CASE i = 4 * r + 5
    <3>1. CASE a = "ok"
      <4>1. s[i][a] = 1 /\ i + 1 = 4 * r + 6 /\ i + 1 <= Len(s)
        BY <1>3, <2>0, <2>1, <3>1
      <4>2. QED
        BY <1>3, <2>1, <3>1, <4>1 DEF Follows, Leads, Retry
    <3>2. CASE a = "no" /\ r # R
      <4>0. r + 1 \in 1..R
        BY <1>1, <3>2
      <4>1. s[i][a] = 4 /\ r + 1 \in 1..R
        BY <1>3, <2>1, <3>2, <4>0
      <4>2. i + 4 = 4 * (r + 1) + 5 /\ i + 4 <= Len(s)
        BY <1>1, <2>1, <4>1, SMTT(60)
      <4>3. s[i + 4].op = "confirmed" /\ s[i + 4].n = 1
        BY <1>3, <4>1, <4>2, ZenonT(60)
      <4>4. QED
        BY <4>1, <4>2, <4>3 DEF Follows, Leads, Retry
    <3>3. CASE a = "err" \/ (a = "no" /\ r = R)
      BY <1>3, <2>1, <3>3 DEF Follows, Retry
    <3>4. QED
      BY <1>5, <3>1, <3>2, <3>3
  <2>2. CASE i = 4 * r + 6
    <3>1. CASE a = "ok"
      <4>1. s[i][a] = 1 /\ i + 1 = 4 * r + 7 /\ i + 1 <= Len(s)
        BY <1>3, <2>0, <2>2, <3>1
      <4>2. QED
        BY <1>3, <2>2, <3>1, <4>1 DEF Follows, Leads, Retry
    <3>2. CASE a # "ok"
      BY <1>3, <1>5, <2>2, <3>2 DEF Follows, Retry
    <3>3. QED
      BY <3>1, <3>2
  <2>3. CASE i = 4 * r + 7
    <3>1. CASE a = "ok"
      <4>1. s[i][a] = 1 /\ i + 1 = 4 * r + 8 /\ i + 1 <= Len(s)
        BY <1>3, <2>0, <2>3, <3>1
      <4>2. QED
        BY <1>3, <2>3, <3>1, <4>1 DEF Follows, Leads, Retry
    <3>2. CASE a = "no" /\ r # R
      <4>0. r + 1 \in 1..R
        BY <1>1, <3>2
      <4>1. s[i][a] = 2 /\ r + 1 \in 1..R
        BY <1>3, <2>3, <3>2, <4>0
      <4>2. i + 2 = 4 * (r + 1) + 5 /\ i + 2 <= Len(s)
        BY <1>1, <2>3, <4>1, SMTT(60)
      <4>3. s[i + 2].op = "confirmed" /\ s[i + 2].n = 1
        BY <1>3, <4>1, <4>2, ZenonT(60)
      <4>4. QED
        BY <4>1, <4>2, <4>3 DEF Follows, Leads, Retry
    <3>3. CASE a = "err" \/ (a = "no" /\ r = R)
      BY <1>3, <2>3, <3>3 DEF Follows, Retry
    <3>4. QED
      BY <1>5, <3>1, <3>2, <3>3
  <2>4. CASE i = 4 * r + 8
    <3>1. CASE a = "ok"
      <4>1. s[i][a] = 4 * (R - r) + 1 /\ s[i].op = "paid" /\ s[i].n = 2
        BY <1>3, <2>4, <3>1
      <4>2. 4 * (R - r) + 1 \in Nat \ {0} /\ i + (4 * (R - r) + 1) > Len(s)
        BY <1>1, <2>4
      <4>3. QED
        BY <1>1, <3>1, <4>1, <4>2 DEF Follows, Retry
    <3>2. CASE a # "ok"
      BY <1>3, <1>5, <2>4, <3>2 DEF Follows, Retry
    <3>3. QED
      BY <3>1, <3>2
  <2>5. QED
    BY <1>7, <2>1, <2>2, <2>3, <2>4
<1>8. CASE i \notin 1..8
  <2>1. i \in 9..(8 + 4 * R)
    BY <1>1, <1>8
  <2> DEFINE r == (i - 5) \div 4
  <2>2. r \in 1..R /\ i \in {4 * r + 5, 4 * r + 6, 4 * r + 7, 4 * r + 8}
    BY <1>1, <2>1
  <2> HIDE DEF r
  <2>3. QED
    BY <1>7, <2>2
<1>9. QED
  BY <1>6, <1>8


Cleared(n) == n \in actions => cheques[n] = "paid"
OnChain(n) == n \in actions => cheques[n] # "sent"

\* Whatever this run has cashed was sent, may have been mined, and nothing is
\* judged that is not on the chain.
Cashed ==
  /\ cheques \in [Pair -> {"none", "uncashed", "sent", "paid", "bounced"}]
  /\ actions \subseteq Pair /\ \A n \in actions : cheques[n] \in {"sent", "paid", "bounced"}

CashoutInv ==
  check = "cashout" =>
    /\ Rounded(todo) /\ Cashed
    /\ Here("paid", 1) => OnChain(1)
    /\ Here("confirmed", 2) => Cleared(1)
    /\ Here("paid", 2) => Cleared(1) /\ OnChain(2)
    /\ verdict = "pass" => Cleared(1) /\ Cleared(2)

LEMMA NilRounded == Rounded(<<>>)
BY Nil DEF Rounded

LEMMA RoundedGoesOn ==
  ASSUME Rounded(todo), NEW d \in 1..(Len(todo) - 1), GoesOn(d)
  PROVE  Rounded(todo') /\ todo' # <<>> /\ Head(todo') = todo[1 + d]
<1>1. /\ IsSeq(todo) /\ IsSeq(todo') /\ Len(todo) \in Nat /\ Len(todo') = Len(todo) - d
      /\ \A i \in 1..(Len(todo) - d) : todo'[i] = todo[d + i]
  BY DEF GoesOn, Rounded, IsSeq
<1>2. ASSUME NEW i \in 1..Len(todo'), NEW a \in Answers
      PROVE  /\ Sound(todo'[i]) /\ todo'[i].n \in Pair
             /\ todo'[i][a] # Retry /\ Follows(todo', i, a)
  <2>1. d + i \in 1..Len(todo) /\ todo'[i] = todo[d + i]
    BY <1>1
  <2>2. Sound(todo[d + i]) /\ todo[d + i].n \in Pair /\ todo[d + i][a] # Retry /\ Follows(todo, d + i, a)
    BY <2>1 DEF Rounded
  <2>3. Follows(todo', i, a)
    <3> DEFINE e == todo'[i][a]
    <3>1. SUFFICES ASSUME e \in Nat
                   PROVE  IF i + e <= Len(todo') THEN Leads(todo'[i], a, todo'[i + e])
                          ELSE a = "ok" /\ todo'[i].op = "paid" /\ todo'[i].n = 2
      BY DEF Follows
    <3>2. e = todo[d + i][a]
      BY <2>1
    <3>3. IF (d + i) + e <= Len(todo) THEN Leads(todo[d + i], a, todo[(d + i) + e])
          ELSE a = "ok" /\ todo[d + i].op = "paid" /\ todo[d + i].n = 2
      BY <2>2, <3>1, <3>2 DEF Follows
    <3> HIDE DEF e
    <3>4. i + e <= Len(todo') <=> (d + i) + e <= Len(todo)
      BY <1>1, <3>1
    <3>5. i + e <= Len(todo') => todo'[i + e] = todo[(d + i) + e]
      <4>1. ASSUME i + e <= Len(todo') PROVE i + e \in 1..(Len(todo) - d) /\ d + (i + e) = (d + i) + e
        BY <1>1, <3>1, <4>1
      <4>2. QED
        BY <1>1, <4>1
    <3>6. QED
      BY <2>1, <3>3, <3>4, <3>5
  <2>4. QED
    BY <2>1, <2>2, <2>3
<1>3. Rounded(todo')
  <2>1. "ok" \in Answers
    BY DEF Answers
  <2>2. QED
    BY <1>1, <1>2, <2>1 DEF Rounded
<1>4. todo' # <<>> /\ todo'[1] = todo[1 + d]
  <2>1. Len(todo') # 0 /\ 1 \in 1..(Len(todo) - d) /\ d + 1 = 1 + d
    BY <1>1
  <2>2. QED
    BY <1>1, <2>1, Nil
<1>5. QED
  BY <1>1, <1>3, <1>4, HeadIsFirst

LEMMA ChequesKept ==
  ASSUME Request
  PROVE  \/ UNCHANGED <<cheques, actions>>
         \/ /\ Asked({"cashout"}) /\ cheques' = [cheques EXCEPT ![Head(todo).n] = "sent"]
            /\ actions' = actions \/ actions' = actions \cup {Head(todo).n}
<1>1. CASE CashoutTx
  BY <1>1, AccountingAsks DEF CashoutTx
<1>2. CASE UNCHANGED <<cheques, actions>>
  BY <1>2
<1>4. ASSUME AccountingStep PROVE CashoutTx \/ UNCHANGED <<cheques, actions>>
  BY <1>4 DEF AccountingStep, Account, SettlementsRead, BalancesValid, SettlementsValid, Happened, Panics, Uncashed, Confirmed, Paid,
       Session, Running, StakeIs, Deposit, Migrate, Pause, WaitMined, Wallet, WithdrawTx, Spent, accounts
<1>5. ASSUME TopologyStep PROVE UNCHANGED <<cheques, actions>>
  BY <1>5 DEF TopologyStep, ReadPeers, Judge, Underlay, Format, VerifyDNSResolution, VerifyNodeTLSCert,
       ConnectPeer, Snapshot, Compare, rest, accounts
<1>6. QED
  BY <1>1, <1>2, <1>4, <1>5 DEF Request, accounts

LEMMA CashoutRequest == ASSUME PaysInv, CashoutInv, check = "cashout", Request PROVE CashoutInv'
<1>1. Rounded(todo) /\ Cashed
  BY DEF CashoutInv
<1>2. /\ todo # <<>> /\ UNCHANGED <<check, runs>> /\ verdict = "none"
      /\ (\E a \in Answers : Answer(a) /\ Fits(a)) \/ (todo' = <<>> /\ verdict' = "panic")
  <2>1. todo # <<>> /\ UNCHANGED <<check, runs>>
    BY RequestAsks
  <2>2. verdict = "none"
    BY <2>1 DEF PaysInv, Run, Purchasing
  <2>3. QED
    BY <2>1, <2>2, AnswersFit
<1>3. Cashed' /\ (Head(todo).op # "cashout" => UNCHANGED <<cheques, actions>>)
  <2>1. Head(todo).n \in Pair
    <3>1. Head(todo) = todo[1] /\ 1 \in 1..Len(todo)
      BY <1>1, <1>2, HeadIsFirst DEF Rounded
    <3>2. QED
      BY <1>1, <3>1 DEF Rounded
  <2>2. CASE UNCHANGED <<cheques, actions>>
    BY <1>1, <2>2 DEF Cashed
  <2>3. CASE /\ Asked({"cashout"}) /\ cheques' = [cheques EXCEPT ![Head(todo).n] = "sent"]
             /\ actions' = actions \/ actions' = actions \cup {Head(todo).n}
    BY <1>1, <2>1, <2>3 DEF Cashed, Asked
  <2>4. QED
    BY <2>2, <2>3, ChequesKept
<1>4. CASE todo' = <<>> /\ verdict' # "pass"
  BY <1>3, <1>4, NilRounded DEF CashoutInv, Here
<1>5. ASSUME NEW a \in Answers, Answer(a), Fits(a), todo' # <<>> \/ verdict' = "pass" PROVE CashoutInv'
  <2> DEFINE h == Head(todo)
             d == todo[1][a]
  <2>1. /\ IsSeq(todo) /\ h = todo[1] /\ Len(todo) \in Nat \ {0}
        /\ Sound(h) /\ d # Retry /\ Follows(todo, 1, a)
    <3>1. IsSeq(todo) /\ h = todo[1] /\ Len(todo) \in Nat \ {0} /\ 1 \in 1..Len(todo)
      BY <1>1, <1>2, HeadIsFirst DEF Rounded
    <3>2. Sound(todo[1]) /\ d # Retry /\ Follows(todo, 1, a)
      BY <1>1, <3>1 DEF Rounded
    <3>3. QED
      BY <3>1, <3>2
  <2>2. Chosen(a) = d /\ ~TriesAgain(a)
    BY <2>1 DEF Chosen, TriesAgain
  <2>3. CASE Ends /\ (verdict' = "pass" => Chosen(a) \in Nat /\ Len(todo) <= Chosen(a))
    <3>1. todo' = <<>> /\ d \in Nat /\ Len(todo) <= d
      BY <1>5, <2>2, <2>3 DEF Ends
    <3>2. ~(1 + d <= Len(todo))
      BY <2>1, <3>1
    <3>3. a = "ok" /\ h.op = "paid" /\ h.n = 2
      BY <2>1, <3>1, <3>2 DEF Follows
    <3>4. Cleared(1) /\ OnChain(2) /\ (2 \in actions => cheques[2] # "bounced") /\ UNCHANGED <<cheques, actions>>
      BY <1>2, <1>3, <1>5, <3>3 DEF CashoutInv, Here, Fits
    <3>6. Cleared(1)' /\ Cleared(2)'
      BY <1>1, <3>4 DEF Cleared, OnChain, Cashed
    <3>5. QED
      BY <1>3, <3>1, <3>6, NilRounded DEF CashoutInv, Here
  <2>4. CASE Chosen(a) \in 1..(Len(todo) - 1) /\ GoesOn(Chosen(a))
    <3>1. Rounded(todo') /\ todo' # <<>> /\ Head(todo') = todo[1 + d] /\ verdict' = verdict
      BY <1>1, <2>2, <2>4, RoundedGoesOn DEF GoesOn
    <3>2. d \in Nat /\ 1 + d <= Len(todo)
      BY <2>1, <2>2, <2>4
    <3>3. Leads(h, a, Head(todo'))
      BY <2>1, <3>1, <3>2 DEF Follows
    <3> HIDE DEF d
    <3>4. Here("paid", 1)' => OnChain(1)'
      BY <1>3, <1>5, <3>3 DEF Leads, Here, Fits, OnChain
    <3>5. Here("confirmed", 2)' => Cleared(1)'
      <4>1. SUFFICES ASSUME Here("confirmed", 2)' PROVE Cleared(1)'
        OBVIOUS
      <4>2. a = "ok" /\ h.op = "paid" /\ h.n = 1
        BY <3>3, <4>1 DEF Leads, Here
      <4>3. OnChain(1) /\ (1 \in actions => cheques[1] # "bounced") /\ UNCHANGED <<cheques, actions>>
        BY <1>2, <1>3, <1>5, <4>2 DEF CashoutInv, Here, Fits
      <4>4. QED
        BY <1>1, <4>3 DEF Cleared, OnChain, Cashed
    <3>6. Here("paid", 2)' => Cleared(1)' /\ OnChain(2)'
      <4>1. SUFFICES ASSUME Here("paid", 2)' PROVE Cleared(1)' /\ OnChain(2)'
        OBVIOUS
      <4>2. a = "ok" /\ h.op = "confirmed" /\ h.n = 2
        BY <3>3, <4>1 DEF Leads, Here
      <4>3. QED
        BY <1>2, <1>3, <1>5, <4>2 DEF CashoutInv, Here, Fits, Cleared, OnChain
    <3>7. QED
      BY <1>2, <1>3, <3>1, <3>4, <3>5, <3>6 DEF CashoutInv
  <2>5. QED
    BY <1>2, <1>5, <2>1, <2>2, <2>3, <2>4, Answered
<1>6. QED
  BY <1>2, <1>4, <1>5


-----------------------------------------------------------------------------
(* The checks of money together.                                            *)

PaidInv == PaysInv /\ runs \in Nat \ {0} /\ StakeInv /\ WithdrawInv /\ CashoutInv

LEMMA MoneyScripts ==
  Script("stake") = Stake /\ Script("withdraw") = Withdraw /\ Script("cashout") = Cashout
<1>1. "stake" \notin ContentCheckNames /\ "withdraw" \notin ContentCheckNames /\ "cashout" \notin ContentCheckNames
  BY DEF ContentCheckNames
<1>2. "stake" \in AccountingCheckNames /\ "withdraw" \in AccountingCheckNames /\ "cashout" \in AccountingCheckNames
  BY DEF AccountingCheckNames
<1>3. /\ "stake" \notin TopologyCheckNames /\ "withdraw" \notin TopologyCheckNames
      /\ "cashout" \notin TopologyCheckNames
  BY DEF TopologyCheckNames
<1>4. \A c : c \notin ContentCheckNames /\ c \in AccountingCheckNames /\ c \notin TopologyCheckNames
         => Script(c) = AccountingScript(c)
  BY DEF Script
<1>5. /\ AccountingScript("stake") = Stake /\ AccountingScript("withdraw") = Withdraw
      /\ AccountingScript("cashout") = Cashout
  BY DEF AccountingScript
<1>6. QED
  BY <1>1, <1>2, <1>3, <1>4, <1>5

LEMMA CashoutFirst == Cashout[1].op = "uncashed"
<1>1. Cashout[4 * 1 - 3] = [Step("uncashed", 1, 0) EXCEPT !.no = 4] /\ 4 * 1 - 3 = 1
  BY CashoutRequests
<1>2. Cashout[1] = [Step("uncashed", 1, 0) EXCEPT !.no = 4]
  BY <1>1
<1>3. QED
  BY <1>2, Decisions

\* A script from its first request.
LEMMA StartPaid ==
  ASSUME todo = Script(check)
  PROVE  /\ check = "stake" => RestOf(todo, Stake) /\ Len(todo) = 21
         /\ check = "withdraw" => RestOf(todo, Withdraw) /\ Len(todo) = 9
         /\ check = "cashout" => Rounded(todo) /\ \A n : ~Here("paid", n) /\ ~Here("confirmed", n)
<1>1. check = "stake" => RestOf(todo, Stake) /\ Len(todo) = 21
  BY MoneyScripts, StakeRequests, RestAtEnds
<1>2. check = "withdraw" => RestOf(todo, Withdraw) /\ Len(todo) = 9
  BY MoneyScripts, WithdrawRequests, RestAtEnds
<1>3. ASSUME check = "cashout" PROVE Rounded(todo) /\ \A n : ~Here("paid", n) /\ ~Here("confirmed", n)
  <2>1. todo = Cashout /\ Rounded(todo) /\ IsSeq(todo)
    BY <1>3, MoneyScripts, CashoutRounded DEF Rounded
  <2>2. todo # <<>> => Head(todo) = todo[1]
    BY <2>1, HeadIsFirst
  <2>3. Cashout[1].op = "uncashed"
    BY CashoutFirst
  <2>4. QED
    BY <2>1, <2>2, <2>3 DEF Here
<1>4. QED
  BY <1>1, <1>2, <1>3

LEMMA InitPaid == Init => PaidInv
<1> SUFFICES ASSUME Init PROVE PaidInv
  OBVIOUS
<1>1. todo = Script(check) /\ runs = 1 /\ verdict = "none" /\ AccountingInit
  BY DEF Init, ScriptInit
<1>2. StakeInv
  <2>1. ChainFields \subseteq DOMAIN chain /\ chain.session = chain.nonce /\ chain.stake = 0
    BY <1>1 DEF AccountingInit, ChainFields
  <2>2. QED
    BY <1>1, <2>1, StartPaid DEF StakeInv
<1>3. WithdrawInv
  <2>1. /\ wallet \in [{"native", "bzz"} -> Purse]
        /\ \A t \in {"native", "bzz"} : wallet[t].balance = 0 /\ wallet[t].before = 0 /\ wallet[t].due = 0
    BY <1>1 DEF AccountingInit, Purse
  <2>2. Stage(wallet["native"], 3, 1) /\ Stage(wallet["bzz"], 9, 1)
    BY <2>1 DEF Stage, Untouched
  <2>3. check = "withdraw" => RestOf(todo, Withdraw) /\ 10 - Len(todo) = 1
    <3>1. check = "withdraw" => RestOf(todo, Withdraw) /\ Len(todo) = 9
      BY <1>1, StartPaid
    <3>2. Len(todo) = 9 => 10 - Len(todo) = 1
      OBVIOUS
    <3>3. QED
      BY <3>1, <3>2, Zenon
  <2>4. QED
    BY <2>1, <2>2, <2>3 DEF WithdrawInv
<1>4. CashoutInv
  <2>1. Cashed
    BY <1>1 DEF AccountingInit, Cashed
  <2>2. QED
    BY <1>1, <2>1, StartPaid DEF CashoutInv
<1>5. QED
  BY <1>1, <1>2, <1>3, <1>4, InitPays DEF PaidInv

LEMMA RequestPaid == ASSUME PaidInv, Request PROVE PaidInv'
<1>1. PaysInv' /\ check' = check /\ runs' = runs
  BY RequestPays, RequestAsks DEF PaidInv
<1>2. StakeInv'
  <2>1. CASE check = "stake"
    BY <2>1, StakeRequest DEF PaidInv
  <2>2. CASE check # "stake"
    BY <1>1, <2>2 DEF StakeInv
  <2>3. QED
    BY <2>1, <2>2
<1>3. WithdrawInv'
  <2>1. CASE check = "withdraw"
    BY <2>1, WithdrawRequest DEF PaidInv
  <2>2. CASE check # "withdraw"
    BY <1>1, <2>2 DEF WithdrawInv
  <2>3. QED
    BY <2>1, <2>2
<1>4. CashoutInv'
  <2>1. CASE check = "cashout"
    BY <2>1, CashoutRequest DEF PaidInv
  <2>2. CASE check # "cashout"
    BY <1>1, <2>2 DEF CashoutInv
  <2>3. QED
    BY <2>1, <2>2
<1>5. QED
  BY <1>1, <1>2, <1>3, <1>4 DEF PaidInv

\* The cluster's own steps: only the chain's confirmations move the money.
LEMMA ClusterSteps ==
  ASSUME Settle \/ Disturb \/ UNCHANGED vars
  PROVE  /\ UNCHANGED script /\ chain' = chain
         /\ actions' = actions
         /\ UNCHANGED <<cheques, wallet>> \/ (\E n \in Pair : CashoutMined(n))
                                          \/ (\E t \in {"native", "bzz"} : WithdrawMined(t))
<1>1. CASE BatchSettles /\ UNCHANGED <<content, accounts, topology>>
  BY <1>1 DEF BatchSettles, Mature, Mined, accounts
<1>2. CASE ContentSettles /\ UNCHANGED <<accounts, topology>>
  BY <1>2 DEF ContentSettles, Sync, Replicate, SyncFeed, Evict, accounts
<1>3. CASE AccountingSettles
  BY <1>3 DEF AccountingSettles, CashoutMined, WithdrawMined
<1>4. CASE \E n \in Nodes : Issue(n)
  BY <1>4 DEF Issue, rest, accounts
<1>5. CASE (\E n \in Nodes : UsedUp(n)) /\ UNCHANGED <<content, accounts, topology>>
  BY <1>5 DEF UsedUp, accounts
<1>6. CASE Exchange
  BY <1>6 DEF Exchange
<1>7. CASE Flip \/ \E n \in Nodes : Expire(n)
  BY <1>7 DEF Flip, Expire, rest, accounts
<1>8. CASE UNCHANGED vars
  BY <1>8 DEF vars, accounts
<1>9. QED
  BY <1>1, <1>2, <1>3, <1>4, <1>5, <1>6, <1>7, <1>8 DEF Settle, Disturb

LEMMA ClusterPaid == ASSUME PaidInv, PaysInv', Settle \/ Disturb \/ UNCHANGED vars PROVE PaidInv'
<1>1. UNCHANGED <<check, todo, verdict, runs, actions>> /\ chain' = chain
  BY ClusterSteps DEF script
<1>2. StakeInv'
  BY <1>1 DEF PaidInv, StakeInv, Skipped
<1>3. CASE UNCHANGED <<cheques, wallet>>
  BY <1>1, <1>2, <1>3 DEF PaidInv, WithdrawInv, CashoutInv, Cashed, Here, Cleared, OnChain
<1>4. ASSUME NEW n \in Pair, CashoutMined(n) PROVE PaidInv'
  <2>1. /\ cheques[n] = "sent" /\ wallet' = wallet
        /\ cheques' = [cheques EXCEPT ![n] = "paid"] \/ cheques' = [cheques EXCEPT ![n] = "bounced"]
    BY <1>4 DEF CashoutMined
  <2>2. WithdrawInv'
    BY <1>1, <2>1 DEF PaidInv, WithdrawInv
  <2>3. CashoutInv'
    <3>1. SUFFICES ASSUME check = "cashout" PROVE CashoutInv'
      BY <1>1 DEF CashoutInv
    <3>2. Cashed /\ 1 \in Pair /\ 2 \in Pair
      BY <3>1 DEF PaidInv, CashoutInv, Pair
    <3>3. Cashed' /\ \A m \in Pair : cheques[m] # "sent" => cheques'[m] = cheques[m]
      BY <1>1, <2>1, <3>2 DEF Cashed
    <3>4. \A m \in Pair : (Cleared(m) => Cleared(m)') /\ (OnChain(m) => OnChain(m)')
      BY <1>1, <3>2, <3>3 DEF Cleared, OnChain, Cashed
    <3>5. QED
      BY <1>1, <3>1, <3>2, <3>3, <3>4 DEF PaidInv, CashoutInv, Here
  <2>4. QED
    BY <1>1, <1>2, <2>2, <2>3 DEF PaidInv
<1>5. ASSUME NEW t \in {"native", "bzz"}, WithdrawMined(t) PROVE PaidInv'
  <2>1. /\ wallet[t].due > 0 /\ cheques' = cheques
        /\ wallet' = [wallet EXCEPT ![t].balance = @ - wallet[t].due, ![t].due = 0]
    BY <1>5 DEF WithdrawMined
  <2>2. CashoutInv'
    BY <1>1, <2>1 DEF PaidInv, CashoutInv, Cashed, Here, Cleared, OnChain
  <2>3. WithdrawInv'
    <3>1. SUFFICES ASSUME check = "withdraw" PROVE WithdrawInv'
      BY <1>1 DEF WithdrawInv
    <3>2. wallet \in [{"native", "bzz"} -> Purse] /\ wallet[t] \in Purse /\ RestOf(todo, Withdraw)
      BY <3>1 DEF PaidInv, WithdrawInv
    <3>3. /\ wallet'[t].balance = wallet[t].balance - wallet[t].due /\ wallet'[t].due = 0
          /\ wallet'[t].before = wallet[t].before /\ wallet'[t] \in Purse
      BY <2>1, <3>2 DEF Purse
    <3>4. \A u \in {"native", "bzz"} \ {t} : wallet'[u] = wallet[u]
      BY <2>1, <3>2
    <3>5. wallet' \in [{"native", "bzz"} -> Purse]
      BY <2>1, <3>2, <3>3, <3>4
    <3>6. ASSUME NEW k \in Int, NEW p \in Int, Stage(wallet[t], k, p) PROVE Stage(wallet'[t], k, p)
      BY <2>1, <3>2, <3>3, <3>6 DEF Stage, Untouched, Requested, Purse
    <3>7. 10 - Len(todo) \in Int
      BY <3>2 DEF RestOf, IsSeq
    <3>8. ASSUME NEW u \in {"native", "bzz"}, NEW k \in Int, Stage(wallet[u], k, 10 - Len(todo))
          PROVE  Stage(wallet'[u], k, 10 - Len(todo))
      BY <3>4, <3>6, <3>7, <3>8
    <3>9. QED
      BY <1>1, <3>1, <3>2, <3>5, <3>8 DEF PaidInv, WithdrawInv
  <2>4. QED
    BY <1>1, <1>2, <2>2, <2>3 DEF PaidInv
<1>6. QED
  BY <1>3, <1>4, <1>5, ClusterSteps

LEMMA AgainPaid == ASSUME PaidInv, Again PROVE PaidInv'
<1>1. /\ check' = check /\ todo' = Script(check) /\ runs' = runs + 1 /\ verdict' = "none"
      /\ chain' = chain /\ wallet' = wallet /\ cheques' = cheques /\ actions' = {}
  BY DEF Again, Rerun, AccountingAgain
<1>2. runs' \in Nat \ {0} /\ runs' # 1 /\ PaysInv'
  BY <1>1, AgainPays DEF PaidInv
<1>3. /\ check' = "stake" => RestOf(todo', Stake)
      /\ check' = "withdraw" => RestOf(todo', Withdraw) /\ Len(todo') = 9
      /\ check' = "cashout" => Rounded(todo') /\ \A n : ~Here("paid", n)' /\ ~Here("confirmed", n)'
  <2>1. check' = "stake" => RestOf(todo', Stake)
    BY <1>1, MoneyScripts, StakeRequests, RestAtEnds
  <2>2. check' = "withdraw" => RestOf(todo', Withdraw) /\ Len(todo') = 9
    BY <1>1, MoneyScripts, WithdrawRequests, RestAtEnds
  <2>3. ASSUME check' = "cashout" PROVE Rounded(todo') /\ \A n : ~Here("paid", n)' /\ ~Here("confirmed", n)'
    <3>1. todo' = Cashout /\ Rounded(todo') /\ IsSeq(todo')
      BY <1>1, <2>3, MoneyScripts, CashoutRounded DEF Rounded
    <3>2. todo' # <<>> => Head(todo') = todo'[1]
      BY <3>1, HeadIsFirst
    <3>3. Cashout[1].op = "uncashed"
      BY CashoutFirst
    <3>4. QED
      BY <3>1, <3>2, <3>3 DEF Here
  <2>4. QED
    BY <2>1, <2>2, <2>3
<1>4. StakeInv'
  <2>1. check' = "stake" => todo' = Stake /\ Len(Stake) = 21
    BY <1>1, MoneyScripts, StakeRequests
  <2>2. QED
    BY <1>1, <1>2, <1>3, <2>1 DEF PaidInv, StakeInv
<1>5. WithdrawInv'
  BY <1>1, <1>2, <1>3 DEF PaidInv, WithdrawInv
<1>6. CashoutInv'
  BY <1>1, <1>2, <1>3 DEF PaidInv, CashoutInv, Cashed
<1>7. QED
  BY <1>2, <1>4, <1>5, <1>6 DEF PaidInv

LEMMA NextPaid == PaidInv /\ [Next]_vars => PaidInv'
<1> SUFFICES ASSUME PaidInv, [Next]_vars PROVE PaidInv'
  OBVIOUS
<1>1. PaysInv'
  BY NextPays DEF PaidInv
<1>2. QED
  BY <1>1, RequestPaid, ClusterPaid, AgainPaid DEF Next, Done

\* A check of money that returns nil has seen its transactions through, whatever
\* breaks, in whatever order transactions are sent and mined, and whatever
\* number of retries is configured: cashout ends only after every cheque that
\* this run has cashed was confirmed and judged in one round, withdraw (in its
\* first run) only after both balances fell below what was read before, stake
\* only with nothing staked or without having sent anything.
THEOREM PassMeansPaidHolds == Spec => []PassMeansPaid
<1>1. PaidInv => PassMeansPaid
  <2> SUFFICES ASSUME PaidInv, verdict = "pass"
               PROVE  /\ check = "cashout" => \A n \in actions : cheques[n] = "paid"
                      /\ check = "withdraw" => runs > 1 \/ \A t \in {"native", "bzz"} : wallet[t].due = 0
                      /\ check = "stake" => chain.stake = 0 \/ Skipped
    BY DEF PassMeansPaid, Skipped
  <2>1. runs = 1 \/ runs > 1
    BY DEF PaidInv
  <2>2. check = "cashout" => \A n \in actions : cheques[n] = "paid"
    BY DEF PaidInv, CashoutInv, Cashed, Cleared, Pair
  <2>3. check = "withdraw" /\ runs = 1 => \A t \in {"native", "bzz"} : wallet[t].due = 0
    <3>1. SUFFICES ASSUME check = "withdraw", runs = 1 PROVE \A t \in {"native", "bzz"} : wallet[t].due = 0
      OBVIOUS
    <3>2. todo = <<>>
      BY <3>1 DEF PaidInv, PaysInv, Run, Purchasing
    <3>3. 10 - Len(todo) = 10
      BY <3>2, Nil
    <3>4. Stage(wallet["native"], 3, 10) /\ Stage(wallet["bzz"], 9, 10)
      BY <3>1, <3>3 DEF PaidInv, WithdrawInv
    <3>5. QED
      BY <3>4 DEF Stage
  <2>4. check = "stake" => chain.stake = 0 \/ Skipped
    BY DEF PaidInv, StakeInv
  <2>5. QED
    BY <2>1, <2>2, <2>3, <2>4
<1>2. QED
  BY InitPaid, NextPaid, <1>1, PTL DEF Spec


-----------------------------------------------------------------------------
(* Requests that cannot be left out.                                        *)

\* the decision on answer a to request r, when it is not tried again
Takes(r, a) == IF r[a] = Retry THEN r.out ELSE r[a]

\* no answer leads past request j, the exceptions E apart
Unskipped(s, j, E) ==
  \A i \in 1..(j - 1) : \A a \in Answers :
    Takes(s[i], a) \in Nat => i + Takes(s[i], a) <= j \/ <<s[i].op, a>> \in E

\* only the right answer leads on
Strict(r) == \A a \in Answers : Takes(r, a) \in Nat => a = "ok"

\* request j is still to come, d requests nearer
Nearer(j, d, E) ==
  /\ j - d \in 1..Len(todo') /\ Unskipped(todo', j - d, E)
  /\ \A i \in 1..(j - d) : todo'[i] = todo[d + i]

LEMMA ComesNearer ==
  ASSUME IsSeq(todo), todo # <<>>, Sound(Head(todo)), NEW a \in Answers, Answer(a),
         NEW j \in 1..Len(todo), NEW E, Unskipped(todo, j, E)
  PROVE  \/ todo' = todo /\ verdict' = verdict
         \/ todo' = <<>> /\ verdict' = "fail"
         \/ j = 1 /\ Takes(Head(todo), a) \in Nat
         \/ <<Head(todo).op, a>> \in E
         \/ verdict' = verdict /\ \E d \in 1..(j - 1) : Nearer(j, d, E)
<1>1. Head(todo) = todo[1] /\ Len(todo) \in Nat \ {0} /\ Chosen(a) = Takes(todo[1], a)
  BY HeadIsFirst DEF Chosen, Takes
<1>2. CASE TriesAgain(a)
  BY <1>2 DEF TriesAgain
<1> DEFINE d == Takes(todo[1], a)
<1>3. j # 1 => (d \in Nat => 1 + d <= j \/ <<todo[1].op, a>> \in E)
  <2>1. j # 1 => 1 \in 1..(j - 1)
    BY <1>1
  <2>2. QED
    BY <2>1 DEF Unskipped
<1> HIDE DEF d
<1>4. CASE Ends /\ (verdict' = "pass" => Chosen(a) \in Nat /\ Len(todo) <= Chosen(a))
  <2>1. todo' = <<>> /\ verdict' \in {"pass", "fail"}
    BY <1>4 DEF Ends
  <2>2. CASE verdict' = "pass"
    <3>1. d \in Nat /\ Len(todo) <= d
      BY <1>1, <1>4, <2>2 DEF d
    <3>2. ~(1 + d <= j)
      BY <1>1, <3>1
    <3>3. QED
      BY <1>1, <1>3, <3>1, <3>2 DEF d
  <2>3. QED
    BY <2>1, <2>2
<1>5. CASE Chosen(a) \in 1..(Len(todo) - 1) /\ GoesOn(Chosen(a))
  <2>1. /\ d \in 1..(Len(todo) - 1) /\ verdict' = verdict /\ Len(todo') = Len(todo) - d
        /\ \A i \in 1..(Len(todo) - d) : todo'[i] = todo[d + i]
    BY <1>1, <1>5 DEF GoesOn, d
  <2>2. CASE j = 1 \/ <<todo[1].op, a>> \in E
    <3>1. d \in Nat
      BY <1>1, <2>1
    <3>2. Takes(Head(todo), a) \in Nat
      BY <1>1, <3>1 DEF d
    <3>3. QED
      BY <1>1, <2>2, <3>2
  <2>3. CASE j # 1 /\ <<todo[1].op, a>> \notin E
    <3>1. d \in 1..(j - 1) /\ j - d \in 1..Len(todo')
      BY <1>1, <1>3, <2>1, <2>3
    <3>2. ASSUME NEW i \in 1..(j - d) PROVE todo'[i] = todo[d + i]
      BY <1>1, <2>1, <3>1
    <3>3. Unskipped(todo', j - d, E)
      <4>1. SUFFICES ASSUME NEW i \in 1..((j - d) - 1), NEW b \in Answers, Takes(todo'[i], b) \in Nat
                     PROVE  i + Takes(todo'[i], b) <= j - d \/ <<todo'[i].op, b>> \in E
        BY DEF Unskipped
      <4>2. d + i \in 1..(j - 1) /\ i \in 1..(j - d)
        BY <3>1
      <4>3. todo'[i] = todo[d + i]
        BY <3>2, <4>2
      <4>4. (d + i) + Takes(todo'[i], b) <= j \/ <<todo'[i].op, b>> \in E
        BY <4>1, <4>2, <4>3 DEF Unskipped
      <4> DEFINE e == Takes(todo'[i], b)
      <4>5. e \in Nat /\ ((d + i) + e <= j \/ <<todo'[i].op, b>> \in E)
        BY <4>1, <4>4
      <4> HIDE DEF e
      <4>6. i + e <= j - d \/ <<todo'[i].op, b>> \in E
        BY <3>1, <4>5
      <4>7. QED
        BY <4>6 DEF e
    <3>4. QED
      BY <2>1, <3>1, <3>2, <3>3 DEF Nearer
  <2>4. QED
    BY <2>2, <2>3
<1>6. QED
  BY <1>2, <1>4, <1>5, Answered

\* Steady requests lead nowhere but to the next one.
LEMMA SteadyUnskipped ==
  ASSUME NEW s, NEW j \in Nat, NEW E, \A i \in 1..(j - 1) : Steady(s[i])
  PROVE  Unskipped(s, j, E)
<1>1. SUFFICES ASSUME NEW i \in 1..(j - 1), NEW a \in Answers, Takes(s[i], a) \in Nat
               PROVE  i + Takes(s[i], a) <= j
  BY DEF Unskipped
<1>2. Takes(s[i], a) <= 1
  BY DEF Steady, Takes, Answers
<1>3. QED
  BY <1>1, <1>2


-----------------------------------------------------------------------------
(* The autotls check: its requests.                                         *)

\* a request that goes on to the next, and neither reads nor compares certificates
Calm(r) == Steady(r) /\ r.op \notin {"snapshot", "reachable", "renewed"}
AllCalm(s) == IsSeq(s) /\ \A i \in 1..Len(s) : Calm(s[i])

LEMMA CalmJoined == ASSUME NEW s, NEW t, AllCalm(s), AllCalm(t) PROVE AllCalm(s \o t)
<1>1. IsSeq(s) /\ IsSeq(t) /\ Len(s) \in Nat /\ Len(t) \in Nat
  BY DEF AllCalm, IsSeq
<1>2. IsSeq(s \o t) /\ Len(s \o t) = Len(s) + Len(t) /\ \A i \in 1..Len(s) : (s \o t)[i] = s[i]
  BY <1>1, Joined
<1>3. \A i \in 1..Len(t) : (s \o t)[Len(s) + i] = t[i]
  BY <1>1, Joined
<1>4. ASSUME NEW i \in 1..Len(s \o t) PROVE Calm((s \o t)[i])
  <2>1. CASE i \in 1..Len(s)
    BY <1>2, <2>1 DEF AllCalm
  <2>2. CASE i \notin 1..Len(s)
    <3>1. i - Len(s) \in 1..Len(t) /\ Len(s) + (i - Len(s)) = i
      BY <1>1, <1>2, <2>2
    <3>2. (s \o t)[i] = t[i - Len(s)]
      BY <1>3, <3>1
    <3>3. QED
      BY <3>1, <3>2 DEF AllCalm
  <2>3. QED
    BY <2>1, <2>2
<1>5. QED
  BY <1>2, <1>4 DEF AllCalm

LEMMA EachCalm ==
  ASSUME NEW names, IsSeq(names), NEW parts, parts = [i \in DOMAIN names |-> parts[i]],
         \A i \in DOMAIN names : AllCalm(parts[i])
  PROVE  AllCalm(FlattenSeq(parts))
<1> DEFINE K == Len(names)
           U == Together(parts)
           A == {s \in Seq(U) : AllCalm(s)}
           P == [k \in 0..K |-> A]
<1>0. K \in Nat /\ DOMAIN names = 1..K /\ IsSeq(parts) /\ Len(parts) = K
  <2>1. K \in Nat /\ DOMAIN names = 1..K
    BY DEF IsSeq
  <2> HIDE DEF K
  <2>2. QED
    BY <2>1, Listed
<1>1. K \in Nat /\ parts \in [1..K -> Seq(U)] /\ \A i \in 1..K : AllCalm(parts[i])
  BY <1>0, SeqsTogether DEF AllCalm
<1> HIDE DEF U
<1>2. <<>> \in P[0]
  <2>1. AllCalm(<<>>)
    BY Nil DEF AllCalm
  <2>2. QED
    BY <1>1, <2>1
<1>3. ASSUME NEW i \in 1..K, NEW s \in P[i - 1] \cap Seq(U) PROVE s \o parts[i] \in P[i]
  <2>1. AllCalm(s) /\ s \in Seq(U) /\ parts[i] \in Seq(U) /\ AllCalm(parts[i])
    BY <1>1
  <2>2. AllCalm(s \o parts[i])
    BY <2>1, CalmJoined
  <2>3. s \o parts[i] \in Seq(U)
    BY <2>1
  <2>4. QED
    BY <1>1, <2>2, <2>3
<1>4. FlattenSeq(parts) \in P[K] \cap Seq(U)
  <2> HIDE DEF P, K
  <2>1. QED
    BY <1>1, <1>2, <1>3, FlattenIn
<1>5. QED
  BY <1>1, <1>4

LEMMA CalmTuples ==
  ASSUME NEW a, NEW b, NEW c, NEW d, Calm(a), Calm(b), Calm(c), Calm(d)
  PROVE  AllCalm(<<a>>) /\ AllCalm(<<a, b>>) /\ AllCalm(<<a, b, c, d>>)
<1>1. AllCalm(<<a>>)
  BY One DEF AllCalm
<1>2. AllCalm(<<a, b>>)
  BY Two DEF AllCalm
<1>3. AllCalm(<<a, b, c, d>>)
  <2> DEFINE s == <<a, b, c, d>>
  <2>1. IsSeq(s) /\ Len(s) = 4 /\ s[1] = a /\ s[2] = b /\ s[3] = c /\ s[4] = d
    BY DEF IsSeq
  <2>2. \A i \in 1..4 : i = 1 \/ i = 2 \/ i = 3 \/ i = 4
    OBVIOUS
  <2> HIDE DEF s
  <2>3. AllCalm(s)
    BY <2>1, <2>2 DEF AllCalm
  <2>4. QED
    BY <2>3 DEF s
<1>4. QED
  BY <1>1, <1>2, <1>3

LEMMA CalmSteps ==
  ASSUME NEW op, op \notin Paying \cup {"snapshot", "reachable", "renewed"}, NEW n, NEW x
  PROVE  /\ Calm(Step(op, n, x)) /\ Calm(Ignored(Step(op, n, x)))
         /\ Calm([Step(op, n, x) EXCEPT !.err = IF ForgeDNSAddress THEN Fail ELSE 1])
         /\ Calm([Polled(Retries, Step(op, n, x)) EXCEPT !.err = 1])
<1>1. /\ Calm(Step(op, n, x)) /\ Calm(Ignored(Step(op, n, x)))
      /\ Calm([Step(op, n, x) EXCEPT !.err = IF ForgeDNSAddress THEN Fail ELSE 1])
  BY DEF Calm, Steady, Plain, Sound, Step, Ignored, Paying, Fail, Retry
<1>2. Calm([Polled(Retries, Step(op, n, x)) EXCEPT !.err = 1])
  BY DEF Calm, Steady, Plain, Sound, Step, Polled, Paying, Fail, Retry
<1>3. QED
  BY <1>1, <1>2

LEMMA ConnectivityCalm == ASSUME NEW source PROVE AllCalm(TestConnectivity(source))
<1> DEFINE names == SetToSeq(Range(Wss) \ {source})
           one(n) == <<Addresses(n), Ignored(Step("read", source, "disconnect")),
                       Step("connect", source, n), Ignored(Step("read", source, "disconnect"))>>
           all == [i \in DOMAIN names |-> one(names[i])]
<1>1. TestConnectivity(source) = FlattenSeq(all)
  BY DEF TestConnectivity, ForEach
<1>2. IsSeq(names)
  <2>1. Range(Wss) = {1, 2}
    BY DEF Wss, Range
  <2>2. IsFiniteSet({1, 2})
    <3>1. IsFiniteSet({1}) /\ IsFiniteSet({2}) /\ {1, 2} = {1} \cup {2}
      BY FS_Singleton
    <3>2. QED
      BY <3>1, FS_Union
  <2>3. IsFiniteSet(Range(Wss) \ {source})
    BY <2>1, <2>2, FS_Subset
  <2>4. QED
    BY <2>3, ListOfSet
<1>3. \A n : AllCalm(one(n))
  BY CalmSteps, CalmTuples DEF Addresses, Paying
<1> HIDE DEF names, one
<1>4. QED
  BY <1>1, <1>2, <1>3, EachCalm


\* A loop over the two nodes whose body is one request.
LEMMA WssLoop ==
  ASSUME NEW a, NEW b, NEW parts, parts = [i \in DOMAIN Wss |-> parts[i]], parts[1] = <<a>>, parts[2] = <<b>>,
         NEW s, s = FlattenSeq(parts)
  PROVE  IsSeq(s) /\ Len(s) = 2 /\ s[1] = a /\ s[2] = b
<1> DEFINE U == {a, b}
           P == [k \in 0..2 |-> {t \in Seq(U) : Len(t) = k /\ (k >= 1 => t[1] = a) /\ (k = 2 => t[2] = b)}]
<1>1. DOMAIN Wss = 1..2
  BY DEF Wss
<1>2. parts \in [1..2 -> Seq(U)] /\ \A i \in 1..2 : i = 1 \/ i = 2
  BY <1>1
<1>3. <<>> \in P[0]
  OBVIOUS
<1>4. ASSUME NEW i \in 1..2, NEW t \in P[i - 1] \cap Seq(U) PROVE t \o parts[i] \in P[i]
  <2>1. CASE i = 1
    <3>1. t \in Seq(U) /\ Len(t) = 0 /\ <<a>> \in Seq(U)
      BY <2>1
    <3>2. t \o <<a>> \in Seq(U) /\ Len(t \o <<a>>) = 1 /\ (t \o <<a>>)[1] = a
      BY <3>1
    <3>3. P[1] = {u \in Seq(U) : Len(u) = 1 /\ u[1] = a}
      OBVIOUS
    <3>4. QED
      BY <2>1, <3>2, <3>3
  <2>2. CASE i = 2
    <3>1. t \in Seq(U) /\ Len(t) = 1 /\ t[1] = a /\ <<b>> \in Seq(U)
      BY <2>2
    <3>2. t \o <<b>> \in Seq(U) /\ Len(t \o <<b>>) = 2 /\ (t \o <<b>>)[1] = a /\ (t \o <<b>>)[2] = b
      BY <3>1
    <3>3. P[2] = {u \in Seq(U) : Len(u) = 2 /\ u[1] = a /\ u[2] = b}
      OBVIOUS
    <3>4. QED
      BY <2>2, <3>2, <3>3
  <2>3. QED
    BY <1>2, <2>1, <2>2
<1>5. FlattenSeq(parts) \in P[2] \cap Seq(U)
  <2> HIDE DEF P
  <2>1. 2 \in Nat /\ \A i \in 1..2 : \A t \in P[i - 1] \cap Seq(U) : t \o parts[i] \in P[i]
    BY <1>4
  <2>2. QED
    BY <1>2, <1>3, <2>1, FlattenIn
<1>6. s \in Seq(U) /\ Len(s) = 2 /\ s[1] = a /\ s[2] = b
  BY <1>5
<1>7. QED
  BY <1>6, SeqIsSeq

LEMMA WssSnapshots ==
  ASSUME NEW when, NEW s, s = Snapshots(when)
  PROVE  /\ IsSeq(s) /\ Len(s) = 2
         /\ s[1] = Ignored(Step("snapshot", 1, when)) /\ s[2] = Ignored(Step("snapshot", 2, when))
<1> DEFINE parts == [i \in DOMAIN Wss |-> <<Ignored(Step("snapshot", Wss[i], when))>>]
<1>1. s = FlattenSeq(parts)
  BY DEF Snapshots, ForEach
<1>2. parts[1] = <<Ignored(Step("snapshot", 1, when))>> /\ parts[2] = <<Ignored(Step("snapshot", 2, when))>>
  BY DEF Wss
<1>3. parts = [i \in DOMAIN Wss |-> parts[i]]
  OBVIOUS
<1> HIDE DEF parts
<1>4. QED
  BY <1>1, <1>2, <1>3, WssLoop

Concat(u, s, t) == u = s \o t

LEMMA Appended ==
  ASSUME NEW s, IsSeq(s), NEW t, IsSeq(t), NEW u, Concat(u, s, t)
  PROVE  /\ IsSeq(u) /\ Len(u) = Len(s) + Len(t) /\ \A i \in 1..Len(s) : u[i] = s[i]
         /\ \A i \in 1..Len(t) : u[Len(s) + i] = t[i]
<1>1. IsSeq(s \o t) /\ Len(s \o t) = Len(s) + Len(t) /\ \A i \in 1..Len(s) : (s \o t)[i] = s[i]
  BY Joined
<1>2. \A i \in 1..Len(t) : (s \o t)[Len(s) + i] = t[i]
  BY Joined
<1>3. QED
  BY <1>1, <1>2, Zenon DEF Concat

LEMMA OneMore ==
  ASSUME NEW s, IsSeq(s), NEW w, NEW u, Concat(u, s, <<w>>)
  PROVE  IsSeq(u) /\ Len(u) = Len(s) + 1 /\ u[Len(s) + 1] = w /\ \A i \in 1..Len(s) : u[i] = s[i]
<1>1. PICK t : t = <<w>>
  OBVIOUS
<1>2. IsSeq(t) /\ Len(t) = 1 /\ t[1] = w /\ Concat(u, s, t) /\ 1 \in 1..1
  BY <1>1, One
<1>3. /\ IsSeq(u) /\ Len(u) = Len(s) + Len(t) /\ \A i \in 1..Len(s) : u[i] = s[i]
      /\ \A i \in 1..Len(t) : u[Len(s) + i] = t[i]
  <2>1. IsSeq(t) /\ Concat(u, s, t)
    BY <1>2
  <2>2. QED
    BY <2>1, Appended
<1>4. QED
  BY <1>2, <1>3, Zenon

LEMMA TwoMore ==
  ASSUME NEW s, IsSeq(s), NEW t, IsSeq(t), NEW u, Concat(u, s, t)
  PROVE  Len(t) = 2 =>
           /\ IsSeq(u) /\ Len(u) = Len(s) + 2 /\ u[Len(s) + 1] = t[1] /\ u[Len(s) + 2] = t[2]
           /\ \A i \in 1..Len(s) : u[i] = s[i]
<1>1. /\ IsSeq(u) /\ Len(u) = Len(s) + Len(t) /\ \A i \in 1..Len(s) : u[i] = s[i]
      /\ \A i \in 1..Len(t) : u[Len(s) + i] = t[i]
  BY Appended
<1>2. 1 \in 1..2 /\ 2 \in 1..2
  OBVIOUS
<1>3. QED
  BY <1>1, <1>2, Zenon

LEMMA RenewalRequests ==
  ASSUME NEW v, v = VerifyCertificateRenewal
  PROVE  /\ IsSeq(v) /\ Len(v) = 9
         /\ v[1] = Ignored(Step("snapshot", 1, "before")) /\ v[2] = Ignored(Step("snapshot", 2, "before"))
         /\ v[3] = [Step("reachable", 1, 0) EXCEPT !.no = 7]
         /\ v[4] = Ignored(Step("snapshot", 1, "after")) /\ v[5] = Ignored(Step("snapshot", 2, "after"))
         /\ v[6] = [Step("renewed", 1, 0) EXCEPT !.ok = 4, !.no = 1]
         /\ v[7] = Ignored(Step("snapshot", 1, "after")) /\ v[8] = Ignored(Step("snapshot", 2, "after"))
         /\ v[9] = Step("renewed", 1, 0)
<1> DEFINE f == Snapshots("before")
           g == Snapshots("after")
           a == [Step("reachable", 1, 0) EXCEPT !.no = 7]
           b == [Step("renewed", 1, 0) EXCEPT !.ok = 4, !.no = 1]
           c == Step("renewed", 1, 0)
           f1 == Ignored(Step("snapshot", 1, "before"))
           f2 == Ignored(Step("snapshot", 2, "before"))
           g1 == Ignored(Step("snapshot", 1, "after"))
           g2 == Ignored(Step("snapshot", 2, "after"))
<1>1. v = f \o <<a>> \o g \o <<b>> \o g \o <<c>>
  BY DEF VerifyCertificateRenewal
<1>2. IsSeq(f) /\ Len(f) = 2 /\ f[1] = f1 /\ f[2] = f2 /\ IsSeq(g) /\ Len(g) = 2 /\ g[1] = g1 /\ g[2] = g2
  BY WssSnapshots
<1> HIDE DEF f, g, a, b, c, f1, f2, g1, g2
<1> DEFINE p == f \o <<a>>
<1>3. IsSeq(p) /\ Len(p) = 3 /\ p[1] = f1 /\ p[2] = f2 /\ p[3] = a
  <2>1. IsSeq(f) /\ Concat(p, f, <<a>>)
    BY <1>2 DEF Concat
  <2> HIDE DEF p
  <2>2. /\ IsSeq(p) /\ Len(p) = Len(f) + 1 /\ p[Len(f) + 1] = a
        /\ \A i \in 1..Len(f) : p[i] = f[i]
    BY <2>1, OneMore
  <2>3. QED
    BY <1>2, <1>2, <2>2
<1> HIDE DEF p
<1> DEFINE q == p \o g
<1>4. IsSeq(q) /\ Len(q) = 5 /\ q[1] = f1 /\ q[2] = f2 /\ q[3] = a /\ q[4] = g1 /\ q[5] = g2
  <2>1. IsSeq(p) /\ Concat(q, p, g)
    BY <1>3 DEF Concat
  <2> HIDE DEF q
  <2>2. /\ IsSeq(q) /\ Len(q) = Len(p) + 2 /\ q[Len(p) + 1] = g[1] /\ q[Len(p) + 2] = g[2]
        /\ \A i \in 1..Len(p) : q[i] = p[i]
    BY <1>2, <2>1, TwoMore
  <2>3. QED
    BY <1>2, <1>3, <2>2
<1> HIDE DEF q
<1> DEFINE r == q \o <<b>>
<1>5. IsSeq(r) /\ Len(r) = 6 /\ r[1] = f1 /\ r[2] = f2 /\ r[3] = a /\ r[4] = g1 /\ r[5] = g2 /\ r[6] = b
  <2>1. IsSeq(q) /\ Concat(r, q, <<b>>)
    BY <1>4 DEF Concat
  <2> HIDE DEF r
  <2>2. /\ IsSeq(r) /\ Len(r) = Len(q) + 1 /\ r[Len(q) + 1] = b
        /\ \A i \in 1..Len(q) : r[i] = q[i]
    BY <1>2, <2>1, OneMore
  <2>3. QED
    BY <1>2, <1>4, <2>2
<1> HIDE DEF r
<1> DEFINE s == r \o g
<1>6. /\ IsSeq(s) /\ Len(s) = 8 /\ s[1] = f1 /\ s[2] = f2 /\ s[3] = a /\ s[4] = g1 /\ s[5] = g2 /\ s[6] = b
      /\ s[7] = g1 /\ s[8] = g2
  <2>1. IsSeq(r) /\ Concat(s, r, g)
    BY <1>5 DEF Concat
  <2> HIDE DEF s
  <2>2. /\ IsSeq(s) /\ Len(s) = Len(r) + 2 /\ s[Len(r) + 1] = g[1] /\ s[Len(r) + 2] = g[2]
        /\ \A i \in 1..Len(r) : s[i] = r[i]
    BY <1>2, <2>1, TwoMore
  <2>3. QED
    BY <1>2, <1>5, <2>2
<1> HIDE DEF s
<1>7. v = s \o <<c>>
  BY <1>1 DEF s, r, q, p
<1>8. /\ IsSeq(v) /\ Len(v) = 9 /\ v[1] = f1 /\ v[2] = f2 /\ v[3] = a /\ v[4] = g1 /\ v[5] = g2 /\ v[6] = b
      /\ v[7] = g1 /\ v[8] = g2 /\ v[9] = c
  <2>1. IsSeq(s) /\ Concat(v, s, <<c>>)
    BY <1>6, <1>7 DEF Concat
  <2>2. /\ IsSeq(v) /\ Len(v) = Len(s) + 1 /\ v[Len(s) + 1] = c
        /\ \A i \in 1..Len(s) : v[i] = s[i]
    BY <1>2, <2>1, OneMore
  <2>3. QED
    BY <1>2, <1>6, <2>2
<1>9. QED
  BY <1>8 DEF a, b, c, f1, f2, g1, g2


\* The script: the first K requests are calm, and the renewal follows them.
Renewing(s, K) ==
  /\ IsSeq(s) /\ K \in Nat /\ K >= 4 /\ K + 9 <= Len(s) /\ \A i \in 1..K : Calm(s[i])
  /\ s[1] = Step("underlay", 1, 0) /\ s[2] = Step("underlay", 2, 0)
  /\ s[4] = Step("format", 1, 0) /\ \E i \in 1..K : s[i] = Step("connect", 3, 1)
  /\ \A j \in 1..9 : s[K + j] = VerifyCertificateRenewal[j]
  /\ \A i \in 1..Len(s) : i > K + 9 => Calm(s[i])

\* a sequence before another keeps its requests in place
LEMMA StaysInPlace ==
  ASSUME NEW s, IsSeq(s), NEW t, IsSeq(t), NEW u, Concat(u, s, t)
  PROVE  IsSeq(u) /\ Len(u) >= Len(s) /\ \A i \in 1..Len(s) : u[i] = s[i]
<1>1. IsSeq(u) /\ Len(u) = Len(s) + Len(t) /\ \A i \in 1..Len(s) : u[i] = s[i]
  BY Appended
<1>2. Len(s) \in Nat /\ Len(t) \in Nat
  BY DEF IsSeq
<1>3. QED
  BY <1>1, <1>2

\* The light node connects to node 1 among others.
LEMMA ConnectsToFirst == \E j \in 1..Len(TestConnectivity(3)) : TestConnectivity(3)[j] = Step("connect", 3, 1)
<1> DEFINE S == Range(Wss) \ {3}
           names == SetToSeq(S)
           r(n) == Step("connect", 3, n)
           one(n) == <<Addresses(n), Ignored(Step("read", 3, "disconnect")), r(n),
                       Ignored(Step("read", 3, "disconnect"))>>
           all == [i \in DOMAIN names |-> one(names[i])]
           U == Together(all)
           P == [k \in 0..2 |-> {s \in Seq(U) : \A i \in 1..k : \E j \in 1..Len(s) : s[j] = r(names[i])}]
<1>1. TestConnectivity(3) = FlattenSeq(all)
  BY DEF TestConnectivity, ForEach
<1>2. S = {1, 2}
  BY DEF Wss, Range
<1>3. IsFiniteSet(S) /\ Cardinality(S) = 2
  <2>1. IsFiniteSet({1}) /\ Cardinality({1}) = 1
    BY FS_Singleton
  <2>2. IsFiniteSet({1} \cup {2}) /\ Cardinality({1} \cup {2}) = 2
    BY <2>1, FS_AddElement
  <2>3. S = {1} \cup {2}
    BY <1>2
  <2> HIDE DEF S
  <2>4. QED
    BY <2>2, <2>3
<1>4. /\ names \in Seq(S) /\ IsSeq(names) /\ Len(names) = 2 /\ DOMAIN names = 1..2
      /\ names[1] = 1 \/ names[2] = 1
  <2>1. /\ names \in Seq(S) /\ IsSeq(names) /\ Len(names) = 2
        /\ \A i, j \in 1..2 : names[i] = names[j] => i = j
    BY <1>3, ListOfSet
  <2> HIDE DEF names
  <2>2. DOMAIN names = 1..2 /\ names[1] \in {1, 2} /\ names[2] \in {1, 2} /\ names[1] # names[2]
    BY <1>2, <2>1
  <2>3. QED
    BY <2>1, <2>2
<1> HIDE DEF S, names
<1>5. \A n : IsSeq(one(n)) /\ Len(one(n)) = 4 /\ one(n)[3] = r(n)
  BY DEF IsSeq
<1> HIDE DEF one, r
<1>6. IsSeq(all) /\ Len(all) = 2 /\ \A i \in 1..2 : all[i] = one(names[i])
  <2>1. all = [i \in 1..2 |-> all[i]] /\ \A i \in 1..2 : all[i] = one(names[i])
    BY <1>4
  <2> HIDE DEF all
  <2>2. QED
    BY <2>1, Listed
<1> HIDE DEF all
<1>7. all \in [1..2 -> Seq(U)]
  BY <1>5, <1>6, SeqsTogether
<1> HIDE DEF U
<1>8. <<>> \in P[0]
  OBVIOUS
<1>9. ASSUME NEW i \in 1..2, NEW s \in P[i - 1] \cap Seq(U) PROVE s \o all[i] \in P[i]
  <2> DEFINE u == s \o all[i]
  <2>1. s \in Seq(U) /\ all[i] \in Seq(U) /\ u \in Seq(U)
    BY <1>7
  <2>2. IsSeq(s) /\ IsSeq(all[i]) /\ Len(all[i]) = 4 /\ all[i][3] = r(names[i])
    BY <1>5, <1>6, <2>1, SeqIsSeq
  <2>3. \A k \in 1..(i - 1) : \E j \in 1..Len(s) : s[j] = r(names[k])
    BY <1>9
  <2>4. /\ Len(u) = Len(s) + 4 /\ Len(s) \in Nat /\ \A j \in 1..Len(s) : u[j] = s[j]
        /\ u[Len(s) + 3] = r(names[i])
    <3>1. PICK v : v = all[i] /\ Concat(u, s, v)
      BY DEF Concat
    <3> HIDE DEF u
    <3>5. IsSeq(s) /\ IsSeq(v)
      BY <2>2, <3>1
    <3>2. /\ Len(u) = Len(s) + Len(v) /\ \A j \in 1..Len(s) : u[j] = s[j]
          /\ \A j \in 1..Len(v) : u[Len(s) + j] = v[j]
      BY <3>1, <3>5, Appended
    <3>3. 3 \in 1..4
      OBVIOUS
    <3>4. QED
      BY <2>1, <2>2, <3>1, <3>2, <3>3
  <2> HIDE DEF u
  <2>5. ASSUME NEW k \in 1..i PROVE \E j \in 1..Len(u) : u[j] = r(names[k])
    <3>1. CASE k = i
      BY <2>4, <3>1
    <3>2. CASE k \in 1..(i - 1)
      <4>1. PICK j \in 1..Len(s) : s[j] = r(names[k])
        BY <2>3, <3>2
      <4>2. j \in 1..Len(u) /\ u[j] = r(names[k])
        BY <2>4, <4>1
      <4>3. QED
        BY <4>2
    <3>3. QED
      BY <3>1, <3>2
  <2>6. u \in P[i]
    BY <2>1, <2>5
  <2>7. QED
    BY <2>6 DEF u
<1>10. FlattenSeq(all) \in P[2] \cap Seq(U)
  <2> HIDE DEF P
  <2>1. 2 \in Nat /\ \A i \in 1..2 : \A s \in P[i - 1] \cap Seq(U) : s \o all[i] \in P[i]
    BY <1>9
  <2>2. QED
    BY <1>7, <1>8, <2>1, FlattenIn
<1>11. \A i \in 1..2 : \E j \in 1..Len(FlattenSeq(all)) : FlattenSeq(all)[j] = r(names[i])
  BY <1>10
<1>12. \E j \in 1..Len(FlattenSeq(all)) : FlattenSeq(all)[j] = r(1)
  BY <1>4, <1>11
<1>13. QED
  BY <1>1, <1>12 DEF r


LEMMA AutoTlsRequests == \E K \in Nat : Renewing(AutoTls, K)
<1> DEFINE X == VerifyWSSUnderlays
           r == Step("read", 1, "forge domain")
           F == VerifyForge
           W == TestWSSConnectivity
           L == TestUltraLightConnectivity
           V == VerifyCertificateRenewal
           u1 == Step("underlay", 1, 0)
           u2 == Step("underlay", 2, 0)
           f1 == Step("format", 1, 0)
<1>1. AutoTls = X \o <<r>> \o F \o W \o L \o V \o W
  BY DEF AutoTls
<1>2. AllCalm(X) /\ Len(X) = 2 /\ X[1] = u1 /\ X[2] = u2
  <2> DEFINE all == [i \in DOMAIN Wss |-> <<Step("underlay", Wss[i], 0)>>]
  <2>1. X = FlattenSeq(all)
    BY DEF VerifyWSSUnderlays, ForEach
  <2>2. all[1] = <<u1>> /\ all[2] = <<u2>>
    BY DEF Wss
  <2>3. all = [i \in DOMAIN Wss |-> all[i]]
    OBVIOUS
  <2>4. Calm(u1) /\ Calm(u2)
    BY CalmSteps DEF Paying
  <2> HIDE DEF all, X, u1, u2
  <2>5. IsSeq(X) /\ Len(X) = 2 /\ X[1] = u1 /\ X[2] = u2
    BY <2>1, <2>2, <2>3, WssLoop
  <2>6. \A i \in 1..2 : i = 1 \/ i = 2
    OBVIOUS
  <2>7. QED
    BY <2>4, <2>5, <2>6 DEF AllCalm
<1>3. AllCalm(<<r>>)
  <2>1. Calm(r)
    BY CalmSteps DEF Paying
  <2> HIDE DEF r
  <2>2. QED
    BY <2>1, CalmTuples
<1>4. AllCalm(F) /\ Len(F) >= 1 /\ F[1] = f1
  <2> DEFINE one(n) == <<Step("format", n, 0)>>
             two(n) == <<[Step("resolve", n, 0) EXCEPT !.err = IF ForgeDNSAddress THEN Fail ELSE 1]>>
             three(n) == <<Step("read", n, "certificate"), [Polled(Retries, Step("verify", n, 0)) EXCEPT !.err = 1]>>
             ones == [i \in DOMAIN Wss |-> one(Wss[i])]
             twos == [i \in DOMAIN Wss |-> two(Wss[i])]
             threes == [i \in DOMAIN Wss |-> three(Wss[i])]
             A == FlattenSeq(ones)
             B == FlattenSeq(twos)
             C == FlattenSeq(threes)
  <2>1. F = A \o B \o C
    BY DEF VerifyForge, ForEach
  <2>2. ASSUME NEW n PROVE AllCalm(one(n)) /\ AllCalm(two(n)) /\ AllCalm(three(n))
    <3> DEFINE p == Step("format", n, 0)
               q == [Step("resolve", n, 0) EXCEPT !.err = IF ForgeDNSAddress THEN Fail ELSE 1]
               t == Step("read", n, "certificate")
               v == [Polled(Retries, Step("verify", n, 0)) EXCEPT !.err = 1]
    <3>1. Calm(p) /\ Calm(q) /\ Calm(t) /\ Calm(v)
      BY CalmSteps DEF Paying
    <3>2. one(n) = <<p>> /\ two(n) = <<q>> /\ three(n) = <<t, v>>
      OBVIOUS
    <3> HIDE DEF p, q, t, v, one, two, three
    <3>3. AllCalm(<<p>>) /\ AllCalm(<<q>>) /\ AllCalm(<<t, v>>)
      BY <3>1, CalmTuples
    <3>4. QED
      BY <3>2, <3>3
  <2>3. ones[1] = <<f1>> /\ ones[2] = <<Step("format", 2, 0)>> /\ IsSeq(Wss)
    BY Two DEF Wss
  <2> HIDE DEF one, two, three
  <2>4. AllCalm(A) /\ AllCalm(B) /\ AllCalm(C)
    <3>1. /\ ones = [i \in DOMAIN Wss |-> ones[i]] /\ \A i \in DOMAIN Wss : AllCalm(ones[i])
          /\ twos = [i \in DOMAIN Wss |-> twos[i]] /\ \A i \in DOMAIN Wss : AllCalm(twos[i])
          /\ threes = [i \in DOMAIN Wss |-> threes[i]] /\ \A i \in DOMAIN Wss : AllCalm(threes[i])
      BY <2>2
    <3> HIDE DEF ones, twos, threes
    <3>2. QED
      BY <2>3, <3>1, EachCalm
  <2>5. Len(A) = 2 /\ A[1] = f1
    <3>1. ones = [i \in DOMAIN Wss |-> ones[i]]
      OBVIOUS
    <3> HIDE DEF ones, f1
    <3>2. QED
      BY <2>3, <3>1, WssLoop
  <2> HIDE DEF A, B, C, F, f1
  <2> DEFINE AB == A \o B
  <2>6. AllCalm(AB) /\ Concat(AB, A, B) /\ Concat(F, AB, C)
    BY <2>1, <2>4, CalmJoined DEF Concat
  <2> HIDE DEF AB
  <2>7. Len(AB) >= Len(A) /\ \A i \in 1..Len(A) : AB[i] = A[i]
    BY <2>4, <2>6, StaysInPlace DEF AllCalm
  <2>8. Len(F) >= Len(AB) /\ \A i \in 1..Len(AB) : F[i] = AB[i]
    BY <2>4, <2>6, StaysInPlace DEF AllCalm
  <2>9. Len(AB) \in Nat /\ Len(F) \in Nat /\ AllCalm(F)
    <3>1. AllCalm(F)
      BY <2>4, <2>6, CalmJoined DEF Concat
    <3>2. QED
      BY <2>6, <3>1 DEF AllCalm, IsSeq
  <2>10. QED
    BY <2>5, <2>7, <2>8, <2>9
<1>5. AllCalm(W) /\ AllCalm(L)
  <2>1. AllCalm(W)
    BY ConnectivityCalm, CalmJoined DEF TestWSSConnectivity
  <2> DEFINE all == [i \in DOMAIN LightNodeNames |-> TestConnectivity(LightNodeNames[i])]
  <2>2. L = FlattenSeq(all)
    BY DEF TestUltraLightConnectivity, ForEach
  <2>3. QED
    BY <2>1, <2>2, ConnectivityCalm, NamesListed, EachCalm
<1>6. IsSeq(V) /\ Len(V) = 9
  BY RenewalRequests
<1> DEFINE n1 == Step("connect", 3, 1)
<1>8. PICK e \in 1..Len(W) : W[e] = n1
  <2> DEFINE A == TestConnectivity(3)
             B == TestConnectivity(1)
  <2>1. IsSeq(A) /\ IsSeq(B) /\ Concat(W, A, B)
    BY ConnectivityCalm DEF AllCalm, TestWSSConnectivity, Concat
  <2>2. PICK j \in 1..Len(A) : A[j] = n1
    BY ConnectsToFirst
  <2> HIDE DEF A, B, W, n1
  <2>3. IsSeq(W) /\ Len(W) >= Len(A) /\ \A i \in 1..Len(A) : W[i] = A[i]
    BY <2>1, StaysInPlace
  <2>4. j \in 1..Len(W) /\ W[j] = n1
    BY <2>1, <2>2, <2>3 DEF IsSeq
  <2>5. QED
    BY <2>4
<1>7. QED
  <2> HIDE DEF X, r, F, W, L, V, u1, u2, f1, n1
  <2> DEFINE y == X \o <<r>>
             z == y \o F
             m == z \o W
             c == m \o L
             d == c \o V
             K == Len(c)
  <2>1. Concat(y, X, <<r>>) /\ Concat(z, y, F) /\ Concat(m, z, W) /\ Concat(c, m, L) /\ Concat(d, c, V)
        /\ Concat(AutoTls, d, W)
    BY <1>1 DEF Concat
  <2>2. AllCalm(y) /\ AllCalm(z) /\ AllCalm(m) /\ AllCalm(c)
    BY <1>2, <1>3, <1>4, <1>5, CalmJoined
  <2> HIDE DEF y, z, m, c, d
  <2>3. /\ IsSeq(X) /\ IsSeq(y) /\ IsSeq(z) /\ IsSeq(m) /\ IsSeq(c) /\ IsSeq(F) /\ IsSeq(W) /\ IsSeq(L)
        /\ Len(y) \in Nat /\ Len(z) \in Nat /\ Len(m) \in Nat /\ Len(c) \in Nat /\ Len(F) \in Nat
    BY <1>2, <1>4, <1>5, <2>2 DEF AllCalm, IsSeq
  <2>4. Len(y) = 3 /\ y[1] = u1 /\ y[2] = u2
    <3>1. Len(y) = Len(X) + 1 /\ \A i \in 1..Len(X) : y[i] = X[i]
      BY <2>1, <2>3, OneMore
    <3>2. QED
      BY <1>2, <3>1
  <2>5. Len(z) >= 4 /\ z[1] = u1 /\ z[2] = u2 /\ z[4] = f1
    <3>1. Len(z) = Len(y) + Len(F) /\ \A i \in 1..Len(y) : z[i] = y[i]
      BY <2>1, <2>3, Appended
    <3>2. \A i \in 1..Len(F) : z[Len(y) + i] = F[i]
      BY <2>1, <2>3, Appended
    <3>3. 1 \in 1..Len(F) /\ Len(y) + 1 = 4
      BY <1>4, <2>3, <2>4
    <3>4. QED
      BY <1>4, <2>3, <2>4, <3>1, <3>2, <3>3
  <2>6. Len(m) >= Len(z) /\ \A i \in 1..Len(z) : m[i] = z[i]
    BY <2>1, <2>3, StaysInPlace
  <2>7. Len(c) >= Len(m) /\ \A i \in 1..Len(m) : c[i] = m[i]
    BY <2>1, <2>3, StaysInPlace
  <2>8. Len(c) >= 4 /\ c[1] = u1 /\ c[2] = u2 /\ c[4] = f1
    <3>1. Len(z) \in Nat /\ Len(m) \in Nat /\ Len(c) \in Nat
      BY <2>3
    <3>2. Len(m) >= 4 /\ Len(c) >= 4
      BY <2>5, <2>6, <2>7, <3>1
    <3>3. {1, 2, 4} \subseteq 1..Len(z) /\ {1, 2, 4} \subseteq 1..Len(m)
      BY <2>5, <3>1, <3>2
    <3>4. m[1] = u1 /\ m[2] = u2 /\ m[4] = f1
      BY <2>5, <2>6, <3>3
    <3>5. c[1] = u1 /\ c[2] = u2 /\ c[4] = f1
      BY <2>7, <3>3, <3>4
    <3>6. QED
      BY <3>2, <3>5
  <2>20. IsSeq(c) /\ IsSeq(V) /\ Concat(d, c, V)
    BY <1>6, <2>1, <2>3
  <2>9. IsSeq(d) /\ Len(d) = Len(c) + Len(V) /\ \A i \in 1..Len(c) : d[i] = c[i]
    BY <2>20, Appended
  <2>10. \A i \in 1..Len(V) : d[Len(c) + i] = V[i]
    BY <2>20, Appended
  <2>11. IsSeq(AutoTls) /\ Len(AutoTls) >= Len(d) /\ \A i \in 1..Len(d) : AutoTls[i] = d[i]
    BY <2>1, <2>3, <2>9, StaysInPlace
  <2>12. Len(AutoTls) \in Nat
    BY <2>11 DEF IsSeq
  <2>13. \A i \in 1..Len(c) : AutoTls[i] = c[i] /\ Calm(c[i])
    BY <1>6, <2>2, <2>3, <2>9, <2>11 DEF AllCalm
  <2>14. ASSUME NEW j \in 1..9 PROVE AutoTls[Len(c) + j] = V[j]
    <3>1. Len(c) + j \in 1..Len(d) /\ j \in 1..Len(V)
      BY <1>6, <2>3, <2>9
    <3>2. QED
      BY <2>10, <2>11, <3>1
  <2>15. K \in Nat /\ K >= 4 /\ K + 9 <= Len(AutoTls)
    BY <1>6, <2>3, <2>8, <2>9, <2>11, <2>12
  <2>16. AutoTls[1] = u1 /\ AutoTls[2] = u2 /\ AutoTls[4] = f1
    <3>1. 1 \in 1..Len(c) /\ 2 \in 1..Len(c) /\ 4 \in 1..Len(c)
      BY <2>3, <2>8
    <3>2. QED
      BY <2>8, <2>13, <3>1
  <2>21. \E i \in 1..K : AutoTls[i] = n1
    <3>1. Len(m) = Len(z) + Len(W) /\ \A i \in 1..Len(W) : m[Len(z) + i] = W[i]
      BY <2>1, <2>3, Appended
    <3>2. Len(W) \in Nat
      BY <2>3 DEF IsSeq
    <3>3. Len(z) + e \in 1..Len(m) /\ m[Len(z) + e] = n1
      BY <1>8, <2>3, <3>1, <3>2
    <3>4. Len(z) + e \in 1..Len(c) /\ c[Len(z) + e] = n1
      BY <2>3, <2>7, <3>3
    <3>5. QED
      BY <2>13, <3>4
  <2>19. ASSUME NEW i \in 1..Len(AutoTls), i > K + 9 PROVE Calm(AutoTls[i])
    <3>1. Len(AutoTls) = Len(d) + Len(W) /\ \A j \in 1..Len(W) : AutoTls[Len(d) + j] = W[j]
      <4>1. IsSeq(d) /\ IsSeq(W) /\ Concat(AutoTls, d, W)
        BY <2>1, <2>3, <2>9
      <4>2. QED
        BY <4>1, Appended
    <3>2. Len(d) \in Nat /\ Len(W) \in Nat /\ Len(d) = K + 9
      BY <1>6, <2>3, <2>9 DEF IsSeq
    <3> HIDE DEF K
    <3>3. i - Len(d) \in 1..Len(W) /\ Len(d) + (i - Len(d)) = i
      BY <2>19, <3>1, <3>2, <2>12
    <3>4. AutoTls[i] = W[i - Len(d)]
      BY <3>1, <3>3
    <3>5. QED
      BY <1>5, <3>3, <3>4 DEF AllCalm
  <2>17. Renewing(AutoTls, K)
    BY <2>11, <2>13, <2>14, <2>15, <2>16, <2>19, <2>21 DEF Renewing, V, u1, u2, f1, n1
  <2>18. QED
    BY <2>15, <2>17


-----------------------------------------------------------------------------
(* The autotls check: its run.                                              *)

\* Request r of s is still to come: only the answers in E lead past it, and
\* nothing in B is asked before it.
Awaits(s, r, B, E) ==
  \E j \in 1..Len(s) : s[j] = r /\ Unskipped(s, j, E) /\ \A i \in 1..j : s[i].op \notin B

\* snapshots are of the nodes with WSS underlays, before or after the renewal
Snapshotting(s) ==
  \A i \in 1..Len(s) : s[i].op = "snapshot" => s[i].n \in {1, 2} /\ s[i].x \in {"before", "after"}

Certificate == [serial : Nat, expired : BOOLEAN]

\* a serial number that was read was issued, and serial numbers only grow
Recorded ==
  /\ snaps \in [{"before", "after"} -> SUBSET ({1, 2} \X Nat)]
  /\ \A w \in {"before", "after"} : \A p \in snaps[w] : 1 <= p[2] /\ p[2] <= cert[p[1]].serial

\* what the check has found out, or has still to find out before it returns nil
Certified(n) ==
  cert[n].serial > 0 \/ Awaits(todo, Step("underlay", n, 0), {"snapshot"}, {})
Addressed ==
  addr[1].at.host = Name(ExtractForgeInfo(addr[1]).ip, 1, "forge") \/ Awaits(todo, Step("format", 1, 0), {}, {})
Homed ==
  errors = 0 => AtHome(1) \/ Awaits(todo, Step("connect", 3, 1), {}, {})
\* node 2 is at home, so its certificate is read unless a request breaks
ReadBefore == \E p \in snaps["before"] : p[1] = 2
Compared ==
  errors = 0 => ReadBefore \/ Awaits(todo, Ignored(Step("snapshot", 2, "before")), {"reachable"}, {})
Reissued == \E n \in {1, 2} : cert[n].serial > 1
Replaced ==
  errors = 0 =>
    Reissued \/ Awaits(todo, Step("renewed", 1, 0), {}, {<<"reachable", "no">>, <<"renewed", "ok">>})

TlsInv ==
  check = "autotls" =>
    /\ errors \in Nat /\ cert \in [Nodes -> Certificate]
    /\ addr[1] \in Underlays(1) /\ addr[2] = GoodUnderlay(2)
    /\ Snapshotting(todo) /\ Recorded
    /\ verdict \in {"none", "pass"} => Certified(1) /\ Certified(2) /\ Addressed /\ Homed /\ Compared /\ Replaced

AutoInv == PaysInv /\ TlsInv

LEMMA AwaitsOn ==
  ASSUME IsSeq(todo), todo # <<>>, Sound(Head(todo)), NEW a \in Answers, Answer(a),
         NEW r, NEW B, NEW E, Awaits(todo, r, B, E)
  PROVE  /\ Head(todo).op \notin B
         /\ \/ Awaits(todo', r, B, E) /\ verdict' = verdict
            \/ todo' = <<>> /\ verdict' = "fail"
            \/ Head(todo) = r /\ Takes(r, a) \in Nat
            \/ <<Head(todo).op, a>> \in E
<1>1. PICK j \in 1..Len(todo) : todo[j] = r /\ Unskipped(todo, j, E) /\ \A i \in 1..j : todo[i].op \notin B
  BY DEF Awaits
<1>2. Head(todo) = todo[1] /\ Len(todo) \in Nat \ {0}
  BY HeadIsFirst
<1>3. Head(todo).op \notin B
  BY <1>1, <1>2
<1>4. CASE todo' = todo /\ verdict' = verdict
  BY <1>3, <1>4
<1>5. CASE j = 1 /\ Takes(Head(todo), a) \in Nat
  BY <1>1, <1>2, <1>3, <1>5
<1>6. ASSUME verdict' = verdict, NEW d \in 1..(j - 1), Nearer(j, d, E) PROVE Awaits(todo', r, B, E)
  <2>1. /\ j - d \in 1..Len(todo') /\ Unskipped(todo', j - d, E)
        /\ \A i \in 1..(j - d) : todo'[i] = todo[d + i]
    BY <1>6 DEF Nearer
  <2>2. j - d \in 1..(j - d) /\ d + (j - d) = j
    BY <1>2, <2>1
  <2>3. todo'[j - d] = r
    BY <1>1, <2>1, <2>2
  <2>4. ASSUME NEW i \in 1..(j - d) PROVE todo'[i].op \notin B
    <3>1. d + i \in 1..j
      BY <1>2
    <3>2. QED
      BY <1>1, <2>1, <3>1
  <2>5. QED
    BY <2>1, <2>3, <2>4 DEF Awaits
<1>7. QED
  BY <1>1, <1>3, <1>4, <1>5, <1>6, ComesNearer

LEMMA SnapshottingOn ==
  ASSUME IsSeq(todo), todo # <<>>, Sound(Head(todo)), NEW a \in Answers, Answer(a), Snapshotting(todo)
  PROVE  Snapshotting(todo')
<1>1. CASE TriesAgain(a)
  BY <1>1 DEF TriesAgain
<1>2. CASE Ends
  BY <1>2, Nil DEF Ends, Snapshotting
<1>3. CASE Chosen(a) \in 1..(Len(todo) - 1) /\ GoesOn(Chosen(a))
  <2> DEFINE d == Chosen(a)
  <2>1. d \in 1..(Len(todo) - 1) /\ Len(todo') = Len(todo) - d /\ \A i \in 1..(Len(todo) - d) : todo'[i] = todo[d + i]
    BY <1>3 DEF GoesOn
  <2>2. Len(todo) \in Nat
    BY DEF IsSeq
  <2> HIDE DEF d
  <2>3. ASSUME NEW i \in 1..Len(todo') PROVE d + i \in 1..Len(todo) /\ todo'[i] = todo[d + i]
    BY <2>1, <2>2
  <2>4. QED
    BY <2>3 DEF Snapshotting
<1>4. QED
  BY <1>1, <1>2, <1>3, Answered

\* an address that passes the format check names its own peer, in the domain,
\* with the address it is reached at
LEMMA FormatNames ==
  ASSUME NEW u \in Underlays(1), VerifyForgeAddressFormat(u)
  PROVE  u.at.host = Name(ExtractForgeInfo(u).ip, 1, "forge")
BY DEF Underlays, WithPeer, Short, Long, Name, VerifyForgeAddressFormat, ParseForgeUnderlay, ExtractForgeInfo,
     ForgeInfoFromHostname, NoInfo


\* node 2 announces its own address, in the short form
LEMMA SecondAtHome ==
  ASSUME addr[2] = GoodUnderlay(2)
  PROVE  AtHome(2) /\ addr[2].at.host = Name(ExtractForgeInfo(addr[2]).ip, 2, "forge")
BY DEF AtHome, GoodUnderlay, WithPeer, Short, Name, ExtractForgeInfo, ForgeInfoFromHostname

\* A request breaks at most once, and only a snapshot is recorded.
Tally == errors' = errors \/ errors' = errors + 1

LEMMA AnswersTallied ==
  /\ \A a : Reply(a) => Tally
  /\ \A a : Breaks(a) => Tally
  /\ \A p : RightOrNot(p) => Tally
BY DEF Reply, Breaks, RightOrNot, Tally

LEMMA RequestTallied == ASSUME Request PROVE Tally
<1>1. BatchStep => Tally
  BY AnswersTallied DEF BatchStep, Read, List, Buy, Usable, StampIs, TopUp, Dilute, Increased
<1>2. ContentStep => Tally
  BY AnswersTallied DEF ContentStep, Upload, Push, Has, Download, GlobalReplicationFactor, GiveUp, UploadShort,
       DownloadShort, UpdateFeed, FindFeed, FeedFile, Grant, Grantees, ActFile, Reserve, UploadBulk, Count, Unpin
<1>3. Panics => Tally
  BY DEF Panics, Tally
<1>4. AccountingStep => Tally
  BY <1>3, AnswersTallied DEF AccountingStep, Account, SettlementsRead, BalancesValid, SettlementsValid, Happened, Uncashed, CashoutTx, Confirmed, Paid,
       Session, Running, StakeIs, Deposit, Migrate, Pause, WaitMined, Wallet, WithdrawTx, Spent
<1>5. TopologyStep => Tally
  BY AnswersTallied DEF TopologyStep, ReadPeers, Judge, Underlay, Format, VerifyDNSResolution, VerifyNodeTLSCert,
       ConnectPeer, Snapshot, Compare
<1>6. QED
  BY <1>1, <1>2, <1>4, <1>5 DEF Request

LEMMA TlsKept ==
  ASSUME Request
  PROVE  cert' = cert /\ addr' = addr /\ (snaps' = snaps \/ Snapshot)
<1>1. ASSUME TopologyStep PROVE cert' = cert /\ addr' = addr /\ (snaps' = snaps \/ Snapshot)
  BY <1>1 DEF TopologyStep, ReadPeers, Judge, Underlay, Format, VerifyDNSResolution, VerifyNodeTLSCert,
       ConnectPeer, Snapshot, Compare, topology
<1>2. QED
  BY <1>1 DEF Request, topology

LEMMA SnapshotIs == ASSUME Request, Head(todo).op = "snapshot" PROVE Snapshot
BY BatchAsks, ContentAsks, AccountingAsks, TopologyAsks
DEF Request, BatchStep, ContentStep, AccountingStep, TopologyStep, Asked

\* What a snapshot leaves: the others of its time, and the serial number it read
\* unless the request broke or no one is at the address.
LEMMA SnapshotLeaves ==
  ASSUME Snapshot, Recorded, NEW n \in {1, 2}, NEW w \in {"before", "after"},
         Head(todo).n = n, Head(todo).x = w, cert[n].serial \in Nat \ {0}, cert' = cert, AtHome(2)
  PROVE  /\ Recorded'
         /\ errors' = errors + 1 \/ (ReadBefore => ReadBefore')
         /\ errors' = errors + 1 \/ (n = 2 /\ w = "before" => ReadBefore')
<1> DEFINE old == {p \in snaps[w] : p[1] # n}
           new == old \cup {<<n, cert[n].serial>>}
<1>1. \/ snaps' = [snaps EXCEPT ![w] = new]
      \/ snaps' = [snaps EXCEPT ![w] = old] /\ (errors' = errors + 1 \/ n = 1)
  BY DEF Snapshot, Reply, Breaks
<1>2. /\ \A p \in old : p \in {1, 2} \X Nat /\ 1 <= p[2] /\ p[2] <= cert[p[1]].serial
      /\ old \subseteq {1, 2} \X Nat
  BY DEF Recorded
<1>3. /\ \A p \in new : 1 <= p[2] /\ p[2] <= cert[p[1]].serial
      /\ new \subseteq {1, 2} \X Nat /\ <<n, cert[n].serial>> \in new
  <2>1. <<n, cert[n].serial>> \in {1, 2} \X Nat
    OBVIOUS
  <2>2. 1 <= cert[n].serial /\ cert[n].serial <= cert[n].serial
    OBVIOUS
  <2>3. QED
    BY <1>2, <2>1, <2>2
<1>6. \A p \in snaps[w] : p[1] # n => p \in old /\ p \in new
  OBVIOUS
<1> HIDE DEF old, new
<1>4. ASSUME NEW q \in {old, new}, snaps' = [snaps EXCEPT ![w] = q] PROVE Recorded'
  <2>1. snaps' \in [{"before", "after"} -> SUBSET ({1, 2} \X Nat)]
    BY <1>2, <1>3, <1>4 DEF Recorded
  <2>2. ASSUME NEW v \in {"before", "after"}, NEW p \in snaps'[v] PROVE 1 <= p[2] /\ p[2] <= cert[p[1]].serial
    BY <1>2, <1>3, <1>4 DEF Recorded
  <2>3. QED
    BY <2>1, <2>2 DEF Recorded
<1>5. QED
  <2>1. Recorded'
    BY <1>1, <1>4
  <2>2. snaps' = [snaps EXCEPT ![w] = new] \/ n = 1 => (ReadBefore => ReadBefore')
    <3>1. SUFFICES ASSUME snaps' = [snaps EXCEPT ![w] = new] \/ n = 1, NEW p \in snaps["before"], p[1] = 2 PROVE ReadBefore'
      BY DEF ReadBefore
    <3>2. CASE w # "before"
      <4>1. snaps'["before"] = snaps["before"]
        BY <1>1, <3>2 DEF Recorded
      <4>2. QED
        BY <3>1, <4>1 DEF ReadBefore
    <3>3. CASE w = "before"
      <4>1. snaps'["before"] = new \/ (snaps'["before"] = old /\ n = 1)
        BY <1>1, <3>1, <3>3 DEF Recorded
      <4>2. n = 1 => p \in snaps'["before"]
        BY <1>6, <3>1, <3>3, <4>1
      <4>3. n = 2 => <<n, cert[n].serial>> \in snaps'["before"]
        BY <1>3, <4>1
      <4>4. <<n, cert[n].serial>>[1] = n
        OBVIOUS
      <4>5. QED
        BY <3>1, <4>2, <4>3, <4>4 DEF ReadBefore
    <3>4. QED
      BY <3>2, <3>3
  <2>3. snaps' = [snaps EXCEPT ![w] = new] => (n = 2 /\ w = "before" => ReadBefore')
    <3>1. SUFFICES ASSUME snaps' = [snaps EXCEPT ![w] = new], n = 2, w = "before" PROVE ReadBefore'
      OBVIOUS
    <3>2. snaps'["before"] = new
      BY <3>1 DEF Recorded
    <3>3. <<n, cert[n].serial>>[1] = 2
      BY <3>1
    <3>4. QED
      BY <1>3, <3>2, <3>3 DEF ReadBefore
  <2>4. QED
    BY <1>1, <2>1, <2>2, <2>3


LEMMA AwaitsHead ==
  ASSUME IsSeq(todo), todo # <<>>, NEW r, NEW B, NEW E, Awaits(todo, r, B, E)
  PROVE  Head(todo).op \notin B
<1>1. PICK j \in 1..Len(todo) : \A i \in 1..j : todo[i].op \notin B
  BY DEF Awaits
<1>2. Head(todo) = todo[1] /\ Len(todo) \in Nat \ {0}
  BY HeadIsFirst
<1>3. QED
  BY <1>1, <1>2

\* The requests that decide: only the right answer leads on from them.
LEMMA DecidingRequests ==
  ASSUME NEW n, NEW a \in Answers
  PROVE  /\ LET r == Step("underlay", n, 0)
            IN  r.op = "underlay" /\ r.n = n /\ (Takes(r, a) \in Nat => a = "ok")
         /\ LET r == Step("format", 1, 0)
            IN  r.op = "format" /\ r.n = 1 /\ (Takes(r, a) \in Nat => a = "ok")
         /\ LET r == Step("connect", 3, 1)
            IN  r.op = "connect" /\ r.x = 1 /\ (Takes(r, a) \in Nat => a = "ok")
         /\ LET r == Ignored(Step("snapshot", 2, "before"))
            IN  r.op = "snapshot" /\ r.n = 2 /\ r.x = "before"
         /\ LET r == Step("renewed", 1, 0)
            IN  r.op = "renewed" /\ (Takes(r, a) \in Nat => a = "ok")
<1>1. a = "ok" \/ a = "no" \/ a = "err"
  BY DEF Answers
<1> DEFINE u == Step("underlay", n, 0)
           f == Step("format", 1, 0)
           c == Step("connect", 3, 1)
           w == Step("renewed", 1, 0)
<1>2. u.op = "underlay" /\ u.n = n /\ u.no = -1 /\ u.err = -1
  BY DEF Step, Fail
<1>10. c.op = "connect" /\ c.x = 1 /\ c.no = -1 /\ c.err = -1
  BY DEF Step, Fail
<1>3. f.op = "format" /\ f.n = 1 /\ f.no = -1 /\ f.err = -1
  BY DEF Step, Fail
<1>4. w.op = "renewed" /\ w.no = -1 /\ w.err = -1
  BY DEF Step, Fail
<1>5. Ignored(Step("snapshot", 2, "before")).op = "snapshot" /\ Ignored(Step("snapshot", 2, "before")).n = 2
      /\ Ignored(Step("snapshot", 2, "before")).x = "before"
  BY DEF Ignored, Step
<1> HIDE DEF u, f, c, w
<1>6. ASSUME Takes(u, a) \in Nat PROVE a = "ok"
  BY <1>1, <1>2, <1>6 DEF Takes, Retry
<1>7. ASSUME Takes(f, a) \in Nat PROVE a = "ok"
  BY <1>1, <1>3, <1>7 DEF Takes, Retry
<1>8. ASSUME Takes(w, a) \in Nat PROVE a = "ok"
  BY <1>1, <1>4, <1>8 DEF Takes, Retry
<1>11. ASSUME Takes(c, a) \in Nat PROVE a = "ok"
  BY <1>1, <1>10, <1>11 DEF Takes, Retry
<1>9. QED
  BY <1>2, <1>3, <1>4, <1>5, <1>6, <1>7, <1>8, <1>10, <1>11 DEF u, f, c, w

LEMMA RenewedReissues == ASSUME Recorded, Renewed, \A n \in {1, 2} : cert[n].serial \in Nat PROVE Reissued
<1>1. PICK p \in snaps["before"], q \in snaps["after"] : p[1] = q[1] /\ p[2] # q[2]
  BY DEF Renewed
<1>2. /\ p \in {1, 2} \X Nat /\ q \in {1, 2} \X Nat
      /\ 1 <= p[2] /\ p[2] <= cert[p[1]].serial /\ 1 <= q[2] /\ q[2] <= cert[q[1]].serial
  BY DEF Recorded
<1> DEFINE n == p[1]
           c == cert[n].serial
<1>3. n \in {1, 2} /\ c \in Nat /\ p[2] \in Nat /\ q[2] \in Nat /\ 1 <= p[2] /\ p[2] <= c /\ 1 <= q[2] /\ q[2] <= c
  BY <1>1, <1>2
<1> HIDE DEF c
<1>4. c > 1
  BY <1>1, <1>3
<1>5. QED
  BY <1>3, <1>4 DEF c, Reissued

LEMMA TlsRequest == ASSUME AutoInv, check = "autotls", Request PROVE TlsInv'
<1>1. /\ IsSeq(todo) /\ todo # <<>> /\ Sound(Head(todo)) /\ verdict = "none" /\ check' = check
      /\ (\E a \in Answers : Answer(a) /\ Fits(a)) \/ (todo' = <<>> /\ verdict' = "panic")
  <2>1. todo # <<>> /\ check' = check /\ Walk(todo) /\ verdict = "none"
    BY RequestAsks DEF AutoInv, PaysInv, Run, Purchasing
  <2>2. IsSeq(todo) /\ Head(todo) = todo[1] /\ Len(todo) \in Nat \ {0}
    BY <2>1, HeadIsFirst DEF Walk
  <2>3. Sound(Head(todo))
    BY <2>1, <2>2 DEF Walk
  <2>4. QED
    BY <2>1, <2>2, <2>3, AnswersFit
<1>2. /\ errors \in Nat /\ cert \in [Nodes -> Certificate] /\ addr[1] \in Underlays(1)
      /\ addr[2] = GoodUnderlay(2) /\ Snapshotting(todo) /\ Recorded
      /\ Certified(1) /\ Certified(2) /\ Addressed /\ Homed /\ Compared /\ Replaced
  BY <1>1 DEF AutoInv, TlsInv
<1>3. cert' = cert /\ addr' = addr /\ errors' \in Nat /\ (errors' = 0 => errors = 0) /\ (snaps' = snaps \/ Snapshot)
  <2>1. errors' = errors \/ errors' = errors + 1
    BY RequestTallied DEF Tally
  <2>2. errors' \in Nat /\ (errors' = 0 => errors = 0)
    BY <1>2, <2>1
  <2>3. QED
    BY <2>2, TlsKept
<1>4. \A n \in {1, 2} : cert[n].serial \in Nat
  <2>1. {1, 2} \subseteq Nodes
    BY TopologyAssumption DEF Pair
  <2>2. QED
    BY <1>2, <2>1 DEF Certificate
<1>5. ASSUME Head(todo).op = "snapshot"
      PROVE  /\ Snapshot /\ Head(todo).n \in {1, 2} /\ Head(todo).x \in {"before", "after"}
             /\ cert[Head(todo).n].serial \in Nat \ {0}
  <2>1. Head(todo) = todo[1] /\ 1 \in 1..Len(todo)
    BY <1>1, HeadIsFirst
  <2>2. Head(todo).n \in {1, 2} /\ Head(todo).x \in {"before", "after"}
    BY <1>2, <1>5, <2>1 DEF Snapshotting
  <2>3. ASSUME NEW n \in {1, 2} PROVE cert[n].serial > 0
    <3>1. Certified(n)
      BY <1>2
    <3>2. ~Awaits(todo, Step("underlay", n, 0), {"snapshot"}, {})
      BY <1>1, <1>5, AwaitsHead
    <3>3. QED
      BY <3>1, <3>2 DEF Certified
  <2>4. cert[Head(todo).n].serial \in Nat \ {0}
    BY <1>4, <2>2, <2>3
  <2>5. QED
    BY <1>5, <2>2, <2>4, SnapshotIs
<1>6. /\ Recorded'
      /\ errors' = 0 /\ ReadBefore => ReadBefore'
      /\ errors' = 0 /\ Head(todo).op = "snapshot" /\ Head(todo).n = 2 /\ Head(todo).x = "before" => ReadBefore'
  <2>1. CASE Snapshot
    <3>1. Head(todo).op = "snapshot"
      BY <2>1 DEF Snapshot, At
    <3>2. /\ Recorded'
          /\ errors' = errors + 1 \/ (ReadBefore => ReadBefore')
          /\ errors' = errors + 1 \/ (Head(todo).n = 2 /\ Head(todo).x = "before" => ReadBefore')
      BY <1>2, <1>3, <1>5, <2>1, <3>1, SecondAtHome, SnapshotLeaves
    <3>3. errors' = errors + 1 => errors' # 0
      BY <1>2
    <3>4. QED
      BY <3>2, <3>3
  <2>2. CASE ~Snapshot
    <3>1. snaps' = snaps /\ Head(todo).op # "snapshot"
      BY <1>3, <1>5, <2>2
    <3>2. Recorded'
      BY <1>2, <1>3, <3>1 DEF Recorded
    <3>3. QED
      BY <3>1, <3>2 DEF ReadBefore
  <2>3. QED
    BY <2>1, <2>2
<1>7. CASE todo' = <<>> /\ verdict' = "panic"
  <2>1. Snapshotting(todo')
    BY <1>7, Nil DEF Snapshotting
  <2>2. QED
    BY <1>2, <1>3, <1>6, <1>7, <2>1 DEF TlsInv
<1>8. ASSUME NEW a \in Answers, Answer(a), Fits(a) PROVE TlsInv'
  <2>1. Snapshotting(todo')
    BY <1>1, <1>2, <1>8, SnapshottingOn
  <2>2. SUFFICES ASSUME verdict' \in {"none", "pass"}
                 PROVE  (Certified(1) /\ Certified(2) /\ Addressed /\ Homed /\ Compared /\ Replaced)'
    BY <1>2, <1>3, <1>6, <2>1 DEF TlsInv
  <2>3. ASSUME NEW r, NEW B, NEW E, Awaits(todo, r, B, E)
        PROVE  \/ Awaits(todo', r, B, E) \/ <<Head(todo).op, a>> \in E
               \/ Head(todo) = r /\ Takes(r, a) \in Nat
    BY <1>1, <1>8, <2>2, <2>3, AwaitsOn
  <2>4. ASSUME NEW n \in {1, 2} PROVE Certified(n)'
    <3> DEFINE r == Step("underlay", n, 0)
    <3>1. Certified(n)
      BY <1>2
    <3>2. r.op = "underlay" /\ r.n = n /\ (Takes(r, a) \in Nat => a = "ok")
      BY DecidingRequests
    <3>3. Certified(n) <=> (cert[n].serial > 0 \/ Awaits(todo, r, {"snapshot"}, {}))
      BY DEF Certified
    <3>4. Certified(n)' <=> (cert'[n].serial > 0 \/ Awaits(todo', r, {"snapshot"}, {}))
      BY DEF Certified
    <3> HIDE DEF r
    <3>5. Head(todo) = r /\ a = "ok" => cert[n].serial > 0
      BY <1>8, <3>2 DEF Fits
    <3>6. QED
      BY <1>3, <2>3, <3>1, <3>2, <3>3, <3>4, <3>5
  <2>5. Addressed'
    <3> DEFINE r == Step("format", 1, 0)
    <3>1. r.op = "format" /\ r.n = 1 /\ (Takes(r, a) \in Nat => a = "ok")
      BY DecidingRequests
    <3>2. Addressed <=> (addr[1].at.host = Name(ExtractForgeInfo(addr[1]).ip, 1, "forge") \/ Awaits(todo, r, {}, {}))
      BY DEF Addressed
    <3>3. Addressed' <=> (addr'[1].at.host = Name(ExtractForgeInfo(addr'[1]).ip, 1, "forge") \/ Awaits(todo', r, {}, {}))
      BY DEF Addressed
    <3> HIDE DEF r
    <3>4. Head(todo) = r /\ a = "ok" => VerifyForgeAddressFormat(addr[1])
      BY <1>8, <3>1 DEF Fits
    <3>5. Head(todo) = r /\ a = "ok" => addr[1].at.host = Name(ExtractForgeInfo(addr[1]).ip, 1, "forge")
      BY <1>2, <3>4, FormatNames
    <3>6. QED
      BY <1>2, <1>3, <2>3, <3>1, <3>2, <3>3, <3>5
  <2>9. Homed'
    <3> DEFINE r == Step("connect", 3, 1)
    <3>1. r.op = "connect" /\ r.x = 1 /\ (Takes(r, a) \in Nat => a = "ok")
      BY DecidingRequests
    <3>2. Homed <=> (errors = 0 => AtHome(1) \/ Awaits(todo, r, {}, {}))
      BY DEF Homed
    <3>3. Homed' <=> (errors' = 0 => AtHome(1)' \/ Awaits(todo', r, {}, {}))
      BY DEF Homed
    <3> HIDE DEF r
    <3>4. Head(todo) = r /\ a = "ok" => AtHome(1) \/ errors > 0
      BY <1>8, <3>1 DEF Fits
    <3>5. errors' = 0 => ~(errors > 0)
      BY <1>3
    <3>6. AtHome(1)' <=> AtHome(1)
      BY <1>3 DEF AtHome
    <3>7. QED
      BY <1>2, <1>3, <2>3, <3>1, <3>2, <3>3, <3>4, <3>5, <3>6
  <2>6. Compared'
    <3> DEFINE r == Ignored(Step("snapshot", 2, "before"))
    <3>1. r.op = "snapshot" /\ r.n = 2 /\ r.x = "before"
      BY DecidingRequests
    <3>2. Compared <=> (errors = 0 => ReadBefore \/ Awaits(todo, r, {"reachable"}, {}))
      BY DEF Compared
    <3>3. Compared' <=> (errors' = 0 => ReadBefore' \/ Awaits(todo', r, {"reachable"}, {}))
      BY DEF Compared
    <3> HIDE DEF r
    <3>4. QED
      BY <1>2, <1>3, <1>6, <2>3, <3>1, <3>2, <3>3
  <2>7. Replaced'
    <3> DEFINE r == Step("renewed", 1, 0)
               E == {<<"reachable", "no">>, <<"renewed", "ok">>}
    <3>1. r.op = "renewed" /\ (Takes(r, a) \in Nat => a = "ok")
      BY DecidingRequests
    <3>2. Replaced <=> (errors = 0 => Reissued \/ Awaits(todo, r, {}, E))
      BY DEF Replaced
    <3>3. Replaced' <=> (errors' = 0 => Reissued' \/ Awaits(todo', r, {}, E))
      BY DEF Replaced
    <3>4. Reissued' <=> Reissued
      BY <1>3 DEF Reissued
    <3>5. Head(todo).op = "renewed" /\ a = "ok" => Reissued
      <4>1. Head(todo).op = "renewed" /\ a = "ok" => Renewed
        BY <1>8 DEF Fits
      <4>2. QED
        BY <1>2, <1>4, <4>1, RenewedReissues
    <3>6. ~(errors = 0 /\ Head(todo).op = "reachable" /\ a = "no")
      <4>1. SUFFICES ASSUME errors = 0, Head(todo).op = "reachable", a = "no" PROVE FALSE
        OBVIOUS
      <4>2. snaps.before = {}
        BY <1>8, <4>1 DEF Fits
      <4>3. Awaits(todo, Ignored(Step("snapshot", 2, "before")), {"reachable"}, {})
        BY <1>2, <4>1, <4>2 DEF Compared, ReadBefore
      <4>4. QED
        BY <1>1, <4>1, <4>3, AwaitsHead
    <3>7. <<Head(todo).op, a>> \in E => \/ Head(todo).op = "reachable" /\ a = "no"
                                        \/ Head(todo).op = "renewed" /\ a = "ok"
      OBVIOUS
    <3> HIDE DEF r, E
    <3>8. QED
      BY <1>2, <1>3, <2>3, <3>1, <3>2, <3>3, <3>4, <3>5, <3>6, <3>7
  <2>8. QED
    BY <2>4, <2>5, <2>6, <2>7, <2>9
<1>9. QED
  BY <1>1, <1>7, <1>8


\* In the whole script, what decides is still to come.
LEMMA AutoTlsStart ==
  /\ Snapshotting(AutoTls)
  /\ \A n \in {1, 2} : Awaits(AutoTls, Step("underlay", n, 0), {"snapshot"}, {})
  /\ Awaits(AutoTls, Step("format", 1, 0), {}, {})
  /\ Awaits(AutoTls, Step("connect", 3, 1), {}, {})
  /\ Awaits(AutoTls, Ignored(Step("snapshot", 2, "before")), {"reachable"}, {})
  /\ Awaits(AutoTls, Step("renewed", 1, 0), {}, {<<"reachable", "no">>, <<"renewed", "ok">>})
<1> DEFINE s == AutoTls
<1>1. PICK K \in Nat : Renewing(s, K)
  BY AutoTlsRequests
<1>2. /\ IsSeq(s) /\ K >= 4 /\ K + 9 <= Len(s) /\ Len(s) \in Nat /\ \A i \in 1..K : Calm(s[i])
      /\ s[1] = Step("underlay", 1, 0) /\ s[2] = Step("underlay", 2, 0)
      /\ s[4] = Step("format", 1, 0)
      /\ \A i \in 1..Len(s) : i > K + 9 => Calm(s[i])
  BY <1>1 DEF Renewing, IsSeq
<1>3. \A j \in 1..9 : s[K + j] = VerifyCertificateRenewal[j]
  BY <1>1 DEF Renewing
<1> HIDE DEF s
<1>4. ASSUME NEW n, NEW w
      PROVE  LET r == Ignored(Step("snapshot", n, w))
             IN  r.op = "snapshot" /\ r.n = n /\ r.x = w /\ Steady(r)
  BY DEF Ignored, Step, Steady, Plain, Sound, Paying, Fail, Retry
<1> DEFINE g == [Step("reachable", 1, 0) EXCEPT !.no = 7]
           h == [Step("renewed", 1, 0) EXCEPT !.ok = 4, !.no = 1]
<1>5. g.op = "reachable" /\ g.ok = 1 /\ g.no = 7 /\ g.err = -1 /\ g.out = -1
  BY DEF Step, Fail
<1>6. h.op = "renewed" /\ h.ok = 4 /\ h.no = 1 /\ h.err = -1 /\ h.out = -1
  BY DEF Step, Fail
<1>7. /\ s[K + 1] = Ignored(Step("snapshot", 1, "before")) /\ s[K + 2] = Ignored(Step("snapshot", 2, "before"))
      /\ s[K + 3] = g
      /\ s[K + 4] = Ignored(Step("snapshot", 1, "after")) /\ s[K + 5] = Ignored(Step("snapshot", 2, "after"))
      /\ s[K + 6] = h
      /\ s[K + 7] = Ignored(Step("snapshot", 1, "after")) /\ s[K + 8] = Ignored(Step("snapshot", 2, "after"))
      /\ s[K + 9] = Step("renewed", 1, 0)
  BY <1>3, RenewalRequests
<1> HIDE DEF g, h
<1>8. \A i \in 1..Len(s) : \/ i <= K \/ i > K + 9 \/ i = K + 1 \/ i = K + 2 \/ i = K + 3 \/ i = K + 4 \/ i = K + 5
                           \/ i = K + 6 \/ i = K + 7 \/ i = K + 8 \/ i = K + 9
  BY <1>2
<1>9. Snapshotting(s)
  <2>1. SUFFICES ASSUME NEW i \in 1..Len(s), s[i].op = "snapshot"
                 PROVE  s[i].n \in {1, 2} /\ s[i].x \in {"before", "after"}
    BY DEF Snapshotting
  <2>2. ~(i <= K) /\ ~(i > K + 9)
    <3>1. ~Calm(s[i])
      BY <2>1 DEF Calm
    <3>2. i <= K => i \in 1..K
      BY <1>2
    <3>3. QED
      BY <1>2, <3>1, <3>2
  <2>3. Step("renewed", 1, 0).op = "renewed"
    BY DEF Step
  <2>4. QED
    <3>1. /\ i # K + 3 /\ i # K + 6 /\ i # K + 9
      BY <1>5, <1>6, <1>7, <2>1, <2>3
    <3>2. \E n \in {1, 2}, w \in {"before", "after"} : s[i] = Ignored(Step("snapshot", n, w))
      BY <1>7, <1>8, <2>2, <3>1
    <3>3. QED
      BY <1>4, <3>2
<1>10. ASSUME NEW j \in 1..(K + 2), NEW B, NEW E, \A i \in 1..j : s[i].op \notin B
       PROVE  Awaits(s, s[j], B, E)
  <2>5. Steady(s[K + 1])
    BY <1>4, <1>7
  <2>1. ASSUME NEW i \in 1..(j - 1) PROVE Steady(s[i])
    <3>1. i \in 1..K \/ i = K + 1
      OBVIOUS
    <3>2. QED
      BY <1>2, <2>5, <3>1 DEF Calm
  <2>2. j \in Nat /\ j \in 1..Len(s)
    BY <1>2
  <2>3. Unskipped(s, j, E)
    BY <2>1, <2>2, SteadyUnskipped
  <2>4. QED
    BY <1>10, <2>2, <2>3 DEF Awaits
<1>11. \A i \in 1..K : s[i].op \notin {"snapshot", "reachable", "renewed"}
  BY <1>2 DEF Calm
<1>12. ASSUME NEW n \in {1, 2} PROVE Awaits(s, Step("underlay", n, 0), {"snapshot"}, {})
  <2>1. n \in 1..(K + 2) /\ s[n] = Step("underlay", n, 0) /\ \A i \in 1..n : i \in 1..K
    BY <1>2
  <2>2. \A i \in 1..n : s[i].op \notin {"snapshot"}
    BY <1>11, <2>1
  <2>3. Awaits(s, s[n], {"snapshot"}, {})
    BY <1>10, <2>1, <2>2
  <2>4. QED
    BY <2>1, <2>3
<1>13. Awaits(s, Step("format", 1, 0), {}, {})
  <2>1. 4 \in 1..(K + 2)
    BY <1>2
  <2>2. Awaits(s, s[4], {}, {})
    BY <1>10, <2>1
  <2>3. QED
    BY <1>2, <2>2
<1>17. Awaits(s, Step("connect", 3, 1), {}, {})
  <2>1. PICK i \in 1..K : s[i] = Step("connect", 3, 1)
    BY <1>1 DEF Renewing, s
  <2>2. i \in 1..(K + 2)
    OBVIOUS
  <2>3. Awaits(s, s[i], {}, {})
    BY <1>10, <2>2
  <2>4. QED
    BY <2>1, <2>3
<1>14. Awaits(s, Ignored(Step("snapshot", 2, "before")), {"reachable"}, {})
  <2>1. K + 2 \in 1..(K + 2) /\ \A i \in 1..(K + 2) : i \in 1..K \/ i = K + 1 \/ i = K + 2
    OBVIOUS
  <2>2. \A i \in 1..(K + 2) : s[i].op \notin {"reachable"}
    BY <1>4, <1>7, <1>11, <2>1
  <2>3. Awaits(s, s[K + 2], {"reachable"}, {})
    BY <1>10, <2>1, <2>2
  <2>4. QED
    BY <1>7, <2>3
<1>15. Awaits(s, Step("renewed", 1, 0), {}, {<<"reachable", "no">>, <<"renewed", "ok">>})
  <2> DEFINE E == {<<"reachable", "no">>, <<"renewed", "ok">>}
  <2>1. ASSUME NEW i \in 1..(K + 8), NEW a \in Answers, Takes(s[i], a) \in Nat
        PROVE  i + Takes(s[i], a) <= K + 9 \/ <<s[i].op, a>> \in E
    <3>1. a = "ok" \/ a = "no" \/ a = "err"
      BY DEF Answers
    <3>2. CASE Steady(s[i])
      <4> DEFINE d == Takes(s[i], a)
      <4>1. d <= 1 /\ d \in Nat
        BY <2>1, <3>2 DEF Steady, Takes, Answers
      <4> HIDE DEF d
      <4>2. i + d <= K + 9
        BY <4>1
      <4>3. QED
        BY <4>2 DEF d
    <3>3. CASE i = K + 3
      <4>1. a = "no" \/ (a = "ok" /\ Takes(s[i], a) = 1)
        BY <1>5, <1>7, <2>1, <3>1, <3>3 DEF Takes, Retry
      <4>2. a = "no" => <<s[i].op, a>> \in E
        BY <1>5, <1>7, <3>3
      <4>3. i + 1 <= K + 9
        BY <3>3
      <4>4. QED
        BY <4>1, <4>2, <4>3
    <3>4. CASE i = K + 6
      <4>1. a = "ok" \/ (a = "no" /\ Takes(s[i], a) = 1)
        BY <1>6, <1>7, <2>1, <3>1, <3>4 DEF Takes, Retry
      <4>2. a = "ok" => <<s[i].op, a>> \in E
        BY <1>6, <1>7, <3>4
      <4>3. i + 1 <= K + 9
        BY <3>4
      <4>4. QED
        BY <4>1, <4>2, <4>3
    <3>5. i # K + 3 /\ i # K + 6 => Steady(s[i])
      <4>1. i <= K => Steady(s[i])
        BY <1>2 DEF Calm
      <4>2. i \in 1..Len(s) /\ ~(i > K + 9) /\ i # K + 9
        BY <1>2
      <4>3. QED
        <5>1. CASE i <= K
          BY <4>1, <5>1
        <5>2. CASE ~(i <= K) /\ i # K + 3 /\ i # K + 6
          <6>1. \E n \in {1, 2}, w \in {"before", "after"} : s[i] = Ignored(Step("snapshot", n, w))
            BY <1>7, <1>8, <4>2, <5>2
          <6>2. QED
            BY <1>4, <6>1
        <5>3. QED
          BY <5>1, <5>2
    <3>6. QED
      BY <3>2, <3>3, <3>4, <3>5
  <2>2. (K + 9) - 1 = K + 8 /\ K + 9 \in 1..Len(s)
    BY <1>2
  <2> HIDE DEF E
  <2>3. Unskipped(s, K + 9, E)
    BY <2>1, <2>2 DEF Unskipped
  <2>4. Awaits(s, s[K + 9], {}, E)
    BY <2>2, <2>3 DEF Awaits
  <2>5. QED
    BY <1>7, <2>4 DEF E
<1>16. QED
  BY <1>9, <1>12, <1>13, <1>14, <1>15, <1>17 DEF s


LEMMA AutoTlsScript == Script("autotls") = AutoTls
<1>1. /\ "autotls" \notin ContentCheckNames /\ "autotls" \notin AccountingCheckNames
      /\ "autotls" \in TopologyCheckNames
  BY DEF ContentCheckNames, AccountingCheckNames, TopologyCheckNames
<1>2. \A c : c \notin ContentCheckNames /\ c \notin AccountingCheckNames /\ c \in TopologyCheckNames
         => Script(c) = TopologyScript(c)
  BY DEF Script
<1>3. TopologyScript("autotls") = AutoTls
  BY DEF TopologyScript
<1>4. QED
  BY <1>1, <1>2, <1>3

LEMMA InitTls == Init => AutoInv
<1> SUFFICES ASSUME Init PROVE AutoInv
  OBVIOUS
<1>1. SUFFICES ASSUME check = "autotls" PROVE TlsInv
  BY InitPays DEF AutoInv, TlsInv
<1>2. todo = AutoTls /\ errors = 0 /\ verdict = "none"
  BY <1>1, AutoTlsScript DEF Init, ScriptInit
<1>3. {1, 2} \subseteq Nodes
  BY TopologyAssumption DEF Pair
<1>4. cert \in [Nodes -> Certificate]
  BY DEF Init, TopologyInit, Certificate
<1>5. addr[1] \in Underlays(1) /\ addr[2] = GoodUnderlay(2)
  <2>1. PICK u \in Underlays(1) : addr = [n \in Nodes |-> IF n = 1 THEN u ELSE GoodUnderlay(n)]
    BY <1>1 DEF Init, TopologyInit
  <2>2. QED
    BY <1>3, <2>1
<1>6. Recorded
  <2>1. snaps = [before |-> {}, after |-> {}]
    BY DEF Init, TopologyInit
  <2>2. QED
    BY <2>1 DEF Recorded
<1>7. QED
  BY <1>2, <1>4, <1>5, <1>6, AutoTlsStart DEF TlsInv, Certified, Addressed, Homed, Compared, Replaced

\* The cluster's own steps: certificates are issued, or expire.
LEMMA TlsSteps ==
  ASSUME Settle \/ Disturb \/ UNCHANGED vars
  PROVE  /\ UNCHANGED <<check, todo, verdict, errors, addr, snaps>>
         /\ cert' = cert \/ \E n \in Nodes : Issue(n) \/ Expire(n)
<1>1. UNCHANGED <<check, todo, verdict, errors>>
  BY ClusterSteps DEF script
<1>2. CASE UNCHANGED topology
  BY <1>1, <1>2 DEF topology
<1>3. CASE \E n \in Nodes : Issue(n)
  BY <1>1, <1>3 DEF Issue
<1>4. CASE Flip
  BY <1>1, <1>4 DEF Flip
<1>5. CASE \E n \in Nodes : Expire(n)
  BY <1>1, <1>5 DEF Expire
<1>6. QED
  BY <1>2, <1>3, <1>4, <1>5 DEF Settle, Disturb, vars

LEMMA SerialsGrow ==
  ASSUME cert \in [Nodes -> Certificate], NEW n \in Nodes, Issue(n) \/ Expire(n)
  PROVE  cert' \in [Nodes -> Certificate] /\ \A m \in Nodes : cert'[m].serial >= cert[m].serial
<1>1. PICK c \in Certificate : cert' = [cert EXCEPT ![n] = c] /\ c.serial >= cert[n].serial
  <2>1. cert[n] \in Certificate /\ cert[n].serial \in Nat /\ cert[n].expired \in BOOLEAN
    BY DEF Certificate
  <2>2. CASE Issue(n)
    <3> DEFINE c == [serial |-> cert[n].serial + 1, expired |-> FALSE]
    <3>1. cert' = [cert EXCEPT ![n] = c]
      BY <2>2 DEF Issue
    <3>2. c \in Certificate /\ c.serial >= cert[n].serial
      BY <2>1 DEF Certificate
    <3>3. QED
      BY <3>1, <3>2
  <2>3. CASE Expire(n)
    <3> DEFINE c == [cert[n] EXCEPT !.expired = TRUE]
    <3>1. cert' = [cert EXCEPT ![n] = c]
      BY <2>3 DEF Expire
    <3>2. ASSUME NEW o \in Certificate
          PROVE  [o EXCEPT !.expired = TRUE] \in Certificate /\ [o EXCEPT !.expired = TRUE].serial = o.serial
      BY DEF Certificate
    <3>3. c \in Certificate /\ c.serial = cert[n].serial
      BY <2>1, <3>2, Zenon
    <3> HIDE DEF c
    <3>4. c.serial >= cert[n].serial
      BY <2>1, <3>3
    <3>5. QED
      BY <3>1, <3>3, <3>4
  <2>4. QED
    BY <2>2, <2>3
<1>2. \A m \in Nodes : cert[m].serial \in Nat
  BY DEF Certificate
<1>3. QED
  BY <1>1, <1>2

LEMMA ClusterTls == ASSUME AutoInv, PaysInv', Settle \/ Disturb \/ UNCHANGED vars PROVE AutoInv'
<1>1. UNCHANGED <<check, todo, verdict, errors, addr, snaps>>
  BY TlsSteps
<1>2. SUFFICES ASSUME check = "autotls" PROVE TlsInv'
  BY <1>1 DEF AutoInv, TlsInv
<1>3. /\ errors \in Nat /\ cert \in [Nodes -> Certificate] /\ addr[1] \in Underlays(1)
      /\ addr[2] = GoodUnderlay(2) /\ Snapshotting(todo) /\ Recorded
      /\ verdict \in {"none", "pass"} => Certified(1) /\ Certified(2) /\ Addressed /\ Homed /\ Compared /\ Replaced
  BY <1>2 DEF AutoInv, TlsInv
<1>4. cert' \in [Nodes -> Certificate] /\ \A m \in Nodes : cert'[m].serial >= cert[m].serial
  <2>1. CASE cert' = cert
    BY <1>3, <2>1 DEF Certificate
  <2>2. QED
    BY <1>3, <2>1, SerialsGrow, TlsSteps
<1>5. \A n \in {1, 2} : /\ cert[n].serial \in Nat /\ cert'[n].serial \in Nat
                        /\ cert'[n].serial >= cert[n].serial
  <2>1. {1, 2} \subseteq Nodes
    BY TopologyAssumption DEF Pair
  <2>2. QED
    BY <1>3, <1>4, <2>1 DEF Certificate
<1>6. Recorded'
  <2>1. snaps' = snaps /\ snaps \in [{"before", "after"} -> SUBSET ({1, 2} \X Nat)]
    BY <1>1, <1>3 DEF Recorded
  <2>2. ASSUME NEW w \in {"before", "after"}, NEW p \in snaps[w] PROVE 1 <= p[2] /\ p[2] <= cert'[p[1]].serial
    <3>1. p[1] \in {1, 2} /\ p[2] \in Nat /\ 1 <= p[2] /\ p[2] <= cert[p[1]].serial
      BY <1>3, <2>1 DEF Recorded
    <3>2. QED
      BY <1>5, <3>1
  <2>3. QED
    BY <2>1, <2>2 DEF Recorded
<1>7. /\ \A n \in {1, 2} : Certified(n) => Certified(n)'
      /\ (Addressed => Addressed') /\ (Homed => Homed') /\ (Compared => Compared') /\ (Reissued => Reissued')
  <2>1. \A n \in {1, 2} : Certified(n) => Certified(n)'
    BY <1>1, <1>5 DEF Certified
  <2>2. Reissued => Reissued'
    BY <1>5 DEF Reissued
  <2>3. (Addressed => Addressed') /\ (Homed => Homed') /\ (Compared => Compared')
    BY <1>1 DEF Addressed, Homed, AtHome, Compared, ReadBefore
  <2>4. QED
    BY <2>1, <2>2, <2>3
<1>8. Replaced => Replaced'
  BY <1>1, <1>7 DEF Replaced
<1>9. QED
  BY <1>1, <1>3, <1>4, <1>6, <1>7, <1>8 DEF TlsInv

LEMMA AgainTls == ASSUME AutoInv, Again PROVE AutoInv'
<1>1. /\ check' = check /\ todo' = Script(check) /\ verdict' = "none" /\ errors' = 0
      /\ cert' = cert /\ addr' = addr /\ snaps' = snaps
  BY DEF Again, Rerun, topology
<1>2. SUFFICES ASSUME check = "autotls" PROVE TlsInv'
  BY <1>1, AgainPays DEF AutoInv, TlsInv
<1>3. todo' = AutoTls
  BY <1>1, <1>2, AutoTlsScript
<1>4. /\ cert \in [Nodes -> Certificate] /\ addr[1] \in Underlays(1) /\ addr[2] = GoodUnderlay(2) /\ Recorded
  BY <1>2 DEF AutoInv, TlsInv
<1>5. Recorded'
  BY <1>1, <1>4 DEF Recorded
<1>6. Snapshotting(todo') /\ Certified(1)' /\ Certified(2)' /\ Addressed' /\ Homed' /\ Compared' /\ Replaced'
  BY <1>3, AutoTlsStart DEF Certified, Addressed, Homed, Compared, Replaced
<1>7. QED
  BY <1>1, <1>4, <1>5, <1>6 DEF TlsInv

LEMMA NextTls == AutoInv /\ [Next]_vars => AutoInv'
<1> SUFFICES ASSUME AutoInv, [Next]_vars PROVE AutoInv'
  OBVIOUS
<1>1. PaysInv'
  BY NextPays DEF AutoInv
<1>2. CASE Request
  <2>1. check' = check
    BY <1>2, RequestAsks
  <2>2. TlsInv'
    BY <1>2, <2>1, TlsRequest DEF TlsInv
  <2>3. QED
    BY <1>1, <2>2 DEF AutoInv
<1>3. QED
  BY <1>1, <1>2, ClusterTls, AgainTls DEF Next, Done

\* autotls does not return nil without a reason: the addresses it accepted name
\* their own peer, in the right domain, with the address they lead to; and,
\* unless a request broke, that is the node's own address and a certificate was
\* reissued while it ran or before.  Whoever is not at home cannot be connected
\* to, which the check does without an excuse.  Every serial number it compares was really issued and none is read
\* before the first certificate is there, so two that differ are two
\* certificates; and it cannot get past the second comparison without one.
THEOREM AutoTlsIsRealHolds == Spec => []AutoTlsIsReal
<1>1. AutoInv => AutoTlsIsReal
  <2> SUFFICES ASSUME AutoInv, verdict = "pass", check = "autotls"
               PROVE  /\ \A n \in Range(Wss) : addr[n].at.host = Name(ExtractForgeInfo(addr[n]).ip, n, "forge")
                      /\ errors = 0 => /\ \A n \in Range(Wss) : AtHome(n)
                                       /\ \E n \in Range(Wss) : cert[n].serial > 1
    BY DEF AutoTlsIsReal
  <2>1. todo = <<>>
    BY DEF AutoInv, PaysInv, Run, Purchasing
  <2>2. \A r, B, E : ~Awaits(todo, r, B, E)
    BY <2>1, Nil DEF Awaits
  <2>3. /\ addr[1].at.host = Name(ExtractForgeInfo(addr[1]).ip, 1, "forge") /\ addr[2] = GoodUnderlay(2)
        /\ errors = 0 => Reissued /\ AtHome(1)
    BY <2>2 DEF AutoInv, TlsInv, Addressed, Homed, Replaced
  <2>4. addr[2].at.host = Name(ExtractForgeInfo(addr[2]).ip, 2, "forge") /\ AtHome(2)
    BY <2>3, SecondAtHome
  <2>5. Range(Wss) = {1, 2}
    BY DEF Range, Wss
  <2>6. QED
    BY <2>3, <2>4, <2>5 DEF Reissued
<1>2. QED
  BY InitTls, NextTls, <1>1, PTL DEF Spec

-----------------------------------------------------------------------------
(* The checks of content: their scripts.                                    *)

\* Only an item at its home, or at the node pl[x], lets r go on, given that the
\* check uploads none but S, pairs of a node and an item: r asks pl[x], or a
\* node that did not take the upload.
Confirms(r, x, S, pl) ==
  /\ Strict(r) /\ r.n \in Nodes
  /\ r.n = pl[x] \/ <<r.n, x>> \notin S
  /\ \/ r.op \in {"has", "download"} /\ r.x = x
     \/ r.op = "feedfile" /\ (x = 2 \/ r.x = x)
     \/ r.op = "actfile" /\ x = 1

\* after request i comes one that confirms x, and none leads past it
Reaches(s, i, x, S, pl) ==
  \E j \in (i + 1)..Len(s) : Confirms(s[j], x, S, pl) /\ \A k \in (i + 1)..(j - 1) : Steady(s[k])

\* every upload is of an item, to a node that is in S, and is confirmed
Uploading == {"upload", "push"}

Verified(s, S, pl) ==
  /\ IsSeq(s)
  /\ \A i \in 1..Len(s) : s[i].op \in Uploading => s[i].x \in Items
  /\ \A i \in 1..Len(s) : s[i].op = "upload" =>
        s[i].ok = 1 /\ <<s[i].n, s[i].x>> \in S /\ Reaches(s, i, s[i].x, S, pl)

Quiet(s) == IsSeq(s) /\ \A i \in 1..Len(s) : s[i].op \notin Uploading

LEMMA QuietVerified == ASSUME NEW s, Quiet(s), NEW S, NEW pl PROVE Verified(s, S, pl)
BY DEF Quiet, Verified, Uploading

LEMMA ReachesSooner ==
  ASSUME NEW s, NEW t, IsSeq(s), IsSeq(t), NEW i \in Nat, NEW x, NEW S, NEW pl, Reaches(s, i, x, S, pl)
  PROVE  Reaches(s \o t, i, x, S, pl)
<1>1. /\ Len(s \o t) = Len(s) + Len(t) /\ Len(s) \in Nat /\ Len(t) \in Nat
      /\ \A k \in 1..Len(s) : (s \o t)[k] = s[k]
  BY Joined DEF IsSeq
<1>2. PICK j \in (i + 1)..Len(s) : Confirms(s[j], x, S, pl) /\ \A k \in (i + 1)..(j - 1) : Steady(s[k])
  BY DEF Reaches
<1> DEFINE u == s \o t
<1>3. j \in 1..Len(s) /\ j \in (i + 1)..Len(u) /\ \A k \in (i + 1)..(j - 1) : k \in 1..Len(s)
  BY <1>1
<1>4. u[j] = s[j] /\ \A k \in (i + 1)..(j - 1) : u[k] = s[k]
  BY <1>1, <1>3
<1> HIDE DEF u
<1>5. Reaches(u, i, x, S, pl)
  BY <1>2, <1>3, <1>4 DEF Reaches
<1>6. QED
  BY <1>5 DEF u

LEMMA ReachesLater ==
  ASSUME NEW s, NEW t, IsSeq(s), IsSeq(t), NEW i \in Nat, NEW x, NEW S, NEW pl, Reaches(t, i, x, S, pl)
  PROVE  /\ Reaches(s \o t, Len(s) + i, x, S, pl)
         /\ i = 0 /\ (\A k \in 1..Len(s) : Steady(s[k])) => Reaches(s \o t, 0, x, S, pl)
<1>1. /\ Len(s \o t) = Len(s) + Len(t) /\ Len(s) \in Nat /\ Len(t) \in Nat
      /\ \A k \in 1..Len(s) : (s \o t)[k] = s[k]
      /\ \A k \in 1..Len(t) : (s \o t)[Len(s) + k] = t[k]
  BY Joined DEF IsSeq
<1>2. PICK j \in (i + 1)..Len(t) : Confirms(t[j], x, S, pl) /\ \A k \in (i + 1)..(j - 1) : Steady(t[k])
  BY DEF Reaches
<1> DEFINE u == s \o t
           K == Len(s)
<1>3. j \in 1..Len(t) /\ K + j \in (K + i + 1)..Len(u)
  BY <1>1
<1>4. u[K + j] = t[j]
  BY <1>1, <1>3
<1>5. ASSUME NEW k \in (K + i + 1)..((K + j) - 1) PROVE Steady(u[k])
  <2>1. k - K \in (i + 1)..(j - 1) /\ k - K \in 1..Len(t) /\ K + (k - K) = k
    BY <1>1, <1>3
  <2>2. u[k] = t[k - K]
    BY <1>1, <2>1
  <2>3. QED
    BY <1>2, <2>1, <2>2
<1>6. \A k \in 1..K : u[k] = s[k]
  BY <1>1
<1>7. K \in Nat
  BY <1>1
<1> HIDE DEF u, K
<1> DEFINE m == K + j
<1>8. Reaches(u, K + i, x, S, pl)
  <2>1. m \in (K + i + 1)..Len(u) /\ Confirms(u[m], x, S, pl) /\ \A k \in (K + i + 1)..(m - 1) : Steady(u[k])
    <3>1. m \in (K + i + 1)..Len(u)
      BY <1>3
    <3>2. Confirms(u[m], x, S, pl)
      BY <1>2, <1>4
    <3>3. \A k \in (K + i + 1)..(m - 1) : Steady(u[k])
      BY <1>5
    <3>4. QED
      BY <3>1, <3>2, <3>3
  <2> HIDE DEF m
  <2>2. QED
    BY <2>1 DEF Reaches
<1>9. ASSUME i = 0, \A k \in 1..K : Steady(s[k]) PROVE Reaches(u, 0, x, S, pl)
  <2>1. K + j \in (0 + 1)..Len(u)
    BY <1>3, <1>7, <1>9
  <2>2. ASSUME NEW k \in (0 + 1)..((K + j) - 1) PROVE Steady(u[k])
    <3>1. k \in 1..K \/ k \in (K + i + 1)..((K + j) - 1)
      BY <1>3, <1>7, <1>9
    <3>2. QED
      BY <1>5, <1>6, <1>9, <3>1
  <2>3. m \in (0 + 1)..Len(u) /\ Confirms(u[m], x, S, pl) /\ \A k \in (0 + 1)..(m - 1) : Steady(u[k])
    <3>1. Confirms(u[m], x, S, pl)
      BY <1>2, <1>4
    <3>2. \A k \in (0 + 1)..(m - 1) : Steady(u[k])
      BY <2>2
    <3>3. QED
      BY <2>1, <3>1, <3>2
  <2> HIDE DEF m
  <2>4. QED
    BY <2>3 DEF Reaches
<1>10. QED
  BY <1>8, <1>9 DEF u, K

LEMMA VerifiedJoined ==
  ASSUME NEW s, NEW t, NEW S, NEW pl, Verified(s, S, pl), Verified(t, S, pl)
  PROVE  Verified(s \o t, S, pl)
<1>1. IsSeq(s) /\ IsSeq(t)
  BY DEF Verified
<1>2. IsSeq(s \o t) /\ Len(s) \in Nat /\ Len(t) \in Nat
  BY <1>1, Joined DEF IsSeq
<1> DEFINE u == s \o t
<1>3. ASSUME NEW i \in 1..Len(u), u[i].op \in Uploading
      PROVE  /\ u[i].x \in Items
             /\ u[i].op = "upload" => u[i].ok = 1 /\ <<u[i].n, u[i].x>> \in S /\ Reaches(u, i, u[i].x, S, pl)
  <2>1. CASE i \in 1..Len(s) /\ u[i] = s[i]
    <3>1. /\ u[i].x \in Items
          /\ u[i].op = "upload" => u[i].ok = 1 /\ <<u[i].n, u[i].x>> \in S /\ Reaches(s, i, u[i].x, S, pl)
      BY <1>3, <2>1 DEF Verified
    <3>2. i \in Nat
      OBVIOUS
    <3>3. QED
      BY <1>1, <3>1, <3>2, ReachesSooner
  <2>2. CASE i - Len(s) \in 1..Len(t) /\ u[i] = t[i - Len(s)]
    <3> DEFINE k == i - Len(s)
    <3>1. k \in 1..Len(t) /\ k \in Nat /\ u[i] = t[k] /\ Len(s) + k = i
      BY <1>2, <2>2
    <3> HIDE DEF k, u
    <3>2. /\ u[i].x \in Items
          /\ u[i].op = "upload" => u[i].ok = 1 /\ <<u[i].n, u[i].x>> \in S /\ Reaches(t, k, u[i].x, S, pl)
      BY <1>3, <3>1 DEF Verified
    <3>3. Reaches(t, k, u[i].x, S, pl) => Reaches(s \o t, Len(s) + k, u[i].x, S, pl)
      BY <1>1, <3>1, ReachesLater
    <3>4. QED
      BY <3>1, <3>2, <3>3 DEF u
  <2>3. QED
    BY <1>1, <2>1, <2>2, JoinedIndex
<1>4. QED
  BY <1>2, <1>3 DEF Verified, Uploading

LEMMA QuietJoined == ASSUME NEW s, NEW t, Quiet(s), Quiet(t) PROVE Quiet(s \o t)
<1>1. IsSeq(s) /\ IsSeq(t)
  BY DEF Quiet
<1>2. IsSeq(s \o t)
  BY <1>1, Joined
<1>3. QED
  BY <1>1, <1>2, JoinedIndex DEF Quiet

LEMMA EachVerified ==
  ASSUME NEW K \in Nat, NEW parts, parts = [i \in 1..K |-> parts[i]], NEW S, NEW pl,
         \A i \in 1..K : Verified(parts[i], S, pl)
  PROVE  Verified(FlattenSeq(parts), S, pl)
<1> DEFINE U == Together(parts)
           A == {s \in Seq(U) : Verified(s, S, pl)}
           P == [k \in 0..K |-> A]
<1>0. IsSeq(parts) /\ Len(parts) = K
  BY Listed
<1>1. K \in Nat /\ parts \in [1..K -> Seq(U)] /\ \A i \in 1..K : Verified(parts[i], S, pl)
  BY <1>0, SeqsTogether DEF Verified
<1> HIDE DEF U
<1>2. <<>> \in P[0]
  <2>1. Verified(<<>>, S, pl)
    BY Nil DEF Verified
  <2>2. QED
    BY <1>1, <2>1
<1>3. ASSUME NEW i \in 1..K, NEW s \in P[i - 1] \cap Seq(U) PROVE s \o parts[i] \in P[i]
  <2>1. Verified(s, S, pl) /\ s \in Seq(U) /\ parts[i] \in Seq(U) /\ Verified(parts[i], S, pl)
    BY <1>1
  <2>2. Verified(s \o parts[i], S, pl)
    BY <2>1, VerifiedJoined
  <2>3. s \o parts[i] \in Seq(U)
    BY <2>1
  <2>4. QED
    BY <1>1, <2>2, <2>3
<1>4. FlattenSeq(parts) \in P[K] \cap Seq(U)
  <2> HIDE DEF P
  <2>1. QED
    BY <1>1, <1>2, <1>3, FlattenIn
<1>5. QED
  BY <1>1, <1>4

\* A loop over two values.
LEMMA FlattenTwo ==
  ASSUME NEW parts, parts = [i \in 1..2 |-> parts[i]], IsSeq(parts[1]), IsSeq(parts[2])
  PROVE  FlattenSeq(parts) = parts[1] \o parts[2]
<1> DEFINE U == Together(parts)
           P == [k \in 0..2 |-> IF k = 0 THEN {<<>>} ELSE IF k = 1 THEN {parts[1]} ELSE {parts[1] \o parts[2]}]
<1>0. IsSeq(parts) /\ Len(parts) = 2 /\ \A i \in 1..2 : i = 1 \/ i = 2
  <2>1. PICK K \in Nat : K = 2
    OBVIOUS
  <2>2. parts = [i \in 1..K |-> parts[i]]
    BY <2>1
  <2>3. IsSeq(parts) /\ Len(parts) = K
    BY <2>2, Listed
  <2>4. QED
    BY <2>1, <2>3
<1>1. parts \in [1..2 -> Seq(U)]
  BY <1>0, SeqsTogether
<1> HIDE DEF U
<1>2. <<>> \in P[0]
  OBVIOUS
<1>3. ASSUME NEW i \in 1..2, NEW s \in P[i - 1] \cap Seq(U) PROVE s \o parts[i] \in P[i]
  <2>1. CASE i = 1
    <3>1. s = <<>> /\ parts[1] \in Seq(U)
      BY <1>1, <2>1
    <3>2. <<>> \o parts[1] = parts[1]
      BY <3>1
    <3>3. QED
      BY <2>1, <3>1, <3>2
  <2>2. CASE i = 2
    <3>1. s = parts[1]
      BY <2>2
    <3>2. QED
      BY <2>2, <3>1
  <2>3. QED
    BY <1>0, <2>1, <2>2
<1>4. FlattenSeq(parts) \in P[2] \cap Seq(U)
  <2> HIDE DEF P
  <2>1. QED
    BY <1>1, <1>2, <1>3, FlattenIn
<1>5. QED
  BY <1>4

LEMMA JoinedAgain ==
  ASSUME NEW s, NEW t, NEW u, IsSeq(s), IsSeq(t), IsSeq(u)
  PROVE  (s \o t) \o u = s \o (t \o u)
<1> DEFINE U == Elements(s) \cup Elements(t) \cup Elements(u)
<1>1. s \in Seq(U) /\ t \in Seq(U) /\ u \in Seq(U)
  <2>1. s \in Seq(Elements(s)) /\ t \in Seq(Elements(t)) /\ u \in Seq(Elements(u))
    BY SeqOfElements
  <2>2. Seq(Elements(s)) \subseteq Seq(U) /\ Seq(Elements(t)) \subseteq Seq(U) /\ Seq(Elements(u)) \subseteq Seq(U)
    OBVIOUS
  <2>3. QED
    BY <2>1, <2>2
<1> HIDE DEF U
<1>2. QED
  BY <1>1, ConcatAssociative

-----------------------------------------------------------------------------
(* Uploads and what confirms them.                                          *)

Sent(u, x, S) == u.op = "upload" /\ u.ok = 1 /\ u.x = x /\ x \in Items /\ <<u.n, x>> \in S

LEMMA Prefixed ==
  ASSUME NEW a, NEW t, IsSeq(t), NEW w, IsSeq(w), Len(w) = Len(t) + 1, w[1] = a,
         \A i \in 1..Len(t) : w[1 + i] = t[i]
  PROVE  w = <<a>> \o t
<1>1. PICK p : p = <<a>>
  OBVIOUS
<1>2. IsSeq(p) /\ Len(p) = 1 /\ p[1] = a
  BY <1>1, One
<1> DEFINE v == p \o t
<1>3. /\ IsSeq(v) /\ Len(v) = Len(p) + Len(t) /\ (\A i \in 1..Len(p) : v[i] = p[i])
      /\ \A i \in 1..Len(t) : v[Len(p) + i] = t[i]
  <2>1. IsSeq(p)
    BY <1>2
  <2>2. QED
    BY <2>1, Joined
<1> HIDE DEF v
<1>4. /\ Len(t) \in Nat /\ Len(v) = Len(t) + 1 /\ v[1] = a
      /\ \A i \in 1..Len(t) : v[1 + i] = t[i]
  <2>1. Len(t) \in Nat
    BY DEF IsSeq
  <2>2. v[1] = a
    BY <1>2, <1>3
  <2>3. QED
    BY <1>2, <1>3, <2>1, <2>2
<1>5. ASSUME NEW i \in 1..Len(v) PROVE v[i] = w[i]
  <2>1. i = 1 \/ (i - 1 \in 1..Len(t) /\ 1 + (i - 1) = i)
    BY <1>4
  <2>2. QED
    BY <1>4, <2>1
<1>6. v = w
  BY <1>3, <1>4, <1>5 DEF IsSeq
<1>7. QED
  BY <1>1, <1>6 DEF v

LEMMA Tuples ==
  ASSUME NEW a, NEW b, NEW c, NEW d
  PROVE  <<a, b>> = <<a>> \o <<b>> /\ <<a, b, c>> = <<a>> \o <<b, c>> /\ <<a, b, c, d>> = <<a>> \o <<b, c, d>>
<1>1. <<a, b>> = <<a>> \o <<b>>
  <2>1. PICK t, w : t = <<b>> /\ w = <<a, b>>
    OBVIOUS
  <2>2. IsSeq(t) /\ Len(t) = 1 /\ t[1] = b /\ IsSeq(w) /\ Len(w) = 2 /\ w[1] = a /\ w[2] = b
    BY <2>1, One, Two
  <2>3. IsSeq(t) /\ IsSeq(w) /\ Len(w) = Len(t) + 1 /\ w[1] = a /\ \A i \in 1..Len(t) : w[1 + i] = t[i]
    BY <2>2
  <2>4. w = <<a>> \o t
    BY <2>3, Prefixed
  <2>5. QED
    BY <2>1, <2>4
<1>2. <<a, b, c>> = <<a>> \o <<b, c>>
  <2>1. PICK t, w : t = <<b, c>> /\ w = <<a, b, c>>
    OBVIOUS
  <2>2. /\ IsSeq(t) /\ Len(t) = 2 /\ t[1] = b /\ t[2] = c
        /\ IsSeq(w) /\ Len(w) = 3 /\ w[1] = a /\ w[2] = b /\ w[3] = c
    BY <2>1, Two, Three
  <2>3. IsSeq(t) /\ IsSeq(w) /\ Len(w) = Len(t) + 1 /\ w[1] = a /\ \A i \in 1..Len(t) : w[1 + i] = t[i]
    BY <2>2
  <2>4. w = <<a>> \o t
    BY <2>3, Prefixed
  <2>5. QED
    BY <2>1, <2>4
<1>3. <<a, b, c, d>> = <<a>> \o <<b, c, d>>
  <2>1. PICK t, w : t = <<b, c, d>> /\ w = <<a, b, c, d>>
    OBVIOUS
  <2>2. /\ IsSeq(t) /\ Len(t) = 3 /\ t[1] = b /\ t[2] = c /\ t[3] = d
        /\ Len(w) = 4 /\ w[1] = a /\ w[2] = b /\ w[3] = c /\ w[4] = d
    BY <2>1, Three
  <2>3. IsSeq(w)
    BY <2>1 DEF IsSeq
  <2>4. IsSeq(t) /\ IsSeq(w) /\ Len(w) = Len(t) + 1 /\ w[1] = a /\ \A i \in 1..Len(t) : w[1 + i] = t[i]
    BY <2>2, <2>3
  <2>5. w = <<a>> \o t
    BY <2>4, Prefixed
  <2>6. QED
    BY <2>1, <2>5
<1>4. QED
  BY <1>1, <1>2, <1>3

LEMMA QuietTuples ==
  ASSUME NEW a, NEW b, NEW c, a.op \notin Uploading, b.op \notin Uploading, c.op \notin Uploading
  PROVE  Quiet(<<a>>) /\ Quiet(<<a, b>>) /\ Quiet(<<a, b, c>>)
<1>1. Quiet(<<a>>) /\ Quiet(<<b>>) /\ Quiet(<<c>>)
  BY One DEF Quiet
<1>2. Quiet(<<b, c>>) /\ Quiet(<<a, b>>)
  <2>1. \A i \in 1..2 : i = 1 \/ i = 2
    OBVIOUS
  <2>2. QED
    BY <2>1, Two DEF Quiet
<1>3. Quiet(<<a, b, c>>)
  <2>1. \A i \in 1..3 : i = 1 \/ i = 2 \/ i = 3
    OBVIOUS
  <2>2. QED
    BY <2>1, Three DEF Quiet
<1>4. QED
  BY <1>1, <1>2, <1>3

LEMMA ReachesFirst ==
  ASSUME NEW t, IsSeq(t), Len(t) > 0, NEW x, NEW S, NEW pl, Confirms(t[1], x, S, pl)
  PROVE  Reaches(t, 0, x, S, pl)
<1>1. 1 \in (0 + 1)..Len(t) /\ \A k \in (0 + 1)..(1 - 1) : FALSE
  BY DEF IsSeq
<1>2. QED
  BY <1>1 DEF Reaches

LEMMA ReachesOne ==
  ASSUME NEW c, NEW x, NEW S, NEW pl, Confirms(c, x, S, pl)
  PROVE  Reaches(<<c>>, 0, x, S, pl)
BY One, ReachesFirst

\* what is steady is passed
LEMMA ReachesNext ==
  ASSUME NEW a, Steady(a), NEW t, IsSeq(t), NEW x, NEW S, NEW pl, Reaches(t, 0, x, S, pl)
  PROVE  Reaches(<<a>> \o t, 0, x, S, pl)
<1>1. IsSeq(<<a>>) /\ \A k \in 1..Len(<<a>>) : Steady(<<a>>[k])
  BY One
<1>2. QED
  BY <1>1, ReachesLater

LEMMA SentVerified ==
  ASSUME NEW u, NEW x, NEW S, NEW pl, Sent(u, x, S), NEW t, Verified(t, S, pl), Reaches(t, 0, x, S, pl)
  PROVE  Verified(<<u>> \o t, S, pl)
<1> DEFINE v == <<u>> \o t
<1>1. IsSeq(t) /\ IsSeq(<<u>>) /\ IsSeq(v) /\ Len(<<u>>) = 1 /\ <<u>>[1] = u
  BY One, Joined DEF Verified
<1>2. Reaches(v, 1, x, S, pl)
  <2>1. Reaches(v, Len(<<u>>) + 0, x, S, pl)
    BY <1>1, ReachesLater
  <2>2. Len(<<u>>) + 0 = 1
    BY <1>1
  <2>3. QED
    BY <2>1, <2>2
<1>3. ASSUME NEW i \in 1..Len(v), v[i].op \in Uploading
      PROVE  /\ v[i].x \in Items
             /\ v[i].op = "upload" => v[i].ok = 1 /\ <<v[i].n, v[i].x>> \in S /\ Reaches(v, i, v[i].x, S, pl)
  <2>1. CASE i \in 1..Len(<<u>>) /\ v[i] = <<u>>[i]
    <3>1. i = 1 /\ v[i] = u
      BY <1>1, <2>1
    <3>2. QED
      BY <1>2, <3>1 DEF Sent
  <2>2. CASE i - Len(<<u>>) \in 1..Len(t) /\ v[i] = t[i - Len(<<u>>)]
    <3> DEFINE k == i - Len(<<u>>)
    <3>1. k \in 1..Len(t) /\ k \in Nat /\ v[i] = t[k] /\ Len(<<u>>) + k = i
      BY <1>1, <2>2
    <3> HIDE DEF k, v
    <3>2. /\ v[i].x \in Items
          /\ v[i].op = "upload" => v[i].ok = 1 /\ <<v[i].n, v[i].x>> \in S /\ Reaches(t, k, v[i].x, S, pl)
      BY <1>3, <3>1 DEF Verified
    <3>3. Reaches(t, k, v[i].x, S, pl) => Reaches(<<u>> \o t, Len(<<u>>) + k, v[i].x, S, pl)
      BY <1>1, <3>1, ReachesLater
    <3>4. QED
      BY <3>1, <3>2, <3>3 DEF v
  <2>3. QED
    BY <1>1, <2>1, <2>2, JoinedIndex
<1>4. QED
  BY <1>1, <1>3 DEF Verified, Uploading

LEMMA SentConfirmed ==
  ASSUME NEW u, NEW x, NEW S, NEW pl, Sent(u, x, S), NEW c, Confirms(c, x, S, pl)
  PROVE  /\ Verified(<<u, c>>, S, pl)
         /\ \A o : o.op \notin Uploading => Verified(<<u, c, o>>, S, pl)
<1>1. Quiet(<<c>>) /\ \A o : o.op \notin Uploading => Quiet(<<c, o>>)
  BY QuietTuples DEF Confirms, Uploading
<1>2. Reaches(<<c>>, 0, x, S, pl)
  BY ReachesOne
<1>3. Verified(<<u, c>>, S, pl)
  <2>1. Verified(<<c>>, S, pl)
    BY <1>1, QuietVerified
  <2>2. Verified(<<u>> \o <<c>>, S, pl)
    BY <1>2, <2>1, SentVerified
  <2>3. <<u, c>> = <<u>> \o <<c>>
    BY Tuples
  <2>4. QED
    BY <2>2, <2>3, Zenon
<1>4. ASSUME NEW o, o.op \notin Uploading PROVE Verified(<<u, c, o>>, S, pl)
  <2>1. Reaches(<<c, o>>, 0, x, S, pl)
    BY Two, ReachesFirst
  <2>2. Verified(<<c, o>>, S, pl)
    BY <1>1, <1>4, QuietVerified
  <2>3. Verified(<<u>> \o <<c, o>>, S, pl)
    BY <2>1, <2>2, SentVerified
  <2>4. <<u, c, o>> = <<u>> \o <<c, o>>
    BY Tuples
  <2>5. QED
    BY <2>3, <2>4, Zenon
<1>5. QED
  BY <1>3, <1>4

LEMMA StepStrict ==
  ASSUME NEW op, NEW n, NEW x, NEW k,
         NEW r \in {Step(op, n, x), Retried(k, Step(op, n, x)), Polled(k, Step(op, n, x))}
  PROVE  Strict(r) /\ r.op = op /\ r.n = n /\ r.x = x /\ r.ok = 1
<1>1. r.op = op /\ r.n = n /\ r.x = x /\ r.ok = 1 /\ r.out = -1 /\ r.no \in {0, -1} /\ r.err \in {0, -1}
  <2>1. CASE r = Step(op, n, x)
    BY <2>1 DEF Step, Fail
  <2>2. CASE r = Retried(k, Step(op, n, x))
    BY <2>2 DEF Step, Retried, Fail, Retry
  <2>3. CASE r = Polled(k, Step(op, n, x))
    BY <2>3 DEF Step, Polled, Fail, Retry
  <2>4. QED
    BY <2>1, <2>2, <2>3
<1>2. ASSUME NEW a \in Answers, a # "ok" PROVE Takes(r, a) = -1
  <2>1. r[a] \in {0, -1}
    BY <1>1, <1>2 DEF Answers
  <2>2. QED
    BY <1>1, <2>1 DEF Takes, Retry
<1>3. Strict(r)
  BY <1>2 DEF Strict
<1>4. QED
  BY <1>1, <1>3

LEMMA SentSteps ==
  ASSUME NEW n, NEW x \in Items, NEW S, <<n, x>> \in S, NEW k
  PROVE  Sent(Step("upload", n, x), x, S) /\ Sent(Retried(k, Step("upload", n, x)), x, S)
BY StepStrict DEF Sent

LEMMA HasConfirms ==
  ASSUME NEW pl, NEW x, pl[x] \in Nodes, NEW S, NEW k
  PROVE  /\ Confirms(Step("has", pl[x], x), x, S, pl)
         /\ Confirms(Polled(k, Step("has", pl[x], x)), x, S, pl)
         /\ Confirms(Retried(k, Step("has", pl[x], x)), x, S, pl)
<1> DEFINE n == pl[x]
<1>1. \A r \in {Step("has", n, x), Retried(k, Step("has", n, x)), Polled(k, Step("has", n, x))} :
        Strict(r) /\ r.op = "has" /\ r.n = n /\ r.x = x
  BY StepStrict
<1>2. QED
  BY <1>1 DEF Confirms

LEMMA DownloadConfirms ==
  ASSUME NEW pl, NEW n \in Nodes, NEW x, NEW S, n = pl[x] \/ <<n, x>> \notin S, NEW k
  PROVE  /\ Confirms(Step("download", n, x), x, S, pl)
         /\ Confirms(Retried(k, Step("download", n, x)), x, S, pl)
BY StepStrict DEF Confirms

LEMMA BatchQuiet == ASSUME NEW n PROVE Quiet(GetOrCreateMutableBatch(n))
<1>1. Quiet(<<ChainState(n), PostageBatches(n)>>)
  <2>1. ChainState(n).op \notin Uploading /\ PostageBatches(n).op \notin Uploading
    BY DEF ChainState, PostageBatches, Step, Uploading
  <2>2. QED
    BY <2>1, QuietTuples
<1>2. Quiet(CreatePostageBatch(n))
  <2> DEFINE a == Step("buy", n, 0)
             b == Retried(PollTries, Step("usable", n, 0))
  <2>1. a.op \notin Uploading /\ b.op \notin Uploading
    BY DEF Retried, Step, Uploading
  <2>2. CreatePostageBatch(n) = <<a, b>>
    BY DEF CreatePostageBatch
  <2> HIDE DEF a, b
  <2>3. QED
    BY <2>1, <2>2, QuietTuples
<1>3. QED
  BY <1>1, <1>2, QuietJoined DEF GetOrCreateMutableBatch

LEMMA BatchVerified ==
  ASSUME NEW n, NEW s, NEW S, NEW pl, Verified(s, S, pl)
  PROVE  Verified(GetOrCreateMutableBatch(n) \o s, S, pl)
BY BatchQuiet, QuietVerified, VerifiedJoined

\* The loop over the uploading nodes, and in it the one over their contents.
LEMMA ContentsVerified ==
  ASSUME NEW asked, asked = [j \in 1..PerNode |-> asked[j]], NEW S, NEW pl,
         \A j \in 1..PerNode : Verified(asked[j], S, pl)
  PROVE  Verified(FlattenSeq(asked), S, pl)
BY NamesListed, EachVerified

LEMMA UploadsVerified ==
  ASSUME NEW parts, parts = [i \in 1..UploadNodeCount |-> parts[i]], NEW S, NEW pl,
         \A i \in 1..UploadNodeCount : Verified(parts[i], S, pl)
  PROVE  Verified(FlattenSeq(parts), S, pl)
BY NamesListed, EachVerified

LEMMA NamesVerified ==
  ASSUME NEW names, IsSeq(names), NEW parts, parts = [i \in DOMAIN names |-> parts[i]], NEW S, NEW pl,
         \A i \in DOMAIN names : Verified(parts[i], S, pl)
  PROVE  Verified(FlattenSeq(parts), S, pl)
<1>1. Len(names) \in Nat /\ DOMAIN names = 1..Len(names)
  BY DEF IsSeq
<1>2. QED
  BY <1>1, EachVerified


-----------------------------------------------------------------------------
(* The scripts: every upload is confirmed.                                  *)

LEMMA LastNode == Last(NodeNames) \in Nodes
<1> DEFINE L == Cardinality(Nodes)
<1>1. IsFiniteSet(Nodes) /\ Nodes # {}
  BY NamesListed, TopologyAssumption DEF Pair
<1>2. NodeNames \in Seq(Nodes) /\ Len(NodeNames) = L
  BY <1>1, ListOfSet DEF NodeNames
<1>3. L \in Nat /\ L # 0
  BY <1>1, FS_CardinalityType, FS_EmptySet
<1>4. Last(NodeNames) = NodeNames[L]
  BY <1>2 DEF Last
<1> HIDE DEF L
<1>5. QED
  BY <1>2, <1>3, <1>4

\* the closest nodes and homes of the items
Places == near \in [Items -> Nodes] /\ home \in [Items -> Full]

\* the node a check asks about x whoever has uploaded it
LEMMA ClosestIsNode ==
  ASSUME Places, NEW x \in Items
  PROVE  near[x] \in Nodes /\ home[x] \in Nodes /\ Trusted[x] \in Nodes
<1>1. near[x] \in Nodes /\ home[x] \in Nodes
  BY DEF Places, Nodes
<1>2. Trusted[x] \in {near[x], home[x], Last(NodeNames)}
  <2>1. CASE check \in {"pushsync", "chunks", "light"}
    BY <2>1 DEF Trusted
  <2>2. CASE check = "fileretrieval"
    BY <2>2 DEF Trusted
  <2>3. CASE check \notin {"pushsync", "chunks", "light", "fileretrieval"}
    BY <2>3 DEF Trusted
  <2>4. QED
    BY <2>1, <2>2, <2>3
<1>3. QED
  BY <1>1, <1>2, LastNode

LEMMA ContentsAreItems ==
  /\ \A i \in 1..UploadNodeCount, j \in 1..PerNode : Item(i, j) \in Items
  /\ \A j \in 1..PerNode : Item(1, j) \in Items
BY ItemsAssumption

LEMMA PushsyncVerified == ASSUME Places PROVE \E S : Verified(Pushsync, S, near)
<1> DEFINE S == {<<NodeNames[i], x>> : i \in 1..UploadNodeCount, x \in Items}
           asked(n, x) == <<UploadChunk(n, x), Polled(Retries, HasChunk(near[x], x))>>
           inner(i) == [j \in 1..PerNode |-> asked(NodeNames[i], Item(i, j))]
           body(i) == GetOrCreateMutableBatch(NodeNames[i]) \o FlattenSeq(inner(i))
           all == [i \in 1..UploadNodeCount |-> body(i)]
<1>1. Pushsync = FlattenSeq(all)
  BY DEF Pushsync, ForEach
<1>2. ASSUME NEW i \in 1..UploadNodeCount, NEW x \in Items PROVE Verified(asked(NodeNames[i], x), S, near)
  <2>1. Sent(UploadChunk(NodeNames[i], x), x, S)
    <3>1. <<NodeNames[i], x>> \in S
      OBVIOUS
    <3> HIDE DEF S
    <3>2. QED
      BY <3>1, SentSteps DEF UploadChunk
  <2>2. Confirms(Polled(Retries, HasChunk(near[x], x)), x, S, near)
    BY ClosestIsNode, HasConfirms DEF HasChunk
  <2> HIDE DEF S
  <2>3. QED
    BY <2>1, <2>2, SentConfirmed
<1> HIDE DEF asked, S
<1>3. ASSUME NEW i \in 1..UploadNodeCount PROVE Verified(body(i), S, near)
  <2>1. inner(i) = [j \in 1..PerNode |-> inner(i)[j]] /\ \A j \in 1..PerNode : Verified(inner(i)[j], S, near)
    BY <1>2, ContentsAreItems
  <2> HIDE DEF inner
  <2>2. QED
    BY <2>1, ContentsVerified, BatchVerified
<1> HIDE DEF body
<1>4. QED
  BY <1>1, <1>3, UploadsVerified

LEMMA ReplicasQuiet == ASSUME NEW c, IsSeq(c), NEW x PROVE Quiet(Replicas(c, x))
<1> DEFINE s == Replicas(c, x)
           one(k) == [Ignored(HasChunk(c[k], x)) EXCEPT !.ok = Len(c) - k + 1]
<1>1. Len(c) \in Nat /\ DOMAIN c = 1..Len(c) /\ s = [k \in 1..Len(c) |-> one(k)]
  BY DEF IsSeq, Replicas
<1>2. s = [k \in 1..Len(c) |-> s[k]] /\ \A k \in 1..Len(c) : s[k] = one(k)
  BY <1>1
<1> HIDE DEF s
<1>3. IsSeq(s) /\ Len(s) = Len(c)
  <2> HIDE DEF one
  <2>1. QED
    BY <1>1, <1>2, Listed
<1>4. ASSUME NEW k \in 1..Len(c) PROVE s[k].op = "has"
  <2> DEFINE m == c[k]
             l == Len(c) - k + 1
  <2>1. s[k] = [Ignored(HasChunk(m, x)) EXCEPT !.ok = l]
    BY <1>2
  <2> HIDE DEF m, l
  <2>2. QED
    BY <2>1 DEF Ignored, HasChunk, Step
<1>5. Quiet(s)
  BY <1>3, <1>4 DEF Quiet, Uploading
<1>6. QED
  BY <1>5 DEF s

LEMMA PushsyncChunksVerified == ASSUME Places PROVE \E S : Verified(PushsyncChunks, S, near)
<1> DEFINE S == {<<FullNodeNames[i], x>> : i \in 1..UploadNodeCount, x \in Items}
           head(n, x) == <<UploadChunk(n, x), HasChunk(near[x], x), Overlay(n)>>
           tail(n, x) == Replicas(ClosestNodeFromMap(x, {near[x], n}), x)
           asked(n, x) == head(n, x) \o tail(n, x)
           inner(i) == [j \in 1..PerNode |-> asked(FullNodeNames[i], Item(i, j))]
           body(i) == GetOrCreateMutableBatch(FullNodeNames[i]) \o FlattenSeq(inner(i))
           all == [i \in 1..UploadNodeCount |-> body(i)]
<1>1. PushsyncChunks = FlattenSeq(all)
  BY DEF PushsyncChunks, ForEach
<1>2. ASSUME NEW i \in 1..UploadNodeCount, NEW x \in Items PROVE Verified(head(FullNodeNames[i], x), S, near)
  <2> DEFINE n == FullNodeNames[i]
  <2>1. Sent(UploadChunk(n, x), x, S)
    <3>1. <<n, x>> \in S
      OBVIOUS
    <3> HIDE DEF S, n
    <3>2. QED
      BY <3>1, SentSteps DEF UploadChunk
  <2>2. Confirms(HasChunk(near[x], x), x, S, near)
    BY ClosestIsNode, HasConfirms DEF HasChunk
  <2>3. Overlay(n).op \notin Uploading
    BY DEF Overlay, Retried, Step, Uploading
  <2> HIDE DEF S, n
  <2>4. Verified(<<UploadChunk(n, x), HasChunk(near[x], x), Overlay(n)>>, S, near)
    BY <2>1, <2>2, <2>3, SentConfirmed
  <2>5. QED
    BY <2>4 DEF n
<1>3. \A n, x : Verified(tail(n, x), S, near)
  BY CandidatesListed, ReplicasQuiet, QuietVerified
<1> HIDE DEF head, tail, S
<1>4. ASSUME NEW i \in 1..UploadNodeCount, NEW x \in Items PROVE Verified(asked(FullNodeNames[i], x), S, near)
  BY <1>2, <1>3, VerifiedJoined
<1> HIDE DEF asked
<1>5. ASSUME NEW i \in 1..UploadNodeCount PROVE Verified(body(i), S, near)
  <2>1. inner(i) = [j \in 1..PerNode |-> inner(i)[j]] /\ \A j \in 1..PerNode : Verified(inner(i)[j], S, near)
    BY <1>4, ContentsAreItems
  <2> HIDE DEF inner
  <2>2. QED
    BY <2>1, ContentsVerified, BatchVerified
<1> HIDE DEF body
<1>6. QED
  BY <1>1, <1>5, UploadsVerified

LEMMA LastReplicaQuiet ==
  ASSUME NEW c, IsSeq(c), NEW x
  PROVE  Quiet([Replicas(c, x) EXCEPT ![Len(Replicas(c, x))].no = Fail, ![Len(Replicas(c, x))].err = Fail])
<1> DEFINE s == Replicas(c, x)
           t == [s EXCEPT ![Len(s)].no = Fail, ![Len(s)].err = Fail]
           one(k) == [Ignored(HasChunk(c[k], x)) EXCEPT !.ok = Len(c) - k + 1]
<1>1. Len(c) \in Nat /\ DOMAIN c = 1..Len(c) /\ s = [k \in 1..Len(c) |-> one(k)]
  BY DEF IsSeq, Replicas
<1>2. Len(s) = Len(c)
  BY ReplicasFrugal
<1>3. t = [k \in 1..Len(c) |-> t[k]] /\ \A k \in 1..Len(c) :
          t[k] = IF k = Len(c) THEN [one(k) EXCEPT !.no = Fail, !.err = Fail] ELSE one(k)
  <2> HIDE DEF one
  <2>1. t = [s EXCEPT ![Len(c)].no = Fail, ![Len(c)].err = Fail]
    BY <1>2
  <2> HIDE DEF s
  <2>2. QED
    BY <1>1, <2>1
<1> HIDE DEF t
<1>4. IsSeq(t) /\ Len(t) = Len(c)
  <2>1. Len(c) \in Nat /\ t = [k \in 1..Len(c) |-> t[k]]
    BY <1>1, <1>3
  <2>2. QED
    BY <2>1, Listed
<1>5. ASSUME NEW k \in 1..Len(c) PROVE t[k].op = "has"
  <2> DEFINE m == c[k]
             l == Len(c) - k + 1
             w == [Ignored(HasChunk(m, x)) EXCEPT !.ok = l]
  <2>1. t[k] = w \/ t[k] = [w EXCEPT !.no = Fail, !.err = Fail]
    BY <1>3
  <2> HIDE DEF m, l
  <2>2. QED
    BY <2>1 DEF Ignored, HasChunk, Step
<1>6. Quiet(t)
  BY <1>4, <1>5 DEF Quiet, Uploading
<1>7. QED
  BY <1>6 DEF t

LEMMA PushsyncLightVerified == ASSUME Places PROVE \E S : Verified(PushsyncLight, S, near)
<1> DEFINE S == {<<LightNodeNames[i], x>> : i \in 1..LightUploads, x \in Items}
           cands(x) == ClosestNodeFromMap(x, {near[x]})
           tail(x) == [Replicas(cands(x), x) EXCEPT ![Len(Replicas(cands(x), x))].no = Fail,
                                                    ![Len(Replicas(cands(x), x))].err = Fail]
           head(n, x) == <<Retried(3, UploadChunk(n, x)), Retried(3, HasChunk(near[x], x))>>
           asked(n, x) == head(n, x) \o tail(x)
           inner(i) == [j \in 1..PerNode |-> asked(LightNodeNames[i], Item(i, j))]
           body(i) == GetOrCreateMutableBatch(LightNodeNames[i]) \o FlattenSeq(inner(i))
           first == [i \in DOMAIN LightNodeNames |-> GetOrCreateMutableBatch(LightNodeNames[i])]
           all == [i \in 1..LightUploads |-> body(i)]
<1>1. PushsyncLight = FlattenSeq(first) \o FlattenSeq(all)
  <2> DEFINE loop(n, x) ==
        <<Retried(3, UploadChunk(n, x)), Retried(3, HasChunk(near[x], x))>> \o
        LET replicas == Replicas(ClosestNodeFromMap(x, {near[x]}), x)
        IN  [replicas EXCEPT ![Len(replicas)].no = Fail, ![Len(replicas)].err = Fail]
  <2>1. \A n, x : loop(n, x) = asked(n, x)
    OBVIOUS
  <2>2. PushsyncLight = ForEach(LightNodeNames, GetOrCreateMutableBatch) \o
          ForEach([i \in 1..LightUploads |-> i], LAMBDA i:
            GetOrCreateMutableBatch(LightNodeNames[i]) \o
            ForEach([j \in 1..PerNode |-> Item(i, j)], LAMBDA x: loop(LightNodeNames[i], x)))
    BY DEF PushsyncLight
  <2> HIDE DEF loop, asked
  <2>3. QED
    BY <2>1, <2>2 DEF ForEach
<1>2. ASSUME NEW i \in 1..LightUploads, NEW x \in Items PROVE Verified(head(LightNodeNames[i], x), S, near)
  <2> DEFINE n == LightNodeNames[i]
  <2>1. Sent(Retried(3, UploadChunk(n, x)), x, S)
    <3>1. <<n, x>> \in S
      OBVIOUS
    <3> HIDE DEF S, n
    <3>2. QED
      BY <3>1, SentSteps DEF UploadChunk
  <2>2. Confirms(Retried(3, HasChunk(near[x], x)), x, S, near)
    BY ClosestIsNode, HasConfirms DEF HasChunk
  <2> HIDE DEF S, n
  <2>3. Verified(<<Retried(3, UploadChunk(n, x)), Retried(3, HasChunk(near[x], x))>>, S, near)
    BY <2>1, <2>2, SentConfirmed
  <2>4. QED
    BY <2>3 DEF n
<1>3. ASSUME NEW x PROVE Verified(tail(x), S, near)
  <2>1. IsSeq(cands(x))
    BY CandidatesListed
  <2> HIDE DEF cands
  <2>2. Quiet(tail(x))
    BY <2>1, LastReplicaQuiet
  <2> HIDE DEF tail, S
  <2>3. QED
    BY <2>2, QuietVerified
<1> HIDE DEF head, tail, S
<1>4. ASSUME NEW i \in 1..LightUploads, NEW x \in Items PROVE Verified(asked(LightNodeNames[i], x), S, near)
  BY <1>2, <1>3, VerifiedJoined
<1> HIDE DEF asked
<1>5. ASSUME NEW i \in 1..LightUploads PROVE Verified(body(i), S, near)
  <2>1. \A j \in 1..PerNode : Item(i, j) \in Items
    BY LightUploadsNat, NamesListed, ContentsAreItems
  <2>2. inner(i) = [j \in 1..PerNode |-> inner(i)[j]] /\ \A j \in 1..PerNode : Verified(inner(i)[j], S, near)
    BY <1>4, <2>1
  <2> HIDE DEF inner
  <2>3. QED
    BY <2>2, ContentsVerified, BatchVerified
<1> HIDE DEF body
<1>6. Verified(FlattenSeq(first), S, near)
  BY NamesListed, NamesVerified, BatchQuiet, QuietVerified
<1>7. Verified(FlattenSeq(all), S, near)
  BY <1>5, LightUploadsNat, EachVerified
<1> HIDE DEF first, all
<1>8. QED
  BY <1>1, <1>6, <1>7, VerifiedJoined


\* No two uploading nodes have an item in common.
LEMMA ItemsDiffer ==
  ASSUME NEW i \in Nat \ {0}, NEW k \in Nat \ {0}, NEW j \in 1..PerNode, NEW l \in 1..PerNode,
         Item(i, j) = Item(k, l)
  PROVE  i = k
<1>1. PerNode \in Nat
  BY NamesListed
<1>2. ASSUME NEW a \in Nat \ {0}, NEW b \in Nat \ {0}, a < b PROVE (b - 1) * PerNode >= (a - 1) * PerNode + PerNode
  <2> DEFINE d == b - a
  <2>1. d \in Nat /\ d >= 1 /\ b - 1 = (a - 1) + d
    BY <1>2
  <2> HIDE DEF d
  <2>2. ((a - 1) + d) * PerNode = (a - 1) * PerNode + d * PerNode
    BY <1>1, <2>1
  <2>3. d * PerNode >= PerNode
    BY <1>1, <2>1
  <2>4. (b - 1) * PerNode = (a - 1) * PerNode + d * PerNode
    BY <2>1, <2>2
  <2> DEFINE p == (a - 1) * PerNode
             q == d * PerNode
  <2>5. p \in Int /\ q \in Int
    BY <1>1, <2>1
  <2> HIDE DEF p, q
  <2>6. p + q >= p + PerNode
    BY <1>1, <2>3, <2>5 DEF q
  <2>7. QED
    BY <2>4, <2>6 DEF p, q
<1> DEFINE p == (i - 1) * PerNode
           q == (k - 1) * PerNode
<1>3. p \in Int /\ q \in Int /\ p + j = q + l /\ (i < k => q >= p + PerNode) /\ (k < i => p >= q + PerNode)
  BY <1>1, <1>2 DEF Item
<1> HIDE DEF p, q
<1>4. ~(i < k) /\ ~(k < i)
  BY <1>1, <1>3
<1>5. QED
  BY <1>4

\* the uploads of the nodes of a list
Uploads(names) == {<<names[i], Item(i, j)>> : i \in 1..UploadNodeCount, j \in 1..PerNode}

\* what a node has uploaded, no other one has
LEMMA OwnUploads ==
  ASSUME NEW names, NEW i \in 1..UploadNodeCount, NEW j \in 1..PerNode
  PROVE  <<names[i], Item(i, j)>> \in Uploads(names) /\ \A m : <<m, Item(i, j)>> \in Uploads(names) => m = names[i]
<1>1. ASSUME NEW m, <<m, Item(i, j)>> \in Uploads(names) PROVE m = names[i]
  <2>1. PICK k \in 1..UploadNodeCount, l \in 1..PerNode : <<m, Item(i, j)>> = <<names[k], Item(k, l)>>
    BY <1>1 DEF Uploads
  <2>2. m = names[k] /\ Item(i, j) = Item(k, l)
    BY <2>1
  <2>3. i \in Nat \ {0} /\ k \in Nat \ {0}
    BY NamesListed
  <2>4. i = k
    BY <2>2, <2>3, ItemsDiffer
  <2>5. QED
    BY <2>2, <2>4
<1>2. QED
  BY <1>1 DEF Uploads

\* a loop that begins with what confirms x
LEMMA ReachesLoop ==
  ASSUME NEW K \in Nat \ {0}, NEW parts, parts = [i \in 1..K |-> parts[i]], \A i \in 1..K : IsSeq(parts[i]),
         NEW x, NEW S, NEW pl, Reaches(parts[1], 0, x, S, pl)
  PROVE  Reaches(FlattenSeq(parts), 0, x, S, pl)
<1> DEFINE U == Together(parts)
           A == {s \in Seq(U) : Reaches(s, 0, x, S, pl)}
           P == [k \in 0..K |-> IF k = 0 THEN {<<>>} ELSE A]
<1>0. IsSeq(parts) /\ Len(parts) = K
  BY Listed
<1>1. K \in Nat /\ parts \in [1..K -> Seq(U)]
  BY <1>0, SeqsTogether
<1> HIDE DEF U
<1>2. <<>> \in P[0]
  OBVIOUS
<1>3. ASSUME NEW i \in 1..K, NEW s \in P[i - 1] \cap Seq(U) PROVE s \o parts[i] \in P[i]
  <2>1. s \in Seq(U) /\ parts[i] \in Seq(U) /\ s \o parts[i] \in Seq(U)
    BY <1>1
  <2>2. CASE i = 1
    <3>1. s = <<>> /\ parts[1] \in Seq(U)
      BY <2>1, <2>2
    <3>2. <<>> \o parts[1] = parts[1]
      BY <3>1
    <3>3. s \o parts[i] \in A
      BY <2>2, <3>1, <3>2
    <3>4. QED
      BY <2>2, <3>3
  <2>3. CASE i # 1
    <3>1. i - 1 \in 1..K /\ Reaches(s, 0, x, S, pl)
      BY <2>3
    <3>2. IsSeq(s) /\ IsSeq(parts[i]) /\ 0 \in Nat
      BY <2>1, SeqIsSeq
    <3>3. Reaches(s \o parts[i], 0, x, S, pl)
      BY <3>1, <3>2, ReachesSooner
    <3>4. s \o parts[i] \in A
      BY <2>1, <3>3
    <3>5. QED
      BY <2>3, <3>4
  <2>4. QED
    BY <2>2, <2>3
<1>4. FlattenSeq(parts) \in P[K] \cap Seq(U)
  <2> HIDE DEF P
  <2>1. QED
    BY <1>1, <1>2, <1>3, FlattenIn
<1>5. QED
  BY <1>4

LEMMA RetrievalVerified ==
  ASSUME Places, UploadNodeCount <= Cardinality(Full)
  PROVE  \E S : Verified(Retrieval, S, home)
<1> DEFINE S == Uploads(FullNodeNames)
           up(i) == FullNodeNames[i]
           down(i) == FullNodeNames[(i % Len(FullNodeNames)) + 1]
           asked(i, x) == <<UploadChunk(up(i), x), DownloadChunk(down(i), x)>>
           inner(i) == [j \in 1..PerNode |-> asked(i, Item(i, j))]
           body(i) == GetOrCreateMutableBatch(up(i)) \o FlattenSeq(inner(i))
           all == [i \in 1..UploadNodeCount |-> body(i)]
<1>1. Retrieval = FlattenSeq(all)
  BY DEF Retrieval, ForEach
<1>2. ASSUME NEW i \in 1..UploadNodeCount 
      PROVE  down(i) \in Nodes /\ (down(i) # up(i) \/ \A x \in Items : down(i) = home[x])
  <2> DEFINE L == Len(FullNodeNames)
             k == (i % L) + 1
  <2>1. /\ L = Cardinality(Full) /\ FullNodeNames \in Seq(Full)
        /\ \A a, b \in 1..Cardinality(Full) : FullNodeNames[a] = FullNodeNames[b] => a = b
    BY ClientAssumption, ListOfSet DEF FullNodeNames
  <2>2. L \in Nat /\ i \in 1..L
    BY <2>1, NamesListed, ClientAssumption, FS_CardinalityType
  <2>3. \A a, b \in 1..L : FullNodeNames[a] = FullNodeNames[b] => a = b
    BY <2>1
  <2>4. \A a \in 1..L : FullNodeNames[a] \in Full
    BY <2>1
  <2> HIDE DEF L
  <2>5. k \in 1..L /\ (k # i \/ L = 1)
    <3>1. CASE i = L
      <4>1. i % L = 0
        BY <2>2, <3>1
      <4>2. QED
        BY <2>2, <3>1, <4>1
    <3>2. CASE i < L
      <4>1. i % L = i
        BY <2>2, <3>2
      <4>2. QED
        BY <2>2, <3>2, <4>1
    <3>3. QED
      BY <2>2, <3>1, <3>2
  <2> HIDE DEF k
  <2>6. FullNodeNames[k] \in Full /\ FullNodeNames[k] \in Nodes
    BY <2>4, <2>5 DEF Nodes
  <2>7. CASE k # i
    <3>1. FullNodeNames[k] # FullNodeNames[i]
      BY <2>2, <2>3, <2>5, <2>7
    <3>2. QED
      BY <2>6, <3>1 DEF k, L
  <2>8. CASE L = 1
    <3>1. PICK m : Full = {m}
      BY <2>1, <2>8, ClientAssumption, FS_Singleton
    <3>2. \A x \in Items : home[x] = FullNodeNames[k]
      BY <2>6, <3>1 DEF Places
    <3>3. QED
      BY <2>6, <3>2 DEF k, L
  <2>9. QED
    BY <2>5, <2>7, <2>8
<1>3. ASSUME NEW i \in 1..UploadNodeCount, NEW j \in 1..PerNode PROVE Verified(asked(i, Item(i, j)), S, home)
  <2> DEFINE x == Item(i, j)
  <2>1. x \in Items /\ <<up(i), x>> \in S /\ (down(i) = home[x] \/ <<down(i), x>> \notin S)
    BY <1>2, OwnUploads, ContentsAreItems
  <2>2. down(i) \in Nodes
    BY <1>2
  <2> HIDE DEF S, up, down, x
  <2>3. Sent(UploadChunk(up(i), x), x, S)
    BY <2>1, SentSteps DEF UploadChunk
  <2>4. Confirms(DownloadChunk(down(i), x), x, S, home)
    BY <2>1, <2>2, DownloadConfirms DEF DownloadChunk
  <2>5. Verified(asked(i, x), S, home)
    BY <2>3, <2>4, SentConfirmed
  <2>6. QED
    BY <2>5 DEF x
<1> HIDE DEF asked, S, up, down
<1>4. ASSUME NEW i \in 1..UploadNodeCount PROVE Verified(body(i), S, home)
  <2>1. inner(i) = [j \in 1..PerNode |-> inner(i)[j]] /\ \A j \in 1..PerNode : Verified(inner(i)[j], S, home)
    BY <1>3
  <2> HIDE DEF inner
  <2>2. QED
    BY <2>1, ContentsVerified, BatchVerified
<1> HIDE DEF body
<1>5. QED
  BY <1>1, <1>4, UploadsVerified

LEMMA FileRetrievalVerified ==
  ASSUME NEW pl, pl = [x \in Items |-> Last(NodeNames)]
  PROVE  \E S : Verified(FileRetrieval, S, pl)
<1> DEFINE S == Uploads(NodeNames)
           last == Last(NodeNames)
           asked(n, x) == <<UploadFile(n, x), DownloadFile(last, x)>>
           inner(i) == [j \in 1..PerNode |-> GetOrCreateMutableBatch(NodeNames[i]) \o asked(NodeNames[i], Item(i, j))]
           all == [i \in 1..UploadNodeCount |-> FlattenSeq(inner(i))]
<1>1. FileRetrieval = FlattenSeq(all)
  BY DEF FileRetrieval, ForEach
<1>2. last \in Nodes /\ \A x \in Items : pl[x] = last
  BY LastNode
<1> HIDE DEF last
<1>3. ASSUME NEW i \in 1..UploadNodeCount, NEW j \in 1..PerNode PROVE Verified(asked(NodeNames[i], Item(i, j)), S, pl)
  <2> DEFINE x == Item(i, j)
             n == NodeNames[i]
  <2>1. x \in Items /\ <<n, x>> \in S /\ pl[x] = last
    BY <1>2, OwnUploads, ContentsAreItems
  <2> HIDE DEF S, x, n
  <2>2. Sent(UploadFile(n, x), x, S)
    BY <2>1, SentSteps DEF UploadFile
  <2>3. Confirms(DownloadFile(last, x), x, S, pl)
    BY <1>2, <2>1, DownloadConfirms DEF DownloadFile
  <2>4. Verified(asked(n, x), S, pl)
    BY <2>2, <2>3, SentConfirmed
  <2>5. QED
    BY <2>4 DEF x, n
<1> HIDE DEF asked, S
<1>4. ASSUME NEW i \in 1..UploadNodeCount PROVE Verified(FlattenSeq(inner(i)), S, pl)
  <2>1. inner(i) = [j \in 1..PerNode |-> inner(i)[j]] /\ \A j \in 1..PerNode : Verified(inner(i)[j], S, pl)
    BY <1>3, BatchVerified
  <2> HIDE DEF inner
  <2>2. QED
    BY <2>1, ContentsVerified
<1> HIDE DEF inner
<1>5. QED
  BY <1>1, <1>4, UploadsVerified

LEMMA FileRetrievalFullVerified == ASSUME NEW pl PROVE \E S : Verified(FileRetrievalFull, S, pl)
<1> DEFINE S == Uploads(NodeNames)
           rests(n) == SetToSeq(Nodes \ {n})
           each(n, x) == [c \in DOMAIN rests(n) |-> <<DownloadFile(rests(n)[c], x)>>]
           asked(n, x) == GetOrCreateMutableBatch(n) \o <<UploadFile(n, x)>> \o FlattenSeq(each(n, x))
           inner(i) == [j \in 1..PerNode |-> asked(NodeNames[i], Item(i, j))]
           all == [i \in 1..UploadNodeCount |-> FlattenSeq(inner(i))]
<1>1. FileRetrievalFull = FlattenSeq(all)
  BY DEF FileRetrievalFull, ForEach
<1>2. ASSUME NEW n PROVE /\ IsSeq(rests(n)) /\ Len(rests(n)) \in Nat \ {0}
                         /\ \A c \in 1..Len(rests(n)) : rests(n)[c] \in Nodes /\ rests(n)[c] # n
  <2> DEFINE R == Nodes \ {n}
  <2>1. IsFiniteSet(R)
    BY FS_Subset, NamesListed
  <2>2. R # {}
    BY TopologyAssumption DEF Pair
  <2>3. Cardinality(R) \in Nat /\ Cardinality(R) # 0
    BY <2>1, <2>2, FS_CardinalityType, FS_EmptySet
  <2>4. SetToSeq(R) \in Seq(R) /\ IsSeq(SetToSeq(R)) /\ Len(SetToSeq(R)) = Cardinality(R)
    BY <2>1, ListOfSet
  <2>5. \A c \in 1..Len(SetToSeq(R)) : SetToSeq(R)[c] \in R
    BY <2>4
  <2>6. QED
    BY <2>3, <2>4, <2>5
<1>3. ASSUME NEW i \in 1..UploadNodeCount, NEW j \in 1..PerNode PROVE Verified(asked(NodeNames[i], Item(i, j)), S, pl)
  <2> DEFINE x == Item(i, j)
             n == NodeNames[i]
             K == Len(rests(n))
             downs == each(n, x)
  <2>1. x \in Items /\ <<n, x>> \in S /\ \A c \in 1..K : rests(n)[c] \in Nodes /\ <<rests(n)[c], x>> \notin S
    BY <1>2, OwnUploads, ContentsAreItems
  <2>2. /\ K \in Nat \ {0} /\ DOMAIN rests(n) = 1..K
        /\ downs = [c \in 1..K |-> downs[c]] /\ \A c \in 1..K : downs[c] = <<DownloadFile(rests(n)[c], x)>>
    <3>1. IsSeq(rests(n)) /\ K \in Nat \ {0}
      BY <1>2
    <3> HIDE DEF rests
    <3>2. DOMAIN rests(n) = 1..K
      BY <3>1 DEF IsSeq
    <3>3. QED
      BY <3>1, <3>2
  <2> HIDE DEF S, x, n, K, rests, downs
  <2>3. ASSUME NEW c \in 1..K
        PROVE  IsSeq(downs[c]) /\ Verified(downs[c], S, pl) /\ Reaches(downs[c], 0, x, S, pl)
    <3> DEFINE r == DownloadFile(rests(n)[c], x)
    <3>1. Confirms(r, x, S, pl)
      BY <2>1, DownloadConfirms DEF DownloadFile
    <3> HIDE DEF r
    <3>2. Quiet(<<r>>)
      BY <3>1, QuietTuples DEF Confirms, Uploading
    <3>3. Verified(<<r>>, S, pl) /\ IsSeq(<<r>>) /\ Reaches(<<r>>, 0, x, S, pl)
      BY <3>1, <3>2, QuietVerified, ReachesOne DEF Quiet
    <3>4. QED
      BY <2>2, <3>3, Zenon DEF r
  <2>4. Verified(FlattenSeq(downs), S, pl)
    BY <2>2, <2>3, EachVerified
  <2>5. Reaches(FlattenSeq(downs), 0, x, S, pl)
    BY <2>2, <2>3, ReachesLoop
  <2>6. Sent(UploadFile(n, x), x, S)
    BY <2>1, SentSteps DEF UploadFile
  <2>7. Verified(<<UploadFile(n, x)>> \o FlattenSeq(downs), S, pl)
    BY <2>4, <2>5, <2>6, SentVerified
  <2>8. Verified(GetOrCreateMutableBatch(n) \o (<<UploadFile(n, x)>> \o FlattenSeq(downs)), S, pl)
    BY <2>7, BatchVerified
  <2>9. asked(n, x) = GetOrCreateMutableBatch(n) \o (<<UploadFile(n, x)>> \o FlattenSeq(downs))
    <3>1. IsSeq(GetOrCreateMutableBatch(n)) /\ IsSeq(<<UploadFile(n, x)>>) /\ IsSeq(FlattenSeq(downs))
      BY <2>4, BatchQuiet, One DEF Quiet, Verified
    <3>2. asked(n, x) = GetOrCreateMutableBatch(n) \o <<UploadFile(n, x)>> \o FlattenSeq(downs)
      BY DEF downs
    <3> DEFINE g == GetOrCreateMutableBatch(n)
               u == <<UploadFile(n, x)>>
               f == FlattenSeq(downs)
    <3> HIDE DEF g, u, f
    <3>3. (g \o u) \o f = g \o (u \o f)
      <4>1. IsSeq(g) /\ IsSeq(u) /\ IsSeq(f)
        BY <3>1 DEF g, u, f
      <4>2. QED
        BY <4>1, JoinedAgain, SMTT(60)
    <3>4. QED
      BY <3>2, <3>3, Zenon DEF g, u, f
  <2>10. QED
    BY <2>8, <2>9 DEF x, n
<1> HIDE DEF asked, S
<1>4. ASSUME NEW i \in 1..UploadNodeCount PROVE Verified(FlattenSeq(inner(i)), S, pl)
  <2>1. inner(i) = [j \in 1..PerNode |-> inner(i)[j]] /\ \A j \in 1..PerNode : Verified(inner(i)[j], S, pl)
    BY <1>3
  <2> HIDE DEF inner
  <2>2. QED
    BY <2>1, ContentsVerified
<1> HIDE DEF inner
<1>5. QED
  BY <1>1, <1>4, UploadsVerified


LEMMA PushVerified ==
  ASSUME NEW p, p.op = "push", p.x \in Items, NEW S, NEW pl
  PROVE  Verified(<<p>>, S, pl)
BY One DEF Verified, Uploading

LEMMA RedundancyVerified == ASSUME NEW pl PROVE \E S : Verified(Redundancy, S, pl)
<1> DEFINE S == {}
           push(level) == Direct(UploadChunk(1, level))
           more(level) == <<DownloadBytes(2, level), Step("short", 1, level), Denied(Step("refused", 2, level))>>
           asked(level) == <<Direct(UploadChunk(1, level)), DownloadBytes(2, level),
                             Step("short", 1, level), Denied(Step("refused", 2, level))>>
           all == [level \in 1..Cardinality(Items) |-> GetOrCreateMutableBatch(1) \o asked(level)]
<1>1. Redundancy = FlattenSeq(all)
  BY DEF Redundancy, ForEach
<1>2. ASSUME NEW level \in 1..Cardinality(Items) PROVE Verified(asked(level), S, pl)
  <2>1. push(level).op = "push" /\ push(level).x \in Items
    BY ItemsAssumption DEF Direct, UploadChunk, Step
  <2>2. Quiet(more(level))
    <3>1. /\ DownloadBytes(2, level).op \notin Uploading /\ Step("short", 1, level).op \notin Uploading
          /\ Denied(Step("refused", 2, level)).op \notin Uploading
      BY DEF DownloadBytes, Denied, Step, Uploading
    <3>2. QED
      BY <3>1, QuietTuples
  <2>3. asked(level) = <<push(level)>> \o more(level)
    BY Tuples
  <2> HIDE DEF S, push, more, asked
  <2>4. Verified(<<push(level)>>, S, pl) /\ Verified(more(level), S, pl)
    BY <2>1, <2>2, PushVerified, QuietVerified
  <2>5. Verified(<<push(level)>> \o more(level), S, pl)
    BY <2>4, VerifiedJoined
  <2>6. QED
    BY <2>3, <2>5, Zenon
<1> HIDE DEF asked, S
<1>3. \A i \in 1..Cardinality(Items) : Verified(all[i], S, pl)
  BY <1>2, BatchVerified
<1>4. Cardinality(Items) \in Nat /\ all = [i \in 1..Cardinality(Items) |-> all[i]]
  BY ContentAssumption, FS_CardinalityType
<1> HIDE DEF all
<1>5. QED
  BY <1>1, <1>3, <1>4, EachVerified

\* requests between an upload and what confirms it
LEMMA ReachesPast ==
  ASSUME NEW a, NEW b, NEW c, Steady(a), Steady(b), NEW x, NEW S, NEW pl, Confirms(c, x, S, pl)
  PROVE  /\ Reaches(<<b, c>>, 0, x, S, pl) /\ Reaches(<<a, b, c>>, 0, x, S, pl)
         /\ \A d : Steady(d) => Reaches(<<d, a, b, c>>, 0, x, S, pl)
<1>1. Reaches(<<c>>, 0, x, S, pl) /\ IsSeq(<<c>>) /\ IsSeq(<<b, c>>) /\ IsSeq(<<a, b, c>>)
  BY ReachesOne, One, Two, Three
<1>2. Reaches(<<b, c>>, 0, x, S, pl)
  <2>1. Reaches(<<b>> \o <<c>>, 0, x, S, pl)
    BY <1>1, ReachesNext
  <2>2. <<b, c>> = <<b>> \o <<c>>
    BY Tuples
  <2>3. QED
    BY <2>1, <2>2, Zenon
<1>3. Reaches(<<a, b, c>>, 0, x, S, pl)
  <2>1. Reaches(<<a>> \o <<b, c>>, 0, x, S, pl)
    BY <1>1, <1>2, ReachesNext
  <2>2. <<a, b, c>> = <<a>> \o <<b, c>>
    BY Tuples
  <2>3. QED
    BY <2>1, <2>2, Zenon
<1>4. ASSUME NEW d, Steady(d) PROVE Reaches(<<d, a, b, c>>, 0, x, S, pl)
  <2>1. Reaches(<<d>> \o <<a, b, c>>, 0, x, S, pl)
    BY <1>1, <1>3, <1>4, ReachesNext
  <2>2. <<d, a, b, c>> = <<d>> \o <<a, b, c>>
    BY Tuples
  <2>3. QED
    BY <2>1, <2>2, Zenon
<1>5. QED
  BY <1>2, <1>3, <1>4

LEMMA SentPast ==
  ASSUME NEW u, NEW x, NEW S, NEW pl, Sent(u, x, S), NEW a, NEW b, NEW c, Confirms(c, x, S, pl),
         Steady(a), a.op \notin Uploading, Steady(b), b.op \notin Uploading
  PROVE  Verified(<<u, b, c>>, S, pl) /\ Verified(<<u, a, b, c>>, S, pl)
<1>1. Reaches(<<b, c>>, 0, x, S, pl) /\ Reaches(<<a, b, c>>, 0, x, S, pl)
  BY ReachesPast
<1>2. c.op \notin Uploading
  BY DEF Confirms, Uploading
<1>3. Verified(<<b, c>>, S, pl) /\ Verified(<<a, b, c>>, S, pl)
  BY <1>2, QuietTuples, QuietVerified
<1>4. Verified(<<u>> \o <<b, c>>, S, pl) /\ Verified(<<u>> \o <<a, b, c>>, S, pl)
  BY <1>1, <1>3, SentVerified
<1>5. <<u, b, c>> = <<u>> \o <<b, c>> /\ <<u, a, b, c>> = <<u>> \o <<a, b, c>>
  BY Tuples
<1>6. QED
  BY <1>4, <1>5, Zenon

LEMMA FeedConfirms ==
  ASSUME NEW pl, NEW n \in Nodes, NEW x, NEW y, y = x \/ y = 2, NEW S, <<n, y>> \notin S, NEW k
  PROVE  /\ Confirms(Step("feedfile", n, x), y, S, pl)
         /\ Confirms(Retried(k, Step("feedfile", n, x)), y, S, pl)
BY StepStrict DEF Confirms

LEMMA ConcatAgain ==
  ASSUME NEW x, NEW y, NEW z, IsSeq(x), IsSeq(y), IsSeq(z),
         NEW xy, NEW yz, NEW u, Concat(xy, x, y), Concat(yz, y, z)
  PROVE  IsSeq(xy) /\ IsSeq(yz) /\ (Concat(u, xy, z) <=> Concat(u, x, yz))
<1>1. IsSeq(xy) /\ IsSeq(yz)
  BY Appended
<1>2. (x \o y) \o z = x \o (y \o z)
  BY JoinedAgain
<1>3. QED
  BY <1>1, <1>2, Zenon DEF Concat

Regrouped(f, g, h, k, l) == ((f \o g) \o (h \o k)) \o l = f \o (g \o (h \o (k \o l)))

LEMMA FiveJoined ==
  ASSUME NEW f, NEW g, NEW h, NEW k, NEW l, IsSeq(f), IsSeq(g), IsSeq(h), IsSeq(k), IsSeq(l)
  PROVE  Regrouped(f, g, h, k, l)
<1>1. PICK fg, hk, kl, hkl, ghkl, u, v : 
        /\ Concat(fg, f, g) /\ Concat(hk, h, k) /\ Concat(kl, k, l) /\ Concat(hkl, h, kl)
        /\ Concat(ghkl, g, hkl) /\ Concat(u, f, ghkl) /\ Concat(v, fg, hk)
  BY DEF Concat
<1>2. IsSeq(fg) /\ IsSeq(hk) /\ IsSeq(kl)
  BY <1>1, Appended
<1>3. IsSeq(hkl)
  BY <1>1, <1>2, Appended
<1>4. Concat(hkl, hk, l)
  BY <1>1, ConcatAgain
<1>5. Concat(u, fg, hkl)
  BY <1>1, <1>3, ConcatAgain
<1>6. Concat(u, v, l)
  BY <1>1, <1>2, <1>4, <1>5, ConcatAgain
<1>7. QED
  BY <1>1, <1>6, Zenon DEF Concat, Regrouped

\* The content of the checks of collections and feeds: node 1 uploads, node 2 reads.
FromOne == {<<1, x>> : x \in Items}

LEMMA FirstToSecond ==
  /\ 1 \in Nodes /\ 2 \in Nodes /\ {1, 2, 3, 4} \subseteq Items
  /\ \A x \in Items : <<1, x>> \in FromOne /\ <<2, x>> \notin FromOne
<1>1. Cardinality(Items) \in Nat
  BY ContentAssumption, FS_CardinalityType
<1>2. {1, 2, 3, 4} \subseteq Items
  BY <1>1, ItemsAssumption
<1>3. \A x : <<2, x>> \notin FromOne
  BY DEF FromOne
<1>4. QED
  BY <1>2, <1>3, TopologyAssumption DEF Pair, FromOne

\* The script of a feed: the root manifest, the two versions, and the rest.
LEMMA VersionsVerified ==
  ASSUME NEW pl, NEW u, Sent(u, 2, FromOne), NEW parts, parts = [i \in DOMAIN <<3, 4>> |-> parts[i]],
         Verified(parts[1], FromOne, pl), Verified(parts[2], FromOne, pl),
         NEW e, Verified(e, FromOne, pl), Reaches(parts[1] \o (parts[2] \o e), 0, 2, FromOne, pl)
  PROVE  Verified(GetOrCreateMutableBatch(1) \o <<u>> \o FlattenSeq(parts) \o e, FromOne, pl)
<1> DEFINE S == FromOne
           b == GetOrCreateMutableBatch(1)
           p == parts[1]
           q == parts[2]
           w == <<u>>
<1>1. FlattenSeq(parts) = p \o q
  <2>1. DOMAIN <<3, 4>> = 1..2
    OBVIOUS
  <2>2. parts = [i \in 1..2 |-> parts[i]] /\ IsSeq(parts[1]) /\ IsSeq(parts[2])
    BY <2>1 DEF Verified
  <2>3. QED
    BY <2>2, FlattenTwo
<1>2. IsSeq(b) /\ IsSeq(w) /\ IsSeq(p) /\ IsSeq(q) /\ IsSeq(e)
  BY BatchQuiet, One DEF Quiet, Verified
<1>3. Verified(p, S, pl) /\ Verified(q, S, pl) /\ Reaches(p \o (q \o e), 0, 2, S, pl) /\ Sent(u, 2, S)
  OBVIOUS
<1> HIDE DEF S, p, q
<1>4. Verified(q \o e, S, pl)
  BY <1>3, VerifiedJoined DEF S
<1>5. Verified(p \o (q \o e), S, pl)
  BY <1>3, <1>4, VerifiedJoined
<1>6. Verified(w \o (p \o (q \o e)), S, pl)
  BY <1>3, <1>5, SentVerified
<1>7. Verified(b \o (w \o (p \o (q \o e))), S, pl)
  BY <1>6, BatchVerified
<1> HIDE DEF b, w
<1>8. ((b \o w) \o (p \o q)) \o e = b \o (w \o (p \o (q \o e)))
  <2>1. Regrouped(b, w, p, q, e)
    BY <1>2, FiveJoined
  <2>2. QED
    BY <2>1, Zenon DEF Regrouped
<1>9. QED
  BY <1>1, <1>7, <1>8, Zenon DEF S, b, w

LEMMA WithoutSubDirsVerified == ASSUME NEW pl PROVE Verified(CheckWithoutSubDirs, FromOne, pl)
<1> DEFINE u == UploadCollection(1, 1)
           c == DownloadAndVerify(2, 1)
<1>1. Sent(u, 1, FromOne)
  BY FirstToSecond, SentSteps DEF UploadCollection
<1>2. Confirms(c, 1, FromOne, pl)
  BY FirstToSecond, DownloadConfirms DEF DownloadAndVerify, DownloadManifestFile
<1>3. CheckWithoutSubDirs = GetOrCreateMutableBatch(1) \o <<u, c>>
  BY DEF CheckWithoutSubDirs
<1> HIDE DEF u, c
<1>4. Verified(<<u, c>>, FromOne, pl)
  BY <1>1, <1>2, SentConfirmed
<1>5. QED
  BY <1>3, <1>4, BatchVerified

LEMMA CollectionRequests ==
  ASSUME NEW pl, NEW x \in Items, x \in {3, 4}
  PROVE  /\ Sent(UploadCollection(1, x), x, FromOne) /\ Steady(UploadCollection(1, x))
         /\ Steady(UpdateFeedWithReference(1, x)) /\ UpdateFeedWithReference(1, x).op \notin Uploading
         /\ Steady(UpdateFeedWithRootChunk(1, x)) /\ UpdateFeedWithRootChunk(1, x).op \notin Uploading
         /\ Steady(DownloadChunk(1, x)) /\ DownloadChunk(1, x).op \notin Uploading
         /\ Confirms(VerifyFeed(2, x), x, FromOne, pl) /\ Confirms(VerifyFeed(2, x), 2, FromOne, pl)
<1>1. Sent(UploadCollection(1, x), x, FromOne) /\ Steady(UploadCollection(1, x))
  BY FirstToSecond, SentSteps, StepSteady DEF UploadCollection, Paying
<1>2. /\ Steady(UpdateFeedWithReference(1, x)) /\ Steady(UpdateFeedWithRootChunk(1, x)) /\ Steady(DownloadChunk(1, x))
  BY StepSteady DEF UpdateFeedWithReference, UpdateFeedWithRootChunk, DownloadChunk, Paying
<1>3. /\ UpdateFeedWithReference(1, x).op \notin Uploading /\ UpdateFeedWithRootChunk(1, x).op \notin Uploading
      /\ DownloadChunk(1, x).op \notin Uploading
  BY DEF UpdateFeedWithReference, UpdateFeedWithRootChunk, DownloadChunk, Step, Uploading
<1>4. 2 \in Nodes /\ <<2, x>> \notin FromOne /\ <<2, 2>> \notin FromOne
  BY FirstToSecond
<1>5. Confirms(VerifyFeed(2, x), x, FromOne, pl) /\ Confirms(VerifyFeed(2, x), 2, FromOne, pl)
  BY <1>4, FeedConfirms DEF VerifyFeed
<1>6. QED
  BY <1>1, <1>2, <1>3, <1>5

LEMMA RootSent == Sent(CreateRootFeedManifest(1, 2), 2, FromOne)
BY FirstToSecond, SentSteps DEF CreateRootFeedManifest

LEMMA LastDownload == ASSUME NEW pl PROVE Verified(<<DownloadAndVerify(2, 4)>>, FromOne, pl)
<1>1. DownloadAndVerify(2, 4).op \notin Uploading
  BY DEF DownloadAndVerify, DownloadManifestFile, Retried, Step, Uploading
<1>2. QED
  BY <1>1, QuietTuples, QuietVerified

LEMMA ManifestVerified == ASSUME NEW pl PROVE \E S : Verified(Manifest, S, pl)
<1> DEFINE version(x) == <<UploadCollection(1, x), UpdateFeedWithReference(1, x), VerifyFeed(2, x)>>
           all == [i \in DOMAIN <<3, 4>> |-> version(<<3, 4>>[i])]
           last == <<DownloadAndVerify(2, 4)>>
           u == CreateRootFeedManifest(1, 2)
<1>1. CheckWithSubDirs = GetOrCreateMutableBatch(1) \o <<u>> \o FlattenSeq(all) \o last
  BY DEF CheckWithSubDirs, ForEach
<1>2. 3 \in Items /\ 4 \in Items
  BY FirstToSecond
<1>3. Verified(version(3), FromOne, pl) /\ Verified(version(4), FromOne, pl)
  BY <1>2, CollectionRequests, SentPast
<1>4. Reaches(version(3), 0, 2, FromOne, pl)
  BY <1>2, CollectionRequests, ReachesPast
<1>5. Verified(last, FromOne, pl) /\ Sent(u, 2, FromOne)
  BY LastDownload, RootSent
<1> HIDE DEF version, last, u
<1>6. all = [i \in DOMAIN <<3, 4>> |-> all[i]] /\ all[1] = version(3) /\ all[2] = version(4)
  OBVIOUS
<1> HIDE DEF all
<1>7. Reaches(all[1] \o (all[2] \o last), 0, 2, FromOne, pl)
  <2>1. IsSeq(all[1]) /\ IsSeq(all[2]) /\ IsSeq(last)
    BY <1>3, <1>5, <1>6 DEF Verified
  <2>2. IsSeq(all[2] \o last) /\ 0 \in Nat
    BY <2>1, Joined
  <2>3. QED
    BY <1>4, <1>6, <2>1, <2>2, ReachesSooner
<1>8. Verified(CheckWithSubDirs, FromOne, pl)
  BY <1>1, <1>3, <1>5, <1>6, <1>7, VersionsVerified
<1>9. Verified(Manifest, FromOne, pl)
  BY <1>8, WithoutSubDirsVerified, VerifiedJoined DEF Manifest
<1>10. QED
  BY <1>9

LEMMA ManifestV2Verified == ASSUME NEW pl PROVE \E S : Verified(ManifestV2, S, pl)
<1> DEFINE version(x) == <<UploadCollection(1, x), DownloadChunk(1, x),
                           UpdateFeedWithRootChunk(1, x), VerifyFeed(2, x)>>
           all == [i \in DOMAIN <<3, 4>> |-> version(<<3, 4>>[i])]
           last == <<DownloadAndVerify(2, 4)>>
           u == CreateRootFeedManifest(1, 2)
<1>1. CheckWithSubDirsV2 = GetOrCreateMutableBatch(1) \o <<u>> \o FlattenSeq(all) \o last
  BY DEF CheckWithSubDirsV2, ForEach
<1>2. 3 \in Items /\ 4 \in Items
  BY FirstToSecond
<1>3. Verified(version(3), FromOne, pl) /\ Verified(version(4), FromOne, pl)
  BY <1>2, CollectionRequests, SentPast
<1>4. Reaches(version(3), 0, 2, FromOne, pl)
  BY <1>2, CollectionRequests, ReachesPast
<1>5. Verified(last, FromOne, pl) /\ Sent(u, 2, FromOne)
  BY LastDownload, RootSent
<1> HIDE DEF version, last, u
<1>6. all = [i \in DOMAIN <<3, 4>> |-> all[i]] /\ all[1] = version(3) /\ all[2] = version(4)
  OBVIOUS
<1> HIDE DEF all
<1>7. Reaches(all[1] \o (all[2] \o last), 0, 2, FromOne, pl)
  <2>1. IsSeq(all[1]) /\ IsSeq(all[2]) /\ IsSeq(last)
    BY <1>3, <1>5, <1>6 DEF Verified
  <2>2. IsSeq(all[2] \o last) /\ 0 \in Nat
    BY <2>1, Joined
  <2>3. QED
    BY <1>4, <1>6, <2>1, <2>2, ReachesSooner
<1>8. Verified(CheckWithSubDirsV2, FromOne, pl)
  BY <1>1, <1>3, <1>5, <1>6, <1>7, VersionsVerified
<1>9. Verified(ManifestV2, FromOne, pl)
  BY <1>8, WithoutSubDirsVerified, VerifiedJoined DEF ManifestV2
<1>10. QED
  BY <1>9

\* what is pushed is at the closest node
LEMMA PushThen ==
  ASSUME NEW p, p.op = "push", p.x \in Items, NEW S, NEW pl, NEW a, NEW b,
         a.op \notin Uploading, b.op \notin Uploading
  PROVE  Verified(<<p, b>>, S, pl) /\ Verified(<<p, a, b>>, S, pl)
<1>1. Verified(<<p>>, S, pl)
  BY PushVerified
<1>2. Verified(<<b>>, S, pl) /\ Verified(<<a, b>>, S, pl)
  BY QuietTuples, QuietVerified
<1>3. Verified(<<p>> \o <<b>>, S, pl) /\ Verified(<<p>> \o <<a, b>>, S, pl)
  BY <1>1, <1>2, VerifiedJoined
<1>4. <<p, b>> = <<p>> \o <<b>> /\ <<p, a, b>> = <<p>> \o <<a, b>>
  BY Tuples
<1>5. QED
  BY <1>3, <1>4, Zenon

AllSteady(s) == IsSeq(s) /\ \A k \in 1..Len(s) : Steady(s[k])

LEMMA AllSteadyTuples ==
  ASSUME NEW a, NEW b, NEW c, Steady(a), Steady(b), Steady(c)
  PROVE  AllSteady(<<a>>) /\ AllSteady(<<a, b>>) /\ AllSteady(<<a, b, c>>)
<1>1. AllSteady(<<a>>)
  BY One DEF AllSteady
<1>2. AllSteady(<<a, b>>)
  <2>1. \A i \in 1..2 : i = 1 \/ i = 2
    OBVIOUS
  <2>2. QED
    BY <2>1, Two DEF AllSteady
<1>3. AllSteady(<<a, b, c>>)
  <2>1. \A i \in 1..3 : i = 1 \/ i = 2 \/ i = 3
    OBVIOUS
  <2>2. QED
    BY <2>1, Three DEF AllSteady
<1>4. QED
  BY <1>1, <1>2, <1>3

LEMMA ReachesFarther ==
  ASSUME NEW s, AllSteady(s), NEW t, IsSeq(t), NEW x, NEW S, NEW pl, Reaches(t, 0, x, S, pl)
  PROVE  IsSeq(s \o t) /\ Reaches(s \o t, 0, x, S, pl)
BY ReachesLater, Joined DEF AllSteady

\* the end of a feed's script: the update is found and read through node 2
LEMMA FeedEnd ==
  ASSUME NEW pl, NEW e, e = <<FindFeedUpdate(2, 2), DownloadFileBytes(2, 4)>>
  PROVE  Verified(e, FromOne, pl) /\ Reaches(e, 0, 2, FromOne, pl)
<1> DEFINE a == FindFeedUpdate(2, 2)
           c == DownloadFileBytes(2, 4)
<1>1. Steady(a) /\ a.op \notin Uploading
  BY StepSteady DEF FindFeedUpdate, Paying, Uploading, Step
<1>2. Confirms(c, 2, FromOne, pl)
  <2>1. 2 \in Nodes /\ <<2, 2>> \notin FromOne
    BY FirstToSecond
  <2>2. QED
    BY <2>1, FeedConfirms DEF DownloadFileBytes
<1>3. c.op \notin Uploading
  BY DEF DownloadFileBytes, Step, Uploading
<1> HIDE DEF a, c
<1>4. Verified(<<a, c>>, FromOne, pl)
  BY <1>1, <1>3, QuietTuples, QuietVerified
<1>5. Reaches(<<a, c>>, 0, 2, FromOne, pl)
  BY <1>1, <1>2, ReachesPast
<1>6. QED
  BY <1>4, <1>5 DEF a, c

LEMMA FeedRequests ==
  ASSUME NEW x \in Items
  PROVE  /\ Direct(UploadFile(1, x)).op = "push" /\ Direct(UploadFile(1, x)).x \in Items
         /\ Steady(Direct(UploadFile(1, x)))
         /\ Steady(UpdateFeedWithReference(1, x)) /\ UpdateFeedWithReference(1, x).op \notin Uploading
         /\ Steady(UpdateFeedWithRootChunk(1, x)) /\ UpdateFeedWithRootChunk(1, x).op \notin Uploading
         /\ Steady(DownloadChunk(1, x)) /\ DownloadChunk(1, x).op \notin Uploading
<1>1. Direct(UploadFile(1, x)).op = "push" /\ Direct(UploadFile(1, x)).x \in Items
  BY DEF Direct, UploadFile, Step
<1>2. Steady(Direct(UploadFile(1, x)))
  BY DirectSteady DEF UploadFile
<1>3. /\ Steady(UpdateFeedWithReference(1, x)) /\ Steady(UpdateFeedWithRootChunk(1, x)) /\ Steady(DownloadChunk(1, x))
  BY StepSteady DEF UpdateFeedWithReference, UpdateFeedWithRootChunk, DownloadChunk, Paying
<1>4. /\ UpdateFeedWithReference(1, x).op \notin Uploading /\ UpdateFeedWithRootChunk(1, x).op \notin Uploading
      /\ DownloadChunk(1, x).op \notin Uploading
  BY DEF UpdateFeedWithReference, UpdateFeedWithRootChunk, DownloadChunk, Step, Uploading
<1>5. QED
  BY <1>1, <1>2, <1>3, <1>4

LEMMA FeedVerified == ASSUME NEW pl PROVE \E S : Verified(Feed, S, pl)
<1> DEFINE version(x) == <<Direct(UploadFile(1, x)), UpdateFeedWithReference(1, x)>>
           all == [i \in DOMAIN <<3, 4>> |-> version(<<3, 4>>[i])]
           last == <<FindFeedUpdate(2, 2), DownloadFileBytes(2, 4)>>
           u == CreateRootFeedManifest(1, 2)
<1>1. Feed = GetOrCreateMutableBatch(1) \o <<u>> \o FlattenSeq(all) \o last
  BY DEF Feed, ForEach
<1>2. 3 \in Items /\ 4 \in Items
  BY FirstToSecond
<1>3. Verified(version(3), FromOne, pl) /\ Verified(version(4), FromOne, pl)
  BY <1>2, FeedRequests, PushThen
<1>4. AllSteady(version(3)) /\ AllSteady(version(4))
  BY <1>2, FeedRequests, AllSteadyTuples
<1>5. Verified(last, FromOne, pl) /\ Reaches(last, 0, 2, FromOne, pl) /\ Sent(u, 2, FromOne)
  BY FeedEnd, RootSent
<1> HIDE DEF version, last, u
<1>6. all = [i \in DOMAIN <<3, 4>> |-> all[i]] /\ all[1] = version(3) /\ all[2] = version(4)
  OBVIOUS
<1> HIDE DEF all
<1>7. Reaches(all[1] \o (all[2] \o last), 0, 2, FromOne, pl)
  <2>1. IsSeq(last)
    BY <1>5 DEF Verified
  <2>2. IsSeq(all[2] \o last) /\ Reaches(all[2] \o last, 0, 2, FromOne, pl)
    BY <1>4, <1>5, <1>6, <2>1, ReachesFarther
  <2>3. QED
    BY <1>4, <1>6, <2>2, ReachesFarther
<1>8. Verified(Feed, FromOne, pl)
  BY <1>1, <1>3, <1>5, <1>6, <1>7, VersionsVerified
<1>9. QED
  BY <1>8

LEMMA FeedV2Verified == ASSUME NEW pl PROVE \E S : Verified(FeedV2, S, pl)
<1> DEFINE version(x) == <<Direct(UploadFile(1, x)), DownloadChunk(1, x), UpdateFeedWithRootChunk(1, x)>>
           all == [i \in DOMAIN <<3, 4>> |-> version(<<3, 4>>[i])]
           last == <<FindFeedUpdate(2, 2), DownloadFileBytes(2, 4)>>
           u == CreateRootFeedManifest(1, 2)
<1>1. FeedV2 = GetOrCreateMutableBatch(1) \o <<u>> \o FlattenSeq(all) \o last
  BY DEF FeedV2, ForEach
<1>2. 3 \in Items /\ 4 \in Items
  BY FirstToSecond
<1>3. Verified(version(3), FromOne, pl) /\ Verified(version(4), FromOne, pl)
  BY <1>2, FeedRequests, PushThen
<1>4. AllSteady(version(3)) /\ AllSteady(version(4))
  BY <1>2, FeedRequests, AllSteadyTuples
<1>5. Verified(last, FromOne, pl) /\ Reaches(last, 0, 2, FromOne, pl) /\ Sent(u, 2, FromOne)
  BY FeedEnd, RootSent
<1> HIDE DEF version, last, u
<1>6. all = [i \in DOMAIN <<3, 4>> |-> all[i]] /\ all[1] = version(3) /\ all[2] = version(4)
  OBVIOUS
<1> HIDE DEF all
<1>7. Reaches(all[1] \o (all[2] \o last), 0, 2, FromOne, pl)
  <2>1. IsSeq(last)
    BY <1>5 DEF Verified
  <2>2. IsSeq(all[2] \o last) /\ Reaches(all[2] \o last, 0, 2, FromOne, pl)
    BY <1>4, <1>5, <1>6, <2>1, ReachesFarther
  <2>3. QED
    BY <1>4, <1>6, <2>2, ReachesFarther
<1>8. Verified(FeedV2, FromOne, pl)
  BY <1>1, <1>3, <1>5, <1>6, <1>7, VersionsVerified
<1>9. QED
  BY <1>8


\* the publisher of the act check is a light node, its reader a full one
LEMMA PublisherAndReader ==
  ASSUME OptionsFit("act")
  PROVE  /\ LightNodeNames[1] \in Light /\ FullNodeNames[2] \in Full
         /\ FullNodeNames[2] \in Nodes /\ FullNodeNames[2] # LightNodeNames[1] /\ 1 \in Items
<1>1. LightNodeNames \in Seq(Light) /\ Len(LightNodeNames) = Cardinality(Light)
  BY ClientAssumption, ListOfSet DEF LightNodeNames
<1>2. FullNodeNames \in Seq(Full) /\ Len(FullNodeNames) = Cardinality(Full)
  BY ClientAssumption, ListOfSet DEF FullNodeNames
<1>3. Cardinality(Light) # 0 /\ Cardinality(Light) \in Nat /\ Cardinality(Full) \in Nat
  BY ClientAssumption, FS_EmptySet, FS_CardinalityType DEF OptionsFit
<1>4. 1 \in 1..Len(LightNodeNames) /\ 2 \in 1..Len(FullNodeNames)
  BY <1>1, <1>2, <1>3 DEF OptionsFit
<1>5. LightNodeNames[1] \in Light /\ FullNodeNames[2] \in Full
  BY <1>1, <1>2, <1>4
<1>6. 1 \in Items
  BY FirstToSecond
<1>7. QED
  BY <1>5, <1>6, ClientAssumption DEF Nodes

LEMMA GrantVerified ==
  ASSUME OptionsFit("act"), NEW S, <<FullNodeNames[2], 1>> \notin S, NEW pl
  PROVE  Quiet(ActGrant) /\ Reaches(ActGrant, 0, 1, S, pl)
<1> DEFINE up == LightNodeNames[1]
           one == FullNodeNames[1]
           two == FullNodeNames[2]
           three == FullNodeNames[3]
           g == ActGrant
<1>1. g = <<AddActGrantees(up, {two, three}), GetActGrantees(up, 2),
        DownloadActFile(up, up, 2), DownloadActFile(two, up, 2),
        PatchActGrantees(up, {one}, {two, three}), GetActGrantees(up, 1),
        Denied(DownloadActFile(two, up, 3))>>
  BY DEF ActGrant
<1>2. IsSeq(g) /\ Len(g) = 7
  BY <1>1 DEF IsSeq
<1>3. \A i \in 1..7 : i = 1 \/ i = 2 \/ i = 3 \/ i = 4 \/ i = 5 \/ i = 6 \/ i = 7
  OBVIOUS
<1>4. Steady(g[1]) /\ Steady(g[2]) /\ Steady(g[3])
  BY <1>1, StepSteady DEF AddActGrantees, GetActGrantees, DownloadActFile, Paying
<1>5. /\ g[1].op = "grant" /\ g[2].op = "grantees" /\ g[3].op = "actfile" /\ g[4].op = "actfile"
      /\ g[5].op = "grant" /\ g[6].op = "grantees" /\ g[7].op = "actfile"
  BY <1>1 DEF AddActGrantees, GetActGrantees, DownloadActFile, PatchActGrantees, Denied, Step
<1>6. Confirms(g[4], 1, S, pl)
  <2>1. PICK x : x = <<up, 2>>
    OBVIOUS
  <2>2. g[4] = Step("actfile", two, x)
    BY <1>1, <2>1 DEF DownloadActFile
  <2>3. Strict(g[4]) /\ g[4].op = "actfile" /\ g[4].n = two
    BY <2>2, StepStrict
  <2>4. QED
    BY <2>3, PublisherAndReader DEF Confirms
<1> HIDE DEF g
<1>7. Quiet(g)
  BY <1>2, <1>3, <1>5 DEF Quiet, Uploading
<1>8. Reaches(g, 0, 1, S, pl)
  <2>1. 4 \in (0 + 1)..Len(g) /\ \A k \in (0 + 1)..(4 - 1) : k = 1 \/ k = 2 \/ k = 3
    BY <1>2
  <2>2. QED
    BY <1>4, <1>6, <2>1 DEF Reaches
<1>9. QED
  BY <1>7, <1>8 DEF g

LEMMA ActVerified == ASSUME OptionsFit("act"), NEW pl PROVE \E S : Verified(Act, S, pl)
<1> DEFINE up == LightNodeNames[1]
           one == FullNodeNames[1]
           names == <<up>> \o SubSeq(FullNodeNames, 1, 3)
           keys == [i \in DOMAIN names |-> <<Ignored(Addresses(names[i]))>>]
           u == UploadActFile(up, 1)
           a == DownloadActFile(up, up, 1)
           d == Denied(DownloadActFile(up, one, 1))
           batch == GetOrCreateMutableBatch(up)
           S == {<<up, 1>>}
           f == FlattenSeq(keys)
           w == <<u>>
           r == <<a, d>>
           g == ActGrant
<1>1. Act = ((f \o batch) \o <<u, a, d>>) \o g
  BY DEF Act, ActUpload, ForEach
<1>2. Verified(f, S, pl)
  <2>1. IsSeq(names)
    <3>1. IsSeq(SubSeq(FullNodeNames, 1, 3))
      BY DEF IsSeq
    <3>2. QED
      BY <3>1, One, Joined
  <2>2. ASSUME NEW i \in DOMAIN names PROVE Verified(keys[i], S, pl)
    <3>1. Ignored(Addresses(names[i])).op \notin Uploading
      BY DEF Addresses, Ignored, Step, Uploading
    <3>2. Quiet(<<Ignored(Addresses(names[i]))>>)
      BY <3>1, QuietTuples
    <3>3. QED
      BY <3>2, QuietVerified
  <2>3. keys = [i \in DOMAIN names |-> keys[i]]
    OBVIOUS
  <2> HIDE DEF names, keys
  <2>4. QED
    BY <2>1, <2>2, <2>3, NamesVerified
<1>3. Sent(u, 1, S)
  <2>1. 1 \in Items /\ <<up, 1>> \in S
    BY PublisherAndReader
  <2>2. QED
    BY <2>1, SentSteps DEF UploadActFile
<1>4. Steady(a) /\ Steady(d) /\ a.op \notin Uploading /\ d.op \notin Uploading
  BY StepSteady DEF DownloadActFile, Denied, Step, Paying, Uploading
<1>5. <<FullNodeNames[2], 1>> \notin S
  BY PublisherAndReader
<1> HIDE DEF S, f, u, a, d
<1>6. Verified(g, S, pl) /\ Reaches(g, 0, 1, S, pl) /\ IsSeq(g)
  BY <1>5, GrantVerified, QuietVerified DEF Quiet
<1>7. Verified(r, S, pl) /\ AllSteady(r)
  BY <1>4, QuietTuples, QuietVerified, AllSteadyTuples
<1>8. <<u, a, d>> = w \o r
  BY Tuples
<1>9. IsSeq(f) /\ IsSeq(batch) /\ IsSeq(w) /\ IsSeq(r) /\ IsSeq(g)
  BY <1>2, <1>6, <1>7, BatchQuiet, One DEF Quiet, Verified
<1> HIDE DEF r, g
<1>10. Verified(r \o g, S, pl) /\ Reaches(r \o g, 0, 1, S, pl)
  BY <1>6, <1>7, VerifiedJoined, ReachesFarther
<1>11. Verified(w \o (r \o g), S, pl)
  BY <1>3, <1>10, SentVerified
<1>12. Verified(batch \o (w \o (r \o g)), S, pl)
  BY <1>11, BatchVerified
<1> HIDE DEF w, batch
<1>13. Verified(f \o (batch \o (w \o (r \o g))), S, pl)
  BY <1>2, <1>12, VerifiedJoined
<1>14. Regrouped(f, batch, w, r, g)
  BY <1>9, FiveJoined
<1>15. Verified(Act, S, pl)
  BY <1>1, <1>8, <1>13, <1>14, Zenon DEF Regrouped
<1>16. QED
  BY <1>15

Verifiable(s) == \E S : Verified(s, S, Trusted)

\* Every upload of these checks is confirmed.
LEMMA ScriptVerified ==
  ASSUME Places, OptionsFit(check), check \in ThroughTheNetwork
  PROVE  Verifiable(Script(check))
<1>1. check \in ContentCheckNames
  BY DEF ThroughTheNetwork, ContentCheckNames
<1>2. Script(check) = ContentScript(check)
  BY <1>1 DEF Script, ContentCheckNames, AccountingCheckNames, TopologyCheckNames
<1>3. CASE check \in {"pushsync", "chunks", "light"}
  <2>1. Trusted = near
    BY <1>3 DEF Trusted
  <2>2. Verifiable(Pushsync) /\ Verifiable(PushsyncChunks) /\ Verifiable(PushsyncLight)
    BY <2>1, PushsyncVerified, PushsyncChunksVerified, PushsyncLightVerified DEF Verifiable
  <2>3. QED
    BY <1>2, <1>3, <2>2 DEF ContentScript
<1>4. CASE check = "fileretrieval"
  <2>1. Trusted = [x \in Items |-> Last(NodeNames)]
    BY <1>4 DEF Trusted
  <2>2. Verifiable(FileRetrieval)
    BY <2>1, FileRetrievalVerified DEF Verifiable
  <2>3. QED
    BY <1>2, <1>4, <2>2 DEF ContentScript
<1>5. CASE check = "retrieval"
  <2>1. Trusted = home
    BY <1>5 DEF Trusted
  <2>2. UploadNodeCount <= Cardinality(Full)
    BY <1>5 DEF OptionsFit
  <2>3. Verifiable(Retrieval)
    BY <2>1, <2>2, RetrievalVerified DEF Verifiable
  <2>4. QED
    BY <1>2, <1>5, <2>3 DEF ContentScript
<1>6. CASE check = "act"
  <2>1. OptionsFit("act")
    BY <1>6
  <2>2. Verifiable(Act)
    BY <2>1, ActVerified DEF Verifiable
  <2>3. QED
    BY <1>2, <1>6, <2>2 DEF ContentScript
<1>7. CASE check \in {"full", "redundancy", "feed", "feed2", "manifest", "manifest2"}
  <2>1. /\ Verifiable(FileRetrievalFull) /\ Verifiable(Redundancy) /\ Verifiable(Feed) /\ Verifiable(FeedV2)
        /\ Verifiable(Manifest) /\ Verifiable(ManifestV2)
    BY FileRetrievalFullVerified, RedundancyVerified, FeedVerified, FeedV2Verified, ManifestVerified,
       ManifestV2Verified DEF Verifiable
  <2>2. QED
    BY <1>2, <1>7, <2>1 DEF ContentScript
<1>8. QED
  BY <1>3, <1>4, <1>5, <1>6, <1>7 DEF ThroughTheNetwork

-----------------------------------------------------------------------------
(* The checks of content: what they have uploaded.                          *)

Held(x) == x \in stored[home[x]] \cup stored[Trusted[x]]

\* a request that confirms x is still to come, and no answer leads past it
Pending(x, S) == \E r : Confirms(r, x, S, Trusted) /\ Awaits(todo, r, {}, {})

\* a node has an item from its home, or because it took an upload
Placed(S) == \A m \in Nodes, x \in Items : x \in stored[m] => Held(x) \/ <<m, x>> \in S

StoredBy(S) ==
  /\ Verified(todo, S, Trusted) /\ Placed(S)
  /\ verdict \in {"none", "pass"} => \A x \in posted : Held(x) \/ Pending(x, S)

StoredInv ==
  check \in ThroughTheNetwork =>
    /\ Places /\ OptionsFit(check) /\ stored \in [Nodes -> SUBSET Items] /\ posted \subseteq Items
    /\ \E S : StoredBy(S)

StoreInv == PaysInv /\ StoredInv

LEMMA ReachesRest ==
  ASSUME NEW s, NEW t, IsSeq(s), NEW d \in 1..Len(s), Len(t) = Len(s) - d,
         \A k \in 1..Len(t) : t[k] = s[d + k],
         NEW i \in Nat, NEW x, NEW S, NEW pl, Reaches(s, d + i, x, S, pl)
  PROVE  Reaches(t, i, x, S, pl)
<1>1. PICK j \in (d + i + 1)..Len(s) :
        Confirms(s[j], x, S, pl) /\ \A k \in (d + i + 1)..(j - 1) : Steady(s[k])
  BY DEF Reaches
<1> DEFINE m == j - d
<1>2. Len(s) \in Nat
  BY DEF IsSeq
<1>3. m \in (i + 1)..Len(t) /\ m \in 1..Len(t) /\ d + m = j
  BY <1>2
<1>4. t[m] = s[j]
  <2>1. t[m] = s[d + m]
    BY <1>3
  <2>2. QED
    BY <1>3, <2>1
<1>5. ASSUME NEW k \in (i + 1)..(m - 1) PROVE Steady(t[k])
  <2>1. k \in 1..Len(t) /\ d + k \in (d + i + 1)..(j - 1)
    BY <1>2, <1>3, SMTT(60)
  <2>2. QED
    BY <1>1, <2>1
<1> HIDE DEF m
<1>6. QED
  BY <1>1, <1>3, <1>4, <1>5 DEF Reaches

LEMMA VerifiedOn ==
  ASSUME IsSeq(todo), todo # <<>>, Sound(Head(todo)), NEW a \in Answers, Answer(a),
         NEW S, NEW pl, Verified(todo, S, pl)
  PROVE  Verified(todo', S, pl)
<1>1. CASE TriesAgain(a)
  BY <1>1 DEF TriesAgain
<1>2. CASE Ends
  BY <1>2, Nil DEF Ends, Verified
<1>3. CASE Chosen(a) \in 1..(Len(todo) - 1) /\ GoesOn(Chosen(a))
  <2> DEFINE d == Chosen(a)
             t == todo'
  <2>1. d \in 1..(Len(todo) - 1) /\ IsSeq(t) /\ Len(t) = Len(todo) - d /\ \A i \in 1..(Len(todo) - d) : t[i] = todo[d + i]
    BY <1>3 DEF GoesOn
  <2>2. Len(todo) \in Nat
    BY DEF IsSeq
  <2> HIDE DEF d, t
  <2>3. d \in 1..Len(todo) /\ \A k \in 1..Len(t) : t[k] = todo[d + k]
    BY <2>1, <2>2
  <2>4. ASSUME NEW i \in 1..Len(t), t[i].op \in Uploading
        PROVE  /\ t[i].x \in Items
               /\ t[i].op = "upload" => t[i].ok = 1 /\ <<t[i].n, t[i].x>> \in S /\ Reaches(t, i, t[i].x, S, pl)
    <3>1. d + i \in 1..Len(todo) /\ t[i] = todo[d + i] /\ i \in Nat
      BY <2>1, <2>2, <2>3
    <3>2. /\ t[i].x \in Items
          /\ t[i].op = "upload" => t[i].ok = 1 /\ <<t[i].n, t[i].x>> \in S /\ Reaches(todo, d + i, t[i].x, S, pl)
      BY <2>4, <3>1 DEF Verified
    <3>3. Reaches(todo, d + i, t[i].x, S, pl) => Reaches(t, i, t[i].x, S, pl)
      BY <2>1, <2>3, <3>1, ReachesRest
    <3>4. QED
      BY <3>2, <3>3
  <2>5. Verified(t, S, pl)
    BY <2>1, <2>4 DEF Verified, Uploading
  <2>6. QED
    BY <2>5 DEF t
<1>4. QED
  BY <1>1, <1>2, <1>3, Answered

LEMMA ReachesAwaits ==
  ASSUME NEW s, IsSeq(s), NEW x, NEW S, NEW pl, Reaches(s, 0, x, S, pl)
  PROVE  \E r : Confirms(r, x, S, pl) /\ Awaits(s, r, {}, {})
<1>1. PICK j \in (0 + 1)..Len(s) : Confirms(s[j], x, S, pl) /\ \A k \in (0 + 1)..(j - 1) : Steady(s[k])
  BY DEF Reaches
<1>2. j \in 1..Len(s) /\ j \in Nat /\ \A k \in 1..(j - 1) : Steady(s[k])
  BY <1>1
<1>3. Unskipped(s, j, {})
  BY <1>2, SteadyUnskipped
<1>4. Awaits(s, s[j], {}, {})
  BY <1>2, <1>3 DEF Awaits
<1>5. QED
  BY <1>1, <1>4

\* an upload that was answered leads to what confirms it
LEMMA UploadedPending ==
  ASSUME IsSeq(todo), todo # <<>>, Sound(Head(todo)), Answer("ok"), Trusted' = Trusted,
         NEW S, Verified(todo, S, Trusted), Head(todo).op = "upload", verdict' \in {"none", "pass"},
         NEW x, x = Head(todo).x
  PROVE  Pending(x, S)'
<1>1. Head(todo) = todo[1] /\ Len(todo) \in Nat \ {0}
  BY HeadIsFirst
<1>2. Head(todo).ok = 1 /\ Reaches(todo, 1, x, S, Trusted)
  <2>1. 1 \in 1..Len(todo) /\ todo[1].op = "upload"
    BY <1>1
  <2>2. todo[1].ok = 1 /\ Reaches(todo, 1, todo[1].x, S, Trusted)
    BY <2>1 DEF Verified
  <2>3. QED
    BY <1>1, <2>2
<1>3. Chosen("ok") = 1 /\ ~TriesAgain("ok") /\ "ok" \in Answers
  <2>1. Head(todo)["ok"] = 1
    BY <1>2
  <2>2. QED
    BY <2>1 DEF Chosen, TriesAgain, Retry, Answers
<1>4. Len(todo) > 1
  <2>1. PICK j \in (1 + 1)..Len(todo) : TRUE
    BY <1>2 DEF Reaches
  <2>2. QED
    BY <1>1, <2>1
<1>5. GoesOn(1)
  <2>1. ~(Len(todo) <= 1)
    BY <1>1, <1>4
  <2>2. verdict' # "fail"
    OBVIOUS
  <2>3. \/ TriesAgain("ok")
        \/ Ends /\ (verdict' = "pass" => Chosen("ok") \in Nat /\ Len(todo) <= Chosen("ok"))
        \/ Chosen("ok") \in 1..(Len(todo) - 1) /\ GoesOn(Chosen("ok"))
    BY <1>3, Answered
  <2>4. QED
    BY <1>3, <2>1, <2>2, <2>3 DEF Ends
<1> DEFINE t == todo'
<1>6. IsSeq(t) /\ Len(t) = Len(todo) - 1 /\ \A i \in 1..(Len(todo) - 1) : t[i] = todo[1 + i]
  BY <1>5 DEF GoesOn
<1> HIDE DEF t
<1>7. PICK d \in 1..Len(todo), i \in Nat : d = 1 /\ i = 0
  BY <1>1
<1>8. d + i = 1 /\ Len(t) = Len(todo) - d /\ \A k \in 1..Len(t) : t[k] = todo[d + k]
  BY <1>6, <1>7
<1>9. Reaches(t, i, x, S, Trusted)
  <2>1. Reaches(todo, d + i, x, S, Trusted)
    BY <1>2, <1>8
  <2>2. QED
    BY <1>8, <2>1, ReachesRest
<1>10. \E r : Confirms(r, x, S, Trusted) /\ Awaits(t, r, {}, {})
  <2>1. Reaches(t, 0, x, S, Trusted)
    BY <1>7, <1>9
  <2>2. QED
    BY <1>6, <2>1, ReachesAwaits
<1>11. \A y : Pending(y, S)' <=> \E r : Confirms(r, y, S, Trusted') /\ Awaits(t, r, {}, {})
  BY DEF Pending, t
<1>12. QED
  BY <1>10, <1>11


\* only what is at its home, or at the node that is trusted, is confirmed
LEMMA ConfirmedHeld ==
  ASSUME NEW S, Placed(S), NEW x \in Items, NEW r, Confirms(r, x, S, Trusted), Head(todo) = r, Fits("ok")
  PROVE  Held(x)
<1>1. r.n \in Nodes /\ (r.n = Trusted[x] \/ <<r.n, x>> \notin S)
  BY DEF Confirms
<1>2. Served(r.n, x)
  <2>1. CASE r.op \in {"has", "download"} /\ r.x = x
    BY <2>1 DEF Fits
  <2>2. CASE r.op = "feedfile" /\ (x = 2 \/ r.x = x)
    BY <2>2 DEF Fits
  <2>3. CASE r.op = "actfile" /\ x = 1
    BY <2>3 DEF Fits
  <2>4. QED
    BY <2>1, <2>2, <2>3 DEF Confirms
<1>3. x \in stored[r.n] \/ x \in stored[home[x]]
  BY <1>2 DEF Served
<1>4. QED
  BY <1>1, <1>3 DEF Placed, Held

\* what is pending stays so, or is found where it belongs
LEMMA PendingOn ==
  ASSUME IsSeq(todo), todo # <<>>, Sound(Head(todo)), NEW a \in Answers, Answer(a), Fits(a), Trusted' = Trusted,
         NEW S, Placed(S), NEW x \in Items, Pending(x, S), verdict' \in {"none", "pass"}
  PROVE  Held(x) \/ Pending(x, S)'
<1>1. PICK r : Confirms(r, x, S, Trusted) /\ Awaits(todo, r, {}, {})
  BY DEF Pending
<1> DEFINE E == {}
<1>2. <<Head(todo).op, a>> \notin E
  OBVIOUS
<1>3. Awaits(todo, r, E, E)
  BY <1>1
<1>4. Awaits(todo', r, {}, {}) <=> Awaits(todo', r, E, E)
  OBVIOUS
<1> HIDE DEF E
<1>5. Awaits(todo', r, E, E) \/ (Head(todo) = r /\ Takes(r, a) \in Nat)
  BY <1>2, <1>3, AwaitsOn
<1>6. CASE Awaits(todo', r, E, E)
  <2>1. Confirms(r, x, S, Trusted')
    BY <1>1
  <2>2. QED
    BY <1>4, <1>6, <2>1 DEF Pending
<1>7. CASE Head(todo) = r /\ Takes(r, a) \in Nat
  <2>1. a = "ok"
    BY <1>1, <1>7 DEF Confirms, Strict
  <2>2. Fits("ok")
    BY <2>1
  <2>3. QED
    BY <1>1, <1>7, <2>2, ConfirmedHeld
<1>8. QED
  BY <1>5, <1>6, <1>7

LEMMA OnlyUploads == ASSUME Request PROVE Upload \/ Push \/ UNCHANGED <<stored, posted>>
<1>1. CASE BatchStep /\ UNCHANGED <<content, accounts, topology>>
  BY <1>1 DEF content
<1>2. CASE ContentStep
  BY <1>2 DEF ContentStep, Has, Download, GlobalReplicationFactor, GiveUp, UploadShort,
       DownloadShort, UpdateFeed, FindFeed, FeedFile, Grant, Grantees, ActFile, Reserve, UploadBulk, Count, Unpin, content
<1>3. CASE AccountingStep
  BY <1>3 DEF AccountingStep, Account, SettlementsRead, BalancesValid, SettlementsValid, Happened, Panics, Uncashed, CashoutTx, Confirmed, Paid,
       Session, Running, StakeIs, Deposit, Migrate, Pause, WaitMined, Wallet, WithdrawTx, Spent, others
<1>4. CASE TopologyStep
  BY <1>4 DEF TopologyStep, ReadPeers, Judge, Underlay, Format, VerifyDNSResolution, VerifyNodeTLSCert,
       ConnectPeer, Snapshot, Compare, rest, others
<1>5. QED
  BY <1>1, <1>2, <1>3, <1>4 DEF Request

\* an item arrives at a node that took its upload, or at its home
LEMMA StoredGrows ==
  ASSUME IsSeq(todo), todo # <<>>, Places, stored \in [Nodes -> SUBSET Items], posted \subseteq Items,
         NEW S, Verified(todo, S, Trusted), Request
  PROVE  /\ stored' \in [Nodes -> SUBSET Items] /\ posted' \subseteq Items
         /\ \A m \in Nodes : stored[m] \subseteq stored'[m]
         /\ \A m \in Nodes, x \in Items : x \in stored'[m] => x \in stored[m] \/ <<m, x>> \in S \/ m = home[x]
         /\ \A x \in posted' : \/ x \in posted \/ x \in stored'[home[x]]
                               \/ Head(todo).op = "upload" /\ x = Head(todo).x /\ Answer("ok")
<1> DEFINE n == Head(todo).n
           y == Head(todo).x
<1>1. Head(todo) = todo[1] /\ 1 \in 1..Len(todo)
  BY HeadIsFirst
<1>2. CASE UNCHANGED <<stored, posted>>
  BY <1>2
<1>3. CASE Upload
  <2>1. Head(todo).op = "upload"
    BY <1>3 DEF Upload, At
  <2>2. y \in Items /\ <<n, y>> \in S
    BY <1>1, <2>1 DEF Verified, Uploading
  <2>3. /\ stored' = stored \/ stored' = [stored EXCEPT ![n] = stored[n] \cup {y}]
        /\ posted' = posted \/ (posted' = posted \cup {y} /\ Answer("ok"))
    BY <1>3 DEF Upload, Reply
  <2> HIDE DEF n, y
  <2>4. QED
    BY <2>1, <2>2, <2>3 DEF y
<1>4. CASE Push
  <2>1. Head(todo).op = "push"
    BY <1>4 DEF Push, At
  <2>2. y \in Items
    BY <1>1, <2>1 DEF Verified, Uploading
  <2>3. \/ UNCHANGED <<stored, posted>>
        \/ stored' = [stored EXCEPT ![home[y]] = stored[home[y]] \cup {y}] /\ posted' = posted \cup {y}
    BY <1>4 DEF Push
  <2> HIDE DEF n, y
  <2>4. home[y] \in Nodes
    BY <2>2, ClosestIsNode
  <2>5. QED
    BY <1>2, <2>2, <2>3, <2>4
<1>5. QED
  BY <1>2, <1>3, <1>4, OnlyUploads

LEMMA StoreRequest == ASSUME StoreInv, check \in ThroughTheNetwork, Request PROVE StoredInv'
<1>1. /\ IsSeq(todo) /\ todo # <<>> /\ Sound(Head(todo)) /\ verdict = "none" /\ UNCHANGED <<check, near, home>>
      /\ (\E a \in Answers : Answer(a) /\ Fits(a)) \/ (todo' = <<>> /\ verdict' = "panic")
  <2>1. check \notin Purchasing
    BY DEF ThroughTheNetwork, Purchasing
  <2>2. todo # <<>> /\ UNCHANGED <<check, near, home>> /\ Walk(todo) /\ verdict = "none"
    BY <2>1, RequestAsks DEF StoreInv, PaysInv, Run
  <2>3. IsSeq(todo) /\ Head(todo) = todo[1] /\ Len(todo) \in Nat \ {0}
    BY <2>2, HeadIsFirst DEF Walk
  <2>4. Sound(Head(todo))
    BY <2>2, <2>3 DEF Walk
  <2>5. QED
    BY <2>2, <2>3, <2>4, AnswersFit
<1>2. Places /\ OptionsFit(check) /\ stored \in [Nodes -> SUBSET Items] /\ posted \subseteq Items
  BY DEF StoreInv, StoredInv
<1>0. Trusted' = Trusted /\ Places' /\ OptionsFit(check)'
  BY <1>1, <1>2 DEF Trusted, Places, OptionsFit
<1>3. PICK S : StoredBy(S)
  BY DEF StoreInv, StoredInv
<1>4. Verified(todo, S, Trusted) /\ Placed(S) /\ \A x \in posted : Held(x) \/ Pending(x, S)
  BY <1>1, <1>3 DEF StoredBy
<1>5. /\ stored' \in [Nodes -> SUBSET Items] /\ posted' \subseteq Items
      /\ \A m \in Nodes : stored[m] \subseteq stored'[m]
      /\ \A m \in Nodes, x \in Items : x \in stored'[m] => x \in stored[m] \/ <<m, x>> \in S \/ m = home[x]
      /\ \A x \in posted' : \/ x \in posted \/ x \in stored'[home[x]]
                            \/ Head(todo).op = "upload" /\ x = Head(todo).x /\ Answer("ok")
  BY <1>1, <1>2, <1>4, StoredGrows
<1>6. \A x \in Items : (Held(x)' <=> x \in stored'[home[x]] \cup stored'[Trusted[x]]) /\ (Held(x) => Held(x)')
  <2>1. \A x \in Items : home[x] \in Nodes /\ Trusted[x] \in Nodes
    BY <1>2, ClosestIsNode
  <2>2. QED
    BY <1>0, <1>1, <1>5, <2>1 DEF Held
<1>7. Placed(S)'
  BY <1>4, <1>5, <1>6 DEF Placed
<1>8. SUFFICES StoredBy(S)'
  BY <1>0, <1>1, <1>2, <1>5 DEF StoredInv
<1>9. CASE todo' = <<>> /\ verdict' = "panic"
  <2>1. Verified(todo', S, Trusted')
    BY <1>9, Nil DEF Verified
  <2>2. QED
    BY <1>7, <1>9, <2>1 DEF StoredBy
<1>10. ASSUME NEW a \in Answers, Answer(a), Fits(a) PROVE StoredBy(S)'
  <2>1. Verified(todo', S, Trusted')
    BY <1>0, <1>1, <1>4, <1>10, VerifiedOn
  <2>2. ASSUME verdict' \in {"none", "pass"}, NEW x \in posted' PROVE Held(x)' \/ Pending(x, S)'
    <3>1. x \in Items
      BY <1>5
    <3>2. CASE x \in posted
      <4>1. Held(x) \/ Pending(x, S)
        BY <1>4, <3>2
      <4>2. CASE Pending(x, S)
        <5>1. Held(x) \/ Pending(x, S)'
          BY <1>0, <1>1, <1>4, <1>10, <2>2, <3>1, <4>2, PendingOn
        <5>2. QED
          BY <1>6, <3>1, <5>1
      <4>3. QED
        BY <1>6, <3>1, <4>1, <4>2
    <3>3. CASE Head(todo).op = "upload" /\ x = Head(todo).x /\ Answer("ok")
      BY <1>0, <1>1, <1>4, <2>2, <3>3, UploadedPending
    <3>4. QED
      BY <1>5, <1>6, <3>1, <3>2, <3>3
  <2>3. QED
    BY <1>7, <2>1, <2>2 DEF StoredBy
<1>11. QED
  BY <1>1, <1>9, <1>10


\* The cluster's own steps: items arrive at their home, and from there.
LEMMA StoredSteps ==
  ASSUME Settle \/ Disturb \/ UNCHANGED vars
  PROVE  /\ UNCHANGED <<check, todo, verdict, near, home, posted>>
         /\ stored' = stored \/ \E x \in Items : Sync(x) \/ \E m \in Full : Replicate(x, m)
<1>1. UNCHANGED <<check, todo, verdict>>
  BY ClusterSteps DEF script
<1>2. CASE UNCHANGED content
  BY <1>1, <1>2 DEF content
<1>3. CASE ContentSettles
  BY <1>1, <1>3 DEF ContentSettles, Sync, Replicate, SyncFeed, Evict
<1>4. CASE AccountingSettles
  BY <1>1, <1>4 DEF AccountingSettles, CashoutMined, WithdrawMined, others
<1>5. CASE \E n \in Nodes : Issue(n)
  BY <1>1, <1>5 DEF Issue, rest, others
<1>6. CASE Exchange
  BY <1>1, <1>6 DEF Exchange, others
<1>7. CASE Flip \/ \E n \in Nodes : Expire(n)
  BY <1>1, <1>7 DEF Flip, Expire, rest, others
<1>8. QED
  BY <1>2, <1>3, <1>4, <1>5, <1>6, <1>7 DEF Settle, Disturb, vars

LEMMA ClusterStored == ASSUME StoreInv, PaysInv', Settle \/ Disturb \/ UNCHANGED vars PROVE StoreInv'
<1>1. UNCHANGED <<check, todo, verdict, near, home, posted>>
  BY StoredSteps
<1>2. SUFFICES ASSUME check \in ThroughTheNetwork PROVE StoredInv'
  BY <1>1 DEF StoreInv, StoredInv
<1>3. Places /\ OptionsFit(check) /\ stored \in [Nodes -> SUBSET Items] /\ posted \subseteq Items
  BY <1>2 DEF StoreInv, StoredInv
<1>0. Trusted' = Trusted /\ Places' /\ OptionsFit(check)'
  BY <1>1, <1>3 DEF Trusted, Places, OptionsFit
<1>4. PICK S : StoredBy(S)
  BY <1>2 DEF StoreInv, StoredInv
<1>5. \A x \in Items : home[x] \in Nodes /\ Trusted[x] \in Nodes
  BY <1>3, ClosestIsNode
<1>6. /\ stored' \in [Nodes -> SUBSET Items]
      /\ \A m \in Nodes : stored[m] \subseteq stored'[m]
      /\ \A m \in Nodes, x \in Items : x \in stored'[m] => x \in stored[m] \/ x \in stored'[home[x]]
  <2>1. CASE stored' = stored
    BY <1>3, <2>1
  <2>2. ASSUME NEW y \in Items, Sync(y)
        PROVE  stored' = [stored EXCEPT ![home[y]] = stored[home[y]] \cup {y}]
    BY <2>2 DEF Sync
  <2>3. ASSUME NEW y \in Items, NEW n \in Full, Replicate(y, n)
        PROVE  stored' = [stored EXCEPT ![n] = stored[n] \cup {y}] /\ y \in stored[home[y]] /\ n \in Nodes
    BY <2>3 DEF Replicate, Nodes
  <2>4. ASSUME NEW y \in Items, NEW n \in Nodes, n = home[y] \/ y \in stored[home[y]],
               stored' = [stored EXCEPT ![n] = stored[n] \cup {y}]
        PROVE  /\ stored' \in [Nodes -> SUBSET Items]
               /\ \A m \in Nodes : stored[m] \subseteq stored'[m]
               /\ \A m \in Nodes, x \in Items : x \in stored'[m] => x \in stored[m] \/ x \in stored'[home[x]]
    BY <1>3, <1>5, <2>4
  <2>5. QED
    BY <1>5, <2>1, <2>2, <2>3, <2>4, StoredSteps
<1>7. \A x \in Items : (Held(x)' <=> x \in stored'[home[x]] \cup stored'[Trusted[x]]) /\ (Held(x) => Held(x)')
  BY <1>0, <1>1, <1>5, <1>6 DEF Held
<1>8. \A x : Pending(x, S)' <=> Pending(x, S)
  BY <1>0, <1>1 DEF Pending
<1>9. Placed(S)'
  BY <1>4, <1>6, <1>7 DEF StoredBy, Placed
<1>10. StoredBy(S)'
  BY <1>0, <1>1, <1>3, <1>4, <1>7, <1>8, <1>9 DEF StoredBy
<1>11. QED
  BY <1>0, <1>1, <1>3, <1>6, <1>10 DEF StoredInv

\* Every run starts with nothing uploaded.
LEMMA StartStored ==
  ASSUME Places, OptionsFit(check), check \in ThroughTheNetwork, todo = Script(check),
         stored = [n \in Nodes |-> {}], posted = {}
  PROVE  StoredInv
<1>1. PICK S : Verified(todo, S, Trusted)
  BY ScriptVerified DEF Verifiable
<1>2. StoredBy(S)
  BY <1>1 DEF StoredBy, Placed
<1>3. QED
  BY <1>2 DEF StoredInv

LEMMA InitStored == Init => StoreInv
<1> SUFFICES ASSUME Init PROVE StoreInv
  OBVIOUS
<1>1. SUFFICES ASSUME check \in ThroughTheNetwork PROVE StoredInv
  BY InitPays DEF StoreInv, StoredInv
<1>2. check \notin Kept
  BY <1>1 DEF ThroughTheNetwork, Kept
<1>3. OptionsFit(check) /\ todo = Script(check) /\ stored = [n \in Nodes |-> {}] /\ posted = {}
  BY <1>2 DEF Init, ContentInit
<1>5. Places
  BY ContentAssumption DEF Init, ContentInit, Places
<1>4. QED
  BY <1>1, <1>3, <1>5, StartStored

LEMMA AgainStored == ASSUME StoreInv, Again PROVE StoreInv'
<1>1. /\ check' = check /\ todo' = Script(check) /\ UNCHANGED <<near, home>> /\ posted' = {}
      /\ stored' = [n \in Nodes |-> IF check \in Kept THEN stored[n] ELSE {}]
  BY DEF Again, Rerun, ContentAgain
<1>2. SUFFICES ASSUME check \in ThroughTheNetwork PROVE StoredInv'
  BY <1>1, AgainPays DEF StoreInv, StoredInv
<1>3. stored' = [n \in Nodes |-> {}]
  <2>1. check \notin Kept
    BY <1>2 DEF ThroughTheNetwork, Kept
  <2>2. QED
    BY <1>1, <2>1
<1>4. Places /\ OptionsFit(check)
  BY <1>2 DEF StoreInv, StoredInv
<1>0. Trusted' = Trusted /\ Places' /\ OptionsFit(check)'
  BY <1>1, <1>4 DEF Trusted, Places, OptionsFit
<1>5. PICK S : Verified(Script(check), S, Trusted)
  BY <1>2, <1>4, ScriptVerified DEF Verifiable
<1>6. Verified(todo', S, Trusted') /\ Placed(S)'
  BY <1>0, <1>1, <1>3, <1>5 DEF Placed
<1>7. StoredBy(S)'
  BY <1>1, <1>6 DEF StoredBy
<1>8. stored' \in [Nodes -> SUBSET Items] /\ posted' \subseteq Items
  BY <1>1, <1>3
<1>9. QED
  BY <1>0, <1>7, <1>8 DEF StoredInv

LEMMA NextStored == StoreInv /\ [Next]_vars => StoreInv'
<1> SUFFICES ASSUME StoreInv, [Next]_vars PROVE StoreInv'
  OBVIOUS
<1>1. PaysInv'
  BY NextPays DEF StoreInv
<1>2. CASE Request
  <2>1. check' = check
    BY <1>2, RequestAsks
  <2>2. StoredInv'
    BY <1>2, <2>1, StoreRequest DEF StoredInv
  <2>3. QED
    BY <1>1, <2>2 DEF StoreInv
<1>3. QED
  BY <1>1, <1>2, ClusterStored, AgainStored DEF Next, Done

\* A check that reads its content through another node does not return nil
\* before the network holds it: whatever it was told it had uploaded is at the
\* full node closest to it, or at the node the check asks whoever the uploader
\* is (the closest one it knows of for pushsync, the last one for
\* fileretrieval), however late the cluster syncs, whichever responses are
\* lost and however often requests are made again.  After every upload of
\* pushsync, retrieval, fileretrieval, redundancy, manifest, feed and act comes
\* a request that only such an item lets pass, and no answer leads past it.
\* Nothing is assumed of the placement: the closest node a check knows of may
\* be a light one, and retrieval may have a single full node to read from.
THEOREM PassMeansStoredHolds == Spec => []PassMeansStored
<1>1. StoreInv => PassMeansStored
  <2> SUFFICES ASSUME StoreInv, verdict = "pass", check \in ThroughTheNetwork, NEW x \in posted
               PROVE  x \in stored[home[x]] \cup stored[Trusted[x]]
    BY DEF PassMeansStored
  <2>1. todo = <<>>
    BY DEF StoreInv, PaysInv, Run, Purchasing, ThroughTheNetwork
  <2>2. \A r, B, E : ~Awaits(todo, r, B, E)
    BY <2>1, Nil DEF Awaits
  <2>3. PICK S : StoredBy(S)
    BY DEF StoreInv, StoredInv
  <2>4. QED
    BY <2>2, <2>3 DEF StoredBy, Pending, Held
<1>2. QED
  BY InitStored, NextStored, <1>1, PTL DEF Spec

-----------------------------------------------------------------------------
(* The runner of the checks, for any number of checks and timeouts.  A      *)
(* success is recorded only when it is taken from the channel, into which   *)
(* only the check itself puts its result, and the checks before the one at  *)
(* hand all have a record.                                                  *)

\* What is known of a check in each state of its goroutine.
Returned == \A i \in Checks : act[i] \in {"idle", "running"} <=> ret[i] = "none"

\* A recorded success is the check's own.
OwnSuccess == \A i \in Checks : results[i] = "ok" => ret[i] = "ok"

\* The loop has a record of every check before the one at hand.
Progress ==
  /\ outcome # "none" <=> pc = "done"
  /\ pc = "validate" => \A i \in Checks : act[i] = "idle"
  /\ pc \in {"next", "wait"} => \A i \in Checks : i < idx => results[i] # "none"
  /\ pc = "next" => \A i \in Checks : i >= idx => act[i] = "idle"
  /\ pc = "wait" => idx \in Checks /\ \A i \in Checks : i > idx => act[i] = "idle"
  /\ outcome = "nil" => \A i \in Checks : results[i] = "ok"

Inv == TypeOK /\ Returned /\ OwnSuccess /\ Progress /\ AllOrNothing

-----------------------------------------------------------------------------
LEMMA InitInv == RunnerInit => Inv
<1> SUFFICES ASSUME RunnerInit PROVE Inv
  OBVIOUS
<1>1. TypeOK
  <2>1. 1 \in 1..(N + 1)
    BY CheckAssumption
  <2>2. QED
    BY <2>1 DEF RunnerInit, TypeOK
<1>2. Returned /\ OwnSuccess /\ Progress /\ AllOrNothing
  BY DEF RunnerInit, Returned, OwnSuccess, Progress, AllOrNothing
<1>3. QED
  BY <1>1, <1>2 DEF Inv

\* What taking a result does, whichever case of the select is taken.
LEMMA RecordInv ==
  ASSUME Inv, pc = "wait", NEW r \in {"ok", "err"}, r = "ok" => ret[idx] = "ok", Record(r)
  PROVE  Inv'
<1> USE DEF Inv
<1>1. /\ results' = [results EXCEPT ![idx] = r] /\ idx' = idx + 1 /\ pc' = "next"
      /\ expired' = expired \cup {idx}
      /\ UNCHANGED <<ctxDone, act, ret, outcome>>
  BY DEF Record, After
<1>2. idx \in Checks /\ N \in Nat
  BY CheckAssumption DEF Progress
<1>3. TypeOK'
  BY <1>1, <1>2 DEF TypeOK, Checks
<1>4. \A i \in Checks : results'[i] = IF i = idx THEN r ELSE results[i]
  BY <1>1, <1>2 DEF TypeOK
<1>5. Returned' /\ OwnSuccess'
  BY <1>1, <1>4 DEF Returned, OwnSuccess
<1>6. Progress'
  <2>1. outcome' = "none"
    BY <1>1 DEF Progress
  <2>2. \A i \in Checks : i < idx + 1 => i < idx \/ i = idx
    BY <1>2 DEF Checks
  <2>3. QED
    BY <1>1, <1>2, <1>4, <2>1, <2>2 DEF Progress, Checks
<1>7. AllOrNothing'
  BY <1>1 DEF Progress, AllOrNothing
<1>8. QED
  BY <1>3, <1>5, <1>6, <1>7

LEMMA RunnerInv == ASSUME Inv, Runner PROVE Inv'
<1> USE DEF Inv
<1>0. N \in Nat
  BY CheckAssumption
<1>1. CASE ValidateChecks
  BY <1>0, <1>1 DEF ValidateChecks, ctxVars, TypeOK, Returned, OwnSuccess, Progress, AllOrNothing, Checks
<1>2. CASE Invalid
  BY <1>0, <1>2 DEF Invalid, ctxVars, TypeOK, Returned, OwnSuccess, Progress, AllOrNothing, Checks
<1>3. CASE StartCheck
  <2>1. /\ pc = "next" /\ idx \in Checks /\ pc' = "wait"
        /\ act' = [act EXCEPT ![idx] = "running"]
        /\ UNCHANGED <<idx, ctxDone, expired, ret, results, outcome>>
    BY <1>0, <1>3 DEF StartCheck, ctxVars, TypeOK, Checks
  <2>2. act[idx] = "idle" /\ \A i \in Checks : act'[i] = IF i = idx THEN "running" ELSE act[i]
    BY <2>1 DEF TypeOK, Progress, Checks
  <2>3. TypeOK'
    BY <2>1 DEF TypeOK
  <2>4. Returned' /\ OwnSuccess'
    BY <2>1, <2>2 DEF Returned, OwnSuccess
  <2>5. Progress' /\ AllOrNothing'
    BY <2>1, <2>2 DEF Progress, AllOrNothing, Checks
  <2>6. QED
    BY <2>3, <2>4, <2>5
<1>4. CASE TakeResult
  BY <1>4, RecordInv DEF TakeResult, Progress, Returned, TypeOK
<1>5. CASE TakeDone
  BY <1>5, RecordInv DEF TakeDone, ContextError
<1>6. CASE Finish
  <2>1. /\ pc = "next" /\ pc' = "done" /\ UNCHANGED <<idx, ctxDone, expired, act, ret, results>>
        /\ outcome' = IF \E i \in Checks : results[i] = "err" THEN "error" ELSE "nil"
    BY <1>6 DEF Finish, ctxVars
  <2>2. \A i \in Checks : i < idx
    BY <1>0, <1>6 DEF Finish, TypeOK, Checks
  <2>3. \A i \in Checks : results[i] \in {"ok", "err"}
    BY <2>1, <2>2 DEF Progress, TypeOK
  <2>4. QED
    BY <2>1, <2>3 DEF TypeOK, Returned, OwnSuccess, Progress, AllOrNothing
<1>7. QED
  BY <1>1, <1>2, <1>3, <1>4, <1>5, <1>6 DEF Runner

\* The goroutine of a check and the contexts.
LEMMA OthersInv ==
  ASSUME Inv, Cancel \/ (\E i \in Checks : Return(i) \/ Send(i) \/ Timeout(i))
  PROVE  Inv'
<1> USE DEF Inv
<1>1. CASE Cancel
  BY <1>1 DEF Cancel, TypeOK, Returned, OwnSuccess, Progress, AllOrNothing
<1>2. ASSUME NEW i \in Checks, Return(i) PROVE Inv'
  <2>1. PICK r \in {"ok", "err"} : ret' = [ret EXCEPT ![i] = r]
    BY <1>2 DEF Return
  <2>2. /\ act[i] = "running" /\ act' = [act EXCEPT ![i] = "returned"]
        /\ UNCHANGED <<pc, idx, ctxDone, expired, results, outcome>>
    BY <1>2 DEF Return, ctxVars
  <2>3. TypeOK'
    BY <2>1, <2>2 DEF TypeOK
  <2>4. ret[i] = "none" /\ results[i] # "ok"
    BY <2>2 DEF Returned, OwnSuccess
  <2>5. Returned' /\ OwnSuccess'
    BY <2>1, <2>2, <2>4 DEF Returned, OwnSuccess, TypeOK
  <2>6. Progress' /\ AllOrNothing'
    BY <2>2 DEF Progress, AllOrNothing, TypeOK
  <2>7. QED
    BY <2>3, <2>5, <2>6
<1>3. ASSUME NEW i \in Checks, Send(i) PROVE Inv'
  <2>1. /\ act[i] = "returned" /\ act' = [act EXCEPT ![i] = "sent"]
        /\ UNCHANGED <<pc, idx, ctxDone, expired, ret, results, outcome>>
    BY <1>3 DEF Send, ctxVars
  <2>2. QED
    BY <2>1 DEF TypeOK, Returned, OwnSuccess, Progress, AllOrNothing
<1>4. ASSUME NEW i \in Checks, Timeout(i) PROVE Inv'
  BY <1>4 DEF Timeout, TypeOK, Returned, OwnSuccess, Progress, AllOrNothing
<1>5. QED
  BY <1>1, <1>2, <1>3, <1>4

LEMMA NextInv == Inv /\ [RunnerNext]_runnerVars => Inv'
<1> SUFFICES ASSUME Inv, [RunnerNext]_runnerVars PROVE Inv'
  OBVIOUS
<1>1. CASE UNCHANGED runnerVars
  BY <1>1 DEF runnerVars, ctxVars, Inv, TypeOK, Returned, OwnSuccess, Progress, AllOrNothing
<1>2. QED
  BY <1>1, RunnerInv, OthersInv DEF RunnerNext

LEMMA InvAlways == RunnerSpec => []Inv
  BY InitInv, NextInv, PTL DEF RunnerSpec

-----------------------------------------------------------------------------
\* Type correctness of the runner and the goroutines of its checks.
THEOREM TypeCorrect == RunnerSpec => []TypeOK
<1>1. Inv => TypeOK
  BY DEF Inv
<1>2. QED
  BY <1>1, InvAlways, PTL

\* For any number of checks, CheckRunner.Run returns nil only when each of them
\* has returned nil, whatever timeouts and cancellations race the results.
THEOREM NilMeansAllPassedHolds == RunnerSpec => []NilMeansAllPassed
<1>1. Inv => NilMeansAllPassed
  BY DEF Inv, Progress, OwnSuccess, NilMeansAllPassed
<1>2. QED
  BY <1>1, InvAlways, PTL

\* For any number of checks, either all of them are run and reported, or the
\* validation failed and none has been started.
THEOREM AllOrNothingHolds == RunnerSpec => []AllOrNothing
<1>1. Inv => AllOrNothing
  BY DEF Inv
<1>2. QED
  BY <1>1, InvAlways, PTL

-----------------------------------------------------------------------------
(* The node operator, the other loop that starts a goroutine, hands it work *)
(* over a channel and goes on after a failure: for any pods and any number  *)
(* of attempts and of changes.                                              *)

\* The service at hand selects the pod at hand and has an api port, and the address
\* is still empty or of a pod that service selects.
AddressOfService ==
  funding \in {"addresses", "fund"} =>
    /\ service \in DOMAIN Services /\ Services[service].selects /\ Services[service].api
    /\ Services[service].selector \subseteq Labels[pod]
    /\ address # NoAddress => Services[service].selector \subseteq Labels[address]

\* Whatever requests fail or hang, pods change and watches end, for any services
\* and labels: Fund is called with the empty address or with that of a pod which
\* one service with an api port selects together with the pod received.
THEOREM OwnAddressHolds == OperatorSpec => []OwnAddress
<1> DEFINE I == AddressOfService /\ OwnAddress
<1>1. OperatorInit => I
  BY DEF OperatorInit, AddressOfService, OwnAddress
<1>2. ASSUME I, [OperatorNext]_operatorVars PROVE I'
  <2>1. CASE FindNode
    BY <1>2, <2>1 DEF FindNode, Matches, AddressOfService, OwnAddress
  <2>2. CASE GetAddresses
    BY <1>2, <2>2 DEF GetAddresses, Answering, AddressOfService, OwnAddress
  <2>3. CASE GetAddressesFails
    BY <1>2, <2>3 DEF GetAddressesFails, AddressOfService, OwnAddress
  <2>4. CASE Fund
    <3>1. funding = "fund" /\ funding' = "select" /\ funded' = funded \cup {<<pod, address>>}
      BY <2>4 DEF Fund
    <3>2. address # NoAddress =>
            \E i \in DOMAIN Services :
                /\ Services[i].selects /\ Services[i].api
                /\ Services[i].selector \subseteq Labels[pod] \cap Labels[address]
      BY <1>2, <3>1 DEF AddressOfService
    <3>3. QED
      BY <1>2, <3>1, <3>2 DEF AddressOfService, OwnAddress
  <2>5. CASE Receive \/ EndFunding \/ FindNodeFails
    BY <1>2, <2>5 DEF Receive, EndFunding, FindNodeFails, AfterNotFound, AddressOfService,
                      OwnAddress
  <2>6. CASE UNCHANGED <<funding, pod, service, address, funded>>
    BY <1>2, <2>6 DEF AddressOfService, OwnAddress
  <2>7. Watching \/ Hang \/ CloseWatch \/ EndContext
          \/ (\E p \in Pods : PodChanges(p)) \/ UNCHANGED operatorVars
          => UNCHANGED <<funding, pod, service, address, funded>>
    BY DEF Watching, OpenWatch, TakeEvent, EndWatch, OpenWatchFails, Hang, CloseWatch,
           EndContext, PodChanges, fundVars, askVars, operatorVars
  <2>8. QED
    BY <1>2, <2>1, <2>2, <2>3, <2>4, <2>5, <2>6, <2>7 DEF OperatorNext, Funding
<1>3. QED
  BY <1>1, <1>2, PTL DEF OperatorSpec

\* From the moment a pod is received the goroutine has one, and it asks for the
\* addresses only while an attempt is left.
PodAtHand ==
  /\ funding \in {"find", "addresses", "fund"} => pod \in Pods
  /\ funding = "addresses" => attempts < MaxRetries

\* For any finite set of pods: the watcher holds a pod exactly while it sends, and
\* the addresses of a node are asked for at most MaxRetries times.
THEOREM OperatorTypeCorrect == OperatorSpec => []OperatorTypeOK
<1> USE OperatorAssumption
<1> DEFINE I == OperatorTypeOK /\ PodAtHand
           States == {"absent", "pending", "ready", "terminating"}
           Kinds == {"Added", "Modified", "Deleted"}
           Events == Kinds \X Pods \X States
<1>1. ASSUME OperatorInit PROVE I
  <2>1. events \in Seq(Kinds \X Pods \X States)
    BY <1>1 DEF OperatorInit
  <2>2. state \in [Pods -> States]
    BY <1>1 DEF OperatorInit
  <2>3. (watcher = "sending") = (sending # NoPod)
    BY <1>1 DEF OperatorInit
  <2>4. cancelled \in BOOLEAN /\ watchOpen \in BOOLEAN /\ hung \in BOOLEAN
    BY <1>1, Zenon DEF OperatorInit
  <2>5. /\ attempts \in 0..MaxRetries /\ changes \in 0..MaxChanges
        /\ funded \subseteq (Pods \X (Pods \cup {NoAddress}))
        /\ reported \in Nat /\ received \in Nat /\ service \in 0 .. Len(Services)
    BY <1>1 DEF OperatorInit
  <2>6. /\ watcher \in {"open", "select", "sending", "returned"} /\ sending \in Pods \cup {NoPod}
        /\ funding \in {"select", "find", "addresses", "fund", "ended"}
        /\ pod \in Pods \cup {NoPod} /\ address \in Pods \cup {NoAddress} /\ PodAtHand
    BY <1>1 DEF OperatorInit, PodAtHand
  <2>7. QED
    BY <2>1, <2>2, <2>3, <2>4, <2>5, <2>6 DEF OperatorTypeOK
<1>2. ASSUME I, [OperatorNext]_operatorVars PROVE I'
  <2>1. CASE OpenWatch
    <3> DEFINE S == {<<"Added", p, state[p]>> : p \in {q \in Pods : state[q] # "absent"}}
    <3>1. events' = SetToSeq(S) /\ watcher = "open" /\ watcher' = "select"
      BY <2>1 DEF OpenWatch
    <3>2. S \subseteq Events
      BY <1>2 DEF OperatorTypeOK
    <3>3. IsFiniteSet(S)
      <4> DEFINE R == {q \in Pods : state[q] # "absent"}
                 f == [p \in R |-> <<"Added", p, state[p]>>]
      <4>1. IsFiniteSet(R)
        BY FS_Subset
      <4>2. S = {f[p] : p \in R}
        OBVIOUS
      <4>3. f \in Surjection(R, S)
        BY DEF Surjection
      <4> HIDE DEF S, R, f
      <4>4. QED
        BY <4>1, <4>3, FS_Surjection
    <3> HIDE DEF S, Events
    <3>4. events' \in Seq(Events)
      <4>1. SetToSeq(S) \in Seq(S)
        BY <3>3, ListOfSet
      <4>2. QED
        BY <3>1, <3>2, <4>1
    <3>5. QED
      BY <1>2, <2>1, <3>1, <3>4 DEF OpenWatch, OperatorTypeOK, PodAtHand, fundVars, askVars, Events
  <2>2. CASE TakeEvent
    <3>1. events \in Seq(Events) /\ events # <<>>
      BY <1>2, <2>2 DEF TakeEvent, OperatorTypeOK
    <3> DEFINE e == Head(events)
    <3> HIDE DEF Events
    <3>2. e \in Events /\ Tail(events) \in Seq(Events)
      BY <3>1
    <3>3. e[2] \in Pods /\ e[2] # NoPod
      BY <3>2 DEF Events
    <3>4. \/ watcher' = "sending" /\ sending' = e[2]
          \/ UNCHANGED <<watcher, sending>>
      BY <2>2 DEF TakeEvent
    <3>5. events' \in Seq(Kinds \X Pods \X States)
      BY <2>2, <3>2 DEF TakeEvent, Events
    <3>6. sending' \in Pods \cup {NoPod} /\ ((watcher' = "sending") = (sending' # NoPod))
          /\ watcher' \in {"open", "select", "sending", "returned"}
      BY <1>2, <3>3, <3>4 DEF OperatorTypeOK
    <3>7. UNCHANGED <<cancelled, state, watchOpen, funding, pod, service, hung, attempts, address,
                    funded, reported, received, changes>>
      BY <2>2 DEF TakeEvent, fundVars, askVars
    <3> HIDE DEF e
    <3>8. QED
      BY <1>2, <3>5, <3>6, <3>7 DEF OperatorTypeOK, PodAtHand
  <2>3. CASE EndWatch \/ OpenWatchFails \/ CloseWatch \/ EndContext
    BY <1>2, <2>3 DEF EndWatch, OpenWatchFails, CloseNewPods, CloseWatch, EndContext, OperatorTypeOK,
       PodAtHand, fundVars, askVars, watchVars, kubeVars
  <2>4. CASE Receive
    BY <1>2, <2>4 DEF Receive, OperatorTypeOK, PodAtHand, askVars, kubeVars
  <2>5. CASE EndFunding \/ FindNodeFails \/ Hang
    BY <1>2, <2>5 DEF EndFunding, FindNodeFails, Hang, RequestFails, AfterNotFound, OperatorTypeOK,
       PodAtHand, watchVars, askVars, kubeVars
  <2>6. CASE FindNode
    <3>1. /\ funding = "find" /\ funding' = "addresses" /\ attempts' = 0 /\ address' = NoAddress
          /\ UNCHANGED <<cancelled, watchOpen, watcher, sending, pod, hung, funded, received,
                         state, events, reported, changes>>
      BY <2>6 DEF FindNode, watchVars, kubeVars
    <3>2. service' \in 0 .. Len(Services)
      BY <2>6 DEF FindNode
    <3>3. QED
      BY <1>2, <3>1, <3>2 DEF OperatorTypeOK, PodAtHand
  <2>7. CASE GetAddresses
    <3>1. /\ funding = "addresses" /\ funding' = "fund" /\ attempts' = attempts + 1
          /\ UNCHANGED <<cancelled, watchOpen, watcher, sending, pod, service, hung, funded,
                         received, state, events, reported, changes>>
      BY <2>7 DEF GetAddresses, watchVars, kubeVars
    <3>2. address' \in Pods \cup {NoAddress}
      BY <2>7 DEF GetAddresses, Answering
    <3>3. QED
      BY <1>2, <3>1, <3>2 DEF OperatorTypeOK, PodAtHand
  <2>8. CASE GetAddressesFails
    <3>1. hung' \in BOOLEAN
      BY <2>8, Zenon DEF GetAddressesFails, RequestFails
    <3>2. /\ funding = "addresses" /\ attempts' = attempts + 1 /\ address' = NoAddress
          /\ funding' = IF attempts + 1 < MaxRetries THEN "addresses" ELSE "fund"
          /\ UNCHANGED <<cancelled, watchOpen, watcher, sending, pod, service, funded,
                         received, state, events, reported, changes>>
      BY <2>8 DEF GetAddressesFails, MoreAttempts, watchVars, kubeVars
    <3>3. QED
      BY <1>2, <3>1, <3>2 DEF OperatorTypeOK, PodAtHand
  <2>9. CASE Fund
    <3>1. hung' \in BOOLEAN
      BY <2>9, Zenon DEF Fund, RequestFails
    <3>2. /\ funding = "fund" /\ funding' = "select" /\ funded' = funded \cup {<<pod, address>>}
          /\ UNCHANGED <<cancelled, watchOpen, watcher, sending, pod, service, attempts, address,
                         received, state, events, reported, changes>>
      BY <2>9 DEF Fund, watchVars, askVars, kubeVars
    <3>3. QED
      BY <1>2, <3>1, <3>2 DEF OperatorTypeOK, PodAtHand
  <2>10. ASSUME NEW p \in Pods, PodChanges(p) PROVE I'
    <3>1. PICK s \in Successors(state[p]) :
            /\ state' = [state EXCEPT ![p] = s]
            /\ events' \in {events, Append(events, <<"Added", p, s>>), Append(events, <<"Deleted", p, s>>),
                            Append(events, <<"Modified", p, s>>)}
      BY <2>10 DEF PodChanges
    <3>2. s \in States
      BY <1>2 DEF Successors, OperatorTypeOK
    <3>3. events \in Seq(Events)
      BY <1>2 DEF OperatorTypeOK
    <3>4. {<<"Added", p, s>>, <<"Deleted", p, s>>, <<"Modified", p, s>>} \subseteq Events
      BY <3>2
    <3>5. state' \in [Pods -> States]
      BY <1>2, <3>1, <3>2 DEF OperatorTypeOK
    <3> HIDE DEF Events
    <3>6. events' \in Seq(Events)
      <4>1. \A e \in Events : Append(events, e) \in Seq(Events)
        BY <3>3
      <4>2. QED
        BY <3>1, <3>3, <3>4, <4>1
    <3>7. changes' \in 0..MaxChanges
      BY <1>2, <2>10, SMTT(60) DEF PodChanges, OperatorTypeOK
    <3>8. UNCHANGED <<cancelled, watchOpen, watcher, sending, funding, pod, service, hung, attempts,
                    address, funded, received>>
      BY <2>10 DEF PodChanges, watchVars, fundVars, askVars
    <3>9. reported' \in Nat
      BY <1>2, <2>10, SMTT(60) DEF PodChanges, OperatorTypeOK
    <3>10. QED
      BY <1>2, <3>5, <3>6, <3>7, <3>8, <3>9 DEF OperatorTypeOK, PodAtHand, Events
  <2>11. CASE UNCHANGED operatorVars
    BY <1>2, <2>11 DEF OperatorTypeOK, PodAtHand, operatorVars
  <2>12. QED
    BY <1>2, <2>1, <2>2, <2>3, <2>4, <2>5, <2>6, <2>7, <2>8, <2>9, <2>10, <2>11
       DEF OperatorNext, Watching, Funding
<1>3. QED
  BY <1>1, <1>2, PTL DEF OperatorSpec

============================================================================
