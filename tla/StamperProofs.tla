---------------------------- MODULE StamperProofs ----------------------------
(***************************************************************************)
(* Safety of the stamper for every configuration, any number of nodes and  *)
(* batches, any prices and any number of events and failures.              *)
(***************************************************************************)
EXTENDS Stamper, FiniteSetTheorems, NaturalsInduction, WellFoundedInduction, TLAPS

-----------------------------------------------------------------------------
(* Powers of two, as the number of subsets of an interval.                   *)

LEMMA PowCount ==
  ASSUME NEW a \in Nat, NEW b \in Nat
  PROVE  IsFiniteSet(SUBSET ((a + 1)..(a + b))) /\ Cardinality(SUBSET ((a + 1)..(a + b))) = 2^b
<1> DEFINE B == (a + 1)..(a + b)
<1>1. IsFiniteSet(B) /\ Cardinality(B) = b
  BY FS_Interval
<1> HIDE DEF B
<1>2. IsFiniteSet(SUBSET B) /\ Cardinality(SUBSET B) = 2^b
  BY <1>1, FS_SUBSET
<1>3. QED
  BY <1>2 DEF B

LEMMA PowPositive == ASSUME NEW n \in Nat PROVE 2^n \in Nat /\ 2^n > 0
<1> DEFINE S == SUBSET ((0 + 1)..(0 + n))
<1>1. IsFiniteSet(S) /\ Cardinality(S) = 2^n
  BY PowCount
<1>2. S # {}
  OBVIOUS
<1> HIDE DEF S
<1>3. Cardinality(S) \in Nat /\ Cardinality(S) # 0
  BY <1>1, <1>2, FS_CardinalityType, FS_EmptySet
<1>4. QED
  BY <1>1, <1>3

LEMMA PowSum == ASSUME NEW a \in Nat, NEW b \in Nat PROVE 2^(a + b) = 2^a * 2^b
<1> DEFINE A == (0 + 1)..(0 + a)
           B == (a + 1)..(a + b)
           C == (0 + 1)..(0 + (a + b))
           f == [p \in (SUBSET A) \X (SUBSET B) |-> p[1] \cup p[2]]
<1>1. A \cup B = C /\ A \cap B = {}
  OBVIOUS
<1>2. /\ IsFiniteSet(SUBSET A) /\ Cardinality(SUBSET A) = 2^a
      /\ IsFiniteSet(SUBSET B) /\ Cardinality(SUBSET B) = 2^b
      /\ Cardinality(SUBSET C) = 2^(a + b)
  <2>1. IsFiniteSet(SUBSET A) /\ Cardinality(SUBSET A) = 2^a
    BY PowCount
  <2>2. IsFiniteSet(SUBSET B) /\ Cardinality(SUBSET B) = 2^b
    BY PowCount
  <2>3. Cardinality(SUBSET C) = 2^(a + b)
    <3> DEFINE c == a + b
    <3>1. c \in Nat /\ C = (0 + 1)..(0 + c)
      OBVIOUS
    <3> HIDE DEF c, C
    <3>2. Cardinality(SUBSET C) = 2^c
      BY <3>1, PowCount
    <3>3. QED
      BY <3>2 DEF c
  <2>4. QED
    BY <2>1, <2>2, <2>3
<1> HIDE DEF A, B, C
<1>3. f \in Bijection((SUBSET A) \X (SUBSET B), SUBSET C)
  <2>1. f \in [(SUBSET A) \X (SUBSET B) -> SUBSET C]
    BY <1>1
  <2>2. ASSUME NEW p \in (SUBSET A) \X (SUBSET B), NEW q \in (SUBSET A) \X (SUBSET B), f[p] = f[q]
        PROVE  p = q
    <3>1. p[1] \cup p[2] = q[1] \cup q[2]
      BY <2>2
    <3>2. p[1] = (p[1] \cup p[2]) \cap A /\ q[1] = (q[1] \cup q[2]) \cap A
      BY <1>1
    <3>3. p[2] = (p[1] \cup p[2]) \cap B /\ q[2] = (q[1] \cup q[2]) \cap B
      BY <1>1
    <3>4. p[1] = q[1] /\ p[2] = q[2]
      BY <3>1, <3>2, <3>3, Zenon
    <3>5. QED
      BY <3>4
  <2>3. ASSUME NEW t \in SUBSET C
        PROVE  \E p \in (SUBSET A) \X (SUBSET B) : f[p] = t
    <3>1. <<t \cap A, t \cap B>> \in (SUBSET A) \X (SUBSET B)
      OBVIOUS
    <3>2. f[<<t \cap A, t \cap B>>] = (t \cap A) \cup (t \cap B)
      BY <3>1
    <3>3. (t \cap A) \cup (t \cap B) = t
      BY <1>1
    <3>4. QED
      BY <3>1, <3>2, <3>3
  <2> DEFINE P == (SUBSET A) \X (SUBSET B)
             D == SUBSET C
  <2>4. /\ f \in [P -> D] /\ \A p, q \in P : f[p] = f[q] => p = q
        /\ \A t \in D : \E p \in P : f[p] = t
    BY <2>1, <2>2, <2>3
  <2> HIDE DEF f, P, D
  <2>5. f \in Bijection(P, D)
    BY <2>4 DEF Bijection, Injection, Surjection, IsInjective
  <2>6. QED
    BY <2>5 DEF P, D
<1> HIDE DEF f
<1>4. IsFiniteSet((SUBSET A) \X (SUBSET B)) /\ Cardinality((SUBSET A) \X (SUBSET B)) = 2^a * 2^b
  BY <1>2, FS_Product
<1>5. Cardinality(SUBSET C) = Cardinality((SUBSET A) \X (SUBSET B))
  <2>1. ExistsBijection((SUBSET A) \X (SUBSET B), SUBSET C)
    BY <1>3 DEF ExistsBijection
  <2>2. QED
    BY <1>4, <2>1, FS_Bijection
<1>6. QED
  BY <1>2, <1>4, <1>5

-----------------------------------------------------------------------------
(* Divisions and products.                                                   *)

LEMMA DivIs ==
  ASSUME NEW a \in Nat, NEW b \in Nat, b > 0
  PROVE  a \div b \in Nat /\ b * (a \div b) <= a /\ a < b * (a \div b + 1)
OBVIOUS

LEMMA DivLow ==
  ASSUME NEW a \in Nat, NEW b \in Nat, b > 0, NEW m \in Nat, b * m <= a
  PROVE  m <= a \div b
OBVIOUS

LEMMA DivHigh ==
  ASSUME NEW a \in Nat, NEW b \in Nat, b > 0, NEW m \in Nat, a < b * (m + 1)
  PROVE  a \div b <= m
OBVIOUS

LEMMA DivMono ==
  ASSUME NEW a \in Nat, NEW c \in Nat, a <= c, NEW b \in Nat, b > 0
  PROVE  a \div b <= c \div b
OBVIOUS

LEMMA DivSum ==
  ASSUME NEW a \in Nat, NEW c \in Nat, NEW b \in Nat, b > 0
  PROVE  a \div b + c \div b <= (a + c) \div b
OBVIOUS

LEMMA DivAtMost ==
  ASSUME NEW a \in Nat, NEW b \in Nat, b > 0
  PROVE  a \div b <= a
OBVIOUS

LEMMA ProductMono ==
  ASSUME NEW a \in Nat, NEW b \in Nat, NEW c \in Nat, NEW d \in Nat, a <= b, c <= d
  PROVE  a * c \in Nat /\ b * d \in Nat /\ a * c <= b * d
<1>1. a * c <= b * c /\ a * c \in Nat /\ b * c \in Nat
  OBVIOUS
<1>2. b * c <= b * d /\ b * d \in Nat
  OBVIOUS
<1>3. QED
  BY <1>1, <1>2

\* What is left in a batch that calls for a top-up and what is added to it, the
\* first at price p and the second at price r, of which neither is above m.
Within(bal, r, m, nbt, spb, x, y, z) ==
  bal + (z \div spb) * r <= m * (y \div spb + x \div nbt + 1)

LEMMA PaidUpTo ==
  ASSUME NEW bal \in Nat, NEW p \in Nat, NEW r \in Nat, NEW m \in Nat, p > 0, p <= m, r <= m,
         NEW nbt \in Nat, nbt > 0, NEW spb \in Nat, spb > 0,
         NEW x \in Nat, NEW y \in Nat, NEW z \in Nat,
         (bal \div p) * nbt <= x, z <= y
  PROVE  Within(bal, r, m, nbt, spb, x, y, z)
<1> DEFINE q == bal \div p
           u == x \div nbt
           v == y \div spb
           w == z \div spb
<1>1. q \in Nat /\ bal < p * (q + 1)
  BY DivIs
<1>2. u \in Nat /\ v \in Nat /\ w \in Nat
  BY DivIs
<1>3. w <= v
  BY DivMono
<1>4. q <= u
  <2>1. nbt * q <= x
    BY <1>1
  <2> HIDE DEF q
  <2>2. QED
    BY <1>1, <2>1, DivLow
<1> HIDE DEF q, u, v, w
<1>5. bal <= m * (u + 1)
  <2>1. p * (q + 1) <= m * (u + 1) /\ p * (q + 1) \in Nat /\ m * (u + 1) \in Nat
    BY <1>1, <1>2, <1>4, ProductMono
  <2>2. QED
    BY <1>1, <2>1
<1>6. w * r <= v * m /\ w * r \in Nat /\ v * m \in Nat
  BY <1>2, <1>3, ProductMono
<1>7. m * (u + 1) + v * m = m * (v + u + 1) /\ m * (u + 1) \in Nat
  BY <1>2
<1>8. bal + w * r <= m * (v + u + 1)
  BY <1>5, <1>6, <1>7
<1>9. QED
  BY <1>8 DEF u, v, w, Within

-----------------------------------------------------------------------------
(* The invariant.                                                            *)

BatchTypes ==
  /\ batches \in [Nodes -> Seq(BatchRecords)]
  /\ \A n \in Nodes : \A i \in DOMAIN batches[n] : Sound(batches[n][i])

ClientTypes ==
  /\ price \in Prices /\ snapPrice \in Prices \cup {0}
  /\ cmd \in Commands
  /\ pc \in {"idle", "price", "list", "batch", "dilute", "create", "done"}
  /\ node \in Nodes /\ idx \in 1..(Len(snap) + 1)
  /\ broken \subseteq Nodes /\ passed \in BOOLEAN /\ late \in BOOLEAN
  /\ events \in 0..MaxEvents /\ failures \in 0..MaxFailures
  /\ snap \in Seq(ReportRecords)

\* Which commands reach which place.
Position ==
  /\ pc \in {"list", "batch", "dilute"} => cmd # "create"
  /\ pc = "create" => cmd = "create"
  /\ pc = "dilute" => cmd = "set" /\ idx <= Len(snap)

\* The list is as long as the node's, and what it says of a batch the loop has
\* not come to is too little only where a top-up was missing from it: nobody but
\* this loop tops up, each batch once.
ListIsOld ==
  pc \in {"batch", "dilute"} =>
    /\ Len(snap) = Len(batches[node])
    /\ \A i \in idx..Len(snap) :
        pc = "batch" \/ i # idx => late \/ batches[node][i].balance <= snap[i].balance

\* A TTL that is reported is one at some price.
TtlOfPrice ==
  \A i \in 1..Len(snap) : snap[i].ttl > 0 =>
    \E p \in Prices : p > 0 /\ snap[i].ttl = (snap[i].balance \div p) * NodeBlockTime

Inv == BatchTypes /\ ClientTypes /\ Position /\ ListIsOld /\ TtlOfPrice

\* What a node shows are batches it has; while no batch is created, all of them.
ShownTypes ==
  /\ shown \in [Nodes -> Seq(BatchRecords)]
  /\ \A n \in Nodes : \A i \in DOMAIN shown[n] : Sound(shown[n][i])
  /\ \A n \in Nodes : Len(shown[n]) <= Len(batches[n])
  /\ cmd # "create" => \A n \in Nodes : Len(shown[n]) = Len(batches[n])

LEMMA TypeOKIs == BatchTypes /\ ShownTypes /\ ClientTypes => TypeOK
BY DEF TypeOK, BatchTypes, ShownTypes, ClientTypes

LEMMA Flags ==
  /\ SecondsPerBlock \in Nat /\ SecondsPerBlock > 0
  /\ NodeBlockTime \in Nat /\ NodeBlockTime > 0 /\ TtlThreshold \in Nat /\ TopUpTo \in Nat
  /\ UsageThreshold \in Nat /\ ExtraDepth \in Nat /\ BucketDepth \in Nat
  /\ Depth \in Nat /\ Depth > BucketDepth /\ Duration \in Nat /\ Duration > 0
  /\ MaxEvents \in Nat /\ MaxFailures \in Nat /\ NodeCount \in Nat /\ NodeCount > 0
  /\ 2^ExtraDepth \in Nat /\ 2^ExtraDepth > 0
BY FlagsAssumption, PowPositive

LEMMA Smallest ==
  ASSUME NEW S \in SUBSET Nat, S # {}
  PROVE  \E m \in S : \A n \in S : m <= n
<1> DEFINE R == {ss \in Nat \X Nat : ss[1] < ss[2]}
<1>1. IsWellFoundedOn(R, Nat)
  BY NatLessThanWellFounded, Zenon DEF OpToRel
<1>2. PICK m \in S : \A n \in S : <<n, m>> \notin R
  <2> HIDE DEF R
  <2>1. QED
    BY <1>1, WFMin
<1>3. \A n \in S : ~(n < m)
  <2> SUFFICES ASSUME NEW n \in S, n < m PROVE FALSE
    OBVIOUS
  <2>1. <<n, m>> \in R
    OBVIOUS
  <2>2. QED
    BY <1>2, <2>1
<1>4. QED
  BY <1>3

\* The loop stops at the first batch it handles.
LEMMA NextHandledIs ==
  ASSUME ClientTypes
  PROVE  /\ NextHandled \in idx..(Len(snap) + 1)
         /\ NextHandled <= Len(snap) => Handles(snap[NextHandled])
         /\ \A j \in idx..Len(snap) : j < NextHandled => ~Handles(snap[j])
<1> DEFINE ks == {k \in idx..Len(snap) : Handles(snap[k])}
<1>1. Len(snap) \in Nat /\ idx \in 1..(Len(snap) + 1)
  BY DEF ClientTypes
<1>2. NextHandled = IF ks = {} THEN Len(snap) + 1 ELSE CHOOSE k \in ks : \A j \in ks : k <= j
  BY DEF NextHandled
<1>3. CASE ks = {}
  BY <1>1, <1>2, <1>3
<1>4. CASE ks # {}
  <2>1. ks \in SUBSET Nat
    BY <1>1
  <2>2. \E k \in ks : \A j \in ks : k <= j
    <3> HIDE DEF ks
    <3>1. QED
      BY <1>4, <2>1, Smallest
  <2>3. NextHandled \in ks /\ \A j \in ks : NextHandled <= j
    <3> HIDE DEF ks
    <3>1. QED
      BY <1>2, <1>4, <2>2
  <2>4. QED
    BY <1>1, <2>3
<1>5. QED
  BY <1>3, <1>4

-----------------------------------------------------------------------------
(* What the steps have in common.                                            *)

LEMMA EndNodeIs ==
  ASSUME ClientTypes, EndNode
  PROVE  /\ pc' \in {"price", "list", "idle", "done"} /\ (pc' = "list" => cmd = "dilute")
         /\ node' \in Nodes /\ passed' \in BOOLEAN
<1>1. FirstStep \in {"price", "list"} /\ (FirstStep = "list" => cmd = "dilute")
  BY DEF FirstStep
<1>2. node \in Nat /\ 1 <= node /\ NodeCount \in Nat
  BY Flags DEF ClientTypes, Nodes
<1>3. CASE node + 1 <= NodeCount
  BY <1>1, <1>2, <1>3 DEF ClientTypes, EndNode, GoTo, Nodes
<1>4. CASE ~(node + 1 <= NodeCount)
  BY <1>1, <1>4 DEF ClientTypes, EndNode, GoTo
<1>5. QED
  BY <1>3, <1>4

LEMMA CountFailureIs ==
  ASSUME ClientTypes, NEW possible \in BOOLEAN, NEW o \in Outcomes(possible), CountFailure(o, possible)
  PROVE  failures' \in 0..MaxFailures
BY Flags DEF ClientTypes, Outcomes, CountFailure

\* The client is done with the node.
LEMMA AwayInv ==
  ASSUME Inv, BatchTypes', EndNode, idx' = 1, UNCHANGED <<price, events, cmd, snap, snapPrice, late>>,
         broken' \subseteq Nodes, failures' \in 0..MaxFailures
  PROVE  Inv'
<1>1. /\ pc' \in {"price", "list", "idle", "done"} /\ (pc' = "list" => cmd = "dilute")
      /\ node' \in Nodes /\ passed' \in BOOLEAN
  BY EndNodeIs DEF Inv
<1>2. ClientTypes'
  BY <1>1 DEF Inv, ClientTypes
<1>3. Position' /\ ListIsOld' /\ TtlOfPrice'
  BY <1>1 DEF Inv, Position, ListIsOld, TtlOfPrice
<1>4. QED
  BY <1>2, <1>3 DEF Inv

LEMMA NodeFailsInv ==
  ASSUME Inv, BatchTypes', NodeFails, UNCHANGED <<price, events>>, failures' \in 0..MaxFailures
  PROVE  Inv'
BY AwayInv DEF Inv, ClientTypes, NodeFails

\* The client goes on with the list: past batch k, or to its dilution.
LEMMA StayInv ==
  ASSUME Inv, BatchTypes', pc \in {"batch", "dilute"}, failures' \in 0..MaxFailures,
         UNCHANGED <<price, cmd, node, snap, snapPrice, late, passed, broken, events>>,
         NEW k \in idx..Len(snap),
         \/ pc' = "batch" /\ idx' = k + 1
         \/ pc' = "dilute" /\ idx' = k /\ cmd = "set",
         Len(batches'[node]) = Len(batches[node]),
         \A i \in 1..Len(snap) : i # k => batches'[node][i] = batches[node][i]
  PROVE  Inv'
<1>1. Len(snap) \in Nat /\ idx \in 1..(Len(snap) + 1) /\ node \in Nodes
  BY DEF Inv, ClientTypes
<1>2. ClientTypes'
  <2>1. idx' \in 1..(Len(snap) + 1)
    BY <1>1
  <2>2. QED
    BY <2>1 DEF Inv, ClientTypes
<1>3. Position'
  BY <1>1 DEF Inv, Position
<1>4. ListIsOld'
  <2>1. Len(snap') = Len(batches'[node'])
    BY DEF Inv, ListIsOld
  <2>2. ASSUME NEW i \in idx'..Len(snap)
        PROVE  pc' = "batch" \/ i # idx' => late \/ batches'[node][i].balance <= snap[i].balance
    <3>1. i \in idx..Len(snap) /\ i \in 1..Len(snap)
      BY <1>1
    <3>2. CASE i = k
      BY <1>1, <3>1, <3>2 DEF Inv, ListIsOld
    <3>3. CASE i # k
      <4>1. i # idx
        BY <1>1, <3>3
      <4>2. QED
        BY <3>1, <3>3, <4>1 DEF Inv, ListIsOld
    <3>4. QED
      BY <3>2, <3>3
  <2>3. QED
    BY <2>1, <2>2 DEF ListIsOld
<1>5. TtlOfPrice'
  BY DEF Inv, TtlOfPrice
<1>6. QED
  BY <1>2, <1>3, <1>4, <1>5 DEF Inv

\* One batch of one node is replaced.
Changes(n, k, r) == batches' = [batches EXCEPT ![n][k] = r]

LEMMA ChangeOne ==
  ASSUME BatchTypes, NEW n \in Nodes, NEW k \in DOMAIN batches[n],
         NEW r \in BatchRecords, Sound(r), Changes(n, k, r)
  PROVE  /\ BatchTypes'
         /\ \A m \in Nodes : DOMAIN batches'[m] = DOMAIN batches[m] /\ Len(batches'[m]) = Len(batches[m])
         /\ \A m \in Nodes : m # n => batches'[m] = batches[m]
         /\ \A i \in DOMAIN batches[n] : i # k => batches'[n][i] = batches[n][i]
         /\ batches'[n][k] = r
<1> DEFINE old == batches[n]
           new == [old EXCEPT ![k] = r]
<1>1. old \in Seq(BatchRecords) /\ k \in DOMAIN old
  BY DEF BatchTypes
<1>2. batches' = [batches EXCEPT ![n] = new]
  BY DEF Changes
<1>3. /\ new \in Seq(BatchRecords) /\ DOMAIN new = DOMAIN old /\ Len(new) = Len(old)
      /\ new[k] = r /\ \A i \in DOMAIN old : i # k => new[i] = old[i]
  <2> HIDE DEF old
  <2>1. QED
    BY <1>1
<1> HIDE DEF new
<1>4. batches'[n] = new /\ \A m \in Nodes : m # n => batches'[m] = batches[m]
  BY <1>2 DEF BatchTypes
<1>5. \A m \in Nodes : DOMAIN batches'[m] = DOMAIN batches[m] /\ Len(batches'[m]) = Len(batches[m])
  BY <1>3, <1>4
<1>6. batches' \in [Nodes -> Seq(BatchRecords)]
  BY <1>2, <1>3 DEF BatchTypes
<1>7. ASSUME NEW m \in Nodes, NEW i \in DOMAIN batches'[m] PROVE Sound(batches'[m][i])
  <2>1. CASE m = n /\ i = k
    BY <1>3, <1>4, <2>1
  <2>2. CASE m = n /\ i # k
    BY <1>3, <1>4, <1>5, <2>2 DEF BatchTypes
  <2>3. CASE m # n
    BY <1>4, <1>5, <2>3 DEF BatchTypes
  <2>4. QED
    BY <2>1, <2>2, <2>3
<1>8. BatchTypes'
  BY <1>6, <1>7 DEF BatchTypes
<1>9. QED
  BY <1>3, <1>4, <1>5, <1>8

LEMMA PricesAre ==
  /\ Prices \subseteq Nat /\ MaxPrice \in Prices /\ MaxPrice \in Nat
  /\ \A p \in Prices \cup {0} : p \in Nat /\ p <= MaxPrice
<1>1. MaxPrice \in Prices /\ \A q \in Prices : q <= MaxPrice
  BY ChainAssumption DEF MaxPrice
<1>2. QED
  BY <1>1, ChainAssumption

LEMMA ScaleIs == ASSUME NEW b PROVE Scale(b) \in Nat /\ Scale(b) > 0 /\ Scale(b) <= 2^ExtraDepth
BY Flags DEF Scale

\* A top-up pays for at most --topup-to.
LEMMA AmountIs ==
  ASSUME snapPrice \in Nat, NEW b, b.ttl \in Nat, WantsTopup(b)
  PROVE  /\ TopupAmount(b) \in Nat
         /\ \E z \in Nat : z <= TopUpTo /\ TopupAmount(b) = (z \div SecondsPerBlock) * snapPrice
<1> DEFINE c == Scale(b)
           t == b.ttl
           a == TopUpTo * c - t
           z == a \div c
<1>1. c \in Nat /\ c > 0 /\ t \in Nat /\ TopUpTo \in Nat
  BY ScaleIs, Flags
<1>2. TopupAmount(b) = (z \div SecondsPerBlock) * snapPrice /\ TopUpTo * c > t
  BY DEF TopupAmount, Blocks, WantsTopup
<1> HIDE DEF c, t
<1>3. a \in Nat /\ a <= c * TopUpTo
  BY <1>1, <1>2
<1> HIDE DEF a
<1>4. z \in Nat /\ z <= TopUpTo
  <2>1. a < c * (TopUpTo + 1)
    BY <1>1, <1>3
  <2>2. QED
    BY <1>1, <1>3, <2>1, DivIs, DivHigh
<1> HIDE DEF z
<1>5. z \div SecondsPerBlock \in Nat
  BY <1>4, Flags, DivIs
<1>6. (z \div SecondsPerBlock) * snapPrice \in Nat
  BY <1>5
<1>7. QED
  BY <1>2, <1>4, <1>6

-----------------------------------------------------------------------------
(* Every action keeps the invariant.                                         *)

LEMMA InitInv == Init => Inv
<1> SUFFICES ASSUME Init PROVE Inv
  OBVIOUS
<1>1. BatchTypes
  BY ChainAssumption DEF Init, BatchTypes
<1>2. 1 \in Nodes /\ 0 \in 0..MaxEvents /\ 0 \in 0..MaxFailures
  BY Flags DEF Nodes
<1>3. ClientTypes
  <2>1. snap \in Seq(ReportRecords) /\ idx \in 1..(Len(snap) + 1)
    BY DEF Init
  <2>2. QED
    BY <1>2, <2>1 DEF Init, ClientTypes
<1>4. Position /\ ListIsOld /\ TtlOfPrice
  BY DEF Init, Position, ListIsOld, TtlOfPrice
<1>5. QED
  BY <1>1, <1>3, <1>4 DEF Inv

LEMMA BeginInv == ASSUME Inv, Begin \/ BeginFails PROVE Inv'
<1>1. 1 \in Nodes
  BY Flags DEF Nodes
<1>2. /\ pc' \in {"idle", "done", "price", "list"} /\ (pc' = "list" => cmd = "dilute")
      /\ UNCHANGED <<price, batches, cmd, snap, snapPrice, late, events>>
      /\ node' \in {node, 1} /\ idx' \in {idx, 1} /\ broken' \in {broken, {}}
      /\ (passed' = passed \/ passed' = FALSE)
  BY DEF Begin, BeginFails, FirstStep
<1>3. failures' \in 0..MaxFailures
  BY Flags DEF Begin, BeginFails, Inv, ClientTypes
<1>4. ClientTypes'
  <2>1. passed' \in BOOLEAN
    BY <1>2, Zenon DEF Inv, ClientTypes
  <2>2. idx' \in 1..(Len(snap') + 1)
    BY <1>2 DEF Inv, ClientTypes
  <2>3. node' \in Nodes /\ broken' \subseteq Nodes
    BY <1>1, <1>2 DEF Inv, ClientTypes
  <2>4. QED
    BY <1>2, <1>3, <2>1, <2>2, <2>3 DEF Inv, ClientTypes
<1>5. BatchTypes'
  BY <1>2 DEF Inv, BatchTypes
<1>6. Position' /\ ListIsOld' /\ TtlOfPrice'
  BY <1>2 DEF Inv, Position, ListIsOld, TtlOfPrice
<1>7. QED
  BY <1>4, <1>5, <1>6 DEF Inv

LEMMA ReadPriceInv == ASSUME Inv, ReadPrice PROVE Inv'
<1>1. PICK o \in Outcomes(price > 0) \ {"lost"} :
        /\ CountFailure(o, price > 0)
        /\ \/ /\ o = "ok" /\ snapPrice' = price
              /\ pc' = IF cmd = "create" THEN "create" ELSE "list"
              /\ UNCHANGED <<cmd, node, idx, snap, late, passed, broken>>
           \/ o = "refused" /\ NodeFails
  BY DEF ReadPrice
<1>2. UNCHANGED <<price, batches, events>>
  BY DEF ReadPrice
<1>3. failures' \in 0..MaxFailures
  <2> DEFINE possible == price > 0
  <2>1. possible \in BOOLEAN /\ o \in Outcomes(possible) /\ CountFailure(o, possible)
    BY <1>1
  <2> HIDE DEF possible
  <2>2. QED
    BY <2>1, CountFailureIs DEF Inv
<1>4. BatchTypes'
  BY <1>2 DEF Inv, BatchTypes
<1>5. CASE NodeFails
  BY <1>2, <1>3, <1>4, <1>5, NodeFailsInv
<1>6. CASE ~NodeFails
  <2>1. /\ snapPrice' = price /\ pc' = IF cmd = "create" THEN "create" ELSE "list"
        /\ UNCHANGED <<cmd, node, idx, snap, late, passed, broken>>
    BY <1>1, <1>6
  <2>2. ClientTypes'
    BY <1>2, <1>3, <2>1 DEF Inv, ClientTypes
  <2>3. Position' /\ ListIsOld' /\ TtlOfPrice'
    BY <2>1 DEF Inv, Position, ListIsOld, TtlOfPrice
  <2>4. QED
    BY <1>4, <2>2, <2>3 DEF Inv
<1>7. QED
  BY <1>5, <1>6

\* What a node reports of a batch.
LEMMA ReportOfIs ==
  ASSUME price \in Prices, NEW b \in BatchRecords
  PROVE  /\ ReportOf(b) \in ReportRecords
         /\ ReportOf(b).depth = b.depth /\ ReportOf(b).balance = b.balance
         /\ ReportOf(b).ttl > 0 =>
              price > 0 /\ ReportOf(b).ttl = (b.balance \div price) * NodeBlockTime
<1>1. b.balance \in Nat /\ price \in Nat /\ NodeBlockTime \in Nat
  BY PricesAre, Flags DEF BatchRecords
<1>2. BatchTTL(b) \in Int
  <2>1. CASE price = 0
    BY <2>1 DEF BatchTTL
  <2>2. CASE price # 0
    <3>1. b.balance \div price \in Nat
      BY <1>1, <2>2, DivIs
    <3>2. QED
      BY <1>1, <2>2, <3>1 DEF BatchTTL
  <2>3. QED
    BY <2>1, <2>2
<1>3. ReportOf(b) \in ReportRecords
  BY <1>2 DEF ReportOf, ReportRecords, BatchRecords
<1>4. BatchTTL(b) > 0 => price > 0 /\ BatchTTL(b) = (b.balance \div price) * NodeBlockTime
  BY <1>1 DEF BatchTTL
<1>5. QED
  BY <1>3, <1>4 DEF ReportOf

LEMMA ReadBatchesInv == ASSUME Inv, ShownTypes, ReadBatches PROVE Inv'
<1>1. pc = "list" /\ UNCHANGED <<price, batches, shown, events>>
  BY DEF ReadBatches
<1>2. failures' \in 0..MaxFailures
  <2>1. failures' = failures \/ (failures < MaxFailures /\ failures' = failures + 1)
    BY DEF ReadBatches
  <2>2. QED
    BY <2>1, Flags DEF Inv, ClientTypes
<1>3. BatchTypes'
  BY <1>1 DEF Inv, BatchTypes
<1>4. CASE NodeFails
  BY <1>1, <1>2, <1>3, <1>4, NodeFailsInv
<1>5. CASE ~NodeFails
  <2>1. /\ snap' = Report(shown[node]) /\ pc' = "batch" /\ idx' = 1
        /\ broken' \in {broken, broken \cup {node}}
        /\ late' = \E i \in DOMAIN shown[node] : shown[node][i].balance < batches[node][i].balance
        /\ UNCHANGED <<cmd, node, snapPrice, passed>>
    BY <1>5 DEF ReadBatches
  <2> DEFINE bs == batches[node]
             sh == shown[node]
  <2>2. /\ bs \in Seq(BatchRecords) /\ node \in Nodes /\ price \in Prices
        /\ sh \in Seq(BatchRecords) /\ Len(sh) = Len(bs)
    BY <1>1 DEF Inv, BatchTypes, ClientTypes, ShownTypes, Position
  <2>3. late' = \E i \in DOMAIN sh : sh[i].balance < bs[i].balance
    BY <2>1
  <2> HIDE DEF bs, sh
  <2>4. /\ Len(bs) \in Nat /\ DOMAIN sh = 1..Len(bs)
        /\ \A i \in 1..Len(bs) : bs[i] \in BatchRecords /\ sh[i] \in BatchRecords
    BY <2>2
  <2>5. snap' = [i \in 1..Len(bs) |-> ReportOf(sh[i])]
    BY <2>1, <2>4 DEF Report, sh
  <2>6. \A i \in 1..Len(bs) : ReportOf(sh[i]) \in ReportRecords
    BY <2>2, <2>4, ReportOfIs
  <2>7. snap' \in Seq(ReportRecords) /\ Len(snap') = Len(bs)
    BY <2>4, <2>5, <2>6
  <2>8. late' \in BOOLEAN
    BY <2>1, Zenon
  <2>9. ClientTypes'
    <3>1. idx' \in 1..(Len(snap') + 1) /\ broken' \subseteq Nodes
      BY <2>1, <2>2, <2>4, <2>7 DEF Inv, ClientTypes
    <3>2. QED
      BY <1>1, <1>2, <2>1, <2>7, <2>8, <3>1 DEF Inv, ClientTypes
  <2>10. Position'
    BY <1>1, <2>1 DEF Inv, Position
  <2>11. ListIsOld'
    <3>1. ASSUME NEW i \in 1..Len(bs)
          PROVE  late' \/ bs[i].balance <= snap'[i].balance
      <4>1. bs[i].balance \in Nat /\ sh[i].balance \in Nat /\ sh[i] \in BatchRecords
        BY <2>4 DEF BatchRecords
      <4>2. snap'[i].balance = sh[i].balance
        BY <2>2, <2>5, <4>1, ReportOfIs
      <4>3. CASE sh[i].balance < bs[i].balance
        BY <2>3, <2>4, <4>3
      <4>4. CASE ~(sh[i].balance < bs[i].balance)
        BY <4>1, <4>2, <4>4
      <4>5. QED
        BY <4>3, <4>4
    <3>2. QED
      BY <1>1, <2>1, <2>7, <3>1 DEF ListIsOld, bs
  <2>12. TtlOfPrice'
    <3> SUFFICES ASSUME NEW i \in 1..Len(bs), snap'[i].ttl > 0
                 PROVE  \E p \in Prices : p > 0 /\ snap'[i].ttl = (snap'[i].balance \div p) * NodeBlockTime
      BY <2>7 DEF TtlOfPrice
    <3>1. snap'[i] = ReportOf(sh[i]) /\ sh[i] \in BatchRecords
      BY <2>4, <2>5
    <3>2. price > 0 /\ snap'[i].ttl = (snap'[i].balance \div price) * NodeBlockTime
      BY <2>2, <3>1, ReportOfIs
    <3>3. QED
      BY <2>2, <3>2
  <2>13. QED
    BY <1>3, <2>9, <2>10, <2>11, <2>12 DEF Inv
<1>6. QED
  BY <1>4, <1>5

LEMMA NoMoreBatchesInv == ASSUME Inv, NoMoreBatches PROVE Inv'
<1>1. EndNode /\ idx' = 1 /\ UNCHANGED <<price, batches, cmd, snap, snapPrice, late, broken, events, failures>>
  BY DEF NoMoreBatches
<1>2. BatchTypes'
  BY <1>1 DEF Inv, BatchTypes
<1>3. QED
  BY <1>1, <1>2, AwayInv DEF Inv, ClientTypes

\* The batch the loop stops at.
LEMMA HandledIs ==
  ASSUME Inv, NEW k \in idx..Len(snap), pc \in {"batch", "dilute"}
  PROVE  /\ k \in 1..Len(snap) /\ DOMAIN batches[node] = 1..Len(snap) /\ k \in DOMAIN batches[node]
         /\ Len(batches[node]) = Len(snap)
         /\ batches[node][k] \in BatchRecords /\ Sound(batches[node][k])
         /\ snap[k] \in ReportRecords /\ snap[k].ttl \in Int
         /\ snap[k].balance \in Nat /\ snap[k].depth \in Nat
<1>1. Len(snap) \in Nat /\ idx \in 1..(Len(snap) + 1) /\ snap \in Seq(ReportRecords) /\ node \in Nodes
  BY DEF Inv, ClientTypes
<1>2. k \in 1..Len(snap)
  BY <1>1
<1>3. batches[node] \in Seq(BatchRecords) /\ Len(batches[node]) = Len(snap)
  BY <1>1 DEF Inv, BatchTypes, ListIsOld
<1>4. DOMAIN batches[node] = 1..Len(snap) /\ batches[node][k] \in BatchRecords
  BY <1>2, <1>3
<1>5. Sound(batches[node][k])
  BY <1>1, <1>2, <1>4 DEF Inv, BatchTypes
<1>6. snap[k] \in ReportRecords /\ snap[k].ttl \in Int /\ snap[k].balance \in Nat /\ snap[k].depth \in Nat
  <2>1. snap[k] \in ReportRecords
    BY <1>1, <1>2
  <2>2. QED
    BY <2>1 DEF ReportRecords
<1>7. QED
  BY <1>2, <1>3, <1>4, <1>5, <1>6

LEMMA ToppedUpIs ==
  ASSUME NEW b \in BatchRecords, Sound(b), NEW a \in Nat
  PROVE  /\ ToppedUp(b, a) \in BatchRecords /\ Sound(ToppedUp(b, a))
         /\ ToppedUp(b, a).balance = b.balance + a /\ ToppedUp(b, a).depth = b.depth
         /\ ToppedUp(b, a).util = b.util /\ ToppedUp(b, a).usable = b.usable
         /\ ToppedUp(b, a).id = b.id /\ ToppedUp(b, a).label = b.label
<1> DEFINE r == ToppedUp(b, a)
<1>1. /\ r \in BatchRecords /\ r.balance = b.balance + a /\ r.depth = b.depth /\ r.util = b.util
      /\ r.usable = b.usable /\ r.id = b.id /\ r.label = b.label
  BY DEF ToppedUp, BatchRecords
<1> HIDE DEF r
<1>2. Sound(r)
  BY <1>1 DEF Sound, Capacity
<1>3. QED
  BY <1>1, <1>2 DEF r

\* Diluting spreads the balance and makes room.
LEMMA DilutedIs ==
  ASSUME NEW b \in BatchRecords, Sound(b), NEW e \in Nat, NEW d, d = b.depth + e
  PROVE  /\ Diluted(b, d) \in BatchRecords /\ Sound(Diluted(b, d))
         /\ Diluted(b, d).balance = b.balance \div 2^e
         /\ Diluted(b, d).balance <= b.balance
         /\ Diluted(b, d).depth = d /\ Diluted(b, d).util = b.util
         /\ Diluted(b, d).usable = b.usable /\ Diluted(b, d).id = b.id /\ Diluted(b, d).label = b.label
         /\ Capacity(b) \in Nat /\ Capacity(b) > 0
         /\ Capacity(Diluted(b, d)) = Capacity(b) * 2^e
<1> DEFINE r == Diluted(b, d)
           x == b.balance \div 2^e
           n == b.depth - BucketDepth
<1>0. 2^e \in Nat /\ 2^e > 0
  BY PowPositive
<1>1. b.balance \in Nat /\ b.depth \in Nat /\ b.util \in Nat /\ n \in Nat /\ b.util <= 2^n
  BY Flags DEF BatchRecords, Sound, Capacity
<1>2. x \in Nat /\ x <= b.balance
  BY <1>0, <1>1, DivIs, DivAtMost
<1>3. d \in Nat /\ d - b.depth = e /\ d - BucketDepth = n + e
  BY <1>1, Flags
<1>4. r = [b EXCEPT !.depth = d, !.balance = x]
  BY <1>3 DEF Diluted
<1> HIDE DEF r, x
<1>5. /\ r \in BatchRecords /\ r.balance = x /\ r.depth = d /\ r.util = b.util
      /\ r.usable = b.usable /\ r.id = b.id /\ r.label = b.label
  BY <1>2, <1>3, <1>4 DEF BatchRecords
<1>6. Capacity(r) = 2^(n + e) /\ Capacity(b) = 2^n
  BY <1>3, <1>5 DEF Capacity
<1> HIDE DEF n
<1>7. Capacity(b) \in Nat /\ Capacity(b) > 0 /\ Capacity(r) = Capacity(b) * 2^e
  BY <1>0, <1>1, <1>6, PowSum, PowPositive
<1>8. Capacity(b) <= Capacity(r)
  <2>1. Capacity(b) * 1 <= Capacity(b) * 2^e
    BY <1>0, <1>7, ProductMono
  <2>2. QED
    BY <1>7, <2>1
<1>9. Sound(r)
  <2>1. r.depth >= BucketDepth
    BY <1>1, <1>3, <1>5, Flags DEF Sound
  <2>2. r.util <= Capacity(r)
    <3>1. Capacity(r) \in Nat /\ b.util <= Capacity(b)
      BY <1>0, <1>1, <1>6, <1>7
    <3>2. QED
      BY <1>1, <1>5, <1>7, <1>8, <3>1
  <2>3. QED
    BY <2>1, <2>2 DEF Sound
<1>10. QED
  BY <1>2, <1>5, <1>7, <1>9 DEF r, x

\* Where the client goes after a top-up that was not needed or was answered.
AfterTopup(k) ==
  IF cmd = "set" /\ NeedsDilution(snap[k])
  THEN pc' = "dilute" /\ idx' = k /\ UNCHANGED <<node, passed>>
  ELSE AfterBatch(k)

LEMMA AfterTopupInv ==
  ASSUME Inv, BatchTypes', pc = "batch", NEW k \in idx..Len(snap), AfterTopup(k),
         UNCHANGED <<price, cmd, snap, snapPrice, late, broken, events>>, failures' \in 0..MaxFailures,
         Len(batches'[node]) = Len(batches[node]),
         \A i \in 1..Len(snap) : i # k => batches'[node][i] = batches[node][i]
  PROVE  Inv'
<1>1. CASE pc' = "dilute" /\ idx' = k /\ cmd = "set" /\ UNCHANGED <<node, passed>>
  BY <1>1, StayInv
<1>2. CASE pc' = "batch" /\ idx' = k + 1 /\ UNCHANGED <<node, passed>>
  BY <1>2, StayInv
<1>3. CASE EndNode /\ idx' = 1
  BY <1>3, AwayInv DEF Inv, ClientTypes
<1>4. QED
  BY <1>1, <1>2, <1>3 DEF AfterTopup, AfterBatch

LEMMA KeepTtlInv == ASSUME Inv, KeepTtl PROVE Inv'
<1> DEFINE k == NextHandled
<1>1. /\ pc = "batch" /\ k <= Len(snap) /\ AfterTopup(k)
      /\ UNCHANGED <<price, batches, cmd, snap, snapPrice, late, broken, events, failures>>
  BY DEF KeepTtl, AfterTopup
<1>2. k \in idx..Len(snap)
  BY <1>1, NextHandledIs DEF Inv, ClientTypes
<1> HIDE DEF k
<1>3. BatchTypes'
  BY <1>1 DEF Inv, BatchTypes
<1>4. QED
  BY <1>1, <1>2, <1>3, AfterTopupInv DEF Inv, ClientTypes

\* A batch of the node at hand is replaced by r, or nothing changes.
Replaced(k, r) ==
  /\ batches'[node][k] = r
  /\ \A m \in Nodes : DOMAIN batches'[m] = DOMAIN batches[m] /\ Len(batches'[m]) = Len(batches[m])
  /\ \A m \in Nodes : m # node => batches'[m] = batches[m]
  /\ \A i \in 1..Len(snap) : i # k => batches'[node][i] = batches[node][i]

LEMMA TopupBatchIs ==
  ASSUME Inv, TopupBatch
  PROVE  \E k \in idx..Len(snap) :
           LET r == ToppedUp(batches[node][k], TopupAmount(snap[k]))
           IN  /\ pc = "batch" /\ k = NextHandled /\ WantsTopup(snap[k]) /\ isValidBatch(snap[k])
               /\ TopupAmount(snap[k]) \in Nat
               /\ UNCHANGED <<price, events>> /\ failures' \in 0..MaxFailures /\ BatchTypes'
               /\ \/ NodeFails /\ (batches' = batches \/ Replaced(k, r))
                  \/ /\ AfterTopup(k) /\ Replaced(k, r)
                     /\ UNCHANGED <<cmd, snap, snapPrice, late, broken>>
<1> DEFINE k == NextHandled
           a == TopupAmount(snap[k])
           r == ToppedUp(batches[node][k], a)
           free == ~Expired(k)
<1>1. PICK o \in Outcomes(free) :
        /\ CountFailure(o, free)
        /\ batches' = IF o \in Carried THEN [batches EXCEPT ![node][k] = r] ELSE batches
        /\ \/ o = "ok" /\ AfterTopup(k) /\ UNCHANGED <<cmd, snap, snapPrice, late, broken>>
           \/ o # "ok" /\ NodeFails
  BY DEF TopupBatch, AfterTopup
<1>2. pc = "batch" /\ k <= Len(snap) /\ WantsTopup(snap[k]) /\ UNCHANGED <<price, events>>
  BY DEF TopupBatch
<1>3. k \in idx..Len(snap) /\ Handles(snap[k])
  BY <1>2, NextHandledIs DEF Inv, ClientTypes
<1>4. isValidBatch(snap[k])
  BY <1>3 DEF Handles
<1>5. failures' \in 0..MaxFailures
  <2>1. free \in BOOLEAN
    BY DEF Expired
  <2> HIDE DEF free
  <2>2. QED
    BY <1>1, <2>1, CountFailureIs DEF Inv
<1> HIDE DEF k
<1>6. /\ k \in DOMAIN batches[node] /\ DOMAIN batches[node] = 1..Len(snap) /\ snap[k].ttl \in Int
      /\ batches[node][k] \in BatchRecords /\ Sound(batches[node][k]) /\ node \in Nodes
  BY <1>2, <1>3, HandledIs DEF Inv, ClientTypes
<1>7. a \in Nat
  <2>1. snapPrice \in Nat
    BY PricesAre DEF Inv, ClientTypes
  <2>2. snap[k].ttl \in Nat
    BY <1>4, <1>6 DEF isValidBatch
  <2>3. QED
    BY <1>2, <2>1, <2>2, AmountIs
<1> HIDE DEF a
<1>8. r \in BatchRecords /\ Sound(r)
  BY <1>6, <1>7, ToppedUpIs
<1> HIDE DEF r
<1>9. CASE batches' = [batches EXCEPT ![node][k] = r]
  <2>0. Changes(node, k, r)
    BY <1>9 DEF Changes
  <2>1. BatchTypes' /\ Replaced(k, r)
    BY <1>6, <1>8, <2>0, ChangeOne DEF Inv, Replaced
  <2>2. QED
    BY <1>1, <1>2, <1>3, <1>4, <1>5, <1>7, <2>1 DEF k, a, r
<1>10. CASE batches' = batches /\ o \notin Carried
  <2>1. BatchTypes'
    BY <1>10 DEF Inv, BatchTypes
  <2>2. o # "ok"
    BY <1>10 DEF Carried
  <2>3. QED
    BY <1>1, <1>2, <1>3, <1>4, <1>5, <1>7, <1>10, <2>1, <2>2 DEF k, a, r
<1>11. QED
  BY <1>1, <1>9, <1>10

LEMMA TopupBatchInv == ASSUME Inv, TopupBatch PROVE Inv'
<1>1. PICK k \in idx..Len(snap), r \in BatchRecords :
        /\ pc = "batch"
        /\ UNCHANGED <<price, events>> /\ failures' \in 0..MaxFailures /\ BatchTypes'
        /\ \/ NodeFails
           \/ AfterTopup(k) /\ Replaced(k, r) /\ UNCHANGED <<cmd, snap, snapPrice, late, broken>>
  BY TopupBatchIs, HandledIs, ToppedUpIs
<1>2. CASE NodeFails
  BY <1>1, <1>2, NodeFailsInv
<1>3. CASE AfterTopup(k) /\ Replaced(k, r) /\ UNCHANGED <<cmd, snap, snapPrice, late, broken>>
  <2>1. node \in Nodes
    BY DEF Inv, ClientTypes
  <2>2. /\ Len(batches'[node]) = Len(batches[node])
        /\ \A i \in 1..Len(snap) : i # k => batches'[node][i] = batches[node][i]
    BY <1>1, <1>3, <2>1 DEF Replaced
  <2>3. QED
    BY <1>1, <1>3, <2>2, AfterTopupInv
<1>4. QED
  BY <1>1, <1>2, <1>3

LEMMA DiluteBatchIs ==
  ASSUME Inv, DiluteBatch
  PROVE  \E k \in idx..Len(snap) :
           LET r == Diluted(batches[node][k], NewDepth(snap[k]))
           IN  /\ \/ pc = "dilute" /\ k = idx
                  \/ pc = "batch" /\ cmd = "dilute"
               /\ UNCHANGED <<price, events>> /\ failures' \in 0..MaxFailures /\ BatchTypes'
               /\ batches' = batches \/ NewDepth(snap[k]) > batches[node][k].depth
               /\ \/ NodeFails /\ (batches' = batches \/ Replaced(k, r))
                  \/ /\ AfterBatch(k) /\ Replaced(k, r)
                     /\ UNCHANGED <<cmd, snap, snapPrice, late, broken>>
<1> DEFINE k == IF pc = "dilute" THEN idx ELSE NextHandled
           d == NewDepth(snap[k])
           r == Diluted(batches[node][k], d)
           free == Dilutable(k)
<1>1. PICK o \in Outcomes(free) :
        /\ CountFailure(o, free)
        /\ batches' = IF o \in Carried THEN [batches EXCEPT ![node][k] = r] ELSE batches
        /\ \/ o = "ok" /\ AfterBatch(k) /\ UNCHANGED <<cmd, snap, snapPrice, late, broken>>
           \/ o # "ok" /\ NodeFails
  BY DEF DiluteBatch
<1>2. /\ \/ pc = "dilute"
         \/ pc = "batch" /\ cmd = "dilute" /\ NextHandled <= Len(snap)
      /\ UNCHANGED <<price, events>>
  BY DEF DiluteBatch
<1>3. k \in idx..Len(snap)
  BY <1>2, NextHandledIs DEF Inv, ClientTypes, Position
<1>4. (pc = "dilute" /\ k = idx) \/ (pc = "batch" /\ cmd = "dilute")
  BY <1>2
<1>5. failures' \in 0..MaxFailures
  <2>1. free \in BOOLEAN
    BY DEF Dilutable, Expired
  <2> HIDE DEF free
  <2>2. QED
    BY <1>1, <2>1, CountFailureIs DEF Inv
<1> HIDE DEF k
<1>6. /\ k \in DOMAIN batches[node] /\ DOMAIN batches[node] = 1..Len(snap)
      /\ batches[node][k] \in BatchRecords /\ Sound(batches[node][k]) /\ node \in Nodes
      /\ snap[k].depth \in Nat
  BY <1>3, <1>4, HandledIs DEF Inv, ClientTypes
<1>7. d \in Nat /\ (free => d > batches[node][k].depth)
  BY <1>6, Flags DEF NewDepth, Dilutable
<1>8. o \in Carried => free
  <2> HIDE DEF free
  <2>1. QED
    BY <1>1 DEF Outcomes, Carried
<1> HIDE DEF d, free
<1>81. ASSUME free PROVE r \in BatchRecords /\ Sound(r)
  <2> DEFINE e == d - batches[node][k].depth
  <2>1. batches[node][k].depth \in Nat
    BY <1>6 DEF BatchRecords
  <2>2. e \in Nat /\ d = batches[node][k].depth + e
    BY <1>7, <1>81, <2>1
  <2> HIDE DEF e
  <2>3. QED
    BY <1>6, <2>2, DilutedIs
<1> HIDE DEF r
<1>9. CASE batches' = [batches EXCEPT ![node][k] = r] /\ o \in Carried
  <2>0. Changes(node, k, r)
    BY <1>9 DEF Changes
  <2>1. BatchTypes' /\ Replaced(k, r)
    BY <1>6, <1>8, <1>81, <1>9, <2>0, ChangeOne DEF Inv, Replaced
  <2>2. QED
    BY <1>1, <1>2, <1>3, <1>4, <1>5, <1>7, <1>8, <1>9, <2>1 DEF r, d
<1>10. CASE batches' = batches /\ o \notin Carried
  <2>1. BatchTypes'
    BY <1>10 DEF Inv, BatchTypes
  <2>2. o # "ok"
    BY <1>10 DEF Carried
  <2>3. QED
    BY <1>1, <1>2, <1>3, <1>4, <1>5, <1>7, <1>10, <2>1, <2>2 DEF r, d
<1>11. QED
  BY <1>1, <1>9, <1>10

LEMMA DiluteBatchInv == ASSUME Inv, DiluteBatch PROVE Inv'
<1>0. PICK k \in idx..Len(snap) : \E r :
        /\ pc \in {"dilute", "batch"}
        /\ UNCHANGED <<price, events>> /\ failures' \in 0..MaxFailures /\ BatchTypes'
        /\ \/ NodeFails
           \/ AfterBatch(k) /\ Replaced(k, r) /\ UNCHANGED <<cmd, snap, snapPrice, late, broken>>
  BY DiluteBatchIs
<1>1. PICK r :
        /\ pc \in {"dilute", "batch"}
        /\ UNCHANGED <<price, events>> /\ failures' \in 0..MaxFailures /\ BatchTypes'
        /\ \/ NodeFails
           \/ AfterBatch(k) /\ Replaced(k, r) /\ UNCHANGED <<cmd, snap, snapPrice, late, broken>>
  BY <1>0
<1>2. CASE NodeFails
  BY <1>1, <1>2, NodeFailsInv
<1>3. CASE AfterBatch(k) /\ Replaced(k, r) /\ UNCHANGED <<cmd, snap, snapPrice, late, broken>>
  <2>1. node \in Nodes
    BY DEF Inv, ClientTypes
  <2>2. /\ Len(batches'[node]) = Len(batches[node])
        /\ \A i \in 1..Len(snap) : i # k => batches'[node][i] = batches[node][i]
    BY <1>3, <2>1 DEF Replaced
  <2>3. CASE pc' = "batch" /\ idx' = k + 1 /\ UNCHANGED <<node, passed>>
    BY <1>1, <1>3, <2>2, <2>3, StayInv
  <2>4. CASE EndNode /\ idx' = 1
    BY <1>1, <1>3, <2>4, AwayInv DEF Inv, ClientTypes
  <2>5. QED
    BY <1>3, <2>3, <2>4 DEF AfterBatch
<1>4. QED
  BY <1>1, <1>2, <1>3

LEMMA CreateBatchIs ==
  ASSUME Inv, CreateBatch
  PROVE  /\ cmd' = cmd /\ BatchTypes'
         /\ \A n \in Nodes : \A i \in DOMAIN batches[n] : batches'[n][i] = batches[n][i]
         /\ \A n \in Nodes : Len(batches[n]) <= Len(batches'[n])
<1>1. PICK o \in Outcomes(TRUE) :
        /\ batches' = IF o \in Carried THEN [batches EXCEPT ![node] = Append(@, NewBatch)] ELSE batches
        /\ cmd' = cmd
  BY DEF CreateBatch, NodeFails
<1> DEFINE b == NewBatch
           old == batches[node]
           new == Append(old, b)
<1>2. b \in BatchRecords /\ Sound(b)
  <2>1. Duration \div SecondsPerBlock \in Nat /\ snapPrice \in Nat
    BY Flags, DivIs, PricesAre DEF Inv, ClientTypes
  <2>2. Blocks(Duration) * snapPrice \in Nat
    BY <2>1 DEF Blocks
  <2>3. b \in BatchRecords /\ b.depth = Depth /\ b.util = 0
    <3> DEFINE x == Blocks(Duration) * snapPrice
    <3>1. b = [id |-> "new", label |-> "new", balance |-> x, depth |-> Depth, util |-> 0, usable |-> TRUE]
      BY DEF NewBatch
    <3>2. x \in Nat /\ Depth \in Nat
      BY <2>2, Flags
    <3> HIDE DEF x, b
    <3>3. QED
      BY <3>1, <3>2, ChainAssumption DEF BatchRecords
  <2>4. Depth - BucketDepth \in Nat
    BY Flags
  <2>5. 2^(Depth - BucketDepth) \in Nat
    BY <2>4, PowPositive
  <2>6. Sound(b)
    BY <2>3, <2>5, Flags DEF Sound, Capacity
  <2>7. QED
    BY <2>3, <2>6
<1> HIDE DEF b
<1>3. old \in Seq(BatchRecords) /\ node \in Nodes /\ \A i \in DOMAIN old : Sound(old[i])
  BY DEF Inv, BatchTypes, ClientTypes
<1>31. \A n \in Nodes : Len(batches[n]) \in Nat
  BY DEF Inv, BatchTypes
<1>4. CASE batches' = batches
  <2>1. \A n \in Nodes : Len(batches[n]) <= Len(batches'[n])
    BY <1>31, <1>4
  <2>2. QED
    BY <1>1, <1>4, <2>1 DEF Inv, BatchTypes
<1>5. CASE batches' = [batches EXCEPT ![node] = new]
  <2>1. /\ new \in Seq(BatchRecords) /\ DOMAIN old \subseteq DOMAIN new /\ Len(old) <= Len(new)
        /\ \A i \in DOMAIN new : i \in DOMAIN old \/ new[i] = b
        /\ \A i \in DOMAIN old : new[i] = old[i]
    <3> HIDE DEF old
    <3>1. QED
      BY <1>2, <1>3
  <2>2. \A i \in DOMAIN new : Sound(new[i])
    BY <1>2, <1>3, <2>1
  <2> HIDE DEF new
  <2>3. batches'[node] = new /\ \A n \in Nodes : n # node => batches'[n] = batches[n]
    BY <1>3, <1>5 DEF Inv, BatchTypes
  <2>4. batches' \in [Nodes -> Seq(BatchRecords)]
    BY <1>5, <2>1 DEF Inv, BatchTypes
  <2>5. BatchTypes'
    BY <1>3, <2>2, <2>3, <2>4 DEF Inv, BatchTypes
  <2>6. \A n \in Nodes : \A i \in DOMAIN batches[n] : batches'[n][i] = batches[n][i]
    BY <1>3, <2>1, <2>3
  <2>7. \A n \in Nodes : Len(batches[n]) <= Len(batches'[n])
    BY <1>31, <2>1, <2>3
  <2>8. QED
    BY <1>1, <2>5, <2>6, <2>7
<1>6. QED
  BY <1>1, <1>4, <1>5 DEF b

LEMMA CreateBatchInv == ASSUME Inv, CreateBatch PROVE Inv'
<1>1. PICK o \in Outcomes(TRUE) :
        /\ CountFailure(o, TRUE)
        /\ \/ EndNode /\ idx' = 1 /\ UNCHANGED <<cmd, snap, snapPrice, late, broken>>
           \/ NodeFails
  BY DEF CreateBatch
<1>2. failures' \in 0..MaxFailures /\ UNCHANGED <<price, events>> /\ BatchTypes'
  BY <1>1, CountFailureIs, CreateBatchIs DEF Inv, CreateBatch
<1>3. CASE NodeFails
  BY <1>2, <1>3, NodeFailsInv
<1>4. CASE EndNode /\ idx' = 1 /\ UNCHANGED <<cmd, snap, snapPrice, late, broken>>
  BY <1>2, <1>4, AwayInv DEF Inv, ClientTypes
<1>5. QED
  BY <1>1, <1>3, <1>4

\* What happens beside the client leaves lists as they are and adds to no balance.
Outside ==
  /\ UNCHANGED <<cmd, pc, node, idx, snap, snapPrice, late, passed, failures>>
  /\ price' \in Prices /\ broken' \subseteq Nodes /\ events' \in 0..MaxEvents /\ BatchTypes'
  /\ \A n \in Nodes :
      /\ Len(batches'[n]) = Len(batches[n]) /\ DOMAIN batches'[n] = DOMAIN batches[n]
      /\ \A i \in DOMAIN batches[n] : batches'[n][i].balance <= batches[n][i].balance

LEMMA EventIs == ASSUME Inv, Event PROVE events' \in 0..MaxEvents
BY Flags DEF Inv, ClientTypes, Event

LEMMA RecordsAre ==
  ASSUME BatchTypes, NEW n \in Nodes, NEW i \in DOMAIN batches[n]
  PROVE  /\ batches[n] \in Seq(BatchRecords) /\ batches[n][i] \in BatchRecords /\ Sound(batches[n][i])
         /\ batches[n][i].balance \in Nat /\ batches[n][i].util \in Nat /\ batches[n][i].depth \in Nat
<1>1. batches[n] \in Seq(BatchRecords) /\ Sound(batches[n][i])
  BY DEF BatchTypes
<1>2. batches[n][i] \in BatchRecords
  BY <1>1
<1>3. QED
  BY <1>1, <1>2 DEF BatchRecords

LEMMA PriceChangeIs == ASSUME Inv, PriceChange PROVE Outside
<1>1. /\ UNCHANGED <<batches, cmd, pc, node, idx, snap, snapPrice, late, passed, failures>>
      /\ price' \in Prices /\ broken' = Nodes
  BY DEF PriceChange, client
<1>2. BatchTypes' /\ events' \in 0..MaxEvents
  BY <1>1, EventIs DEF Inv, BatchTypes, PriceChange
<1>3. ASSUME NEW n \in Nodes, NEW i \in DOMAIN batches[n]
      PROVE  batches[n][i].balance <= batches[n][i].balance
  BY RecordsAre DEF Inv
<1>4. QED
  BY <1>1, <1>2, <1>3 DEF Outside

LEMMA SyncIs ==
  ASSUME Inv, NEW m \in Nodes, Sync(m)
  PROVE  Outside /\ UNCHANGED <<price, batches, broken>>
<1>1. /\ UNCHANGED <<price, batches, cmd, pc, node, idx, snap, snapPrice, late, passed, failures>>
      /\ UNCHANGED <<broken, events>>
  BY DEF Sync, client
<1>2. BatchTypes' /\ price' \in Prices /\ broken' \subseteq Nodes /\ events' \in 0..MaxEvents
  BY <1>1 DEF Inv, BatchTypes, ClientTypes
<1>3. ASSUME NEW n \in Nodes, NEW i \in DOMAIN batches[n]
      PROVE  batches[n][i].balance <= batches[n][i].balance
  BY RecordsAre DEF Inv
<1>4. QED
  BY <1>1, <1>2, <1>3 DEF Outside

LEMMA BlockIs == ASSUME Inv, Block PROVE Outside
<1> DEFINE Less(b) == [b EXCEPT !.balance = IF @ < price THEN 0 ELSE @ - price]
<1>1. /\ UNCHANGED <<price, cmd, pc, node, idx, snap, snapPrice, late, passed, failures>>
      /\ broken' = Nodes
      /\ batches' = [n \in Nodes |-> [i \in DOMAIN batches[n] |-> Less(batches[n][i])]]
  BY DEF Block, client
<1>2. price \in Nat /\ price \in Prices
  BY PricesAre DEF Inv, ClientTypes
<1>3. ASSUME NEW b \in BatchRecords, Sound(b)
      PROVE  Less(b) \in BatchRecords /\ Sound(Less(b)) /\ Less(b).balance <= b.balance
  <2> DEFINE x == IF b.balance < price THEN 0 ELSE b.balance - price
             r == [b EXCEPT !.balance = x]
  <2>1. x \in Nat /\ x <= b.balance /\ Less(b) = r
    BY <1>2 DEF BatchRecords
  <2> HIDE DEF x
  <2>2. r \in BatchRecords /\ r.depth = b.depth /\ r.util = b.util /\ r.balance = x
    BY <2>1 DEF BatchRecords
  <2> HIDE DEF r
  <2>3. Sound(r)
    BY <1>3, <2>2 DEF Sound, Capacity
  <2> HIDE DEF Less
  <2>4. QED
    BY <2>1, <2>2, <2>3
<1> HIDE DEF Less
<1>4. ASSUME NEW n \in Nodes
      PROVE  /\ batches'[n] \in Seq(BatchRecords)
             /\ Len(batches'[n]) = Len(batches[n]) /\ DOMAIN batches'[n] = DOMAIN batches[n]
             /\ \A i \in DOMAIN batches[n] : batches'[n][i] = Less(batches[n][i])
  <2> DEFINE old == batches[n]
             new == [i \in DOMAIN old |-> Less(old[i])]
  <2>1. batches'[n] = new
    BY <1>1
  <2>2. old \in Seq(BatchRecords) /\ \A i \in DOMAIN old : Sound(old[i])
    BY DEF Inv, BatchTypes
  <2> HIDE DEF old
  <2>3. \A i \in DOMAIN old : Less(old[i]) \in BatchRecords
    BY <1>3, <2>2
  <2>4. Len(old) \in Nat /\ DOMAIN old = 1..Len(old)
    BY <2>2
  <2>5. new \in Seq(BatchRecords) /\ Len(new) = Len(old) /\ DOMAIN new = DOMAIN old
    BY <2>3, <2>4
  <2>6. QED
    BY <2>1, <2>5 DEF old
<1>5. batches' \in [Nodes -> Seq(BatchRecords)]
  BY <1>1, <1>4
<1>6. ASSUME NEW n \in Nodes, NEW i \in DOMAIN batches[n]
      PROVE  /\ Sound(batches'[n][i])
             /\ batches'[n][i].balance <= batches[n][i].balance
  <2>1. batches[n][i] \in BatchRecords /\ Sound(batches[n][i])
    BY RecordsAre DEF Inv
  <2>2. batches'[n][i] = Less(batches[n][i])
    BY <1>4
  <2>3. QED
    BY <1>3, <2>1, <2>2
<1>7. BatchTypes'
  BY <1>4, <1>5, <1>6 DEF BatchTypes
<1>8. events' \in 0..MaxEvents
  BY EventIs DEF Block
<1>9. QED
  BY <1>1, <1>2, <1>4, <1>6, <1>7, <1>8 DEF Outside

LEMMA UploadIs ==
  ASSUME Inv, ShownTypes, NEW n \in Nodes, NEW k \in DOMAIN shown[n], Upload(n, k)
  PROVE  /\ Outside /\ price' = price /\ broken' = broken \cup {n}
         /\ \A m \in Nodes : m # n => batches'[m] = batches[m]
<1> DEFINE b == batches[n][k]
           r == [b EXCEPT !.util = @ + 1]
<1>1. /\ UNCHANGED <<price, cmd, pc, node, idx, snap, snapPrice, late, passed, failures>>
      /\ broken' = broken \cup {n} /\ b.util < Capacity(b)
      /\ Changes(n, k, r)
  BY DEF Upload, HasRoom, client, Changes
<1>11. k \in DOMAIN batches[n]
  <2>1. shown[n] \in Seq(BatchRecords) /\ batches[n] \in Seq(BatchRecords) /\ Len(shown[n]) <= Len(batches[n])
    BY DEF Inv, BatchTypes, ShownTypes
  <2>2. QED
    BY <2>1
<1>2. b \in BatchRecords /\ Sound(b) /\ b.util \in Nat /\ b.balance \in Nat /\ b.depth - BucketDepth \in Nat
  <2>1. b \in BatchRecords /\ Sound(b) /\ b.util \in Nat /\ b.balance \in Nat /\ b.depth \in Nat
    BY <1>11, RecordsAre DEF Inv
  <2>2. QED
    BY <2>1, Flags DEF Sound
<1> HIDE DEF b
<1>3. r \in BatchRecords /\ r.util = b.util + 1 /\ r.depth = b.depth /\ r.balance = b.balance
  BY <1>2 DEF BatchRecords
<1> HIDE DEF r
<1>4. Sound(r)
  <2>1. Capacity(b) \in Nat /\ Capacity(r) = Capacity(b)
    BY <1>2, <1>3, PowPositive DEF Capacity
  <2>2. QED
    BY <1>1, <1>2, <1>3, <2>1 DEF Sound
<1>5. /\ BatchTypes'
      /\ \A m \in Nodes : DOMAIN batches'[m] = DOMAIN batches[m] /\ Len(batches'[m]) = Len(batches[m])
      /\ \A m \in Nodes : m # n => batches'[m] = batches[m]
      /\ \A i \in DOMAIN batches[n] : i # k => batches'[n][i] = batches[n][i]
      /\ batches'[n][k] = r
  BY <1>1, <1>11, <1>3, <1>4, ChangeOne DEF Inv
<1>6. ASSUME NEW m \in Nodes, NEW i \in DOMAIN batches[m]
      PROVE  /\ batches'[m][i].balance <= batches[m][i].balance
  <2>1. batches[m][i].balance \in Nat
    BY RecordsAre DEF Inv
  <2>2. CASE m = n /\ i = k
    BY <1>2, <1>3, <1>5, <2>2 DEF b
  <2>3. CASE ~(m = n /\ i = k)
    BY <1>5, <2>1, <2>3
  <2>4. QED
    BY <2>2, <2>3
<1>7. events' \in 0..MaxEvents /\ price \in Prices /\ broken' \subseteq Nodes
  BY <1>1, EventIs DEF Upload, Inv, ClientTypes
<1>8. QED
  BY <1>1, <1>5, <1>6, <1>7 DEF Outside

LEMMA OutsideInv == ASSUME Inv, Outside PROVE Inv'
<1>1. ClientTypes' /\ BatchTypes'
  BY DEF Inv, ClientTypes, Outside
<1>2. Position' /\ TtlOfPrice'
  BY DEF Inv, Position, TtlOfPrice, Outside
<1>3. ListIsOld'
  <2> SUFFICES ASSUME pc \in {"batch", "dilute"} PROVE ListIsOld'
    BY DEF ListIsOld, Outside
  <2>1. UNCHANGED <<pc, node, idx, snap, late>> /\ node \in Nodes /\ Len(snap') = Len(batches'[node'])
    BY DEF Inv, ClientTypes, Outside, ListIsOld
  <2>2. ASSUME NEW i \in idx..Len(snap)
        PROVE  pc = "batch" \/ i # idx => late \/ batches'[node][i].balance <= snap[i].balance
    <3>1. i \in DOMAIN batches[node] /\ i \in DOMAIN batches'[node] /\ snap[i].balance \in Nat
      BY <2>1, HandledIs DEF Outside
    <3>2. batches[node][i].balance \in Nat /\ batches'[node][i].balance \in Nat
      <4>1. batches[node][i].balance \in Nat
        BY <2>1, <3>1, RecordsAre DEF Inv
      <4>2. batches'[node][i] \in BatchRecords
        BY <1>1, <2>1, <3>1 DEF BatchTypes
      <4>3. QED
        BY <4>1, <4>2 DEF BatchRecords
    <3>3. QED
      BY <2>1, <3>1, <3>2, SMTT(60) DEF Inv, ListIsOld, Outside
  <2>3. QED
    BY <2>1, <2>2 DEF ListIsOld
<1>4. QED
  BY <1>1, <1>2, <1>3 DEF Inv

LEMMA NextInv == ASSUME Inv, ShownTypes, [Next]_vars PROVE Inv'
<1>1. CASE Step \/ BeginFails
  BY <1>1, BeginInv, ReadPriceInv, ReadBatchesInv, NoMoreBatchesInv, TopupBatchInv, KeepTtlInv,
     DiluteBatchInv, CreateBatchInv DEF Step
<1>2. CASE \/ Block \/ PriceChange
           \/ \E n \in Nodes : Sync(n) \/ \E i \in DOMAIN shown[n] : Upload(n, i)
  BY <1>2, BlockIs, PriceChangeIs, SyncIs, UploadIs, OutsideInv
<1>3. CASE UNCHANGED vars
  <2>1. BatchTypes' /\ ClientTypes'
    BY <1>3 DEF Inv, BatchTypes, ClientTypes, vars
  <2>2. Position' /\ ListIsOld' /\ TtlOfPrice'
    BY <1>3 DEF Inv, Position, ListIsOld, TtlOfPrice, vars
  <2>3. QED
    BY <2>1, <2>2 DEF Inv
<1>4. QED
  BY <1>1, <1>2, <1>3 DEF Next

\* Nothing is taken off the lists.
LEMMA ListsGrow ==
  ASSUME Inv, ShownTypes, [Next]_vars
  PROVE  /\ cmd' = cmd
         /\ \A n \in Nodes : Len(batches[n]) \in Nat /\ Len(batches[n]) <= Len(batches'[n])
         /\ cmd # "create" => \A n \in Nodes : Len(batches'[n]) = Len(batches[n])
<1>0. \A n \in Nodes : Len(batches[n]) \in Nat
  BY DEF Inv, BatchTypes
<1>1. CASE CreateBatch
  BY <1>0, <1>1, CreateBatchIs DEF CreateBatch, Inv, Position
<1>2. CASE TopupBatch
  <2>1. cmd' = cmd /\ (batches' = batches \/ \A n \in Nodes : Len(batches'[n]) = Len(batches[n]))
    BY <1>2, TopupBatchIs DEF Replaced, NodeFails
  <2>2. QED
    BY <1>0, <2>1
<1>3. CASE DiluteBatch
  <2>1. cmd' = cmd /\ (batches' = batches \/ \A n \in Nodes : Len(batches'[n]) = Len(batches[n]))
    BY <1>3, DiluteBatchIs DEF Replaced, NodeFails
  <2>2. QED
    BY <1>0, <2>1
<1>4. CASE \/ Block \/ PriceChange
           \/ \E n \in Nodes : Sync(n) \/ \E i \in DOMAIN shown[n] : Upload(n, i)
  <2>1. Outside
    BY <1>4, BlockIs, PriceChangeIs, SyncIs, UploadIs
  <2>2. QED
    BY <1>0, <2>1 DEF Outside
<1>5. CASE Begin \/ BeginFails \/ ReadPrice \/ ReadBatches \/ NoMoreBatches \/ KeepTtl
  <2>1. batches' = batches /\ cmd' = cmd
    BY <1>5 DEF Begin, BeginFails, ReadPrice, ReadBatches, NoMoreBatches, KeepTtl, NodeFails
  <2>2. QED
    BY <1>0, <2>1
<1>6. CASE UNCHANGED vars
  BY <1>0, <1>6 DEF vars
<1>7. QED
  BY <1>1, <1>2, <1>3, <1>4, <1>5, <1>6 DEF Next, Step

LEMMA NextShown == ASSUME Inv, ShownTypes, Inv', [Next]_vars PROVE ShownTypes'
<1>1. /\ cmd' = cmd
      /\ \A n \in Nodes : Len(batches[n]) \in Nat /\ Len(batches[n]) <= Len(batches'[n])
      /\ cmd # "create" => \A n \in Nodes : Len(batches'[n]) = Len(batches[n])
  BY ListsGrow
<1>2. \A n \in Nodes : Len(shown[n]) \in Nat /\ Len(batches'[n]) \in Nat
  BY DEF ShownTypes, Inv, BatchTypes
<1>3. ASSUME NEW new \in [Nodes -> Seq(BatchRecords)], shown' = new,
             \A n \in Nodes : \A i \in DOMAIN new[n] : Sound(new[n][i]),
             \A n \in Nodes : Len(new[n]) = Len(shown[n]) \/ Len(new[n]) = Len(batches'[n])
      PROVE  ShownTypes'
  <2>1. ASSUME NEW n \in Nodes
        PROVE  /\ Len(new[n]) <= Len(batches'[n])
               /\ cmd # "create" => Len(new[n]) = Len(batches'[n])
    BY <1>1, <1>2, <1>3 DEF ShownTypes
  <2>2. QED
    BY <1>1, <1>3, <2>1 DEF ShownTypes
<1>4. CASE UNCHANGED shown
  BY <1>3, <1>4 DEF ShownTypes
<1>5. ASSUME NEW m \in Nodes, Sync(m) PROVE ShownTypes'
  <2> DEFINE new == [shown EXCEPT ![m] = batches[m]]
  <2>1. shown' = new /\ batches' = batches
    BY <1>5 DEF Sync
  <2>2. batches[m] \in Seq(BatchRecords) /\ \A i \in DOMAIN batches[m] : Sound(batches[m][i])
    BY DEF Inv, BatchTypes
  <2>3. new \in [Nodes -> Seq(BatchRecords)] /\ new[m] = batches[m] /\ \A n \in Nodes : n # m => new[n] = shown[n]
    BY <2>2 DEF ShownTypes
  <2> HIDE DEF new
  <2>4. \A n \in Nodes : \A i \in DOMAIN new[n] : Sound(new[n][i])
    BY <2>2, <2>3 DEF ShownTypes
  <2>5. QED
    BY <1>3, <2>1, <2>3, <2>4
<1>6. ASSUME NEW m \in Nodes, NEW k \in DOMAIN shown[m], Upload(m, k) PROVE ShownTypes'
  <2> DEFINE b == shown[m][k]
             r == [b EXCEPT !.util = @ + 1]
             old == shown[m]
             list == [old EXCEPT ![k] = r]
             new == [shown EXCEPT ![m] = list]
  <2>1. shown' = new /\ b.util < Capacity(b)
    BY <1>6 DEF Upload, HasRoom
  <2>2. old \in Seq(BatchRecords) /\ k \in DOMAIN old /\ Sound(b)
    BY DEF ShownTypes
  <2>3. b \in BatchRecords
    BY <2>2
  <2> HIDE DEF b
  <2>4. r \in BatchRecords /\ r.util = b.util + 1 /\ r.depth = b.depth /\ b.util \in Nat /\ b.depth \in Nat
    BY <2>3 DEF BatchRecords
  <2> HIDE DEF r
  <2>5. Sound(r)
    <3>1. b.depth - BucketDepth \in Nat
      BY <2>2, <2>4, Flags DEF Sound
    <3>2. Capacity(b) \in Nat /\ Capacity(r) = Capacity(b)
      BY <2>4, <3>1, PowPositive DEF Capacity
    <3>3. QED
      BY <2>1, <2>2, <2>4, <3>2 DEF Sound
  <2> HIDE DEF old
  <2>6. /\ list \in Seq(BatchRecords) /\ DOMAIN list = DOMAIN old /\ Len(list) = Len(old)
        /\ list[k] = r /\ \A i \in DOMAIN old : i # k => list[i] = old[i]
    BY <2>2, <2>4
  <2> HIDE DEF list
  <2>7. new \in [Nodes -> Seq(BatchRecords)] /\ new[m] = list /\ \A n \in Nodes : n # m => new[n] = shown[n]
    BY <2>6 DEF ShownTypes
  <2> HIDE DEF new
  <2>8. \A n \in Nodes : \A i \in DOMAIN new[n] : Sound(new[n][i])
    <3> SUFFICES ASSUME NEW n \in Nodes, NEW i \in DOMAIN new[n] PROVE Sound(new[n][i])
      OBVIOUS
    <3>1. CASE n = m /\ i = k
      BY <2>5, <2>6, <2>7, <3>1
    <3>2. CASE n = m /\ i # k
      BY <2>6, <2>7, <3>2 DEF ShownTypes, old
    <3>3. CASE n # m
      BY <2>7, <3>3 DEF ShownTypes
    <3>4. QED
      BY <3>1, <3>2, <3>3
  <2>9. \A n \in Nodes : Len(new[n]) = Len(shown[n])
    BY <2>6, <2>7 DEF old
  <2>10. QED
    BY <1>3, <2>1, <2>7, <2>8, <2>9
<1>7. CASE Step \/ BeginFails \/ Block \/ PriceChange \/ UNCHANGED vars
  <2>1. UNCHANGED shown
    BY <1>7 DEF Step, Begin, BeginFails, ReadPrice, ReadBatches, NoMoreBatches, TopupBatch, KeepTtl,
                DiluteBatch, CreateBatch, Block, PriceChange, vars
  <2>2. QED
    BY <1>4, <2>1
<1>8. QED
  BY <1>5, <1>6, <1>7 DEF Next

\* The invariant holds in every state of a behaviour of Spec.
THEOREM InvAlways == Spec => [](Inv /\ ShownTypes)
<1>1. Init => Inv /\ ShownTypes
  <2>1. ASSUME Init PROVE ShownTypes
    <3>1. BatchTypes /\ shown = batches
      BY <2>1, InitInv DEF Inv, Init
    <3>2. \A n \in Nodes : Len(batches[n]) \in Nat
      BY <3>1 DEF BatchTypes
    <3>3. QED
      BY <3>1, <3>2 DEF BatchTypes, ShownTypes
  <2>2. QED
    BY <2>1, InitInv
<1>2. Inv /\ ShownTypes /\ [Next]_vars => (Inv /\ ShownTypes)'
  BY NextInv, NextShown
<1>3. QED
  BY <1>1, <1>2, PTL DEF Spec

\* Nodes keep and show sound batches and the client stays within its list and the
\* nodes, for every configuration.
THEOREM TypeCorrect == Spec => []TypeOK
<1>1. Inv /\ ShownTypes => TypeOK
  BY TypeOKIs DEF Inv
<1>2. QED
  BY <1>1, InvAlways, PTL

-----------------------------------------------------------------------------
(* What a top-up adds.                                                       *)

Grows ==
  \A n \in Nodes : \A i \in DOMAIN batches[n] :
    batches'[n][i].balance > batches[n][i].balance => late \/ batches'[n][i].balance <= PayLimit

LEMMA SameDoesNotGrow ==
  ASSUME Inv, \A n \in Nodes : \A i \in DOMAIN batches[n] :
                batches'[n][i].balance <= batches[n][i].balance /\ batches'[n][i].balance \in Nat
  PROVE  Grows
<1> SUFFICES ASSUME NEW n \in Nodes, NEW i \in DOMAIN batches[n]
             PROVE  ~(batches'[n][i].balance > batches[n][i].balance)
  BY DEF Grows
<1>1. batches[n][i].balance \in Nat
  BY RecordsAre DEF Inv
<1>2. QED
  BY <1>1

LEMMA UnchangedDoesNotGrow ==
  ASSUME Inv, \A n \in Nodes : \A i \in DOMAIN batches[n] : batches'[n][i] = batches[n][i]
  PROVE  Grows
<1>1. ASSUME NEW n \in Nodes, NEW i \in DOMAIN batches[n]
      PROVE  batches'[n][i].balance <= batches[n][i].balance /\ batches'[n][i].balance \in Nat
  BY RecordsAre DEF Inv
<1>2. QED
  BY <1>1, SameDoesNotGrow

\* The batch at hand has at most the longest TTL that calls for a top-up, at some
\* price; what is added is at most --topup-to at another.
LEMMA TopupWithinLimit ==
  ASSUME Inv, ~late, NEW k \in idx..Len(snap), pc = "batch", WantsTopup(snap[k]), isValidBatch(snap[k])
  PROVE  batches[node][k].balance + TopupAmount(snap[k]) <= PayLimit
<1> DEFINE b == batches[node][k]
           s == snap[k]
           x == TtlThreshold * 2^ExtraDepth
<1>1. b.balance \in Nat /\ s.balance \in Nat /\ s.ttl \in Nat /\ s.ttl > 0 /\ b.balance <= s.balance
  <2>1. b \in BatchRecords /\ s.ttl \in Int /\ s.balance \in Nat
    BY HandledIs
  <2>2. b.balance \in Nat
    BY <2>1 DEF BatchRecords
  <2>3. s.ttl > 0
    BY DEF isValidBatch
  <2>4. b.balance <= s.balance
    BY DEF Inv, ListIsOld
  <2>5. QED
    BY <2>1, <2>2, <2>3, <2>4
<1>2. PICK p \in Prices : p > 0 /\ s.ttl = (s.balance \div p) * NodeBlockTime
  BY <1>1, HandledIs DEF Inv, TtlOfPrice
<1>3. p \in Nat /\ p <= MaxPrice /\ MaxPrice \in Nat /\ snapPrice \in Nat /\ snapPrice <= MaxPrice
  BY PricesAre DEF Inv, ClientTypes
<1>4. PICK z \in Nat : z <= TopUpTo /\ TopupAmount(s) = (z \div SecondsPerBlock) * snapPrice
  BY <1>1, <1>3, AmountIs
<1>5. x \in Nat /\ s.ttl <= x
  <2>1. Scale(s) \in Nat /\ Scale(s) <= 2^ExtraDepth /\ s.ttl <= TtlThreshold * Scale(s)
    BY ScaleIs DEF WantsTopup
  <2>2. TtlThreshold * Scale(s) <= x /\ TtlThreshold * Scale(s) \in Nat /\ x \in Nat
    BY <2>1, Flags, ProductMono
  <2>3. QED
    BY <1>1, <2>1, <2>2
<1> HIDE DEF b, s, x
<1> DEFINE limit == MaxPrice * (TopUpTo \div SecondsPerBlock + x \div NodeBlockTime + 1)
<1>6. s.balance + (z \div SecondsPerBlock) * snapPrice <= limit
  <2>1. (s.balance \div p) * NodeBlockTime <= x
    BY <1>2, <1>5
  <2>2. Within(s.balance, snapPrice, MaxPrice, NodeBlockTime, SecondsPerBlock, x, TopUpTo, z)
    BY <1>1, <1>2, <1>3, <1>4, <1>5, <2>1, Flags, PaidUpTo
  <2>3. QED
    BY <2>2 DEF Within
<1>7. PayLimit = limit
  BY DEF PayLimit, Blocks, x
<1>8. TopupAmount(s) \in Nat /\ PayLimit \in Nat
  <2>1. TopupAmount(s) \in Nat
    BY <1>1, <1>3, AmountIs DEF s
  <2>2. TopUpTo \div SecondsPerBlock \in Nat /\ x \div NodeBlockTime \in Nat
    BY <1>5, Flags, DivIs
  <2>3. PayLimit \in Nat
    BY <1>3, <1>7, <2>2
  <2>4. QED
    BY <2>1, <2>3
<1>9. s.balance + TopupAmount(s) <= PayLimit
  BY <1>4, <1>6, <1>7
<1>10. b.balance + TopupAmount(s) <= PayLimit
  BY <1>1, <1>8, <1>9
<1>11. QED
  BY <1>10 DEF b, s

LEMMA TopupGrows == ASSUME Inv, TopupBatch PROVE Grows
<1>1. PICK k \in idx..Len(snap) :
        /\ pc = "batch" /\ WantsTopup(snap[k]) /\ isValidBatch(snap[k]) /\ TopupAmount(snap[k]) \in Nat
        /\ \/ batches' = batches
           \/ Replaced(k, ToppedUp(batches[node][k], TopupAmount(snap[k])))
  BY TopupBatchIs
<1>2. CASE batches' = batches
  BY <1>2, UnchangedDoesNotGrow
<1> DEFINE a == TopupAmount(snap[k])
           r == ToppedUp(batches[node][k], a)
<1>3. CASE Replaced(k, r)
  <2>1. late \/ batches[node][k].balance + a <= PayLimit
    BY <1>1, TopupWithinLimit
  <2>2. r.balance = batches[node][k].balance + a /\ node \in Nodes /\ DOMAIN batches[node] = 1..Len(snap)
    BY <1>1, HandledIs, ToppedUpIs DEF Inv, ClientTypes
  <2> HIDE DEF a, r
  <2>3. ASSUME NEW n \in Nodes, NEW i \in DOMAIN batches[n],
               batches'[n][i].balance > batches[n][i].balance
        PROVE  late \/ batches'[n][i].balance <= PayLimit
    <3>1. CASE n = node /\ i = k
      BY <1>3, <2>1, <2>2, <3>1 DEF Replaced
    <3>2. CASE ~(n = node /\ i = k)
      <4>1. batches'[n][i] = batches[n][i]
        BY <1>3, <2>2, <3>2 DEF Replaced
      <4>2. batches[n][i].balance \in Nat
        BY RecordsAre DEF Inv
      <4>3. QED
        BY <2>3, <4>1, <4>2
    <3>3. QED
      BY <3>1, <3>2
  <2>4. QED
    BY <2>3 DEF Grows
<1>4. QED
  BY <1>1, <1>2, <1>3

LEMMA DiluteGrows == ASSUME Inv, DiluteBatch PROVE Grows
<1>1. PICK k \in idx..Len(snap) :
        /\ pc \in {"batch", "dilute"}
        /\ batches' = batches \/ NewDepth(snap[k]) > batches[node][k].depth
        /\ \/ batches' = batches
           \/ Replaced(k, Diluted(batches[node][k], NewDepth(snap[k])))
  BY DiluteBatchIs
<1>2. CASE batches' = batches
  BY <1>2, UnchangedDoesNotGrow
<1> DEFINE r == Diluted(batches[node][k], NewDepth(snap[k]))
<1>3. CASE Replaced(k, r) /\ NewDepth(snap[k]) > batches[node][k].depth
  <2>1. /\ r.balance <= batches[node][k].balance /\ r.balance \in Nat
        /\ node \in Nodes /\ DOMAIN batches[node] = 1..Len(snap)
    <3>1. r.balance <= batches[node][k].balance /\ r \in BatchRecords
      <4> DEFINE b == batches[node][k]
                 d == NewDepth(snap[k])
                 e == d - b.depth
      <4>1. b \in BatchRecords /\ Sound(b) /\ snap[k].depth \in Nat
        BY <1>1, HandledIs
      <4>2. e \in Nat /\ d = b.depth + e
        BY <1>3, <4>1, Flags, SMTT(60) DEF BatchRecords, NewDepth
      <4> HIDE DEF b, d, e
      <4>3. Diluted(b, d).balance <= b.balance /\ Diluted(b, d) \in BatchRecords
        BY <4>1, <4>2, DilutedIs
      <4>4. QED
        BY <4>3 DEF b, d
    <3>2. QED
      BY <1>1, <3>1, HandledIs DEF Inv, ClientTypes, BatchRecords
  <2> HIDE DEF r
  <2>2. ASSUME NEW n \in Nodes, NEW i \in DOMAIN batches[n]
        PROVE  batches'[n][i].balance <= batches[n][i].balance /\ batches'[n][i].balance \in Nat
    <3>1. CASE n = node /\ i = k
      BY <1>3, <2>1, <3>1 DEF Replaced
    <3>2. CASE ~(n = node /\ i = k)
      <4>1. batches'[n][i] = batches[n][i]
        BY <1>3, <2>1, <3>2 DEF Replaced
      <4>2. batches[n][i].balance \in Nat
        BY RecordsAre DEF Inv
      <4>3. QED
        BY <4>1, <4>2
    <3>3. QED
      BY <3>1, <3>2
  <2>3. QED
    BY <2>2, SameDoesNotGrow
<1>4. QED
  BY <1>1, <1>2, <1>3

LEMMA OutsideGrows == ASSUME Inv, Outside PROVE Grows
<1>1. ASSUME NEW n \in Nodes, NEW i \in DOMAIN batches[n]
      PROVE  batches'[n][i].balance <= batches[n][i].balance /\ batches'[n][i].balance \in Nat
  <2>1. i \in DOMAIN batches'[n] /\ batches' \in [Nodes -> Seq(BatchRecords)]
    BY DEF Outside, BatchTypes
  <2>2. batches'[n][i] \in BatchRecords
    BY <2>1
  <2>3. QED
    BY <2>2 DEF Outside, BatchRecords
<1>2. QED
  BY <1>1, SameDoesNotGrow

\* For every configuration, any prices, and any interleaving with the chain, the
\* nodes and failures: no batch is brought above what the flags ask for but where
\* the node had not listed an earlier top-up.
THEOREM NoOverpayHolds == Spec => NoOverpay
<1>1. ASSUME Inv, ShownTypes, [Next]_vars PROVE Grows \/ UNCHANGED vars
  <2>1. CASE Begin \/ BeginFails \/ ReadPrice \/ ReadBatches \/ NoMoreBatches \/ KeepTtl
    <3>1. batches' = batches
      BY <2>1 DEF Begin, BeginFails, ReadPrice, ReadBatches, NoMoreBatches, KeepTtl
    <3>2. QED
      BY <1>1, <3>1, UnchangedDoesNotGrow
  <2>2. CASE TopupBatch \/ DiluteBatch
    BY <1>1, <2>2, TopupGrows, DiluteGrows
  <2>3. CASE CreateBatch
    BY <1>1, <2>3, CreateBatchIs, UnchangedDoesNotGrow
  <2>4. CASE \/ Block \/ PriceChange
             \/ \E n \in Nodes : Sync(n) \/ \E i \in DOMAIN shown[n] : Upload(n, i)
    BY <1>1, <2>4, BlockIs, PriceChangeIs, SyncIs, UploadIs, OutsideGrows
  <2>5. CASE UNCHANGED vars
    BY <2>5
  <2>6. QED
    BY <1>1, <2>1, <2>2, <2>3, <2>4, <2>5 DEF Next, Step
<1>2. Inv /\ ShownTypes /\ [Next]_vars => [Grows]_vars
  BY <1>1
<1>3. QED
  BY <1>2, InvAlways, PTL DEF Spec, NoOverpay, Grows

-----------------------------------------------------------------------------
(* What a pass of set leaves behind.                                         *)

\* what a node reports at price p
TtlAt(b, p) == IF p = 0 THEN -1 ELSE (b.balance \div p) * NodeBlockTime

InUse(b, p) ==
  /\ b.usable /\ b.util # 0 /\ TtlAt(b, p) > 0
  /\ BatchIDs # {} => b.id \in BatchIDs
  /\ PostageLabels # {} => b.label \in PostageLabels

HealedAt(b, p) ==
  InUse(b, p) => EnoughTtl(TtlAt(b, p)) /\ EnoughRoom(BatchUsage(b))

Healed(n) == \A i \in DOMAIN batches[n] : HealedAt(batches[n][i], price)

\* The nodes the pass is through with are healed, but for those it failed at and
\* those that have changed since.
Behind ==
  cmd = "set" =>
    /\ passed => pc = "idle" /\ \A n \in Nodes : n \notin broken => Healed(n)
    /\ ~passed /\ pc # "idle" => \A n \in Nodes : n < node /\ n \notin broken => Healed(n)

\* On the node at hand, if nothing has failed or changed there: the price is
\* right, the batches before idx are healed, those after it are as listed, and the
\* one to be diluted will be healed by that.
AtHand ==
  cmd = "set" /\ node \notin broken =>
    /\ pc \in {"list", "batch", "dilute"} => snapPrice = price /\ price > 0
    /\ pc \in {"batch", "dilute"} =>
        /\ \A i \in 1..Len(snap) : i < idx => HealedAt(batches[node][i], price)
        /\ \A i \in idx..Len(snap) : pc = "batch" \/ i # idx => snap[i] = ReportOf(batches[node][i])
    /\ pc = "dilute" => HealedAt(Diluted(batches[node][idx], NewDepth(snap[idx])), price)

HealInv == Behind /\ AtHand

LEMMA HealedIs ==
  ASSUME NEW b
  PROVE  /\ ReportOf(b).ttl = TtlAt(b, price)
         /\ isValidBatch(ReportOf(b)) <=> InUse(b, price)
         /\ NeedsDilution(ReportOf(b)) <=> BatchUsage(b) >= UsageThreshold
<1> DEFINE r == ReportOf(b)
<1>1. /\ r.id = b.id /\ r.label = b.label /\ r.depth = b.depth /\ r.util = b.util
      /\ r.usable = b.usable /\ r.ttl = TtlAt(b, price)
  BY DEF ReportOf, BatchTTL, TtlAt
<1> HIDE DEF r
<1>2. BatchUsage(r) = BatchUsage(b)
  BY <1>1 DEF BatchUsage, Capacity
<1>3. isValidBatch(r) <=> InUse(b, price)
  BY <1>1 DEF isValidBatch, InUse
<1>4. QED
  BY <1>1, <1>2, <1>3 DEF r, NeedsDilution

\* Of n blocks a dilution by a factor of c leaves n over c, whole ones.
LEMMA BlocksLeft ==
  ASSUME NEW bal \in Nat, NEW p \in Nat, p > 0, NEW c \in Nat, c > 0, NEW n \in Nat, p * n <= bal
  PROVE  (bal \div c) \div p \in Nat /\ n \div c \in Nat /\ n \div c <= (bal \div c) \div p
<1> DEFINE m == n \div c
           x == bal \div c
<1>1. m \in Nat /\ c * m <= n /\ x \in Nat
  BY DivIs
<1> HIDE DEF m
<1>2. p * (c * m) <= p * n /\ p * (c * m) \in Nat /\ p * n \in Nat
  BY <1>1, ProductMono
<1>3. c * (p * m) = p * (c * m) /\ p * m \in Nat
  BY <1>1
<1>4. c * (p * m) <= bal
  BY <1>2, <1>3
<1>5. p * m <= x
  BY <1>3, <1>4, DivLow
<1> HIDE DEF x
<1>6. m <= x \div p /\ x \div p \in Nat
  BY <1>1, <1>5, DivLow, DivIs
<1>7. QED
  BY <1>1, <1>6 DEF m, x

\* After its dilution no batch is fuller than a full one over c.
LEMMA RoomAfterDilution ==
  ASSUME NEW u \in Nat, NEW cap \in Nat, cap > 0, u <= cap, NEW c \in Nat, c > 0
  PROVE  ((u * 100) \div (cap * c)) * c <= 100
<1> DEFINE d == cap * c
           a == u * 100
           v == a \div d
<1>1. d \in Nat /\ d > 0 /\ a \in Nat /\ a <= cap * 100
  OBVIOUS
<1> HIDE DEF a, d
<1>2. v \in Nat /\ d * v <= a
  BY <1>1, DivIs
<1> HIDE DEF v
<1>3. d * v = cap * (v * c) /\ v * c \in Nat
  BY <1>2 DEF d
<1>4. cap * (v * c) <= cap * 100
  BY <1>1, <1>2, <1>3
<1>5. v * c <= 100
  <2> DEFINE w == v * c
  <2>1. w \in Nat /\ cap * w <= cap * 100
    BY <1>3, <1>4
  <2> HIDE DEF w
  <2>2. w <= 100
    BY <2>1
  <2>3. QED
    BY <2>2 DEF w
<1>6. QED
  BY <1>5 DEF v, a, d

LEMMA UsageIs ==
  ASSUME NEW b \in BatchRecords, Sound(b)
  PROVE  Capacity(b) \in Nat /\ Capacity(b) > 0 /\ BatchUsage(b) \in Nat
<1>1. b.util \in Nat /\ b.depth - BucketDepth \in Nat
  BY Flags DEF BatchRecords, Sound
<1>2. Capacity(b) \in Nat /\ Capacity(b) > 0
  BY <1>1, PowPositive DEF Capacity
<1>3. (b.util * 100) \div Capacity(b) \in Nat
  BY <1>1, <1>2, DivIs
<1>4. QED
  BY <1>2, <1>3 DEF BatchUsage

Least == IF TtlThreshold <= TopUpTo THEN TtlThreshold ELSE TopUpTo

\* n blocks over c are enough.
EnoughBlocks(n, c) ==
  \/ (n \div c + 1) * NodeBlockTime > Least
  \/ n \div c >= Blocks(TopUpTo) \div (2^ExtraDepth)

LEMMA MoreIsEnough ==
  ASSUME NEW n \in Nat, NEW c \in Nat, c > 0, EnoughBlocks(n, c), NEW y \in Nat, n \div c <= y
  PROVE  EnoughTtl(y * NodeBlockTime)
<1> DEFINE m == n \div c
           g == Blocks(TopUpTo) \div (2^ExtraDepth)
<1>1. m \in Nat /\ Least \in Nat /\ NodeBlockTime \in Nat
  BY DivIs, Flags DEF Least
<1>2. g \in Nat
  BY DivIs, Flags DEF Blocks
<1>3. ((m + 1) * NodeBlockTime > Least) \/ m >= g
  BY DEF EnoughBlocks
<1>4. EnoughTtl(y * NodeBlockTime) <=> (y * NodeBlockTime + NodeBlockTime > Least) \/ y * NodeBlockTime >= g * NodeBlockTime
  BY DEF EnoughTtl, Least
<1> HIDE DEF m, g
<1>5. m <= y
  BY DEF m
<1>6. (m + 1) * NodeBlockTime <= (y + 1) * NodeBlockTime /\ (y + 1) * NodeBlockTime = y * NodeBlockTime + NodeBlockTime
      /\ (m + 1) * NodeBlockTime \in Nat /\ y * NodeBlockTime \in Nat
  BY <1>1, <1>5, ProductMono
<1>7. CASE (m + 1) * NodeBlockTime > Least
  BY <1>1, <1>4, <1>6, <1>7
<1>8. CASE m >= g
  <2>1. g <= y
    BY <1>1, <1>2, <1>5, <1>8
  <2>2. g * NodeBlockTime <= y * NodeBlockTime
    BY <1>1, <1>2, <2>1, ProductMono
  <2>3. QED
    BY <1>1, <1>2, <1>4, <1>6, <2>2
<1>9. QED
  BY <1>3, <1>7, <1>8

\* A TTL that calls for no top-up is enough.
LEMMA EnoughKept ==
  ASSUME NEW n \in Nat, NEW c \in Nat, c > 0, Least * c <= n * NodeBlockTime
  PROVE  EnoughBlocks(n, c)
<1> DEFINE m == n \div c
<1>1. m \in Nat /\ n < c * (m + 1) /\ Least \in Nat /\ NodeBlockTime \in Nat /\ NodeBlockTime > 0
  BY DivIs, Flags DEF Least
<1> HIDE DEF m
<1> DEFINE k == m + 1
<1>2. k \in Nat /\ n < c * k
  BY <1>1
<1> HIDE DEF k
<1>3. n * NodeBlockTime < (c * k) * NodeBlockTime
  BY <1>1, <1>2
<1>4. (c * k) * NodeBlockTime = (k * NodeBlockTime) * c /\ k * NodeBlockTime \in Nat
  BY <1>1, <1>2
<1> DEFINE x == k * NodeBlockTime
<1>5. x \in Nat /\ Least * c < x * c
  <2>1. Least * c \in Nat /\ n * NodeBlockTime \in Nat
    BY <1>1
  <2>2. QED
    BY <1>3, <1>4, <2>1
<1> HIDE DEF x
<1>6. x > Least
  BY <1>1, <1>5
<1>7. QED
  BY <1>6 DEF EnoughBlocks, m, k, x

\* q blocks left and the top-up are enough: at the client's block time where a
\* block of the node is the shorter, at the node's otherwise.
LEMMA EnoughPaid ==
  ASSUME NEW q \in Nat, NEW c \in Nat, c > 0, c <= 2^ExtraDepth,
         NEW z \in Nat, TopUpTo * c - q * NodeBlockTime < c * (z + 1)
  PROVE  EnoughBlocks(q + z \div SecondsPerBlock, c)
<1> DEFINE w == z \div SecondsPerBlock
           n == q + w
           m == n \div c
           u == TopUpTo
           B == SecondsPerBlock
           N == NodeBlockTime
<1>1. u \in Nat /\ B \in Nat /\ B > 0 /\ N \in Nat /\ N > 0 /\ Least \in Nat /\ Least <= u
  BY Flags DEF Least
<1>2. w \in Nat /\ z < B * (w + 1) /\ n \in Nat
  BY <1>1, DivIs
<1>3. m \in Nat /\ n < c * (m + 1)
  BY <1>2, DivIs
<1> HIDE DEF w, m, u, B, N
<1>4. u * c < c * (z + 1) + q * N
  <2>1. u * c \in Nat /\ q * N \in Nat /\ c * (z + 1) \in Nat
    BY <1>1
  <2>2. u * c - q * N < c * (z + 1)
    BY DEF u, N
  <2>3. QED
    BY <2>1, <2>2
<1>5. c * (z + 1) <= c * (B * (w + 1)) /\ c * (z + 1) \in Nat /\ c * (B * (w + 1)) \in Nat
  <2>1. B * (w + 1) \in Nat /\ z + 1 \in Nat
    BY <1>1, <1>2
  <2>2. z + 1 <= B * (w + 1)
    BY <1>2, <2>1
  <2>3. QED
    BY <2>1, <2>2, ProductMono
<1>6. CASE N <= B * c
  <2>1. q * N <= q * (B * c) /\ q * N \in Nat /\ q * (B * c) \in Nat
    <3>1. B * c \in Nat
      BY <1>1
    <3>2. QED
      BY <1>1, <1>6, <3>1, ProductMono
  <2>2. c * (B * (w + 1)) + q * (B * c) = (B * (n + 1)) * c /\ B * (n + 1) \in Nat
    BY <1>1, <1>2
  <2> DEFINE x == B * (n + 1)
  <2>3. u * c < x * c /\ x \in Nat
    <3>1. u * c \in Nat
      BY <1>1
    <3>2. QED
      BY <1>4, <1>5, <2>1, <2>2, <3>1
  <2> HIDE DEF x
  <2>4. u < x
    BY <1>1, <2>3
  <2>5. u \div B <= n /\ u \div B \in Nat
    BY <1>1, <1>2, <2>4, DivHigh, DivIs DEF x
  <2> DEFINE g == u \div B
             e == 2^ExtraDepth
             h == g \div e
  <2>6. e \in Nat /\ e > 0 /\ c <= e
    BY Flags
  <2> HIDE DEF g, e
  <2>7. h \in Nat /\ e * h <= g
    BY <2>5, <2>6, DivIs DEF g
  <2> HIDE DEF h, n
  <2>8. h <= n \div c
    <3>1. c * h <= e * h /\ c * h \in Nat /\ e * h \in Nat
      BY <2>6, <2>7, ProductMono
    <3>2. c * h <= n
      BY <1>2, <2>5, <2>7, <3>1 DEF g
    <3>3. QED
      BY <1>2, <2>7, <3>2, DivLow
  <2>9. QED
    BY <2>8, <1>3, <2>7 DEF EnoughBlocks, Blocks, m, h, g, e, u, B, n, w
<1>7. CASE ~(N <= B * c)
  <2>1. c * (B * (w + 1)) <= N * (w + 1) /\ N * (w + 1) \in Nat
    <3>1. B * c \in Nat /\ B * c <= N /\ w + 1 \in Nat
      BY <1>1, <1>2, <1>7
    <3>2. (B * c) * (w + 1) <= N * (w + 1) /\ N * (w + 1) \in Nat
      BY <1>1, <3>1, ProductMono
    <3>3. c * (B * (w + 1)) = (B * c) * (w + 1)
      BY <1>1, <1>2
    <3>4. QED
      BY <3>2, <3>3
  <2>2. N * (w + 1) + q * N = N * (n + 1) /\ q * N \in Nat /\ u * c \in Nat
    BY <1>1, <1>2
  <2>3. u * c < N * (n + 1) /\ N * (n + 1) \in Nat
    BY <1>1, <1>2, <1>4, <1>5, <2>1, <2>2
  <2> HIDE DEF n
  <2> DEFINE k == m + 1
  <2>4. k \in Nat /\ n + 1 <= c * k /\ c * k \in Nat
    BY <1>2, <1>3
  <2> HIDE DEF k
  <2>5. N * (n + 1) <= N * (c * k) /\ N * (c * k) = (k * N) * c /\ k * N \in Nat
    BY <1>1, <1>2, <2>4, ProductMono
  <2> DEFINE x == k * N
  <2>6. u * c < x * c /\ x \in Nat
    BY <2>2, <2>3, <2>5
  <2> HIDE DEF x
  <2>7. x > u
    BY <1>1, <2>6
  <2>8. x > Least
    BY <1>1, <2>6, <2>7
  <2>9. QED
    BY <2>8 DEF EnoughBlocks, x, k, m, n, w, N
<1>8. QED
  BY <1>6, <1>7

\* A batch the loop of Set passes over needs nothing.
LEMMA PassedOver ==
  ASSUME NEW b \in BatchRecords, Sound(b), price \in Nat, cmd = "set", ~Handles(ReportOf(b))
  PROVE  HealedAt(b, price)
<1> SUFFICES ASSUME InUse(b, price)
             PROVE  EnoughTtl(TtlAt(b, price)) /\ EnoughRoom(BatchUsage(b))
  BY DEF HealedAt
<1> DEFINE r == ReportOf(b)
<1>1. ~NeedsDilution(r) /\ ~(r.ttl <= TtlThreshold * Scale(r))
  BY HealedIs DEF Handles
<1>2. Scale(r) = 1
  BY <1>1 DEF Scale
<1>3. r.ttl = TtlAt(b, price) /\ BatchUsage(b) < UsageThreshold
  BY <1>1, HealedIs, UsageIs, Flags
<1> HIDE DEF r
<1>4. TtlAt(b, price) \in Int
  <2>1. b.balance \in Nat
    BY DEF BatchRecords
  <2>2. CASE price = 0
    BY <2>2 DEF TtlAt
  <2>3. CASE price # 0
    BY <2>1, <2>3, DivIs, Flags DEF TtlAt
  <2>4. QED
    BY <2>2, <2>3
<1>5. TtlAt(b, price) > TtlThreshold
  BY <1>1, <1>2, <1>3, <1>4, Flags
<1>6. QED
  BY <1>3, <1>4, <1>5, Flags DEF EnoughTtl, EnoughRoom

\* After the top-up of Set, and the dilution if one is due, the batch is healed.
HealedNext(b, s) ==
  IF NeedsDilution(s) THEN HealedAt(Diluted(b, NewDepth(s)), price) ELSE HealedAt(b, price)

\* That follows from n whole blocks.
LEMMA BlocksHeal ==
  ASSUME NEW o \in BatchRecords, Sound(o), NEW b \in BatchRecords, Sound(b),
         b.depth = o.depth, b.util = o.util, price \in Nat, price > 0, cmd = "set",
         NEW n \in Nat, price * n <= b.balance, EnoughBlocks(n, Scale(ReportOf(o)))
  PROVE  HealedNext(b, ReportOf(o))
<1> DEFINE s == ReportOf(o)
           d == NewDepth(s)
<1>1. d = b.depth + ExtraDepth
  BY DEF NewDepth, ReportOf
<1>2. NeedsDilution(s) <=> BatchUsage(o) >= UsageThreshold
  BY HealedIs
<1>3. BatchUsage(b) = BatchUsage(o) /\ BatchUsage(b) \in Nat
  BY UsageIs DEF BatchUsage, Capacity
<1>4. b.balance \in Nat /\ b.util \in Nat /\ b.util <= Capacity(b)
  BY DEF BatchRecords, Sound
<1>5. Scale(s) = IF NeedsDilution(s) THEN 2^ExtraDepth ELSE 1
  BY DEF Scale
<1> HIDE DEF s, d
<1>6. CASE NeedsDilution(s)
  <2> DEFINE r == Diluted(b, d)
             c == 2^ExtraDepth
  <2>1. /\ r.balance = b.balance \div c /\ r.util = b.util
        /\ Capacity(b) \in Nat /\ Capacity(b) > 0 /\ Capacity(r) = Capacity(b) * c
    BY <1>1, Flags, DilutedIs
  <2>2. c \in Nat /\ c > 0 /\ EnoughBlocks(n, c)
    BY <1>5, <1>6, Flags DEF s
  <2> HIDE DEF r, c
  <2> DEFINE y == (b.balance \div c) \div price
  <2>3. y \in Nat /\ n \div c <= y
    BY <1>4, <2>2, BlocksLeft
  <2>4. TtlAt(r, price) = y * NodeBlockTime
    BY <2>1 DEF TtlAt
  <2> HIDE DEF y
  <2>5. EnoughTtl(TtlAt(r, price))
    BY <2>2, <2>3, <2>4, MoreIsEnough
  <2>6. EnoughRoom(BatchUsage(r))
    <3>1. ((b.util * 100) \div (Capacity(b) * c)) * c <= 100
      BY <1>4, <2>1, <2>2, RoomAfterDilution
    <3>2. BatchUsage(r) * c <= 100
      BY <2>1, <3>1 DEF BatchUsage
    <3>3. QED
      BY <3>2 DEF EnoughRoom, c
  <2>7. HealedAt(Diluted(b, d), price)
    BY <2>5, <2>6 DEF HealedAt, r
  <2>8. QED
    BY <1>6, <2>7 DEF HealedNext, d, s
<1>7. CASE ~NeedsDilution(s)
  <2> DEFINE y == b.balance \div price
  <2>1. EnoughBlocks(n, 1) /\ n \div 1 = n
    BY <1>5, <1>7 DEF s
  <2>2. y \in Nat /\ n <= y
    BY <1>4, DivIs, DivLow
  <2>3. TtlAt(b, price) = y * NodeBlockTime
    BY DEF TtlAt
  <2> HIDE DEF y
  <2>4. EnoughTtl(TtlAt(b, price))
    BY <2>1, <2>2, <2>3, MoreIsEnough
  <2>5. EnoughRoom(BatchUsage(b))
    BY <1>2, <1>3, <1>7, Flags DEF EnoughRoom
  <2>6. QED
    BY <1>7, <2>4, <2>5 DEF HealedNext, HealedAt, s
<1>8. QED
  BY <1>6, <1>7

LEMMA TopupHeals ==
  ASSUME NEW b \in BatchRecords, Sound(b), price \in Nat, price > 0, snapPrice = price, cmd = "set",
         WantsTopup(ReportOf(b)), isValidBatch(ReportOf(b))
  PROVE  HealedNext(ToppedUp(b, TopupAmount(ReportOf(b))), ReportOf(b))
<1> DEFINE s == ReportOf(b)
           q == b.balance \div price
           c == Scale(s)
           x == TopUpTo * c - q * NodeBlockTime
           z == x \div c
           w == z \div SecondsPerBlock
           a == TopupAmount(s)
           r == ToppedUp(b, a)
<1>1. b.balance \in Nat /\ q \in Nat /\ price * q <= b.balance
  BY DivIs DEF BatchRecords
<1>2. s.ttl = q * NodeBlockTime
  BY DEF ReportOf, BatchTTL
<1>3. c \in Nat /\ c > 0 /\ c <= 2^ExtraDepth
  BY ScaleIs
<1>4. q * NodeBlockTime < TopUpTo * c
  BY <1>1, <1>2 DEF WantsTopup
<1>5. a = w * price
  BY <1>2 DEF TopupAmount, Blocks
<1> HIDE DEF q, c
<1>6. x \in Nat
  BY <1>1, <1>3, <1>4, Flags
<1> HIDE DEF x
<1>7. z \in Nat /\ x < c * (z + 1)
  BY <1>3, <1>6, DivIs
<1> HIDE DEF z
<1>8. w \in Nat
  BY <1>7, DivIs, Flags
<1>9. EnoughBlocks(q + w, c)
  BY <1>1, <1>3, <1>7, EnoughPaid DEF x
<1> HIDE DEF w
<1>10. a \in Nat /\ price * (q + w) <= b.balance + a
  BY <1>1, <1>5, <1>8
<1> HIDE DEF a
<1>11. r \in BatchRecords /\ Sound(r) /\ r.depth = b.depth /\ r.util = b.util /\ r.balance = b.balance + a
  BY <1>10, ToppedUpIs
<1> HIDE DEF r
<1> DEFINE n == q + w
<1>12. n \in Nat /\ price * n <= r.balance /\ EnoughBlocks(n, c)
  BY <1>1, <1>8, <1>9, <1>10, <1>11
<1> HIDE DEF n
<1>13. HealedNext(r, ReportOf(b))
  BY <1>11, <1>12, BlocksHeal DEF c
<1>14. QED
  BY <1>13 DEF r, a

LEMMA KeepHeals ==
  ASSUME NEW b \in BatchRecords, Sound(b), price \in Nat, price > 0, cmd = "set",
         ~WantsTopup(ReportOf(b)), isValidBatch(ReportOf(b))
  PROVE  HealedNext(b, ReportOf(b))
<1> DEFINE s == ReportOf(b)
           q == b.balance \div price
           c == Scale(s)
<1>1. b.balance \in Nat /\ q \in Nat /\ price * q <= b.balance
  BY DivIs DEF BatchRecords
<1>2. s.ttl = q * NodeBlockTime
  BY DEF ReportOf, BatchTTL
<1>3. c \in Nat /\ c > 0
  BY ScaleIs
<1>4. ~(s.ttl <= TtlThreshold * c) \/ ~(TopUpTo * c > s.ttl)
  BY DEF WantsTopup
<1> HIDE DEF q, c, s
<1>5. /\ Least * c <= TtlThreshold * c /\ Least * c <= TopUpTo * c /\ Least * c \in Nat
      /\ TopUpTo * c \in Nat /\ TtlThreshold * c \in Nat
  <2>1. Least \in Nat /\ Least <= TtlThreshold /\ Least <= TopUpTo
    BY Flags DEF Least
  <2>2. QED
    BY <1>3, <2>1, Flags, ProductMono
<1>6. q * NodeBlockTime \in Nat
  BY <1>1, Flags
<1>7. Least * c <= q * NodeBlockTime
  BY <1>2, <1>4, <1>5, <1>6
<1>8. EnoughBlocks(q, c)
  BY <1>1, <1>3, <1>7, EnoughKept
<1>9. QED
  BY <1>1, <1>8, BlocksHeal DEF c, s

\* Set is done with the node, which is healed unless it was left out.
LEMMA AwayHeals ==
  ASSUME Inv, HealInv, cmd = "set", pc # "idle", EndNode, UNCHANGED <<price, cmd>>,
         \A m \in Nodes : m # node => batches'[m] = batches[m],
         broken \subseteq broken',
         node \notin broken' => \A i \in DOMAIN batches'[node] : HealedAt(batches'[node][i], price)
  PROVE  HealInv'
<1>1. node \in Nodes /\ Nodes = 1..NodeCount /\ NodeCount \in Nat /\ passed \in BOOLEAN
  BY Flags DEF Inv, ClientTypes, Nodes
<1>2. ~passed /\ \A n \in Nodes : n < node /\ n \notin broken => Healed(n)
  BY DEF HealInv, Behind
<1>3. ASSUME NEW n \in Nodes, n <= node, n \notin broken' PROVE Healed(n)'
  <2>1. CASE n = node
    BY <1>3, <2>1 DEF Healed
  <2>2. CASE n # node
    <3>1. Healed(n)
      BY <1>1, <1>2, <1>3, <2>2
    <3>2. QED
      BY <2>2, <3>1 DEF Healed
  <2>3. QED
    BY <2>1, <2>2
<1>4. CASE node + 1 <= NodeCount
  <2>1. pc' = "price" /\ node' = node + 1 /\ ~passed'
    BY <1>2, <1>4 DEF EndNode, GoTo, FirstStep
  <2>2. ASSUME NEW n \in Nodes, n < node' PROVE n <= node
    BY <1>1, <2>1, <2>2
  <2>3. Behind'
    BY <1>3, <2>1, <2>2 DEF Behind
  <2>4. QED
    BY <2>1, <2>3 DEF HealInv, AtHand
<1>5. CASE ~(node + 1 <= NodeCount)
  <2>1. pc' = "idle" /\ passed'
    BY <1>5 DEF EndNode, GoTo, Periodic
  <2>2. \A n \in Nodes : n <= node
    BY <1>1, <1>5
  <2>3. Behind'
    BY <1>3, <2>1, <2>2 DEF Behind
  <2>4. QED
    BY <2>1, <2>3 DEF HealInv, AtHand
<1>6. QED
  BY <1>4, <1>5

LEMMA NodeFailsHeals ==
  ASSUME Inv, HealInv, cmd = "set", pc # "idle", NodeFails, UNCHANGED price,
         \A m \in Nodes : m # node => batches'[m] = batches[m]
  PROVE  HealInv'
BY AwayHeals DEF NodeFails

\* On a node nothing has failed or changed at, the list is right from idx on and
\* the batches that are passed over need nothing.
LEMMA ListIsRight ==
  ASSUME Inv, HealInv, cmd = "set", node \notin broken, pc = "batch"
  PROVE  /\ \A i \in idx..Len(snap) : snap[i] = ReportOf(batches[node][i])
         /\ \A i \in 1..Len(snap) : i < NextHandled => HealedAt(batches[node][i], price)
         /\ price \in Nat /\ price > 0 /\ snapPrice = price
<1>1. price \in Nat /\ price > 0 /\ snapPrice = price
  BY PricesAre DEF HealInv, AtHand, Inv, ClientTypes
<1>2. \A i \in idx..Len(snap) : snap[i] = ReportOf(batches[node][i])
  BY DEF HealInv, AtHand
<1>3. ASSUME NEW i \in 1..Len(snap), i < NextHandled PROVE HealedAt(batches[node][i], price)
  <2>1. Len(snap) \in Nat /\ idx \in Nat
    BY DEF Inv, ClientTypes
  <2>2. CASE i < idx
    BY <2>2 DEF HealInv, AtHand
  <2>3. CASE ~(i < idx)
    <3>1. i \in idx..Len(snap)
      BY <2>1, <2>3
    <3>2. batches[node][i] \in BatchRecords /\ Sound(batches[node][i])
      BY <3>1, HandledIs
    <3>3. ~Handles(ReportOf(batches[node][i]))
      BY <1>2, <1>3, <3>1, NextHandledIs DEF Inv
    <3>4. QED
      BY <1>1, <3>2, <3>3, PassedOver
  <2>4. QED
    BY <2>2, <2>3
<1>4. QED
  BY <1>1, <1>2, <1>3

LEMMA NoMoreBatchesHeals == ASSUME Inv, HealInv, cmd = "set", NoMoreBatches PROVE HealInv'
<1>1. /\ pc = "batch" /\ NextHandled > Len(snap) /\ EndNode
      /\ UNCHANGED <<price, batches, cmd, broken>>
  BY DEF NoMoreBatches
<1>2. node \in Nodes /\ Len(snap) \in Nat /\ Len(batches[node]) = Len(snap)
      /\ batches[node] \in Seq(BatchRecords) /\ NextHandled \in Nat
  BY <1>1, NextHandledIs DEF Inv, ClientTypes, BatchTypes, ListIsOld
<1>3. ASSUME node \notin broken, NEW i \in DOMAIN batches[node]
      PROVE  HealedAt(batches[node][i], price)
  <2>1. i \in 1..Len(snap) /\ i < NextHandled
    BY <1>1, <1>2
  <2>2. QED
    BY <1>1, <1>3, <2>1, ListIsRight
<1>4. QED
  BY <1>1, <1>3, AwayHeals

\* Set goes on with the list: past batch k, or to its dilution.
LEMMA StayHeals ==
  ASSUME Inv, HealInv, cmd = "set", pc \in {"batch", "dilute"}, NEW k \in idx..Len(snap),
         UNCHANGED <<price, cmd, node, snap, snapPrice, late, passed, broken>>,
         Replaced(k, batches'[node][k]),
         node \notin broken =>
           /\ \A i \in idx..Len(snap) : i # k => snap[i] = ReportOf(batches[node][i])
           /\ \A i \in 1..Len(snap) : i < k => HealedAt(batches[node][i], price)
           /\ \/ pc' = "batch" /\ idx' = k + 1 /\ HealedAt(batches'[node][k], price)
              \/ /\ pc' = "dilute" /\ idx' = k
                 /\ HealedAt(Diluted(batches'[node][k], NewDepth(snap[k])), price),
         pc' \in {"batch", "dilute"}
  PROVE  HealInv'
<1>1. node \in Nodes /\ Len(snap) \in Nat /\ idx \in Nat /\ idx >= 1 /\ Nodes = 1..NodeCount
      /\ NodeCount \in Nat
  BY Flags DEF Inv, ClientTypes, Nodes
<1>2. ~passed /\ \A n \in Nodes : n < node /\ n \notin broken => Healed(n)
  BY DEF HealInv, Behind
<1>3. Behind'
  <2>1. ASSUME NEW n \in Nodes, n < node, n \notin broken PROVE Healed(n)'
    <3>1. Healed(n) /\ batches'[n] = batches[n]
      BY <1>1, <1>2, <2>1 DEF Replaced
    <3>2. QED
      BY <3>1 DEF Healed
  <2>2. QED
    BY <1>2, <2>1 DEF Behind
<1>4. AtHand'
  <2> SUFFICES ASSUME node \notin broken PROVE AtHand'
    BY DEF AtHand
  <2>1. snapPrice = price /\ price > 0
    BY DEF HealInv, AtHand
  <2>2. k \in 1..Len(snap) /\ \A i \in 1..Len(snap) : i # k => batches'[node][i] = batches[node][i]
    BY <1>1 DEF Replaced
  <2>3. ASSUME NEW i \in 1..Len(snap), i < idx' PROVE HealedAt(batches'[node][i], price)
    <3>1. CASE i = k
      BY <1>1, <2>2, <2>3, <3>1
    <3>2. CASE i # k
      BY <1>1, <2>2, <2>3, <3>2
    <3>3. QED
      BY <3>1, <3>2
  <2>4. ASSUME NEW i \in idx'..Len(snap), pc' = "batch" \/ i # idx'
        PROVE  snap[i] = ReportOf(batches'[node][i])
    <3>1. i # k /\ i \in idx..Len(snap) /\ i \in 1..Len(snap)
      BY <1>1, <2>2, <2>4
    <3>2. QED
      BY <2>2, <3>1
  <2>5. QED
    BY <2>1, <2>3, <2>4 DEF AtHand, ReportOf, BatchTTL
<1>5. QED
  BY <1>3, <1>4 DEF HealInv

\* Past batch k or to its dilution, which will heal it.
LEMMA AfterTopupHeals ==
  ASSUME Inv, HealInv, cmd = "set", pc = "batch", NEW k \in idx..Len(snap), k = NextHandled,
         AfterTopup(k), UNCHANGED <<price, cmd, snap, snapPrice, late, broken>>,
         Replaced(k, batches'[node][k]),
         node \notin broken => HealedNext(batches'[node][k], snap[k])
  PROVE  HealInv'
<1>1. node \notin broken =>
        /\ \A i \in idx..Len(snap) : i # k => snap[i] = ReportOf(batches[node][i])
        /\ \A i \in 1..Len(snap) : i < k => HealedAt(batches[node][i], price)
  BY ListIsRight
<1>2. CASE NeedsDilution(snap[k])
  <2>1. pc' = "dilute" /\ idx' = k /\ UNCHANGED <<node, passed>>
    BY <1>2 DEF AfterTopup
  <2>2. node \notin broken => HealedAt(Diluted(batches'[node][k], NewDepth(snap[k])), price)
    BY <1>2 DEF HealedNext
  <2>3. QED
    BY <1>1, <2>1, <2>2, StayHeals
<1>3. CASE ~NeedsDilution(snap[k])
  <2>1. pc' = "batch" /\ idx' = k + 1 /\ UNCHANGED <<node, passed>>
    BY <1>3 DEF AfterTopup, AfterBatch
  <2>2. node \notin broken => HealedAt(batches'[node][k], price)
    BY <1>3 DEF HealedNext
  <2>3. QED
    BY <1>1, <2>1, <2>2, StayHeals
<1>4. QED
  BY <1>2, <1>3

LEMMA TopupBatchHeals == ASSUME Inv, HealInv, cmd = "set", TopupBatch PROVE HealInv'
<1>1. PICK k \in idx..Len(snap) :
        /\ pc = "batch" /\ k = NextHandled /\ WantsTopup(snap[k]) /\ isValidBatch(snap[k])
        /\ UNCHANGED price
        /\ \/ /\ NodeFails
              /\ \/ batches' = batches
                 \/ Replaced(k, ToppedUp(batches[node][k], TopupAmount(snap[k])))
           \/ /\ AfterTopup(k) /\ Replaced(k, ToppedUp(batches[node][k], TopupAmount(snap[k])))
              /\ UNCHANGED <<cmd, snap, snapPrice, late, broken>>
  BY TopupBatchIs
<1> DEFINE b == batches[node][k]
           r == ToppedUp(b, TopupAmount(snap[k]))
<1>2. CASE NodeFails /\ (batches' = batches \/ Replaced(k, r))
  <2>1. \A m \in Nodes : m # node => batches'[m] = batches[m]
    BY <1>2 DEF Replaced
  <2>2. QED
    BY <1>1, <1>2, <2>1, NodeFailsHeals
<1>3. CASE AfterTopup(k) /\ Replaced(k, r) /\ UNCHANGED <<cmd, snap, snapPrice, late, broken>>
  <2>1. batches'[node][k] = r
    BY <1>3 DEF Replaced
  <2>2. ASSUME node \notin broken PROVE HealedNext(r, snap[k])
    <3>1. snap[k] = ReportOf(b) /\ price \in Nat /\ price > 0 /\ snapPrice = price
      BY <1>1, <2>2, ListIsRight
    <3>2. b \in BatchRecords /\ Sound(b)
      BY <1>1, HandledIs
    <3> HIDE DEF b
    <3>3. HealedNext(ToppedUp(b, TopupAmount(ReportOf(b))), ReportOf(b))
      BY <1>1, <3>1, <3>2, TopupHeals
    <3>4. QED
      BY <3>1, <3>3
  <2> HIDE DEF r
  <2>3. QED
    BY <1>1, <1>3, <2>1, <2>2, AfterTopupHeals
<1>4. QED
  BY <1>1, <1>2, <1>3

LEMMA KeepTtlHeals == ASSUME Inv, HealInv, cmd = "set", KeepTtl PROVE HealInv'
<1> DEFINE k == NextHandled
           b == batches[node][k]
<1>1. /\ pc = "batch" /\ k <= Len(snap) /\ AfterTopup(k) /\ ~WantsTopup(snap[k])
      /\ UNCHANGED <<price, batches, cmd, snap, snapPrice, late, broken>>
  BY DEF KeepTtl, AfterTopup
<1>2. k \in idx..Len(snap) /\ Handles(snap[k])
  BY <1>1, NextHandledIs DEF Inv, ClientTypes
<1>3. isValidBatch(snap[k])
  BY <1>2 DEF Handles
<1>4. Replaced(k, batches'[node][k])
  BY <1>1 DEF Replaced
<1>5. ASSUME node \notin broken PROVE HealedNext(b, snap[k])
  <2>1. snap[k] = ReportOf(b) /\ price \in Nat /\ price > 0
    BY <1>1, <1>2, <1>5, ListIsRight
  <2>2. b \in BatchRecords /\ Sound(b)
    BY <1>1, <1>2, HandledIs
  <2> HIDE DEF b
  <2>3. QED
    BY <1>1, <1>3, <2>1, <2>2, KeepHeals
<1>6. node \notin broken => HealedNext(batches'[node][k], snap[k])
  BY <1>1, <1>5
<1>7. QED
  BY <1>1, <1>2, <1>4, <1>6, AfterTopupHeals

LEMMA DiluteBatchHeals == ASSUME Inv, HealInv, cmd = "set", DiluteBatch PROVE HealInv'
<1>1. PICK k \in idx..Len(snap) :
        /\ pc = "dilute" /\ k = idx /\ UNCHANGED price
        /\ \/ /\ NodeFails
              /\ batches' = batches \/ Replaced(k, Diluted(batches[node][k], NewDepth(snap[k])))
           \/ /\ AfterBatch(k) /\ Replaced(k, Diluted(batches[node][k], NewDepth(snap[k])))
              /\ UNCHANGED <<cmd, snap, snapPrice, late, broken>>
  BY DiluteBatchIs
<1> DEFINE r == Diluted(batches[node][k], NewDepth(snap[k]))
<1>2. CASE NodeFails /\ (batches' = batches \/ Replaced(k, r))
  <2>1. \A m \in Nodes : m # node => batches'[m] = batches[m]
    BY <1>2 DEF Replaced
  <2>2. QED
    BY <1>1, <1>2, <2>1, NodeFailsHeals
<1>3. CASE AfterBatch(k) /\ Replaced(k, r) /\ UNCHANGED <<cmd, snap, snapPrice, late, broken>>
  <2>1. batches'[node][k] = r /\ pc' = "batch" /\ idx' = k + 1 /\ UNCHANGED <<node, passed>>
    BY <1>3 DEF Replaced, AfterBatch
  <2>2. node \notin broken => HealedAt(r, price)
    BY <1>1 DEF HealInv, AtHand
  <2>3. node \notin broken =>
          /\ \A i \in idx..Len(snap) : i # k => snap[i] = ReportOf(batches[node][i])
          /\ \A i \in 1..Len(snap) : i < k => HealedAt(batches[node][i], price)
    BY <1>1 DEF HealInv, AtHand
  <2> HIDE DEF r
  <2>4. QED
    BY <1>1, <1>3, <2>1, <2>2, <2>3, StayHeals
<1>4. QED
  BY <1>1, <1>2, <1>3

LEMMA ReadHeals == ASSUME Inv, HealInv, cmd = "set", ReadPrice \/ ReadBatches PROVE HealInv'
<1>1. UNCHANGED <<price, batches>> /\ pc \in {"price", "list"}
  BY DEF ReadPrice, ReadBatches
<1>2. CASE NodeFails
  BY <1>1, <1>2, NodeFailsHeals
<1>3. ~passed /\ \A n \in Nodes : n < node /\ n \notin broken => Healed(n)
  BY <1>1 DEF HealInv, Behind
<1>4. CASE ReadPrice /\ ~NodeFails
  <2>1. /\ pc' = "list" /\ snapPrice' = price /\ "ok" \in Outcomes(price > 0)
        /\ UNCHANGED <<cmd, node, passed, broken>>
    BY <1>4 DEF ReadPrice
  <2>2. price > 0
    BY <2>1 DEF Outcomes
  <2>3. Behind'
    BY <1>1, <1>3, <2>1 DEF Behind, Healed
  <2>4. QED
    BY <1>1, <2>1, <2>2, <2>3 DEF HealInv, AtHand
<1>5. CASE ReadBatches /\ ~NodeFails
  <2>1. /\ pc = "list" /\ pc' = "batch" /\ idx' = 1 /\ snap' = Report(shown[node])
        /\ broken' = (IF Stale(node) THEN broken \cup {node} ELSE broken)
        /\ UNCHANGED <<cmd, node, snapPrice, passed>>
    BY <1>5 DEF ReadBatches
  <2>11. broken \subseteq broken' /\ (node \notin broken' => shown[node] = batches[node])
    BY <2>1 DEF Stale
  <2>2. Behind'
    BY <1>1, <1>3, <2>1, <2>11 DEF Behind, Healed
  <2>3. node \notin broken => snapPrice = price /\ price > 0
    BY <2>1 DEF HealInv, AtHand
  <2>4. ASSUME node \notin broken', NEW i \in 1..Len(snap') PROVE snap'[i] = ReportOf(batches[node][i])
    <3>0. snap' = Report(batches[node])
      BY <2>1, <2>11, <2>4
    <3>1. batches[node] \in Seq(BatchRecords)
      BY DEF Inv, BatchTypes, ClientTypes
    <3>2. DOMAIN batches[node] = 1..Len(snap')
      BY <3>0, <3>1 DEF Report
    <3>3. QED
      BY <3>0, <3>2 DEF Report
  <2>5. AtHand'
    BY <1>1, <2>1, <2>11, <2>3, <2>4 DEF AtHand, ReportOf, BatchTTL
  <2>6. QED
    BY <2>2, <2>5 DEF HealInv
<1>6. QED
  BY <1>2, <1>4, <1>5

LEMMA OutsideHeals ==
  ASSUME Inv, HealInv, cmd = "set", Outside,
         \/ broken' = Nodes
         \/ \E n \in Nodes : /\ price' = price /\ broken' = broken \cup {n}
                             /\ \A m \in Nodes : m # n => batches'[m] = batches[m]
  PROVE  HealInv'
<1>1. node \in Nodes /\ UNCHANGED <<cmd, pc, node, idx, snap, snapPrice, late, passed>>
  BY DEF Inv, ClientTypes, Outside
<1>2. CASE broken' = Nodes
  BY <1>1, <1>2 DEF HealInv, Behind, AtHand
<1>3. CASE \E n \in Nodes : /\ price' = price /\ broken' = broken \cup {n}
                            /\ \A m \in Nodes : m # n => batches'[m] = batches[m]
  <2>1. PICK n \in Nodes : /\ price' = price /\ broken' = broken \cup {n}
                           /\ \A m \in Nodes : m # n => batches'[m] = batches[m]
    BY <1>3
  <2>2. ASSUME NEW m \in Nodes, m \notin broken', Healed(m) PROVE Healed(m)'
    BY <2>1, <2>2 DEF Healed
  <2>3. Behind'
    BY <1>1, <2>1, <2>2 DEF HealInv, Behind
  <2>4. CASE node = n
    BY <1>1, <2>1, <2>3, <2>4 DEF HealInv, AtHand
  <2>5. CASE node # n
    <3>1. batches'[node] = batches[node] /\ price' = price /\ (node \notin broken' => node \notin broken)
      BY <1>1, <2>1, <2>5
    <3>2. AtHand'
      BY <1>1, <3>1 DEF HealInv, AtHand, ReportOf, BatchTTL
    <3>3. QED
      BY <2>3, <3>2 DEF HealInv
  <2>6. QED
    BY <2>4, <2>5
<1>4. QED
  BY <1>2, <1>3

LEMMA NextHeals == ASSUME Inv, ShownTypes, HealInv, [Next]_vars PROVE HealInv'
<1>1. CASE cmd # "set"
  <2>1. cmd' = cmd
    BY ListsGrow
  <2>2. QED
    BY <1>1, <2>1 DEF HealInv, Behind, AtHand
<1>2. CASE cmd = "set"
  <2>1. CASE Begin
    <3>1. pc' = "price" /\ node' = 1 /\ passed' = FALSE /\ cmd' = cmd
      BY <1>2, <2>1 DEF Begin, FirstStep
    <3>2. \A n \in Nodes : ~(n < node')
      BY <3>1, Flags DEF Nodes
    <3>3. QED
      BY <3>1, <3>2 DEF HealInv, Behind, AtHand
  <2>2. CASE BeginFails
    <3>1. pc = "idle" /\ pc' = "idle" /\ UNCHANGED <<price, batches, cmd, node, passed, broken>>
      BY <1>2, <2>2 DEF BeginFails, Periodic
    <3>2. QED
      BY <3>1 DEF HealInv, Behind, AtHand, Healed
  <2>3. CASE ReadPrice \/ ReadBatches \/ NoMoreBatches
    BY <1>2, <2>3, ReadHeals, NoMoreBatchesHeals
  <2>4. CASE TopupBatch \/ KeepTtl \/ DiluteBatch
    BY <1>2, <2>4, TopupBatchHeals, KeepTtlHeals, DiluteBatchHeals
  <2>5. ~CreateBatch
    BY <1>2 DEF CreateBatch, Inv, Position
  <2>6. CASE Block \/ PriceChange
    <3>1. Outside /\ broken' = Nodes
      BY <2>6, BlockIs, PriceChangeIs DEF Block, PriceChange
    <3>2. QED
      BY <1>2, <3>1, OutsideHeals
  <2>7. CASE \E n \in Nodes : \E i \in DOMAIN shown[n] : Upload(n, i)
    BY <1>2, <2>7, UploadIs, OutsideHeals
  <2>71. CASE \E n \in Nodes : Sync(n)
    <3>1. UNCHANGED <<price, batches, cmd, pc, node, idx, snap, snapPrice, passed, broken>>
      BY <2>71 DEF Sync, client
    <3>2. QED
      BY <3>1 DEF HealInv, Behind, AtHand, Healed, ReportOf, BatchTTL
  <2>8. CASE UNCHANGED vars
    BY <2>8 DEF HealInv, Behind, AtHand, Healed, ReportOf, BatchTTL, vars
  <2>9. QED
    BY <2>1, <2>2, <2>3, <2>4, <2>5, <2>6, <2>7, <2>71, <2>8 DEF Next, Step
<1>3. QED
  BY <1>1, <1>2

\* For every configuration: a pass of set leaves each node it did not fail at and
\* that did not change with healed batches, whatever failed on other nodes.
THEOREM SetHealsHolds == Spec => []SetHeals
<1>1. Init => HealInv
  BY DEF Init, HealInv, Behind, AtHand
<1>2. Inv /\ ShownTypes /\ HealInv /\ [Next]_vars => HealInv'
  BY NextHeals
<1>3. ASSUME Inv, HealInv PROVE SetHeals
  <2> SUFFICES ASSUME NEW n \in Nodes, PassDone("set", n), NEW r \in InLoop(n)
               PROVE  EnoughTtl(r.ttl) /\ EnoughRoom(BatchUsage(r))
    BY DEF SetHeals
  <2>1. Healed(n)
    BY <1>3 DEF PassDone, HealInv, Behind
  <2>2. batches[n] \in Seq(BatchRecords)
    BY <1>3 DEF Inv, BatchTypes
  <2>3. PICK i \in DOMAIN batches[n] : r = ReportOf(batches[n][i])
    BY <2>2 DEF InLoop, Reported, Report, ToSet
  <2> DEFINE b == batches[n][i]
  <2>4. HealedAt(b, price) /\ b \in BatchRecords /\ Sound(b)
    BY <1>3, <2>1, RecordsAre DEF Inv, Healed
  <2> HIDE DEF b
  <2>5. r = ReportOf(b) /\ isValidBatch(r)
    BY <2>3 DEF b, InLoop
  <2>6. EnoughTtl(TtlAt(b, price)) /\ EnoughRoom(BatchUsage(b))
    BY <2>4, <2>5, HealedIs DEF HealedAt
  <2>7. BatchUsage(r) = BatchUsage(b)
    BY <2>5 DEF BatchUsage, Capacity, ReportOf
  <2>8. QED
    BY <2>5, <2>6, <2>7, HealedIs
<1>4. QED
  BY <1>1, <1>2, <1>3, InvAlways, PTL DEF Spec

=============================================================================
