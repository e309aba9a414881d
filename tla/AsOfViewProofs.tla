---------------------------- MODULE AsOfViewProofs ----------------------------
(***************************************************************************)
(* Theorems about AsOfView, for any schedule of refresh jobs, decisions,   *)
(* slots, lakes and replays: a decision reads exactly what its instant may *)
(* know, whoever encoded the parts, and a view only grows.                 *)
(***************************************************************************)
EXTENDS AsOfView, FiniteSetTheorems, TLAPS

-----------------------------------------------------------------------------
(* Numbers.                                                                 *)

LEMMA Least ==
    ASSUME NEW S, S \subseteq Nat, S # {}
    PROVE  \E i \in S : \A j \in S : i <= j
<1> DEFINE R == {p \in Nat \X Nat : p[1] < p[2]}
<1>1. IsWellFoundedOn(R, Nat)
  BY NatLessThanWellFounded DEF OpToRel
<1> HIDE DEF R
<1>2. PICK i \in S : \A j \in S : ~ (<<j, i>> \in R)
  BY <1>1, WFMin
<1>3. \A j \in S : ~ (j < i)
  BY <1>2 DEF R
<1> QED BY <1>3

\* A set that holds 0 and the successor of each of its numbers holds every number: else
\* the least it lacks would be neither.
LEMMA Induction ==
    ASSUME NEW T, 0 \in T, \A n \in Nat : n \in T => n + 1 \in T
    PROVE  Nat \subseteq T
<1> SUFFICES ASSUME Nat \ T # {} PROVE FALSE
  OBVIOUS
<1>1. PICK k \in Nat \ T : \A j \in Nat \ T : k <= j
  BY Least
<1>2. k - 1 \in Nat /\ k - 1 \in T
  BY <1>1
<1> QED BY <1>2

LEMMA MinIs ==
    ASSUME NEW S, S \subseteq Nat, S # {}
    PROVE  Min(S) \in S /\ \A y \in S : Min(S) <= y
  BY Least DEF Min

LEMMA MaxIs ==
    ASSUME NEW S, S \subseteq Nat, S # {}, NEW b \in Nat, \A x \in S : x <= b
    PROVE  Max(S) \in S /\ \A y \in S : y <= Max(S)
<1> DEFINE U == {b - x : x \in S}
<1>1. U \subseteq Nat
  OBVIOUS
<1>0. U # {}
  OBVIOUS
<1> HIDE DEF U
<1>2. PICK u \in U : \A v \in U : u <= v
  BY <1>0, <1>1, Least
<1>3. PICK m \in S : u = b - m
  BY <1>2 DEF U
<1>4. ASSUME NEW y \in S PROVE m >= y
  <2>1. b - m <= b - y
    BY <1>2, <1>3 DEF U
  <2> QED BY <2>1, <1>3
<1> QED BY <1>4 DEF Max

-----------------------------------------------------------------------------
(* A set as a sequence.                                                     *)

\* An order of a set.
Orders(before, S) ==
    /\ \A x \in S : <<x, x>> \notin before
    /\ \A x, y \in S : x # y => <<x, y>> \in before \/ <<y, x>> \in before
    /\ \A x, y, z \in S : <<x, y>> \in before /\ <<y, z>> \in before => <<x, z>> \in before

\* Every element once, the first first.
Enumerates(s, S, before) ==
    /\ s \in [1 .. Cardinality(S) -> S]
    /\ \A x \in S : \E i \in 1 .. Cardinality(S) : s[i] = x
    /\ \A i, j \in 1 .. Cardinality(S) : i < j => <<s[i], s[j]>> \in before

\* What one order enumerates, an order that agrees with it on the elements does.
LEMMA EnumeratesAlong ==
    ASSUME NEW s, NEW S, NEW before, NEW along, Enumerates(s, S, before),
           \A x, y \in S : <<x, y>> \in before => <<x, y>> \in along
    PROVE  Enumerates(s, S, along)
BY DEF Enumerates

LEMMA AscendingIs ==
    ASSUME NEW S, IsFiniteSet(S), NEW before, Orders(before, S)
    PROVE  Enumerates(Ascending(S, before), S, before)
<1> DEFINE n == Cardinality(S)
<1> DEFINE D(x) == {y \in S : <<y, x>> \in before}
<1> DEFINE rank == [x \in S |-> Cardinality(D(x))]
<1>1. n \in Nat
  BY FS_CardinalityType
<1>2. ASSUME NEW x \in S PROVE IsFiniteSet(D(x)) /\ rank[x] \in 0 .. n - 1
  <2>1. D(x) \in SUBSET (S \ {x})
    BY DEF Orders
  <2>2. IsFiniteSet(S \ {x}) /\ Cardinality(S \ {x}) = n - 1
    BY FS_RemoveElement
  <2> HIDE DEF D, n
  <2>3. IsFiniteSet(D(x)) /\ Cardinality(D(x)) <= n - 1
    BY <2>1, <2>2, FS_Subset
  <2>4. Cardinality(D(x)) \in Nat
    BY <2>3, FS_CardinalityType
  <2> QED BY <1>1, <2>3, <2>4
<1>3. ASSUME NEW x \in S, NEW y \in S, <<x, y>> \in before PROVE rank[x] < rank[y]
  <2>1. x \notin D(x) /\ D(x) \cup {x} \in SUBSET D(y)
    BY <1>3 DEF Orders
  <2> HIDE DEF D, n
  <2>2. IsFiniteSet(D(y)) /\ IsFiniteSet(D(x)) /\ rank[x] \in Nat /\ rank[y] \in Nat
    BY <1>1, <1>2
  <2>3. Cardinality(D(x) \cup {x}) = rank[x] + 1
    BY <2>1, <2>2, FS_AddElement
  <2>4. Cardinality(D(x) \cup {x}) <= rank[y]
    BY <2>1, <2>2, FS_Subset
  <2> QED BY <2>2, <2>3, <2>4
<1>4. \A x, y \in S : rank[x] = rank[y] => x = y
  <2> SUFFICES ASSUME NEW x \in S, NEW y \in S, rank[x] = rank[y], x # y PROVE FALSE
    OBVIOUS
  <2>1. rank[x] \in 0 .. n - 1 /\ rank[y] \in 0 .. n - 1
    BY <1>2
  <2> HIDE DEF rank
  <2>2. rank[x] < rank[y] \/ rank[y] < rank[x]
    BY <1>3 DEF Orders
  <2> QED BY <1>1, <2>1, <2>2
<1>5. rank \in Surjection(S, 0 .. n - 1)
  <2> HIDE DEF D
  <2>1. rank \in [S -> 0 .. n - 1]
    BY <1>2
  <2> HIDE DEF rank
  <2>2. rank \in Injection(S, 0 .. n - 1)
    BY <1>4, <2>1 DEF Injection, IsInjective
  <2>3. IsFiniteSet(0 .. n - 1) /\ Cardinality(0 .. n - 1) = n
    <3>1. n \in Nat
      BY <1>1
    <3> HIDE DEF n
    <3> QED BY <3>1, FS_Interval
  <2> QED BY <2>2, <2>3, FS_Injection
<1> DEFINE s == Ascending(S, before)
<1>6. s = [i \in 1 .. n |-> CHOOSE x \in S : Cardinality(D(x)) = i - 1]
  BY DEF Ascending
<1>7. \A x \in S : rank[x] = Cardinality(D(x))
  OBVIOUS
<1> HIDE DEF D, rank, s
<1>8. ASSUME NEW i \in 1 .. n PROVE s[i] \in S /\ rank[s[i]] = i - 1
  <2>1. \E x \in S : rank[x] = i - 1
    <3>1. i - 1 \in 0 .. n - 1
      BY <1>1
    <3> QED BY <1>5, <3>1 DEF Surjection
  <2>2. \E x \in S : Cardinality(D(x)) = i - 1
    BY <1>7, <2>1
  <2> QED BY <1>6, <1>7, <2>2
<1>9. ASSUME NEW x \in S PROVE \E i \in 1 .. n : s[i] = x
  <2>1. rank[x] \in 0 .. n - 1
    BY <1>2
  <2> DEFINE i == rank[x] + 1
  <2>2. i \in 1 .. n
    BY <1>1, <2>1
  <2>3. rank[s[i]] = rank[x] /\ s[i] \in S
    BY <1>8, <2>1, <2>2
  <2> QED BY <1>4, <2>2, <2>3
<1>10. ASSUME NEW i \in 1 .. n, NEW j \in 1 .. n, i < j PROVE <<s[i], s[j]>> \in before
  <2>1. rank[s[i]] = i - 1 /\ rank[s[j]] = j - 1 /\ s[i] \in S /\ s[j] \in S
    BY <1>8
  <2>2. s[i] # s[j]
    BY <1>1, <1>10, <2>1
  <2>3. <<s[i], s[j]>> \in before \/ <<s[j], s[i]>> \in before
    BY <2>1, <2>2 DEF Orders
  <2>4. ~ (<<s[j], s[i]>> \in before)
    <3> SUFFICES ASSUME <<s[j], s[i]>> \in before PROVE FALSE
      OBVIOUS
    <3>1. rank[s[j]] < rank[s[i]]
      BY <1>3, <2>1
    <3> QED BY <1>1, <1>10, <2>1, <3>1
  <2> QED BY <2>3, <2>4
<1>11. s \in [1 .. n -> S]
  BY <1>6, <1>8
<1> QED BY <1>9, <1>10, <1>11 DEF Enumerates, s

-----------------------------------------------------------------------------
(* The lake is fixed: what is read from it stays.                           *)

LEMMA FixedRows ==
    ASSUME lake' = lake
    PROVE  /\ \A d : Rows(d)' = Rows(d)
           /\ \A r : SlotOf(r)' = SlotOf(r)
           /\ \A d, k : SlotRows(d, k)' = SlotRows(d, k)
           /\ \A d, t : Known(d, t)' = Known(d, t)
           /\ \A S : InOrder(S)' = InOrder(S)
<1>1. \A d : Rows(d)' = Rows(d)
  BY DEF Rows
<1>2. \A r : SlotOf(r)' = SlotOf(r)
  BY DEF SlotOf
<1>3. \A d, k : SlotRows(d, k)' = SlotRows(d, k)
  BY <1>1, <1>2 DEF SlotRows
<1>4. \A d, t : Known(d, t)' = Known(d, t)
  BY <1>1 DEF Known
<1>5. \A S : FileOrder(S)' = FileOrder(S)
  BY <1>2 DEF FileOrder
<1>6. \A S : InOrder(S)' = InOrder(S)
  BY <1>5 DEF InOrder
<1> QED BY <1>1, <1>2, <1>3, <1>4, <1>6

-----------------------------------------------------------------------------
(* The refresh schedule and the slots.                                      *)

LEMMA CutoffIs ==
    ASSUME NEW dataset \in DOMAIN Refreshes, NEW t \in Nat
    PROVE  Cutoff(dataset, t) \in 0 .. t /\ NextReady(dataset, t) \subseteq Nat
<1> DEFINE S == {0} \cup {job.start : job \in {j \in Refreshes[dataset] : j.ready <= t}}
<1>1. S \subseteq Nat /\ \A x \in S : x <= t
  BY FeedAssumption
<1>2. 0 \in S
  OBVIOUS
<1>3. Cutoff(dataset, t) = Max(S)
  BY DEF Cutoff
<1> HIDE DEF S
<1>4. NextReady(dataset, t) \subseteq Nat
  BY FeedAssumption DEF NextReady
<1>5. Max(S) \in S
  BY <1>1, <1>2, MaxIs
<1>6. Max(S) \in Nat /\ Max(S) <= t
  BY <1>1, <1>5
<1> QED BY <1>3, <1>4, <1>6

LEMMA CutoffGrows ==
    ASSUME NEW dataset \in DOMAIN Refreshes, NEW t \in Nat, NEW u \in Nat, t <= u
    PROVE  /\ Cutoff(dataset, t) <= Cutoff(dataset, u)
           /\ (\A b \in NextReady(dataset, t) : u < b) => Cutoff(dataset, u) = Cutoff(dataset, t)
<1> DEFINE S(x) == {0} \cup {job.start : job \in {j \in Refreshes[dataset] : j.ready <= x}}
<1>1. ASSUME NEW x \in Nat PROVE S(x) \subseteq Nat /\ 0 \in S(x) /\ \A y \in S(x) : y <= x
  BY FeedAssumption
<1>2. S(t) \subseteq S(u)
  BY FeedAssumption
<1>3. \A x \in Nat : Cutoff(dataset, x) = Max(S(x))
  BY DEF Cutoff
<1>4. (\A b \in NextReady(dataset, t) : u < b) => S(u) = S(t)
  <2> SUFFICES ASSUME \A b \in NextReady(dataset, t) : u < b, NEW j \in Refreshes[dataset],
                      j.ready <= u
               PROVE  j.ready <= t
    BY <1>2
  <2>1. j.ready \in Nat
    BY FeedAssumption
  <2> QED BY <2>1 DEF NextReady
<1> HIDE DEF S
<1>5. Max(S(t)) \in S(t)
  BY <1>1, MaxIs
<1>6. \A y \in S(u) : y <= Max(S(u))
  BY <1>1, MaxIs
<1> QED BY <1>2, <1>3, <1>4, <1>5, <1>6

\* What the assumption says of the lake of this behavior.
LakeOK == lake \in Lakes

LEMMA RowIs ==
    ASSUME LakeOK
    PROVE  /\ IsFiniteSet(DOMAIN lake) /\ DOMAIN lake \subseteq Nat
           /\ \A r \in DOMAIN lake :
                 /\ lake[r].domain \in Domains /\ lake[r].dataset \in DOMAIN Refreshes
                 /\ lake[r].avail \in Nat /\ lake[r].avail > 0 /\ lake[r].seen \in Nat
                 /\ lake[r].avail <= lake[r].seen /\ Anchors[1] < lake[r].seen
                 /\ lake[r].domain \in Minutes <=> r \in UNION Groups
                 /\ lake[r].domain \in Minutes => lake[r].seen = lake[r].avail
  BY LakesAssumption DEF LakeOK

LEMMA SlotsAre ==
    /\ Len(Anchors) \in Nat /\ 1 \in Slots /\ Slots \subseteq Nat
    /\ \A k \in Slots : Anchors[k] \in Nat
    /\ \A j, k \in Slots : j < k => Anchors[j] < Anchors[k]
<1>1. Len(Anchors) \in Nat /\ Len(Anchors) # 0 /\ DOMAIN Anchors = Slots
  BY SpanAssumption DEF Slots
<1>2. \A k \in Slots : Anchors[k] \in Nat
  BY <1>1, SpanAssumption
<1>3. \A j, k \in Slots : j < k => Anchors[j] < Anchors[k]
  BY <1>1, SpanAssumption
<1> QED BY <1>1, <1>2, <1>3 DEF Slots

LEMMA SlotOfIs ==
    ASSUME LakeOK, NEW r \in DOMAIN lake
    PROVE  /\ SlotOf(r) \in Slots
           /\ \A k \in Slots : k <= SlotOf(r) <=> Anchors[k] < lake[r].seen
<1> DEFINE S == {k \in Slots : Anchors[k] < lake[r].seen}
<1>1. S \subseteq Nat /\ 1 \in S /\ \A k \in S : k <= Len(Anchors)
  BY RowIs, SlotsAre DEF Slots
<1>2. SlotOf(r) = Max(S)
  BY DEF SlotOf
<1> HIDE DEF S
<1>3. SlotOf(r) \in S /\ \A k \in S : k <= SlotOf(r)
  BY <1>1, <1>2, SlotsAre, MaxIs
<1>4. \A k \in Slots : Anchors[k] < lake[r].seen => k <= SlotOf(r)
  BY <1>3 DEF S
<1>5. ASSUME NEW k \in Slots, k <= SlotOf(r) PROVE Anchors[k] < lake[r].seen
  <2>1. SlotOf(r) \in Slots /\ Anchors[SlotOf(r)] < lake[r].seen /\ lake[r].seen \in Nat
    BY <1>3, RowIs DEF S
  <2>2. k \in Nat /\ SlotOf(r) \in Nat /\ Anchors[k] \in Nat /\ Anchors[SlotOf(r)] \in Nat
    BY <2>1, SlotsAre
  <2>3. k = SlotOf(r) \/ Anchors[k] < Anchors[SlotOf(r)]
    BY <1>5, <2>1, <2>2, SlotsAre
  <2> QED BY <2>1, <2>2, <2>3
<1> QED BY <1>3, <1>4, <1>5 DEF S

\* A batch of rows in file order holds each once.
LEMMA InOrderIs ==
    ASSUME LakeOK, NEW S, S \subseteq DOMAIN lake
    PROVE  /\ IsFiniteSet(S) /\ Orders(FileOrder(S), S)
           /\ Enumerates(InOrder(S), S, FileOrder(S))
<1>1. IsFiniteSet(S)
  BY RowIs, FS_Subset
<1>2. \A r \in S : r \in Nat /\ SlotOf(r) \in Nat
  BY RowIs, SlotOfIs, SlotsAre
<1>3. Orders(FileOrder(S), S)
  BY <1>2 DEF Orders, FileOrder
<1> QED BY <1>1, <1>3, AscendingIs DEF InOrder

\* What was known stays known, and nothing is known at 0.
LEMMA KnownGrows ==
    ASSUME LakeOK, NEW d, NEW t \in Nat, NEW u \in Nat, t <= u
    PROVE  Known(d, t) \subseteq Known(d, u) /\ Known(d, 0) = {} /\ Known(d, t) \subseteq Rows(d)
<1>1. ASSUME NEW r \in Known(d, t) PROVE r \in Known(d, u)
  <2>1. r \in DOMAIN lake /\ lake[r].seen <= t
    BY DEF Known, Rows
  <2>2. lake[r].dataset \in DOMAIN Refreshes /\ lake[r].seen \in Nat /\ lake[r].avail \in Nat
    BY <2>1, RowIs
  <2>3. /\ Cutoff(lake[r].dataset, t) \in Nat /\ Cutoff(lake[r].dataset, u) \in Nat
        /\ Cutoff(lake[r].dataset, t) <= Cutoff(lake[r].dataset, u)
    BY <2>2, CutoffIs, CutoffGrows
  <2> QED BY <2>1, <2>2, <2>3 DEF Known
<1>2. ASSUME NEW r \in Known(d, 0) PROVE FALSE
  <2>1. r \in DOMAIN lake /\ lake[r].seen <= 0
    BY DEF Known, Rows
  <2>2. lake[r].avail > 0 /\ lake[r].avail <= lake[r].seen /\ lake[r].seen \in Nat /\ lake[r].avail \in Nat
    BY <2>1, RowIs
  <2> QED BY <2>1, <2>2
<1> QED BY <1>1, <1>2 DEF Known

-----------------------------------------------------------------------------
(* What each decision adds.                                                 *)

\* The instant of decision i of a view that opens on decision f; 0 before that.
At(f, i) == IF i < f THEN 0 ELSE Decisions[i]

Openings == 1 .. Len(Decisions)

\* The rows of d that decision i adds.
Grown(d, f, i) == Known(d, At(f, i)) \ Known(d, At(f, i - 1))

Base(d) == IF d \in Frozen THEN 1 ELSE 0

\* The number of the part that decision i publishes, if it adds anything.
Number(d, f, i) == Base(d) + Cardinality({j \in f .. i - 1 : Grown(d, f, j) # {}})

\* The rows of the parts a to b.
Batch(d, f, a, b) ==
    UNION {Grown(d, f, i) : i \in {j \in f .. Len(Decisions) : Number(d, f, j) \in a .. b}}

\* Rows in the order of their decisions, those of one decision in file order.
ReadOrder(d, f) ==
    {p \in Rows(d) \X Rows(d) :
        \E i, j \in f .. Len(Decisions) :
            /\ p[1] \in Grown(d, f, i) /\ p[2] \in Grown(d, f, j)
            /\ \/ i < j
               \/ i = j /\ p \in FileOrder(Grown(d, f, i))}

LEMMA AtIs ==
    ASSUME NEW f \in Openings
    PROVE  /\ f \in Nat /\ Len(Decisions) \in Nat
           /\ \A i \in f - 1 .. Len(Decisions) : At(f, i) \in Nat
           /\ \A i, j \in f - 1 .. Len(Decisions) : i < j => At(f, i) < At(f, j)
           /\ At(f, f - 1) = 0
<1>1. Len(Decisions) \in Nat /\ DOMAIN Decisions = 1 .. Len(Decisions)
  BY SpanAssumption
<1>2. \A i \in 1 .. Len(Decisions) : Decisions[i] \in Nat /\ Decisions[i] > 0
  BY <1>1, SpanAssumption
<1>3. \A i, j \in 1 .. Len(Decisions) : i < j => Decisions[i] < Decisions[j]
  BY <1>1, SpanAssumption
<1>4. f \in Nat /\ f >= 1 /\ f <= Len(Decisions)
  BY <1>1 DEF Openings
<1>5. \A i \in f - 1 .. Len(Decisions) : i = f - 1 \/ i \in f .. Len(Decisions)
  BY <1>1, <1>4
<1>6. \A i \in f .. Len(Decisions) : i \in 1 .. Len(Decisions) /\ At(f, i) = Decisions[i]
  BY <1>1, <1>4 DEF At
<1>7. At(f, f - 1) = 0
  BY <1>4 DEF At
<1>8. \A i \in f - 1 .. Len(Decisions) : At(f, i) \in Nat
  BY <1>2, <1>5, <1>6, <1>7
<1>9. ASSUME NEW i \in f - 1 .. Len(Decisions), NEW j \in f - 1 .. Len(Decisions), i < j
      PROVE  At(f, i) < At(f, j)
  <2>1. j \in f .. Len(Decisions)
    BY <1>1, <1>4, <1>9
  <2>2. CASE i = f - 1
    BY <1>2, <1>6, <1>7, <2>1, <2>2
  <2>3. CASE i \in f .. Len(Decisions)
    BY <1>3, <1>6, <1>9, <2>1, <2>3
  <2> QED BY <1>5, <2>2, <2>3
<1> QED BY <1>1, <1>4, <1>7, <1>8, <1>9

LEMMA GrownIs ==
    ASSUME LakeOK, NEW d, NEW f \in Openings
    PROVE  /\ \A i \in f .. Len(Decisions) : Grown(d, f, i) \subseteq Rows(d)
           /\ \A i, j \in f .. Len(Decisions) : Grown(d, f, i) \cap Grown(d, f, j) # {} => i = j
           /\ \A i \in f - 1 .. Len(Decisions) :
                 \A r : r \in Known(d, At(f, i)) <=> \E j \in f .. i : r \in Grown(d, f, j)
<1>1. /\ f \in Nat /\ Len(Decisions) \in Nat
      /\ \A i \in f - 1 .. Len(Decisions) : At(f, i) \in Nat
      /\ \A i, j \in f - 1 .. Len(Decisions) : i < j => At(f, i) < At(f, j)
      /\ At(f, f - 1) = 0
  BY AtIs
<1>2. ASSUME NEW i \in f - 1 .. Len(Decisions), NEW j \in f - 1 .. Len(Decisions), i <= j
      PROVE  Known(d, At(f, i)) \subseteq Known(d, At(f, j))
  <2>1. At(f, i) \in Nat /\ At(f, j) \in Nat /\ At(f, i) <= At(f, j)
    BY <1>1, <1>2
  <2> QED BY <2>1, KnownGrows
<1>3. ASSUME NEW i \in f .. Len(Decisions), NEW j \in f .. Len(Decisions), i < j
      PROVE  Grown(d, f, i) \cap Grown(d, f, j) = {}
  <2>1. i \in f - 1 .. Len(Decisions) /\ j - 1 \in f - 1 .. Len(Decisions) /\ i <= j - 1
    BY <1>1, <1>3
  <2>2. Known(d, At(f, i)) \subseteq Known(d, At(f, j - 1))
    BY <1>2, <2>1
  <2> QED BY <2>2 DEF Grown
<1>4. ASSUME NEW i \in f - 1 .. Len(Decisions), NEW r \in Known(d, At(f, i))
      PROVE  \E j \in f .. i : r \in Grown(d, f, j)
  <2> DEFINE S == {j \in f - 1 .. i : r \in Known(d, At(f, j))}
  <2>1. S \subseteq Nat
    BY <1>1 DEF Openings
  <2>2. i \in S
    BY <1>1, <1>4
  <2>3. PICK j \in S : \A k \in S : j <= k
    <3> HIDE DEF S
    <3> QED BY <2>1, <2>2, Least
  <2>4. r \in Known(d, At(f, j)) /\ j \in f - 1 .. i
    BY <2>3
  <2>5. j # f - 1
    BY <1>1, <2>4, KnownGrows
  <2>6. j \in f .. i /\ j - 1 \in f - 1 .. i /\ ~ (j <= j - 1)
    BY <1>1, <2>4, <2>5
  <2>7. r \notin Known(d, At(f, j - 1))
    BY <2>3, <2>6
  <2> QED BY <2>4, <2>6, <2>7 DEF Grown
<1>5. ASSUME NEW i \in f - 1 .. Len(Decisions), NEW j \in f .. i, NEW r \in Grown(d, f, j)
      PROVE  r \in Known(d, At(f, i))
  <2>1. j \in f - 1 .. Len(Decisions) /\ j <= i
    BY <1>1
  <2>2. Known(d, At(f, j)) \subseteq Known(d, At(f, i))
    BY <1>2, <2>1
  <2> QED BY <2>2 DEF Grown
<1>6. ASSUME NEW i \in f .. Len(Decisions) PROVE Grown(d, f, i) \subseteq Rows(d)
  BY DEF Grown, Known
<1>7. ASSUME NEW i \in f .. Len(Decisions), NEW j \in f .. Len(Decisions),
             Grown(d, f, i) \cap Grown(d, f, j) # {}
      PROVE  i = j
  <2>1. i < j \/ j < i \/ i = j
    BY <1>1
  <2> QED BY <1>3, <1>7, <2>1
<1> QED BY <1>4, <1>5, <1>6, <1>7

\* What is known after decision i is what the decisions up to i added.
LEMMA KnownIs ==
    ASSUME LakeOK, NEW d, NEW f \in Openings, NEW i \in f - 1 .. Len(Decisions)
    PROVE  \A r : r \in Known(d, At(f, i)) <=> \E j \in f .. i : r \in Grown(d, f, j)
<1> DEFINE Adds(n) == \A r : r \in Known(d, At(f, n)) <=> \E j \in f .. n : r \in Grown(d, f, j)
<1>1. \A n \in f - 1 .. Len(Decisions) : Adds(n)
  BY GrownIs
<1> HIDE DEF Adds
<1>2. Adds(i)
  BY <1>1, Zenon
<1> QED BY <1>2 DEF Adds

LEMMA BaseIs == ASSUME NEW d PROVE Base(d) \in {0, 1}
  BY DEF Base

LEMMA NumberIs ==
    ASSUME NEW d, NEW f \in Openings
    PROVE  /\ Number(d, f, f) = Base(d)
           /\ \A i \in f .. Len(Decisions) + 1 : Number(d, f, i) \in Nat /\ Base(d) <= Number(d, f, i)
           /\ \A i \in f .. Len(Decisions) :
                 Number(d, f, i + 1) = Number(d, f, i) + IF Grown(d, f, i) = {} THEN 0 ELSE 1
           /\ \A i, j \in f .. Len(Decisions) + 1 : i <= j => Number(d, f, i) <= Number(d, f, j)
           /\ \A i, j \in f .. Len(Decisions) + 1 :
                 i < j /\ Grown(d, f, i) # {} => Number(d, f, i) < Number(d, f, j)
<1> DEFINE S(i) == {j \in f .. i - 1 : Grown(d, f, j) # {}}
<1>1. f \in Nat /\ Len(Decisions) \in Nat
  BY AtIs
<1>2. ASSUME NEW i \in f .. Len(Decisions) + 1
      PROVE  IsFiniteSet(S(i)) /\ Cardinality(S(i)) \in Nat
  <2>1. IsFiniteSet(f .. i - 1)
    BY <1>1, FS_Interval
  <2>2. IsFiniteSet(S(i))
    BY <2>1, FS_Subset
  <2> HIDE DEF S
  <2> QED BY <2>2, FS_CardinalityType
<1>3. ASSUME NEW i \in f .. Len(Decisions) + 1, NEW j \in f .. Len(Decisions) + 1, i <= j
      PROVE  Cardinality(S(i)) <= Cardinality(S(j))
  <2>1. S(i) \in SUBSET S(j)
    BY <1>1, <1>3
  <2> HIDE DEF S
  <2> QED BY <1>2, <2>1, FS_Subset
<1>4. ASSUME NEW i \in f .. Len(Decisions)
      PROVE  Cardinality(S(i + 1)) = Cardinality(S(i)) + IF Grown(d, f, i) = {} THEN 0 ELSE 1
  <2>1. S(i + 1) = S(i) \cup IF Grown(d, f, i) = {} THEN {} ELSE {i}
    BY <1>1
  <2>2. i \notin S(i)
    BY <1>1
  <2>3. IsFiniteSet(S(i)) /\ Cardinality(S(i)) \in Nat
    <3>1. i \in f .. Len(Decisions) + 1
      BY <1>1
    <3> HIDE DEF S
    <3> QED BY <1>2, <3>1
  <2> HIDE DEF S
  <2>4. CASE Grown(d, f, i) = {}
    BY <2>1, <2>3, <2>4
  <2>5. CASE Grown(d, f, i) # {}
    <3>1. S(i + 1) = S(i) \cup {i}
      BY <2>1, <2>5
    <3>2. Cardinality(S(i) \cup {i}) = Cardinality(S(i)) + 1
      BY <2>2, <2>3, FS_AddElement
    <3> QED BY <2>5, <3>1, <3>2
  <2> QED BY <2>4, <2>5
<1>5. S(f) = {} /\ Cardinality({}) = 0
  BY <1>1, FS_EmptySet
<1>6. \A i : Number(d, f, i) = Base(d) + Cardinality(S(i))
  BY DEF Number
<1>7. Base(d) \in Nat
  BY BaseIs
<1> HIDE DEF S
<1>8. Number(d, f, f) = Base(d)
  BY <1>5, <1>6, <1>7
<1>9. \A i \in f .. Len(Decisions) + 1 : Number(d, f, i) \in Nat /\ Base(d) <= Number(d, f, i)
  BY <1>2, <1>6, <1>7
<1>10. ASSUME NEW i \in f .. Len(Decisions)
       PROVE  Number(d, f, i + 1) = Number(d, f, i) + IF Grown(d, f, i) = {} THEN 0 ELSE 1
  <2>1. Cardinality(S(i)) \in Nat /\ Cardinality(S(i + 1)) \in Nat
    BY <1>1, <1>2
  <2> QED BY <1>4, <1>6, <1>7, <2>1
<1>11. ASSUME NEW i \in f .. Len(Decisions) + 1, NEW j \in f .. Len(Decisions) + 1, i <= j
       PROVE  Number(d, f, i) <= Number(d, f, j)
  <2>1. Cardinality(S(i)) \in Nat /\ Cardinality(S(j)) \in Nat
    BY <1>2
  <2> QED BY <1>3, <1>6, <1>7, <1>11, <2>1
<1>12. ASSUME NEW i \in f .. Len(Decisions) + 1, NEW j \in f .. Len(Decisions) + 1, i < j,
              Grown(d, f, i) # {}
       PROVE  Number(d, f, i) < Number(d, f, j)
  <2>1. i \in f .. Len(Decisions) /\ i + 1 \in f .. Len(Decisions) + 1 /\ i + 1 <= j
    BY <1>1, <1>12
  <2>2. Number(d, f, i + 1) = Number(d, f, i) + 1
    BY <1>10, <1>12, <2>1
  <2>3. Number(d, f, i + 1) <= Number(d, f, j)
    BY <1>11, <2>1
  <2> QED BY <1>9, <2>1, <2>2, <2>3
<1> QED BY <1>8, <1>9, <1>10, <1>11, <1>12

\* The parts up to decision i hold what is known then; a part holds what one decision
\* added.
LEMMA BatchIs ==
    ASSUME LakeOK, NEW d, NEW f \in Openings
    PROVE  /\ \A i \in f - 1 .. Len(Decisions) :
                 Batch(d, f, Base(d), Number(d, f, i + 1) - 1) = Known(d, At(f, i))
           /\ \A i \in f .. Len(Decisions) : Grown(d, f, i) # {} =>
                 Batch(d, f, Number(d, f, i), Number(d, f, i)) = Grown(d, f, i)
           /\ \A a, b : Batch(d, f, a, b) \subseteq Rows(d)
<1>1. f \in Nat /\ f >= 1 /\ Len(Decisions) \in Nat
  BY AtIs DEF Openings
<1>2. \A i \in f .. Len(Decisions) : Number(d, f, i) \in Nat /\ Base(d) <= Number(d, f, i)
  <2>1. \A i \in f .. Len(Decisions) : i \in f .. Len(Decisions) + 1
    BY <1>1
  <2> QED BY <2>1, NumberIs
<1>3. Base(d) \in Nat
  BY BaseIs
<1>4. ASSUME NEW i \in f - 1 .. Len(Decisions)
      PROVE  Batch(d, f, Base(d), Number(d, f, i + 1) - 1) = Known(d, At(f, i))
  <2>1. i + 1 \in f .. Len(Decisions) + 1
    BY <1>1
  <2>2. Number(d, f, i + 1) \in Nat
    BY <2>1, NumberIs
  <2>3. ASSUME NEW j \in f .. Len(Decisions), Grown(d, f, j) # {}
        PROVE  Number(d, f, j) \in Base(d) .. Number(d, f, i + 1) - 1 <=> j <= i
    <3>1. j \in f .. Len(Decisions) + 1
      BY <1>1
    <3>2. CASE j <= i
      <4>1. j < i + 1
        BY <1>1, <3>2
      <4>2. Number(d, f, j) < Number(d, f, i + 1)
        BY <2>1, <2>3, <3>1, <4>1, NumberIs
      <4> QED BY <1>2, <1>3, <2>2, <3>2, <4>2
    <3>3. CASE i < j
      <4>1. i + 1 <= j
        BY <1>1, <3>3
      <4>2. Number(d, f, i + 1) <= Number(d, f, j)
        BY <2>1, <3>1, <4>1, NumberIs
      <4> QED BY <1>1, <1>2, <1>3, <2>2, <3>3, <4>2
    <3> QED BY <1>1, <3>2, <3>3
  <2>4. ASSUME NEW r PROVE r \in Batch(d, f, Base(d), Number(d, f, i + 1) - 1)
                           <=> \E j \in f .. i : r \in Grown(d, f, j)
    <3>1. r \in Batch(d, f, Base(d), Number(d, f, i + 1) - 1) <=>
             \E j \in f .. Len(Decisions) :
                 Number(d, f, j) \in Base(d) .. Number(d, f, i + 1) - 1 /\ r \in Grown(d, f, j)
      BY DEF Batch
    <3>2. \A j : j \in f .. i <=> j \in f .. Len(Decisions) /\ j <= i
      BY <1>1
    <3> QED BY <2>3, <3>1, <3>2
  <2>5. \A r : r \in Known(d, At(f, i)) <=> \E j \in f .. i : r \in Grown(d, f, j)
    BY KnownIs
  <2> QED BY <2>4, <2>5
<1>5. ASSUME NEW i \in f .. Len(Decisions), Grown(d, f, i) # {}
      PROVE  Batch(d, f, Number(d, f, i), Number(d, f, i)) = Grown(d, f, i)
  <2>1. ASSUME NEW j \in f .. Len(Decisions), Grown(d, f, j) # {},
               Number(d, f, j) \in Number(d, f, i) .. Number(d, f, i)
        PROVE  j = i
    <3>1. Number(d, f, j) = Number(d, f, i)
      BY <1>2, <2>1
    <3>2. i \in f .. Len(Decisions) + 1 /\ j \in f .. Len(Decisions) + 1
      BY <1>1
    <3>3. ~ (i < j) /\ ~ (j < i)
      <4>1. i < j => Number(d, f, i) < Number(d, f, j)
        BY <1>5, <3>2, NumberIs
      <4>2. j < i => Number(d, f, j) < Number(d, f, i)
        BY <2>1, <3>2, NumberIs
      <4> QED BY <1>2, <3>1, <4>1, <4>2
    <3> QED BY <1>1, <3>3
  <2>2. Number(d, f, i) \in Number(d, f, i) .. Number(d, f, i)
    BY <1>2
  <2> QED BY <2>1, <2>2 DEF Batch
<1>6. \A a, b : Batch(d, f, a, b) \subseteq Rows(d)
  BY GrownIs DEF Batch
<1> QED BY <1>4, <1>5, <1>6

LEMMA BatchSplits ==
    ASSUME NEW d, NEW f \in Openings, NEW a \in Int, NEW b \in Int, NEW c \in Int,
           a <= b + 1, b <= c
    PROVE  Batch(d, f, a, c) = Batch(d, f, a, b) \cup Batch(d, f, b + 1, c)
<1>1. \A j \in f .. Len(Decisions) : Number(d, f, j) \in Nat
  <2>1. \A j \in f .. Len(Decisions) : j \in f .. Len(Decisions) + 1
    BY AtIs
  <2> QED BY <2>1, NumberIs
<1>2. \A n \in Nat : n \in a .. c <=> n \in a .. b \/ n \in b + 1 .. c
  OBVIOUS
<1>3. \A j \in f .. Len(Decisions) : Number(d, f, j) \in a .. c
           <=> Number(d, f, j) \in a .. b \/ Number(d, f, j) \in b + 1 .. c
  BY <1>1, <1>2
<1> QED BY <1>3 DEF Batch

LEMMA BatchEmpty ==
    ASSUME NEW d, NEW f, NEW a \in Int, NEW b \in Int, b < a
    PROVE  Batch(d, f, a, b) = {}
<1>1. a .. b = {}
  OBVIOUS
<1> QED BY <1>1 DEF Batch

\* Rows that are published are in order, and the parts to b come before those after b.
LEMMA ReadOrderIs ==
    ASSUME LakeOK, NEW d, NEW f \in Openings
    PROVE  /\ \A a, b : Orders(ReadOrder(d, f), Batch(d, f, a, b))
           /\ \A i \in f - 1 .. Len(Decisions) : Orders(ReadOrder(d, f), Known(d, At(f, i)))
           /\ \A a, b, c, e \in Int : b < c =>
                 \A x \in Batch(d, f, a, b) : \A y \in Batch(d, f, c, e) : <<x, y>> \in ReadOrder(d, f)
           /\ \A i, j \in f .. Len(Decisions) : i < j =>
                 \A x \in Grown(d, f, i) : \A y \in Grown(d, f, j) : <<x, y>> \in ReadOrder(d, f)
           /\ \A i \in f .. Len(Decisions) :
                 Enumerates(InOrder(Grown(d, f, i)), Grown(d, f, i), ReadOrder(d, f))
<1> DEFINE P == {r \in Rows(d) : \E i \in f .. Len(Decisions) : r \in Grown(d, f, i)}
<1>1. f \in Nat /\ Len(Decisions) \in Nat
  BY AtIs
<1>2. /\ \A i \in f .. Len(Decisions) : Grown(d, f, i) \subseteq Rows(d)
      /\ \A i, j \in f .. Len(Decisions) : Grown(d, f, i) \cap Grown(d, f, j) # {} => i = j
  BY GrownIs
<1>3. ASSUME NEW i \in f .. Len(Decisions)
      PROVE  /\ Orders(FileOrder(Grown(d, f, i)), Grown(d, f, i))
             /\ Enumerates(InOrder(Grown(d, f, i)), Grown(d, f, i), FileOrder(Grown(d, f, i)))
  <2>1. Grown(d, f, i) \subseteq DOMAIN lake
    BY <1>2 DEF Rows
  <2> QED BY <2>1, InOrderIs
<1>4. ASSUME NEW x, NEW y, NEW i \in f .. Len(Decisions), NEW j \in f .. Len(Decisions),
             x \in Grown(d, f, i), y \in Grown(d, f, j)
      PROVE  <<x, y>> \in ReadOrder(d, f) <=>
                 \/ i < j
                 \/ i = j /\ <<x, y>> \in FileOrder(Grown(d, f, i))
  <2>1. x \in Rows(d) /\ y \in Rows(d)
    BY <1>2, <1>4
  <2>2. \A k \in f .. Len(Decisions) : (x \in Grown(d, f, k) => k = i) /\ (y \in Grown(d, f, k) => k = j)
    BY <1>2, <1>4
  <2> QED BY <1>4, <2>1, <2>2 DEF ReadOrder
<1>5. ASSUME NEW x \in P PROVE <<x, x>> \notin ReadOrder(d, f)
  <2>1. PICK i \in f .. Len(Decisions) : x \in Grown(d, f, i)
    OBVIOUS
  <2>2. ~ (<<x, x>> \in FileOrder(Grown(d, f, i)))
    BY <1>3, <2>1 DEF Orders
  <2> QED BY <1>1, <1>4, <2>1, <2>2
<1>6. ASSUME NEW x \in P, NEW y \in P, x # y
      PROVE  <<x, y>> \in ReadOrder(d, f) \/ <<y, x>> \in ReadOrder(d, f)
  <2>1. PICK i \in f .. Len(Decisions) : x \in Grown(d, f, i)
    OBVIOUS
  <2>2. PICK j \in f .. Len(Decisions) : y \in Grown(d, f, j)
    OBVIOUS
  <2>3. i < j \/ j < i \/ i = j
    BY <1>1
  <2>4. i = j => \/ <<x, y>> \in FileOrder(Grown(d, f, i))
                 \/ <<y, x>> \in FileOrder(Grown(d, f, i))
    BY <1>3, <1>6, <2>1, <2>2 DEF Orders
  <2> QED BY <1>4, <2>1, <2>2, <2>3, <2>4
<1>7. ASSUME NEW x \in P, NEW y \in P, NEW z \in P,
             <<x, y>> \in ReadOrder(d, f), <<y, z>> \in ReadOrder(d, f)
      PROVE  <<x, z>> \in ReadOrder(d, f)
  <2>1. PICK i \in f .. Len(Decisions) : x \in Grown(d, f, i)
    OBVIOUS
  <2>2. PICK j \in f .. Len(Decisions) : y \in Grown(d, f, j)
    OBVIOUS
  <2>3. PICK k \in f .. Len(Decisions) : z \in Grown(d, f, k)
    OBVIOUS
  <2>4. i < j \/ (i = j /\ <<x, y>> \in FileOrder(Grown(d, f, i)))
    BY <1>4, <1>7, <2>1, <2>2
  <2>5. j < k \/ (j = k /\ <<y, z>> \in FileOrder(Grown(d, f, j)))
    BY <1>4, <1>7, <2>2, <2>3
  <2>6. i = j /\ j = k => (<<x, y>> \in FileOrder(Grown(d, f, i)) /\ <<y, z>> \in FileOrder(Grown(d, f, i))
                             => <<x, z>> \in FileOrder(Grown(d, f, i)))
    BY <1>3, <2>1, <2>2, <2>3 DEF Orders
  <2>7. i < k \/ (i = k /\ <<x, z>> \in FileOrder(Grown(d, f, i)))
    BY <1>1, <2>4, <2>5, <2>6
  <2> QED BY <1>4, <2>1, <2>3, <2>7
<1>8. \A S : S \subseteq P => Orders(ReadOrder(d, f), S)
  <2> SUFFICES ASSUME NEW S, S \subseteq P PROVE Orders(ReadOrder(d, f), S)
    OBVIOUS
  <2> HIDE DEF P
  <2> QED BY <1>5, <1>6, <1>7 DEF Orders
<1>9. \A a, b : Batch(d, f, a, b) \subseteq P
  BY <1>2 DEF Batch
<1>10. \A i \in f - 1 .. Len(Decisions) : Known(d, At(f, i)) \subseteq P
  <2> SUFFICES ASSUME NEW i \in f - 1 .. Len(Decisions), NEW r \in Known(d, At(f, i)) PROVE r \in P
    OBVIOUS
  <2>1. PICK j \in f .. i : r \in Grown(d, f, j)
    BY KnownIs
  <2>2. j \in f .. Len(Decisions)
    BY <1>1
  <2> QED BY <1>2, <2>1, <2>2
<1>11. ASSUME NEW a \in Int, NEW b \in Int, NEW c \in Int, NEW e \in Int, b < c,
              NEW x \in Batch(d, f, a, b), NEW y \in Batch(d, f, c, e)
       PROVE  <<x, y>> \in ReadOrder(d, f)
  <2>1. PICK i \in f .. Len(Decisions) : Number(d, f, i) \in a .. b /\ x \in Grown(d, f, i)
    BY DEF Batch
  <2>2. PICK j \in f .. Len(Decisions) : Number(d, f, j) \in c .. e /\ y \in Grown(d, f, j)
    BY DEF Batch
  <2>3. i \in f .. Len(Decisions) + 1 /\ j \in f .. Len(Decisions) + 1
    BY <1>1
  <2>4. j <= i => Number(d, f, j) <= Number(d, f, i)
    BY <2>3, NumberIs
  <2>5. Number(d, f, i) < Number(d, f, j)
    BY <1>11, <2>1, <2>2
  <2>6. Number(d, f, i) \in Int /\ Number(d, f, j) \in Int
    BY <2>1, <2>2
  <2>7. i < j
    BY <1>1, <2>4, <2>5, <2>6
  <2> QED BY <1>4, <2>1, <2>2, <2>7
<1>12. ASSUME NEW i \in f .. Len(Decisions)
       PROVE  Enumerates(InOrder(Grown(d, f, i)), Grown(d, f, i), ReadOrder(d, f))
  <2>1. \A x, y \in Grown(d, f, i) :
           <<x, y>> \in FileOrder(Grown(d, f, i)) => <<x, y>> \in ReadOrder(d, f)
    BY <1>4
  <2>2. Enumerates(InOrder(Grown(d, f, i)), Grown(d, f, i), FileOrder(Grown(d, f, i)))
    BY <1>3
  <2> QED BY <2>1, <2>2, EnumeratesAlong, Zenon
<1> HIDE DEF P
<1>13. /\ \A a, b : Orders(ReadOrder(d, f), Batch(d, f, a, b))
       /\ \A i \in f - 1 .. Len(Decisions) : Orders(ReadOrder(d, f), Known(d, At(f, i)))
  BY <1>8, <1>9, <1>10, Zenon
<1>14. \A a, b, c, e \in Int : b < c =>
          \A x \in Batch(d, f, a, b) : \A y \in Batch(d, f, c, e) : <<x, y>> \in ReadOrder(d, f)
  BY <1>11, Zenon
<1>15. \A i, j \in f .. Len(Decisions) : i < j =>
          \A x \in Grown(d, f, i) : \A y \in Grown(d, f, j) : <<x, y>> \in ReadOrder(d, f)
  BY <1>4, Zenon
<1> QED BY <1>12, <1>13, <1>14, <1>15, Zenon

-----------------------------------------------------------------------------
(* A set has one enumeration in an order; a lower part of it is a prefix.   *)

LEMMA RankIs ==
    ASSUME NEW S, IsFiniteSet(S), NEW before, Orders(before, S), NEW s, Enumerates(s, S, before),
           NEW i \in 1 .. Cardinality(S)
    PROVE  Cardinality({y \in S : <<y, s[i]>> \in before}) = i - 1
<1> DEFINE n == Cardinality(S)
<1> DEFINE D == {y \in S : <<y, s[i]>> \in before}
<1>1. n \in Nat /\ i \in Nat
  BY FS_CardinalityType
<1>2. s \in [1 .. n -> S] /\ \A j, k \in 1 .. n : j < k => <<s[j], s[k]>> \in before
  BY DEF Enumerates
<1>3. \A x \in S : \E j \in 1 .. n : s[j] = x
  BY DEF Enumerates
<1>4. ASSUME NEW j \in 1 .. n PROVE <<s[j], s[i]>> \in before <=> j < i
  <2>1. s[i] \in S /\ s[j] \in S
    BY <1>2
  <2>2. CASE j < i
    BY <1>2, <2>2
  <2>3. CASE j = i
    BY <1>1, <2>1, <2>3 DEF Orders
  <2>4. CASE i < j
    <3>1. <<s[i], s[j]>> \in before
      BY <1>2, <2>4
    <3>2. ~ (<<s[j], s[i]>> \in before)
      BY <2>1, <3>1 DEF Orders
    <3> QED BY <1>1, <2>4, <3>2
  <2> QED BY <1>1, <2>2, <2>3, <2>4
<1> DEFINE g == [j \in 1 .. i - 1 |-> s[j]]
<1>5. \A j \in 1 .. i - 1 : j \in 1 .. n /\ j < i
  BY <1>1
<1>6. g \in [1 .. i - 1 -> D]
  BY <1>2, <1>4, <1>5
<1>7. ASSUME NEW j \in 1 .. i - 1, NEW k \in 1 .. i - 1, g[j] = g[k] PROVE j = k
  <2>1. s[j] = s[k] /\ j \in 1 .. n /\ k \in 1 .. n /\ s[j] \in S /\ s[k] \in S
    BY <1>2, <1>5, <1>7
  <2>2. ~ (j < k) /\ ~ (k < j)
    BY <1>2, <2>1 DEF Orders
  <2> QED BY <1>1, <2>2
<1>8. ASSUME NEW x \in D PROVE \E j \in 1 .. i - 1 : g[j] = x
  <2>1. PICK j \in 1 .. n : s[j] = x
    BY <1>3
  <2>2. j < i
    BY <1>4, <2>1
  <2>3. j \in 1 .. i - 1
    BY <1>1, <2>2
  <2> QED BY <2>1, <2>3
<1> HIDE DEF D, g
<1>9. g \in Bijection(1 .. i - 1, D)
  BY <1>6, <1>7, <1>8 DEF Bijection, Injection, Surjection, IsInjective
<1>10. i - 1 \in Nat
  BY <1>1
<1>11. ExistsBijection(1 .. i - 1, D)
  BY <1>9 DEF ExistsBijection
<1>12. Cardinality(D) = i - 1
  BY <1>10, <1>11, FS_CountingElements
<1> QED BY <1>12 DEF D

LEMMA PrefixIs ==
    ASSUME NEW S, IsFiniteSet(S), NEW before, Orders(before, S), NEW s, Enumerates(s, S, before),
           NEW R, R \subseteq S, NEW q, Enumerates(q, R, before),
           \A x \in R : \A y \in S \ R : <<x, y>> \in before
    PROVE  /\ Cardinality(R) \in Nat /\ Cardinality(S) \in Nat /\ Cardinality(R) <= Cardinality(S)
           /\ \A i \in 1 .. Cardinality(R) : q[i] = s[i]
<1> DEFINE n == Cardinality(S)
<1> DEFINE m == Cardinality(R)
<1>1. IsFiniteSet(R) /\ m <= n /\ m \in Nat /\ n \in Nat
  BY FS_Subset, FS_CardinalityType
<1>2. Orders(before, R)
  BY DEF Orders
<1>3. ASSUME NEW i \in 1 .. m PROVE q[i] = s[i]
  <2>1. q[i] \in R
    BY DEF Enumerates
  <2>2. PICK k \in 1 .. n : s[k] = q[i]
    BY <2>1 DEF Enumerates
  <2>3. {y \in S : <<y, q[i]>> \in before} = {y \in R : <<y, q[i]>> \in before}
    <3> SUFFICES ASSUME NEW y \in S \ R, <<y, q[i]>> \in before PROVE FALSE
      OBVIOUS
    <3>1. <<q[i], y>> \in before
      BY <2>1
    <3> QED BY <2>1, <3>1 DEF Orders
  <2>4. Cardinality({y \in R : <<y, q[i]>> \in before}) = i - 1
    BY <1>1, <1>2, RankIs
  <2>5. Cardinality({y \in S : <<y, s[k]>> \in before}) = k - 1
    BY RankIs
  <2>6. i = k
    <3>1. i - 1 = k - 1
      BY <2>2, <2>3, <2>4, <2>5
    <3> HIDE DEF m, n
    <3>2. i \in Nat /\ k \in Nat
      BY <1>1
    <3> QED BY <3>1, <3>2
  <2> QED BY <2>2, <2>6
<1> QED BY <1>1, <1>3

LEMMA EnumerationIsUnique ==
    ASSUME NEW S, IsFiniteSet(S), NEW before, Orders(before, S),
           NEW s, Enumerates(s, S, before), NEW q, Enumerates(q, S, before)
    PROVE  s = q
<1>1. \A i \in 1 .. Cardinality(S) : q[i] = s[i]
  BY PrefixIs
<1> DEFINE D == 1 .. Cardinality(S)
<1>2. s \in [D -> S] /\ q \in [D -> S] /\ \A i \in D : q[i] = s[i]
  BY <1>1 DEF Enumerates
<1> HIDE DEF D
<1> QED BY <1>2

\* An enumeration is a sequence; one after the other enumerate the union.
LEMMA EnumerationIs ==
    ASSUME NEW S, IsFiniteSet(S), NEW before, NEW s, Enumerates(s, S, before)
    PROVE  /\ s \in Seq(S) /\ Len(s) = Cardinality(S) /\ Cardinality(S) \in Nat
           /\ DOMAIN s = 1 .. Cardinality(S) /\ Range(s) = S
<1>1. Cardinality(S) \in Nat
  BY FS_CardinalityType
<1>2. s \in [1 .. Cardinality(S) -> S]
  BY DEF Enumerates
<1>3. s \in Seq(S) /\ Len(s) = Cardinality(S)
  BY <1>1, <1>2
<1>4. Range(s) = S
  BY <1>2 DEF Enumerates, Range
<1> QED BY <1>1, <1>2, <1>3, <1>4

LEMMA NothingEnumerated == ASSUME NEW before PROVE Enumerates(<<>>, {}, before)
  BY FS_EmptySet DEF Enumerates

LEMMA ConcatIs ==
    ASSUME NEW R, IsFiniteSet(R), NEW S, IsFiniteSet(S), R \cap S = {}, NEW before,
           NEW q, Enumerates(q, R, before), NEW s, Enumerates(s, S, before),
           \A x \in R : \A y \in S : <<x, y>> \in before
    PROVE  Enumerates(q \o s, R \cup S, before)
<1> DEFINE m == Cardinality(R)
<1> DEFINE n == Cardinality(S)
<1>1. q \in Seq(R) /\ Len(q) = m /\ m \in Nat /\ s \in Seq(S) /\ Len(s) = n /\ n \in Nat
  BY EnumerationIs
<1>2. Cardinality(R \cup S) = m + n
  <2>1. Cardinality(R \cap S) = 0
    BY FS_EmptySet
  <2>2. Cardinality(R \cup S) = m + n - Cardinality(R \cap S)
    BY FS_Union
  <2> HIDE DEF m, n
  <2> QED BY <1>1, <2>1, <2>2
<1>3. /\ \A x \in R : \E i \in 1 .. m : q[i] = x
      /\ \A i, j \in 1 .. m : i < j => <<q[i], q[j]>> \in before
      /\ \A i \in 1 .. m : q[i] \in R
  BY DEF Enumerates
<1>4. /\ \A x \in S : \E i \in 1 .. n : s[i] = x
      /\ \A i, j \in 1 .. n : i < j => <<s[i], s[j]>> \in before
      /\ \A i \in 1 .. n : s[i] \in S
  BY DEF Enumerates
<1> DEFINE u == q \o s
<1> HIDE DEF m, n
<1>5. /\ Len(u) = m + n /\ DOMAIN u = 1 .. m + n
      /\ \A i \in 1 .. m + n : u[i] = IF i <= m THEN q[i] ELSE s[i - m]
  BY <1>1
<1> HIDE DEF u
<1>6. \A i \in 1 .. m + n : (i <= m => i \in 1 .. m) /\ (i > m => i - m \in 1 .. n)
  BY <1>1
<1>7. u \in Seq(R \cup S)
  <2>1. q \in Seq(R \cup S) /\ s \in Seq(R \cup S)
    BY <1>1
  <2> QED BY <2>1 DEF u
<1>8. u \in [1 .. m + n -> R \cup S]
  BY <1>5, <1>7
<1>9. ASSUME NEW x \in R \cup S PROVE \E i \in 1 .. m + n : u[i] = x
  <2>1. CASE x \in R
    <3>1. PICK i \in 1 .. m : q[i] = x
      BY <1>3, <2>1
    <3>2. i \in 1 .. m + n /\ i <= m
      BY <1>1
    <3> QED BY <1>5, <3>1, <3>2
  <2>2. CASE x \in S
    <3>1. PICK i \in 1 .. n : s[i] = x
      BY <1>4, <2>2
    <3>2. i + m \in 1 .. m + n /\ ~ (i + m <= m) /\ (i + m) - m = i
      BY <1>1
    <3> QED BY <1>5, <3>1, <3>2
  <2> QED BY <2>1, <2>2
<1>10. ASSUME NEW i \in 1 .. m + n, NEW j \in 1 .. m + n, i < j PROVE <<u[i], u[j]>> \in before
  <2>1. CASE j <= m
    <3>1. i \in 1 .. m /\ j \in 1 .. m /\ i <= m
      BY <1>1, <1>10, <2>1
    <3> QED BY <1>3, <1>5, <1>10, <2>1, <3>1
  <2>2. CASE i > m
    <3>1. i - m \in 1 .. n /\ j - m \in 1 .. n /\ i - m < j - m /\ ~ (i <= m) /\ ~ (j <= m)
      BY <1>1, <1>10, <2>2
    <3> QED BY <1>4, <1>5, <3>1
  <2>3. CASE i <= m /\ j > m
    <3>1. i \in 1 .. m /\ j - m \in 1 .. n /\ ~ (j <= m)
      BY <1>1, <2>3
    <3> QED BY <1>3, <1>4, <1>5, <2>3, <3>1
  <2> QED BY <1>1, <2>1, <2>2, <2>3
<1> QED BY <1>2, <1>8, <1>9, <1>10 DEF Enumerates, u

-----------------------------------------------------------------------------
(* Reading parts.                                                           *)

\* The running concatenation of sequences.
Flattening(f, s, n) == f = [i \in 1 .. n |-> IF i = 1 THEN s[i] ELSE f[i - 1] \o s[i]]

LEMMA FlattenExists ==
    ASSUME NEW s, NEW n \in Nat
    PROVE  \E f : Flattening(f, s, n)
<1> DEFINE Some(m) == \E f : Flattening(f, s, m)
<1> DEFINE T == {m \in Nat : Some(m)}
<1>1. 0 \in T
  <2> DEFINE f == [i \in 1 .. 0 |-> s]
  <2>1. Flattening(f, s, 0)
    BY DEF Flattening
  <2> QED BY <2>1
<1>2. ASSUME NEW m \in Nat, m \in T PROVE m + 1 \in T
  <2>1. PICK f : Flattening(f, s, m)
    BY <1>2
  <2> DEFINE g == [i \in 1 .. m + 1 |->
                      IF i <= m THEN f[i] ELSE IF i = 1 THEN s[i] ELSE f[i - 1] \o s[i]]
  <2>2. ASSUME NEW i \in 1 .. m + 1 PROVE g[i] = IF i = 1 THEN s[i] ELSE g[i - 1] \o s[i]
    <3>1. CASE i \in 1 .. m
      <4>1. g[i] = f[i]
        BY <3>1
      <4>2. f[i] = IF i = 1 THEN s[i] ELSE f[i - 1] \o s[i]
        BY <2>1, <3>1 DEF Flattening
      <4>3. i # 1 => g[i - 1] = f[i - 1]
        BY <3>1
      <4> QED BY <4>1, <4>2, <4>3
    <3>2. CASE i = m + 1
      <4>1. i # 1 => g[i - 1] = f[i - 1]
        BY <3>2
      <4>2. g[i] = IF i = 1 THEN s[i] ELSE f[i - 1] \o s[i]
        BY <3>2
      <4> QED BY <4>1, <4>2
    <3> QED BY <3>1, <3>2
  <2>3. Flattening(g, s, m + 1)
    BY <2>2 DEF Flattening
  <2> HIDE DEF g
  <2>4. Some(m + 1)
    BY <2>3
  <2> HIDE DEF Some
  <2> QED BY <2>4
<1> HIDE DEF T
<1>3. n \in T
  BY <1>1, <1>2, Induction
<1> QED BY <1>3 DEF T

LEMMA FlattenIs ==
    ASSUME NEW s, NEW n \in Nat, n # 0, Len(s) = n
    PROVE  \E f : /\ f[1] = s[1] /\ FlattenSeq(s) = f[n]
                  /\ \A i \in 1 .. n : i # 1 => f[i] = f[i - 1] \o s[i]
<1> DEFINE f == CHOOSE g : Flattening(g, s, n)
<1>1. Flattening(f, s, n)
  BY FlattenExists
<1>2. FlattenSeq(s) = f[n]
  BY DEF FlattenSeq, Flattening
<1> HIDE DEF f
<1>3. 1 \in 1 .. n
  OBVIOUS
<1>4. f[1] = s[1] /\ \A i \in 1 .. n : i # 1 => f[i] = f[i - 1] \o s[i]
  BY <1>1, <1>3 DEF Flattening
<1> QED BY <1>2, <1>4

\* Parts that hold the numbers a to b, each once.
Tiles(parts, a, b) ==
    /\ IsFiniteSet(parts)
    /\ \A p \in parts : /\ p.first \in Nat /\ p.last \in Nat
                        /\ a <= p.first /\ p.first <= p.last /\ p.last <= b
    /\ \A n \in a .. b : \E p \in parts : p.first <= n /\ n <= p.last
    /\ \A p, q \in parts : p # q => p.last < q.first \/ q.last < p.first

Contents(parts, d, f) ==
    \A p \in parts : Enumerates(p.rows, Batch(d, f, p.first, p.last), ReadOrder(d, f))

\* The k-th part begins where the one before ends.
LEMMA ByFirstIs ==
    ASSUME NEW parts, NEW a \in Nat, NEW b \in Int, Tiles(parts, a, b), a <= b + 1
    PROVE  LET n == Cardinality(parts)
               e == ByFirst(parts)
           IN  /\ n \in Nat /\ (n = 0 => b < a)
               /\ \A i \in 1 .. n : e[i] \in parts
               /\ n # 0 => e[1].first = a /\ e[n].last = b
               /\ \A i \in 1 .. n : i # 1 => e[i].first = e[i - 1].last + 1
<1> DEFINE n == Cardinality(parts)
<1> DEFINE before == {p \in parts \X parts : p[1].first < p[2].first}
<1> DEFINE e == Ascending(parts, before)
<1>1. /\ IsFiniteSet(parts) /\ n \in Nat
      /\ \A p \in parts : /\ p.first \in Nat /\ p.last \in Nat
                          /\ a <= p.first /\ p.first <= p.last /\ p.last <= b
  BY FS_CardinalityType DEF Tiles
<1>2. Orders(before, parts)
  <2>1. \A p \in parts : <<p, p>> \notin before
    BY <1>1
  <2>2. ASSUME NEW p \in parts, NEW q \in parts, p # q
        PROVE  <<p, q>> \in before \/ <<q, p>> \in before
    <3>1. p.last < q.first \/ q.last < p.first
      BY <2>2 DEF Tiles
    <3> QED BY <1>1, <3>1
  <2>3. \A p, q, r \in parts : <<p, q>> \in before /\ <<q, r>> \in before => <<p, r>> \in before
    BY <1>1
  <2> QED BY <2>1, <2>2, <2>3 DEF Orders
<1>3. Enumerates(e, parts, before)
  BY <1>1, <1>2, AscendingIs
<1>4. e = ByFirst(parts)
  BY DEF ByFirst
<1>5. \A i \in 1 .. n : e[i] \in parts
  BY <1>3 DEF Enumerates
<1>6. \A p \in parts : \E i \in 1 .. n : e[i] = p
  BY <1>3 DEF Enumerates
<1>7. \A i, j \in 1 .. n : i < j => e[i].first < e[j].first
  BY <1>3 DEF Enumerates
<1> HIDE DEF e, before, n
<1>8. ASSUME NEW i \in 1 .. n, NEW j \in 1 .. n, i < j PROVE e[i].last < e[j].first
  <2>1. e[i] \in parts /\ e[j] \in parts /\ e[i].first < e[j].first
    BY <1>5, <1>7, <1>8
  <2>2. e[i] # e[j]
    BY <1>1, <2>1
  <2>3. e[i].last < e[j].first \/ e[j].last < e[i].first
    BY <2>1, <2>2 DEF Tiles
  <2> QED BY <1>1, <2>1, <2>3
<1>9. ASSUME NEW k \in a .. b PROVE \E i \in 1 .. n : e[i].first <= k /\ k <= e[i].last
  <2>1. PICK p \in parts : p.first <= k /\ k <= p.last
    BY DEF Tiles
  <2> QED BY <1>6, <2>1
<1>10. \A i \in 1 .. n : /\ e[i].first \in Nat /\ e[i].last \in Nat
                         /\ a <= e[i].first /\ e[i].first <= e[i].last /\ e[i].last <= b
  BY <1>1, <1>5
<1>11. ASSUME n = 0 PROVE b < a
  <2>1. a \notin a .. b
    BY <1>9, <1>11
  <2> QED BY <2>1
<1>12. ASSUME n # 0 PROVE e[1].first = a /\ e[n].last = b
  <2>1. 1 \in 1 .. n /\ n \in 1 .. n
    BY <1>1, <1>12
  <2>2. a \in a .. b /\ b \in a .. b
    BY <1>10, <2>1
  <2>3. PICK i \in 1 .. n : e[i].first <= a
    BY <1>9, <2>2
  <2>4. i = 1 \/ e[1].first < e[i].first
    BY <1>7, <2>1
  <2>5. PICK j \in 1 .. n : b <= e[j].last
    BY <1>9, <2>2
  <2>6. j = n \/ e[j].last < e[n].first
    BY <1>1, <1>8, <2>1
  <2>7. e[1].first = a
    BY <1>10, <2>1, <2>3, <2>4
  <2>8. e[n].last = b
    BY <1>10, <2>1, <2>5, <2>6
  <2> QED BY <2>7, <2>8
<1>13. ASSUME NEW i \in 1 .. n, i # 1 PROVE e[i].first = e[i - 1].last + 1
  <2>1. i - 1 \in 1 .. n /\ i - 1 < i
    BY <1>1, <1>13
  <2>2. e[i - 1].last < e[i].first
    BY <1>8, <2>1
  <2> DEFINE k == e[i - 1].last + 1
  <2>3. k \in a .. b
    BY <1>10, <2>1, <2>2
  <2>4. PICK j \in 1 .. n : e[j].first <= k /\ k <= e[j].last
    BY <1>9, <2>3
  <2>5. j < i - 1 => e[j].last < e[i - 1].first
    BY <1>8, <2>1
  <2>6. j \notin 1 .. i - 1
    BY <1>1, <1>10, <2>1, <2>4, <2>5
  <2>7. i < j => e[i].last < e[j].first
    BY <1>8
  <2>8. i = j \/ i < j
    BY <1>1, <2>6
  <2> QED BY <1>10, <2>1, <2>2, <2>4, <2>7, <2>8
<1> QED BY <1>1, <1>4, <1>5, <1>11, <1>12, <1>13 DEF n

\* Parts that hold what they say, read one after the other, are their rows in order.
LEMMA ReadingIs ==
    ASSUME LakeOK, NEW d, NEW f \in Openings, NEW parts, NEW a \in Nat, NEW b \in Int,
           Tiles(parts, a, b), a <= b + 1, Contents(parts, d, f)
    PROVE  Enumerates(Reading(parts), Batch(d, f, a, b), ReadOrder(d, f))
<1> DEFINE n == Cardinality(parts)
<1> DEFINE e == ByFirst(parts)
<1> DEFINE s == [i \in 1 .. n |-> e[i].rows]
<1>1. /\ n \in Nat /\ (n = 0 => b < a)
      /\ \A i \in 1 .. n : e[i] \in parts
      /\ n # 0 => e[1].first = a /\ e[n].last = b
      /\ \A i \in 1 .. n : i # 1 => e[i].first = e[i - 1].last + 1
  BY ByFirstIs
<1>2. Reading(parts) = FlattenSeq(s)
  BY DEF Reading
<1> HIDE DEF n, e
<1>3. \A i \in 1 .. n : /\ e[i].first \in Nat /\ e[i].last \in Nat /\ e[i].first <= e[i].last
                        /\ a <= e[i].first
                        /\ Enumerates(e[i].rows, Batch(d, f, e[i].first, e[i].last), ReadOrder(d, f))
  BY <1>1 DEF Tiles, Contents
<1>4. CASE n = 0
  <2>1. Batch(d, f, a, b) = {}
    BY <1>1, <1>4, BatchEmpty
  <2>2. s = <<>>
    BY <1>4
  <2>3. FlattenSeq(<<>>) = <<>>
    BY DEF FlattenSeq
  <2> QED BY <1>2, <2>1, <2>2, <2>3, NothingEnumerated
<1>5. CASE n # 0
  <2>1. Len(s) = n
    BY <1>1
  <2>2. PICK F : /\ F[1] = s[1] /\ FlattenSeq(s) = F[n]
                 /\ \A i \in 1 .. n : i # 1 => F[i] = F[i - 1] \o s[i]
    <3> HIDE DEF s
    <3> QED BY <1>1, <1>5, <2>1, FlattenIs
  <2>3. \A i \in 1 .. n : s[i] = e[i].rows
    OBVIOUS
  <2> HIDE DEF s
  <2> DEFINE Good(i) == Enumerates(F[i], Batch(d, f, a, e[i].last), ReadOrder(d, f))
  <2> DEFINE G == {i \in Nat : i + 1 \in 1 .. n => Good(i + 1)}
  <2>4. 0 \in G
    <3>1. 1 \in 1 .. n
      BY <1>1, <1>5
    <3>2. Good(1)
      BY <1>1, <1>3, <1>5, <2>2, <2>3, <3>1
    <3> HIDE DEF Good
    <3> QED BY <3>2
  <2>5. ASSUME NEW i \in Nat, i \in G PROVE i + 1 \in G
    <3> SUFFICES ASSUME (i + 1) + 1 \in 1 .. n PROVE Good((i + 1) + 1)
      OBVIOUS
    <3> DEFINE j == i + 1
    <3> DEFINE k == j + 1
    <3>1. j \in 1 .. n /\ k \in 1 .. n /\ k # 1 /\ k - 1 = j
      BY <1>1
    <3>2. Good(j)
      BY <2>5, <3>1
    <3>3. F[k] = F[j] \o s[k]
      BY <2>2, <3>1
    <3>4. e[k].first = e[j].last + 1
      BY <1>1, <3>1
    <3> HIDE DEF j, k
    <3>5. Enumerates(s[k], Batch(d, f, e[j].last + 1, e[k].last), ReadOrder(d, f))
      BY <1>3, <2>3, <3>1, <3>4
    <3> DEFINE l == e[j].last
    <3> DEFINE m == e[k].last
    <3>6. l \in Nat /\ m \in Nat /\ a <= l + 1 /\ l <= m
      BY <1>3, <3>1, <3>4
    <3> HIDE DEF l, m
    <3>7. Batch(d, f, a, m) = Batch(d, f, a, l) \cup Batch(d, f, l + 1, m)
      BY <3>6, BatchSplits
    <3>8. \A x \in Batch(d, f, a, l) : \A y \in Batch(d, f, l + 1, m) : <<x, y>> \in ReadOrder(d, f)
      <4>1. l + 1 \in Int /\ l < l + 1 /\ l \in Int /\ m \in Int /\ a \in Int
        BY <3>6
      <4> QED BY <4>1, ReadOrderIs
    <3>9. Batch(d, f, a, l) \cap Batch(d, f, l + 1, m) = {}
      <4>1. Orders(ReadOrder(d, f), Batch(d, f, a, l))
        BY ReadOrderIs
      <4> QED BY <3>8, <4>1 DEF Orders
    <3>10. IsFiniteSet(Batch(d, f, a, l)) /\ IsFiniteSet(Batch(d, f, l + 1, m))
      <4>1. \A x, y : Batch(d, f, x, y) \in SUBSET DOMAIN lake
        BY BatchIs DEF Rows
      <4> QED BY <4>1, RowIs, FS_Subset
    <3>11. Enumerates(F[j], Batch(d, f, a, l), ReadOrder(d, f))
      BY <3>2 DEF l
    <3>12. Enumerates(s[k], Batch(d, f, l + 1, m), ReadOrder(d, f))
      BY <3>5 DEF l, m
    <3>13. Enumerates(F[j] \o s[k], Batch(d, f, a, l) \cup Batch(d, f, l + 1, m), ReadOrder(d, f))
      BY <3>8, <3>9, <3>10, <3>11, <3>12, ConcatIs
    <3>14. Enumerates(F[k], Batch(d, f, a, m), ReadOrder(d, f))
      BY <3>3, <3>7, <3>13
    <3> QED BY <3>14 DEF k, j, m
  <2> HIDE DEF G
  <2>6. n - 1 \in G
    <3>1. n - 1 \in Nat
      BY <1>1, <1>5
    <3> QED BY <2>4, <2>5, <3>1, Induction
  <2>7. Good(n)
    <3>1. (n - 1) + 1 = n /\ n \in 1 .. n
      BY <1>1, <1>5
    <3> HIDE DEF Good
    <3> QED BY <2>6, <3>1 DEF G
  <2> QED BY <1>1, <1>2, <1>5, <2>2, <2>7
<1> QED BY <1>4, <1>5

LEMMA BatchIsFinite ==
    ASSUME LakeOK, NEW d, NEW f \in Openings, NEW a, NEW b
    PROVE  /\ IsFiniteSet(Batch(d, f, a, b)) /\ Orders(ReadOrder(d, f), Batch(d, f, a, b))
           /\ Cardinality(Batch(d, f, a, b)) \in Nat
<1>1. Batch(d, f, a, b) \in SUBSET DOMAIN lake
  BY BatchIs DEF Rows
<1>2. IsFiniteSet(Batch(d, f, a, b))
  BY <1>1, RowIs, FS_Subset
<1> QED BY <1>2, ReadOrderIs, FS_CardinalityType

\* Two sequences that read the same parts are equal.
LEMMA OneReading ==
    ASSUME LakeOK, NEW d, NEW f \in Openings, NEW a, NEW b,
           NEW s, Enumerates(s, Batch(d, f, a, b), ReadOrder(d, f)),
           NEW q, Enumerates(q, Batch(d, f, a, b), ReadOrder(d, f))
    PROVE  s = q /\ Len(s) = Cardinality(Batch(d, f, a, b))
  BY BatchIsFinite, EnumerationIsUnique, EnumerationIs

-----------------------------------------------------------------------------
(* What a view carries from one decision to the next.                       *)

Months == [month : Nat, first : Nat, last : Nat, rows : Nat]
Parts == [first : Nat, last : Nat, rows : Seq(Nat)]
Publications == [dir : Openings \X Slots, domain : Domains, first : Nat, last : Nat,
                 rows : Seq(Nat), count : Nat]

Tokens == {<<>>} \cup {<<t>> : t \in Nat} \cup ((DOMAIN Refreshes) \X Nat)

ViewStates ==
    [from : Openings, next : Nat, phase : {"idle", "rolling", "refused"}, slots : Slots,
     segments : [Domains -> SUBSET Slots], waiting : SUBSET Nat, held : SUBSET Nat,
     loaded : SUBSET Groups,
     signature : [Domains -> SUBSET Tokens],
     ready : BOOLEAN, boundary : Int, seq : [Domains -> Nat], months : [Domains -> Months],
     parts : [Domains -> SUBSET Parts], version : Nat, universe : Slots,
     queue : Seq(Publications)]

Pending(w) == w.waiting \cup w.held

\* The refresh jobs done by t have landed r.
Landed(r, t) ==
    lake[r].avail <= IF lake[r].domain \in RowGated THEN t ELSE Cutoff(lake[r].dataset, t)

\* The rows of the slots that were opened, or of the groups that were loaded.
Opened(w, d) ==
    {r \in Rows(d) : IF d \in Minutes THEN r \in UNION w.loaded ELSE SlotOf(r) <= w.slots}

\* Whatever was opened and is not known at t is waited for; a row is held for its
\* first-seen time alone; a slot is kept while a row of it is pending.
Waits(w, d, t) == Rows(d) \cap Pending(w) = Opened(w, d) \ Known(d, t)
HeldLanded(w, d, t) == \A r \in Rows(d) \cap w.held : Landed(r, t)
KeptInView(w, d) == Rows(d) \cap Pending(w) \subseteq Live(w, d)

\* No row that is waited for has landed.
Settled(w, d, t) == \A r \in Rows(d) \cap w.waiting : ~ Landed(r, t)

\* The signature is that of an earlier refresh, after which nothing landed is waited for.
Signed(w, d, t) ==
    \/ w.signature[d] = NoSignature
    \/ Settled(w, d, t) /\ \E u \in Nat : u <= t /\ w.signature[d] = Signature(w, d, u)

CursorsAt(w, d, t) ==
    Waits(w, d, t) /\ HeldLanded(w, d, t) /\ KeptInView(w, d) /\ Signed(w, d, t)

LEMMA LandedIs ==
    ASSUME LakeOK, NEW d, NEW r \in Rows(d), NEW t \in Nat
    PROVE  /\ Landed(r, t) <=>
                lake[r].avail <= IF d \in RowGated THEN t ELSE Cutoff(lake[r].dataset, t)
           /\ r \in Known(d, t) <=> lake[r].seen <= t /\ Landed(r, t)
           /\ \A u \in Nat : t <= u /\ Landed(r, t) => Landed(r, u)
           /\ Landed(r, t) => lake[r].avail <= t
<1>1. r \in DOMAIN lake /\ lake[r].domain = d
  BY DEF Rows
<1>2. lake[r].dataset \in DOMAIN Refreshes /\ lake[r].avail \in Nat
  BY <1>1, RowIs
<1>3. Cutoff(lake[r].dataset, t) \in Nat /\ Cutoff(lake[r].dataset, t) <= t
  BY <1>2, CutoffIs
<1>4. ASSUME NEW u \in Nat, t <= u, Landed(r, t) PROVE Landed(r, u)
  <2>1. Cutoff(lake[r].dataset, u) \in Nat /\ Cutoff(lake[r].dataset, t) <= Cutoff(lake[r].dataset, u)
    BY <1>2, <1>4, CutoffIs, CutoffGrows
  <2> QED BY <1>2, <1>3, <1>4, <2>1 DEF Landed
<1> QED BY <1>1, <1>2, <1>3, <1>4 DEF Landed, Known

LEMMA LiveIs == ASSUME NEW w, NEW d PROVE Live(w, d) \subseteq Rows(d)
  BY DEF Live, SlotRows

\* The rows a roll publishes.
NewRows(w, d, now) ==
    (Released(w, d, now) \ Late(Released(w, d, now), now)) \cup HeldDue(w, d, now)

\* They are the rows that became known, and a roll that is skipped misses none.
LEMMA NewRowsAre ==
    ASSUME LakeOK, NEW w \in ViewStates, NEW d \in Domains, NEW t \in Nat, NEW now \in Nat,
           t <= now, CursorsAt(w, d, t), Known(d, now) \subseteq Opened(w, d)
    PROVE  NewRows(w, d, now) = Known(d, now) \ Known(d, t)
<1>1. Live(w, d) \subseteq Rows(d) /\ Rows(d) \subseteq DOMAIN lake
  BY LiveIs DEF Rows
<1>2. \A r \in Rows(d) : r \in Released(w, d, now) <=>
         r \in w.waiting /\ r \in Live(w, d) /\ Landed(r, now)
  BY LandedIs DEF Released
<1>3. \A r \in Rows(d) : lake[r].seen \in Nat
  BY <1>1, RowIs
<1>4. ASSUME NEW r \in Rows(d)
      PROVE  r \in NewRows(w, d, now) <=> r \in Pending(w) /\ lake[r].seen <= now /\ Landed(r, now)
  <2>1. r \in w.held => Landed(r, now)
    BY LandedIs DEF CursorsAt, HeldLanded
  <2>2. r \in Pending(w) => r \in Live(w, d)
    BY DEF CursorsAt, KeptInView
  <2> QED BY <1>2, <1>3, <2>1, <2>2 DEF NewRows, Late, HeldDue, Pending
<1>5. \A r \in Rows(d) : r \in Pending(w) <=> r \in Opened(w, d) /\ r \notin Known(d, t)
  BY DEF CursorsAt, Waits
<1>6. NewRows(w, d, now) \subseteq Rows(d)
  BY <1>1 DEF NewRows, Released, HeldDue
<1>7. \A r \in Rows(d) : r \in Known(d, now) <=> lake[r].seen <= now /\ Landed(r, now)
  BY LandedIs
<1>8. Known(d, now) \subseteq Rows(d)
  BY DEF Known
<1> QED BY <1>4, <1>5, <1>6, <1>7, <1>8

LEMMA SkipMissesNothing ==
    ASSUME LakeOK, NEW w \in ViewStates, NEW d \in Domains, NEW t \in Nat, NEW now \in Nat,
           t < now, CursorsAt(w, d, t), Skips(w, d, now)
    PROVE  Released(w, d, now) = {} /\ HeldDue(w, d, now) = {}
<1>1. Live(w, d) \subseteq Rows(d) /\ Rows(d) \subseteq DOMAIN lake
  BY LiveIs DEF Rows
<1>2. CASE d \in Minutes /\ w.waiting \cap Live(w, d) = {}
  <2>1. Released(w, d, now) = {}
    BY <1>2 DEF Released
  <2>2. ASSUME NEW r \in HeldDue(w, d, now) PROVE FALSE
    <3>1. r \in w.held /\ r \in Rows(d)
      BY <1>1 DEF HeldDue
    <3>2. Landed(r, t)
      BY <3>1 DEF CursorsAt, HeldLanded
    <3>3. lake[r].seen = lake[r].avail
      BY <1>1, <1>2, <3>1, RowIs DEF Rows
    <3>4. r \in Known(d, t)
      BY <3>1, <3>2, <3>3, LandedIs
    <3>5. r \in Rows(d) \cap Pending(w)
      BY <3>1 DEF Pending
    <3> QED BY <3>4, <3>5 DEF CursorsAt, Waits
  <2> QED BY <2>1, <2>2
<1>3. CASE d \notin Minutes /\ w.segments[d] = {}
  <2>1. Live(w, d) = {}
    BY <1>3 DEF Live
  <2> QED BY <2>1 DEF Released, HeldDue
<1>4. CASE Signature(w, d, now) = w.signature[d] /\ HeldDue(w, d, now) = {}
  <2>1. ASSUME NEW r \in Released(w, d, now) PROVE FALSE
    <3>1. r \in w.waiting /\ r \in Live(w, d) /\ r \in Rows(d) /\ Landed(r, now)
      BY <1>1, LandedIs DEF Released
    <3>2. w.signature[d] # NoSignature
      <4>1. \A x : Len(<<x>>) = 1 /\ Len(<<>>) = 0
        OBVIOUS
      <4>2. \A x, y : Len(<<x, y>>) = 2
        OBVIOUS
      <4>3. <<now>> # <<>> /\ <<lake[r].dataset, Cutoff(lake[r].dataset, now)>> # <<>>
        BY <4>1, <4>2
      <4>4. CASE d \in RowGated
        BY <1>4, <4>3, <4>4 DEF Signature, NoSignature
      <4>5. CASE d \notin RowGated
        <5>1. <<lake[r].dataset, Cutoff(lake[r].dataset, now)>> \in Signature(w, d, now)
          BY <3>1, <4>5 DEF Signature
        <5> QED BY <1>4, <4>3, <5>1 DEF NoSignature
      <4> QED BY <4>4, <4>5
    <3>3. PICK u \in Nat : u <= t /\ w.signature[d] = Signature(w, d, u)
      BY <3>2 DEF CursorsAt, Signed
    <3>4. ~ Landed(r, t)
      BY <3>1, <3>2 DEF CursorsAt, Signed, Settled
    <3>5. Signature(w, d, now) = Signature(w, d, u)
      BY <1>4, <3>3
    <3>6. CASE d \in RowGated
      <4>1. <<now>> = <<u>>
        BY <3>5, <3>6 DEF Signature
      <4> QED BY <3>3, <4>1
    <3>7. CASE d \notin RowGated
      <4>1. <<lake[r].dataset, Cutoff(lake[r].dataset, now)>> \in Signature(w, d, u)
        BY <3>1, <3>5, <3>7 DEF Signature
      <4>2. PICK x \in Live(w, d) : <<lake[r].dataset, Cutoff(lake[r].dataset, now)>>
                                       = <<lake[x].dataset, Cutoff(lake[x].dataset, u)>>
        BY <3>7, <4>1 DEF Signature
      <4>3. Cutoff(lake[r].dataset, now) = Cutoff(lake[r].dataset, u)
        BY <4>2
      <4>4. lake[r].dataset \in DOMAIN Refreshes /\ lake[r].avail \in Nat
        BY <1>1, <3>1, RowIs
      <4>5. Cutoff(lake[r].dataset, u) <= Cutoff(lake[r].dataset, t)
        BY <3>3, <4>4, CutoffGrows
      <4>6. Cutoff(lake[r].dataset, u) \in Nat /\ Cutoff(lake[r].dataset, t) \in Nat
        BY <4>4, CutoffIs
      <4>7. lake[r].avail <= Cutoff(lake[r].dataset, now) /\ ~ (lake[r].avail <= Cutoff(lake[r].dataset, t))
        BY <3>1, <3>4, <3>7, LandedIs
      <4> QED BY <4>3, <4>4, <4>5, <4>6, <4>7
    <3> QED BY <3>6, <3>7
  <2> QED BY <1>4, <2>1
<1> QED BY <1>2, <1>3, <1>4 DEF Skips

\* What a roll reads and moves of domain e is the same in both states.
SameCursors(w, x, e) ==
    /\ x.slots = w.slots /\ x.loaded = w.loaded /\ x.segments = w.segments
    /\ Rows(e) \cap x.waiting = Rows(e) \cap w.waiting
    /\ Rows(e) \cap x.held = Rows(e) \cap w.held
    /\ x.signature[e] = w.signature[e]

LEMMA CursorsDepend ==
    ASSUME NEW w, NEW x, NEW e, NEW t, Opened(x, e) = Opened(w, e), Live(x, e) = Live(w, e),
           Rows(e) \cap x.waiting = Rows(e) \cap w.waiting,
           Rows(e) \cap x.held = Rows(e) \cap w.held,
           x.signature[e] = w.signature[e]
    PROVE  /\ CursorsAt(w, e, t) => CursorsAt(x, e, t)
           /\ Settled(w, e, t) => Settled(x, e, t)
<1>1. Rows(e) \cap Pending(x) = Rows(e) \cap Pending(w)
  BY DEF Pending
<1>2. Waits(w, e, t) => Waits(x, e, t)
  BY <1>1 DEF Waits
<1>3. HeldLanded(w, e, t) => HeldLanded(x, e, t)
  BY DEF HeldLanded
<1>4. KeptInView(w, e) => KeptInView(x, e)
  BY <1>1 DEF KeptInView
<1>5. Settled(w, e, t) => Settled(x, e, t)
  BY DEF Settled
<1>6. \A u : Signature(x, e, u) = Signature(w, e, u)
  BY DEF Signature
<1>7. Signed(w, e, t) => Signed(x, e, t)
  BY <1>5, <1>6 DEF Signed
<1> QED BY <1>2, <1>3, <1>4, <1>5, <1>7 DEF CursorsAt

LEMMA SameCursorsIs ==
    ASSUME NEW w, NEW x, NEW e, NEW t, SameCursors(w, x, e)
    PROVE  /\ CursorsAt(w, e, t) => CursorsAt(x, e, t)
           /\ Settled(w, e, t) => Settled(x, e, t)
           /\ Opened(x, e) = Opened(w, e) /\ Live(x, e) = Live(w, e)
<1>1. Opened(x, e) = Opened(w, e)
  BY DEF Opened, SameCursors
<1>2. Live(x, e) = Live(w, e)
  BY DEF Live, SameCursors
<1> QED BY <1>1, <1>2, CursorsDepend DEF SameCursors

\* A roll that looks moves the cursors of d to `now`.
LEMMA RolledCursors ==
    ASSUME LakeOK, NEW w \in ViewStates, NEW d \in Domains, NEW t \in Nat, NEW now \in Nat,
           t <= now, CursorsAt(w, d, t), Known(d, now) \subseteq Opened(w, d),
           NEW x, x.slots = w.slots, x.loaded = w.loaded, x.segments = w.segments,
           x.waiting = w.waiting \ Released(w, d, now),
           x.held = (w.held \cup Late(Released(w, d, now), now)) \ NewRows(w, d, now),
           x.signature[d] = Signature(w, d, now)
    PROVE  CursorsAt(x, d, now) /\ Settled(x, d, now)
<1>1. Live(w, d) \subseteq Rows(d) /\ Rows(d) \subseteq DOMAIN lake
  BY LiveIs DEF Rows
<1>2. Live(x, d) = Live(w, d)
  BY DEF Live
<1>3. Opened(x, d) = Opened(w, d)
  BY DEF Opened
<1>4. Rows(d) \cap Pending(x) = (Rows(d) \cap Pending(w)) \ NewRows(w, d, now)
  <2>1. \A r \in Released(w, d, now) : r \in w.waiting
    BY DEF Released
  <2>2. \A r \in Late(Released(w, d, now), now) : r \in Released(w, d, now)
    BY DEF Late
  <2>3. \A r \in Late(Released(w, d, now), now) : r \notin NewRows(w, d, now)
    <3> SUFFICES ASSUME NEW r \in Late(Released(w, d, now), now), r \in NewRows(w, d, now)
                 PROVE  FALSE
      OBVIOUS
    <3>1. r \in Rows(d) /\ lake[r].seen > now
      BY <1>1 DEF Late, Released
    <3>2. lake[r].seen \in Nat
      BY <1>1, <3>1, RowIs
    <3>3. r \in HeldDue(w, d, now)
      BY DEF NewRows
    <3> QED BY <3>1, <3>2, <3>3 DEF HeldDue
  <2>4. \A r \in NewRows(w, d, now) : r \notin w.waiting \/ r \in Released(w, d, now)
    <3> SUFFICES ASSUME NEW r \in NewRows(w, d, now), r \in w.waiting PROVE r \in Released(w, d, now)
      OBVIOUS
    <3>1. CASE r \in HeldDue(w, d, now)
      <4>1. r \in Rows(d) /\ r \in w.held /\ r \in Live(w, d)
        BY <1>1, <3>1 DEF HeldDue
      <4>2. Landed(r, now)
        BY <4>1, LandedIs DEF CursorsAt, HeldLanded
      <4> QED BY <4>1, <4>2, LandedIs DEF Released
    <3> QED BY <3>1 DEF NewRows
  <2>5. \A r \in Released(w, d, now) :
           r \in NewRows(w, d, now) \/ r \in Late(Released(w, d, now), now)
    BY DEF NewRows
  <2> QED BY <2>1, <2>2, <2>3, <2>4, <2>5 DEF Pending
<1>5. NewRows(w, d, now) = Known(d, now) \ Known(d, t)
  BY NewRowsAre
<1>6. Waits(x, d, now)
  <2>1. Rows(d) \cap Pending(w) = Opened(w, d) \ Known(d, t)
    BY DEF CursorsAt, Waits
  <2>2. Known(d, t) \subseteq Known(d, now)
    BY KnownGrows
  <2> QED BY <1>3, <1>4, <1>5, <2>1, <2>2 DEF Waits
<1>7. HeldLanded(x, d, now)
  <2> SUFFICES ASSUME NEW r \in Rows(d), r \in x.held PROVE Landed(r, now)
    BY DEF HeldLanded
  <2>1. CASE r \in w.held
    BY <2>1, LandedIs DEF CursorsAt, HeldLanded
  <2>2. CASE r \in Late(Released(w, d, now), now)
    BY <2>2, LandedIs DEF Late, Released
  <2> QED BY <2>1, <2>2
<1>8. KeptInView(x, d)
  BY <1>2, <1>4 DEF CursorsAt, KeptInView
<1>9. Settled(x, d, now)
  <2> SUFFICES ASSUME NEW r \in Rows(d), r \in x.waiting, Landed(r, now) PROVE FALSE
    BY DEF Settled
  <2>1. r \in w.waiting /\ r \notin Released(w, d, now)
    OBVIOUS
  <2>2. r \in Live(w, d)
    BY <2>1 DEF CursorsAt, KeptInView, Pending
  <2> QED BY <2>1, <2>2, LandedIs DEF Released
<1>10. Signature(x, d, now) = Signature(w, d, now)
  BY <1>2 DEF Signature
<1>11. Signed(x, d, now)
  BY <1>9, <1>10 DEF Signed
<1> QED BY <1>6, <1>7, <1>8, <1>9, <1>11 DEF CursorsAt

\* Nothing that is pending became known: the cursors stand at `now` as they are.
LEMMA IdleCursors ==
    ASSUME LakeOK, NEW w \in ViewStates, NEW d \in Domains, NEW t \in Nat, NEW now \in Nat,
           t <= now, CursorsAt(w, d, t), Known(d, now) \subseteq Opened(w, d),
           Settled(w, d, now), \A r \in Rows(d) \cap w.held : lake[r].seen > now
    PROVE  CursorsAt(w, d, now) /\ Known(d, now) = Known(d, t)
<1>1. Rows(d) \cap Pending(w) = Opened(w, d) \ Known(d, t)
  BY DEF CursorsAt, Waits
<1>2. Known(d, t) \subseteq Known(d, now)
  BY KnownGrows
<1>3. ASSUME NEW r \in Known(d, now), r \notin Known(d, t) PROVE FALSE
  <2>1. r \in Rows(d) /\ r \in Pending(w)
    BY <1>1, <1>3 DEF Known
  <2>2. lake[r].seen <= now /\ Landed(r, now) /\ lake[r].seen \in Nat
    BY <2>1, LandedIs, RowIs DEF Rows
  <2> QED BY <2>1, <2>2 DEF Pending, Settled
<1>4. Known(d, now) = Known(d, t)
  BY <1>2, <1>3
<1>5. Waits(w, d, now)
  BY <1>1, <1>4 DEF Waits
<1>6. HeldLanded(w, d, now)
  BY LandedIs DEF CursorsAt, HeldLanded
<1>7. Signed(w, d, now)
  BY DEF CursorsAt, Signed
<1> QED BY <1>4, <1>5, <1>6, <1>7 DEF CursorsAt

-----------------------------------------------------------------------------
(* The parts of a domain.                                                   *)

\* Parts from number a on are not merged.
Singles(parts, a) == \A p \in parts : a <= p.last => p.first = p.last

\* The running month: the parts since it began, none of which is merged.
MonthIs(w, d) ==
    LET m == w.months[d]
    IN  \/ w.seq[d] <= 1 /\ m.month = 0 /\ m.first = 0 /\ m.last = 0 /\ m.rows = 0
        \/ /\ w.seq[d] > 1 /\ 1 <= m.first /\ m.first <= m.last /\ m.last = w.seq[d] - 1
           /\ m.rows = Cardinality(Batch(d, w.from, m.first, m.last))

NewPart(w, p) ==
    /\ Base(p.domain) <= p.first /\ p.first = p.last /\ p.last = w.seq[p.domain] - 1
    /\ Enumerates(p.rows, Batch(p.domain, w.from, p.first, p.last), ReadOrder(p.domain, w.from))

MergedPart(w, p) ==
    /\ 1 <= p.first /\ p.first < p.last /\ p.last = w.seq[p.domain] - 2
    /\ p.last < w.months[p.domain].first
    /\ Singles(w.parts[p.domain], p.first)

QueuedIs(w, p) ==
    /\ p.dir = Directory(w)
    /\ NewPart(w, p) \/ MergedPart(w, p)
    /\ p.count = Cardinality(Batch(p.domain, w.from, p.first, p.last))

QueueOf(w, d) == {k \in DOMAIN w.queue : w.queue[k].domain = d}

\* The newest part of d is still to be published.
Coming(w, d) == \E k \in QueueOf(w, d) : w.queue[k].first = w.queue[k].last

\* d stands after decision i: its parts hold their numbers' rows, and tile the numbers.
BooksAt(w, d, i) ==
    /\ w.seq[d] = Number(d, w.from, i + 1)
    /\ MonthIs(w, d)
    /\ Singles(w.parts[d], w.months[d].first)
    /\ Contents(w.parts[d], d, w.from)
    /\ Tiles(w.parts[d], Base(d), w.seq[d] - IF Coming(w, d) THEN 2 ELSE 1)
    /\ \A k \in QueueOf(w, d) : QueuedIs(w, w.queue[k])
    /\ \A j, k \in QueueOf(w, d) : j < k =>
          w.queue[j].first = w.queue[j].last /\ w.queue[k].first < w.queue[k].last

SameBooks(w, x, e) ==
    /\ x.from = w.from /\ x.slots = w.slots
    /\ x.seq[e] = w.seq[e] /\ x.months[e] = w.months[e] /\ x.parts[e] = w.parts[e]
    /\ QueueOf(x, e) = QueueOf(w, e)
    /\ \A k \in QueueOf(w, e) : x.queue[k] = w.queue[k]

LEMMA SameBooksIs ==
    ASSUME NEW w, NEW x, NEW e, NEW i, SameBooks(w, x, e), BooksAt(w, e, i)
    PROVE  BooksAt(x, e, i)
<1>1. MonthIs(x, e)
  BY DEF MonthIs, BooksAt, SameBooks
<1>2. Coming(x, e) <=> Coming(w, e)
  BY DEF Coming, SameBooks
<1>3. ASSUME NEW k \in QueueOf(x, e) PROVE QueuedIs(x, x.queue[k])
  <2>1. k \in QueueOf(w, e) /\ x.queue[k] = w.queue[k] /\ w.queue[k].domain = e
    BY DEF SameBooks, QueueOf
  <2>2. QueuedIs(w, w.queue[k])
    BY <2>1 DEF BooksAt
  <2> QED BY <2>1, <2>2 DEF QueuedIs, NewPart, MergedPart, Directory, SameBooks
<1> QED BY <1>1, <1>2, <1>3 DEF BooksAt, SameBooks

\* The state of a view after it wrote a part of d.
Written(w, x, d, rows, now) ==
    LET n == w.seq[d]
        m == w.months[d]
    IN  /\ x \in ViewStates
        /\ x.from = w.from /\ x.next = w.next /\ x.phase = w.phase /\ x.slots = w.slots
        /\ x.segments = w.segments /\ x.waiting = w.waiting /\ x.held = w.held
        /\ x.loaded = w.loaded /\ x.signature = w.signature /\ x.ready = w.ready
        /\ x.boundary = w.boundary /\ x.parts = w.parts /\ x.universe = w.universe
        /\ x.version = w.version + 1
        /\ x.seq = [w.seq EXCEPT ![d] = n + 1]
        /\ x.months = [w.months EXCEPT ![d] = MonthAfter(m, n, Len(rows), now)]
        /\ x.queue = w.queue \o <<Publication(w, d, n, n, rows, Len(rows))>> \o
               IF Turns(m, n, now) /\ m.last > m.first
               THEN <<Publication(w, d, m.first, m.last, <<>>, m.rows)>> ELSE <<>>

Moved(w, version, seq, months, queue) ==
    [w EXCEPT !.version = version, !.seq = seq, !.months = months, !.queue = queue]

LEMMA StateMoved ==
    ASSUME NEW w \in ViewStates, NEW version \in Nat, NEW seq \in [Domains -> Nat],
           NEW months \in [Domains -> Months], NEW queue \in Seq(Publications)
    PROVE  Moved(w, version, seq, months, queue) \in ViewStates
BY DEF Moved, ViewStates

LEMMA WritePartFields ==
    ASSUME NEW w \in ViewStates, NEW d \in Domains, NEW rows \in Seq(Nat), NEW now,
           Month[now] \in Nat, MonthIs(w, d)
    PROVE  Written(w, WritePart(w, d, rows, now), d, rows, now)
<1> DEFINE x == WritePart(w, d, rows, now)
<1> DEFINE n == w.seq[d]
<1> DEFINE m == w.months[d]
<1> DEFINE part == Publication(w, d, n, n, rows, Len(rows))
<1> DEFINE merged == Publication(w, d, m.first, m.last, <<>>, m.rows)
<1> DEFINE tail == IF Turns(m, n, now) /\ m.last > m.first THEN <<merged>> ELSE <<>>
<1>1. /\ n \in Nat /\ m \in Months /\ w.from \in Openings /\ w.slots \in Slots /\ w.version \in Nat
      /\ w.seq \in [Domains -> Nat] /\ w.months \in [Domains -> Months] /\ w.queue \in Seq(Publications)
  BY DEF ViewStates
<1>2. part \in Publications
  BY <1>1 DEF Publications, Publication, Directory
<1>3. merged \in Publications
  <2>1. m.first \in Nat /\ m.last \in Nat /\ m.rows \in Nat /\ <<>> \in Seq(Nat)
    BY <1>1 DEF Months
  <2> HIDE DEF m, n, x, part, tail
  <2> QED BY <1>1, <2>1 DEF Publications, Publication, Directory
<1>4. MonthAfter(m, n, Len(rows), now) \in Months
  <2>1. Len(rows) \in Nat
    OBVIOUS
  <2> HIDE DEF n, m
  <2>2. Len(rows) \in Nat /\ n \in Nat /\ m \in Months
    BY <1>1, <2>1
  <2>3. CASE n = 0
    BY <2>2, <2>3 DEF MonthAfter
  <2>4. CASE n # 0 /\ Turns(m, n, now)
    BY <2>2, <2>4 DEF MonthAfter, Months
  <2>5. CASE n # 0 /\ ~ Turns(m, n, now)
    <3>1. m.rows + Len(rows) \in Nat
      BY <2>2 DEF Months
    <3> QED BY <2>2, <2>5, <3>1 DEF MonthAfter, Months
  <2> QED BY <2>3, <2>4, <2>5
<1>5. x = [w EXCEPT !.version = w.version + 1, !.seq = [w.seq EXCEPT ![d] = n + 1],
                    !.months = [w.months EXCEPT ![d] = MonthAfter(m, n, Len(rows), now)],
                    !.queue = w.queue \o <<part>> \o tail]
  BY DEF WritePart, ViewStates
<1>6. w.queue \o <<part>> \o tail \in Seq(Publications)
  <2> HIDE DEF part, merged
  <2>1. tail \in Seq(Publications)
    BY <1>3
  <2> HIDE DEF tail
  <2>2. <<part>> \in Seq(Publications)
    BY <1>2
  <2> QED BY <1>1, <2>1, <2>2
<1>7. [w.seq EXCEPT ![d] = n + 1] \in [Domains -> Nat]
  BY <1>1
<1>8. [w.months EXCEPT ![d] = MonthAfter(m, n, Len(rows), now)] \in [Domains -> Months]
  BY <1>1, <1>4
<1> DEFINE seq2 == [w.seq EXCEPT ![d] = n + 1]
<1> DEFINE months2 == [w.months EXCEPT ![d] = MonthAfter(m, n, Len(rows), now)]
<1> DEFINE queue2 == w.queue \o <<part>> \o tail
<1>9. /\ x = [w EXCEPT !.version = w.version + 1, !.seq = seq2, !.months = months2, !.queue = queue2]
      /\ seq2 \in [Domains -> Nat] /\ months2 \in [Domains -> Months] /\ queue2 \in Seq(Publications)
  BY <1>5, <1>6, <1>7, <1>8
<1> HIDE DEF x, seq2, months2, queue2
<1>10. x \in ViewStates
  <2>1. w.version + 1 \in Nat
    BY <1>1
  <2>2. x = Moved(w, w.version + 1, seq2, months2, queue2)
    BY <1>9, Zenon DEF Moved
  <2>3. Moved(w, w.version + 1, seq2, months2, queue2) \in ViewStates
    BY <1>9, <2>1, StateMoved
  <2> QED BY <2>2, <2>3, Zenon
<1>11. /\ x.from = w.from /\ x.next = w.next /\ x.phase = w.phase /\ x.slots = w.slots
       /\ x.segments = w.segments /\ x.waiting = w.waiting /\ x.held = w.held
       /\ x.loaded = w.loaded /\ x.signature = w.signature /\ x.ready = w.ready
       /\ x.boundary = w.boundary /\ x.parts = w.parts /\ x.universe = w.universe
       /\ x.version = w.version + 1 /\ x.seq = seq2 /\ x.months = months2 /\ x.queue = queue2
  BY <1>1, <1>9 DEF ViewStates
<1> QED BY <1>10, <1>11 DEF x, seq2, months2, queue2, Written

LEMMA MonthsAre ==
    ASSUME NEW f \in Openings, NEW i \in f .. Len(Decisions)
    PROVE  Month[At(f, i)] \in Nat /\ Month[At(f, i)] # 0
<1>1. i \in DOMAIN Decisions
  BY SpanAssumption, AtIs DEF Openings
<1>2. At(f, i) = Decisions[i]
  BY AtIs DEF At
<1> QED BY <1>1, <1>2, SpanAssumption

\* Two batches that follow one another, counted.
LEMMA BatchCount ==
    ASSUME LakeOK, NEW d, NEW f \in Openings, NEW a \in Int, NEW b \in Int, NEW c \in Int,
           a <= b + 1, b <= c
    PROVE  Cardinality(Batch(d, f, a, c)) =
               Cardinality(Batch(d, f, a, b)) + Cardinality(Batch(d, f, b + 1, c))
<1> DEFINE R == Batch(d, f, a, b)
<1> DEFINE S == Batch(d, f, b + 1, c)
<1>1. Batch(d, f, a, c) = R \cup S
  BY BatchSplits
<1>2. \A x \in R : \A y \in S : <<x, y>> \in ReadOrder(d, f)
  <2>1. b < b + 1 /\ b + 1 \in Int
    OBVIOUS
  <2> QED BY <2>1, ReadOrderIs
<1>3. IsFiniteSet(R) /\ IsFiniteSet(S) /\ Orders(ReadOrder(d, f), R)
      /\ Cardinality(R) \in Nat /\ Cardinality(S) \in Nat
  BY BatchIsFinite
<1> HIDE DEF R, S
<1>4. R \cap S = {}
  BY <1>2, <1>3 DEF Orders
<1>5. Cardinality(R \cup S) = Cardinality(R) + Cardinality(S) - Cardinality(R \cap S)
  BY <1>3, FS_Union
<1>6. Cardinality(R \cap S) = 0
  BY <1>4, FS_EmptySet
<1>7. Cardinality(R \cup S) = Cardinality(R) + Cardinality(S)
  BY <1>3, <1>5, <1>6
<1> QED BY <1>1, <1>7 DEF R, S

\* A part is written: the next number, the month it belongs to, and the month before
\* merged when it is the first of a new one.
\* The books of d took in what decision i added, and nothing else moved.
Grew(w, x, d, i) ==
    /\ BooksAt(x, d, i) /\ \A e \in Domains : e # d => SameBooks(w, x, e)
    /\ x \in ViewStates
    /\ x.from = w.from /\ x.next = w.next /\ x.phase = w.phase /\ x.slots = w.slots
    /\ x.segments = w.segments /\ x.waiting = w.waiting /\ x.held = w.held
    /\ x.loaded = w.loaded /\ x.signature = w.signature /\ x.ready = w.ready
    /\ x.boundary = w.boundary /\ x.universe = w.universe
    /\ x.version = w.version + 1

LEMMA WrittenBooks ==
    ASSUME LakeOK, NEW w \in ViewStates, NEW d \in Domains, NEW i \in w.from .. Len(Decisions),
           BooksAt(w, d, i - 1), QueueOf(w, d) = {}, Grown(d, w.from, i) # {},
           NEW x, x = WritePart(w, d, InOrder(Grown(d, w.from, i)), At(w.from, i))
    PROVE  Grew(w, x, d, i)
<1> DEFINE f == w.from
<1> DEFINE now == At(f, i)
<1> DEFINE n == w.seq[d]
<1> DEFINE m == w.months[d]
<1> DEFINE G == Grown(d, f, i)
<1> DEFINE rows == InOrder(G)
<1> DEFINE part == Publication(w, d, n, n, rows, Len(rows))
<1> DEFINE merged == Publication(w, d, m.first, m.last, <<>>, m.rows)
<1> DEFINE turns == Turns(m, n, now) /\ m.last > m.first
<1>1. f \in Openings /\ i \in f .. Len(Decisions) /\ i - 1 \in f - 1 .. Len(Decisions)
  BY AtIs DEF ViewStates
<1>2. /\ w.seq \in [Domains -> Nat] /\ w.months \in [Domains -> Months] /\ w.queue \in Seq(Publications)
      /\ w.parts \in [Domains -> SUBSET Parts] /\ n \in Nat /\ m \in Months /\ w.slots \in Slots
  BY DEF ViewStates
<1>3. n = Number(d, f, i)
  <2>1. (i - 1) + 1 = i
    BY <1>1, AtIs
  <2> QED BY <2>1 DEF BooksAt
<1>4. Batch(d, f, n, n) = G
  BY <1>1, <1>3, BatchIs
<1>5. Enumerates(rows, Batch(d, f, n, n), ReadOrder(d, f))
  BY <1>1, <1>4, ReadOrderIs
<1>6. rows \in Seq(Nat) /\ Len(rows) = Cardinality(Batch(d, f, n, n))
  <2>1. rows \in Seq(Batch(d, f, n, n)) /\ Len(rows) = Cardinality(Batch(d, f, n, n))
    BY <1>1, <1>5, BatchIsFinite, EnumerationIs
  <2>2. Batch(d, f, n, n) \subseteq Nat
    BY <1>1, BatchIs, RowIs DEF Rows
  <2>3. \A S, T : S \subseteq T => Seq(S) \subseteq Seq(T)
    OBVIOUS
  <2> HIDE DEF rows, n, f
  <2> QED BY <2>1, <2>2, <2>3
<1>7. Month[now] \in Nat /\ Month[now] # 0
  BY <1>1, MonthsAre
<1>8. MonthIs(w, d)
  BY DEF BooksAt
<1>9. /\ x \in ViewStates
      /\ x.from = w.from /\ x.next = w.next /\ x.phase = w.phase /\ x.slots = w.slots
      /\ x.segments = w.segments /\ x.waiting = w.waiting /\ x.held = w.held
      /\ x.loaded = w.loaded /\ x.signature = w.signature /\ x.ready = w.ready
      /\ x.boundary = w.boundary /\ x.parts = w.parts /\ x.universe = w.universe
      /\ x.version = w.version + 1
      /\ x.seq = [w.seq EXCEPT ![d] = n + 1]
      /\ x.months = [w.months EXCEPT ![d] = MonthAfter(m, n, Len(rows), now)]
      /\ x.queue = w.queue \o <<part>> \o IF turns THEN <<merged>> ELSE <<>>
  <2> HIDE DEF rows
  <2>1. x = WritePart(w, d, rows, now)
    BY DEF rows
  <2>2. Month[now] \in Nat
    BY <1>7
  <2>3. Written(w, x, d, rows, now)
    <3> HIDE DEF now
    <3> QED BY <1>6, <1>8, <2>1, <2>2, WritePartFields
  <2> QED BY <2>3 DEF Written
<1> HIDE DEF rows, G, now, part, merged, turns
<1>10. x.seq[d] = n + 1 /\ x.seq[d] = Number(d, f, i + 1)
  <2>1. Number(d, f, i + 1) = Number(d, f, i) + 1
    BY <1>1, NumberIs
  <2> QED BY <1>2, <1>3, <1>9, <2>1
<1>11. x.months[d] = MonthAfter(m, n, Len(rows), now)
  BY <1>2, <1>9
<1>12. /\ part.dir = Directory(w) /\ part.domain = d /\ part.first = n /\ part.last = n
       /\ part.rows = rows /\ part.count = Len(rows)
  BY DEF part, Publication
<1>13. /\ merged.dir = Directory(w) /\ merged.domain = d /\ merged.first = m.first
       /\ merged.last = m.last /\ merged.count = m.rows
  BY DEF merged, Publication
<1> DEFINE q == w.queue
<1> DEFINE l == Len(q)
<1>14. /\ DOMAIN q = 1 .. l /\ l \in Nat
       /\ DOMAIN x.queue = 1 .. l + IF turns THEN 2 ELSE 1
       /\ \A k \in 1 .. l : x.queue[k] = q[k]
       /\ x.queue[l + 1] = part
       /\ turns => x.queue[l + 2] = merged
  <2>1. q \in Seq(Publications) /\ x.queue = q \o <<part>> \o IF turns THEN <<merged>> ELSE <<>>
    BY <1>2, <1>9
  <2> HIDE DEF q
  <2>2. CASE turns
    BY <2>1, <2>2
  <2>3. CASE ~ turns
    BY <2>1, <2>3
  <2> QED BY <2>2, <2>3
<1> HIDE DEF q, l
<1>15. \A k : k \in DOMAIN x.queue <=> k \in 1 .. l \/ k = l + 1 \/ (turns /\ k = l + 2)
  <2>1. CASE turns
    BY <1>14, <2>1
  <2>2. CASE ~ turns
    BY <1>14, <2>2
  <2> QED BY <2>1, <2>2
<1>16. \A k \in 1 .. l : q[k].domain # d
  BY <1>14 DEF QueueOf, q
<1>17. \A k : k \in QueueOf(x, d) <=> k = l + 1 \/ (turns /\ k = l + 2)
  BY <1>12, <1>13, <1>14, <1>15, <1>16 DEF QueueOf
<1>18. ASSUME NEW e \in Domains, e # d PROVE SameBooks(w, x, e)
  <2>1. \A k : k \in QueueOf(x, e) <=> k \in 1 .. l /\ q[k].domain = e
    BY <1>12, <1>13, <1>14, <1>15, <1>18 DEF QueueOf
  <2>2. QueueOf(x, e) = QueueOf(w, e)
    BY <1>14, <2>1 DEF QueueOf, q
  <2>3. \A k \in QueueOf(w, e) : x.queue[k] = w.queue[k]
    BY <1>14, <2>1, <2>2 DEF q
  <2>4. x.seq[e] = w.seq[e] /\ x.months[e] = w.months[e]
    BY <1>2, <1>9, <1>18
  <2> QED BY <1>9, <2>2, <2>3, <2>4 DEF SameBooks
<1> DEFINE y == x.months[d]
<1>19. \/ n <= 1 /\ m.month = 0 /\ m.first = 0 /\ m.last = 0 /\ m.rows = 0
       \/ /\ n > 1 /\ 1 <= m.first /\ m.first <= m.last /\ m.last = n - 1
          /\ m.rows = Cardinality(Batch(d, f, m.first, m.last))
  BY <1>8 DEF MonthIs
<1>20. /\ m.first \in Nat /\ m.last \in Nat /\ m.rows \in Nat
  BY <1>2 DEF Months
<1>21. /\ y.first \in Nat
       /\ (y.first = m.first \/ y.first = n) /\ (n > 0 /\ y.first # n => y.first = m.first)
       /\ MonthIs(x, d)
  <2>1. CASE n = 0
    <3>1. y = m
      BY <1>11, <2>1 DEF MonthAfter
    <3> QED BY <1>2, <1>9, <1>10, <1>19, <1>20, <2>1, <3>1 DEF MonthIs
  <2>2. CASE n # 0 /\ Turns(m, n, now)
    <3>1. y = [month |-> Month[now], first |-> n, last |-> n, rows |-> Len(rows)]
      BY <1>11, <2>2 DEF MonthAfter
    <3>2. y.first = n /\ y.last = n /\ y.rows = Cardinality(Batch(d, f, n, n))
      BY <1>6, <3>1
    <3>3. x.seq[d] > 1 /\ 1 <= n /\ n = x.seq[d] - 1
      BY <1>2, <1>10, <2>2
    <3>4. x.from = f /\ n \in Nat
      BY <1>2, <1>9
    <3> HIDE DEF f, n
    <3> QED BY <3>2, <3>3, <3>4 DEF MonthIs, f
  <2>3. CASE n # 0 /\ ~ Turns(m, n, now)
    <3>1. Month[now] = m.month
      BY <1>2, <2>3 DEF Turns
    <3>2. /\ n > 1 /\ 1 <= m.first /\ m.first <= m.last /\ m.last = n - 1
          /\ m.rows = Cardinality(Batch(d, f, m.first, m.last))
      BY <1>2, <1>7, <1>19, <3>1
    <3>3. y = [m EXCEPT !.last = n, !.rows = m.rows + Len(rows)]
      BY <1>11, <2>3 DEF MonthAfter
    <3>4. y.first = m.first /\ y.last = n /\ y.rows = m.rows + Len(rows)
      BY <1>2, <3>3 DEF Months
    <3>5. /\ m.first \in Int /\ n - 1 \in Int /\ n \in Int /\ m.first <= (n - 1) + 1 /\ n - 1 <= n
          /\ (n - 1) + 1 = n
      BY <1>2, <1>20, <3>2
    <3>6. Cardinality(Batch(d, f, m.first, n)) =
             Cardinality(Batch(d, f, m.first, n - 1)) + Cardinality(Batch(d, f, n, n))
      <4> DEFINE b == n - 1
      <4>1. b \in Int /\ b + 1 = n /\ m.first <= b + 1 /\ b <= n
        BY <3>5
      <4> HIDE DEF b
      <4>2. Cardinality(Batch(d, f, m.first, n)) =
             Cardinality(Batch(d, f, m.first, b)) + Cardinality(Batch(d, f, b + 1, n))
        BY <1>1, <3>5, <4>1, BatchCount
      <4> QED BY <4>1, <4>2 DEF b
    <3>7. y.rows = Cardinality(Batch(d, f, m.first, n))
      BY <1>6, <3>2, <3>4, <3>6
    <3>8. x.seq[d] > 1 /\ m.first <= n /\ n = x.seq[d] - 1
      BY <1>2, <1>10, <1>20, <3>2
    <3> QED BY <1>9, <1>20, <3>2, <3>4, <3>7, <3>8 DEF MonthIs
  <2> QED BY <2>1, <2>2, <2>3
<1>22. ASSUME NEW p \in w.parts[d] PROVE p.last \in Nat /\ p.last <= n - 1 /\ p.first \in Nat
  <2>1. ~ Coming(w, d)
    BY DEF Coming
  <2>2. Tiles(w.parts[d], Base(d), n - 1)
    BY <2>1 DEF BooksAt
  <2> QED BY <2>2 DEF Tiles
<1>23. Singles(w.parts[d], m.first)
  BY DEF BooksAt
<1>24. Singles(x.parts[d], y.first)
  <2>1. Singles(w.parts[d], n)
    BY <1>2, <1>22 DEF Singles
  <2> QED BY <1>9, <1>21, <1>23, <2>1
<1>25. Contents(x.parts[d], d, x.from)
  BY <1>9 DEF BooksAt
<1>26. Coming(x, d)
  BY <1>12, <1>14, <1>17 DEF Coming
<1>27. Tiles(x.parts[d], Base(d), x.seq[d] - 2)
  <2>1. ~ Coming(w, d)
    BY DEF Coming
  <2>2. Tiles(w.parts[d], Base(d), n - 1)
    BY <2>1 DEF BooksAt
  <2>3. x.seq[d] - 2 = n - 1
    BY <1>2, <1>10
  <2> QED BY <1>9, <2>2, <2>3
<1>28. QueuedIs(x, part)
  <2>1. part.last = x.seq[d] - 1
    BY <1>2, <1>10, <1>12
  <2>2. Base(d) <= n
    <3>1. i \in f .. Len(Decisions) + 1
      BY <1>1, AtIs
    <3>2. Base(d) <= Number(d, f, i)
      BY <1>1, <3>1, NumberIs
    <3> QED BY <1>3, <3>2
  <2>3. NewPart(x, part)
    BY <1>5, <1>9, <1>12, <2>1, <2>2 DEF NewPart
  <2>4. part.count = Cardinality(Batch(d, f, n, n))
    BY <1>6, <1>12
  <2> QED BY <1>9, <1>12, <2>3, <2>4 DEF QueuedIs, Directory
<1>29. turns => QueuedIs(x, merged) /\ merged.first < merged.last
  <2> SUFFICES ASSUME turns PROVE QueuedIs(x, merged) /\ merged.first < merged.last
    OBVIOUS
  <2>1. m.first < m.last
    BY <1>20 DEF turns
  <2>2. /\ n > 1 /\ 1 <= m.first /\ m.last = n - 1
        /\ m.rows = Cardinality(Batch(d, f, m.first, m.last))
    BY <1>19, <1>20, <2>1
  <2>3. m.last = x.seq[d] - 2
    BY <1>2, <1>10, <2>2
  <2>4. y.first = n /\ m.last < n
    <3>1. y = [month |-> Month[now], first |-> n, last |-> n, rows |-> Len(rows)]
      BY <1>11, <2>2 DEF MonthAfter, turns
    <3> QED BY <1>2, <2>2, <3>1
  <2>5. MergedPart(x, merged)
    BY <1>9, <1>13, <1>23, <2>1, <2>2, <2>3, <2>4 DEF MergedPart
  <2> QED BY <1>9, <1>13, <2>1, <2>2, <2>5 DEF QueuedIs, Directory
<1>30. \A k \in QueueOf(x, d) : QueuedIs(x, x.queue[k])
  BY <1>14, <1>17, <1>28, <1>29
<1>31. \A j, k \in QueueOf(x, d) : j < k =>
          x.queue[j].first = x.queue[j].last /\ x.queue[k].first < x.queue[k].last
  <2> SUFFICES ASSUME NEW j \in QueueOf(x, d), NEW k \in QueueOf(x, d), j < k
               PROVE  x.queue[j].first = x.queue[j].last /\ x.queue[k].first < x.queue[k].last
    OBVIOUS
  <2>1. j = l + 1 /\ turns /\ k = l + 2
    BY <1>14, <1>17
  <2> QED BY <1>12, <1>14, <1>29, <2>1
<1>32. x.seq[d] - (IF Coming(x, d) THEN 2 ELSE 1) = x.seq[d] - 2
  <2> HIDE DEF f, now, n, m, G, rows, part, merged, turns, y
  <2> QED BY <1>26, Zenon
<1>33. BooksAt(x, d, i)
  <2>1. x.seq[d] = Number(d, x.from, i + 1)
    BY <1>9, <1>10
  <2>2. Singles(x.parts[d], x.months[d].first)
    BY <1>24
  <2> HIDE DEF f, now, n, m, G, rows, part, merged, turns, y
  <2> QED BY <1>21, <1>25, <1>27, <1>30, <1>31, <1>32, <2>1, <2>2, Zenon DEF BooksAt
<1> QED BY <1>9, <1>18, <1>33 DEF Grew

LEMMA UnchangedBooks ==
    ASSUME NEW w \in ViewStates, NEW d \in Domains, NEW i \in w.from .. Len(Decisions),
           BooksAt(w, d, i - 1), Grown(d, w.from, i) = {}
    PROVE  BooksAt(w, d, i)
<1>1. w.from \in Openings /\ i \in Nat
  BY AtIs DEF ViewStates
<1>2. Number(d, w.from, i + 1) = Number(d, w.from, i) + 0 /\ Number(d, w.from, i) \in Nat
  <2>1. i \in w.from .. Len(Decisions) + 1
    BY <1>1, AtIs
  <2> QED BY <1>1, <2>1, NumberIs
<1>3. (i - 1) + 1 = i
  BY <1>1
<1> QED BY <1>2, <1>3 DEF BooksAt

-----------------------------------------------------------------------------
(* One domain's roll.                                                       *)

Advance(w, d, now) ==
    [w EXCEPT !.signature[d] = Signature(w, d, now),
              !.waiting = @ \ Released(w, d, now),
              !.held = (@ \cup Late(Released(w, d, now), now)) \ NewRows(w, d, now)]

\* A state that differs from w in the cursors of d alone.
Advanced(w, u, d, now) ==
    /\ u \in ViewStates
    /\ u.from = w.from /\ u.next = w.next /\ u.phase = w.phase /\ u.slots = w.slots
    /\ u.segments = w.segments /\ u.loaded = w.loaded /\ u.ready = w.ready
    /\ u.boundary = w.boundary /\ u.seq = w.seq /\ u.months = w.months /\ u.parts = w.parts
    /\ u.version = w.version /\ u.universe = w.universe /\ u.queue = w.queue
    /\ u.waiting = w.waiting \ Released(w, d, now)
    /\ u.held = (w.held \cup Late(Released(w, d, now), now)) \ NewRows(w, d, now)
    /\ u.signature = [w.signature EXCEPT ![d] = Signature(w, d, now)]

LEMMA AdvanceIs ==
    ASSUME LakeOK, NEW w \in ViewStates, NEW d \in Domains, NEW now \in Nat
    PROVE  Advanced(w, Advance(w, d, now), d, now)
<1>1. Signature(w, d, now) \in SUBSET Tokens
  <2>1. ASSUME NEW r \in Live(w, d)
        PROVE  lake[r].dataset \in DOMAIN Refreshes /\ Cutoff(lake[r].dataset, now) \in Nat
    <3>1. r \in DOMAIN lake
      BY LiveIs DEF Rows
    <3> QED BY <3>1, RowIs, CutoffIs
  <2> QED BY <2>1 DEF Signature, Tokens
<1> DEFINE waiting2 == w.waiting \ Released(w, d, now)
<1> DEFINE held2 == (w.held \cup Late(Released(w, d, now), now)) \ NewRows(w, d, now)
<1> DEFINE signature2 == [w.signature EXCEPT ![d] = Signature(w, d, now)]
<1>2. w.waiting \in SUBSET Nat /\ w.held \in SUBSET Nat /\ w.signature \in [Domains -> SUBSET Tokens]
  BY DEF ViewStates
<1>3. waiting2 \in SUBSET Nat /\ held2 \in SUBSET Nat
  BY <1>2 DEF Late, Released
<1>4. signature2 \in [Domains -> SUBSET Tokens]
  BY <1>1, <1>2
<1> DEFINE u == Advance(w, d, now)
<1>5. u = [w EXCEPT !.signature = signature2, !.waiting = waiting2, !.held = held2]
  BY DEF Advance, ViewStates
<1> HIDE DEF u, waiting2, held2, signature2
<1>6. u \in ViewStates
  BY <1>3, <1>4, <1>5 DEF ViewStates
<1>7. /\ u.from = w.from /\ u.next = w.next /\ u.phase = w.phase /\ u.slots = w.slots
      /\ u.segments = w.segments /\ u.loaded = w.loaded /\ u.ready = w.ready
      /\ u.boundary = w.boundary /\ u.seq = w.seq /\ u.months = w.months /\ u.parts = w.parts
      /\ u.version = w.version /\ u.universe = w.universe /\ u.queue = w.queue
      /\ u.waiting = waiting2 /\ u.held = held2 /\ u.signature = signature2
  BY <1>5 DEF ViewStates
<1> QED BY <1>6, <1>7 DEF Advanced, u, waiting2, held2, signature2

\* What a roll of d does at decision i.
RolledIs(w, x, d, i) ==
    /\ x \in ViewStates
    /\ CursorsAt(x, d, At(w.from, i)) /\ Settled(x, d, At(w.from, i)) /\ BooksAt(x, d, i)
    /\ \A e \in Domains : e # d => SameCursors(w, x, e) /\ SameBooks(w, x, e)
    /\ x.from = w.from /\ x.next = w.next /\ x.phase = w.phase /\ x.slots = w.slots
    /\ x.segments = w.segments /\ x.loaded = w.loaded /\ x.ready = w.ready
    /\ x.boundary = w.boundary /\ x.universe = w.universe
    /\ x.version = w.version + IF Grown(d, w.from, i) = {} THEN 0 ELSE 1
    /\ Pending(x) \subseteq Pending(w)

LEMMA RollIs ==
    ASSUME LakeOK, NEW w \in ViewStates, NEW d \in Domains, NEW i \in w.from .. Len(Decisions),
           CursorsAt(w, d, At(w.from, i - 1)), Known(d, At(w.from, i)) \subseteq Opened(w, d),
           BooksAt(w, d, i - 1), QueueOf(w, d) = {}
    PROVE  RolledIs(w, Roll(w, d, At(w.from, i)), d, i)
<1> DEFINE now == At(w.from, i)
<1> DEFINE t == At(w.from, i - 1)
<1> DEFINE x == Roll(w, d, now)
<1> DEFINE newly == NewRows(w, d, now)
<1>1. w.from \in Openings /\ i - 1 \in w.from - 1 .. Len(Decisions) /\ i - 1 < i
      /\ i \in w.from - 1 .. Len(Decisions)
  BY AtIs DEF ViewStates
<1>2. now \in Nat /\ t \in Nat /\ t < now /\ t <= now
  BY <1>1, AtIs
<1>3. w.version \in Nat
  BY DEF ViewStates
<1> HIDE DEF now, t
<1>4. CursorsAt(w, d, t) /\ Known(d, now) \subseteq Opened(w, d)
  BY DEF now, t
<1>5. newly = Grown(d, w.from, i)
  <2>1. newly = Known(d, now) \ Known(d, t)
    BY <1>2, <1>4, NewRowsAre
  <2> QED BY <2>1 DEF Grown, now, t
<1>6. CASE Skips(w, d, now)
  <2>1. x = w
    BY <1>6 DEF Roll
  <2>2. Released(w, d, now) = {} /\ HeldDue(w, d, now) = {}
    BY <1>2, <1>4, <1>6, SkipMissesNothing
  <2>3. newly = {}
    BY <2>2 DEF NewRows
  <2>4. Settled(w, d, now)
    <3> SUFFICES ASSUME NEW r \in Rows(d), r \in w.waiting, Landed(r, now) PROVE FALSE
      BY DEF Settled
    <3>1. r \in Live(w, d)
      BY <1>4 DEF CursorsAt, KeptInView, Pending
    <3> QED BY <1>2, <2>2, <3>1, LandedIs DEF Released
  <2>5. \A r \in Rows(d) \cap w.held : lake[r].seen > now
    <3> SUFFICES ASSUME NEW r \in Rows(d), r \in w.held PROVE lake[r].seen > now
      OBVIOUS
    <3>1. r \in Live(w, d) /\ lake[r].seen \in Nat
      BY <1>4, RowIs DEF CursorsAt, KeptInView, Pending, Rows
    <3> QED BY <1>2, <2>2, <3>1 DEF HeldDue
  <2>6. CursorsAt(w, d, now)
    BY <1>2, <1>4, <2>4, <2>5, IdleCursors
  <2>7. BooksAt(w, d, i)
    BY <1>5, <2>3, UnchangedBooks
  <2>8. \A e \in Domains : SameCursors(w, w, e) /\ SameBooks(w, w, e)
    BY DEF SameCursors, SameBooks
  <2>9. w.version = w.version + IF Grown(d, w.from, i) = {} THEN 0 ELSE 1
    BY <1>3, <1>5, <2>3
  <2>10. RolledIs(w, w, d, i)
    BY <2>4, <2>6, <2>7, <2>8, <2>9 DEF RolledIs, now
  <2> QED BY <2>1, <2>10 DEF now
<1>7. CASE ~ Skips(w, d, now)
  <2> DEFINE u == Advance(w, d, now)
  <2>1. x = IF newly = {} THEN u ELSE WritePart(u, d, InOrder(newly), now)
    BY <1>7 DEF Roll, Advance, NewRows
  <2>2. Advanced(w, u, d, now)
    BY <1>2, AdvanceIs
  <2> HIDE DEF u, x
  <2>3. CursorsAt(u, d, now) /\ Settled(u, d, now)
    <3>1. u.signature[d] = Signature(w, d, now)
      BY <2>2 DEF Advanced, ViewStates
    <3> QED BY <1>2, <1>4, <2>2, <3>1, RolledCursors DEF Advanced
  <2>4. ASSUME NEW e \in Domains, e # d PROVE SameCursors(w, u, e)
    <3>1. Rows(e) \cap Rows(d) = {}
      BY <2>4 DEF Rows
    <3>2. Released(w, d, now) \subseteq Rows(d) /\ HeldDue(w, d, now) \subseteq Rows(d)
      BY LiveIs DEF Released, HeldDue
    <3>3. Late(Released(w, d, now), now) \subseteq Rows(d) /\ newly \subseteq Rows(d)
      BY <3>2 DEF Late, NewRows
    <3>4. u.signature[e] = w.signature[e]
      BY <2>2, <2>4 DEF Advanced, ViewStates
    <3> QED BY <2>2, <3>1, <3>2, <3>3, <3>4 DEF Advanced, SameCursors
  <2>5. \A e \in Domains : SameBooks(w, u, e)
    BY <2>2 DEF Advanced, SameBooks, QueueOf
  <2>6. BooksAt(u, d, i - 1) /\ QueueOf(u, d) = {}
    BY <2>2, <2>5, SameBooksIs DEF Advanced, QueueOf
  <2>7. Pending(u) \subseteq Pending(w)
    BY <2>2 DEF Advanced, Pending, Late, Released
  <2>8. u \in ViewStates /\ i \in u.from .. Len(Decisions) /\ u.from = w.from
    BY <2>2 DEF Advanced
  <2>9. CASE newly = {}
    <3>1. x = u
      BY <2>1, <2>9
    <3>2. BooksAt(u, d, i)
      BY <1>5, <2>6, <2>8, <2>9, UnchangedBooks
    <3>3. u.version = w.version + IF Grown(d, w.from, i) = {} THEN 0 ELSE 1
      BY <1>3, <1>5, <2>2, <2>9 DEF Advanced
    <3>4. RolledIs(w, u, d, i)
      BY <2>2, <2>3, <2>4, <2>5, <2>7, <3>2, <3>3 DEF RolledIs, Advanced, now
    <3> QED BY <3>1, <3>4 DEF x, now
  <2>10. CASE newly # {}
    <3>1. x = WritePart(u, d, InOrder(Grown(d, u.from, i)), At(u.from, i)) /\ Grown(d, u.from, i) # {}
      BY <1>5, <2>1, <2>8, <2>10 DEF now
    <3>2. /\ BooksAt(x, d, i) /\ \A e \in Domains : e # d => SameBooks(u, x, e)
          /\ x \in ViewStates
          /\ x.from = u.from /\ x.next = u.next /\ x.phase = u.phase /\ x.slots = u.slots
          /\ x.segments = u.segments /\ x.waiting = u.waiting /\ x.held = u.held
          /\ x.loaded = u.loaded /\ x.signature = u.signature /\ x.ready = u.ready
          /\ x.boundary = u.boundary /\ x.universe = u.universe
          /\ x.version = u.version + 1
      <4>1. Grew(u, x, d, i)
        BY <2>6, <2>8, <3>1, WrittenBooks
      <4> QED BY <4>1, Zenon DEF Grew
    <3>3. \A e : SameCursors(u, x, e)
      BY <3>2 DEF SameCursors
    <3>4. CursorsAt(x, d, now) /\ Settled(x, d, now)
      BY <2>3, <3>3, SameCursorsIs
    <3>5. ASSUME NEW e \in Domains, e # d PROVE SameCursors(w, x, e) /\ SameBooks(w, x, e)
      <4>1. SameCursors(w, x, e)
        BY <2>4, <3>3, <3>5 DEF SameCursors
      <4>2. SameBooks(w, u, e) /\ SameBooks(u, x, e)
        BY <2>5, <3>2, <3>5
      <4>3. SameBooks(w, x, e)
        BY <4>2 DEF SameBooks
      <4> QED BY <4>1, <4>3
    <3>6. Pending(x) = Pending(u)
      BY <3>2 DEF Pending
    <3>7. x.version = w.version + IF Grown(d, w.from, i) = {} THEN 0 ELSE 1
      BY <2>2, <2>8, <3>1, <3>2 DEF Advanced
    <3>8. RolledIs(w, x, d, i)
      BY <2>2, <2>7, <3>2, <3>4, <3>5, <3>6, <3>7 DEF RolledIs, Advanced, now
    <3> QED BY <3>8 DEF x, now
  <2> QED BY <2>9, <2>10
<1> QED BY <1>6, <1>7

-----------------------------------------------------------------------------
(* A refresh rolls every domain, or none when its gate is shut.             *)

\* What a refresh for decision i starts from.
ReadyFor(w, i) ==
    /\ w \in ViewStates /\ i \in w.from .. Len(Decisions)
    /\ w.queue = <<>> /\ Pending(w) \subseteq DOMAIN lake
    /\ \A d \in Domains : /\ CursorsAt(w, d, At(w.from, i - 1))
                          /\ Known(d, At(w.from, i)) \subseteq Opened(w, d)
                          /\ BooksAt(w, d, i - 1)

SameView(w, u) ==
    /\ u.from = w.from /\ u.next = w.next /\ u.phase = w.phase /\ u.slots = w.slots
    /\ u.segments = w.segments /\ u.loaded = w.loaded /\ u.universe = w.universe
    /\ Pending(u) \subseteq Pending(w)

\* The state after the first k domains.
RolledTo(w, u, i, k) ==
    /\ u \in ViewStates /\ SameView(w, u) /\ u.ready = w.ready /\ u.boundary = w.boundary
    /\ \A j \in 1 .. k : LET d == DomainSeq[j]
                         IN  CursorsAt(u, d, At(w.from, i)) /\ Settled(u, d, At(w.from, i)) /\ BooksAt(u, d, i)
    /\ \A j \in k + 1 .. Len(DomainSeq) : LET d == DomainSeq[j]
                                          IN  SameCursors(w, u, d) /\ SameBooks(w, u, d)
    /\ u.version >= w.version
    /\ u.version = w.version <=> \A j \in 1 .. k : Grown(DomainSeq[j], w.from, i) = {}

LEMMA DomainsAre ==
    /\ Len(DomainSeq) \in Nat /\ \A j \in 1 .. Len(DomainSeq) : DomainSeq[j] \in Domains
    /\ \A d \in Domains : \E j \in 1 .. Len(DomainSeq) : DomainSeq[j] = d
    /\ \A i, j \in 1 .. Len(DomainSeq) : DomainSeq[i] = DomainSeq[j] => i = j
<1>1. Len(DomainSeq) \in Nat /\ DOMAIN DomainSeq = 1 .. Len(DomainSeq)
  BY SpanAssumption
<1>2. \A d : d \in Domains <=> \E j \in DOMAIN DomainSeq : DomainSeq[j] = d
  BY DEF Domains, Range
<1>3. \A i, j \in DOMAIN DomainSeq : DomainSeq[i] = DomainSeq[j] => i = j
  BY SpanAssumption
<1> QED BY <1>1, <1>2, <1>3

LEMMA RollsOn ==
    ASSUME LakeOK, NEW w, NEW i, ReadyFor(w, i), NEW k \in Nat, k + 1 <= Len(DomainSeq),
           NEW u, RolledTo(w, u, i, k)
    PROVE  RolledTo(w, Roll(u, DomainSeq[k + 1], At(w.from, i)), i, k + 1)
<1> DEFINE d == DomainSeq[k + 1]
<1> DEFINE n == Len(DomainSeq)
<1> DEFINE x == Roll(u, d, At(w.from, i))
<1>1. n \in Nat /\ k + 1 \in 1 .. n /\ k + 1 \in k + 1 .. n /\ d \in Domains
  <2>1. n \in Nat /\ \A j \in 1 .. n : DomainSeq[j] \in Domains
    BY DomainsAre, Zenon
  <2> HIDE DEF n
  <2>2. k + 1 \in 1 .. n /\ k + 1 \in k + 1 .. n
    BY <2>1 DEF n
  <2> QED BY <2>1, <2>2, Zenon
<1>2. u \in ViewStates /\ u.from = w.from /\ w \in ViewStates /\ i \in u.from .. Len(Decisions)
  BY DEF RolledTo, SameView, ReadyFor
<1>3. SameCursors(w, u, d) /\ SameBooks(w, u, d)
  BY <1>1 DEF RolledTo
<1>4. CursorsAt(u, d, At(u.from, i - 1)) /\ Known(d, At(u.from, i)) \subseteq Opened(u, d)
  <2>1. CursorsAt(w, d, At(w.from, i - 1)) /\ Known(d, At(w.from, i)) \subseteq Opened(w, d)
    BY <1>1, Zenon DEF ReadyFor
  <2> HIDE DEF d, n, x
  <2>2. CursorsAt(u, d, At(w.from, i - 1)) /\ Opened(u, d) = Opened(w, d)
    BY <1>3, <2>1, SameCursorsIs, Zenon
  <2> QED BY <1>2, <2>1, <2>2, Zenon
<1>5. BooksAt(u, d, i - 1)
  BY <1>1, <1>3, SameBooksIs DEF ReadyFor
<1>6. QueueOf(u, d) = {}
  BY <1>3 DEF SameBooks, QueueOf, ReadyFor
<1>7. RolledIs(u, x, d, i)
  <2> HIDE DEF d, x
  <2>1. RolledIs(u, Roll(u, d, At(u.from, i)), d, i)
    BY <1>1, <1>2, <1>4, <1>5, <1>6, RollIs
  <2> QED BY <1>2, <2>1 DEF x
<1> HIDE DEF d, x, n
<1>8. \A j \in 1 .. n : j # k + 1 => DomainSeq[j] # d /\ DomainSeq[j] \in Domains
  BY <1>1, DomainsAre DEF d, n
<1>9. ASSUME NEW j \in 1 .. k + 1
      PROVE  /\ CursorsAt(x, DomainSeq[j], At(w.from, i)) /\ Settled(x, DomainSeq[j], At(w.from, i))
             /\ BooksAt(x, DomainSeq[j], i)
  <2>1. CASE j = k + 1
    BY <1>2, <1>7, <2>1 DEF RolledIs, d
  <2>2. CASE j # k + 1
    <3>1. j \in 1 .. k /\ j \in 1 .. n
      BY <1>1, <2>2
    <3> DEFINE e == DomainSeq[j]
    <3>2. e # d /\ e \in Domains
      BY <1>8, <2>2, <3>1
    <3>3. CursorsAt(u, e, At(w.from, i)) /\ Settled(u, e, At(w.from, i)) /\ BooksAt(u, e, i)
      BY <3>1 DEF RolledTo
    <3>4. SameCursors(u, x, e) /\ SameBooks(u, x, e)
      BY <1>7, <3>2 DEF RolledIs
    <3> HIDE DEF e
    <3>5. CursorsAt(x, e, At(w.from, i)) /\ Settled(x, e, At(w.from, i)) /\ BooksAt(x, e, i)
      BY <3>3, <3>4, SameCursorsIs, SameBooksIs
    <3> QED BY <3>5 DEF e
  <2> QED BY <2>1, <2>2
<1>10. ASSUME NEW j \in (k + 1) + 1 .. n
       PROVE  SameCursors(w, x, DomainSeq[j]) /\ SameBooks(w, x, DomainSeq[j])
  <2> DEFINE e == DomainSeq[j]
  <2>1. j \in 1 .. n /\ j # k + 1 /\ j \in k + 1 .. n
    BY <1>1
  <2>2. e # d /\ e \in Domains
    BY <1>8, <2>1
  <2>3. SameCursors(w, u, e) /\ SameBooks(w, u, e)
    BY <2>1 DEF RolledTo, n
  <2>4. SameCursors(u, x, e) /\ SameBooks(u, x, e)
    BY <1>7, <2>2 DEF RolledIs
  <2> HIDE DEF e
  <2>5. SameCursors(w, x, e)
    BY <2>3, <2>4 DEF SameCursors
  <2>6. SameBooks(w, x, e)
    BY <2>3, <2>4 DEF SameBooks
  <2> QED BY <2>5, <2>6 DEF e
<1>11. SameView(w, x) /\ x.ready = w.ready /\ x.boundary = w.boundary
  BY <1>7 DEF RolledTo, RolledIs, SameView
<1>12. x.version = u.version + IF Grown(d, w.from, i) = {} THEN 0 ELSE 1
  BY <1>2, <1>7 DEF RolledIs
<1>13. u.version \in Nat /\ w.version \in Nat /\ u.version >= w.version
  BY <1>2 DEF ViewStates, RolledTo
<1>14. u.version = w.version <=> \A j \in 1 .. k : Grown(DomainSeq[j], w.from, i) = {}
  BY DEF RolledTo
<1>15. (\A j \in 1 .. k + 1 : Grown(DomainSeq[j], w.from, i) = {}) <=>
         (\A j \in 1 .. k : Grown(DomainSeq[j], w.from, i) = {}) /\ Grown(d, w.from, i) = {}
  <2>1. \A j : j \in 1 .. k + 1 <=> j \in 1 .. k \/ j = k + 1
    OBVIOUS
  <2> QED BY <2>1 DEF d
<1>16. x.version = w.version <=> \A j \in 1 .. k + 1 : Grown(DomainSeq[j], w.from, i) = {}
  <2>1. CASE Grown(d, w.from, i) = {}
    <3>1. x.version = u.version
      BY <1>12, <1>13, <2>1
    <3> QED BY <1>14, <1>15, <2>1, <3>1
  <2>2. CASE Grown(d, w.from, i) # {}
    <3>1. x.version # w.version
      BY <1>12, <1>13, <2>2
    <3> QED BY <1>15, <2>2, <3>1
  <2> QED BY <2>1, <2>2
<1>17. x.version >= w.version
  BY <1>12, <1>13
<1>18. x \in ViewStates
  BY <1>7 DEF RolledIs
<1>19. RolledTo(w, x, i, k + 1)
  BY <1>9, <1>10, <1>11, <1>16, <1>17, <1>18 DEF RolledTo, n
<1> QED BY <1>19 DEF x, d

\* The states that the rolls of a refresh run through.
Rolling(g, w, now, n) ==
    g = [k \in 0 .. n |-> IF k = 0 THEN w ELSE Roll(g[k - 1], DomainSeq[k], now)]

LEMMA RollingExists ==
    ASSUME NEW w, NEW now, NEW n \in Nat
    PROVE  \E g : Rolling(g, w, now, n)
<1> DEFINE Some(m) == \E g : Rolling(g, w, now, m)
<1> DEFINE T == {m \in Nat : Some(m)}
<1>1. 0 \in T
  <2> DEFINE g == [k \in 0 .. 0 |-> w]
  <2>1. Rolling(g, w, now, 0)
    BY DEF Rolling
  <2> QED BY <2>1
<1>2. ASSUME NEW m \in Nat, m \in T PROVE m + 1 \in T
  <2>1. PICK g : Rolling(g, w, now, m)
    BY <1>2
  <2> DEFINE h == [k \in 0 .. m + 1 |-> IF k <= m THEN g[k] ELSE Roll(g[m], DomainSeq[m + 1], now)]
  <2>2. ASSUME NEW k \in 0 .. m + 1
        PROVE  h[k] = IF k = 0 THEN w ELSE Roll(h[k - 1], DomainSeq[k], now)
    <3>1. CASE k = 0
      BY <2>1, <3>1 DEF Rolling
    <3>2. CASE k \in 1 .. m
      <4>1. h[k] = g[k] /\ h[k - 1] = g[k - 1]
        BY <3>2
      <4>2. g[k] = Roll(g[k - 1], DomainSeq[k], now)
        BY <2>1, <3>2 DEF Rolling
      <4> QED BY <3>2, <4>1, <4>2
    <3>3. CASE k = m + 1
      BY <3>3
    <3> QED BY <3>1, <3>2, <3>3
  <2>3. Rolling(h, w, now, m + 1)
    BY <2>2 DEF Rolling
  <2> HIDE DEF h
  <2>4. Some(m + 1)
    BY <2>3
  <2> HIDE DEF Some
  <2> QED BY <2>4
<1> HIDE DEF T
<1>3. n \in T
  BY <1>1, <1>2, Induction
<1> QED BY <1>3 DEF T

\* The rolls of a refresh, one domain after the other.
LEMMA RollsAll ==
    ASSUME LakeOK, NEW w, NEW i, ReadyFor(w, i)
    PROVE  \E u : /\ RolledTo(w, u, i, Len(DomainSeq))
                  /\ RollAll(w, At(w.from, i)) =
                        IF Gated(w, At(w.from, i)) THEN w
                        ELSE [u EXCEPT !.boundary = NextBoundary(u, At(w.from, i)), !.ready = TRUE]
<1> DEFINE now == At(w.from, i)
<1> DEFINE n == Len(DomainSeq)
<1> DEFINE g == CHOOSE h : Rolling(h, w, now, n)
<1>1. n \in Nat
  BY DomainsAre
<1>2. Rolling(g, w, now, n)
  BY <1>1, RollingExists
<1>3. RollAll(w, now) = IF Gated(w, now) THEN w
                        ELSE [g[n] EXCEPT !.boundary = NextBoundary(g[n], now), !.ready = TRUE]
  BY DEF RollAll, Rolling
<1> HIDE DEF g
<1>4. g[0] = w /\ \A k \in 1 .. n : g[k] = Roll(g[k - 1], DomainSeq[k], now)
  BY <1>1, <1>2 DEF Rolling
<1> DEFINE T == {k \in Nat : k <= n => RolledTo(w, g[k], i, k)}
<1>5. 0 \in T
  <2>1. w \in ViewStates /\ w.version \in Nat
    BY DEF ReadyFor, ViewStates
  <2>2. \A d : SameCursors(w, w, d) /\ SameBooks(w, w, d)
    BY DEF SameCursors, SameBooks
  <2>3. RolledTo(w, w, i, 0)
    BY <2>1, <2>2 DEF RolledTo, SameView
  <2> QED BY <1>4, <2>3
<1>6. ASSUME NEW k \in Nat, k \in T PROVE k + 1 \in T
  <2> SUFFICES ASSUME k + 1 <= n PROVE RolledTo(w, g[k + 1], i, k + 1)
    OBVIOUS
  <2>1. RolledTo(w, g[k], i, k)
    BY <1>1, <1>6
  <2>2. RolledTo(w, Roll(g[k], DomainSeq[k + 1], now), i, k + 1)
    BY <2>1, RollsOn
  <2>3. k + 1 \in 1 .. n /\ (k + 1) - 1 = k
    BY <1>1
  <2>4. g[k + 1] = Roll(g[k], DomainSeq[k + 1], now)
    BY <1>4, <2>3
  <2> QED BY <2>2, <2>4
<1> HIDE DEF T
<1>7. n \in T
  BY <1>1, <1>5, <1>6, Induction
<1>8. RolledTo(w, g[n], i, n)
  BY <1>1, <1>7 DEF T
<1> QED BY <1>3, <1>8

\* At x nothing that is pending becomes known.
Quiet(w, x) ==
    /\ \A r \in w.held : lake[r].seen > x
    /\ \A r \in w.waiting : ~ Landed(r, x)

\* Before its boundary a view whose gate is set is quiet.
GateIs(w) == w.ready => \A x \in Nat : w.boundary = None \/ x < w.boundary => Quiet(w, x)

LEMMA BoundaryIs ==
    ASSUME LakeOK, NEW w \in ViewStates, NEW now \in Nat, Pending(w) \subseteq DOMAIN lake,
           \A d \in Domains : Settled(w, d, now) /\ KeptInView(w, d),
           NEW x \in Nat, NextBoundary(w, now) = None \/ x < NextBoundary(w, now)
    PROVE  Quiet(w, x)
<1> DEFINE all == UNION {Boundaries(w, d, now) : d \in Domains}
<1>1. all \subseteq Nat
  <2> SUFFICES ASSUME NEW d \in Domains, NEW b \in Boundaries(w, d, now) PROVE b \in Nat
    OBVIOUS
  <2>1. Live(w, d) \subseteq DOMAIN lake
    BY LiveIs DEF Rows
  <2>2. \A r \in Live(w, d) : /\ lake[r].seen \in Nat /\ lake[r].avail \in Nat
                              /\ NextReady(lake[r].dataset, now) \subseteq Nat
    BY <2>1, RowIs, CutoffIs
  <2> QED BY <2>2 DEF Boundaries
<1>2. \A b \in all : x < b
  <2>1. all # {} => Min(all) \in Nat /\ \A b \in all : Min(all) <= b
    <3> HIDE DEF all
    <3> QED BY <1>1, MinIs
  <2>2. NextBoundary(w, now) = IF all = {} THEN None ELSE Min(all)
    BY DEF NextBoundary
  <2> HIDE DEF all
  <2>3. all # {} => x < Min(all)
    BY <2>1, <2>2 DEF None
  <2> QED BY <1>1, <2>1, <2>3
<1>3. ASSUME NEW r \in w.held PROVE lake[r].seen > x
  <2> DEFINE d == lake[r].domain
  <2>1. r \in DOMAIN lake /\ r \in Pending(w)
    BY DEF Pending
  <2>2. d \in Domains /\ r \in Rows(d)
    BY <2>1, RowIs DEF Rows
  <2>3. r \in Live(w, d)
    BY <2>1, <2>2 DEF KeptInView
  <2>4. lake[r].seen \in Boundaries(w, d, now)
    BY <2>3 DEF Boundaries
  <2>5. lake[r].seen \in all
    BY <2>2, <2>4
  <2> QED BY <1>1, <1>2, <2>5
<1>4. ASSUME NEW r \in w.waiting, Landed(r, x) PROVE FALSE
  <2> DEFINE d == lake[r].domain
  <2>1. r \in DOMAIN lake /\ r \in Pending(w)
    BY DEF Pending
  <2>2. d \in Domains /\ r \in Rows(d) /\ lake[r].avail \in Nat /\ lake[r].dataset \in DOMAIN Refreshes
    BY <2>1, RowIs DEF Rows
  <2>3. r \in Live(w, d)
    BY <2>1, <2>2 DEF KeptInView
  <2>4. ~ Landed(r, now)
    BY <2>2 DEF Settled
  <2> HIDE DEF d
  <2>5. CASE d \in RowGated
    <3>1. lake[r].avail \in Boundaries(w, d, now)
      BY <2>3, <2>5 DEF Boundaries
    <3>2. lake[r].avail \in all
      BY <2>2, <3>1
    <3>3. lake[r].avail <= x
      BY <1>4, <2>2, <2>5, LandedIs
    <3> HIDE DEF all
    <3>4. x < lake[r].avail /\ lake[r].avail \in Nat
      BY <1>2, <2>2, <3>2
    <3> QED BY <3>3, <3>4
  <2>6. CASE d \notin RowGated
    <3>1. NextReady(lake[r].dataset, now) \subseteq Boundaries(w, d, now)
      BY <2>3, <2>6 DEF Boundaries
    <3>2. \A b \in NextReady(lake[r].dataset, now) : x < b
      BY <1>2, <2>2, <3>1
    <3>3. lake[r].avail <= Cutoff(lake[r].dataset, x) /\ ~ (lake[r].avail <= Cutoff(lake[r].dataset, now))
      BY <1>4, <2>2, <2>4, <2>6, LandedIs
    <3>4. CASE now <= x
      BY <2>2, <3>2, <3>3, <3>4, CutoffGrows
    <3>5. CASE x < now
      <4>1. Landed(r, now)
        BY <1>4, <2>2, <3>5, LandedIs
      <4> QED BY <2>4, <4>1
    <3> QED BY <3>4, <3>5
  <2> QED BY <2>5, <2>6
<1> QED BY <1>3, <1>4 DEF Quiet

\* What a refresh leaves, when it started from w.
RefreshedIs(w, x, i) ==
    /\ x \in ViewStates /\ SameView(w, x) /\ GateIs(x)
    /\ \A d \in Domains : CursorsAt(x, d, At(w.from, i)) /\ BooksAt(x, d, i)
    /\ x.version >= w.version
    /\ x.version = w.version <=> \A d \in Domains : Grown(d, w.from, i) = {}

LEMMA RollAllIs ==
    ASSUME LakeOK, NEW w, NEW i, ReadyFor(w, i), GateIs(w)
    PROVE  RefreshedIs(w, RollAll(w, At(w.from, i)), i)
<1> DEFINE now == At(w.from, i)
<1> DEFINE t == At(w.from, i - 1)
<1> DEFINE n == Len(DomainSeq)
<1>1. PICK u : /\ RolledTo(w, u, i, n)
               /\ RollAll(w, now) = IF Gated(w, now) THEN w
                                    ELSE [u EXCEPT !.boundary = NextBoundary(u, now), !.ready = TRUE]
  BY RollsAll
<1>2. /\ w \in ViewStates /\ w.from \in Openings /\ w.version \in Nat
      /\ i - 1 \in w.from - 1 .. Len(Decisions) /\ i \in w.from - 1 .. Len(Decisions) /\ i - 1 < i
  BY AtIs DEF ReadyFor, ViewStates
<1>3. now \in Nat /\ t \in Nat /\ t <= now
  BY <1>2, AtIs
<1> HIDE DEF now, t, n
<1>4. CASE Gated(w, now)
  <2>1. Quiet(w, now)
    BY <1>3, <1>4 DEF Gated, GateIs
  <2>2. ASSUME NEW d \in Domains
        PROVE  CursorsAt(w, d, now) /\ BooksAt(w, d, i) /\ Grown(d, w.from, i) = {}
    <3>1. Settled(w, d, now) /\ \A r \in Rows(d) \cap w.held : lake[r].seen > now
      BY <2>1 DEF Quiet, Settled
    <3>2. CursorsAt(w, d, t) /\ Known(d, now) \subseteq Opened(w, d) /\ BooksAt(w, d, i - 1)
      BY DEF ReadyFor, now, t
    <3>3. CursorsAt(w, d, now) /\ Known(d, now) = Known(d, t)
      BY <1>2, <1>3, <3>1, <3>2, IdleCursors
    <3>4. Grown(d, w.from, i) = {}
      BY <3>3 DEF Grown, now, t
    <3>5. BooksAt(w, d, i)
      BY <1>2, <3>2, <3>4, UnchangedBooks DEF ReadyFor
    <3> QED BY <3>3, <3>4, <3>5
  <2>3. RefreshedIs(w, w, i)
    BY <1>2, <2>2 DEF RefreshedIs, SameView, now
  <2> QED BY <1>1, <1>4, <2>3 DEF now
<1>5. CASE ~ Gated(w, now)
  <2> DEFINE b == NextBoundary(u, now)
  <2> DEFINE x == [u EXCEPT !.boundary = b, !.ready = TRUE]
  <2>1. u \in ViewStates /\ SameView(w, u) /\ u.version >= w.version
    BY <1>1 DEF RolledTo
  <2>2. \A d \in Domains : CursorsAt(u, d, now) /\ Settled(u, d, now) /\ BooksAt(u, d, i)
    BY <1>1, DomainsAre DEF RolledTo, now, n
  <2>3. u.version = w.version <=> \A d \in Domains : Grown(d, w.from, i) = {}
    BY <1>1, DomainsAre DEF RolledTo, n
  <2>4. b \in Int
    <3> DEFINE all == UNION {Boundaries(u, d, now) : d \in Domains}
    <3>1. all \subseteq Nat
      <4> SUFFICES ASSUME NEW d \in Domains, NEW c \in Boundaries(u, d, now) PROVE c \in Nat
        OBVIOUS
      <4>1. Live(u, d) \subseteq DOMAIN lake
        BY LiveIs DEF Rows
      <4>2. \A r \in Live(u, d) : /\ lake[r].seen \in Nat /\ lake[r].avail \in Nat
                                  /\ NextReady(lake[r].dataset, now) \subseteq Nat
        BY <1>3, <4>1, RowIs, CutoffIs
      <4> QED BY <4>2 DEF Boundaries
    <3>2. all # {} => Min(all) \in Nat
      <4> HIDE DEF all
      <4> QED BY <3>1, MinIs
    <3> QED BY <3>2 DEF NextBoundary, None
  <2> HIDE DEF b
  <2>5. x \in ViewStates
    BY <2>1, <2>4 DEF ViewStates
  <2>6. /\ x.from = u.from /\ x.next = u.next /\ x.phase = u.phase /\ x.slots = u.slots
        /\ x.segments = u.segments /\ x.waiting = u.waiting /\ x.held = u.held
        /\ x.loaded = u.loaded /\ x.signature = u.signature /\ x.seq = u.seq
        /\ x.months = u.months /\ x.parts = u.parts /\ x.version = u.version
        /\ x.universe = u.universe /\ x.queue = u.queue /\ x.ready = TRUE /\ x.boundary = b
    BY <2>1 DEF ViewStates
  <2> HIDE DEF x
  <2>7. \A d \in Domains : SameCursors(u, x, d) /\ SameBooks(u, x, d)
    BY <2>6 DEF SameCursors, SameBooks, QueueOf
  <2>8. \A d \in Domains : CursorsAt(x, d, now) /\ BooksAt(x, d, i)
    BY <2>2, <2>7, SameCursorsIs, SameBooksIs
  <2>9. SameView(w, x)
    BY <2>1, <2>6 DEF SameView, Pending
  <2>10. Pending(u) \subseteq DOMAIN lake
    BY <2>1 DEF SameView, ReadyFor
  <2>11. GateIs(x)
    <3> SUFFICES ASSUME NEW y \in Nat, b = None \/ y < b PROVE Quiet(x, y)
      BY <2>6 DEF GateIs
    <3>1. \A d \in Domains : Settled(u, d, now) /\ KeptInView(u, d)
      BY <2>2 DEF CursorsAt
    <3>2. Quiet(u, y)
      BY <1>3, <2>1, <2>10, <3>1, BoundaryIs DEF b
    <3> QED BY <2>6, <3>2 DEF Quiet
  <2>12. RefreshedIs(w, x, i)
    BY <2>1, <2>3, <2>5, <2>6, <2>8, <2>9, <2>11 DEF RefreshedIs, now
  <2> QED BY <1>1, <1>5, <2>12 DEF x, b, now
<1> QED BY <1>4, <1>5

-----------------------------------------------------------------------------
(* New slots and new groups.                                                *)

\* The slots open at t, the groups loaded at t.
SlotsAt(w, t) ==
    /\ \A k \in Slots : k <= w.slots <=> k = 1 \/ Anchors[k] < t
    /\ w.universe = w.slots

LoadedAt(w, t) ==
    w.loaded = {g \in Groups : \E r \in g \cap DOMAIN lake :
                                   lake[r].avail <= Cutoff(lake[r].dataset, t)}

\* What a view carries after decision i.
CarriedAt(w, i) ==
    /\ w \in ViewStates /\ Pending(w) \subseteq DOMAIN lake /\ GateIs(w)
    /\ \A d \in Domains : CursorsAt(w, d, At(w.from, i)) /\ BooksAt(w, d, i)

\* The part of a view that opening slots and loading groups leaves alone.
SameParts(w, u) ==
    /\ u.from = w.from /\ u.next = w.next /\ u.phase = w.phase /\ u.queue = w.queue
    /\ u.seq = w.seq /\ u.months = w.months /\ u.parts = w.parts

LEMMA SamePartsIs ==
    ASSUME NEW w, NEW u, SameParts(w, u), w.queue = <<>>, NEW d, NEW i, BooksAt(w, d, i)
    PROVE  BooksAt(u, d, i)
<1>1. QueueOf(w, d) = {} /\ QueueOf(u, d) = {}
  BY DEF QueueOf, SameParts
<1>2. ~ Coming(w, d) /\ ~ Coming(u, d)
  BY <1>1 DEF Coming
<1> QED BY <1>1, <1>2 DEF BooksAt, MonthIs, SameParts

\* The next slot opens: its rows are waited for, the slots before it are kept while a row
\* of theirs is pending.
LEMMA ContinueIs ==
    ASSUME LakeOK, NEW w, NEW i, CarriedAt(w, i), w.queue = <<>>,
           i \in w.from - 1 .. Len(Decisions),
           NEW k \in Slots, k = w.slots + 1, At(w.from, i) <= Anchors[k]
    PROVE  /\ CarriedAt(ContinueInto(w, k), i) /\ SameParts(w, ContinueInto(w, k))
           /\ ContinueInto(w, k).loaded = w.loaded /\ ContinueInto(w, k).slots = k
           /\ ContinueInto(w, k).universe = k /\ ContinueInto(w, k).version = w.version + 1
<1> DEFINE t == At(w.from, i)
<1> DEFINE u == ContinueInto(w, k)
<1> DEFINE new == UNION {SlotRows(d, k) : d \in Domains \ Minutes}
<1> DEFINE kept(d) == {s \in w.segments[d] : HasPending(w, d, s)} \cup
                      (IF d \in Minutes \/ SlotRows(d, k) = {} THEN {} ELSE {k})
<1> DEFINE segments2 == [d \in Domains |-> kept(d)]
<1> DEFINE waiting2 == w.waiting \cup new
<1> DEFINE signature2 == [d \in Domains |-> NoSignature]
<1> DEFINE version2 == w.version + 1
<1>1. /\ w \in ViewStates /\ w.from \in Openings /\ w.version \in Nat
      /\ w.segments \in [Domains -> SUBSET Slots] /\ w.waiting \in SUBSET Nat /\ w.slots \in Slots
  BY DEF CarriedAt, ViewStates
<1>2. t \in Nat
  BY <1>1, AtIs
<1>3. \A d : SlotRows(d, k) \subseteq Rows(d) /\ Rows(d) \subseteq DOMAIN lake
  BY DEF SlotRows, Rows
<1>4. new \subseteq DOMAIN lake /\ new \subseteq Nat
  BY <1>3, RowIs
<1>5. version2 \in Nat /\ waiting2 \in SUBSET Nat /\ signature2 \in [Domains -> SUBSET Tokens]
  BY <1>1, <1>4 DEF NoSignature, Tokens
<1>6. segments2 \in [Domains -> SUBSET Slots]
  BY <1>1
<1>7. u = [w EXCEPT !.universe = k, !.version = version2, !.slots = k, !.segments = segments2,
                    !.waiting = waiting2, !.signature = signature2, !.ready = FALSE]
  BY <1>1 DEF ContinueInto, ContinueVersion, ViewStates
<1> HIDE DEF u, version2, segments2, waiting2, signature2
<1>8. u \in ViewStates
  BY <1>1, <1>5, <1>6, <1>7 DEF ViewStates
<1>9. /\ u.from = w.from /\ u.next = w.next /\ u.phase = w.phase /\ u.held = w.held
      /\ u.loaded = w.loaded /\ u.boundary = w.boundary /\ u.seq = w.seq /\ u.months = w.months
      /\ u.parts = w.parts /\ u.queue = w.queue
      /\ u.universe = k /\ u.version = version2 /\ u.slots = k /\ u.segments = segments2
      /\ u.waiting = waiting2 /\ u.signature = signature2 /\ u.ready = FALSE
  BY <1>1, <1>7 DEF ViewStates
<1>10. SameParts(w, u)
  BY <1>9 DEF SameParts
<1>11. \A d \in Domains : BooksAt(u, d, i)
  BY <1>10, SamePartsIs DEF CarriedAt
<1>12. Pending(u) = Pending(w) \cup new
  BY <1>9 DEF Pending, waiting2
<1>13. Pending(u) \subseteq DOMAIN lake
  BY <1>4, <1>12 DEF CarriedAt
<1>14. GateIs(u)
  BY <1>9 DEF GateIs
<1>15. ASSUME NEW d \in Domains PROVE Rows(d) \cap new = IF d \in Minutes THEN {} ELSE SlotRows(d, k)
  BY DEF SlotRows, Rows
<1> HIDE DEF new, t
<1>16. ASSUME NEW d \in Domains PROVE CursorsAt(u, d, t)
  <2>1. CursorsAt(w, d, t)
    BY DEF CarriedAt, t
  <2>2. Opened(u, d) = Opened(w, d) \cup (Rows(d) \cap new)
    <3>1. CASE d \in Minutes
      BY <1>9, <1>15, <3>1 DEF Opened
    <3>2. CASE d \notin Minutes
      <4>1. \A r \in Rows(d) : SlotOf(r) <= k <=> SlotOf(r) <= w.slots \/ SlotOf(r) = k
        <5>1. \A r \in Rows(d) : SlotOf(r) \in Nat
          BY SlotOfIs, SlotsAre DEF Rows
        <5>2. k \in Nat /\ w.slots \in Nat
          BY <1>1, SlotsAre
        <5> QED BY <5>1, <5>2
      <4> QED BY <1>9, <1>15, <3>2, <4>1 DEF Opened, SlotRows
    <3> QED BY <3>1, <3>2
  <2>3. ASSUME NEW r \in Rows(d), r \in new, r \in Known(d, t) PROVE FALSE
    <3>1. SlotOf(r) = k /\ r \in DOMAIN lake
      BY <1>15, <2>3 DEF SlotRows, Rows
    <3>2. Anchors[k] < lake[r].seen /\ lake[r].seen <= t
      BY <2>3, <3>1, SlotOfIs, SlotsAre DEF Known
    <3>3. Anchors[k] \in Nat /\ lake[r].seen \in Nat
      BY <3>1, SlotsAre, RowIs
    <3> QED BY <1>2, <3>2, <3>3 DEF t
  <2>4. Waits(u, d, t)
    BY <1>12, <2>1, <2>2, <2>3 DEF CursorsAt, Waits
  <2>5. HeldLanded(u, d, t)
    BY <1>9, <2>1 DEF CursorsAt, HeldLanded
  <2>6. KeptInView(u, d)
    <3> SUFFICES ASSUME NEW r \in Rows(d), r \in Pending(u) PROVE r \in Live(u, d)
      BY DEF KeptInView
    <3>1. CASE d \in Minutes
      <4>1. r \in Live(w, d)
        BY <1>12, <1>15, <2>1, <3>1 DEF CursorsAt, KeptInView
      <4> QED BY <1>9, <3>1, <4>1 DEF Live
    <3>2. CASE d \notin Minutes
      <4>1. u.segments[d] = kept(d)
        BY <1>9 DEF segments2
      <4>2. CASE r \in new
        <5>1. r \in SlotRows(d, k)
          BY <1>15, <3>2, <4>2
        <5>2. k \in u.segments[d]
          BY <3>2, <4>1, <5>1
        <5> QED BY <3>2, <5>1, <5>2 DEF Live
      <4>3. CASE r \notin new
        <5>1. r \in Pending(w)
          BY <1>12, <4>3
        <5>2. r \in Live(w, d)
          BY <2>1, <5>1 DEF CursorsAt, KeptInView
        <5>3. PICK s \in w.segments[d] : r \in SlotRows(d, s)
          BY <3>2, <5>2 DEF Live
        <5>4. HasPending(w, d, s)
          BY <5>1, <5>3 DEF HasPending, Pending
        <5>5. s \in u.segments[d]
          BY <4>1, <5>4
        <5> QED BY <3>2, <5>3, <5>5 DEF Live
      <4> QED BY <4>2, <4>3
    <3> QED BY <3>1, <3>2
  <2>7. Signed(u, d, t)
    BY <1>9 DEF Signed, signature2
  <2> QED BY <2>4, <2>5, <2>6, <2>7 DEF CursorsAt
<1>17. CarriedAt(u, i)
  BY <1>8, <1>9, <1>11, <1>13, <1>14, <1>16 DEF CarriedAt, t
<1> QED BY <1>9, <1>10, <1>17 DEF u, version2

\* The states that opening slots runs through.
Opens(g, w, now, n) ==
    g = [k \in 0 .. n |->
            IF k = 0 THEN w
            ELSE IF k > g[k - 1].slots /\ now > Anchors[k]
                 THEN ContinueInto(g[k - 1], k) ELSE g[k - 1]]

LEMMA OpeningExists ==
    ASSUME NEW w, NEW now, NEW n \in Nat
    PROVE  \E g : Opens(g, w, now, n)
<1> DEFINE Step(v, k) == IF k > v.slots /\ now > Anchors[k] THEN ContinueInto(v, k) ELSE v
<1> DEFINE Some(m) == \E g : Opens(g, w, now, m)
<1> DEFINE T == {m \in Nat : Some(m)}
<1>1. 0 \in T
  <2> DEFINE g == [k \in 0 .. 0 |-> w]
  <2>1. Opens(g, w, now, 0)
    BY DEF Opens
  <2> QED BY <2>1
<1>2. ASSUME NEW m \in Nat, m \in T PROVE m + 1 \in T
  <2>1. PICK g : Opens(g, w, now, m)
    BY <1>2
  <2> DEFINE h == [k \in 0 .. m + 1 |-> IF k <= m THEN g[k] ELSE Step(g[m], m + 1)]
  <2>2. ASSUME NEW k \in 0 .. m + 1 PROVE h[k] = IF k = 0 THEN w ELSE Step(h[k - 1], k)
    <3>1. CASE k = 0
      BY <2>1, <3>1 DEF Opens
    <3>2. CASE k \in 1 .. m
      <4>1. h[k] = g[k] /\ h[k - 1] = g[k - 1]
        BY <3>2
      <4>2. g[k] = Step(g[k - 1], k)
        BY <2>1, <3>2 DEF Opens
      <4> QED BY <3>2, <4>1, <4>2
    <3>3. CASE k = m + 1
      <4>1. h[k] = Step(g[m], m + 1) /\ h[k - 1] = g[m]
        BY <3>3
      <4> QED BY <3>3, <4>1
    <3> QED BY <3>1, <3>2, <3>3
  <2>3. Opens(h, w, now, m + 1)
    BY <2>2 DEF Opens
  <2> HIDE DEF h
  <2>4. Some(m + 1)
    BY <2>3
  <2> HIDE DEF Some
  <2> QED BY <2>4
<1> HIDE DEF T
<1>3. n \in T
  BY <1>1, <1>2, Induction
<1> QED BY <1>3 DEF T

\* The state after the first k slots were looked at.
OpenedTo(w, u, i, k) ==
    /\ CarriedAt(u, i) /\ SameParts(w, u) /\ u.loaded = w.loaded /\ u.universe = u.slots
    /\ \A j \in Slots : j <= u.slots <=> j <= w.slots \/ (j <= k /\ Anchors[j] < At(w.from, i + 1))
    /\ u.version >= w.version /\ (u.version = w.version <=> u.slots = w.slots)

LEMMA OpensOn ==
    ASSUME LakeOK, NEW w, NEW i, CarriedAt(w, i), SlotsAt(w, At(w.from, i)), w.queue = <<>>,
           i \in w.from - 1 .. Len(Decisions) - 1,
           NEW k \in Nat, k + 1 \in Slots, NEW u, OpenedTo(w, u, i, k)
    PROVE  OpenedTo(w, IF k + 1 > u.slots /\ At(w.from, i + 1) > Anchors[k + 1]
                       THEN ContinueInto(u, k + 1) ELSE u, i, k + 1)
<1> DEFINE t == At(w.from, i)
<1> DEFINE now == At(w.from, i + 1)
<1>1. /\ w \in ViewStates /\ w.from \in Openings /\ w.slots \in Slots /\ w.version \in Nat
      /\ u \in ViewStates /\ u.slots \in Slots /\ u.version \in Nat /\ u.from = w.from /\ u.queue = <<>>
  BY DEF CarriedAt, ViewStates, OpenedTo, SameParts
<1>2. /\ i \in w.from - 1 .. Len(Decisions) /\ i + 1 \in w.from - 1 .. Len(Decisions) /\ i < i + 1
  BY <1>1, AtIs
<1>3. t \in Nat /\ now \in Nat /\ t < now
  BY <1>1, <1>2, AtIs
<1> HIDE DEF t, now
<1>4. \A j \in Slots : j \in Nat /\ Anchors[j] \in Nat /\ j >= 1
  BY SlotsAre DEF Slots
<1>5. \A j \in Slots : j <= u.slots <=> j <= w.slots \/ (j <= k /\ Anchors[j] < now)
  BY DEF OpenedTo, now
<1>6. u.version >= w.version /\ (u.version = w.version <=> u.slots = w.slots)
  BY DEF OpenedTo
<1>7. CASE k + 1 > u.slots /\ now > Anchors[k + 1]
  <2>1. k = u.slots
    <3>1. u.slots \in Nat /\ u.slots >= 1
      BY <1>1, <1>4
    <3>2. k \in Slots
      <4>1. k >= 1
        BY <1>7, <3>1
      <4> QED BY <4>1 DEF Slots
    <3>3. Anchors[k] < Anchors[k + 1]
      BY <3>2, SlotsAre
    <3>4. Anchors[k] < now
      BY <1>3, <1>4, <1>7, <3>2, <3>3
    <3>5. k <= u.slots
      BY <1>5, <3>2, <3>4
    <3> QED BY <1>7, <3>1, <3>5
  <2>2. w.slots < k + 1
    <3>1. w.slots <= u.slots
      BY <1>1, <1>4, <1>5
    <3> QED BY <1>1, <1>4, <1>7, <3>1
  <2>3. t <= Anchors[k + 1]
    <3>1. ~ (k + 1 <= w.slots)
      BY <1>1, <1>4, <2>2
    <3>2. ~ (Anchors[k + 1] < t)
      BY <3>1 DEF SlotsAt, t
    <3> QED BY <1>3, <1>4, <3>2
  <2> DEFINE x == ContinueInto(u, k + 1)
  <2>4. /\ CarriedAt(x, i) /\ SameParts(u, x) /\ x.loaded = u.loaded
        /\ x.slots = k + 1 /\ x.universe = k + 1 /\ x.version = u.version + 1
    <3>1. CarriedAt(u, i)
      BY DEF OpenedTo
    <3> DEFINE s == k + 1
    <3>2. s \in Slots /\ s = u.slots + 1 /\ At(u.from, i) <= Anchors[s]
      BY <1>1, <2>1, <2>3 DEF t
    <3> HIDE DEF s
    <3>3. /\ CarriedAt(ContinueInto(u, s), i) /\ SameParts(u, ContinueInto(u, s))
          /\ ContinueInto(u, s).loaded = u.loaded /\ ContinueInto(u, s).slots = s
          /\ ContinueInto(u, s).universe = s /\ ContinueInto(u, s).version = u.version + 1
      BY <1>1, <1>2, <3>1, <3>2, ContinueIs
    <3> QED BY <3>3 DEF s
  <2> HIDE DEF x
  <2>5. SameParts(w, x) /\ x.loaded = w.loaded
    BY <2>4 DEF OpenedTo, SameParts
  <2>6. ASSUME NEW j \in Slots
        PROVE  j <= x.slots <=> j <= w.slots \/ (j <= k + 1 /\ Anchors[j] < now)
    <3>1. j \in Nat /\ w.slots \in Nat /\ u.slots \in Nat
      BY <1>1, <1>4
    <3>2. CASE j = k + 1
      BY <1>7, <2>4, <3>1, <3>2
    <3>3. CASE j # k + 1
      BY <1>5, <2>1, <2>4, <3>1, <3>3
    <3> QED BY <3>2, <3>3
  <2>7. x.version >= w.version /\ x.version # w.version /\ x.slots # w.slots
    BY <1>1, <1>4, <1>6, <2>2, <2>4
  <2>8. OpenedTo(w, x, i, k + 1)
    BY <2>4, <2>5, <2>6, <2>7 DEF OpenedTo, now
  <2> QED BY <1>7, <2>8 DEF x, now
<1>8. CASE ~ (k + 1 > u.slots /\ now > Anchors[k + 1])
  <2>1. ASSUME NEW j \in Slots
        PROVE  j <= u.slots <=> j <= w.slots \/ (j <= k + 1 /\ Anchors[j] < now)
    <3>1. j \in Nat /\ w.slots \in Nat /\ u.slots \in Nat /\ Anchors[j] \in Nat
      BY <1>1, <1>4
    <3>2. CASE j = k + 1
      BY <1>3, <1>5, <1>8, <3>1, <3>2
    <3>3. CASE j # k + 1
      BY <1>5, <3>1, <3>3
    <3> QED BY <3>2, <3>3
  <2>2. OpenedTo(w, u, i, k + 1)
    BY <2>1 DEF OpenedTo, now
  <2> QED BY <1>8, <2>2 DEF now
<1> QED BY <1>7, <1>8

LEMMA OpenSlotsIs ==
    ASSUME LakeOK, NEW w, NEW i, CarriedAt(w, i), SlotsAt(w, At(w.from, i)), w.queue = <<>>,
           i \in w.from - 1 .. Len(Decisions) - 1
    PROVE  OpenedTo(w, OpenSlots(w, At(w.from, i + 1)), i, Len(Anchors))
<1> DEFINE now == At(w.from, i + 1)
<1> DEFINE n == Len(Anchors)
<1> DEFINE g == CHOOSE h : Opens(h, w, now, n)
<1>1. n \in Nat /\ Slots = 1 .. n
  BY SlotsAre DEF Slots
<1>2. Opens(g, w, now, n)
  BY <1>1, OpeningExists
<1>3. OpenSlots(w, now) = g[n]
  BY DEF OpenSlots, Opens
<1> HIDE DEF g
<1> DEFINE Step(v, k) == IF k > v.slots /\ now > Anchors[k] THEN ContinueInto(v, k) ELSE v
<1>4. g[0] = w /\ \A k \in 1 .. n : g[k] = Step(g[k - 1], k)
  BY <1>1, <1>2 DEF Opens
<1> DEFINE T == {k \in Nat : k <= n => OpenedTo(w, g[k], i, k)}
<1>5. 0 \in T
  <2>1. w \in ViewStates /\ w.version \in Nat /\ w.slots \in Slots /\ w.universe = w.slots
    BY DEF CarriedAt, ViewStates, SlotsAt
  <2>2. \A j \in Slots : ~ (j <= 0)
    BY <1>1
  <2>3. OpenedTo(w, w, i, 0)
    BY <2>1, <2>2 DEF OpenedTo, SameParts
  <2> QED BY <1>4, <2>3
<1>6. ASSUME NEW k \in Nat, k \in T PROVE k + 1 \in T
  <2> SUFFICES ASSUME k + 1 <= n PROVE OpenedTo(w, g[k + 1], i, k + 1)
    OBVIOUS
  <2>1. OpenedTo(w, g[k], i, k)
    BY <1>1, <1>6
  <2>2. k + 1 \in Slots /\ k + 1 \in 1 .. n /\ (k + 1) - 1 = k
    BY <1>1
  <2>3. OpenedTo(w, Step(g[k], k + 1), i, k + 1)
    BY <2>1, <2>2, OpensOn
  <2>4. g[k + 1] = Step(g[k], k + 1)
    BY <1>4, <2>2
  <2> HIDE DEF Step
  <2> QED BY <2>3, <2>4
<1> HIDE DEF T
<1>7. n \in T
  BY <1>1, <1>5, <1>6, Induction
<1>8. OpenedTo(w, g[n], i, n)
  BY <1>1, <1>7 DEF T
<1> QED BY <1>3, <1>8

\* Groups are loaded once a row of theirs has landed; nothing of a group was known before.
LEMMA AppendIs ==
    ASSUME LakeOK, NEW w, NEW i, CarriedAt(w, i), w.queue = <<>>, LoadedAt(w, At(w.from, i)),
           i \in w.from - 1 .. Len(Decisions) - 1
    PROVE  /\ CarriedAt(AppendVisible(w, At(w.from, i + 1)), i)
           /\ SameParts(w, AppendVisible(w, At(w.from, i + 1)))
           /\ LoadedAt(AppendVisible(w, At(w.from, i + 1)), At(w.from, i + 1))
           /\ AppendVisible(w, At(w.from, i + 1)).slots = w.slots
           /\ AppendVisible(w, At(w.from, i + 1)).universe = w.universe
           /\ AppendVisible(w, At(w.from, i + 1)).version = w.version
<1> DEFINE t == At(w.from, i)
<1> DEFINE now == At(w.from, i + 1)
<1> DEFINE Due(g, x) == \E r \in g \cap DOMAIN lake : lake[r].avail <= Cutoff(lake[r].dataset, x)
<1> DEFINE due == {g \in Groups \ w.loaded : Due(g, now)}
<1> DEFINE fed == {d \in Minutes : \E g \in due : g \cap Rows(d) # {}}
<1> DEFINE u == AppendVisible(w, now)
<1>1. w \in ViewStates /\ w.from \in Openings /\ i \in w.from - 1 .. Len(Decisions)
      /\ i + 1 \in w.from - 1 .. Len(Decisions) /\ i < i + 1
  <2> HIDE DEF t, now, Due, due, fed, u
  <2>1. w \in ViewStates
    BY Zenon DEF CarriedAt
  <2>2. w.from \in Openings
    BY <2>1 DEF ViewStates
  <2>3. w.from \in Nat /\ Len(Decisions) \in Nat
    BY <2>2, AtIs, Zenon
  <2> QED BY <2>1, <2>2, <2>3
<1>2. t \in Nat /\ now \in Nat /\ t < now
  BY <1>1, AtIs
<1> HIDE DEF t, now
<1>3. \A r \in DOMAIN lake : lake[r].avail <= Cutoff(lake[r].dataset, t)
                             => lake[r].avail <= Cutoff(lake[r].dataset, now)
  <2> SUFFICES ASSUME NEW r \in DOMAIN lake, lake[r].avail <= Cutoff(lake[r].dataset, t)
               PROVE  lake[r].avail <= Cutoff(lake[r].dataset, now)
    OBVIOUS
  <2>1. lake[r].dataset \in DOMAIN Refreshes /\ lake[r].avail \in Nat
    BY RowIs
  <2>2. Cutoff(lake[r].dataset, t) \in Nat /\ Cutoff(lake[r].dataset, now) \in Nat
        /\ Cutoff(lake[r].dataset, t) <= Cutoff(lake[r].dataset, now)
    BY <1>2, <2>1, CutoffIs, CutoffGrows
  <2> QED BY <2>1, <2>2
<1>4. w.loaded = {g \in Groups : Due(g, t)}
  BY DEF LoadedAt, t
<1>5. {g \in Groups : Due(g, now)} = w.loaded \cup due
  BY <1>3, <1>4
<1>6. u = IF due = {} THEN w
          ELSE [w EXCEPT !.loaded = @ \cup due,
                         !.waiting = @ \cup (DOMAIN lake \cap UNION due),
                         !.signature = [d \in Domains |-> IF d \in fed THEN NoSignature ELSE @[d]],
                         !.ready = FALSE]
  BY DEF AppendVisible
<1>7. CASE due = {}
  <2>1. u = w
    BY <1>6, <1>7
  <2>2. LoadedAt(w, now)
    BY <1>5, <1>7 DEF LoadedAt
  <2>3. SameParts(w, w)
    BY DEF SameParts
  <2> HIDE DEF u
  <2>4. /\ CarriedAt(u, i) /\ SameParts(w, u) /\ LoadedAt(u, now)
        /\ u.slots = w.slots /\ u.universe = w.universe /\ u.version = w.version
    BY <2>1, <2>2, <2>3
  <2> QED BY <2>4 DEF u, now
<1>8. CASE due # {}
  <2> DEFINE new == DOMAIN lake \cap UNION due
  <2> DEFINE loaded2 == w.loaded \cup due
  <2> DEFINE waiting2 == w.waiting \cup new
  <2> DEFINE signature2 == [d \in Domains |-> IF d \in fed THEN NoSignature ELSE w.signature[d]]
  <2>1. /\ w.loaded \in SUBSET Groups /\ w.waiting \in SUBSET Nat
        /\ w.signature \in [Domains -> SUBSET Tokens]
    BY <1>1 DEF ViewStates
  <2>2. new \subseteq DOMAIN lake /\ new \subseteq Nat
    BY RowIs
  <2>3. loaded2 \in SUBSET Groups /\ waiting2 \in SUBSET Nat
    BY <2>1, <2>2
  <2>4. signature2 \in [Domains -> SUBSET Tokens]
    <3>1. NoSignature \in SUBSET Tokens
      BY DEF NoSignature, Tokens
    <3> HIDE DEF fed
    <3> QED BY <2>1, <3>1
  <2>5. u = [w EXCEPT !.loaded = loaded2, !.waiting = waiting2, !.signature = signature2, !.ready = FALSE]
    BY <1>1, <1>6, <1>8 DEF ViewStates
  <2>6. \A d \in Domains : signature2[d] = IF d \in fed THEN NoSignature ELSE w.signature[d]
    OBVIOUS
  <2> HIDE DEF u, loaded2, waiting2, signature2
  <2>7. u \in ViewStates
    BY <1>1, <2>3, <2>4, <2>5 DEF ViewStates
  <2>8. /\ u.from = w.from /\ u.next = w.next /\ u.phase = w.phase /\ u.slots = w.slots
        /\ u.segments = w.segments /\ u.held = w.held /\ u.boundary = w.boundary
        /\ u.seq = w.seq /\ u.months = w.months /\ u.parts = w.parts /\ u.version = w.version
        /\ u.universe = w.universe /\ u.queue = w.queue
        /\ u.loaded = loaded2 /\ u.waiting = waiting2 /\ u.signature = signature2 /\ u.ready = FALSE
    BY <1>1, <2>5 DEF ViewStates
  <2>9. SameParts(w, u) /\ \A d \in Domains : BooksAt(u, d, i)
    <3>1. SameParts(w, u)
      BY <2>8 DEF SameParts
    <3> QED BY <3>1, SamePartsIs DEF CarriedAt
  <2>10. LoadedAt(u, now)
    BY <1>5, <2>8 DEF LoadedAt, loaded2
  <2>11. Pending(u) = Pending(w) \cup new /\ Pending(u) \subseteq DOMAIN lake
    BY <2>2, <2>8 DEF Pending, waiting2, CarriedAt
  <2>12. ASSUME NEW d \in Domains PROVE CursorsAt(u, d, t)
    <3>1. CursorsAt(w, d, t)
      BY DEF CarriedAt, t
    <3>2. Rows(d) \subseteq DOMAIN lake /\ \A r \in Rows(d) : d \in Minutes <=> r \in UNION Groups
      BY RowIs DEF Rows
    <3>3. CASE Rows(d) \cap new = {}
      <4>1. Rows(d) \cap UNION due = {}
        BY <3>2, <3>3
      <4>2. Opened(u, d) = Opened(w, d) /\ Live(u, d) = Live(w, d)
        BY <2>8, <4>1 DEF Opened, Live, loaded2
      <4>3. Rows(d) \cap u.waiting = Rows(d) \cap w.waiting /\ Rows(d) \cap u.held = Rows(d) \cap w.held
        BY <2>8, <3>3 DEF waiting2
      <4>4. d \notin fed
        BY <4>1
      <4>5. u.signature[d] = w.signature[d]
        BY <2>6, <2>8, <4>4
      <4> QED BY <3>1, <4>2, <4>3, <4>5, CursorsDepend
    <3>4. CASE Rows(d) \cap new # {}
      <4>1. d \in Minutes /\ d \in fed /\ d \notin RowGated
        <5>1. PICK r \in Rows(d) : r \in UNION due
          BY <3>4
        <5>2. d \in Minutes
          BY <3>2, <5>1
        <5> QED BY <5>1, <5>2, SpanAssumption
      <4>2. Signed(u, d, t)
        BY <2>6, <2>8, <4>1 DEF Signed
      <4>3. HeldLanded(u, d, t)
        BY <2>8, <3>1 DEF CursorsAt, HeldLanded
      <4>4. Opened(u, d) = Opened(w, d) \cup (Rows(d) \cap new)
        BY <2>8, <3>2, <4>1 DEF Opened, loaded2
      <4>5. \A r \in Rows(d) : r \in new => r \notin Known(d, t)
        <5> SUFFICES ASSUME NEW r \in Rows(d), r \in new, r \in Known(d, t) PROVE FALSE
          OBVIOUS
        <5>1. lake[r].avail <= Cutoff(lake[r].dataset, t)
          BY <4>1 DEF Known
        <5>2. PICK g \in due : r \in g
          OBVIOUS
        <5>3. g \in Groups /\ Due(g, t)
          BY <3>2, <5>1, <5>2
        <5> QED BY <1>4, <5>2, <5>3
      <4>6. Waits(u, d, t)
        BY <2>11, <3>1, <4>4, <4>5 DEF CursorsAt, Waits
      <4>7. KeptInView(u, d)
        <5>1. Live(u, d) = Live(w, d) \cup (Rows(d) \cap new)
          BY <2>8, <3>2, <4>1 DEF Live, loaded2
        <5> QED BY <2>11, <3>1, <5>1 DEF CursorsAt, KeptInView
      <4> QED BY <4>2, <4>3, <4>6, <4>7 DEF CursorsAt
    <3> QED BY <3>3, <3>4
  <2>13. GateIs(u)
    BY <2>8 DEF GateIs
  <2>14. CarriedAt(u, i)
    BY <2>7, <2>8, <2>9, <2>11, <2>12, <2>13 DEF CarriedAt, t
  <2> QED BY <2>8, <2>9, <2>10, <2>14 DEF u, now
<1> QED BY <1>7, <1>8

-----------------------------------------------------------------------------
(* A refresh.                                                               *)

\* The last decision a view was rolled for.
Level(w) == IF w.phase = "idle" THEN w.next - 1 ELSE w.next

\* What holds of a view between two steps.
ViewIs(w) ==
    /\ w.phase # "refused" /\ (w.phase = "idle" => w.queue = <<>>)
    /\ w.from <= w.next /\ Level(w) <= Len(Decisions)
    /\ CarriedAt(w, Level(w))
    /\ SlotsAt(w, At(w.from, Level(w))) /\ LoadedAt(w, At(w.from, Level(w)))

\* A refresh for the next decision moved the version with what the view covers.
Prepared(w, x) ==
    /\ ViewIs(x) /\ x.from = w.from /\ x.next = w.next /\ x.phase = "rolling"
    /\ x.version >= w.version
    /\ x.version = w.version <=>
          x.universe = w.universe /\ \A d \in Domains : Grown(d, w.from, w.next) = {}

\* The rows known at a decision are those of the slots and groups opened for it.
LEMMA KnownIsOpened ==
    ASSUME LakeOK, NEW w \in ViewStates, NEW now \in Nat, SlotsAt(w, now), LoadedAt(w, now),
           NEW d \in Domains
    PROVE  Known(d, now) \subseteq Opened(w, d)
<1> SUFFICES ASSUME NEW r \in Known(d, now) PROVE r \in Opened(w, d)
  OBVIOUS
<1>1. r \in Rows(d) /\ r \in DOMAIN lake /\ lake[r].domain = d /\ lake[r].seen <= now /\ lake[r].seen \in Nat
  BY RowIs DEF Known, Rows
<1>2. CASE d \in Minutes
  <2>1. PICK g \in Groups : r \in g
    BY <1>1, <1>2, RowIs
  <2>2. d \notin RowGated
    BY <1>2, SpanAssumption
  <2>3. lake[r].avail <= Cutoff(lake[r].dataset, now)
    BY <2>2 DEF Known
  <2>4. g \in w.loaded
    BY <1>1, <2>1, <2>3 DEF LoadedAt
  <2> QED BY <1>1, <1>2, <2>1, <2>4 DEF Opened
<1>3. CASE d \notin Minutes
  <2>1. SlotOf(r) \in Slots /\ Anchors[SlotOf(r)] \in Nat /\ Anchors[SlotOf(r)] < lake[r].seen
    <3>1. SlotOf(r) \in Slots
      BY <1>1, SlotOfIs
    <3>2. SlotOf(r) \in Nat /\ Anchors[SlotOf(r)] \in Nat
      BY <3>1, SlotsAre
    <3>3. SlotOf(r) <= SlotOf(r)
      BY <3>2
    <3> QED BY <1>1, <3>1, <3>2, <3>3, SlotOfIs
  <2>2. Anchors[SlotOf(r)] < now
    BY <1>1, <2>1
  <2>3. SlotOf(r) <= w.slots
    BY <2>1, <2>2 DEF SlotsAt
  <2> QED BY <1>1, <1>3, <2>3 DEF Opened
<1> QED BY <1>2, <1>3

LEMMA RefreshIs ==
    ASSUME LakeOK, NEW w, ViewIs(w), w.phase = "idle", w.next <= Len(Decisions)
    PROVE  Prepared(w, [RollAll(AppendVisible(OpenSlots(w, Instant(w)), Instant(w)), Instant(w))
                           EXCEPT !.phase = "rolling"])
<1> DEFINE f == w.from
<1> DEFINE i == w.next
<1> DEFINE now == At(f, i)
<1> DEFINE t == At(f, i - 1)
<1> DEFINE a == OpenSlots(w, now)
<1> DEFINE b == AppendVisible(a, now)
<1> DEFINE c == RollAll(b, now)
<1> DEFINE x == [c EXCEPT !.phase = "rolling"]
<1>1. /\ w \in ViewStates /\ f \in Openings /\ i \in Nat /\ w.queue = <<>> /\ w.version \in Nat
      /\ f \in Nat /\ Len(Decisions) \in Nat /\ w.slots \in Slots /\ w.universe = w.slots
  BY AtIs DEF ViewIs, CarriedAt, ViewStates, SlotsAt
<1>2. /\ i - 1 \in f - 1 .. Len(Decisions) - 1 /\ i \in f .. Len(Decisions)
      /\ i - 1 \in f - 1 .. Len(Decisions) /\ i \in f - 1 .. Len(Decisions)
      /\ (i - 1) + 1 = i /\ i - 1 < i
  BY <1>1 DEF ViewIs, Level
<1>3. now \in Nat /\ t \in Nat /\ t < now /\ now = Instant(w)
  <2>1. now \in Nat /\ t \in Nat /\ t < now
    BY <1>1, <1>2, AtIs
  <2>2. ~ (i < f)
    BY <1>1, <1>2
  <2> QED BY <2>1, <2>2 DEF At, Instant
<1>4. CarriedAt(w, i - 1) /\ SlotsAt(w, t) /\ LoadedAt(w, t)
  BY DEF ViewIs, Level
<1> DEFINE j == i - 1
<1>5. j \in f - 1 .. Len(Decisions) - 1 /\ At(f, j) = t /\ At(f, j + 1) = now /\ CarriedAt(w, j)
  BY <1>2, <1>4
<1> HIDE DEF now, t, j, a, b, c, x
<1>6. OpenedTo(w, a, j, Len(Anchors))
  BY <1>1, <1>4, <1>5, OpenSlotsIs DEF a
<1>7. /\ a \in ViewStates /\ CarriedAt(a, j) /\ SameParts(w, a) /\ a.loaded = w.loaded
      /\ a.from = f /\ a.queue = <<>> /\ a.next = i
  BY <1>1, <1>6 DEF OpenedTo, SameParts, CarriedAt
<1>8. SlotsAt(a, now)
  <2> SUFFICES ASSUME NEW k \in Slots PROVE k <= a.slots <=> k = 1 \/ Anchors[k] < now
    BY <1>6 DEF SlotsAt, OpenedTo
  <2>1. k <= a.slots <=> k <= w.slots \/ (k <= Len(Anchors) /\ Anchors[k] < now)
    BY <1>5, <1>6 DEF OpenedTo
  <2>2. k <= w.slots <=> k = 1 \/ Anchors[k] < t
    BY <1>4 DEF SlotsAt
  <2>3. k <= Len(Anchors) /\ Anchors[k] \in Nat
    BY SlotsAre DEF Slots
  <2> QED BY <1>3, <2>1, <2>2, <2>3
<1>9. LoadedAt(a, t)
  BY <1>4, <1>7 DEF LoadedAt
<1>10. /\ CarriedAt(b, j) /\ SameParts(a, b) /\ LoadedAt(b, now)
       /\ b.slots = a.slots /\ b.universe = a.universe /\ b.version = a.version
  <2>1. j \in a.from - 1 .. Len(Decisions) - 1 /\ At(a.from, j) = t /\ At(a.from, j + 1) = now
    BY <1>5, <1>7
  <2>2. LoadedAt(a, At(a.from, j))
    BY <1>9, <2>1
  <2> QED BY <1>7, <2>1, <2>2, AppendIs DEF b
<1>11. b \in ViewStates /\ b.from = f /\ b.queue = <<>> /\ b.next = i /\ SlotsAt(b, now)
  BY <1>7, <1>8, <1>10 DEF CarriedAt, SameParts, SlotsAt
<1>12. \A d \in Domains : Known(d, now) \subseteq Opened(b, d)
  BY <1>3, <1>10, <1>11, KnownIsOpened
<1>13. ReadyFor(b, i) /\ GateIs(b)
  BY <1>2, <1>10, <1>11, <1>12 DEF ReadyFor, CarriedAt, now, j
<1>14. RefreshedIs(b, c, i)
  <2>1. now = At(b.from, i)
    BY <1>11 DEF now
  <2> QED BY <1>13, <2>1, RollAllIs DEF c
<1>15. /\ c \in ViewStates /\ c.from = f /\ c.next = i /\ c.slots = b.slots /\ c.loaded = b.loaded
       /\ c.universe = b.universe /\ Pending(c) \subseteq DOMAIN lake /\ GateIs(c)
       /\ \A d \in Domains : CursorsAt(c, d, now) /\ BooksAt(c, d, i)
  BY <1>10, <1>11, <1>14 DEF RefreshedIs, SameView, CarriedAt, now
<1>16. x \in ViewStates
  BY <1>15 DEF ViewStates, x
<1>17. /\ x.from = c.from /\ x.next = c.next /\ x.phase = "rolling" /\ x.slots = c.slots
       /\ x.segments = c.segments /\ x.waiting = c.waiting /\ x.held = c.held
       /\ x.loaded = c.loaded /\ x.signature = c.signature /\ x.seq = c.seq
       /\ x.months = c.months /\ x.parts = c.parts /\ x.version = c.version
       /\ x.universe = c.universe /\ x.queue = c.queue /\ x.ready = c.ready /\ x.boundary = c.boundary
  BY <1>15 DEF ViewStates, x
<1>18. \A d \in Domains : SameCursors(c, x, d) /\ SameBooks(c, x, d)
  BY <1>17 DEF SameCursors, SameBooks, QueueOf
<1>19. \A d \in Domains : CursorsAt(x, d, now) /\ BooksAt(x, d, i)
  BY <1>15, <1>18, SameCursorsIs, SameBooksIs
<1>20. Pending(x) \subseteq DOMAIN lake /\ GateIs(x)
  BY <1>15, <1>17 DEF Pending, GateIs, Quiet
<1>21. CarriedAt(x, i)
  BY <1>15, <1>16, <1>17, <1>19, <1>20 DEF CarriedAt, now
<1>22. SlotsAt(x, now) /\ LoadedAt(x, now)
  BY <1>10, <1>11, <1>15, <1>17 DEF SlotsAt, LoadedAt
<1>23. ViewIs(x) /\ x.from = w.from /\ x.next = w.next /\ x.phase = "rolling"
  BY <1>2, <1>15, <1>17, <1>21, <1>22 DEF ViewIs, Level, now
<1>24. /\ a.version \in Nat /\ a.version >= w.version /\ (a.version = w.version <=> a.universe = w.universe)
       /\ x.version \in Nat /\ x.version >= a.version
       /\ x.version = a.version <=> \A d \in Domains : Grown(d, f, i) = {}
  <2>1. a.version >= w.version /\ (a.version = w.version <=> a.universe = w.universe)
    BY <1>1, <1>6 DEF OpenedTo
  <2>2. c.version >= b.version /\ (c.version = b.version <=> \A d \in Domains : Grown(d, f, i) = {})
    BY <1>11, <1>14 DEF RefreshedIs
  <2>3. a.version \in Nat /\ c.version \in Nat
    BY <1>7, <1>15 DEF ViewStates
  <2> QED BY <1>10, <1>17, <2>1, <2>2, <2>3
<1>25. x.universe = a.universe
  BY <1>10, <1>15, <1>17
<1>26. Prepared(w, x)
  BY <1>1, <1>23, <1>24, <1>25 DEF Prepared
<1> QED BY <1>3, <1>26 DEF x, c, b, a

-----------------------------------------------------------------------------
(* A publication.                                                           *)

\* The parts that one part covers tile its numbers, and it takes their place.
LEMMA CoveredIs ==
    ASSUME NEW parts, NEW a \in Nat, NEW b \in Int, Tiles(parts, a, b),
           NEW p, p.first \in Nat, p.last \in Nat, a <= p.first, p.first <= p.last, p.last <= b,
           Singles(parts, p.first),
           NEW part, part.first = p.first, part.last = p.last
    PROVE  /\ Tiles(Covered(parts, p), p.first, p.last)
           /\ Tiles((parts \ Covered(parts, p)) \cup {part}, a, b)
<1> DEFINE c == Covered(parts, p)
<1>1. IsFiniteSet(parts) /\ c \subseteq parts
  BY DEF Tiles, Covered
<1>2. \A q \in parts : q.first \in Nat /\ q.last \in Nat /\ q.first <= q.last
  BY DEF Tiles
<1>3. \A q \in parts : q \in c <=> p.first <= q.first /\ q.last <= p.last
  BY DEF Covered
<1>4. ASSUME NEW q \in parts, q \notin c PROVE q.last < p.first \/ p.last < q.first
  <2> SUFFICES ASSUME p.first <= q.last, q.first <= p.last PROVE FALSE
    BY <1>2
  <2>1. q.first = q.last
    BY DEF Singles
  <2> QED BY <1>3, <1>4, <2>1
<1>5. IsFiniteSet(c) /\ IsFiniteSet((parts \ c) \cup {part})
  BY <1>1, FS_Subset, FS_AddElement
<1>6. ASSUME NEW n \in p.first .. p.last PROVE \E q \in c : q.first <= n /\ n <= q.last
  <2>1. n \in a .. b
    OBVIOUS
  <2>2. PICK q \in parts : q.first <= n /\ n <= q.last
    BY <2>1 DEF Tiles
  <2>3. q \in c
    BY <1>2, <1>4, <2>2
  <2> QED BY <2>2, <2>3
<1>7. ASSUME NEW n \in a .. b
      PROVE  \E q \in (parts \ c) \cup {part} : q.first <= n /\ n <= q.last
  <2>1. PICK q \in parts : q.first <= n /\ n <= q.last
    BY DEF Tiles
  <2>2. CASE q \in c
    BY <1>2, <1>3, <2>1, <2>2
  <2>3. CASE q \notin c
    BY <2>1, <2>3
  <2> QED BY <2>2, <2>3
<1>8. \A q, r \in parts : q # r => q.last < r.first \/ r.last < q.first
  BY DEF Tiles
<1>9. \A q, r \in (parts \ c) \cup {part} : q # r => q.last < r.first \/ r.last < q.first
  BY <1>4, <1>8
<1>10. \A q \in parts : a <= q.first /\ q.last <= b
  BY DEF Tiles
<1> HIDE DEF c
<1>11. Tiles(c, p.first, p.last)
  BY <1>1, <1>2, <1>3, <1>5, <1>6, <1>8 DEF Tiles
<1>12. Tiles((parts \ c) \cup {part}, a, b)
  BY <1>1, <1>2, <1>5, <1>7, <1>9, <1>10 DEF Tiles
<1> QED BY <1>11, <1>12 DEF c

\* A part beyond the others covers none of them and continues them.
LEMMA NextPartIs ==
    ASSUME NEW parts, NEW a \in Nat, NEW b \in Int, Tiles(parts, a, b), a <= b + 1,
           NEW p, p.first = b + 1, p.last = b + 1,
           NEW part, part.first = p.first, part.last = p.last
    PROVE  /\ Covered(parts, p) = {}
           /\ Tiles((parts \ Covered(parts, p)) \cup {part}, a, b + 1)
<1>1. \A q \in parts : /\ q.first \in Nat /\ q.last \in Nat /\ a <= q.first
                       /\ q.first <= q.last /\ q.last <= b
  BY DEF Tiles
<1>2. Covered(parts, p) = {}
  BY <1>1 DEF Covered
<1>3. b + 1 \in Nat
  OBVIOUS
<1>4. IsFiniteSet(parts \cup {part})
  BY FS_AddElement DEF Tiles
<1>5. ASSUME NEW n \in a .. b + 1 PROVE \E q \in parts \cup {part} : q.first <= n /\ n <= q.last
  <2>1. CASE n = b + 1
    BY <2>1
  <2>2. CASE n # b + 1
    <3>1. n \in a .. b
      BY <2>2
    <3> QED BY <3>1 DEF Tiles
  <2> QED BY <2>1, <2>2
<1>6. \A q, r \in parts : q # r => q.last < r.first \/ r.last < q.first
  BY DEF Tiles
<1>7. \A q, r \in parts \cup {part} : q # r => q.last < r.first \/ r.last < q.first
  BY <1>1, <1>6
<1>8. Tiles(parts \cup {part}, a, b + 1)
  BY <1>1, <1>3, <1>4, <1>5, <1>7 DEF Tiles
<1> QED BY <1>2, <1>8

\* The part at the head of the queue and what the view would encode for it.
HeadOf(w, p, d) ==
    /\ d \in Domains /\ p \in Publications /\ p \in Range(w.queue)
    /\ p.dir = Directory(w) /\ p.first \in Nat /\ p.last \in Nat /\ p.first <= p.last
    /\ p.count = Cardinality(Batch(d, w.from, p.first, p.last))
    /\ Enumerates(Own(w, p), Batch(d, w.from, p.first, p.last), ReadOrder(d, w.from))
    /\ \A part : part.first = p.first /\ part.last = p.last =>
          Tiles((w.parts[d] \ Covered(w.parts[d], p)) \cup {part}, Base(d), w.seq[d] - 1)
    /\ \A k \in QueueOf(w, d) : k # 1 => p.first = p.last /\ w.queue[k].first < w.queue[k].last
    /\ p.first = p.last \/ p.last < w.months[d].first

HeadIs(w) == HeadOf(w, Head(w.queue), Head(w.queue).domain)

LEMMA OwnIs ==
    ASSUME LakeOK, NEW w \in ViewStates, NEW i \in w.from .. Len(Decisions), w.queue # <<>>,
           \A d \in Domains : BooksAt(w, d, i)
    PROVE  HeadIs(w)
<1> DEFINE p == Head(w.queue)
<1> DEFINE d == p.domain
<1> DEFINE f == w.from
<1>1. /\ f \in Openings /\ w.queue \in Seq(Publications) /\ w.seq \in [Domains -> Nat]
      /\ i + 1 \in f .. Len(Decisions) + 1
  BY AtIs DEF ViewStates
<1>2. p = w.queue[1] /\ 1 \in DOMAIN w.queue /\ p \in Publications /\ p \in Range(w.queue)
  <2>1. w.queue \in Seq(Publications) /\ w.queue # <<>>
    BY <1>1
  <2>2. DOMAIN w.queue = 1 .. Len(w.queue) /\ Len(w.queue) \in Nat /\ Len(w.queue) # 0
    BY <2>1
  <2>3. p = w.queue[1] /\ 1 \in DOMAIN w.queue
    BY <2>1, <2>2
  <2> QED BY <2>1, <2>3 DEF Range
<1>3. d \in Domains /\ p.first \in Nat /\ p.last \in Nat
  BY <1>2 DEF Publications
<1>4. 1 \in QueueOf(w, d)
  BY <1>2 DEF QueueOf
<1> HIDE DEF p, d
<1>5. BooksAt(w, d, i) /\ QueuedIs(w, p) /\ p.domain = d
  BY <1>2, <1>3, <1>4 DEF BooksAt, d
<1>6. Base(d) \in Nat /\ w.seq[d] \in Nat /\ Base(d) <= w.seq[d] /\ Base(d) <= 1
  <2>1. w.seq[d] = Number(d, f, i + 1)
    BY <1>5 DEF BooksAt
  <2>2. Base(d) \in {0, 1}
    BY BaseIs
  <2>3. Number(d, f, i + 1) \in Nat /\ Base(d) <= Number(d, f, i + 1)
    BY <1>1, NumberIs
  <2> QED BY <2>1, <2>2, <2>3
<1>7. ASSUME NEW k \in QueueOf(w, d), k # 1
      PROVE  p.first = p.last /\ w.queue[k].first < w.queue[k].last
  <2>1. k \in Nat /\ 1 < k
    BY <1>1, <1>7 DEF QueueOf
  <2> QED BY <1>2, <1>4, <1>5, <2>1 DEF BooksAt
<1>8. p.dir = Directory(w) /\ p.count = Cardinality(Batch(d, f, p.first, p.last))
  BY <1>5, Zenon DEF QueuedIs
<1>9. CASE p.first = p.last
  <2>1. NewPart(w, p)
    BY <1>3, <1>5, <1>9 DEF QueuedIs, MergedPart
  <2>2. /\ Base(d) <= p.first /\ p.last = w.seq[d] - 1
        /\ Enumerates(p.rows, Batch(d, f, p.first, p.last), ReadOrder(d, f))
    BY <1>5, <2>1 DEF NewPart
  <2>3. Own(w, p) = p.rows
    BY <1>9 DEF Own
  <2>4. Coming(w, d)
    BY <1>2, <1>4, <1>9 DEF Coming
  <2>5. Tiles(w.parts[d], Base(d), w.seq[d] - 2)
    BY <1>5, <2>4 DEF BooksAt
  <2> DEFINE b == w.seq[d] - 2
  <2>6. b \in Int /\ p.first = b + 1 /\ p.last = b + 1 /\ Base(d) <= b + 1 /\ b + 1 = w.seq[d] - 1
    <3>1. \A s \in Nat : s - 2 \in Int /\ (s - 2) + 1 = s - 1
      OBVIOUS
    <3>2. b \in Int /\ b + 1 = w.seq[d] - 1
      BY <1>6, <3>1, Zenon
    <3> HIDE DEF b
    <3> QED BY <1>9, <2>2, <3>2, Zenon
  <2> HIDE DEF b
  <2>7. Tiles(w.parts[d], Base(d), b)
    BY <2>5 DEF b
  <2>8. \A part : part.first = p.first /\ part.last = p.last =>
           Tiles((w.parts[d] \ Covered(w.parts[d], p)) \cup {part}, Base(d), b + 1)
    BY <1>6, <2>6, <2>7, NextPartIs
  <2>9. Enumerates(Own(w, p), Batch(d, f, p.first, p.last), ReadOrder(d, f))
    BY <2>2, <2>3, Zenon
  <2>10. \A part : part.first = p.first /\ part.last = p.last =>
           Tiles((w.parts[d] \ Covered(w.parts[d], p)) \cup {part}, Base(d), w.seq[d] - 1)
    BY <2>6, <2>8, Zenon
  <2>11. p.first <= p.last
    BY <1>3, <1>9
  <2>12. HeadOf(w, p, d)
    BY <1>2, <1>3, <1>7, <1>8, <1>9, <2>9, <2>10, <2>11, Zenon DEF HeadOf
  <2> QED BY <2>12, Zenon DEF HeadIs, p, d
<1>10. CASE p.first # p.last
  <2>1. MergedPart(w, p)
    BY <1>5, <1>10 DEF QueuedIs, NewPart
  <2>2. /\ 1 <= p.first /\ p.first < p.last /\ p.last = w.seq[d] - 2
        /\ Singles(w.parts[d], p.first) /\ p.last < w.months[d].first
    BY <1>5, <2>1 DEF MergedPart
  <2>3. Own(w, p) = Reading(Covered(w.parts[d], p))
    BY <1>5, <1>10 DEF Own
  <2>4. ~ Coming(w, d)
    <3> SUFFICES ASSUME NEW k \in QueueOf(w, d), w.queue[k].first = w.queue[k].last PROVE FALSE
      BY DEF Coming
    <3>1. k # 1
      BY <1>2, <1>10
    <3> QED BY <1>7, <1>10, <3>1
  <2>5. Tiles(w.parts[d], Base(d), w.seq[d] - 1) /\ Contents(w.parts[d], d, f)
    BY <1>5, <2>4 DEF BooksAt
  <2> DEFINE b == w.seq[d] - 1
  <2> DEFINE c == Covered(w.parts[d], p)
  <2>6. b \in Int /\ Base(d) <= p.first /\ p.first <= p.last /\ p.last <= b
    BY <1>3, <1>6, <2>2
  <2> HIDE DEF b
  <2>7. Tiles(w.parts[d], Base(d), b)
    BY <2>5 DEF b
  <2>8. \A part : part.first = p.first /\ part.last = p.last =>
           /\ Tiles(c, p.first, p.last)
           /\ Tiles((w.parts[d] \ c) \cup {part}, Base(d), b)
    BY <1>3, <1>6, <2>2, <2>6, <2>7, CoveredIs
  <2>9. Tiles(c, p.first, p.last)
    BY <2>8
  <2>10. Contents(c, d, f)
    BY <2>5 DEF Contents, Covered
  <2> HIDE DEF c
  <2>11. Enumerates(Reading(c), Batch(d, f, p.first, p.last), ReadOrder(d, f))
    <3>1. p.last \in Int /\ p.first <= p.last + 1
      BY <1>3, <2>6
    <3> QED BY <1>1, <1>3, <2>9, <2>10, <3>1, ReadingIs
  <2>12. HeadOf(w, p, d)
    BY <1>2, <1>3, <1>7, <1>8, <2>2, <2>3, <2>6, <2>8, <2>11, Zenon DEF HeadOf, b, c
  <2> QED BY <2>12, Zenon DEF HeadIs, p, d
<1> QED BY <1>9, <1>10

\* The head of the queue is published with these rows.
Linked(w, p, rows) ==
    [w EXCEPT !.queue = Tail(w.queue),
              !.parts[p.domain] = (w.parts[p.domain] \ Covered(w.parts[p.domain], p)) \cup
                                  {[first |-> p.first, last |-> p.last, rows |-> rows]}]

SameLevel(w, x) ==
    /\ x.from = w.from /\ x.next = w.next /\ x.phase = w.phase
    /\ x.version = w.version /\ x.universe = w.universe

LEMMA TailIs ==
    ASSUME NEW S, NEW q \in Seq(S), q # <<>>
    PROVE  /\ Tail(q) \in Seq(S) /\ Len(q) \in Nat \ {0} /\ DOMAIN q = 1 .. Len(q)
           /\ DOMAIN Tail(q) = 1 .. Len(q) - 1
           /\ \A k \in 1 .. Len(q) - 1 : Tail(q)[k] = q[k + 1]
  OBVIOUS

LEMMA PublishIs ==
    ASSUME LakeOK, NEW w, ViewIs(w), w.phase = "rolling", w.queue # <<>>, NEW rows,
           Enumerates(rows, Batch(Head(w.queue).domain, w.from, Head(w.queue).first, Head(w.queue).last),
                      ReadOrder(Head(w.queue).domain, w.from))
    PROVE  ViewIs(Linked(w, Head(w.queue), rows)) /\ SameLevel(w, Linked(w, Head(w.queue), rows))
<1> DEFINE p == Head(w.queue)
<1> DEFINE d == p.domain
<1> DEFINE f == w.from
<1> DEFINE i == w.next
<1> DEFINE part == [first |-> p.first, last |-> p.last, rows |-> rows]
<1> DEFINE c == Covered(w.parts[d], p)
<1> DEFINE parts2 == (w.parts[d] \ c) \cup {part}
<1> DEFINE queue2 == Tail(w.queue)
<1> DEFINE allparts == [w.parts EXCEPT ![d] = parts2]
<1> DEFINE x == Linked(w, p, rows)
<1>1. /\ w \in ViewStates /\ f \in Openings /\ i \in Nat /\ w.queue \in Seq(Publications)
      /\ w.parts \in [Domains -> SUBSET Parts] /\ w.seq \in [Domains -> Nat]
      /\ w.months \in [Domains -> Months] /\ f <= i /\ i <= Len(Decisions)
      /\ CarriedAt(w, i) /\ SlotsAt(w, At(f, i)) /\ LoadedAt(w, At(f, i))
  BY DEF ViewIs, Level, CarriedAt, ViewStates
<1>2. i \in f .. Len(Decisions)
  BY <1>1, AtIs
<1>3. HeadIs(w)
  BY <1>1, <1>2, OwnIs DEF CarriedAt
<1>4. /\ d \in Domains /\ p \in Publications /\ p.first \in Nat /\ p.last \in Nat /\ p.first <= p.last
      /\ \A q : q.first = p.first /\ q.last = p.last =>
            Tiles((w.parts[d] \ c) \cup {q}, Base(d), w.seq[d] - 1)
      /\ \A k \in QueueOf(w, d) : k # 1 => p.first = p.last /\ w.queue[k].first < w.queue[k].last
      /\ p.first = p.last \/ p.last < w.months[d].first
  <2>1. HeadOf(w, p, d)
    BY <1>3, Zenon DEF HeadIs
  <2> HIDE DEF p, d, f, i, part, parts2, queue2, allparts, x
  <2> QED BY <2>1, Zenon DEF HeadOf, c
<1>5. part.first = p.first /\ part.last = p.last /\ part.rows = rows
  OBVIOUS
<1>6. Enumerates(rows, Batch(d, f, p.first, p.last), ReadOrder(d, f))
  OBVIOUS
<1>7. part \in Parts
  <2> DEFINE S == Batch(d, f, p.first, p.last)
  <2>1. S \subseteq Nat
    BY <1>1, BatchIs, RowIs DEF Rows
  <2>2. IsFiniteSet(S)
    BY <1>1, BatchIsFinite
  <2>3. \A A, B : A \subseteq B => Seq(A) \subseteq Seq(B)
    OBVIOUS
  <2>4. Enumerates(rows, S, ReadOrder(d, f))
    BY <1>6
  <2> HIDE DEF S
  <2>5. rows \in Seq(S)
    BY <2>2, <2>4, EnumerationIs
  <2>6. rows \in Seq(Nat)
    BY <2>1, <2>3, <2>5
  <2> QED BY <1>4, <2>6 DEF Parts
<1>8. Tiles(parts2, Base(d), w.seq[d] - 1)
  BY <1>4, <1>5
<1>9. /\ queue2 \in Seq(Publications) /\ Len(w.queue) \in Nat \ {0} /\ DOMAIN w.queue = 1 .. Len(w.queue)
      /\ DOMAIN queue2 = 1 .. Len(w.queue) - 1
      /\ \A k \in 1 .. Len(w.queue) - 1 : queue2[k] = w.queue[k + 1]
  BY <1>1, TailIs
<1> HIDE DEF p, d, part, queue2
<1>10. parts2 \subseteq Parts /\ parts2 \in SUBSET Parts
  BY <1>1, <1>4, <1>7
<1>11. \A q \in parts2 : q \in w.parts[d] \/ q = part
  OBVIOUS
<1> HIDE DEF parts2
<1>12. allparts \in [Domains -> SUBSET Parts]
  BY <1>1, <1>10
<1>13. allparts[d] = parts2 /\ \A e \in Domains : e # d => allparts[e] = w.parts[e]
  BY <1>1, <1>4
<1>14. x = [w EXCEPT !.queue = queue2, !.parts = allparts]
  BY <1>1 DEF Linked, ViewStates, queue2, parts2, part, d
<1> HIDE DEF allparts, x
<1>15. x \in ViewStates
  BY <1>1, <1>9, <1>12, <1>14 DEF ViewStates
<1>16. /\ x.from = w.from /\ x.next = w.next /\ x.phase = w.phase /\ x.slots = w.slots
       /\ x.segments = w.segments /\ x.waiting = w.waiting /\ x.held = w.held
       /\ x.loaded = w.loaded /\ x.signature = w.signature /\ x.seq = w.seq
       /\ x.months = w.months /\ x.parts = allparts /\ x.version = w.version
       /\ x.universe = w.universe /\ x.queue = queue2 /\ x.ready = w.ready /\ x.boundary = w.boundary
  BY <1>1, <1>14 DEF ViewStates
<1>17. ASSUME NEW e \in Domains, NEW k PROVE k \in QueueOf(x, e) <=> k \in Nat /\ k # 0 /\ k + 1 \in QueueOf(w, e)
  BY <1>9, <1>16 DEF QueueOf
<1>18. \A e \in Domains : \A k \in QueueOf(x, e) : x.queue[k] = w.queue[k + 1] /\ k \in Nat /\ k + 1 # 1
  BY <1>9, <1>16 DEF QueueOf
<1>19. ASSUME NEW e \in Domains, e # d PROVE BooksAt(x, e, i)
  <2>1. BooksAt(w, e, i)
    BY <1>1 DEF CarriedAt
  <2>2. x.parts[e] = w.parts[e]
    BY <1>13, <1>16, <1>19
  <2>3. Coming(x, e) <=> Coming(w, e)
    <3>1. ASSUME NEW k \in QueueOf(w, e), w.queue[k].first = w.queue[k].last PROVE Coming(x, e)
      <4>1. k # 1
        BY <1>9, <1>19 DEF QueueOf, p, d
      <4>2. k - 1 \in Nat /\ k - 1 # 0 /\ (k - 1) + 1 = k
        BY <1>9, <4>1 DEF QueueOf
      <4>3. k - 1 \in QueueOf(x, e)
        BY <1>17, <4>2
      <4>4. x.queue[k - 1] = w.queue[k]
        BY <1>18, <4>2, <4>3
      <4> QED BY <3>1, <4>3, <4>4 DEF Coming
    <3>2. ASSUME NEW k \in QueueOf(x, e), x.queue[k].first = x.queue[k].last PROVE Coming(w, e)
      BY <1>17, <1>18, <3>2 DEF Coming
    <3> QED BY <3>1, <3>2 DEF Coming
  <2>4. ASSUME NEW k \in QueueOf(x, e) PROVE QueuedIs(x, x.queue[k])
    <3>1. k + 1 \in QueueOf(w, e) /\ x.queue[k] = w.queue[k + 1] /\ w.queue[k + 1].domain = e
      BY <1>17, <1>18 DEF QueueOf
    <3>2. QueuedIs(w, w.queue[k + 1])
      BY <2>1, <3>1 DEF BooksAt
    <3> QED BY <1>16, <2>2, <3>1, <3>2 DEF QueuedIs, NewPart, MergedPart, Directory
  <2>5. \A j, k \in QueueOf(x, e) : j < k =>
           x.queue[j].first = x.queue[j].last /\ x.queue[k].first < x.queue[k].last
    <3> SUFFICES ASSUME NEW j \in QueueOf(x, e), NEW k \in QueueOf(x, e), j < k
                 PROVE  x.queue[j].first = x.queue[j].last /\ x.queue[k].first < x.queue[k].last
      OBVIOUS
    <3>1. j + 1 \in QueueOf(w, e) /\ k + 1 \in QueueOf(w, e) /\ j + 1 < k + 1
      BY <1>17, <1>18
    <3>2. /\ w.queue[j + 1].first = w.queue[j + 1].last
          /\ w.queue[k + 1].first < w.queue[k + 1].last
      BY <2>1, <3>1 DEF BooksAt
    <3> QED BY <1>18, <3>2
  <2>6. MonthIs(x, e)
    BY <1>16, <2>1 DEF BooksAt, MonthIs
  <2> QED BY <1>16, <2>1, <2>2, <2>3, <2>4, <2>5, <2>6 DEF BooksAt
<1>20. BooksAt(x, d, i)
  <2>1. BooksAt(w, d, i)
    BY <1>1, <1>4 DEF CarriedAt
  <2>2. x.parts[d] = parts2
    BY <1>13, <1>16
  <2>3. ASSUME NEW k \in QueueOf(x, d)
        PROVE  /\ p.first = p.last /\ x.queue[k].first < x.queue[k].last /\ k + 1 \in QueueOf(w, d)
               /\ x.queue[k] = w.queue[k + 1] /\ x.queue[k].domain = d
    <3>1. k + 1 \in QueueOf(w, d) /\ x.queue[k] = w.queue[k + 1] /\ k + 1 # 1
      BY <1>4, <1>17, <1>18
    <3> QED BY <1>4, <3>1 DEF QueueOf
  <2>4. \A k \in QueueOf(x, d) : x.queue[k].first \in Nat /\ x.queue[k].last \in Nat
    <3> SUFFICES ASSUME NEW k \in QueueOf(x, d)
                 PROVE  x.queue[k].first \in Nat /\ x.queue[k].last \in Nat
      OBVIOUS
    <3>1. x.queue[k] \in Publications
      BY <1>9, <1>16 DEF QueueOf
    <3> QED BY <3>1 DEF Publications
  <2>5. ~ Coming(x, d)
    BY <2>3, <2>4 DEF Coming
  <2>6. w.months[d].first \in Nat
    BY <1>1, <1>4 DEF Months
  <2>7. Singles(x.parts[d], w.months[d].first)
    <3> SUFFICES ASSUME NEW q \in parts2, w.months[d].first <= q.last PROVE q.first = q.last
      BY <2>2 DEF Singles
    <3>1. CASE q \in w.parts[d]
      BY <2>1, <3>1 DEF BooksAt, Singles
    <3>2. CASE q = part
      BY <1>4, <1>5, <2>6, <3>2 DEF part
    <3> QED BY <1>11, <3>1, <3>2
  <2>8. Contents(x.parts[d], d, f)
    <3> SUFFICES ASSUME NEW q \in parts2
                 PROVE  Enumerates(q.rows, Batch(d, f, q.first, q.last), ReadOrder(d, f))
      BY <2>2 DEF Contents
    <3>1. CASE q \in w.parts[d]
      BY <2>1, <3>1 DEF BooksAt, Contents
    <3>2. CASE q = part
      BY <1>6, <3>2 DEF part
    <3> QED BY <1>11, <3>1, <3>2
  <2>9. ASSUME NEW k \in QueueOf(x, d) PROVE QueuedIs(x, x.queue[k])
    <3>1. QueuedIs(w, x.queue[k])
      BY <2>1, <2>3 DEF BooksAt
    <3>2. MergedPart(w, x.queue[k])
      BY <2>3, <2>4, <3>1 DEF QueuedIs, NewPart
    <3>3. Singles(x.parts[d], x.queue[k].first)
      <4> SUFFICES ASSUME NEW q \in parts2, x.queue[k].first <= q.last PROVE q.first = q.last
        BY <2>2 DEF Singles
      <4>1. CASE q \in w.parts[d]
        BY <2>3, <3>2, <4>1 DEF MergedPart, Singles
      <4>2. CASE q = part
        BY <2>3, <4>2 DEF part
      <4> QED BY <1>11, <4>1, <4>2
    <3>4. MergedPart(x, x.queue[k])
      BY <1>16, <2>3, <3>2, <3>3 DEF MergedPart
    <3> QED BY <1>16, <3>1, <3>4 DEF QueuedIs, Directory
  <2>10. ASSUME NEW j \in QueueOf(x, d), NEW k \in QueueOf(x, d), j < k PROVE FALSE
    <3>1. j + 1 \in QueueOf(w, d) /\ k + 1 \in QueueOf(w, d) /\ j + 1 < k + 1
      BY <1>4, <1>18, <2>3, <2>10
    <3>2. w.queue[j + 1].first = w.queue[j + 1].last
      BY <2>1, <3>1 DEF BooksAt
    <3> QED BY <2>3, <2>4, <3>2
  <2>11. MonthIs(x, d)
    BY <1>16, <2>1 DEF BooksAt, MonthIs
  <2>12. Tiles(x.parts[d], Base(d), x.seq[d] - IF Coming(x, d) THEN 2 ELSE 1)
    BY <1>8, <1>16, <2>2, <2>5
  <2> QED BY <1>16, <2>1, <2>7, <2>8, <2>9, <2>10, <2>11, <2>12 DEF BooksAt
<1>21. \A e \in Domains : SameCursors(w, x, e)
  BY <1>16 DEF SameCursors
<1>22. \A e \in Domains : CursorsAt(x, e, At(f, i))
  BY <1>1, <1>21, SameCursorsIs DEF CarriedAt
<1>23. GateIs(x) /\ Pending(x) \subseteq DOMAIN lake
  BY <1>1, <1>16 DEF CarriedAt, Pending, GateIs, Quiet
<1>24. CarriedAt(x, i)
  BY <1>15, <1>16, <1>19, <1>20, <1>22, <1>23 DEF CarriedAt
<1>25. ViewIs(x) /\ SameLevel(w, x)
  BY <1>1, <1>16, <1>24 DEF ViewIs, SameLevel, Level, SlotsAt, LoadedAt
<1> QED BY <1>25 DEF x, p

-----------------------------------------------------------------------------
(* What a decision is shown.                                                *)

LEMMA ShownIs ==
    ASSUME LakeOK, NEW w \in ViewStates, NEW i \in w.from .. Len(Decisions), w.queue = <<>>,
           NEW d \in Domains, BooksAt(w, d, i)
    PROVE  Enumerates(Reading(w.parts[d]), Known(d, At(w.from, i)), ReadOrder(d, w.from))
<1> DEFINE f == w.from
<1> DEFINE a == Base(d)
<1> DEFINE b == w.seq[d] - 1
<1> DEFINE parts == w.parts[d]
<1>1. f \in Openings /\ i + 1 \in f .. Len(Decisions) + 1 /\ i \in f - 1 .. Len(Decisions)
  BY AtIs DEF ViewStates
<1>2. ~ Coming(w, d)
  BY DEF Coming, QueueOf
<1>3. Tiles(parts, a, b) /\ Contents(parts, d, f) /\ w.seq[d] = Number(d, f, i + 1)
  BY <1>2 DEF BooksAt
<1>4. a \in Nat /\ b \in Int /\ a <= b + 1 /\ b = Number(d, f, i + 1) - 1
  <2>1. a \in {0, 1}
    BY BaseIs
  <2>2. Number(d, f, i + 1) \in Nat /\ a <= Number(d, f, i + 1)
    BY <1>1, NumberIs
  <2> QED BY <1>3, <2>1, <2>2
<1>5. Batch(d, f, a, b) = Known(d, At(f, i))
  BY <1>1, <1>4, BatchIs
<1> HIDE DEF a, b, parts
<1>6. Enumerates(Reading(parts), Batch(d, f, a, b), ReadOrder(d, f))
  BY <1>1, <1>3, <1>4, ReadingIs
<1> QED BY <1>5, <1>6 DEF parts

\* What a view last showed, and what its version says of it since.
ServedIs(w, s) ==
    /\ s.at = At(w.from, w.next - 1)
    /\ s.universe \in Slots /\ \A k \in Slots : k <= s.universe <=> k = 1 \/ Anchors[k] < s.at
    /\ s.rows = [d \in Domains |-> s.rows[d]]
    /\ \A d \in Domains : Enumerates(s.rows[d], Known(d, s.at), ReadOrder(d, w.from))
    /\ s.version \in Nat /\ s.version <= w.version
    /\ s.version = w.version <=>
          s.universe = w.universe /\ \A d \in Domains : Known(d, At(w.from, Level(w))) = Known(d, s.at)

\* A view that waits for its next decision stands where it last served.
LEMMA IdleVersion ==
    ASSUME NEW w, NEW s, ViewIs(w), ServedIs(w, s), w.phase = "idle"
    PROVE  s.version = w.version /\ s.universe = w.universe
<1>1. Level(w) = w.next - 1
  BY DEF Level
<1>2. \A k \in Slots : k <= s.universe <=> k <= w.slots
  BY <1>1 DEF ServedIs, ViewIs, SlotsAt
<1>3. s.universe \in Slots /\ w.slots \in Slots /\ w.universe = w.slots
  BY DEF ServedIs, ViewIs, SlotsAt, CarriedAt, ViewStates
<1>4. s.universe \in Nat /\ w.slots \in Nat
  BY <1>3, SlotsAre
<1>5. s.universe <= w.slots /\ w.slots <= s.universe
  BY <1>2, <1>3, <1>4
<1>6. s.universe = w.universe
  BY <1>3, <1>4, <1>5
<1> QED BY <1>1, <1>6 DEF ServedIs

LEMMA ServedRefreshed ==
    ASSUME LakeOK, NEW w, NEW s, NEW x, ViewIs(w), w.phase = "idle", w.next <= Len(Decisions),
           ServedIs(w, s), Prepared(w, x)
    PROVE  ServedIs(x, s)
<1> DEFINE f == w.from
<1> DEFINE i == w.next
<1>1. /\ w \in ViewStates /\ f \in Openings /\ i \in Nat /\ f <= i /\ w.version \in Nat
      /\ f \in Nat /\ Len(Decisions) \in Nat
  BY AtIs DEF ViewIs, CarriedAt, ViewStates
<1>2. i \in f - 1 .. Len(Decisions) /\ i - 1 \in f - 1 .. Len(Decisions) /\ i - 1 < i
  BY <1>1
<1>3. At(f, i) \in Nat /\ At(f, i - 1) \in Nat /\ At(f, i - 1) < At(f, i)
  BY <1>1, <1>2, AtIs
<1>4. s.version = w.version /\ s.universe = w.universe
  BY IdleVersion
<1>5. /\ x.from = f /\ x.next = i /\ Level(x) = i /\ x.version >= w.version
      /\ x.version = w.version <=> x.universe = w.universe /\ \A d \in Domains : Grown(d, f, i) = {}
  BY DEF Prepared, Level
<1>6. x.version \in Nat
  BY DEF Prepared, ViewIs, CarriedAt, ViewStates
<1>7. s.at = At(f, i - 1)
  BY DEF ServedIs
<1>8. ASSUME NEW d \in Domains
      PROVE  Grown(d, f, i) = {} <=> Known(d, At(f, i)) = Known(d, s.at)
  <2>1. Known(d, At(f, i - 1)) \subseteq Known(d, At(f, i))
    BY <1>3, KnownGrows
  <2> QED BY <1>7, <2>1 DEF Grown
<1>9. s.version = x.version <=>
         s.universe = x.universe /\ \A d \in Domains : Known(d, At(f, i)) = Known(d, s.at)
  BY <1>4, <1>5, <1>8
<1> QED BY <1>1, <1>4, <1>5, <1>6, <1>9 DEF ServedIs

LEMMA ServedPublished ==
    ASSUME NEW w, NEW s, NEW x, ServedIs(w, s), SameLevel(w, x)
    PROVE  ServedIs(x, s)
  BY DEF ServedIs, SameLevel, Level

\* The view after a decision was served from it.
Rested(w) == [w EXCEPT !.phase = "idle", !.next = @ + 1]

Answer(w) == [at |-> Instant(w), rows |-> Shown(w), version |-> w.version, universe |-> w.universe]

LEMMA ServeIs ==
    ASSUME LakeOK, NEW w, ViewIs(w), w.phase = "rolling", w.queue = <<>>
    PROVE  ViewIs(Rested(w)) /\ ServedIs(Rested(w), Answer(w))
<1> DEFINE f == w.from
<1> DEFINE i == w.next
<1> DEFINE x == Rested(w)
<1> DEFINE s == Answer(w)
<1>1. /\ w \in ViewStates /\ f \in Openings /\ i \in Nat /\ f <= i /\ i <= Len(Decisions)
      /\ f \in Nat /\ Len(Decisions) \in Nat /\ w.version \in Nat /\ w.universe \in Slots
      /\ CarriedAt(w, i) /\ SlotsAt(w, At(f, i)) /\ LoadedAt(w, At(f, i))
  BY AtIs DEF ViewIs, Level, CarriedAt, ViewStates
<1>2. i \in f .. Len(Decisions) /\ (i + 1) - 1 = i
  BY <1>1
<1>3. x \in ViewStates
  <2> DEFINE j == i + 1
  <2>1. j \in Nat
    BY <1>1
  <2>2. x = [[w EXCEPT !.phase = "idle"] EXCEPT !.next = j]
    BY <1>1 DEF Rested, ViewStates
  <2> HIDE DEF j, x
  <2> QED BY <1>1, <2>1, <2>2 DEF ViewStates
<1>4. /\ x.from = w.from /\ x.next = i + 1 /\ x.phase = "idle" /\ x.slots = w.slots
      /\ x.segments = w.segments /\ x.waiting = w.waiting /\ x.held = w.held
      /\ x.loaded = w.loaded /\ x.signature = w.signature /\ x.seq = w.seq
      /\ x.months = w.months /\ x.parts = w.parts /\ x.version = w.version
      /\ x.universe = w.universe /\ x.queue = w.queue /\ x.ready = w.ready /\ x.boundary = w.boundary
  BY <1>1 DEF ViewStates, Rested
<1> HIDE DEF x
<1>5. \A d \in Domains : SameCursors(w, x, d) /\ SameBooks(w, x, d)
  BY <1>4 DEF SameCursors, SameBooks, QueueOf
<1>6. \A d \in Domains : CursorsAt(x, d, At(f, i)) /\ BooksAt(x, d, i)
  BY <1>1, <1>5, SameCursorsIs, SameBooksIs DEF CarriedAt
<1>7. GateIs(x) /\ Pending(x) \subseteq DOMAIN lake
  BY <1>1, <1>4 DEF CarriedAt, Pending, GateIs, Quiet
<1>8. CarriedAt(x, i)
  BY <1>3, <1>4, <1>6, <1>7 DEF CarriedAt
<1>9. Level(x) = i /\ Level(w) = i
  BY <1>2, <1>4 DEF Level
<1>10. ViewIs(x)
  BY <1>1, <1>4, <1>8, <1>9 DEF ViewIs, SlotsAt, LoadedAt
<1>11. s.at = At(f, i) /\ s.rows = Shown(w) /\ s.version = w.version /\ s.universe = w.universe
  <2>1. ~ (i < f)
    BY <1>1
  <2> QED BY <2>1 DEF Answer, At, Instant
<1> HIDE DEF s
<1>12. \A d \in Domains : s.rows[d] = Reading(w.parts[d])
  BY <1>11 DEF Shown
<1>13. s.rows = [d \in Domains |-> s.rows[d]]
  BY <1>11 DEF Shown
<1>14. \A d \in Domains : Enumerates(s.rows[d], Known(d, s.at), ReadOrder(d, f))
  BY <1>1, <1>2, <1>11, <1>12, ShownIs DEF CarriedAt
<1>15. \A k \in Slots : k <= s.universe <=> k = 1 \/ Anchors[k] < s.at
  BY <1>1, <1>11 DEF SlotsAt
<1>16. s.version <= w.version
  BY <1>1, <1>11
<1>17. ServedIs(x, s)
  BY <1>1, <1>2, <1>4, <1>9, <1>11, <1>13, <1>14, <1>15, <1>16 DEF ServedIs
<1> QED BY <1>10, <1>17 DEF x, s

\* The rows a view has shown come before those it shows later.
LEMMA ServedGrows ==
    ASSUME LakeOK, NEW w, NEW s, ViewIs(w), ServedIs(w, s), w.phase = "rolling", w.queue = <<>>
    PROVE  /\ \A d \in Domains : IsPrefix(s.rows[d], Answer(w).rows[d])
           /\ Answer(w).version >= s.version
           /\ Answer(w).version = s.version <=>
                 Answer(w).rows = s.rows /\ Answer(w).universe = s.universe
<1> DEFINE f == w.from
<1> DEFINE i == w.next
<1> DEFINE e == Answer(w)
<1>1. /\ w \in ViewStates /\ f \in Openings /\ i \in Nat /\ f <= i /\ i <= Len(Decisions)
      /\ f \in Nat /\ Len(Decisions) \in Nat /\ w.version \in Nat
  BY AtIs DEF ViewIs, Level, CarriedAt, ViewStates
<1>2. /\ i - 1 \in f - 1 .. Len(Decisions) /\ i \in f - 1 .. Len(Decisions) /\ i - 1 < i
      /\ i \in f .. Len(Decisions)
  BY <1>1
<1>3. At(f, i) \in Nat /\ At(f, i - 1) \in Nat /\ At(f, i - 1) < At(f, i)
  BY <1>1, <1>2, AtIs
<1>4. ServedIs(Rested(w), e)
  BY ServeIs
<1>5. /\ e.at = At(f, i) /\ e.version = w.version /\ e.universe = w.universe
      /\ e.rows = [d \in Domains |-> e.rows[d]]
      /\ \A d \in Domains : Enumerates(e.rows[d], Known(d, e.at), ReadOrder(d, f))
  <2>1. Rested(w).from = f /\ Rested(w).next = i + 1 /\ (i + 1) - 1 = i
    BY <1>1 DEF Rested, ViewStates
  <2>2. e.version = w.version /\ e.universe = w.universe
    BY DEF Answer
  <2> HIDE DEF e
  <2> QED BY <1>4, <2>1, <2>2 DEF ServedIs
<1>6. /\ s.at = At(f, i - 1) /\ s.rows = [d \in Domains |-> s.rows[d]]
      /\ \A d \in Domains : Enumerates(s.rows[d], Known(d, s.at), ReadOrder(d, f))
      /\ s.version \in Nat /\ s.version <= w.version
      /\ s.version = w.version <=>
            s.universe = w.universe /\ \A d \in Domains : Known(d, e.at) = Known(d, s.at)
  <2>1. Level(w) = i
    BY DEF Level
  <2> HIDE DEF e
  <2> QED BY <1>5, <2>1 DEF ServedIs
<1> HIDE DEF e
<1>7. ASSUME NEW d \in Domains
      PROVE  /\ IsPrefix(s.rows[d], e.rows[d])
             /\ e.rows[d] = s.rows[d] <=> Known(d, e.at) = Known(d, s.at)
  <2> DEFINE R == Known(d, s.at)
  <2> DEFINE S == Known(d, e.at)
  <2> DEFINE q == s.rows[d]
  <2> DEFINE r == e.rows[d]
  <2> DEFINE before == ReadOrder(d, f)
  <2>1. R \subseteq S /\ S \subseteq DOMAIN lake
    BY <1>3, <1>5, <1>6, KnownGrows DEF Known, Rows
  <2>2. IsFiniteSet(S) /\ IsFiniteSet(R)
    BY <2>1, RowIs, FS_Subset
  <2>3. Orders(before, S) /\ Orders(before, R)
    BY <1>1, <1>2, <1>5, <1>6, ReadOrderIs
  <2>4. Enumerates(q, R, before) /\ Enumerates(r, S, before)
    BY <1>5, <1>6
  <2>5. ASSUME NEW x \in R, NEW y \in S \ R PROVE <<x, y>> \in before
    <3>1. PICK j \in f .. i - 1 : x \in Grown(d, f, j)
      <4>1. x \in Known(d, At(f, i - 1))
        BY <1>6
      <4> QED BY <1>1, <1>2, <4>1, KnownIs
    <3>2. y \in Grown(d, f, i)
      BY <1>5, <1>6 DEF Grown
    <3>3. j \in f .. Len(Decisions) /\ j < i
      BY <1>1, <1>2
    <3> QED BY <1>1, <1>2, <3>1, <3>2, <3>3, ReadOrderIs
  <2> HIDE DEF R, S, q, r, before
  <2>6. /\ Cardinality(R) \in Nat /\ Cardinality(S) \in Nat /\ Cardinality(R) <= Cardinality(S)
        /\ \A k \in 1 .. Cardinality(R) : q[k] = r[k]
    BY <2>1, <2>2, <2>3, <2>4, <2>5, PrefixIs
  <2>7. /\ q \in Seq(R) /\ Len(q) = Cardinality(R) /\ Range(q) = R
        /\ r \in Seq(S) /\ Len(r) = Cardinality(S) /\ Range(r) = S
    BY <2>2, <2>4, EnumerationIs
  <2>8. IsPrefix(q, r)
    <3>1. SubSeq(q, 1, Len(q)) = SubSeq(r, 1, Len(q))
      BY <2>6, <2>7
    <3> QED BY <2>6, <2>7, <3>1 DEF IsPrefix
  <2>9. r = q <=> S = R
    <3>1. S = R => r = q
      BY <2>2, <2>3, <2>4, EnumerationIsUnique
    <3> QED BY <2>7, <3>1
  <2> QED BY <2>8, <2>9 DEF R, S, q, r
<1>8. e.rows = s.rows <=> \A d \in Domains : e.rows[d] = s.rows[d]
  BY <1>5, <1>6
<1>9. e.version >= s.version
  BY <1>1, <1>5, <1>6
<1>10. e.version = s.version <=> e.rows = s.rows /\ e.universe = s.universe
  BY <1>5, <1>6, <1>7, <1>8
<1> QED BY <1>7, <1>9, <1>10 DEF e

\* What was shown is what its instant may know.
LEMMA ServedExact ==
    ASSUME LakeOK, NEW w, NEW s, ViewIs(w), ServedIs(w, s)
    PROVE  /\ \A d \in Domains : /\ Range(s.rows[d]) = Known(d, s.at)
                                 /\ Len(s.rows[d]) = Cardinality(Known(d, s.at))
           /\ s.universe = Max({1} \cup {k \in Slots : Anchors[k] < s.at})
<1>1. ASSUME NEW d \in Domains
      PROVE  Range(s.rows[d]) = Known(d, s.at) /\ Len(s.rows[d]) = Cardinality(Known(d, s.at))
  <2>1. IsFiniteSet(Known(d, s.at))
    BY RowIs, FS_Subset DEF Known, Rows
  <2>2. Enumerates(s.rows[d], Known(d, s.at), ReadOrder(d, w.from))
    BY DEF ServedIs
  <2> QED BY <2>1, <2>2, EnumerationIs
<1> DEFINE T == {1} \cup {k \in Slots : Anchors[k] < s.at}
<1>2. T \subseteq Nat /\ T # {} /\ T \subseteq Slots
  BY SlotsAre
<1>3. \A k \in Slots : k \in T <=> k <= s.universe
  BY SlotsAre DEF ServedIs
<1>4. s.universe \in Slots /\ s.universe \in Nat
  BY SlotsAre DEF ServedIs
<1> HIDE DEF T
<1>5. \A k \in T : k <= s.universe
  BY <1>2, <1>3
<1>6. Max(T) \in T /\ \A k \in T : k <= Max(T)
  BY <1>2, <1>4, <1>5, MaxIs
<1>7. s.universe \in T
  BY <1>3, <1>4
<1>8. s.universe = Max(T)
  <2>1. Max(T) \in Nat /\ Max(T) <= s.universe /\ s.universe <= Max(T)
    BY <1>2, <1>5, <1>6, <1>7
  <2> QED BY <1>4, <2>1
<1> QED BY <1>1, <1>8 DEF T

-----------------------------------------------------------------------------
(* A step leaves the lake alone, and with it what is said of a view.        *)

LEMMA FixedReading ==
    ASSUME lake' = lake
    PROVE  /\ \A d, f, a, b : Batch(d, f, a, b)' = Batch(d, f, a, b)
           /\ \A d, f : ReadOrder(d, f)' = ReadOrder(d, f)
           /\ \A d, f, i : Number(d, f, i)' = Number(d, f, i)
<1>1. \A d, f, i : Grown(d, f, i)' = Grown(d, f, i)
  BY FixedRows DEF Grown
<1>2. \A S : FileOrder(S)' = FileOrder(S)
  BY FixedRows DEF FileOrder
<1>3. \A d, f, i : Number(d, f, i)' = Number(d, f, i)
  BY <1>1 DEF Number
<1>4. \A d, f, a, b : Batch(d, f, a, b)' = Batch(d, f, a, b)
  BY <1>1, <1>3 DEF Batch
<1>5. \A d, f : ReadOrder(d, f)' = ReadOrder(d, f)
  BY <1>1, <1>2, FixedRows DEF ReadOrder
<1> QED BY <1>3, <1>4, <1>5

LEMMA FixedCursors ==
    ASSUME lake' = lake, NEW w
    PROVE  /\ \A d, t : CursorsAt(w, d, t)' <=> CursorsAt(w, d, t)
           /\ GateIs(w)' <=> GateIs(w)
<1>1. \A r, t : Landed(r, t)' <=> Landed(r, t)
  BY DEF Landed
<1>2. \A d : Opened(w, d)' = Opened(w, d) /\ Live(w, d)' = Live(w, d)
  <2>1. \A d : Opened(w, d)' = Opened(w, d)
    BY FixedRows DEF Opened
  <2>2. ASSUME NEW d PROVE Live(w, d)' = Live(w, d)
    <3>1. CASE d \in Minutes
      BY <3>1, FixedRows DEF Live
    <3>2. CASE d \notin Minutes
      BY <3>2, FixedRows DEF Live
    <3> QED BY <3>1, <3>2
  <2> QED BY <2>1, <2>2
<1>3. \A d, t : Signature(w, d, t)' = Signature(w, d, t)
  BY <1>2 DEF Signature
<1>4. \A d, t : Settled(w, d, t)' <=> Settled(w, d, t)
  BY <1>1, FixedRows DEF Settled
<1>5. \A d, t : Signed(w, d, t)' <=> Signed(w, d, t)
  BY <1>3, <1>4 DEF Signed
<1>6. \A d, t : Waits(w, d, t)' <=> Waits(w, d, t)
  BY <1>2, FixedRows DEF Waits
<1>7. \A d, t : HeldLanded(w, d, t)' <=> HeldLanded(w, d, t)
  BY <1>1, FixedRows DEF HeldLanded
<1>8. \A d : KeptInView(w, d)' <=> KeptInView(w, d)
  BY <1>2, FixedRows DEF KeptInView
<1>9. \A d, t : CursorsAt(w, d, t)' <=> CursorsAt(w, d, t)
  BY <1>5, <1>6, <1>7, <1>8 DEF CursorsAt
<1>10. \A x : Quiet(w, x)' <=> Quiet(w, x)
  BY <1>1 DEF Quiet
<1>11. GateIs(w)' <=> GateIs(w)
  BY <1>10 DEF GateIs
<1> QED BY <1>9, <1>11

LEMMA FixedBooks ==
    ASSUME lake' = lake, NEW w
    PROVE  \A d, i : BooksAt(w, d, i)' <=> BooksAt(w, d, i)
<1>1. \A d : MonthIs(w, d)' <=> MonthIs(w, d)
  BY FixedReading DEF MonthIs
<1>2. \A p : NewPart(w, p)' <=> NewPart(w, p)
  BY FixedReading DEF NewPart
<1>3. \A p : QueuedIs(w, p)' <=> QueuedIs(w, p)
  BY <1>2, FixedReading DEF QueuedIs
<1>4. \A parts, d, f : Contents(parts, d, f)' <=> Contents(parts, d, f)
  BY FixedReading DEF Contents
<1> QED BY <1>1, <1>3, <1>4, FixedReading DEF BooksAt

LEMMA FixedView ==
    ASSUME lake' = lake, NEW w
    PROVE  /\ ViewIs(w)' <=> ViewIs(w)
           /\ \A s : ServedIs(w, s)' <=> ServedIs(w, s)
<1>1. \A i : CarriedAt(w, i)' <=> CarriedAt(w, i)
  BY FixedCursors, FixedBooks DEF CarriedAt
<1>2. \A t : LoadedAt(w, t)' <=> LoadedAt(w, t)
  BY DEF LoadedAt
<1>3. ViewIs(w)' <=> ViewIs(w)
  BY <1>1, <1>2 DEF ViewIs
<1>4. \A s : ServedIs(w, s)' <=> ServedIs(w, s)
  BY FixedRows, FixedReading DEF ServedIs
<1> QED BY <1>3, <1>4

-----------------------------------------------------------------------------
(* The start.                                                               *)

LEMMA NewViewIs ==
    ASSUME LakeOK, NEW f \in Openings
    PROVE  ViewIs(NewView(f)) /\ ServedIs(NewView(f), NothingYet)
<1> DEFINE w == NewView(f)
<1> DEFINE first == UNION {SlotRows(d, 1) : d \in Domains \ Minutes}
<1>1. /\ f \in Nat /\ Len(Decisions) \in Nat /\ f \in 1 .. Len(Decisions) /\ At(f, f - 1) = 0
      /\ 1 \in Slots /\ \A k \in Slots : k \in Nat /\ k >= 1 /\ Anchors[k] \in Nat
  BY AtIs, SlotsAre DEF Openings, Slots
<1>2. /\ w.from = f /\ w.next = f /\ w.phase = "idle" /\ w.slots = 1
      /\ w.segments = [d \in Domains |-> Opening(d)] /\ w.waiting = first /\ w.held = {}
      /\ w.loaded = {} /\ w.signature = [d \in Domains |-> NoSignature] /\ w.ready = FALSE
      /\ w.seq = [d \in Domains |-> IF d \in Frozen THEN 1 ELSE 0]
      /\ w.months = [d \in Domains |-> [month |-> 0, first |-> 0, last |-> 0, rows |-> 0]]
      /\ w.parts = [d \in Domains |-> {}] /\ w.version = 0 /\ w.universe = 1 /\ w.queue = <<>>
  BY DEF NewView
<1>3. first \subseteq DOMAIN lake /\ first \subseteq Nat
  BY RowIs DEF SlotRows, Rows
<1>4. w \in ViewStates
  <2>1. [d \in Domains |-> Opening(d)] \in [Domains -> SUBSET Slots]
    BY <1>1 DEF Opening
  <2>2. [d \in Domains |-> NoSignature] \in [Domains -> SUBSET Tokens]
    BY DEF NoSignature, Tokens
  <2>3. [d \in Domains |-> IF d \in Frozen THEN 1 ELSE 0] \in [Domains -> Nat]
    OBVIOUS
  <2>4. [d \in Domains |-> [month |-> 0, first |-> 0, last |-> 0, rows |-> 0]] \in [Domains -> Months]
    BY DEF Months
  <2>5. [d \in Domains |-> {}] \in [Domains -> SUBSET Parts]
    OBVIOUS
  <2>6. <<>> \in Seq(Publications) /\ None \in Int
    BY DEF None
  <2> DEFINE s1 == [d \in Domains |-> Opening(d)]
             s2 == [d \in Domains |-> NoSignature]
             s3 == [d \in Domains |-> IF d \in Frozen THEN 1 ELSE 0]
             s4 == [d \in Domains |-> [month |-> 0, first |-> 0, last |-> 0, rows |-> 0]]
             s5 == [d \in Domains |-> {}]
  <2>7. w = [from |-> f, next |-> f, phase |-> "idle", slots |-> 1, segments |-> s1,
             waiting |-> first, held |-> {}, loaded |-> {}, signature |-> s2,
             ready |-> FALSE, boundary |-> None, seq |-> s3, months |-> s4, parts |-> s5,
             version |-> 0, universe |-> 1, queue |-> <<>>]
    BY DEF NewView
  <2>8. /\ s1 \in [Domains -> SUBSET Slots] /\ s2 \in [Domains -> SUBSET Tokens]
        /\ s3 \in [Domains -> Nat] /\ s4 \in [Domains -> Months] /\ s5 \in [Domains -> SUBSET Parts]
        /\ first \in SUBSET Nat
    BY <1>3, <2>1, <2>2, <2>3, <2>4, <2>5
  <2> HIDE DEF w, first, s1, s2, s3, s4, s5
  <2> QED BY <1>1, <2>6, <2>7, <2>8 DEF ViewStates
<1> HIDE DEF w
<1>5. Pending(w) = first /\ Pending(w) \subseteq DOMAIN lake /\ GateIs(w)
  BY <1>2, <1>3 DEF Pending, GateIs
<1>6. ASSUME NEW d \in Domains PROVE CursorsAt(w, d, 0)
  <2>1. Known(d, 0) = {}
    BY KnownGrows
  <2>2. \A e : SlotRows(e, 1) = {r \in Rows(e) : SlotOf(r) = 1}
    BY DEF SlotRows
  <2>3. \A r \in Rows(d) : SlotOf(r) \in Nat /\ SlotOf(r) >= 1
    BY <1>1, SlotOfIs DEF Rows
  <2>4. Rows(d) \cap first = IF d \in Minutes THEN {} ELSE SlotRows(d, 1)
    <3>1. \A r \in Rows(d) : \A e : r \in Rows(e) => e = d
      BY DEF Rows
    <3> QED BY <2>2, <3>1
  <2>5. Opened(w, d) = IF d \in Minutes THEN {} ELSE SlotRows(d, 1)
    BY <1>2, <2>2, <2>3 DEF Opened
  <2>6. d \notin Minutes => Live(w, d) = SlotRows(d, 1)
    <3> SUFFICES ASSUME d \notin Minutes PROVE Live(w, d) = SlotRows(d, 1)
      OBVIOUS
    <3>1. Live(w, d) = UNION {SlotRows(d, k) : k \in Opening(d)}
      BY <1>2 DEF Live
    <3>2. CASE SlotRows(d, 1) = {}
      BY <3>1, <3>2 DEF Opening
    <3>3. CASE SlotRows(d, 1) # {}
      BY <3>1, <3>3 DEF Opening
    <3> QED BY <3>2, <3>3
  <2>7. w.signature[d] = NoSignature
    BY <1>2
  <2> HIDE DEF first
  <2> QED BY <1>2, <1>5, <2>1, <2>4, <2>5, <2>6, <2>7
          DEF CursorsAt, Waits, HeldLanded, KeptInView, Signed
<1>7. ASSUME NEW d \in Domains PROVE BooksAt(w, d, f - 1)
  <2>1. w.seq[d] = Base(d) /\ Base(d) \in {0, 1}
    BY <1>2, BaseIs DEF Base
  <2>2. Number(d, f, (f - 1) + 1) = Base(d)
    <3>1. (f - 1) + 1 = f
      BY <1>1
    <3> QED BY <3>1, NumberIs
  <2>3. QueueOf(w, d) = {} /\ ~ Coming(w, d)
    BY <1>2 DEF QueueOf, Coming
  <2>4. MonthIs(w, d)
    BY <1>2, <2>1 DEF MonthIs
  <2>5. w.parts[d] = {}
    BY <1>2
  <2>6. Tiles({}, Base(d), w.seq[d] - 1)
    <3>1. Base(d) .. w.seq[d] - 1 = {}
      BY <2>1
    <3> QED BY <3>1, FS_EmptySet DEF Tiles
  <2> QED BY <1>2, <2>1, <2>2, <2>3, <2>4, <2>5, <2>6 DEF BooksAt, Singles, Contents
<1>8. CarriedAt(w, f - 1)
  BY <1>1, <1>2, <1>4, <1>5, <1>6, <1>7 DEF CarriedAt
<1>9. SlotsAt(w, 0)
  BY <1>1, <1>2 DEF SlotsAt
<1>10. LoadedAt(w, 0)
  <2>1. ASSUME NEW r \in DOMAIN lake PROVE ~ (lake[r].avail <= Cutoff(lake[r].dataset, 0))
    <3>1. lake[r].dataset \in DOMAIN Refreshes /\ lake[r].avail \in Nat /\ lake[r].avail > 0
      BY RowIs
    <3>2. Cutoff(lake[r].dataset, 0) \in 0 .. 0
      BY <3>1, CutoffIs
    <3> QED BY <3>1, <3>2
  <2> QED BY <1>2, <2>1 DEF LoadedAt
<1>11. Level(w) = f - 1
  BY <1>2 DEF Level
<1>12. ViewIs(w)
  BY <1>1, <1>2, <1>8, <1>9, <1>10, <1>11 DEF ViewIs
<1> DEFINE s == NothingYet
<1>13. /\ s.at = 0 /\ s.rows = [d \in Domains |-> <<>>] /\ s.version = 0 /\ s.universe = 1
  BY DEF NothingYet
<1> HIDE DEF s
<1>14. \A d \in Domains : Enumerates(s.rows[d], Known(d, s.at), ReadOrder(d, f))
  <2>1. \A d : Known(d, 0) = {}
    BY KnownGrows
  <2> QED BY <1>13, <2>1, NothingEnumerated
<1>15. \A k \in Slots : k <= s.universe <=> k = 1 \/ Anchors[k] < s.at
  BY <1>1, <1>13
<1>16. s.rows = [d \in Domains |-> s.rows[d]]
  BY <1>13
<1>17. s.version = w.version /\ s.universe = w.universe /\ s.at = At(f, Level(w)) /\ s.at = At(f, w.next - 1)
  BY <1>1, <1>2, <1>11, <1>13
<1>18. ServedIs(w, s)
  BY <1>1, <1>2, <1>13, <1>14, <1>15, <1>16, <1>17 DEF ServedIs
<1> QED BY <1>12, <1>18 DEF w, s

-----------------------------------------------------------------------------
(* The invariant.                                                           *)

\* A part in the stash holds what its directory and numbers say.
EntryIs(k, rows) ==
    \A f \in Openings, s \in Slots, d \in Domains, a \in Nat, b \in Nat :
        k = <<<<f, s>>, d, a, b>> => Enumerates(rows, Batch(d, f, a, b), ReadOrder(d, f))

Inv ==
    /\ LakeOK
    /\ view = [v \in Views |-> view[v]] /\ served = [v \in Views |-> served[v]]
    /\ \A v \in Views : \A w, s : w = view[v] /\ s = served[v] => ViewIs(w) /\ ServedIs(w, s)
    /\ \A k \in DOMAIN stash : \A rows : rows = stash[k] => EntryIs(k, rows)

LEMMA InitInv == Init => Inv
<1> SUFFICES ASSUME Init PROVE Inv
  OBVIOUS
<1>1. LakeOK
  BY DEF Init, LakeOK
<1>2. PICK from \in [Views -> 1 .. Len(Decisions)] : view = [v \in Views |-> NewView(from[v])]
  BY DEF Init
<1>3. served = [v \in Views |-> NothingYet] /\ stash = <<>>
  BY DEF Init
<1>4. ASSUME NEW v \in Views PROVE ViewIs(NewView(from[v])) /\ ServedIs(NewView(from[v]), NothingYet)
  <2>1. from[v] \in Openings
    BY DEF Openings
  <2> QED BY <1>1, <2>1, NewViewIs
<1>5. DOMAIN stash = {}
  BY <1>3
<1>6. \A v \in Views : view[v] = NewView(from[v]) /\ served[v] = NothingYet
  BY <1>2, <1>3
<1> QED BY <1>1, <1>2, <1>3, <1>4, <1>5, <1>6 DEF Inv

\* A step moves one view.
LEMMA ViewMoves ==
    ASSUME Inv, lake' = lake, NEW v \in Views, NEW x, NEW s,
           view' = [view EXCEPT ![v] = x], served' = [served EXCEPT ![v] = s],
           ViewIs(x), ServedIs(x, s),
           \A k \in DOMAIN stash' : \A rows : rows = stash'[k] => EntryIs(k, rows)
    PROVE  Inv'
<1>1. LakeOK'
  BY DEF Inv, LakeOK
<1>2. /\ view = [u \in Views |-> view[u]] /\ served = [u \in Views |-> served[u]]
      /\ \A u \in Views : \A w, e : w = view[u] /\ e = served[u] => ViewIs(w) /\ ServedIs(w, e)
  BY DEF Inv
<1>3. view'[v] = x /\ served'[v] = s /\ DOMAIN view' = Views /\ DOMAIN served' = Views
  BY <1>2
<1>4. \A u \in Views : u # v => view'[u] = view[u] /\ served'[u] = served[u]
  BY <1>2
<1>5. view' = [u \in Views |-> view'[u]] /\ served' = [u \in Views |-> served'[u]]
  BY <1>2
<1>6. ASSUME NEW u \in Views, NEW w, NEW e, w = view'[u], e = served'[u]
      PROVE  ViewIs(w)' /\ ServedIs(w, e)'
  <2>1. ViewIs(w) /\ ServedIs(w, e)
    <3>1. CASE u = v
      BY <1>3, <1>6, <3>1
    <3>2. CASE u # v
      BY <1>2, <1>4, <1>6, <3>2
    <3> QED BY <3>1, <3>2
  <2> QED BY <2>1, FixedView
<1>7. \A k, rows : EntryIs(k, rows)' <=> EntryIs(k, rows)
  BY FixedReading DEF EntryIs
<1> QED BY <1>1, <1>5, <1>6, <1>7 DEF Inv

LEMMA RefreshKeepsInv == ASSUME Inv, NEW v \in Views, Refresh(v) PROVE Inv'
<1>1. PICK w : w = view[v]
  OBVIOUS
<1>2. PICK s : s = served[v]
  OBVIOUS
<1> DEFINE now == Instant(w)
<1>3. PICK x : x = [RollAll(AppendVisible(OpenSlots(w, now), now), now) EXCEPT !.phase = "rolling"]
  OBVIOUS
<1>4. ViewIs(w) /\ ServedIs(w, s) /\ LakeOK /\ served = [u \in Views |-> served[u]]
  BY <1>1, <1>2 DEF Inv
<1>5. w.phase = "idle" /\ w.next <= Len(Decisions) /\ view' = [view EXCEPT ![v] = x]
      /\ lake' = lake /\ stash' = stash /\ served' = served
  BY <1>1, <1>3 DEF Refresh
<1>6. Prepared(w, x)
  BY <1>3, <1>4, <1>5, RefreshIs
<1>7. ViewIs(x) /\ ServedIs(x, s)
  BY <1>4, <1>5, <1>6, ServedRefreshed DEF Prepared
<1>8. served' = [served EXCEPT ![v] = s]
  BY <1>2, <1>4, <1>5
<1>9. \A k \in DOMAIN stash' : \A rows : rows = stash'[k] => EntryIs(k, rows)
  BY <1>5 DEF Inv
<1> QED BY <1>5, <1>7, <1>8, <1>9, ViewMoves

\* The rows a view links are those it would encode, and as many as it counted.
LEMMA FoundIsOwn ==
    ASSUME Inv, NEW v \in Views, NEW w, w = view[v], w.queue # <<>>, w.phase = "rolling",
           NEW rows, IF Key(Head(w.queue)) \in DOMAIN stash THEN rows = stash[Key(Head(w.queue))]
                                                          ELSE rows = Own(w, Head(w.queue))
    PROVE  /\ rows = Own(w, Head(w.queue)) /\ Len(rows) = Head(w.queue).count
           /\ Enumerates(rows, Batch(Head(w.queue).domain, w.from, Head(w.queue).first, Head(w.queue).last),
                         ReadOrder(Head(w.queue).domain, w.from))
           /\ Key(Head(w.queue)) = <<<<w.from, w.slots>>, Head(w.queue).domain,
                                    Head(w.queue).first, Head(w.queue).last>>
           /\ w.from \in Openings
<1> DEFINE p == Head(w.queue)
<1> DEFINE d == p.domain
<1> DEFINE S == Batch(d, w.from, p.first, p.last)
<1> DEFINE before == ReadOrder(d, w.from)
<1>1. LakeOK /\ ViewIs(w)
  BY DEF Inv
<1>2. /\ w \in ViewStates /\ w.from \in Openings /\ w.slots \in Slots /\ w.next \in Nat
      /\ w.from <= w.next /\ w.next <= Len(Decisions) /\ CarriedAt(w, w.next)
  <2>1. Level(w) = w.next
    BY Zenon DEF Level
  <2>2. w.from <= w.next /\ w.next <= Len(Decisions) /\ CarriedAt(w, w.next)
    BY <1>1, <2>1, Zenon DEF ViewIs
  <2>3. w \in ViewStates
    BY <2>2, Zenon DEF CarriedAt
  <2>4. w.from \in Openings /\ w.slots \in Slots /\ w.next \in Nat
    BY <2>3 DEF ViewStates
  <2> QED BY <2>2, <2>3, <2>4, Zenon
<1>3. w.next \in w.from .. Len(Decisions)
  BY <1>2, AtIs
<1>4. HeadIs(w)
  <2>1. \A e \in Domains : BooksAt(w, e, w.next)
    BY <1>2, Zenon DEF CarriedAt
  <2> QED BY <1>1, <1>2, <1>3, <2>1, OwnIs
<1>5. /\ d \in Domains /\ p.first \in Nat /\ p.last \in Nat /\ p.dir = Directory(w)
      /\ p.count = Cardinality(S) /\ Enumerates(Own(w, p), S, before)
  <2>1. HeadOf(w, p, d)
    BY <1>4, Zenon DEF HeadIs
  <2> HIDE DEF p, d
  <2> QED BY <2>1, Zenon DEF HeadOf
<1>6. Key(p) = <<<<w.from, w.slots>>, d, p.first, p.last>>
  BY <1>5 DEF Key, Directory
<1>7. Enumerates(rows, S, before)
  <2>1. CASE Key(p) \in DOMAIN stash
    <3>1. EntryIs(Key(p), rows)
      BY <2>1 DEF Inv
    <3> HIDE DEF p, d, S, before
    <3> QED BY <1>2, <1>5, <1>6, <3>1 DEF EntryIs, S, before
  <2>2. CASE Key(p) \notin DOMAIN stash
    BY <1>5, <2>2
  <2> QED BY <2>1, <2>2
<1> HIDE DEF p, d
<1>8. rows = Own(w, p) /\ Len(rows) = p.count
  BY <1>1, <1>2, <1>5, <1>7, OneReading
<1> QED BY <1>2, <1>6, <1>7, <1>8 DEF p, d

LEMMA PublishKeepsInv == ASSUME Inv, NEW v \in Views, Publish(v) PROVE Inv'
<1>1. PICK w : w = view[v]
  OBVIOUS
<1>2. PICK s : s = served[v]
  OBVIOUS
<1> DEFINE p == Head(w.queue)
<1> DEFINE found == Key(p) \in DOMAIN stash
<1>3. PICK rows : rows = IF found THEN stash[Key(p)] ELSE Own(w, p)
  OBVIOUS
<1>4. ViewIs(w) /\ ServedIs(w, s) /\ LakeOK /\ served = [u \in Views |-> served[u]]
  BY <1>1, <1>2 DEF Inv
<1>5. w.phase = "rolling" /\ w.queue # <<>> /\ lake' = lake /\ served' = served
  BY <1>1 DEF Publish
<1> DEFINE d == p.domain
<1> DEFINE S == Batch(d, w.from, p.first, p.last)
<1>6. IF Key(Head(w.queue)) \in DOMAIN stash THEN rows = stash[Key(Head(w.queue))]
                                             ELSE rows = Own(w, Head(w.queue))
  BY <1>3
<1>7. /\ Len(rows) = p.count /\ Enumerates(rows, S, ReadOrder(d, w.from))
      /\ Key(p) = <<<<w.from, w.slots>>, d, p.first, p.last>> /\ w.from \in Openings
  BY <1>1, <1>5, <1>6, FoundIsOwn
<1> DEFINE part == [first |-> p.first, last |-> p.last, rows |-> rows]
<1>8. /\ view' = [view EXCEPT ![v].queue = Tail(@),
                              ![v].parts[d] = (@ \ Covered(@, p)) \cup {part}]
      /\ stash' = [k \in DOMAIN stash \cup {Key(p)} |-> IF k = Key(p) THEN rows ELSE stash[k]]
  <2>1. ~ (found /\ Len(rows) # p.count)
    BY <1>7
  <2> HIDE DEF d, S
  <2> QED BY <1>1, <1>3, <2>1, Zenon DEF Publish, d
<1>9. PICK x : x = Linked(w, p, rows)
  OBVIOUS
<1>10. view' = [view EXCEPT ![v] = x]
  BY <1>1, <1>8, <1>9, Zenon DEF Linked
<1>11. ViewIs(x) /\ SameLevel(w, x)
  BY <1>4, <1>5, <1>7, <1>9, PublishIs
<1>12. ServedIs(x, s)
  BY <1>4, <1>11, ServedPublished
<1>13. served' = [served EXCEPT ![v] = s]
  BY <1>2, <1>4, <1>5
<1>14. EntryIs(Key(p), rows)
  BY <1>7 DEF EntryIs
<1>15. ASSUME NEW k \in DOMAIN stash', NEW q, q = stash'[k] PROVE EntryIs(k, q)
  <2>1. k \in DOMAIN stash \cup {Key(p)} /\ q = IF k = Key(p) THEN rows ELSE stash[k]
    BY <1>8, <1>15
  <2>2. CASE k = Key(p)
    BY <1>14, <2>1, <2>2
  <2>3. CASE k # Key(p)
    BY <2>1, <2>3 DEF Inv
  <2> QED BY <2>2, <2>3
<1> QED BY <1>5, <1>10, <1>11, <1>12, <1>13, <1>15, ViewMoves

LEMMA ServeKeepsInv == ASSUME Inv, NEW v \in Views, Serve(v) PROVE Inv'
<1>1. PICK w : w = view[v]
  OBVIOUS
<1>2. ViewIs(w) /\ LakeOK /\ view = [u \in Views |-> view[u]]
  BY <1>1 DEF Inv
<1>3. w.phase = "rolling" /\ w.queue = <<>> /\ lake' = lake /\ stash' = stash
  BY <1>1 DEF Serve
<1>4. PICK x : x = Rested(w)
  OBVIOUS
<1>5. PICK s : s = Answer(w)
  OBVIOUS
<1>6. ViewIs(x) /\ ServedIs(x, s)
  BY <1>2, <1>3, <1>4, <1>5, ServeIs
<1>7. served' = [served EXCEPT ![v] = s]
  BY <1>1, <1>5 DEF Serve, Answer
<1>8. view' = [view EXCEPT ![v] = x]
  BY <1>1, <1>4 DEF Serve, Rested
<1>9. \A k \in DOMAIN stash' : \A rows : rows = stash'[k] => EntryIs(k, rows)
  BY <1>3 DEF Inv
<1> QED BY <1>3, <1>6, <1>7, <1>8, <1>9, ViewMoves

LEMMA NextInv == Inv /\ [Next]_vars => Inv'
<1> SUFFICES ASSUME Inv, [Next]_vars PROVE Inv'
  OBVIOUS
<1>1. CASE Next
  BY <1>1, RefreshKeepsInv, PublishKeepsInv, ServeKeepsInv DEF Next
<1>2. CASE UNCHANGED vars
  <2>1. lake' = lake /\ view' = view /\ stash' = stash /\ served' = served
    BY <1>2 DEF vars
  <2>2. LakeOK'
    BY <2>1 DEF Inv, LakeOK
  <2>3. \A k, rows : EntryIs(k, rows)' <=> EntryIs(k, rows)
    BY <2>1, FixedReading DEF EntryIs
  <2>4. \A w, s : (ViewIs(w) /\ ServedIs(w, s)) => (ViewIs(w)' /\ ServedIs(w, s)')
    BY <2>1, FixedView
  <2> QED BY <2>1, <2>2, <2>3, <2>4 DEF Inv
<1> QED BY <1>1, <1>2

LEMMA InvHolds == Spec => []Inv
<1>1. Init => Inv
  BY InitInv
<1>2. Inv /\ [Next]_vars => Inv'
  BY NextInv
<1> QED BY <1>1, <1>2, PTL DEF Spec

-----------------------------------------------------------------------------
(* The theorems.                                                            *)

\* The point-in-time wall of environment/replay/timeview.py: the rows _release publishes,
\* the months it merges, the slots continue_into opens and drops and the gate
\* that skips a refresh leave a decision exactly the rows its instant may know, each once,
\* and the universe of the latest slot; the part it read may have been encoded by
\* another replay.
THEOREM ViewAlwaysExact == Spec => []ViewIsExact
<1>1. Inv => ViewIsExact
  <2> SUFFICES ASSUME Inv, NEW v \in Views
               PROVE  /\ \A d \in Domains :
                           /\ Range(served[v].rows[d]) = Known(d, served[v].at)
                           /\ Len(served[v].rows[d]) = Cardinality(Known(d, served[v].at))
                      /\ served[v].universe = Max({1} \cup {k \in Slots : Anchors[k] < served[v].at})
    BY DEF ViewIsExact
  <2>1. PICK w : w = view[v]
    OBVIOUS
  <2>2. PICK s : s = served[v]
    OBVIOUS
  <2>3. LakeOK /\ ViewIs(w) /\ ServedIs(w, s)
    BY <2>1, <2>2 DEF Inv
  <2>4. /\ \A d \in Domains : /\ Range(s.rows[d]) = Known(d, s.at)
                              /\ Len(s.rows[d]) = Cardinality(Known(d, s.at))
        /\ s.universe = Max({1} \cup {k \in Slots : Anchors[k] < s.at})
    BY <2>3, ServedExact
  <2> QED BY <2>2, <2>4
<1> QED BY <1>1, InvHolds, PTL

\* The stash of pipelines/pit_backend.py: whatever publish_part finds under a part's name
\* is the part the view would have written, and its row count is the one it checks, so no
\* replay is refused; the directory of the opening and the slots names all a part
\* depends on.
THEOREM StashAlwaysAgrees == Spec => []StashAgrees
<1>1. Inv => StashAgrees
  <2> SUFFICES ASSUME Inv, NEW v \in Views
               PROVE  /\ view[v].phase # "refused"
                      /\ view[v].queue # <<>> /\ Key(Head(view[v].queue)) \in DOMAIN stash =>
                            stash[Key(Head(view[v].queue))] = Own(view[v], Head(view[v].queue))
    BY DEF StashAgrees
  <2>1. PICK w : w = view[v]
    OBVIOUS
  <2>2. ViewIs(w) /\ w \in ViewStates
    BY <2>1 DEF Inv, ViewIs, CarriedAt
  <2>3. w.phase # "refused" /\ (w.queue # <<>> => w.phase = "rolling")
    BY <2>2 DEF ViewIs, ViewStates
  <2>4. ASSUME w.queue # <<>>, Key(Head(w.queue)) \in DOMAIN stash
        PROVE  stash[Key(Head(w.queue))] = Own(w, Head(w.queue))
    <3>1. PICK rows : rows = stash[Key(Head(w.queue))]
      OBVIOUS
    <3>2. IF Key(Head(w.queue)) \in DOMAIN stash THEN rows = stash[Key(Head(w.queue))]
                                                 ELSE rows = Own(w, Head(w.queue))
      BY <2>4, <3>1
    <3>3. rows = Own(w, Head(w.queue))
      BY <2>1, <2>3, <2>4, <3>2, FoundIsOwn
    <3> QED BY <3>1, <3>3
  <2> QED BY <2>1, <2>3, <2>4
<1> QED BY <1>1, InvHolds, PTL

\* From one decision to the next (RollingView.version and the parts it lists in
\* environment/replay/timeview.py) a view's rows are continued and never moved, and the
\* version moves exactly when the rows or the universe do.
THEOREM ViewOnlyGrows == Spec => ViewGrows
<1> DEFINE Grows(old, new) ==
              /\ \A d \in Domains : IsPrefix(old.rows[d], new.rows[d])
              /\ new.version >= old.version
              /\ new.version = old.version <=> new.rows = old.rows /\ new.universe = old.universe
<1> DEFINE A == \A v \in Views : served'[v] # served[v] => Grows(served[v], served'[v])
<1>1. Inv /\ [Next]_vars => [A]_vars
  <2> SUFFICES ASSUME Inv, Next, NEW v \in Views, served'[v] # served[v]
               PROVE  Grows(served[v], served'[v])
    OBVIOUS
  <2>1. PICK u \in Views : Refresh(u) \/ Publish(u) \/ Serve(u)
    BY Zenon DEF Next
  <2>2. Serve(u)
    <3>1. Refresh(u) => served' = served
      BY Zenon DEF Refresh
    <3>2. Publish(u) => served' = served
      BY Zenon DEF Publish
    <3> QED BY <2>1, <3>1, <3>2, Zenon
  <2>3. served = [y \in Views |-> served[y]]
    BY DEF Inv
  <2>4. u = v
    BY <2>2, <2>3 DEF Serve
  <2>5. PICK w : w = view[v]
    OBVIOUS
  <2>6. PICK s : s = served[v]
    OBVIOUS
  <2>7. LakeOK /\ ViewIs(w) /\ ServedIs(w, s)
    BY <2>5, <2>6 DEF Inv
  <2>8. w.phase = "rolling" /\ w.queue = <<>>
    BY <2>2, <2>4, <2>5 DEF Serve
  <2>9. served'[v] = Answer(w)
    BY <2>2, <2>3, <2>4, <2>5 DEF Serve, Answer
  <2>10. Grows(s, Answer(w))
    BY <2>7, <2>8, ServedGrows
  <2> QED BY <2>6, <2>9, <2>10
<1>2. Spec => [][A]_vars
  <2> HIDE DEF A
  <2> QED BY <1>1, InvHolds, PTL DEF Spec
<1>3. [][A]_vars => ViewGrows
  BY DEF ViewGrows
<1> QED BY <1>2, <1>3
=============================================================================
