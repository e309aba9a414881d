--------------------------- MODULE PaperBrokerProofs ---------------------------
(***************************************************************************)
(* Lemmas about the account of a Paper book: sums over sequences, filters  *)
(* of sequences, and what opening a day, an order and a correction do to   *)
(* the account and to its lots.                                            *)
(*                                                                         *)
(* The recursive definitions are reasoned about with an induction whose    *)
(* predicate is a set of numbers, which needs no operator parameter.       *)
(***************************************************************************)
EXTENDS PaperBroker, WellFoundedInduction, TLAPS

-----------------------------------------------------------------------------
(* Induction.                                                               *)

\* A set that holds 0 and the successor of each of its numbers holds every number: else
\* the least it lacks would be neither 0 nor a successor.
LEMMA Induction ==
    ASSUME NEW T, 0 \in T, \A n \in Nat : n \in T => n + 1 \in T
    PROVE  Nat \subseteq T
<1> DEFINE R == {p \in Nat \X Nat : p[1] < p[2]}
<1> SUFFICES ASSUME Nat \ T # {} PROVE FALSE
  OBVIOUS
<1>1. IsWellFoundedOn(R, Nat)
  BY NatLessThanWellFounded DEF OpToRel
<1> HIDE DEF R
<1>2. PICK k \in Nat \ T : \A j \in Nat \ T : ~ (<<j, k>> \in R)
  BY <1>1, WFMin
<1>3. \A j \in Nat \ T : ~ (j < k)
  BY <1>2 DEF R
<1>4. k - 1 \in Nat /\ k - 1 \in T
  BY <1>3
<1> QED BY <1>4

-----------------------------------------------------------------------------
(* Sums of sequences of integers.                                           *)

SumOver(f, s) ==
    f = [i \in 0 .. Len(s) |-> IF i = 0 THEN 0 ELSE f[i - 1] + s[i]]

LEMMA SumExists ==
    ASSUME NEW s \in Seq(Int)
    PROVE  \E f : SumOver(f, s)
<1> DEFINE Sums(f, n) == f = [i \in 0 .. n |-> IF i = 0 THEN 0 ELSE f[i - 1] + s[i]]
<1> DEFINE T == {n \in Nat : \E f : Sums(f, n)}
<1>1. 0 \in T
  <2> DEFINE f == [i \in 0 .. 0 |-> 0]
  <2>1. Sums(f, 0)
    OBVIOUS
  <2> QED BY <2>1
<1>2. ASSUME NEW n \in Nat, n \in T PROVE n + 1 \in T
  <2>1. PICK f : Sums(f, n)
    BY <1>2
  <2> DEFINE g == [i \in 0 .. n + 1 |-> IF i <= n THEN f[i] ELSE f[n] + s[n + 1]]
  <2>2. ASSUME NEW i \in 0 .. n + 1 PROVE g[i] = IF i = 0 THEN 0 ELSE g[i - 1] + s[i]
    <3>1. CASE i = 0
      BY <2>1, <3>1
    <3>2. CASE i \in 1 .. n
      <4>1. g[i] = f[i] /\ g[i-1] = f[i-1]
        BY <3>2
      <4>2. f[i] = f[i-1] + s[i]
        BY <2>1, <3>2
      <4> QED BY <4>1, <4>2, <3>2
    <3>3. CASE i = n + 1
      BY <3>3
    <3> QED BY <3>1, <3>2, <3>3
  <2>3. Sums(g, n + 1)
    BY <2>2
  <2> HIDE DEF g
  <2>4. \E f1 : Sums(f1, n + 1)
    <3> HIDE DEF Sums
    <3> QED BY <2>3
  <2> HIDE DEF Sums
  <2> QED BY <2>4
<1> HIDE DEF T
<1>3. Nat \subseteq T
  BY <1>1, <1>2, Induction
<1>4. Len(s) \in T
  BY <1>3
<1> QED BY <1>4 DEF T, SumOver

\* A running sum ends in the total.
LEMMA TotalRuns ==
    ASSUME NEW s \in Seq(Int)
    PROVE  \E f \in [0 .. Len(s) -> Int] :
              /\ f[0] = 0 /\ \A i \in 1 .. Len(s) : f[i] = f[i - 1] + s[i]
              /\ Total(s) = f[Len(s)]
<1> DEFINE f == CHOOSE g : SumOver(g, s)
<1>1. SumOver(f, s)
  BY SumExists
<1>2. Total(s) = f[Len(s)]
  BY DEF Total, SumOver
<1> HIDE DEF f
<1>3. /\ f[0] = 0 /\ DOMAIN f = 0 .. Len(s)
      /\ \A i \in 1 .. Len(s) : f[i] = f[i - 1] + s[i]
  <2>1. f = [i \in 0 .. Len(s) |-> IF i = 0 THEN 0 ELSE f[i - 1] + s[i]]
    BY <1>1, Zenon DEF SumOver
  <2> DEFINE h == [i \in 0 .. Len(s) |-> IF i = 0 THEN 0 ELSE f[i - 1] + s[i]]
  <2>2. h[0] = 0 /\ DOMAIN h = 0 .. Len(s)
    OBVIOUS
  <2>3. ASSUME NEW i \in 1 .. Len(s) PROVE h[i] = f[i - 1] + s[i]
    <3>1. i \in 0 .. Len(s) /\ i # 0
      OBVIOUS
    <3> QED BY <3>1, Zenon
  <2>4. f = h
    BY <2>1, Zenon
  <2> HIDE DEF h
  <2> QED BY <2>2, <2>3, <2>4, Zenon
<1> DEFINE T == {n \in Nat : n <= Len(s) => f[n] \in Int}
<1>4. 0 \in T
  BY <1>3
<1>5. ASSUME NEW n \in Nat, n \in T PROVE n + 1 \in T
  <2> SUFFICES ASSUME n + 1 <= Len(s) PROVE f[n + 1] \in Int
    OBVIOUS
  <2>1. n + 1 \in 1 .. Len(s) /\ f[n] \in Int /\ s[n + 1] \in Int
    BY <1>5
  <2>2. f[n + 1] = f[(n + 1) - 1] + s[n + 1]
    BY <1>3, <2>1
  <2> QED BY <2>1, <2>2
<1> HIDE DEF T
<1>6. Nat \subseteq T
  BY <1>4, <1>5, Induction
<1>7. \A i \in 0 .. Len(s) : f[i] \in Int
  BY <1>6 DEF T
<1>8. f \in [0 .. Len(s) -> Int]
  BY <1>1, <1>7 DEF SumOver
<1> QED BY <1>2, <1>3, <1>8

LEMMA TotalIsInt == ASSUME NEW s \in Seq(Int) PROVE Total(s) \in Int
<1>1. PICK f \in [0 .. Len(s) -> Int] : Total(s) = f[Len(s)]
  BY TotalRuns
<1> QED BY <1>1

\* Any running sum does.
LEMMA TotalUnique ==
    ASSUME NEW s \in Seq(Int), NEW g, g[0] = 0,
           \A i \in 1 .. Len(s) : g[i] = g[i - 1] + s[i]
    PROVE  Total(s) = g[Len(s)]
<1>1. PICK f \in [0 .. Len(s) -> Int] :
        /\ f[0] = 0 /\ \A i \in 1 .. Len(s) : f[i] = f[i - 1] + s[i]
        /\ Total(s) = f[Len(s)]
  BY TotalRuns
<1> DEFINE T == {n \in Nat : n <= Len(s) => f[n] = g[n]}
<1>2. 0 \in T
  BY <1>1
<1>3. ASSUME NEW n \in Nat, n \in T PROVE n + 1 \in T
  <2> SUFFICES ASSUME n + 1 <= Len(s) PROVE f[n + 1] = g[n + 1]
    OBVIOUS
  <2>1. n + 1 \in 1 .. Len(s) /\ f[n] = g[n]
    BY <1>3
  <2>2. f[n + 1] = f[(n + 1) - 1] + s[n + 1] /\ g[n + 1] = g[(n + 1) - 1] + s[n + 1]
    BY <1>1, <2>1
  <2> QED BY <2>1, <2>2
<1> HIDE DEF T
<1>4. Nat \subseteq T
  BY <1>2, <1>3, Induction
<1>5. f[Len(s)] = g[Len(s)]
  BY <1>4 DEF T
<1> QED BY <1>1, <1>5

LEMMA TotalEmpty == Total(<< >>) = 0
<1>1. << >> \in Seq(Int) /\ Len(<< >>) = 0
  OBVIOUS
<1>2. PICK f \in [0 .. Len(<< >>) -> Int] : f[0] = 0 /\ Total(<< >>) = f[Len(<< >>)]
  BY <1>1, TotalRuns
<1> QED BY <1>1, <1>2

LEMMA TotalConcat ==
    ASSUME NEW s \in Seq(Int), NEW t \in Seq(Int)
    PROVE  Total(s \o t) = Total(s) + Total(t)
<1> DEFINE n == Len(s)
<1> DEFINE m == Len(t)
<1>1. PICK f \in [0 .. n -> Int] :
        f[0] = 0 /\ (\A i \in 1 .. n : f[i] = f[i - 1] + s[i]) /\ Total(s) = f[n]
  BY TotalRuns
<1>2. PICK g \in [0 .. m -> Int] :
        g[0] = 0 /\ (\A i \in 1 .. m : g[i] = g[i - 1] + t[i]) /\ Total(t) = g[m]
  BY TotalRuns
<1> DEFINE u == s \o t
<1>3. /\ u \in Seq(Int) /\ Len(u) = n + m /\ n \in Nat /\ m \in Nat
      /\ \A i \in 1 .. n : u[i] = s[i]
      /\ \A i \in 1 .. m : u[n + i] = t[i]
      /\ \A i \in 1 .. m : t[i] \in Int
  OBVIOUS
<1> HIDE DEF u, n, m
<1> DEFINE h == [i \in 0 .. n + m |-> IF i <= n THEN f[i] ELSE f[n] + g[i - n]]
<1>4. h[0] = 0
  BY <1>1, <1>3
<1>5. ASSUME NEW i \in 1 .. Len(u) PROVE h[i] = h[i - 1] + u[i]
  <2>1. CASE i <= n
    BY <1>1, <1>3, <2>1
  <2>2. CASE i > n
    <3> DEFINE j == i - n
    <3>1. j \in 1 .. m /\ n + j = i /\ (i - 1) - n = j - 1
      BY <1>3, <2>2
    <3>2. g[j] = g[j - 1] + t[j] /\ u[i] = t[j]
      BY <1>2, <1>3, <3>1
    <3>3. h[i] = f[n] + g[j]
      BY <1>3, <2>2
    <3>4. h[i - 1] = f[n] + g[j - 1]
      <4>0. f[n] \in Int /\ n \in 0 .. n
        BY <1>3
      <4>1. CASE i = n + 1
        <5>1. i - 1 = n /\ j - 1 = 0 /\ i - 1 \in 0 .. n + m
          BY <1>3, <4>1
        <5>2. h[i - 1] = f[n]
          BY <5>1, <1>3
        <5> HIDE DEF h, j
        <5> QED BY <1>2, <4>0, <5>1, <5>2
      <4>2. CASE i # n + 1
        <5>1. ~ (i - 1 <= n) /\ i - 1 \in 0 .. n + m /\ (i - 1) - n = j - 1
          BY <1>3, <2>2, <4>2
        <5> HIDE DEF j
        <5> QED BY <5>1
      <4> QED BY <4>1, <4>2
    <3>5. f[n] \in Int /\ g[j - 1] \in Int /\ t[j] \in Int
      BY <1>3, <3>1
    <3>6. f[n] + (g[j - 1] + t[j]) = (f[n] + g[j - 1]) + t[j]
      <4> \A x, y, z \in Int : x + (y + z) = (x + y) + z
        OBVIOUS
      <4> HIDE DEF h, j
      <4> QED BY <3>5, Zenon
    <3> HIDE DEF h, j
    <3> QED BY <3>2, <3>3, <3>4, <3>6, Zenon
  <2> QED BY <1>3, <2>1, <2>2
<1>6. h[n + m] = f[n] + g[m]
  <2>1. f[n] \in Int /\ n + m \in 0 .. n + m
    BY <1>3
  <2>2. CASE m = 0
    <3>1. n + m <= n /\ n + m = n
      BY <1>3, <2>2
    <3>2. h[n + m] = f[n]
      BY <2>1, <3>1
    <3> QED BY <1>2, <2>1, <2>2, <3>2
  <2>3. CASE m # 0
    <3>1. ~ (n + m <= n) /\ (n + m) - n = m
      BY <1>3, <2>3
    <3> QED BY <2>1, <3>1
  <2> QED BY <2>2, <2>3
<1> HIDE DEF h
<1>7. Total(u) = h[Len(u)]
  BY <1>3, <1>4, <1>5, TotalUnique
<1> QED BY <1>1, <1>2, <1>3, <1>6, <1>7 DEF u

LEMMA TotalOne == ASSUME NEW x \in Int PROVE Total(<<x>>) = x
<1>1. <<x>> \in Seq(Int) /\ Len(<<x>>) = 1
  OBVIOUS
<1>2. PICK f \in [0 .. Len(<<x>>) -> Int] :
        /\ f[0] = 0 /\ \A i \in 1 .. Len(<<x>>) : f[i] = f[i - 1] + <<x>>[i]
        /\ Total(<<x>>) = f[Len(<<x>>)]
  BY <1>1, TotalRuns
<1> QED BY <1>1, <1>2

LEMMA TotalAppend ==
    ASSUME NEW s \in Seq(Int), NEW x \in Int
    PROVE  Total(Append(s, x)) = Total(s) + x
<1>1. Append(s, x) = s \o <<x>> /\ <<x>> \in Seq(Int)
  OBVIOUS
<1> QED BY <1>1, TotalConcat, TotalOne

-----------------------------------------------------------------------------
(* Sums of a measure over the elements of a sequence.                       *)

SumOf(v, s) == Total([i \in DOMAIN s |-> v[s[i]]])

LEMMA MeasureType ==
    ASSUME NEW S, NEW v \in [S -> Int], NEW s \in Seq(S)
    PROVE  /\ [i \in DOMAIN s |-> v[s[i]]] \in Seq(Int)
           /\ Len([i \in DOMAIN s |-> v[s[i]]]) = Len(s)
           /\ SumOf(v, s) \in Int
<1> DEFINE m == [i \in DOMAIN s |-> v[s[i]]]
<1>1. DOMAIN s = 1 .. Len(s) /\ Len(s) \in Nat /\ \A i \in 1 .. Len(s) : s[i] \in S
  OBVIOUS
<1>2. m \in [1 .. Len(s) -> Int]
  BY <1>1
<1>3. m \in Seq(Int) /\ Len(m) = Len(s)
  BY <1>1, <1>2
<1> HIDE DEF m
<1>4. Total(m) \in Int
  BY <1>3, TotalIsInt
<1> QED BY <1>3, <1>4 DEF m, SumOf

LEMMA SumOfEmpty == ASSUME NEW v PROVE SumOf(v, << >>) = 0
<1>1. [i \in DOMAIN << >> |-> v[<< >>[i]]] = << >>
  OBVIOUS
<1> QED BY <1>1, TotalEmpty DEF SumOf

LEMMA ConcatIs ==
    ASSUME NEW S, NEW s \in Seq(S), NEW t \in Seq(S)
    PROVE  /\ s \o t \in Seq(S) /\ Len(s \o t) = Len(s) + Len(t)
           /\ DOMAIN (s \o t) = 1 .. Len(s) + Len(t)
           /\ \A i \in 1 .. Len(s) + Len(t) :
                 (s \o t)[i] = IF i <= Len(s) THEN s[i] ELSE t[i - Len(s)]
           /\ s \o t = [i \in 1 .. Len(s) + Len(t) |-> (s \o t)[i]]
<1>1. s \o t \in Seq(S) /\ Len(s \o t) = Len(s) + Len(t)
  OBVIOUS
<1>2. /\ DOMAIN (s \o t) = 1 .. Len(s) + Len(t)
      /\ \A i \in 1 .. Len(s) + Len(t) :
            (s \o t)[i] = IF i <= Len(s) THEN s[i] ELSE t[i - Len(s)]
  OBVIOUS
<1>3. \A q \in Seq(S) : q = [i \in 1 .. Len(q) |-> q[i]]
  OBVIOUS
<1> QED BY <1>1, <1>2, <1>3

LEMMA SumOfConcat ==
    ASSUME NEW S, NEW v \in [S -> Int], NEW s \in Seq(S), NEW t \in Seq(S)
    PROVE  SumOf(v, s \o t) = SumOf(v, s) + SumOf(v, t)
<1> DEFINE a == [i \in DOMAIN s |-> v[s[i]]]
<1> DEFINE b == [i \in DOMAIN t |-> v[t[i]]]
<1> DEFINE u == s \o t
<1> DEFINE c == [i \in DOMAIN u |-> v[u[i]]]
<1>1. /\ a \in Seq(Int) /\ Len(a) = Len(s) /\ b \in Seq(Int) /\ Len(b) = Len(t)
  BY MeasureType
<1>2. /\ u \in Seq(S) /\ Len(u) = Len(s) + Len(t) /\ Len(s) \in Nat /\ Len(t) \in Nat
      /\ DOMAIN u = 1 .. Len(s) + Len(t) /\ DOMAIN s = 1 .. Len(s)
      /\ DOMAIN t = 1 .. Len(t)
      /\ \A i \in 1 .. Len(s) + Len(t) :
            u[i] = IF i <= Len(s) THEN s[i] ELSE t[i - Len(s)]
  OBVIOUS
<1>3. \A i \in 1 .. Len(s) : a[i] = v[s[i]]
  BY <1>2
<1>4. \A i \in 1 .. Len(t) : b[i] = v[t[i]]
  BY <1>2
<1>5. DOMAIN c = 1 .. Len(s) + Len(t) /\ \A i \in 1 .. Len(s) + Len(t) : c[i] = v[u[i]]
  BY <1>2
<1> HIDE DEF u
<1>6. c = [i \in 1 .. Len(s) + Len(t) |-> v[u[i]]]
  BY <1>2
<1> HIDE DEF a, b, c
<1>7. /\ DOMAIN (a \o b) = 1 .. Len(s) + Len(t)
      /\ \A i \in 1 .. Len(s) + Len(t) :
            (a \o b)[i] = IF i <= Len(s) THEN a[i] ELSE b[i - Len(s)]
  <2>1. /\ DOMAIN (a \o b) = 1 .. Len(a) + Len(b)
        /\ \A i \in 1 .. Len(a) + Len(b) :
              (a \o b)[i] = IF i <= Len(a) THEN a[i] ELSE b[i - Len(a)]
    <3>1. ASSUME NEW x \in Seq(Int), NEW y \in Seq(Int)
          PROVE  /\ DOMAIN (x \o y) = 1 .. Len(x) + Len(y)
                 /\ \A i \in 1 .. Len(x) + Len(y) :
                       (x \o y)[i] = IF i <= Len(x) THEN x[i] ELSE y[i - Len(x)]
      OBVIOUS
    <3> QED BY <1>1, <3>1, Zenon
  <2> QED BY <1>1, <2>1
<1>8. ASSUME NEW i \in 1 .. Len(s) + Len(t) PROVE (a \o b)[i] = v[u[i]]
  <2>1. CASE i <= Len(s)
    BY <1>2, <1>3, <1>7, <2>1
  <2>2. CASE ~ (i <= Len(s))
    <3>1. i - Len(s) \in 1 .. Len(t)
      BY <1>2, <2>2
    <3>2. (a \o b)[i] = b[i - Len(s)]
      BY <1>7, <2>2, Zenon
    <3>3. u[i] = t[i - Len(s)]
      BY <1>2, <2>2, Zenon
    <3> QED BY <1>4, <3>1, <3>2, <3>3, Zenon
  <2> QED BY <2>1, <2>2, Zenon
<1>9. a \o b = [i \in 1 .. Len(s) + Len(t) |-> v[u[i]]]
  <2>1. a \o b = [i \in 1 .. Len(a) + Len(b) |-> (a \o b)[i]]
    <3>1. ASSUME NEW x \in Seq(Int), NEW y \in Seq(Int)
          PROVE  x \o y = [i \in 1 .. Len(x) + Len(y) |-> (x \o y)[i]]
      BY ConcatIs
    <3> QED BY <1>1, <3>1, Zenon
  <2>2. a \o b = [i \in 1 .. Len(s) + Len(t) |-> (a \o b)[i]]
    BY <1>1, <2>1, Zenon
  <2> QED BY <1>8, <2>2, Zenon
<1>10. c = a \o b
  BY <1>6, <1>9
<1>11. Total(a \o b) = Total(a) + Total(b)
  BY <1>1, TotalConcat
<1> QED BY <1>10, <1>11 DEF SumOf, a, b, c, u

LEMMA SumOfOne ==
    ASSUME NEW S, NEW v \in [S -> Int], NEW x \in S
    PROVE  SumOf(v, <<x>>) = v[x]
<1>1. [i \in DOMAIN <<x>> |-> v[<<x>>[i]]] = <<v[x]>>
  OBVIOUS
<1> QED BY <1>1, TotalOne DEF SumOf

LEMMA SumOfAppend ==
    ASSUME NEW S, NEW v \in [S -> Int], NEW s \in Seq(S), NEW x \in S
    PROVE  SumOf(v, Append(s, x)) = SumOf(v, s) + v[x]
<1>1. Append(s, x) = s \o <<x>> /\ <<x>> \in Seq(S)
  OBVIOUS
<1>2. SumOf(v, s \o <<x>>) = SumOf(v, s) + SumOf(v, <<x>>)
  BY <1>1, SumOfConcat, Zenon
<1>3. SumOf(v, <<x>>) = v[x]
  BY SumOfOne, Zenon
<1> QED BY <1>1, <1>2, <1>3, Zenon

-----------------------------------------------------------------------------
(* Filters.                                                                 *)

PickOver(f, s, K) ==
    f = [i \in 0 .. Len(s) |-> IF i = 0 THEN << >> ELSE Taken(f[i - 1], s, i, K)]

LEMMA PickExists ==
    ASSUME NEW S, NEW s \in Seq(S), NEW K
    PROVE  \E f : PickOver(f, s, K)
<1> DEFINE Picks(f, n) ==
      f = [i \in 0 .. n |-> IF i = 0 THEN << >> ELSE Taken(f[i - 1], s, i, K)]
<1> DEFINE T == {n \in Nat : \E f : Picks(f, n)}
<1>1. 0 \in T
  <2> DEFINE f == [i \in 0 .. 0 |-> << >>]
  <2>1. Picks(f, 0)
    OBVIOUS
  <2> QED BY <2>1
<1>2. ASSUME NEW n \in Nat, n \in T PROVE n + 1 \in T
  <2>1. PICK f : Picks(f, n)
    BY <1>2
  <2> DEFINE last == Taken(f[n], s, n + 1, K)
  <2> DEFINE g == [i \in 0 .. n + 1 |-> IF i <= n THEN f[i] ELSE last]
  <2>2. ASSUME NEW i \in 0 .. n + 1
        PROVE  g[i] = IF i = 0 THEN << >>
                      ELSE Taken(g[i - 1], s, i, K)
    <3>1. CASE i = 0
      BY <2>1, <3>1
    <3>2. CASE i \in 1 .. n
      <4>1. g[i] = f[i] /\ g[i-1] = f[i-1]
        BY <3>2
      <4>2. f[i] = Taken(f[i - 1], s, i, K)
        BY <2>1, <3>2
      <4> HIDE DEF g
      <4> QED BY <4>1, <4>2, <3>2
    <3>3. CASE i = n + 1
      <4>1. g[i] = last /\ g[i - 1] = f[n] /\ i - 1 = n /\ i # 0
        BY <3>3
      <4> HIDE DEF g
      <4> QED BY <4>1, <3>3
    <3> QED BY <3>1, <3>2, <3>3
  <2>3. Picks(g, n + 1)
    <3> HIDE DEF last
    <3>1. g = [i \in 0 .. n + 1 |-> g[i]]
      OBVIOUS
    <3> HIDE DEF g
    <3> QED BY <2>2, <3>1
  <2> HIDE DEF g
  <2>4. \E f1 : Picks(f1, n + 1)
    <3> HIDE DEF Picks
    <3> QED BY <2>3
  <2> HIDE DEF Picks
  <2> QED BY <2>4
<1> HIDE DEF T
<1>3. Nat \subseteq T
  BY <1>1, <1>2, Induction
<1>4. Len(s) \in T
  BY <1>3
<1> QED BY <1>4 DEF T, PickOver

LEMMA PickedRuns ==
    ASSUME NEW S, NEW s \in Seq(S), NEW K
    PROVE  \E f \in [0 .. Len(s) -> Seq(S)] :
              /\ f[0] = << >>
              /\ \A i \in 1 .. Len(s) :
                    f[i] = Taken(f[i - 1], s, i, K)
              /\ Picked(s, K) = f[Len(s)]
<1> DEFINE f == CHOOSE g : PickOver(g, s, K)
<1>1. PickOver(f, s, K)
  BY PickExists
<1>2. Picked(s, K) = f[Len(s)]
  BY DEF Picked, PickOver
<1> HIDE DEF f
<1>3. /\ f[0] = << >> /\ DOMAIN f = 0 .. Len(s)
      /\ \A i \in 1 .. Len(s) :
            f[i] = Taken(f[i - 1], s, i, K)
  BY <1>1 DEF PickOver
<1> DEFINE T == {n \in Nat : n <= Len(s) => f[n] \in Seq(S)}
<1>4. 0 \in T
  <2>1. f[0] \in Seq(S)
    <3>1. << >> \in Seq(S)
      OBVIOUS
    <3> QED BY <1>3, <3>1, Zenon
  <2> HIDE DEF f
  <2> QED BY <2>1
<1>5. ASSUME NEW n \in Nat, n \in T PROVE n + 1 \in T
  <2> SUFFICES ASSUME n + 1 <= Len(s) PROVE f[n + 1] \in Seq(S)
    OBVIOUS
  <2>1. n + 1 \in 1 .. Len(s) /\ f[n] \in Seq(S) /\ s[n + 1] \in S
    BY <1>5
  <2>2. f[n + 1] = Taken(f[n], s, n + 1, K)
    BY <1>3, <2>1
  <2> QED BY <2>1, <2>2 DEF Taken
<1> HIDE DEF T
<1>6. Nat \subseteq T
  BY <1>4, <1>5, Induction
<1>7. \A i \in 0 .. Len(s) : f[i] \in Seq(S)
  BY <1>6 DEF T
<1>8. f = [i \in 0 .. Len(s) |-> f[i]]
  BY <1>1 DEF PickOver
<1>9. f \in [0 .. Len(s) -> Seq(S)]
  BY <1>7, <1>8
<1> QED BY <1>2, <1>3, <1>9

LEMMA PickedUnique ==
    ASSUME NEW S, NEW s \in Seq(S), NEW K, NEW g, g[0] = << >>,
           \A i \in 1 .. Len(s) :
              g[i] = Taken(g[i - 1], s, i, K)
    PROVE  Picked(s, K) = g[Len(s)]
<1>1. PICK f \in [0 .. Len(s) -> Seq(S)] :
              /\ f[0] = << >>
              /\ \A i \in 1 .. Len(s) :
                    f[i] = Taken(f[i - 1], s, i, K)
              /\ Picked(s, K) = f[Len(s)]
  BY PickedRuns
<1> DEFINE T == {n \in Nat : n <= Len(s) => f[n] = g[n]}
<1>2. 0 \in T
  BY <1>1
<1>3. ASSUME NEW n \in Nat, n \in T PROVE n + 1 \in T
  <2> SUFFICES ASSUME n + 1 <= Len(s) PROVE f[n + 1] = g[n + 1]
    OBVIOUS
  <2>1. n + 1 \in 1 .. Len(s) /\ f[n] = g[n] /\ (n + 1) - 1 = n
    BY <1>3
  <2>2. /\ f[n + 1] = Taken(f[n], s, n + 1, K)
        /\ g[n + 1] = Taken(g[n], s, n + 1, K)
    BY <1>1, <2>1
  <2> QED BY <2>1, <2>2
<1> HIDE DEF T
<1>4. Nat \subseteq T
  BY <1>2, <1>3, Induction
<1>5. f[Len(s)] = g[Len(s)]
  BY <1>4 DEF T
<1> QED BY <1>1, <1>5

LEMMA PickedType ==
    ASSUME NEW S, NEW s \in Seq(S), NEW K PROVE Picked(s, K) \in Seq(S)
<1>1. PICK f \in [0 .. Len(s) -> Seq(S)] : Picked(s, K) = f[Len(s)]
  BY PickedRuns
<1> QED BY <1>1

LEMMA PickedAll ==
    ASSUME NEW S, NEW s \in Seq(S), NEW K, DOMAIN s \subseteq K
    PROVE  Picked(s, K) = s
<1> DEFINE g == [i \in 0 .. Len(s) |-> SubSeq(s, 1, i)]
<1>1. g[0] = << >>
  OBVIOUS
<1>2. ASSUME NEW i \in 1 .. Len(s) PROVE g[i] = Append(g[i - 1], s[i])
  <2>1. SubSeq(s, 1, i) = Append(SubSeq(s, 1, i - 1), s[i])
    OBVIOUS
  <2> QED BY <2>1
<1>3. g[Len(s)] = s
  OBVIOUS
<1> HIDE DEF g
<1>4. \A i \in 1 .. Len(s) :
        g[i] = Taken(g[i - 1], s, i, K)
  <2>1. \A i \in 1 .. Len(s) : i \in K
    OBVIOUS
  <2> QED BY <1>2, <2>1 DEF Taken
<1> QED BY <1>1, <1>3, <1>4, PickedUnique

LEMMA PickedNone ==
    ASSUME NEW S, NEW s \in Seq(S), NEW K, K \cap DOMAIN s = {}
    PROVE  Picked(s, K) = << >>
<1> DEFINE g == [i \in 0 .. Len(s) |-> << >>]
<1>1. g[0] = << >> /\ g[Len(s)] = << >>
  OBVIOUS
<1>2. \A i \in 1 .. Len(s) :
        g[i] = Taken(g[i - 1], s, i, K)
  <2> SUFFICES ASSUME NEW i \in 1 .. Len(s) PROVE g[i] = Taken(g[i - 1], s, i, K)
    BY Zenon
  <2>1. i \notin K /\ g[i] = << >> /\ g[i - 1] = << >>
    OBVIOUS
  <2> HIDE DEF g
  <2> QED BY <2>1 DEF Taken
<1> HIDE DEF g
<1> QED BY <1>1, <1>2, PickedUnique

LEMMA ConcatAppend ==
    ASSUME NEW S, NEW s \in Seq(S), NEW t \in Seq(S), NEW x \in S
    PROVE  s \o Append(t, x) = Append(s \o t, x)
<1> DEFINE a == s \o Append(t, x)
<1> DEFINE b == Append(s \o t, x)
<1>1. /\ Append(t, x) \in Seq(S) /\ Len(Append(t, x)) = Len(t) + 1
      /\ \A i \in 1 .. Len(t) : Append(t, x)[i] = t[i]
      /\ Append(t, x)[Len(t) + 1] = x /\ Len(s) \in Nat /\ Len(t) \in Nat
  OBVIOUS
<1>2. /\ a \in Seq(S) /\ Len(a) = Len(s) + (Len(t) + 1)
      /\ \A i \in 1 .. Len(s) + (Len(t) + 1) :
            a[i] = IF i <= Len(s) THEN s[i] ELSE Append(t, x)[i - Len(s)]
  <2> DEFINE z == Append(t, x)
  <2>1. z \in Seq(S) /\ Len(z) = Len(t) + 1
    BY <1>1
  <2> HIDE DEF z
  <2>2. /\ s \o z \in Seq(S) /\ Len(s \o z) = Len(s) + Len(z)
        /\ \A i \in 1 .. Len(s) + Len(z) :
              (s \o z)[i] = IF i <= Len(s) THEN s[i] ELSE z[i - Len(s)]
    BY <2>1, ConcatIs
  <2> QED BY <2>1, <2>2 DEF z
<1>3. /\ b \in Seq(S) /\ Len(b) = Len(s) + Len(t) + 1
      /\ b[Len(s) + Len(t) + 1] = x
      /\ \A i \in 1 .. Len(s) + Len(t) : b[i] = IF i <= Len(s) THEN s[i] ELSE t[i - Len(s)]
  <2> DEFINE z == s \o t
  <2>1. /\ z \in Seq(S) /\ Len(z) = Len(s) + Len(t)
        /\ \A i \in 1 .. Len(s) + Len(t) : z[i] = IF i <= Len(s) THEN s[i] ELSE t[i - Len(s)]
    BY ConcatIs
  <2> HIDE DEF z
  <2>2. /\ Append(z, x) \in Seq(S) /\ Len(Append(z, x)) = Len(z) + 1
        /\ Append(z, x)[Len(z) + 1] = x
        /\ \A i \in 1 .. Len(z) : Append(z, x)[i] = z[i]
    BY <2>1
  <2> QED BY <2>1, <2>2 DEF z
<1> HIDE DEF a, b
<1>4. Len(a) = Len(b)
  BY <1>1, <1>2, <1>3
<1>5. ASSUME NEW i \in 1 .. Len(a) PROVE a[i] = b[i]
  <2>0. i \in 1 .. Len(s) + (Len(t) + 1) /\ Len(s) \in Nat /\ Len(t) \in Nat
    BY <1>1, <1>2
  <2>1. CASE i <= Len(s)
    <3>1. a[i] = s[i] /\ i \in 1 .. Len(s) + Len(t)
      BY <1>2, <2>0, <2>1
    <3> QED BY <1>3, <2>1, <3>1
  <2>2. CASE i > Len(s) /\ i <= Len(s) + Len(t)
    <3>1. i - Len(s) \in 1 .. Len(t) /\ i \in 1 .. Len(s) + Len(t) /\ ~ (i <= Len(s))
      BY <2>0, <2>2
    <3>2. a[i] = Append(t, x)[i - Len(s)]
      BY <1>2, <2>0, <3>1
    <3>3. b[i] = t[i - Len(s)]
      BY <1>3, <3>1
    <3> QED BY <1>1, <3>1, <3>2, <3>3
  <2>3. CASE i = Len(s) + Len(t) + 1
    <3>1. ~ (i <= Len(s)) /\ i - Len(s) = Len(t) + 1
      BY <2>0, <2>3
    <3>2. a[i] = Append(t, x)[i - Len(s)]
      BY <1>2, <2>0, <3>1
    <3> QED BY <1>1, <1>3, <2>3, <3>1, <3>2
  <2> QED BY <2>0, <2>1, <2>2, <2>3
<1>6. \A q \in Seq(S) : q = [i \in 1 .. Len(q) |-> q[i]]
  OBVIOUS
<1>7. a = b
  BY <1>2, <1>3, <1>4, <1>5, <1>6
<1> QED BY <1>7 DEF a, b

\* The positions of K behind the first n, counted from there.
Joined(u, s, t) == u = s \o t
Behind(L, n, t, K) == \A i \in DOMAIN t : i \in L <=> n + i \in K

\* A filter of a sequence is the filters of its two parts.
LEMMA PickedConcat ==
    ASSUME NEW S, NEW s \in Seq(S), NEW t \in Seq(S), NEW u, Joined(u, s, t),
           NEW K, NEW L, Behind(L, Len(s), t, K)
    PROVE  Picked(u, K) = Picked(s, K) \o Picked(t, L)
<1> DEFINE n == Len(s)
<1> DEFINE m == Len(t)
<1>1. PICK f \in [0 .. n -> Seq(S)] :
              /\ f[0] = << >>
              /\ \A i \in 1 .. n : f[i] = Taken(f[i - 1], s, i, K)
              /\ Picked(s, K) = f[n]
  BY PickedRuns
<1>2. PICK g \in [0 .. m -> Seq(S)] :
              /\ g[0] = << >>
              /\ \A i \in 1 .. m : g[i] = Taken(g[i - 1], t, i, L)
              /\ Picked(t, L) = g[m]
  BY PickedRuns
<1>3. /\ u \in Seq(S) /\ Len(u) = n + m /\ n \in Nat /\ m \in Nat
      /\ \A i \in 1 .. n : u[i] = s[i]
      /\ \A i \in 1 .. m : u[n + i] = t[i]
      /\ \A i \in 1 .. m : t[i] \in S
  BY DEF Joined
<1>4. \A i \in 1 .. m : i \in L <=> n + i \in K
  <2>1. DOMAIN t = 1 .. m
    OBVIOUS
  <2> QED BY <2>1 DEF Behind
<1> HIDE DEF n, m
<1> DEFINE h == [i \in 0 .. n + m |-> IF i <= n THEN f[i] ELSE f[n] \o g[i - n]]
<1>5. h[0] = << >>
  BY <1>1, <1>3
<1>6. ASSUME NEW i \in 1 .. Len(u) PROVE h[i] = Taken(h[i - 1], u, i, K)
  <2>1. CASE i <= n
    <3>1. h[i] = f[i] /\ h[i - 1] = f[i - 1] /\ u[i] = s[i]
      BY <1>3, <2>1
    <3>2. f[i] = Taken(f[i - 1], s, i, K)
      BY <1>1, <2>1, <1>3
    <3> HIDE DEF h
    <3> QED BY <3>1, <3>2 DEF Taken
  <2>2. CASE i > n
    <3> DEFINE j == i - n
    <3>1. /\ i \in Int /\ n \in Int /\ m \in Int
          /\ j \in 1 .. m /\ n + j = i /\ (i - 1) - n = j - 1
          /\ j - 1 \in 0 .. m /\ ~ (i <= n) /\ i \in 0 .. n + m
      <4>1. i \in Int /\ n \in Nat /\ m \in Nat /\ i <= n + m /\ i >= 1
        BY <1>3
      <4> QED BY <4>1, <2>2
    <3>2. g[j] = Taken(g[j - 1], t, j, L) /\ u[i] = t[j] /\ (j \in L <=> i \in K)
      BY <1>2, <1>3, <1>4, <3>1
    <3>3. h[i] = f[n] \o g[j]
      BY <3>1
    <3>4. h[i - 1] = f[n] \o g[j - 1]
      <4>0. f[n] \in Seq(S) /\ n \in 0 .. n
        BY <1>3
      <4>1. CASE i = n + 1
        <5>1. i - 1 = n /\ j - 1 = 0 /\ i - 1 \in 0 .. n + m
          BY <1>3, <4>1
        <5>2. h[i - 1] = f[n]
          BY <5>1, <1>3
        <5>3. g[j - 1] = << >>
          BY <1>2, <5>1
        <5> HIDE DEF h, j
        <5> QED BY <4>0, <5>2, <5>3
      <4>2. CASE i # n + 1
        <5>1. ~ (i - 1 <= n) /\ i - 1 \in 0 .. n + m /\ (i - 1) - n = j - 1
          BY <1>3, <2>2, <4>2
        <5> HIDE DEF j
        <5> QED BY <5>1
      <4> QED BY <4>1, <4>2
    <3>5. f[n] \in Seq(S) /\ g[j - 1] \in Seq(S) /\ t[j] \in S
      BY <1>3, <3>1
    <3> HIDE DEF h, j
    <3>6. CASE i \in K
      <4>1. g[j] = Append(g[j - 1], t[j])
        BY <3>2, <3>6 DEF Taken
      <4>2. f[n] \o Append(g[j - 1], t[j]) = Append(f[n] \o g[j - 1], t[j])
        <5>1. \A p, q \in Seq(S), x \in S : p \o Append(q, x) = Append(p \o q, x)
          BY ConcatAppend
        <5> QED BY <3>5, <5>1, Zenon
      <4>3. Taken(h[i - 1], u, i, K) = Append(h[i - 1], u[i])
        BY <3>6 DEF Taken
      <4> QED BY <3>2, <3>3, <3>4, <4>1, <4>2, <4>3
    <3>7. CASE i \notin K
      <4>1. g[j] = g[j - 1]
        BY <3>2, <3>7 DEF Taken
      <4>3. Taken(h[i - 1], u, i, K) = h[i - 1]
        BY <3>7 DEF Taken
      <4> QED BY <3>3, <3>4, <4>1, <4>3
    <3> QED BY <3>6, <3>7
  <2> QED BY <1>3, <2>1, <2>2
<1>7. h[n + m] = f[n] \o g[m]
  <2>1. f[n] \in Seq(S) /\ n + m \in 0 .. n + m
    BY <1>3
  <2>2. CASE m = 0
    <3>1. n + m <= n /\ n + m = n
      BY <1>3, <2>2
    <3>2. h[n + m] = f[n]
      BY <2>1, <3>1
    <3>3. g[m] = << >>
      BY <1>2, <2>2
    <3> HIDE DEF h
    <3> QED BY <2>1, <3>2, <3>3
  <2>3. CASE m # 0
    <3>1. ~ (n + m <= n) /\ (n + m) - n = m
      BY <1>3, <2>3
    <3> QED BY <2>1, <3>1
  <2> QED BY <2>2, <2>3
<1> HIDE DEF h
<1>8. Picked(u, K) = h[Len(u)]
  BY <1>3, <1>5, <1>6, PickedUnique
<1> QED BY <1>1, <1>2, <1>3, <1>7, <1>8 DEF n

\* What a filter holds: the elements at its positions, and nothing else.
LEMMA PickedRange ==
    ASSUME NEW S, NEW s \in Seq(S), NEW K
    PROVE  Range(Picked(s, K)) = {s[i] : i \in DOMAIN s \cap K}
<1>1. PICK f \in [0 .. Len(s) -> Seq(S)] :
              /\ f[0] = << >>
              /\ \A i \in 1 .. Len(s) : f[i] = Taken(f[i - 1], s, i, K)
              /\ Picked(s, K) = f[Len(s)]
  BY PickedRuns
<1> DEFINE T == {n \in Nat : n <= Len(s) => Range(f[n]) = {s[i] : i \in 1 .. n \cap K}}
<1>2. 0 \in T
  <2>1. Range(f[0]) = {}
    BY <1>1 DEF Range
  <2> QED BY <2>1
<1>3. ASSUME NEW n \in Nat, n \in T PROVE n + 1 \in T
  <2>0. n + 1 \in Nat
    OBVIOUS
  <2> SUFFICES ASSUME n + 1 <= Len(s)
               PROVE  Range(f[n + 1]) = {s[i] : i \in 1 .. (n + 1) \cap K}
    BY <2>0, Zenon
  <2>1. /\ n + 1 \in 1 .. Len(s) /\ f[n] \in Seq(S) /\ s[n + 1] \in S
        /\ Range(f[n]) = {s[i] : i \in 1 .. n \cap K}
    BY <1>3
  <2>2. f[n + 1] = Taken(f[n], s, n + 1, K)
    BY <1>1, <2>1
  <2>3. CASE n + 1 \in K
    <3>1. f[n + 1] = Append(f[n], s[n + 1])
      BY <2>2, <2>3 DEF Taken
    <3>2. \A q \in Seq(S), x \in S : Range(Append(q, x)) = Range(q) \cup {x}
      <4> SUFFICES ASSUME NEW q \in Seq(S), NEW x \in S
                   PROVE  Range(Append(q, x)) = Range(q) \cup {x}
        OBVIOUS
      <4>1. /\ DOMAIN Append(q, x) = 1 .. Len(q) + 1 /\ DOMAIN q = 1 .. Len(q)
            /\ Len(q) \in Nat /\ \A i \in 1 .. Len(q) : Append(q, x)[i] = q[i]
            /\ Append(q, x)[Len(q) + 1] = x
        OBVIOUS
      <4>2. 1 .. Len(q) + 1 = (1 .. Len(q)) \cup {Len(q) + 1}
        BY <4>1
      <4> QED BY <4>1, <4>2 DEF Range
    <3>3. 1 .. (n + 1) \cap K = (1 .. n \cap K) \cup {n + 1}
      BY <2>3
    <3> QED BY <2>1, <3>1, <3>2, <3>3
  <2>4. CASE n + 1 \notin K
    <3>1. f[n + 1] = f[n]
      BY <2>2, <2>4 DEF Taken
    <3>2. 1 .. (n + 1) \cap K = 1 .. n \cap K
      BY <2>4
    <3> QED BY <2>1, <3>1, <3>2
  <2> QED BY <2>3, <2>4
<1>4. ASSUME NEW n \in T PROVE n <= Len(s) => Range(f[n]) = {s[i] : i \in 1 .. n \cap K}
  OBVIOUS
<1> HIDE DEF T
<1>5. Nat \subseteq T
  BY <1>2, <1>3, Induction
<1>6. DOMAIN s = 1 .. Len(s) /\ Len(s) \in Nat /\ Len(s) <= Len(s)
  OBVIOUS
<1>7. Len(s) \in T
  BY <1>5, <1>6
<1>8. Range(f[Len(s)]) = {s[i] : i \in 1 .. Len(s) \cap K}
  BY <1>4, <1>6, <1>7, Zenon
<1> QED BY <1>1, <1>6, <1>8, Zenon

-----------------------------------------------------------------------------
(* Sums of filters.                                                         *)

LEMMA TotalZero ==
    ASSUME NEW s \in Seq(Int), \A i \in 1 .. Len(s) : s[i] = 0
    PROVE  Total(s) = 0
<1> DEFINE g == [i \in 0 .. Len(s) |-> 0]
<1>1. g[0] = 0 /\ g[Len(s)] = 0
  OBVIOUS
<1>2. \A i \in 1 .. Len(s) : g[i] = g[i - 1] + s[i]
  OBVIOUS
<1> HIDE DEF g
<1> QED BY <1>1, <1>2, TotalUnique

LEMMA TotalPlus ==
    ASSUME NEW a \in Seq(Int), NEW b \in Seq(Int), NEW c \in Seq(Int),
           Len(a) = Len(c), Len(b) = Len(c),
           \A i \in 1 .. Len(c) : c[i] = a[i] + b[i]
    PROVE  Total(c) = Total(a) + Total(b)
<1>1. PICK f \in [0 .. Len(a) -> Int] :
        /\ f[0] = 0 /\ \A i \in 1 .. Len(a) : f[i] = f[i - 1] + a[i]
        /\ Total(a) = f[Len(a)]
  BY TotalRuns
<1>2. PICK h \in [0 .. Len(b) -> Int] :
        /\ h[0] = 0 /\ \A i \in 1 .. Len(b) : h[i] = h[i - 1] + b[i]
        /\ Total(b) = h[Len(b)]
  BY TotalRuns
<1> DEFINE g == [i \in 0 .. Len(c) |-> f[i] + h[i]]
<1>3. g[0] = 0 /\ g[Len(c)] = Total(a) + Total(b)
  BY <1>1, <1>2
<1>4. ASSUME NEW i \in 1 .. Len(c) PROVE g[i] = g[i - 1] + c[i]
  <2>1. f[i] = f[i - 1] + a[i] /\ h[i] = h[i - 1] + b[i]
    BY <1>1, <1>2
  <2>2. g[i] = f[i] + h[i] /\ g[i - 1] = f[i - 1] + h[i - 1]
    OBVIOUS
  <2>3. /\ f[i - 1] \in Int /\ h[i - 1] \in Int /\ a[i] \in Int /\ b[i] \in Int
        /\ c[i] = a[i] + b[i]
    <3>1. /\ i \in 1 .. Len(a) /\ i \in 1 .. Len(b) /\ i - 1 \in 0 .. Len(a)
          /\ i - 1 \in 0 .. Len(b) /\ c[i] = a[i] + b[i]
      OBVIOUS
    <3>2. a[i] \in Int /\ b[i] \in Int
      BY <3>1
    <3>3. f[i - 1] \in Int /\ h[i - 1] \in Int
      BY <3>1
    <3> QED BY <3>1, <3>2, <3>3
  <2> HIDE DEF g
  <2>5. (f[i - 1] + a[i]) + (h[i - 1] + b[i]) = (f[i - 1] + h[i - 1]) + (a[i] + b[i])
    <3> DEFINE p == f[i - 1]
    <3> DEFINE r == h[i - 1]
    <3> DEFINE x == a[i]
    <3> DEFINE y == b[i]
    <3>1. p \in Int /\ r \in Int /\ x \in Int /\ y \in Int
      BY <2>3
    <3> HIDE DEF p, r, x, y
    <3>2. (p + x) + (r + y) = (p + r) + (x + y)
      BY <3>1
    <3> QED BY <3>2 DEF p, r, x, y
  <2> QED BY <2>1, <2>2, <2>3, <2>5, Zenon
<1> HIDE DEF g
<1> QED BY <1>3, <1>4, TotalUnique

\* The measures of a sequence with those outside K counted as 0.
Counted(v, s, K) == [i \in 1 .. Len(s) |-> IF i \in K THEN v[s[i]] ELSE 0]

\* The sum over a filter counts the other elements as 0.
LEMMA PickedSum ==
    ASSUME NEW S, NEW v \in [S -> Int], NEW s \in Seq(S), NEW K
    PROVE  Counted(v, s, K) \in Seq(Int) /\ SumOf(v, Picked(s, K)) = Total(Counted(v, s, K))
<1> DEFINE m == [i \in 1 .. Len(s) |-> IF i \in K THEN v[s[i]] ELSE 0]
<1>0. \A i \in 1 .. Len(s) : s[i] \in S /\ v[s[i]] \in Int
  OBVIOUS
<1>1. m \in Seq(Int) /\ Len(m) = Len(s) /\ Len(s) \in Nat
  BY <1>0
<1>2. PICK f \in [0 .. Len(s) -> Seq(S)] :
              /\ f[0] = << >>
              /\ \A i \in 1 .. Len(s) : f[i] = Taken(f[i - 1], s, i, K)
              /\ Picked(s, K) = f[Len(s)]
  BY PickedRuns
<1> DEFINE g == [i \in 0 .. Len(s) |-> SumOf(v, f[i])]
<1>3. g[0] = 0
  BY <1>2, SumOfEmpty
<1>4. ASSUME NEW i \in 1 .. Len(m) PROVE g[i] = g[i - 1] + m[i]
  <2>1. /\ i \in 1 .. Len(s) /\ f[i] = Taken(f[i - 1], s, i, K)
        /\ f[i - 1] \in Seq(S) /\ s[i] \in S /\ v[s[i]] \in Int
    <3>1. i \in 1 .. Len(s) /\ i - 1 \in 0 .. Len(s)
      BY <1>1
    <3>2. f[i - 1] \in Seq(S)
      BY <3>1
    <3> QED BY <1>0, <1>2, <3>1, <3>2
  <2>2. g[i] = SumOf(v, f[i]) /\ g[i - 1] = SumOf(v, f[i - 1])
    BY <2>1
  <2>3. m[i] = IF i \in K THEN v[s[i]] ELSE 0
    BY <2>1
  <2> HIDE DEF g, m
  <2>4. CASE i \in K
    <3>1. f[i] = Append(f[i - 1], s[i])
      BY <2>1, <2>4 DEF Taken
    <3>2. SumOf(v, f[i]) = SumOf(v, f[i - 1]) + v[s[i]]
      BY <2>1, <3>1, SumOfAppend
    <3> QED BY <2>2, <2>3, <2>4, <3>2
  <2>5. CASE i \notin K
    <3>1. f[i] = f[i - 1]
      BY <2>1, <2>5 DEF Taken
    <3>2. SumOf(v, f[i - 1]) \in Int
      BY <2>1, MeasureType
    <3> QED BY <2>2, <2>3, <2>5, <3>1, <3>2
  <2> QED BY <2>4, <2>5
<1>5. g[Len(s)] = SumOf(v, Picked(s, K))
  BY <1>1, <1>2
<1> HIDE DEF g, m
<1>6. Total(m) = g[Len(m)]
  BY <1>1, <1>3, <1>4, TotalUnique
<1>7. Counted(v, s, K) = m
  BY DEF Counted, m
<1> QED BY <1>1, <1>5, <1>6, <1>7, Zenon

\* The filter of the union of two sets of positions that share none.
LEMMA PickedUnion ==
    ASSUME NEW S, NEW v \in [S -> Int], NEW s \in Seq(S), NEW K, NEW L,
           K \cap L \cap DOMAIN s = {}
    PROVE  SumOf(v, Picked(s, K \cup L))
             = SumOf(v, Picked(s, K)) + SumOf(v, Picked(s, L))
<1> DEFINE a == Counted(v, s, K)
<1> DEFINE b == Counted(v, s, L)
<1> DEFINE c == Counted(v, s, K \cup L)
<1>1. a \in Seq(Int) /\ SumOf(v, Picked(s, K)) = Total(a)
  BY PickedSum, Zenon
<1>6. b \in Seq(Int) /\ SumOf(v, Picked(s, L)) = Total(b)
  BY PickedSum, Zenon
<1>2. c \in Seq(Int) /\ SumOf(v, Picked(s, K \cup L)) = Total(c)
  BY PickedSum, Zenon
<1>3. Len(a) = Len(s) /\ Len(b) = Len(s) /\ Len(c) = Len(s) /\ DOMAIN s = 1 .. Len(s)
  BY DEF Counted
<1>4. ASSUME NEW i \in 1 .. Len(c) PROVE c[i] = a[i] + b[i]
  <2>1. i \in 1 .. Len(s) /\ i \in DOMAIN s /\ v[s[i]] \in Int
    BY <1>3
  <2>2. /\ a[i] = IF i \in K THEN v[s[i]] ELSE 0
        /\ b[i] = IF i \in L THEN v[s[i]] ELSE 0
        /\ c[i] = IF i \in K \cup L THEN v[s[i]] ELSE 0
    BY <2>1 DEF Counted
  <2> HIDE DEF a, b, c
  <2> QED BY <2>1, <2>2
<1> HIDE DEF a, b, c
<1>5. Total(c) = Total(a) + Total(b)
  BY <1>1, <1>2, <1>3, <1>4, <1>6, TotalPlus
<1> QED BY <1>1, <1>2, <1>5, <1>6

\* Two filters that share no position and miss only elements of measure 0 sum up
\* to the sequence.
LEMMA PickedSplit ==
    ASSUME NEW S, NEW v \in [S -> Int], NEW s \in Seq(S), NEW K, NEW L,
           K \cap L \cap DOMAIN s = {},
           \A i \in DOMAIN s : i \in K \/ i \in L
    PROVE  SumOf(v, s) = SumOf(v, Picked(s, K)) + SumOf(v, Picked(s, L))
<1>1. Picked(s, K \cup L) = s
  <2> DEFINE M == K \cup L
  <2>1. DOMAIN s \subseteq M
    OBVIOUS
  <2> HIDE DEF M
  <2>2. Picked(s, M) = s
    BY <2>1, PickedAll
  <2> QED BY <2>2 DEF M
<1> QED BY <1>1, PickedUnion

\* A filter that misses only elements of measure 0.
LEMMA PickedWhole ==
    ASSUME NEW S, NEW v \in [S -> Int], NEW s \in Seq(S), NEW K,
           \A i \in DOMAIN s : i \in K \/ v[s[i]] = 0
    PROVE  SumOf(v, Picked(s, K)) = SumOf(v, s)
<1> DEFINE a == Counted(v, s, K)
<1>1. a = [i \in DOMAIN s |-> v[s[i]]]
  BY DEF Counted
<1>2. SumOf(v, Picked(s, K)) = Total(a)
  BY PickedSum, Zenon
<1> HIDE DEF a
<1> QED BY <1>1, <1>2 DEF SumOf

-----------------------------------------------------------------------------
(* Prices and whole shares.                                                 *)

LEMMA ProductType ==
    /\ \A x, y \in Nat : x * y \in Nat
    /\ \A x, y \in Int : x * y \in Int
    /\ \A x, y, z \in Nat : x <= y => x * z <= y * z
<1>1. \A x, y \in Nat : x * y \in Nat
  OBVIOUS
<1>2. \A x, y \in Int : x * y \in Int
  OBVIOUS
<1>3. \A x, y, z \in Nat : x <= y => x * z <= y * z
  OBVIOUS
<1> QED BY <1>1, <1>2, <1>3

\* Division by a positive number: its type, what it loses, and its order.
LEMMA Quotient ==
    ASSUME NEW x \in Nat, NEW n \in Nat \ {0}
    PROVE  /\ x \div n \in Nat
           /\ (x \div n) * n <= x
           /\ \A y \in Nat : x <= y => x \div n <= y \div n
<1>1. x \div n \in Int /\ x \div n >= 0
  OBVIOUS
<1>2. (x \div n) * n <= x
  OBVIOUS
<1>3. \A y \in Nat : x <= y => x \div n <= y \div n
  OBVIOUS
<1> QED BY <1>1, <1>2, <1>3

LEMMA ExSharesType ==
    ASSUME NEW q \in Nat
    PROVE  /\ ExShares(q) \in Nat /\ ExCredit(q) \in Nat /\ ExShares(0) = 0
           /\ \A r \in Nat : q <= r => ExShares(q) <= ExShares(r)
<1>1. LastClose \in Nat /\ PreClose \in Nat \ {0}
  BY BrokerAssumption
<1>2. \A r \in Nat : r * LastClose \in Nat /\ (q <= r => q * LastClose <= r * LastClose)
  BY <1>1, ProductType
<1>3. ExShares(q) \in Nat /\ ExShares(q) * PreClose <= q * LastClose
  BY <1>1, <1>2, Quotient DEF ExShares
<1>4. ExShares(q) * PreClose \in Nat /\ q * LastClose \in Nat
  BY <1>1, <1>2, <1>3, ProductType
<1>5. ExCredit(q) \in Nat
  BY <1>3, <1>4 DEF ExCredit
<1>6. ExShares(0) = 0
  BY <1>1 DEF ExShares
<1>7. \A r \in Nat : q <= r => ExShares(q) <= ExShares(r)
  BY <1>1, <1>2, Quotient DEF ExShares
<1> QED BY <1>3, <1>5, <1>6, <1>7

-----------------------------------------------------------------------------
(* Lots.                                                                    *)

Lot == [q : Nat, day : Int]
Shares == [l \in Lot |-> l.q]

LEMMA SharesType == Shares \in [Lot -> Int]
BY DEF Shares, Lot

LEMMA LotsAt ==
    ASSUME NEW lots \in Seq(Lot), NEW i \in DOMAIN lots
    PROVE  lots[i] \in Lot /\ lots[i].q \in Nat /\ lots[i].day \in Int
<1>1. lots[i] \in Lot
  OBVIOUS
<1> QED BY <1>1 DEF Lot

LEMMA LotSumIs ==
    ASSUME NEW lots \in Seq(Lot) PROVE LotSum(lots) = SumOf(Shares, lots)
<1>1. \A i \in DOMAIN lots : lots[i] \in Lot
  OBVIOUS
<1>2. [i \in DOMAIN lots |-> lots[i].q] = [i \in DOMAIN lots |-> Shares[lots[i]]]
  BY <1>1 DEF Shares
<1> QED BY <1>2 DEF LotSum, SumOf

\* The running totals of some lots.
LEMMA Running ==
    ASSUME NEW lots \in Seq(Lot)
    PROVE  /\ Upto(lots, 0) = 0 /\ Upto(lots, Len(lots)) = LotSum(lots)
           /\ \A i \in 0 .. Len(lots) : Upto(lots, i) \in Nat
           /\ \A i \in 1 .. Len(lots) : Upto(lots, i) = Upto(lots, i - 1) + lots[i].q
           /\ LotSum(lots) \in Nat
<1>1. \A i \in 1 .. Len(lots) : lots[i] \in Lot /\ lots[i].q \in Nat
  BY LotsAt
<1>2. \A i \in 0 .. Len(lots) : SubSeq(lots, 1, i) \in Seq(Lot)
  OBVIOUS
<1>3. Upto(lots, 0) = 0
  <2>1. SubSeq(lots, 1, 0) = << >> /\ << >> \in Seq(Lot)
    OBVIOUS
  <2> QED BY <2>1, LotSumIs, SumOfEmpty DEF Upto
<1>4. Upto(lots, Len(lots)) = LotSum(lots)
  <2>1. SubSeq(lots, 1, Len(lots)) = lots
    OBVIOUS
  <2> QED BY <2>1 DEF Upto
<1>5. ASSUME NEW i \in 1 .. Len(lots)
      PROVE  Upto(lots, i) = Upto(lots, i - 1) + lots[i].q
  <2>1. SubSeq(lots, 1, i) = Append(SubSeq(lots, 1, i - 1), lots[i])
    OBVIOUS
  <2>2. SubSeq(lots, 1, i) \in Seq(Lot) /\ SubSeq(lots, 1, i - 1) \in Seq(Lot)
    BY <1>2
  <2>3. SumOf(Shares, SubSeq(lots, 1, i))
          = SumOf(Shares, SubSeq(lots, 1, i - 1)) + Shares[lots[i]]
    BY <1>1, <2>1, <2>2, SumOfAppend, SharesType
  <2>4. Shares[lots[i]] = lots[i].q
    BY <1>1 DEF Shares
  <2> QED BY <2>2, <2>3, <2>4, LotSumIs DEF Upto
<1> DEFINE T == {n \in Nat : n <= Len(lots) => Upto(lots, n) \in Nat}
<1>6. 0 \in T
  BY <1>3
<1>7. ASSUME NEW n \in Nat, n \in T PROVE n + 1 \in T
  <2> SUFFICES ASSUME n + 1 <= Len(lots) PROVE Upto(lots, n + 1) \in Nat
    OBVIOUS
  <2>1. n + 1 \in 1 .. Len(lots) /\ Upto(lots, n) \in Nat /\ (n + 1) - 1 = n
    BY <1>7
  <2> QED BY <1>1, <1>5, <2>1
<1> HIDE DEF T
<1>8. Nat \subseteq T
  BY <1>6, <1>7, Induction
<1>9. \A i \in 0 .. Len(lots) : Upto(lots, i) \in Nat
  BY <1>8 DEF T
<1> QED BY <1>3, <1>4, <1>5, <1>9

\* Dropping the empty lots.
LEMMA KeptLots ==
    ASSUME NEW lots \in Seq(Lot)
    PROVE  Kept(lots) \in Seq(Lot) /\ LotSum(Kept(lots)) = LotSum(lots)
<1> DEFINE K == {i \in DOMAIN lots : lots[i].q > 0}
<1>1. \A i \in DOMAIN lots : i \in K \/ Shares[lots[i]] = 0
  <2> SUFFICES ASSUME NEW i \in DOMAIN lots, ~ (lots[i].q > 0) PROVE Shares[lots[i]] = 0
    OBVIOUS
  <2>1. lots[i] \in Lot /\ lots[i].q \in Nat
    BY LotsAt
  <2> QED BY <2>1 DEF Shares
<1> HIDE DEF K
<1>2. Picked(lots, K) \in Seq(Lot)
  BY PickedType
<1>3. SumOf(Shares, Picked(lots, K)) = SumOf(Shares, lots)
  BY <1>1, SharesType, PickedWhole
<1> QED BY <1>2, <1>3, LotSumIs DEF Kept, K

\* Lots that take the differences of a running count sum up to the count.
LEMMA Recounted ==
    ASSUME NEW lots \in Seq(Lot), NEW g, g[0] = 0,
           \A i \in 1 .. Len(lots) : lots[i].q = g[i] - g[i - 1] /\ g[i] \in Int
    PROVE  LotSum(lots) = g[Len(lots)]
<1> DEFINE m == [i \in DOMAIN lots |-> lots[i].q]
<1>1. \A i \in DOMAIN lots : lots[i] \in Lot /\ lots[i].q \in Int
  BY LotsAt
<1>2. m \in Seq(Int) /\ Len(m) = Len(lots) /\ Len(lots) \in Nat /\ DOMAIN lots = 1 .. Len(lots)
  BY <1>1
<1>3. \A i \in 0 .. Len(lots) : g[i] \in Int
  BY <1>2
<1>4. ASSUME NEW i \in 1 .. Len(m) PROVE g[i] = g[i - 1] + m[i]
  <2>1. i \in 1 .. Len(lots) /\ i - 1 \in 0 .. Len(lots) /\ i \in 0 .. Len(lots)
    BY <1>2
  <2>2. m[i] = g[i] - g[i - 1] /\ g[i] \in Int /\ g[i - 1] \in Int
    BY <1>2, <1>3, <2>1
  <2> HIDE DEF m
  <2> QED BY <2>2
<1> HIDE DEF m
<1>5. Total(m) = g[Len(m)]
  BY <1>2, <1>4, TotalUnique
<1> QED BY <1>2, <1>5 DEF LotSum, m

\* Lots with their quantities replaced by the differences of a running count.
Requantifies(new, g, lots) ==
    /\ new = [i \in DOMAIN lots |-> [lots[i] EXCEPT !.q = new[i].q]]
    /\ \A i \in 1 .. Len(lots) :
          /\ new[i].q = g[i] - g[i - 1]
          /\ g[i] \in Int /\ new[i].q \in Nat

LEMMA Requantified ==
    ASSUME NEW lots \in Seq(Lot), NEW g, g[0] = 0,
           NEW new, Requantifies(new, g, lots)
    PROVE  /\ Kept(new) \in Seq(Lot) /\ LotSum(Kept(new)) = g[Len(lots)]
<1>0. /\ new = [i \in DOMAIN lots |-> [lots[i] EXCEPT !.q = new[i].q]]
      /\ \A i \in 1 .. Len(lots) :
            /\ new[i].q = g[i] - g[i - 1]
            /\ g[i] \in Int /\ new[i].q \in Nat
  BY DEF Requantifies
<1>1. DOMAIN lots = 1 .. Len(lots) /\ Len(lots) \in Nat
  OBVIOUS
<1>2. ASSUME NEW i \in DOMAIN lots PROVE new[i] \in Lot
  <2>1. new[i] = [lots[i] EXCEPT !.q = new[i].q] /\ new[i].q \in Nat
    BY <1>0, <1>1
  <2>2. PICK a \in Nat, b \in Int : lots[i] = [q |-> a, day |-> b]
    BY LotsAt DEF Lot
  <2>3. \A x \in Nat : [lots[i] EXCEPT !.q = x] = [q |-> x, day |-> b]
    BY <2>2
  <2>4. new[i] = [q |-> new[i].q, day |-> b]
    BY <2>1, <2>3
  <2>5. \A x \in Nat : [q |-> x, day |-> b] \in Lot
    BY DEF Lot
  <2> QED BY <2>1, <2>4, <2>5
<1>3. new = [i \in 1 .. Len(lots) |-> new[i]]
  BY <1>0, <1>1
<1>4. new \in [1 .. Len(lots) -> Lot]
  BY <1>1, <1>2, <1>3
<1>5. new \in Seq(Lot) /\ Len(new) = Len(lots)
  BY <1>1, <1>4
<1>6. LotSum(new) = g[Len(new)]
  BY <1>0, <1>5, Recounted
<1> QED BY <1>5, <1>6, KeptLots

\* An ex-date resizes the lots to the resized holding.
LEMMA ResizedLots ==
    ASSUME NEW lots \in Seq(Lot)
    PROVE  Resized(lots) \in Seq(Lot) /\ LotSum(Resized(lots)) = ExShares(LotSum(lots))
<1> DEFINE n == Len(lots)
<1> DEFINE g == [i \in 0 .. n |-> ExShares(Upto(lots, i))]
<1> DEFINE new == [i \in DOMAIN lots |->
                     [lots[i] EXCEPT !.q = ExShares(Upto(lots, i)) - ExShares(Upto(lots, i - 1))]]
<1>1. /\ Upto(lots, 0) = 0 /\ Upto(lots, n) = LotSum(lots) /\ n \in Nat
      /\ \A i \in 0 .. n : Upto(lots, i) \in Nat
      /\ \A i \in 1 .. n : Upto(lots, i) = Upto(lots, i - 1) + lots[i].q
  BY Running
<1>2. ASSUME NEW i \in 1 .. n
      PROVE  /\ new[i].q = g[i] - g[i - 1] /\ g[i] \in Int /\ new[i].q \in Nat
             /\ new[i] = [lots[i] EXCEPT !.q = new[i].q]
  <2>1. /\ i \in DOMAIN lots /\ i - 1 \in 0 .. n /\ i \in 0 .. n
        /\ lots[i] \in Lot /\ lots[i].q \in Nat
    BY <1>1, LotsAt
  <2>2. Upto(lots, i) \in Nat /\ Upto(lots, i - 1) \in Nat
    BY <1>1, <2>1
  <2>3. Upto(lots, i - 1) <= Upto(lots, i)
    BY <1>1, <2>1, <2>2
  <2>4. /\ ExShares(Upto(lots, i)) \in Nat /\ ExShares(Upto(lots, i - 1)) \in Nat
        /\ ExShares(Upto(lots, i - 1)) <= ExShares(Upto(lots, i))
    BY <2>2, <2>3, ExSharesType
  <2>5. g[i] = ExShares(Upto(lots, i)) /\ g[i - 1] = ExShares(Upto(lots, i - 1))
    BY <2>1
  <2>6. new[i] = [lots[i] EXCEPT !.q = ExShares(Upto(lots, i)) - ExShares(Upto(lots, i - 1))]
    BY <2>1
  <2> HIDE DEF g, new
  <2>7. new[i].q = ExShares(Upto(lots, i)) - ExShares(Upto(lots, i - 1))
    BY <2>1, <2>6 DEF Lot
  <2> QED BY <2>4, <2>5, <2>6, <2>7
<1>3. new = [i \in DOMAIN lots |-> [lots[i] EXCEPT !.q = new[i].q]]
  <2>1. DOMAIN lots = 1 .. n /\ new = [i \in DOMAIN lots |-> new[i]]
    OBVIOUS
  <2> HIDE DEF new, g, n
  <2> QED BY <1>2, <2>1
<1>4. g[0] = 0 /\ g[n] = ExShares(LotSum(lots))
  BY <1>1, ExSharesType
<1>5. Kept(new) = Resized(lots)
  BY DEF Resized
<1> HIDE DEF g, new
<1>6. Kept(new) \in Seq(Lot) /\ LotSum(Kept(new)) = g[n]
  <2>1. Requantifies(new, g, lots)
    BY <1>2, <1>3 DEF Requantifies
  <2> QED BY <1>4, <2>1, Requantified, Zenon
<1> QED BY <1>4, <1>5, <1>6

\* What a lot of l shares loses when u shares lie before it and q are taken from
\* the front.
LEMMA ShareLeft ==
    ASSUME NEW u \in Nat, NEW l \in Nat, NEW q \in Int
    PROVE  /\ AtLeast0(l - AtLeast0(q - u)) = AtLeast0((u + l) - q) - AtLeast0(u - q)
           /\ AtLeast0(l - AtLeast0(q - u)) \in Nat
           /\ AtLeast0((u + l) - q) \in Int
BY DEF AtLeast0

\* A sale leaves the lots, first in first out, with what the holding has left.
LEMMA ReleasedLots ==
    ASSUME NEW lots \in Seq(Lot), NEW q \in Nat, q <= LotSum(lots)
    PROVE  Release(lots, q) \in Seq(Lot) /\ LotSum(Release(lots, q)) = LotSum(lots) - q
<1> DEFINE n == Len(lots)
<1> DEFINE g == [i \in 0 .. n |-> AtLeast0(Upto(lots, i) - q)]
<1> DEFINE new == [i \in DOMAIN lots |->
                     [lots[i] EXCEPT !.q = AtLeast0(@ - AtLeast0(q - Upto(lots, i - 1)))]]
<1>1. /\ Upto(lots, 0) = 0 /\ Upto(lots, n) = LotSum(lots) /\ n \in Nat
      /\ \A i \in 0 .. n : Upto(lots, i) \in Nat
      /\ \A i \in 1 .. n : Upto(lots, i) = Upto(lots, i - 1) + lots[i].q
  BY Running
<1>2. ASSUME NEW i \in 1 .. n
      PROVE  /\ new[i].q = g[i] - g[i - 1] /\ g[i] \in Int /\ new[i].q \in Nat
             /\ new[i] = [lots[i] EXCEPT !.q = new[i].q]
  <2>1. /\ i \in DOMAIN lots /\ i - 1 \in 0 .. n /\ i \in 0 .. n
        /\ lots[i] \in Lot /\ lots[i].q \in Nat
    BY <1>1, LotsAt
  <2>2. Upto(lots, i) \in Nat /\ Upto(lots, i - 1) \in Nat
        /\ Upto(lots, i) = Upto(lots, i - 1) + lots[i].q
    BY <1>1, <2>1
  <2>5. g[i] = AtLeast0(Upto(lots, i) - q) /\ g[i - 1] = AtLeast0(Upto(lots, i - 1) - q)
    BY <2>1
  <2>6. new[i] = [lots[i] EXCEPT !.q = AtLeast0(lots[i].q - AtLeast0(q - Upto(lots, i - 1)))]
    BY <2>1
  <2> HIDE DEF g, new
  <2>7. new[i].q = AtLeast0(lots[i].q - AtLeast0(q - Upto(lots, i - 1)))
    BY <2>1, <2>6 DEF Lot
  <2>8. g[i] = AtLeast0((Upto(lots, i - 1) + lots[i].q) - q)
    BY <2>2, <2>5
  <2> DEFINE u == Upto(lots, i - 1)
  <2> DEFINE l == lots[i].q
  <2>9. /\ u \in Nat /\ l \in Nat /\ q \in Int
        /\ new[i].q = AtLeast0(l - AtLeast0(q - u))
        /\ g[i] = AtLeast0((u + l) - q) /\ g[i - 1] = AtLeast0(u - q)
    BY <2>1, <2>2, <2>5, <2>7, <2>8
  <2> HIDE DEF u, l
  <2>10. /\ AtLeast0(l - AtLeast0(q - u)) = AtLeast0((u + l) - q) - AtLeast0(u - q)
         /\ AtLeast0(l - AtLeast0(q - u)) \in Nat /\ AtLeast0((u + l) - q) \in Int
    BY <2>9, ShareLeft, Zenon
  <2> QED BY <2>6, <2>7, <2>9, <2>10, Zenon
<1>3. new = [i \in DOMAIN lots |-> [lots[i] EXCEPT !.q = new[i].q]]
  <2>1. DOMAIN lots = 1 .. n /\ new = [i \in DOMAIN lots |-> new[i]]
    OBVIOUS
  <2> HIDE DEF new, g, n
  <2> QED BY <1>2, <2>1
<1>4. g[0] = 0 /\ g[n] = LotSum(lots) - q
  <2>1. g[0] = AtLeast0(0 - q) /\ g[n] = AtLeast0(LotSum(lots) - q) /\ LotSum(lots) \in Nat
    BY <1>1, Running
  <2> HIDE DEF g
  <2> QED BY <2>1 DEF AtLeast0
<1>5. Kept(new) = Release(lots, q)
  BY DEF Release
<1> HIDE DEF g, new
<1>6. Kept(new) \in Seq(Lot) /\ LotSum(Kept(new)) = g[n]
  <2>1. Requantifies(new, g, lots)
    BY <1>2, <1>3 DEF Requantifies
  <2> QED BY <1>4, <2>1, Requantified, Zenon
<1> QED BY <1>4, <1>5, <1>6

\* Shares taken back leave a session's lots with what it has left of them.
LEMMA ShrunkLots ==
    ASSUME NEW lots \in Seq(Lot), NEW left \in Nat, left <= LotSum(lots)
    PROVE  LET shrunk == Kept([ i \in DOMAIN lots |->
                 [lots[i] EXCEPT !.q = AtLeast0(IF left - Upto(lots, i - 1) < @
                                                THEN left - Upto(lots, i - 1) ELSE @)] ])
           IN shrunk \in Seq(Lot) /\ LotSum(shrunk) = left
<1> DEFINE n == Len(lots)
<1> DEFINE g == [i \in 0 .. n |-> IF Upto(lots, i) < left THEN Upto(lots, i) ELSE left]
<1> DEFINE new == [i \in DOMAIN lots |->
                     [lots[i] EXCEPT !.q = AtLeast0(IF left - Upto(lots, i - 1) < @
                                                    THEN left - Upto(lots, i - 1) ELSE @)]]
<1>1. /\ Upto(lots, 0) = 0 /\ Upto(lots, n) = LotSum(lots) /\ n \in Nat
      /\ \A i \in 0 .. n : Upto(lots, i) \in Nat
      /\ \A i \in 1 .. n : Upto(lots, i) = Upto(lots, i - 1) + lots[i].q
  BY Running
<1>2. ASSUME NEW i \in 1 .. n
      PROVE  /\ new[i].q = g[i] - g[i - 1] /\ g[i] \in Int /\ new[i].q \in Nat
             /\ new[i] = [lots[i] EXCEPT !.q = new[i].q]
  <2>1. /\ i \in DOMAIN lots /\ i - 1 \in 0 .. n /\ i \in 0 .. n
        /\ lots[i] \in Lot /\ lots[i].q \in Nat
    BY <1>1, LotsAt
  <2>2. Upto(lots, i) \in Nat /\ Upto(lots, i - 1) \in Nat
        /\ Upto(lots, i) = Upto(lots, i - 1) + lots[i].q
    BY <1>1, <2>1
  <2>5. /\ g[i] = IF Upto(lots, i) < left THEN Upto(lots, i) ELSE left
        /\ g[i - 1] = IF Upto(lots, i - 1) < left THEN Upto(lots, i - 1) ELSE left
    BY <2>1
  <2>6. new[i] = [lots[i] EXCEPT !.q = AtLeast0(IF left - Upto(lots, i - 1) < lots[i].q
                                                THEN left - Upto(lots, i - 1) ELSE lots[i].q)]
    BY <2>1
  <2> HIDE DEF g, new
  <2>7. new[i].q = AtLeast0(IF left - Upto(lots, i - 1) < lots[i].q
                            THEN left - Upto(lots, i - 1) ELSE lots[i].q)
    BY <2>1, <2>6 DEF Lot
  <2> DEFINE u == Upto(lots, i - 1)
  <2> DEFINE l == lots[i].q
  <2>8. /\ u \in Nat /\ l \in Nat /\ g[i] = IF u + l < left THEN u + l ELSE left
        /\ g[i - 1] = IF u < left THEN u ELSE left
        /\ new[i].q = AtLeast0(IF left - u < l THEN left - u ELSE l)
    BY <2>1, <2>2, <2>5, <2>7
  <2> HIDE DEF u, l
  <2> DEFINE end == IF u + l < left THEN u + l ELSE left
  <2> DEFINE start == IF u < left THEN u ELSE left
  <2> DEFINE kept == AtLeast0(IF left - u < l THEN left - u ELSE l)
  <2>9. kept = end - start /\ end \in Int /\ kept \in Nat
    BY <2>8 DEF AtLeast0
  <2>10. g[i] = end /\ g[i - 1] = start /\ new[i].q = kept
    BY <2>8, Zenon
  <2> HIDE DEF end, start, kept
  <2> QED BY <2>6, <2>9, <2>10, Zenon
<1>3. new = [i \in DOMAIN lots |-> [lots[i] EXCEPT !.q = new[i].q]]
  <2>1. DOMAIN lots = 1 .. n /\ new = [i \in DOMAIN lots |-> new[i]]
    OBVIOUS
  <2> HIDE DEF new, g, n
  <2> QED BY <1>2, <2>1
<1>4. g[0] = 0 /\ g[n] = left
  <2>1. /\ g[0] = IF 0 < left THEN 0 ELSE left
        /\ g[n] = IF LotSum(lots) < left THEN LotSum(lots) ELSE left
        /\ LotSum(lots) \in Nat
    BY <1>1, Running
  <2> HIDE DEF g
  <2> QED BY <2>1
<1> HIDE DEF g
<1>6. Kept(new) \in Seq(Lot) /\ LotSum(Kept(new)) = g[n]
  <2> HIDE DEF new
  <2>1. Requantifies(new, g, lots)
    BY <1>2, <1>3 DEF Requantifies
  <2> QED BY <1>4, <2>1, Requantified, Zenon
<1> QED BY <1>4, <1>6

\* A session's lots, those before it and those after it are the lots.
LEMMA LotsByDay ==
    ASSUME NEW lots \in Seq(Lot), NEW s \in Int
    PROVE  LET before == Picked(lots, { i \in DOMAIN lots : lots[i].day < s }) IN
           /\ OldLots(lots, s) \in Seq(Lot) /\ NewLots(lots, s) \in Seq(Lot)
           /\ LotsOf(lots, s) \in Seq(Lot) /\ before \in Seq(Lot)
           /\ LotSum(lots) = LotSum(OldLots(lots, s)) + LotSum(NewLots(lots, s))
           /\ LotSum(OldLots(lots, s)) = LotSum(before) + LotSum(LotsOf(lots, s))
<1> DEFINE Old == { i \in DOMAIN lots : lots[i].day <= s }
<1> DEFINE New == { i \in DOMAIN lots : lots[i].day > s }
<1> DEFINE Of == { i \in DOMAIN lots : lots[i].day = s }
<1> DEFINE Before == { i \in DOMAIN lots : lots[i].day < s }
<1>1. \A i \in DOMAIN lots : lots[i] \in Lot /\ lots[i].day \in Int
  BY LotsAt
<1>2. Old \cap New \cap DOMAIN lots = {} /\ \A i \in DOMAIN lots : i \in Old \/ i \in New
  BY <1>1
<1>3. /\ Of \cap Before \cap DOMAIN lots = {}
      /\ Of \cap New \cap DOMAIN lots = {}
      /\ (Of \cup New) \cap Before \cap DOMAIN lots = {}
      /\ \A i \in DOMAIN lots : i \in Of \cup New \/ i \in Before
  BY <1>1
<1>4. Of \cup Before = Old
  BY <1>1
<1> HIDE DEF Old, New, Of, Before
<1>5. /\ Picked(lots, Old) \in Seq(Lot) /\ Picked(lots, New) \in Seq(Lot)
      /\ Picked(lots, Of) \in Seq(Lot) /\ Picked(lots, Before) \in Seq(Lot)
  BY PickedType
<1>6. SumOf(Shares, lots) = SumOf(Shares, Picked(lots, Old)) + SumOf(Shares, Picked(lots, New))
  BY <1>2, SharesType, PickedSplit
<1>7. SumOf(Shares, Picked(lots, Old))
        = SumOf(Shares, Picked(lots, Before)) + SumOf(Shares, Picked(lots, Of))
  BY <1>3, <1>4, SharesType, PickedUnion
<1> QED BY <1>5, <1>6, <1>7, LotSumIs DEF Old, New, Of, Before, OldLots, NewLots, LotsOf

\* A correction moves the lots by the shares it books.
LEMMA MovedLots ==
    ASSUME NEW lots \in Seq(Lot), NEW s \in Int, NEW shares \in Int,
           shares < 0 => -shares <= LotSum(LotsOf(lots, s))
    PROVE  MoveLots(lots, s, shares) \in Seq(Lot)
           /\ LotSum(MoveLots(lots, s, shares)) = LotSum(lots) + shares
<1> DEFINE before == Picked(lots, { i \in DOMAIN lots : lots[i].day < s })
<1> DEFINE old == OldLots(lots, s)
<1> DEFINE new == NewLots(lots, s)
<1> DEFINE of == LotsOf(lots, s)
<1>1. /\ old \in Seq(Lot) /\ new \in Seq(Lot) /\ of \in Seq(Lot) /\ before \in Seq(Lot)
      /\ LotSum(lots) = LotSum(old) + LotSum(new)
      /\ LotSum(old) = LotSum(before) + LotSum(of)
  BY LotsByDay
<1>2. LotSum(old) \in Nat /\ LotSum(new) \in Nat /\ LotSum(before) \in Nat /\ LotSum(of) \in Nat
  <2> HIDE DEF old, new, before, of
  <2> QED BY <1>1, Running
<1>3. ASSUME NEW x \in Seq(Lot), NEW y \in Seq(Lot), NEW z \in Seq(Lot)
      PROVE  x \o y \o z \in Seq(Lot) /\ LotSum(x \o y \o z) = LotSum(x) + LotSum(y) + LotSum(z)
  <2>1. x \o y \in Seq(Lot) /\ SumOf(Shares, x \o y) = SumOf(Shares, x) + SumOf(Shares, y)
    BY SharesType, SumOfConcat
  <2> DEFINE w == x \o y
  <2>2. w \in Seq(Lot)
    BY <2>1
  <2> HIDE DEF w
  <2>3. w \o z \in Seq(Lot) /\ SumOf(Shares, w \o z) = SumOf(Shares, w) + SumOf(Shares, z)
    BY <2>2, SharesType, SumOfConcat
  <2>4. LotSum(w \o z) = SumOf(Shares, w \o z)
    BY <2>3, LotSumIs
  <2>5. LotSum(x) = SumOf(Shares, x) /\ LotSum(y) = SumOf(Shares, y) /\ LotSum(z) = SumOf(Shares, z)
    BY LotSumIs
  <2> QED BY <2>1, <2>3, <2>4, <2>5 DEF w
<1>4. CASE shares > 0
  <2> DEFINE one == <<[q |-> shares, day |-> s]>>
  <2>1. [q |-> shares, day |-> s] \in Lot
    BY <1>4 DEF Lot
  <2>2. one \in Seq(Lot)
    BY <2>1
  <2>3. LotSum(one) = shares
    <3> DEFINE l == [q |-> shares, day |-> s]
    <3>1. l \in Lot /\ l.q = shares
      BY <2>1
    <3> HIDE DEF l
    <3>2. SumOf(Shares, <<l>>) = Shares[l] /\ <<l>> \in Seq(Lot)
      BY <3>1, SharesType, SumOfOne
    <3>3. Shares[l] = shares
      BY <3>1 DEF Shares
    <3> QED BY <3>2, <3>3, LotSumIs DEF l
  <2>4. MoveLots(lots, s, shares) = old \o one \o new
    BY <1>4 DEF MoveLots
  <2> HIDE DEF one, old, new, of, before
  <2>5. MoveLots(lots, s, shares) \in Seq(Lot)
        /\ LotSum(MoveLots(lots, s, shares)) = LotSum(old) + LotSum(one) + LotSum(new)
    BY <1>1, <1>3, <2>2, <2>4
  <2> QED BY <1>1, <1>2, <2>3, <2>5
<1>5. CASE ~ (shares > 0)
  <2> DEFINE left == LotSum(of) - (-shares)
  <2> DEFINE shrunk ==
        Kept([ i \in DOMAIN of |->
               [of[i] EXCEPT !.q = AtLeast0(IF left - Upto(of, i - 1) < @
                                            THEN left - Upto(of, i - 1) ELSE @)] ])
  <2>1. left \in Nat /\ left <= LotSum(of)
    <3>1. shares < 0 => -shares <= LotSum(of)
      OBVIOUS
    <3> HIDE DEF of
    <3> QED BY <1>2, <1>5, <3>1
  <2>2. shrunk \in Seq(Lot) /\ LotSum(shrunk) = left
    <3> HIDE DEF left, of
    <3> QED BY <1>1, <2>1, ShrunkLots
  <2>3. MoveLots(lots, s, shares) = before \o shrunk \o new
    BY <1>5 DEF MoveLots, Reduced
  <2> HIDE DEF shrunk
  <2>4. MoveLots(lots, s, shares) \in Seq(Lot)
        /\ LotSum(MoveLots(lots, s, shares)) = LotSum(before) + LotSum(shrunk) + LotSum(new)
    <3> HIDE DEF left, of, new, before, old
    <3> QED BY <1>1, <1>3, <2>2, <2>3
  <2>5. LotSum(shrunk) = LotSum(of) + shares
    <3> HIDE DEF of
    <3> QED BY <1>2, <2>2
  <2> HIDE DEF left, of, new, before, old
  <2> QED BY <1>1, <1>2, <2>4, <2>5
<1> QED BY <1>4, <1>5

-----------------------------------------------------------------------------
(* The account.                                                             *)

Accounts == [cash : Nat, held : Nat, avail : Nat, lots : Seq(Lot), day : Int]

\* No more may be sold than is held, and on a taxed book the lots are the holding.
Sound(a) ==
    /\ a \in Accounts
    /\ a.avail <= a.held
    /\ DividendTax => LotSum(a.lots) = a.held

LEMMA RaisedIs ==
    /\ Raised(Failed)
    /\ \A a : Sound(a) => ~ Raised(a)
<1>1. Raised(Failed)
  BY DEF Raised, Failed
<1>2. \A a : Sound(a) => ~ Raised(a)
  BY DEF Sound, Accounts, Raised
<1> QED BY <1>1, <1>2

LEMMA OpenDaySound ==
    ASSUME NEW a, Sound(a), NEW d \in Int, NEW ex \in BOOLEAN
    PROVE  LET b == OpenDay(a, d, ex) IN
           /\ b = Failed \/ (Sound(b) /\ b.avail <= a.held)
           /\ ~ Settles(a, d, ex) => Sound(b) /\ b.cash = a.cash /\ b.held = a.held
<1>1. PICK c \in Nat, h \in Nat, v \in Nat, l \in Seq(Lot), e \in Int :
        a = [cash |-> c, held |-> h, avail |-> v, lots |-> l, day |-> e]
  BY DEF Sound, Accounts
<1>2. v <= h /\ (DividendTax => LotSum(l) = h)
  BY <1>1 DEF Sound
<1>3. CASE a.day = d
  BY <1>3 DEF OpenDay, Sound
<1>4. CASE a.day # d /\ ~ Settles(a, d, ex)
  <2>1. OpenDay(a, d, ex) = [a EXCEPT !.day = d, !.avail = a.held]
    BY <1>4 DEF OpenDay
  <2>2. OpenDay(a, d, ex) = [cash |-> c, held |-> h, avail |-> h, lots |-> l, day |-> d]
    BY <1>1, <2>1
  <2> QED BY <1>1, <1>2, <2>2 DEF Sound, Accounts
<1>5. CASE a.day # d /\ Settles(a, d, ex)
  <2>1. OpenDay(a, d, ex) =
          IF ExShares(h) <= 0 THEN Failed
          ELSE [cash |-> c + ExCredit(h), held |-> ExShares(h),
                avail |-> Unlocked(h, ExShares(h)), lots |-> Resized(l), day |-> d]
    BY <1>1, <1>5 DEF OpenDay
  <2>2. ExShares(h) \in Nat /\ ExCredit(h) \in Nat
    BY ExSharesType
  <2>4. /\ Unlocked(h, ExShares(h)) \in Nat
        /\ Unlocked(h, ExShares(h)) <= h /\ Unlocked(h, ExShares(h)) <= ExShares(h)
    BY <2>2 DEF Unlocked
  <2>3. Resized(l) \in Seq(Lot) /\ (DividendTax => LotSum(Resized(l)) = ExShares(h))
    BY <1>2, ResizedLots
  <2>5. ASSUME NEW x \in Nat, NEW u \in Nat, NEW k \in Nat, NEW m \in Seq(Lot),
               u <= h, u <= x, DividendTax => LotSum(m) = x,
               NEW b, b = [cash |-> k, held |-> x, avail |-> u, lots |-> m, day |-> d]
        PROVE  Sound(b) /\ b.avail <= h
    BY <2>5 DEF Sound, Accounts
  <2>6. c + ExCredit(h) \in Nat
    BY <2>2
  <2>7. OpenDay(a, d, ex) = Failed
        \/ (Sound(OpenDay(a, d, ex)) /\ OpenDay(a, d, ex).avail <= h)
    BY <2>1, <2>2, <2>3, <2>4, <2>5, <2>6
  <2> QED BY <1>1, <1>5, <2>7
<1> QED BY <1>3, <1>4, <1>5

LEMMA ExecuteSound ==
    ASSUME NEW a, Sound(a), NEW side \in {"buy", "sell"}, NEW q \in Nat, NEW price \in Nat
    PROVE  LET b == Execute(a, side, q, price) IN
           \/ b = Failed
           \/ /\ Sound(b) /\ b.held = a.held + (IF side = "buy" THEN q ELSE -q)
              /\ b.avail = a.avail + (IF side = "buy" THEN 0 ELSE -q)
<1>1. PICK c \in Nat, h \in Nat, v \in Nat, l \in Seq(Lot), e \in Int :
        a = [cash |-> c, held |-> h, avail |-> v, lots |-> l, day |-> e]
  BY DEF Sound, Accounts
<1>2. v <= h /\ (DividendTax => LotSum(l) = h) /\ q * price \in Nat /\ DividendTax \in BOOLEAN
  BY <1>1, ProductType, BrokerAssumption DEF Sound
<1>3. CASE ~ Accepts(a, side, q, price)
  BY <1>3 DEF Execute
<1>4. CASE Accepts(a, side, q, price) /\ side = "buy"
  <2> DEFINE lot == [q |-> q, day |-> e]
  <2> DEFINE m == IF DividendTax THEN Append(l, lot) ELSE l
  <2>1. Execute(a, side, q, price)
          = [a EXCEPT !.cash = @ - q * price, !.held = @ + q, !.lots = m]
    BY <1>1, <1>4 DEF Execute
  <2>2. lot \in Lot /\ Shares[lot] = q
    BY DEF Lot, Shares
  <2>3. m \in Seq(Lot) /\ (DividendTax => LotSum(m) = h + q)
    <3> HIDE DEF lot
    <3>1. Append(l, lot) \in Seq(Lot) /\ LotSum(Append(l, lot)) = LotSum(l) + q
      <4>1. Append(l, lot) \in Seq(Lot)
        BY <2>2
      <4>2. SumOf(Shares, Append(l, lot)) = SumOf(Shares, l) + Shares[lot]
        BY <2>2, SharesType, SumOfAppend
      <4> QED BY <2>2, <4>1, <4>2, LotSumIs
    <3>2. CASE DividendTax
      BY <1>2, <3>1, <3>2
    <3>3. CASE ~ DividendTax
      BY <3>3
    <3> QED BY <3>2, <3>3
  <2> HIDE DEF m
  <2>4. q * price <= c
    BY <1>1, <1>4 DEF Accepts
  <2>5. Execute(a, side, q, price)
          = [cash |-> c - q * price, held |-> h + q, avail |-> v, lots |-> m, day |-> e]
    BY <1>1, <2>1
  <2>6. c - q * price \in Nat /\ h + q \in Nat /\ v <= h + q
    BY <1>2, <2>4
  <2>7. Sound(Execute(a, side, q, price))
    BY <2>3, <2>5, <2>6 DEF Sound, Accounts
  <2>8. /\ Execute(a, side, q, price).held = a.held + q
        /\ Execute(a, side, q, price).avail = a.avail + 0
    BY <1>1, <2>5
  <2> QED BY <1>4, <2>7, <2>8
<1>5. CASE Accepts(a, side, q, price) /\ side = "sell"
  <2> DEFINE m == IF DividendTax THEN Release(l, q) ELSE l
  <2>1. Execute(a, side, q, price)
          = [a EXCEPT !.cash = @ + q * price, !.held = @ - q, !.avail = @ - q, !.lots = m]
    BY <1>1, <1>5 DEF Execute
  <2>2. q <= v
    BY <1>1, <1>5 DEF Accepts
  <2>3. m \in Seq(Lot) /\ (DividendTax => LotSum(m) = h - q)
    <3>1. CASE DividendTax
      <4>1. q <= LotSum(l)
        BY <1>2, <2>2, <3>1
      <4>2. Release(l, q) \in Seq(Lot) /\ LotSum(Release(l, q)) = LotSum(l) - q
        BY <4>1, ReleasedLots
      <4> QED BY <1>2, <3>1, <4>2
    <3>2. CASE ~ DividendTax
      BY <3>2
    <3> QED BY <3>1, <3>2
  <2> HIDE DEF m
  <2>5. Execute(a, side, q, price)
          = [cash |-> c + q * price, held |-> h - q, avail |-> v - q, lots |-> m, day |-> e]
    BY <1>1, <2>1
  <2>6. c + q * price \in Nat /\ h - q \in Nat /\ v - q \in Nat /\ v - q <= h - q
    BY <1>2, <2>2
  <2>7. Sound(Execute(a, side, q, price))
    BY <2>3, <2>5, <2>6 DEF Sound, Accounts
  <2>8. /\ Execute(a, side, q, price).held = a.held + (-q)
        /\ Execute(a, side, q, price).avail = a.avail + (-q)
    BY <1>1, <2>5
  <2> QED BY <1>5, <2>7, <2>8
<1> QED BY <1>3, <1>4, <1>5

Outcomes == [q : Nat, notional : Nat]

LEMMA CorrectSound ==
    ASSUME NEW a, Sound(a), NEW s \in Int, NEW side \in {"buy", "sell"},
           NEW applied \in Outcomes, NEW target \in Outcomes, NEW exDated \in BOOLEAN
    PROVE  LET b == Correct(a, s, side, applied, target, exDated) IN
           \/ b = Failed
           \/ /\ Sound(b) /\ b.held = a.held + SharesMoved(side, applied, target)
              /\ b.avail = a.avail + SharesMoved(side, applied, target)
<1>1. PICK c \in Nat, h \in Nat, v \in Nat, l \in Seq(Lot), e \in Int :
        a = [cash |-> c, held |-> h, avail |-> v, lots |-> l, day |-> e]
  BY DEF Sound, Accounts
<1>2. v <= h /\ (DividendTax => LotSum(l) = h) /\ DividendTax \in BOOLEAN
  BY <1>1, BrokerAssumption DEF Sound
<1> DEFINE shares == SharesMoved(side, applied, target)
<1> DEFINE cash == a.cash + CashMoved(side, applied, target)
<1> DEFINE lots == IF DividendTax /\ shares # 0 THEN MoveLots(l, s, shares) ELSE l
<1>3. shares \in Int /\ cash \in Int
  <2>1. /\ applied.q \in Nat /\ applied.notional \in Nat
        /\ target.q \in Nat /\ target.notional \in Nat
    BY DEF Outcomes
  <2>2. SharesMoved(side, applied, target) \in Int
    BY <2>1 DEF SharesMoved
  <2>3. CashMoved(side, applied, target) \in Int
    BY <2>1 DEF CashMoved
  <2>4. a.cash \in Nat
    BY <1>1
  <2> QED BY <2>2, <2>3, <2>4
<1> DEFINE refused ==
            \/ side = "sell" /\ applied.q = 0 /\ a.held = 0
            \/ /\ shares # 0
               /\ \/ exDated
                  \/ a.held + shares < 0
                  \/ shares < 0 /\ a.avail < -shares
                  \/ DividendTax /\ side = "sell"
                  \/ DividendTax /\ shares < 0 /\ LotSum(LotsOf(a.lots, s)) < -shares
            \/ cash < 0
<1>4. Correct(a, s, side, applied, target, exDated)
        = IF refused THEN Failed
          ELSE [a EXCEPT !.cash = cash, !.held = @ + shares, !.avail = @ + shares, !.lots = lots]
  BY <1>1 DEF Correct
<1>5. CASE refused
  <2> HIDE DEF refused
  <2> QED BY <1>4, <1>5
<1>6. CASE ~ refused
  <2>1. /\ cash >= 0
        /\ shares # 0 => h + shares >= 0
        /\ shares < 0 => v >= -shares
        /\ DividendTax /\ shares < 0 => ~ (LotSum(LotsOf(l, s)) < -shares)
    <3> HIDE DEF shares, cash
    <3> QED BY <1>1, <1>3, <1>6
  <2>2. Correct(a, s, side, applied, target, exDated)
          = [a EXCEPT !.cash = cash, !.held = @ + shares, !.avail = @ + shares, !.lots = lots]
    <3> HIDE DEF refused
    <3> QED BY <1>4, <1>6
  <2> HIDE DEF refused, shares, cash
  <2>3. lots \in Seq(Lot) /\ (DividendTax => LotSum(lots) = h + shares)
    <3>1. CASE DividendTax /\ shares # 0
      <4>1. LotsOf(l, s) \in Seq(Lot)
        BY LotsByDay
      <4>2. LotSum(LotsOf(l, s)) \in Nat
        BY <4>1, Running
      <4>3. shares < 0 => -shares <= LotSum(LotsOf(l, s))
        BY <1>3, <2>1, <3>1, <4>2
      <4>4. MoveLots(l, s, shares) \in Seq(Lot)
            /\ LotSum(MoveLots(l, s, shares)) = LotSum(l) + shares
        BY <1>3, <4>3, MovedLots
      <4> QED BY <1>2, <3>1, <4>4
    <3>2. CASE ~ (DividendTax /\ shares # 0)
      <4>1. lots = l
        BY <3>2
      <4>2. DividendTax => h + shares = h
        BY <3>2, <1>3
      <4> QED BY <1>2, <4>1, <4>2
    <3> QED BY <3>1, <3>2
  <2> HIDE DEF lots
  <2>4. Correct(a, s, side, applied, target, exDated)
          = [cash |-> cash, held |-> h + shares, avail |-> v + shares, lots |-> lots, day |-> e]
    BY <1>1, <2>2
  <2>5. cash \in Nat /\ h + shares \in Nat /\ v + shares \in Nat /\ v + shares <= h + shares
    BY <1>2, <1>3, <2>1
  <2> QED BY <1>1, <2>3, <2>4, <2>5 DEF Sound, Accounts, shares
<1> QED BY <1>5, <1>6

\* A book opens with its capital and no shares.
LEMMA NewSound ==
    ASSUME NEW cash \in Nat
    PROVE  /\ NewAccount(cash) \in Accounts /\ Sound(NewAccount(cash))
           /\ NewAccount(cash).held = 0 /\ NewAccount(cash).cash = cash
<1>1. << >> \in Seq(Lot) /\ LotSum(<< >>) = 0
  <2>1. [i \in DOMAIN << >> |-> << >>[i].q] = << >>
    OBVIOUS
  <2> QED BY <2>1, TotalEmpty DEF LotSum
<1> QED BY <1>1 DEF NewAccount, Accounts, Sound
===============================================================================
