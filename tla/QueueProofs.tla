----------------------------- MODULE QueueProofs -----------------------------
(***************************************************************************)
(* What the operations on duplicate-free queues return, preserve and keep  *)
(* in the queue, and what the other proofs need of sequences: the least of *)
(* a set of naturals, and sequences that are put together.                 *)
(***************************************************************************)
EXTENDS Queues, SequenceTheorems, WellFoundedInduction, TLAPS

LEMMA HeadTail ==
    ASSUME NEW S, NEW q \in Seq(S), q # <<>>
    PROVE  /\ Head(q) \in S
           /\ Head(q) = q[1]
           /\ Tail(q) \in Seq(S)
           /\ Len(Tail(q)) = Len(q) - 1
           /\ DOMAIN Tail(q) = 1 .. Len(q) - 1
           /\ \A i \in 1 .. Len(q) - 1 : Tail(q)[i] = q[i + 1]
OBVIOUS

LEMMA ContainsTail ==
    ASSUME NEW S, NEW q \in Seq(S), q # <<>>, NoDuplicates(q)
    PROVE  /\ NoDuplicates(Tail(q))
           /\ \A x : Contains(Tail(q), x) <=> Contains(q, x) /\ x # Head(q)
<1>1. NoDuplicates(Tail(q))
  BY HeadTail DEF NoDuplicates
<1>2. ASSUME NEW x, Contains(Tail(q), x)
      PROVE  Contains(q, x) /\ x # Head(q)
  <2>1. PICK i \in 1 .. Len(q) - 1 : Tail(q)[i] = x
    BY <1>2, HeadTail DEF Contains
  <2>2. q[i + 1] = x /\ i + 1 \in 1 .. Len(q) /\ 1 \in 1 .. Len(q) /\ i + 1 # 1
    BY <2>1, HeadTail
  <2> QED BY <2>2, HeadTail DEF Contains, NoDuplicates
<1>3. ASSUME NEW x, Contains(q, x), x # Head(q)
      PROVE  Contains(Tail(q), x)
  <2>1. PICK i \in 1 .. Len(q) : q[i] = x
    BY <1>3 DEF Contains
  <2>2. i - 1 \in 1 .. Len(q) - 1 /\ Tail(q)[i - 1] = x
    BY <1>3, <2>1, HeadTail
  <2> QED BY <2>2, HeadTail DEF Contains
<1> QED BY <1>1, <1>2, <1>3

LEMMA ContainsAppend ==
    ASSUME NEW S, NEW q \in Seq(S), NEW x \in S, ~Contains(q, x), NoDuplicates(q)
    PROVE  /\ Append(q, x) \in Seq(S)
           /\ Len(Append(q, x)) = Len(q) + 1
           /\ NoDuplicates(Append(q, x))
           /\ \A y : Contains(Append(q, x), y) <=> Contains(q, y) \/ y = x
<1>1. NoDuplicates(Append(q, x))
  BY DEF NoDuplicates, Contains
<1>2. ASSUME NEW y PROVE Contains(Append(q, x), y) <=> Contains(q, y) \/ y = x
  <2>1. \A i \in 1 .. Len(q) : Append(q, x)[i] = q[i]
    OBVIOUS
  <2>2. Append(q, x)[Len(q) + 1] = x /\ Len(q) + 1 \in 1 .. Len(Append(q, x))
    OBVIOUS
  <2> QED BY <2>1, <2>2 DEF Contains
<1> QED BY <1>1, <1>2

LEMMA RemoveAtEntries ==
    ASSUME NEW S, NEW q \in Seq(S), NEW at \in 1 .. Len(q)
    PROVE  /\ RemoveAt(q, at) \in Seq(S)
           /\ Len(RemoveAt(q, at)) = Len(q) - 1
           /\ \A i \in 1 .. Len(q) - 1 :
                 RemoveAt(q, at)[i] = IF i < at THEN q[i] ELSE q[i + 1]
<1> DEFINE u == SubSeq(q, 1, at - 1)
           v == SubSeq(q, at + 1, Len(q))
<1>1. /\ u \in Seq(S)
      /\ Len(u) = at - 1
      /\ \A i \in 1 .. at - 1 : u[i] = q[i]
  OBVIOUS
<1>2. /\ v \in Seq(S)
      /\ Len(v) = Len(q) - at
      /\ \A i \in 1 .. Len(q) - at : v[i] = q[at + i]
  OBVIOUS
<1>3. RemoveAt(q, at) = u \o v
  BY DEF RemoveAt
<1> HIDE DEF u, v
<1>4. /\ u \o v \in Seq(S)
      /\ Len(u \o v) = Len(u) + Len(v)
      /\ \A i \in 1 .. Len(u) + Len(v) :
            (u \o v)[i] = IF i <= Len(u) THEN u[i] ELSE v[i - Len(u)]
  BY <1>1, <1>2, ConcatProperties
<1>5. Len(RemoveAt(q, at)) = Len(q) - 1
  BY <1>1, <1>2, <1>3, <1>4
<1>6. ASSUME NEW i \in 1 .. Len(q) - 1
      PROVE  RemoveAt(q, at)[i] = IF i < at THEN q[i] ELSE q[i + 1]
  <2>1. RemoveAt(q, at)[i] = IF i <= at - 1 THEN u[i] ELSE v[i - (at - 1)]
    BY <1>1, <1>2, <1>3, <1>4
  <2>2. CASE i < at
    BY <1>1, <2>1, <2>2
  <2>3. CASE i >= at
    <3>1. i - (at - 1) \in 1 .. Len(q) - at /\ at + (i - (at - 1)) = i + 1
      BY <2>3
    <3> QED BY <1>2, <2>1, <2>3, <3>1
  <2> QED BY <2>2, <2>3
<1> QED BY <1>3, <1>4, <1>5, <1>6

LEMMA ContainsWithout ==
    ASSUME NEW S, NEW q \in Seq(S), NEW x, Contains(q, x), NoDuplicates(q)
    PROVE  /\ Without(q, x) \in Seq(S)
           /\ Len(Without(q, x)) = Len(q) - 1
           /\ NoDuplicates(Without(q, x))
           /\ \A y : Contains(Without(q, x), y) <=> Contains(q, y) /\ y # x
<1> DEFINE at == CHOOSE i \in DOMAIN q : q[i] = x
           w == RemoveAt(q, at)
<1>1. at \in 1 .. Len(q) /\ q[at] = x
  BY DEF Contains
<1>2. Without(q, x) = w
  BY DEF Without
<1> HIDE DEF at
<1>3. /\ w \in Seq(S)
      /\ Len(w) = Len(q) - 1
      /\ \A i \in 1 .. Len(q) - 1 : w[i] = IF i < at THEN q[i] ELSE q[i + 1]
  BY <1>1, RemoveAtEntries
<1> HIDE DEF w
<1>4. NoDuplicates(w)
  <2>1. DOMAIN w = 1 .. Len(q) - 1
    BY <1>3
  <2> SUFFICES ASSUME NEW i \in 1 .. Len(q) - 1, NEW j \in 1 .. Len(q) - 1,
                      w[i] = w[j]
               PROVE  i = j
    BY <2>1 DEF NoDuplicates
  <2> DEFINE pos(k) == IF k < at THEN k ELSE k + 1
  <2>2. /\ pos(i) \in DOMAIN q /\ w[i] = q[pos(i)]
        /\ pos(j) \in DOMAIN q /\ w[j] = q[pos(j)]
    BY <1>1, <1>3
  <2>3. pos(i) = pos(j)
    BY <2>2 DEF NoDuplicates
  <2> QED BY <1>1, <2>3
<1>5. ASSUME NEW y, Contains(w, y) PROVE Contains(q, y) /\ y # x
  <2>1. PICK i \in 1 .. Len(q) - 1 : w[i] = y
    BY <1>3, <1>5 DEF Contains
  <2>2. CASE i < at
    <3>1. q[i] = y /\ i \in 1 .. Len(q) /\ i # at
      BY <1>1, <1>3, <2>1, <2>2
    <3> QED BY <1>1, <3>1 DEF Contains, NoDuplicates
  <2>3. CASE i >= at
    <3>1. q[i + 1] = y /\ i + 1 \in 1 .. Len(q) /\ i + 1 # at
      BY <1>1, <1>3, <2>1, <2>3
    <3> QED BY <1>1, <3>1 DEF Contains, NoDuplicates
  <2> QED BY <1>1, <2>2, <2>3
<1>6. ASSUME NEW y, Contains(q, y), y # x PROVE Contains(w, y)
  <2>1. PICK i \in 1 .. Len(q) : q[i] = y
    BY <1>6 DEF Contains
  <2>2. CASE i < at
    BY <1>1, <1>3, <2>1, <2>2 DEF Contains
  <2>3. CASE i > at
    <3>1. w[i - 1] = y /\ i - 1 \in 1 .. Len(w)
      BY <1>1, <1>3, <2>1, <2>3
    <3> QED BY <3>1 DEF Contains
  <2> QED BY <1>1, <1>6, <2>1, <2>2, <2>3
<1> QED BY <1>2, <1>3, <1>4, <1>5, <1>6

LEMMA ContainsCons ==
    ASSUME NEW S, NEW q \in Seq(S), NEW x \in S, ~Contains(q, x), NoDuplicates(q)
    PROVE  /\ NoDuplicates(<<x>> \o q)
           /\ \A y : Contains(<<x>> \o q, y) <=> Contains(q, y) \/ y = x
<1> DEFINE r == <<x>> \o q
<1>1. /\ Len(r) = Len(q) + 1
      /\ DOMAIN r = 1 .. Len(q) + 1
      /\ r[1] = x
      /\ \A i \in 1 .. Len(q) : r[i + 1] = q[i]
      /\ \A i \in 2 .. Len(q) + 1 : i - 1 \in 1 .. Len(q) /\ r[i] = q[i - 1]
  <2>1. /\ Len(r) = Len(q) + 1
        /\ DOMAIN r = 1 .. Len(q) + 1
        /\ r[1] = x
        /\ \A i \in 1 .. Len(q) : r[i + 1] = q[i]
    OBVIOUS
  <2> HIDE DEF r
  <2>2. ASSUME NEW i \in 2 .. Len(q) + 1
        PROVE  i - 1 \in 1 .. Len(q) /\ r[i] = q[i - 1]
    <3>1. i - 1 \in 1 .. Len(q) /\ (i - 1) + 1 = i
      OBVIOUS
    <3> QED BY <2>1, <3>1
  <2> QED BY <2>1, <2>2
<1> HIDE DEF r
<1>2. ASSUME NEW i \in 1 .. Len(q) + 1, NEW j \in 1 .. Len(q) + 1, r[i] = r[j]
      PROVE  i = j
  <2>1. \A k \in 2 .. Len(q) + 1 : r[k] # x
    BY <1>1 DEF Contains
  <2>2. CASE i = 1 \/ j = 1
    BY <1>1, <1>2, <2>1, <2>2
  <2>3. CASE i # 1 /\ j # 1
    <3>1. i \in 2 .. Len(q) + 1 /\ j \in 2 .. Len(q) + 1
      BY <2>3
    <3>2. q[i - 1] = q[j - 1] /\ i - 1 \in DOMAIN q /\ j - 1 \in DOMAIN q
      BY <1>1, <1>2, <3>1
    <3>3. i - 1 = j - 1
      BY <3>2 DEF NoDuplicates
    <3> QED BY <3>1, <3>3
  <2> QED BY <2>2, <2>3
<1>3. NoDuplicates(r)
  BY <1>1, <1>2 DEF NoDuplicates
<1>4. ASSUME NEW y PROVE Contains(r, y) <=> Contains(q, y) \/ y = x
  <2>1. ASSUME Contains(r, y), y # x PROVE Contains(q, y)
    <3>1. PICK i \in 1 .. Len(q) + 1 : r[i] = y
      BY <1>1, <2>1 DEF Contains
    <3>2. i \in 2 .. Len(q) + 1
      BY <1>1, <2>1, <3>1
    <3> QED BY <1>1, <3>1, <3>2 DEF Contains
  <2>2. ASSUME Contains(q, y) PROVE Contains(r, y)
    <3>1. PICK i \in 1 .. Len(q) : q[i] = y
      BY <2>2 DEF Contains
    <3>2. i + 1 \in 1 .. Len(q) + 1 /\ r[i + 1] = y
      BY <1>1, <3>1
    <3> QED BY <1>1, <3>2 DEF Contains
  <2>3. 1 \in DOMAIN r /\ r[1] = x
    BY <1>1
  <2> QED BY <2>1, <2>2, <2>3 DEF Contains
<1> QED BY <1>3, <1>4 DEF r

LEMMA AppendEntries ==
    ASSUME NEW S, NEW q \in Seq(S), NEW x \in S
    PROVE  /\ Append(q, x) \in Seq(S)
           /\ Len(Append(q, x)) = Len(q) + 1
           /\ \A i \in DOMAIN q : i \in DOMAIN Append(q, x) /\ Append(q, x)[i] = q[i]
           /\ \A i \in DOMAIN Append(q, x) : i \notin DOMAIN q =>
                 i = Len(q) + 1 /\ Append(q, x)[i] = x
OBVIOUS

LEMMA FrontEntries ==
    ASSUME NEW S, NEW q \in Seq(S), q # <<>>
    PROVE  /\ Front(q) \in Seq(S)
           /\ Len(q) \in 1 .. Len(q)
           /\ Last(q) = q[Len(q)]
           /\ Len(Front(q)) = Len(q) - 1
           /\ \A i \in 1 .. Len(q) - 1 : i \in 1 .. Len(q) /\ Front(q)[i] = q[i]
<1> DEFINE n == Len(q)
           r == [i \in 1 .. n - 1 |-> q[i]]
<1>0. n \in Nat /\ n >= 1 /\ DOMAIN q = 1 .. n
  OBVIOUS
<1>1. Front(q) = r
  BY <1>0 DEF Front
<1>2. r \in Seq(S) /\ Len(r) = n - 1
  <2>1. n - 1 \in Nat /\ \A i \in 1 .. n - 1 : q[i] \in S
    BY <1>0
  <2>2. r \in [1 .. n - 1 -> S]
    BY <2>1
  <2> QED BY <2>1, <2>2, LenProperties, SeqDef
<1> QED BY <1>0, <1>1, <1>2 DEF Last

LEMMA ContainsFront ==
    ASSUME NEW S, NEW q \in Seq(S), q # <<>>, NoDuplicates(q)
    PROVE  /\ Contains(q, Last(q))
           /\ Len(Front(q)) = Len(q) - 1
           /\ NoDuplicates(Front(q))
           /\ \A y : Contains(Front(q), y) <=> Contains(q, y) /\ y # Last(q)
<1>1. /\ Last(q) = q[Len(q)]
      /\ Len(q) \in 1 .. Len(q)
      /\ Len(q) \in Nat
      /\ DOMAIN q = 1 .. Len(q)
      /\ Len(Front(q)) = Len(q) - 1
      /\ DOMAIN Front(q) = 1 .. Len(q) - 1
      /\ \A i \in 1 .. Len(q) - 1 : i \in 1 .. Len(q) /\ Front(q)[i] = q[i]
  BY FrontEntries
<1>2. NoDuplicates(Front(q))
  BY <1>1 DEF NoDuplicates
<1>3. ASSUME NEW y PROVE Contains(Front(q), y) <=> Contains(q, y) /\ y # Last(q)
  <2>1. ASSUME Contains(Front(q), y) PROVE Contains(q, y) /\ y # Last(q)
    <3>1. PICK i \in 1 .. Len(q) - 1 : Front(q)[i] = y
      BY <1>1, <2>1 DEF Contains
    <3>2. i \in 1 .. Len(q) /\ q[i] = y
      BY <1>1, <3>1
    <3>3. \A m \in Nat : \A k \in 1 .. m - 1 : k # m
      OBVIOUS
    <3>4. i # Len(q)
      BY <1>1, <3>1, <3>3
    <3> QED BY <1>1, <3>2, <3>4 DEF Contains, NoDuplicates
  <2>2. ASSUME Contains(q, y), y # Last(q) PROVE Contains(Front(q), y)
    <3>1. PICK i \in 1 .. Len(q) : q[i] = y
      BY <1>1, <2>2 DEF Contains
    <3>2. i \in 1 .. Len(q) - 1
      BY <1>1, <2>2, <3>1
    <3> QED BY <1>1, <3>1, <3>2 DEF Contains
  <2> QED BY <2>1, <2>2
<1> QED BY <1>1, <1>2, <1>3 DEF Contains

\* Without, whether the element is there or not.
LEMMA WithoutAny ==
    ASSUME NEW S, NEW q \in Seq(S), NEW x, NoDuplicates(q)
    PROVE  /\ Without(q, x) \in Seq(S)
           /\ Len(Without(q, x)) <= Len(q)
           /\ NoDuplicates(Without(q, x))
           /\ \A y : Contains(Without(q, x), y) <=> Contains(q, y) /\ y # x
<1>1. CASE Contains(q, x)
  BY <1>1, ContainsWithout
<1>2. CASE ~Contains(q, x)
  BY <1>2 DEF Without
<1> QED BY <1>1, <1>2

-----------------------------------------------------------------------------
(* The least element of a set of naturals, in place of induction. *)

\* A set of naturals has a least element: that < is well founded.
LEMMA LeastExists ==
    ASSUME NEW T \in SUBSET Nat, T # {}
    PROVE  \E x \in T : \A y \in T : x <= y
<1> DEFINE R == OpToRel(<, Nat)
<1>1. IsWellFoundedOn(R, Nat)
  BY NatLessThanWellFounded
<1>2. \A x, y \in Nat : x < y => <<x, y>> \in R
  BY DEF OpToRel
<1> HIDE DEF R
<1>3. PICK x \in T : \A y \in T : ~(<<y, x>> \in R)
  BY <1>1, WFMin
<1>4. ASSUME NEW y \in T PROVE x <= y
  <2>1. x \in Nat /\ y \in Nat /\ ~(y < x)
    BY <1>2, <1>3
  <2> QED BY <2>1
<1> QED BY <1>4

\* Min is the element that is least.
LEMMA MinIsLeast ==
    ASSUME NEW T \in SUBSET Nat, NEW m \in T, \A y \in T : m <= y
    PROVE  Min(T) = m
<1>1. \E x \in T : \A y \in T : x <= y
  OBVIOUS
<1>2. Min(T) \in T /\ \A y \in T : Min(T) <= y
  BY <1>1 DEF Min
<1>3. m \in Nat /\ Min(T) \in Nat /\ m <= Min(T) /\ Min(T) <= m
  BY <1>2
<1> QED BY <1>3

\* The larger of two.
LEMMA MaxOfTwo ==
    ASSUME NEW a \in Int, NEW b \in Int
    PROVE  Max({a, b}) = IF a >= b THEN a ELSE b
<1>1. \E x \in {a, b} : \A y \in {a, b} : x >= y
  OBVIOUS
<1>2. Max({a, b}) \in {a, b} /\ \A y \in {a, b} : Max({a, b}) >= y
  BY <1>1 DEF Max
<1> QED BY <1>2

-----------------------------------------------------------------------------
(* A sequence of sequences, put together: FlattenSeq. *)

\* f[i] is q[1] \o ... \o q[i].
Flattens(f, q, n) ==
    f = [i \in 1 .. n |-> IF i = 1 THEN q[i] ELSE f[i - 1] \o q[i]]

\* There is such a function: the longest prefix of q without one is too long.
LEMMA FlattensExists ==
    ASSUME NEW S, NEW q \in Seq(Seq(S))
    PROVE  \E f \in [1 .. Len(q) -> Seq(S)] : Flattens(f, q, Len(q))
<1> DEFINE P(m) == \E f \in [1 .. m -> Seq(S)] :
                      \A i \in 1 .. m : f[i] = IF i = 1 THEN q[i] ELSE f[i - 1] \o q[i]
           T == {m \in 0 .. Len(q) : ~P(m)}
<1>0. Len(q) \in Nat /\ \A i \in 1 .. Len(q) : q[i] \in Seq(S)
  OBVIOUS
<1>1. P(0)
  <2>0. \A i : i \notin 1 .. 0
    OBVIOUS
  <2>1. [i \in 1 .. 0 |-> <<>>] \in [1 .. 0 -> Seq(S)]
    BY <2>0
  <2> QED BY <2>0, <2>1
<1>2. ASSUME NEW m \in 1 .. Len(q), P(m - 1) PROVE P(m)
  <2>1. PICK f \in [1 .. m - 1 -> Seq(S)] :
            \A i \in 1 .. m - 1 : f[i] = IF i = 1 THEN q[i] ELSE f[i - 1] \o q[i]
    BY <1>2
  <2> DEFINE last == IF m = 1 THEN q[m] ELSE f[m - 1] \o q[m]
             g == [i \in 1 .. m |-> IF i = m THEN last ELSE f[i]]
  <2>2. last \in Seq(S)
    BY <1>0
  <2>3. g \in [1 .. m -> Seq(S)]
    <3>1. \A i \in 1 .. m : i # m => i \in 1 .. m - 1
      BY <1>0
    <3> HIDE DEF last
    <3> QED BY <1>0, <2>1, <2>2, <3>1
  <2>4. \A i \in 1 .. m - 1 : g[i] = f[i]
    <3>1. \A i \in 1 .. m - 1 : i \in 1 .. m /\ i # m
      BY <1>0
    <3> HIDE DEF last
    <3> QED BY <3>1
  <2>5. \A i \in 1 .. m : g[i] = IF i = 1 THEN q[i] ELSE g[i - 1] \o q[i]
    <3>1. ASSUME NEW i \in 1 .. m, i # m PROVE g[i] = IF i = 1 THEN q[i] ELSE g[i - 1] \o q[i]
      <4>1. i \in 1 .. m - 1 /\ (i # 1 => i - 1 \in 1 .. m - 1)
        BY <1>0, <3>1
      <4> HIDE DEF g
      <4> QED BY <2>1, <2>4, <4>1
    <3>2. g[m] = last
      BY <1>0
    <3>3. m # 1 => g[m - 1] = f[m - 1]
      <4>1. m # 1 => m - 1 \in 1 .. m - 1
        BY <1>0
      <4> HIDE DEF g
      <4> QED BY <2>4, <4>1
    <3> QED
      <4> HIDE DEF g
      <4> QED BY <3>1, <3>2, <3>3
  <2> HIDE DEF g
  <2> QED BY <2>3, <2>5
<1>3. T = {}
  <2> SUFFICES ASSUME T # {} PROVE FALSE
    OBVIOUS
  <2>1. PICK m \in T : \A y \in T : m <= y
    <3>1. T \in SUBSET Nat
      BY <1>0
    <3> HIDE DEF T
    <3> QED BY <3>1, LeastExists
  <2> HIDE DEF P
  <2>2. m # 0 /\ m \in 0 .. Len(q) /\ ~P(m)
    BY <1>1, <2>1
  <2>3. m - 1 \in 0 .. Len(q) /\ m \in 1 .. Len(q) /\ ~(m <= m - 1)
    BY <1>0, <2>2
  <2>4. P(m - 1)
    BY <2>1, <2>3
  <2> QED BY <1>2, <2>2, <2>3, <2>4
<1>4. P(Len(q))
  <2> HIDE DEF P
  <2> QED BY <1>0, <1>3
<1> QED BY <1>4 DEF Flattens

\* The first n elements of q and p are the same.
Agree(q, p, n) == \A i \in 1 .. n : q[i] = p[i]

\* ... and two of them agree as far as their sequences do.
LEMMA FlattensAgree ==
    ASSUME NEW n \in Nat, NEW k \in Nat, n <= k, NEW q, NEW p, NEW f, NEW g,
           Flattens(f, q, n), Flattens(g, p, k), Agree(q, p, n)
    PROVE  Agree(f, g, n)
<1> DEFINE T == {i \in 1 .. n : f[i] # g[i]}
<1> SUFFICES ASSUME T # {} PROVE FALSE
  BY DEF Agree
<1>1. PICK m \in T : \A y \in T : m <= y
  <2>1. T \in SUBSET Nat
    OBVIOUS
  <2> HIDE DEF T
  <2> QED BY <2>1, LeastExists
<1>2. m \in 1 .. n /\ m \in 1 .. k /\ f[m] # g[m]
  BY <1>1
<1>3. m = 1 => f[m] = g[m]
  BY <1>2 DEF Flattens, Agree
<1>4. m # 1 => f[m] = g[m]
  <2> SUFFICES ASSUME m # 1 PROVE f[m] = g[m]
    OBVIOUS
  <2>1. m - 1 \in 1 .. n /\ ~(m <= m - 1)
    BY <1>2
  <2>2. f[m - 1] = g[m - 1]
    BY <1>1, <2>1
  <2>3. f[m] = f[m - 1] \o q[m] /\ g[m] = g[m - 1] \o p[m] /\ q[m] = p[m]
    BY <1>2, <2>1 DEF Flattens, Agree
  <2> QED BY <2>2, <2>3
<1> QED BY <1>2, <1>3, <1>4

\* What FlattenSeq chooses is such a function.
LEMMA FlattenSeqIs ==
    ASSUME NEW S, NEW q \in Seq(Seq(S)), q # <<>>, NEW f, Flattens(f, q, Len(q))
    PROVE  FlattenSeq(q) = f[Len(q)]
<1>0. Len(q) \in Nat /\ Len(q) # 0 /\ Len(q) \in 1 .. Len(q)
  BY EmptySeq
<1> DEFINE g == CHOOSE g : g = [i \in 1 .. Len(q) |->
                                   IF i = 1 THEN q[i] ELSE g[i - 1] \o q[i]]
<1>1. f = [i \in 1 .. Len(q) |-> IF i = 1 THEN q[i] ELSE f[i - 1] \o q[i]]
  BY DEF Flattens
<1>2. g = [i \in 1 .. Len(q) |-> IF i = 1 THEN q[i] ELSE g[i - 1] \o q[i]]
  BY <1>1
<1>3. FlattenSeq(q) = g[Len(q)]
  BY <1>0 DEF FlattenSeq
<1> HIDE DEF g
<1>4. Flattens(g, q, Len(q))
  BY <1>2 DEF Flattens
<1>5. g[Len(q)] = f[Len(q)]
  <2>1. Agree(q, q, Len(q))
    BY DEF Agree
  <2>2. Agree(g, f, Len(q))
    BY <1>0, <1>4, <2>1, FlattensAgree
  <2> QED BY <1>0, <2>2 DEF Agree
<1> QED BY <1>3, <1>5

\* One element more adds what it is to the end of the whole.
LEMMA FlattenOneMore ==
    ASSUME NEW S, NEW q \in Seq(Seq(S)), NEW p \in Seq(Seq(S)),
           Len(p) = Len(q) + 1, \A i \in 1 .. Len(q) : q[i] = p[i]
    PROVE  /\ FlattenSeq(q) \in Seq(S)
           /\ FlattenSeq(p) = FlattenSeq(q) \o p[Len(p)]
<1>0. /\ Len(q) \in Nat /\ Len(p) \in Nat /\ Len(q) <= Len(p)
      /\ p # <<>> /\ p[Len(p)] \in Seq(S)
      /\ q = <<>> <=> Len(q) = 0
  BY EmptySeq
<1>1. PICK f \in [1 .. Len(q) -> Seq(S)] : Flattens(f, q, Len(q))
  BY FlattensExists
<1>2. PICK g \in [1 .. Len(p) -> Seq(S)] : Flattens(g, p, Len(p))
  BY FlattensExists
<1>3. FlattenSeq(p) = g[Len(p)]
  BY <1>0, <1>2, FlattenSeqIs
<1>4. CASE q = <<>>
  <2>1. FlattenSeq(q) = <<>>
    BY <1>0, <1>4 DEF FlattenSeq
  <2>2. g[Len(p)] = p[Len(p)]
    BY <1>0, <1>2, <1>4 DEF Flattens
  <2>3. <<>> \o p[Len(p)] = p[Len(p)] /\ <<>> \in Seq(S)
    BY <1>0
  <2> QED BY <1>3, <2>1, <2>2, <2>3
<1>5. CASE q # <<>>
  <2>1. FlattenSeq(q) = f[Len(q)] /\ Len(q) \in 1 .. Len(q)
    BY <1>0, <1>1, <1>5, FlattenSeqIs
  <2>2. \A i \in 1 .. Len(q) : f[i] = g[i]
    <3>1. Agree(q, p, Len(q))
      BY DEF Agree
    <3>2. Agree(f, g, Len(q))
      BY <1>0, <1>1, <1>2, <3>1, FlattensAgree
    <3> QED BY <3>2 DEF Agree
  <2>3. Len(p) \in 1 .. Len(p) /\ Len(p) # 1 /\ Len(p) - 1 = Len(q)
    BY <1>0, <2>1
  <2>4. g[Len(p)] = g[Len(p) - 1] \o p[Len(p)]
    BY <1>2, <2>3 DEF Flattens
  <2> QED BY <1>1, <1>3, <2>1, <2>2, <2>3, <2>4
<1> QED BY <1>4, <1>5

\* A sequence at the end of the list comes at the end of the whole.
LEMMA FlattenAppend ==
    ASSUME NEW S, NEW q \in Seq(Seq(S)), NEW t \in Seq(S)
    PROVE  /\ FlattenSeq(q) \in Seq(S)
           /\ FlattenSeq(Append(q, t)) = FlattenSeq(q) \o t
<1>1. /\ Append(q, t) \in Seq(Seq(S)) /\ Len(Append(q, t)) = Len(q) + 1
      /\ Append(q, t)[Len(Append(q, t))] = t
      /\ \A i \in 1 .. Len(q) : q[i] = Append(q, t)[i]
  BY AppendProperties
<1> QED BY <1>1, FlattenOneMore

-----------------------------------------------------------------------------
(***************************************************************************)
(* Who stands before whom: none of the queue operations puts an element    *)
(* before another, but for appendleft, and that one only the element it    *)
(* adds.                                                                   *)
(***************************************************************************)

Precedes(q, r, s) == \E i, j \in DOMAIN q : i < j /\ q[i] = r /\ q[j] = s

\* The head of a queue is before every other element, and nothing before it.
LEMMA HeadPrecedes ==
    ASSUME NEW S, NEW q \in Seq(S), q # <<>>, NoDuplicates(q)
    PROVE  /\ \A s : Contains(Tail(q), s) => Precedes(q, Head(q), s)
           /\ \A r : ~Precedes(q, r, Head(q))
           /\ \A r, s : Precedes(Tail(q), r, s) => Precedes(q, r, s)
<1>1. /\ Len(q) \in Nat /\ 1 \in DOMAIN q /\ DOMAIN q = 1 .. Len(q) /\ Head(q) = q[1]
      /\ DOMAIN Tail(q) = 1 .. Len(q) - 1
      /\ \A i \in 1 .. Len(q) - 1 : Tail(q)[i] = q[i + 1]
  BY HeadTail
<1>2. ASSUME NEW s, Contains(Tail(q), s) PROVE Precedes(q, Head(q), s)
  <2>1. PICK i \in 1 .. Len(q) - 1 : Tail(q)[i] = s
    BY <1>1, <1>2, HeadTail DEF Contains
  <2>2. 1 < i + 1 /\ i + 1 \in DOMAIN q /\ q[i + 1] = s
    BY <1>1, <2>1
  <2> QED BY <1>1, <2>2 DEF Precedes
<1>3. ASSUME NEW r, Precedes(q, r, Head(q)) PROVE FALSE
  <2>1. PICK i \in DOMAIN q, j \in DOMAIN q : i < j /\ q[i] = r /\ q[j] = Head(q)
    BY <1>3 DEF Precedes
  <2>2. j = 1
    BY <1>1, <2>1 DEF NoDuplicates
  <2> QED BY <1>1, <2>1, <2>2
<1>4. ASSUME NEW r, NEW s, Precedes(Tail(q), r, s) PROVE Precedes(q, r, s)
  <2>1. PICK i \in 1 .. Len(q) - 1, j \in 1 .. Len(q) - 1 :
           i < j /\ Tail(q)[i] = r /\ Tail(q)[j] = s
    BY <1>1, <1>4 DEF Precedes
  <2>2. /\ i + 1 \in DOMAIN q /\ j + 1 \in DOMAIN q /\ i + 1 < j + 1
        /\ q[i + 1] = r /\ q[j + 1] = s
    BY <1>1, <2>1
  <2> QED BY <2>2 DEF Precedes
<1> QED BY <1>2, <1>3, <1>4

\* appendleft puts what it adds before the rest.
LEMMA ConsPrecedes ==
    ASSUME NEW S, NEW q \in Seq(S), NEW x \in S, NEW r, NEW s, s # x,
           Precedes(<<x>> \o q, r, s)
    PROVE  r = x \/ Precedes(q, r, s)
<1>1. /\ <<x>> \o q \in Seq(S) /\ Len(<<x>> \o q) = Len(q) + 1
      /\ \A i \in 1 .. Len(q) + 1 : (<<x>> \o q)[i] = IF i = 1 THEN x ELSE q[i - 1]
  OBVIOUS
<1>2. DOMAIN (<<x>> \o q) = 1 .. Len(q) + 1 /\ DOMAIN q = 1 .. Len(q) /\ Len(q) \in Nat
  BY <1>1
<1>3. PICK i \in 1 .. Len(q) + 1, j \in 1 .. Len(q) + 1 :
         i < j /\ (<<x>> \o q)[i] = r /\ (<<x>> \o q)[j] = s
  BY <1>2 DEF Precedes
<1>4. CASE i = 1
  BY <1>1, <1>3, <1>4
<1>5. CASE i # 1
  <2>1. /\ i - 1 \in DOMAIN q /\ j - 1 \in DOMAIN q /\ i - 1 < j - 1
        /\ q[i - 1] = r /\ q[j - 1] = s
    BY <1>1, <1>2, <1>3, <1>5
  <2> QED BY <2>1 DEF Precedes
<1> QED BY <1>4, <1>5

\* append puts nothing before what was there.
LEMMA AppendPrecedes ==
    ASSUME NEW S, NEW q \in Seq(S), NEW x \in S, NEW r, NEW s, s # x,
           Precedes(Append(q, x), r, s)
    PROVE  Precedes(q, r, s)
<1>1. /\ Append(q, x) \in Seq(S) /\ Len(Append(q, x)) = Len(q) + 1
      /\ \A i \in DOMAIN q : Append(q, x)[i] = q[i]
      /\ \A i \in DOMAIN Append(q, x) : i \notin DOMAIN q =>
            i = Len(q) + 1 /\ Append(q, x)[i] = x
  BY AppendEntries
<1>2. DOMAIN Append(q, x) = 1 .. Len(q) + 1 /\ DOMAIN q = 1 .. Len(q) /\ Len(q) \in Nat
  BY <1>1
<1>3. PICK i \in DOMAIN Append(q, x), j \in DOMAIN Append(q, x) :
         i < j /\ Append(q, x)[i] = r /\ Append(q, x)[j] = s
  BY DEF Precedes
<1>4. j \in DOMAIN q
  BY <1>1, <1>3
<1>5. i \in DOMAIN q
  BY <1>2, <1>3, <1>4
<1> QED BY <1>1, <1>3, <1>4, <1>5 DEF Precedes

\* remove keeps the order of what stays.
LEMMA WithoutPrecedes ==
    ASSUME NEW S, NEW q \in Seq(S), NEW x, NEW r, NEW s,
           Precedes(Without(q, x), r, s)
    PROVE  Precedes(q, r, s)
<1>1. CASE ~Contains(q, x)
  BY <1>1 DEF Without
<1>2. CASE Contains(q, x)
  <2> DEFINE at == CHOOSE i \in DOMAIN q : q[i] = x
             w == RemoveAt(q, at)
  <2>1. at \in 1 .. Len(q) /\ Without(q, x) = w
    BY <1>2 DEF Contains, Without
  <2> HIDE DEF at
  <2>2. /\ w \in Seq(S) /\ Len(w) = Len(q) - 1
        /\ \A i \in 1 .. Len(q) - 1 : w[i] = IF i < at THEN q[i] ELSE q[i + 1]
    BY <2>1, RemoveAtEntries
  <2> HIDE DEF w
  <2>3. /\ DOMAIN w = 1 .. Len(q) - 1 /\ DOMAIN q = 1 .. Len(q) /\ Len(q) \in Nat
        /\ at \in Nat
    BY <2>1, <2>2
  <2>4. PICK i \in 1 .. Len(q) - 1, j \in 1 .. Len(q) - 1 :
           i < j /\ w[i] = r /\ w[j] = s
    BY <2>1, <2>3 DEF Precedes
  <2> DEFINE pos(k) == IF k < at THEN k ELSE k + 1
  <2>5. /\ pos(i) \in DOMAIN q /\ q[pos(i)] = r
        /\ pos(j) \in DOMAIN q /\ q[pos(j)] = s
    BY <2>2, <2>3, <2>4
  <2>6. pos(i) < pos(j)
    BY <2>3, <2>4
  <2> QED BY <2>5, <2>6 DEF Precedes
<1> QED BY <1>1, <1>2
=============================================================================
