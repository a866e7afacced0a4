------------------------- MODULE BlockManagerProofs -------------------------
(***************************************************************************)
(* The safety of the block manager for any pool, block size, set of        *)
(* sequences and prompts.                                                  *)
(***************************************************************************)
EXTENDS BlockManager, QueueProofs, FiniteSetTheorems

-----------------------------------------------------------------------------
(* The low-level operations, for any pool p. *)

\* Without prefix caching no block is ever hashed.
HashedOnlyIfEnabled(p) ==
    ~EnablePrefixCaching => \A b \in Blocks : p.hashKey[b] = NoHash

PoolOK(p) ==
    PoolTyped(p) /\ FreeListsOK(p) /\ CacheOK(p) /\ HashedOnlyIfEnabled(p)

LEMMA PoolFields ==
    ASSUME NEW rc, NEW hk, NEW fu, NEW fc, NEW c
    PROVE  /\ Pool(rc, hk, fu, fc, c).refCount = rc
           /\ Pool(rc, hk, fu, fc, c).hashKey = hk
           /\ Pool(rc, hk, fu, fc, c).freeUncached = fu
           /\ Pool(rc, hk, fu, fc, c).freeCached = fc
           /\ Pool(rc, hk, fu, fc, c).cache = c
BY DEF Pool

LEMMA PoolTypedIntro ==
    ASSUME NEW rc \in [Blocks -> Nat], NEW hk \in [Blocks -> Hashes],
           NEW fu \in Seq(Blocks), NEW fc \in Seq(Blocks), NEW c,
           c \in [DOMAIN c -> Blocks], DOMAIN c \subseteq Hashes
    PROVE  PoolTyped(Pool(rc, hk, fu, fc, c))
BY PoolFields DEF PoolTyped

LEMMA TypedFields ==
    ASSUME NEW p, PoolTyped(p)
    PROVE  /\ p.refCount \in [Blocks -> Nat]
           /\ p.hashKey \in [Blocks -> Hashes]
           /\ p.freeUncached \in Seq(Blocks)
           /\ p.freeCached \in Seq(Blocks)
           /\ p.cache \in [DOMAIN p.cache -> Blocks]
           /\ DOMAIN p.cache \subseteq Hashes
           /\ Len(p.freeUncached) \in Nat
           /\ Len(p.freeCached) \in Nat
           /\ NumFree(p) \in Nat
<1>1. p.freeUncached \in Seq(Blocks) /\ p.freeCached \in Seq(Blocks)
  BY DEF PoolTyped
<1>2. Len(p.freeUncached) \in Nat /\ Len(p.freeCached) \in Nat
  BY <1>1
<1>3. NumFree(p) \in Nat
  <2> DEFINE m == Len(p.freeUncached)
             n == Len(p.freeCached)
  <2>1. NumFree(p) = m + n /\ m \in Nat /\ n \in Nat
    BY <1>2 DEF NumFree
  <2> HIDE DEF m, n
  <2> QED BY <2>1
<1> QED BY <1>1, <1>2, <1>3 DEF PoolTyped

\* _take_free_block hands out an unreferenced block, unhashed, and keeps the
\* free lists and the cache consistent.
LEMMA TakeFacts ==
    ASSUME NEW p, PoolOK(p), NumFree(p) > 0
    PROVE  LET b == NextFree(p)
               q == TakeFreeBlock(p)
           IN  /\ b \in Blocks
               /\ p.refCount[b] = 0
               /\ q.refCount = [p.refCount EXCEPT ![b] = 1]
               /\ q.hashKey = [p.hashKey EXCEPT ![b] = NoHash]
               /\ NumFree(q) = NumFree(p) - 1
               /\ PoolOK(q)
<1> DEFINE b == NextFree(p)
           q == TakeFreeBlock(p)
           taken == [p.refCount EXCEPT ![b] = 1]
           clean == [p.hashKey EXCEPT ![b] = NoHash]
<1> USE DEF PoolOK
<1>1. CASE p.freeUncached # <<>>
  <2>1. /\ b = Head(p.freeUncached)
        /\ b \in Blocks
        /\ Contains(p.freeUncached, b)
    <3>1. b = p.freeUncached[1] /\ b \in Blocks /\ 1 \in 1 .. Len(p.freeUncached)
      BY <1>1, HeadTail DEF NextFree, PoolTyped
    <3> QED BY <1>1, <3>1 DEF Contains, NextFree
  <2>2. p.refCount[b] = 0 /\ p.hashKey[b] = NoHash
    BY <2>1 DEF FreeListsOK
  <2>3. clean = p.hashKey
    BY <2>1, <2>2 DEF PoolTyped
  <2>4. q = Pool(taken, p.hashKey, Tail(p.freeUncached), p.freeCached, p.cache)
    BY <1>1 DEF TakeFreeBlock
  <2>5. /\ q.refCount = taken /\ q.hashKey = p.hashKey
        /\ q.freeUncached = Tail(p.freeUncached)
        /\ q.freeCached = p.freeCached /\ q.cache = p.cache
    BY <2>4, PoolFields
  <2>6. /\ Tail(p.freeUncached) \in Seq(Blocks)
        /\ Len(Tail(p.freeUncached)) = Len(p.freeUncached) - 1
        /\ taken \in [Blocks -> Nat]
    BY <1>1, <2>1, HeadTail DEF PoolTyped
  <2>7. PoolTyped(q)
    <3> HIDE DEF q, taken
    <3> QED BY <2>4, <2>6, TypedFields, PoolTypedIntro
  <2>8. FreeListsOK(q)
    <3>1. /\ NoDuplicates(Tail(p.freeUncached))
          /\ \A x : Contains(Tail(p.freeUncached), x)
                       <=> Contains(p.freeUncached, x) /\ x # b
      BY <1>1, <2>1, ContainsTail DEF PoolTyped, FreeListsOK
    <3>2. \A x \in Blocks : taken[x] = IF x = b THEN 1 ELSE p.refCount[x]
      BY DEF PoolTyped
    <3> HIDE DEF taken, b, q
    <3> QED BY <2>1, <2>2, <2>5, <3>1, <3>2 DEF FreeListsOK
  <2>9. CacheOK(q)
    BY <2>5 DEF CacheOK
  <2>11. HashedOnlyIfEnabled(q)
    BY <2>5 DEF HashedOnlyIfEnabled
  <2>10. NumFree(q) = NumFree(p) - 1
    <3> DEFINE m == Len(p.freeUncached)
               n == Len(p.freeCached)
    <3>1. m \in Nat /\ n \in Nat /\ NumFree(p) = m + n
      BY TypedFields DEF NumFree
    <3>2. NumFree(q) = (m - 1) + n
      BY <2>5, <2>6 DEF NumFree
    <3> HIDE DEF m, n, q
    <3> QED BY <3>1, <3>2
  <2> QED BY <2>1, <2>2, <2>3, <2>5, <2>7, <2>8, <2>9, <2>10, <2>11
<1>2. CASE p.freeUncached = <<>>
  <2>0. p.freeCached # <<>>
    BY <1>2 DEF NumFree, PoolTyped
  <2>1. /\ b = Head(p.freeCached)
        /\ b \in Blocks
        /\ Contains(p.freeCached, b)
    <3>1. /\ b = p.freeCached[1] /\ b \in Blocks /\ 1 \in 1 .. Len(p.freeCached)
      BY <1>2, <2>0, HeadTail DEF NextFree, PoolTyped
    <3> QED BY <1>2, <3>1 DEF Contains, NextFree
  <2>2. p.refCount[b] = 0 /\ p.hashKey[b] # NoHash
    BY <2>1 DEF FreeListsOK
  <2> DEFINE h == p.hashKey[b]
             left == Restrict(p.cache, DOMAIN p.cache \ {h})
  <2>4. q = Pool(taken, clean, p.freeUncached, Tail(p.freeCached), left)
    BY <1>2 DEF TakeFreeBlock
  <2>5. /\ q.refCount = taken /\ q.hashKey = clean
        /\ q.freeUncached = p.freeUncached
        /\ q.freeCached = Tail(p.freeCached) /\ q.cache = left
    BY <2>4, PoolFields
  <2>6. /\ Tail(p.freeCached) \in Seq(Blocks)
        /\ Len(Tail(p.freeCached)) = Len(p.freeCached) - 1
        /\ taken \in [Blocks -> Nat]
        /\ clean \in [Blocks -> Hashes]
    BY <2>0, <2>1, HeadTail DEF PoolTyped, NoHash, Hashes
  <2>7. /\ DOMAIN left = DOMAIN p.cache \ {h}
        /\ \A g \in DOMAIN left : left[g] = p.cache[g]
        /\ left \in [DOMAIN left -> Blocks]
        /\ DOMAIN left \subseteq Hashes
    BY DEF Restrict, PoolTyped
  <2>8. PoolTyped(q)
    <3> HIDE DEF q, taken, clean, left
    <3> QED BY <2>4, <2>6, <2>7, TypedFields, PoolTypedIntro
  <2>9. /\ \A x \in Blocks : taken[x] = IF x = b THEN 1 ELSE p.refCount[x]
        /\ \A x \in Blocks : clean[x] = IF x = b THEN NoHash ELSE p.hashKey[x]
    BY DEF PoolTyped
  <2>10. FreeListsOK(q)
    <3>1. /\ NoDuplicates(Tail(p.freeCached))
          /\ \A x : Contains(Tail(p.freeCached), x)
                       <=> Contains(p.freeCached, x) /\ x # b
      BY <2>0, <2>1, ContainsTail DEF PoolTyped, FreeListsOK
    <3>2. /\ \A x \in Blocks \ {b} : taken[x] = p.refCount[x] /\ clean[x] = p.hashKey[x]
          /\ taken[b] = 1
      BY <2>1, <2>9
    <3> HIDE DEF taken, clean, b, q
    <3>3. ASSUME NEW x \in Blocks
          PROVE  /\ Contains(p.freeUncached, x)
                       <=> taken[x] = 0 /\ clean[x] = NoHash
                 /\ Contains(Tail(p.freeCached), x)
                       <=> taken[x] = 0 /\ clean[x] # NoHash
      <4>1. CASE x = b
        BY <2>2, <3>1, <3>2, <4>1 DEF FreeListsOK
      <4>2. CASE x # b
        BY <3>1, <3>2, <4>2 DEF FreeListsOK
      <4> QED BY <4>1, <4>2
    <3> QED BY <2>5, <3>1, <3>3 DEF FreeListsOK
  <2>11. CacheOK(q)
    <3> HIDE DEF taken, clean, b, q, left
    <3>1. \A g \in DOMAIN left : left[g] # b /\ left[g] \in Blocks
      BY <2>7 DEF CacheOK, h
    <3>2. \A x \in Blocks \ {b} : p.hashKey[x] # h
      BY <2>1, <2>2 DEF CacheOK, h
    <3> QED BY <2>1, <2>5, <2>7, <2>9, <3>1, <3>2 DEF CacheOK
  <2>13. HashedOnlyIfEnabled(q)
    BY <2>5, <2>9 DEF HashedOnlyIfEnabled
  <2>12. NumFree(q) = NumFree(p) - 1
    <3> DEFINE m == Len(p.freeUncached)
               n == Len(p.freeCached)
    <3>1. m \in Nat /\ n \in Nat /\ NumFree(p) = m + n
      BY TypedFields DEF NumFree
    <3>2. NumFree(q) = m + (n - 1)
      BY <2>5, <2>6 DEF NumFree
    <3> HIDE DEF m, n, q
    <3> QED BY <3>1, <3>2
  <2> QED BY <2>1, <2>2, <2>5, <2>8, <2>10, <2>11, <2>12, <2>13
<1> QED BY <1>1, <1>2

\* _share pulls an unreferenced block off _free_cached.
LEMMA ShareFacts ==
    ASSUME NEW p, PoolOK(p), NEW b \in Blocks, p.hashKey[b] # NoHash
    PROVE  LET q == Share(p, b)
           IN  /\ q.refCount = [p.refCount EXCEPT ![b] = @ + 1]
               /\ q.hashKey = p.hashKey
               /\ q.cache = p.cache
               /\ NumFree(q) \in {NumFree(p) - 1, NumFree(p)}
               /\ PoolOK(q)
<1> DEFINE q == Share(p, b)
           more == [p.refCount EXCEPT ![b] = @ + 1]
           list == IF p.refCount[b] = 0 THEN Without(p.freeCached, b)
                                        ELSE p.freeCached
<1> USE DEF PoolOK
<1>1. /\ q = Pool(more, p.hashKey, p.freeUncached, list, p.cache)
      /\ q.refCount = more /\ q.hashKey = p.hashKey
      /\ q.freeUncached = p.freeUncached
      /\ q.freeCached = list /\ q.cache = p.cache
  BY PoolFields DEF Share
<1>2. more \in [Blocks -> Nat]
  BY TypedFields
<1>3. \A x \in Blocks : more[x] = IF x = b THEN p.refCount[b] + 1 ELSE p.refCount[x]
  BY TypedFields
<1>4. p.refCount[b] \in Nat
  BY TypedFields
<1>5. CASE p.refCount[b] = 0
  <2>1. Contains(p.freeCached, b)
    BY <1>5 DEF FreeListsOK
  <2>2. /\ list \in Seq(Blocks)
        /\ Len(list) = Len(p.freeCached) - 1
        /\ NoDuplicates(list)
        /\ \A y : Contains(list, y) <=> Contains(p.freeCached, y) /\ y # b
    BY <1>5, <2>1, ContainsWithout, TypedFields DEF FreeListsOK
  <2> HIDE DEF q, more, list
  <2>3. PoolTyped(q)
    BY <1>1, <1>2, <2>2, TypedFields, PoolTypedIntro
  <2>4. FreeListsOK(q)
    BY <1>1, <1>3, <1>5, <2>2 DEF FreeListsOK
  <2>5. CacheOK(q) /\ HashedOnlyIfEnabled(q)
    BY <1>1 DEF CacheOK, HashedOnlyIfEnabled
  <2>6. NumFree(q) = NumFree(p) - 1
    <3> DEFINE m == Len(p.freeUncached)
               n == Len(p.freeCached)
    <3>1. m \in Nat /\ n \in Nat /\ NumFree(p) = m + n
      BY TypedFields DEF NumFree
    <3>2. NumFree(q) = m + (n - 1)
      BY <1>1, <2>2 DEF NumFree
    <3> HIDE DEF m, n
    <3> QED BY <3>1, <3>2
  <2> QED BY <1>1, <2>3, <2>4, <2>5, <2>6 DEF q, more
<1>6. CASE p.refCount[b] # 0
  <2>1. list = p.freeCached
    BY <1>6
  <2> HIDE DEF q, more, list
  <2>2. PoolTyped(q)
    BY <1>1, <1>2, <2>1, TypedFields, PoolTypedIntro
  <2>3. FreeListsOK(q)
    BY <1>1, <1>3, <1>4, <1>6, <2>1 DEF FreeListsOK
  <2>4. CacheOK(q) /\ HashedOnlyIfEnabled(q)
    BY <1>1 DEF CacheOK, HashedOnlyIfEnabled
  <2>5. NumFree(q) = NumFree(p)
    BY <1>1, <2>1 DEF NumFree
  <2> QED BY <1>1, <2>2, <2>3, <2>4, <2>5 DEF q, more
<1> QED BY <1>5, <1>6

\* _release puts a block nobody refers to any more on the list its hash
\* calls for.
LEMMA ReleaseFacts ==
    ASSUME NEW p, PoolOK(p), NEW b \in Blocks, p.refCount[b] > 0
    PROVE  LET q == Release(p, b)
           IN  /\ q.refCount = [p.refCount EXCEPT ![b] = @ - 1]
               /\ q.hashKey = p.hashKey
               /\ q.cache = p.cache
               /\ PoolOK(q)
<1> DEFINE q == Release(p, b)
           left == [p.refCount EXCEPT ![b] = @ - 1]
           hashed == p.hashKey[b] # NoHash /\ EnablePrefixCaching
           freed == left[b] = 0
           fu == IF freed /\ ~hashed THEN Append(p.freeUncached, b) ELSE p.freeUncached
           fc == IF freed /\ hashed THEN Append(p.freeCached, b) ELSE p.freeCached
<1> USE DEF PoolOK
<1>1. /\ q = Pool(left, p.hashKey, fu, fc, p.cache)
      /\ q.refCount = left /\ q.hashKey = p.hashKey
      /\ q.freeUncached = fu /\ q.freeCached = fc /\ q.cache = p.cache
  BY PoolFields DEF Release
<1>2. left \in [Blocks -> Nat] /\ p.refCount[b] \in Nat
  BY TypedFields
<1>3. \A x \in Blocks : left[x] = IF x = b THEN p.refCount[b] - 1 ELSE p.refCount[x]
  BY TypedFields
<1>4. ~Contains(p.freeUncached, b) /\ ~Contains(p.freeCached, b)
  BY <1>2 DEF FreeListsOK
<1>5. hashed <=> p.hashKey[b] # NoHash
  BY BlockConstants DEF HashedOnlyIfEnabled
<1>6. /\ fu \in Seq(Blocks) /\ NoDuplicates(fu)
      /\ \A y : Contains(fu, y) <=>
               Contains(p.freeUncached, y) \/ (y = b /\ freed /\ ~hashed)
  BY <1>4, ContainsAppend, TypedFields DEF FreeListsOK
<1>7. /\ fc \in Seq(Blocks) /\ NoDuplicates(fc)
      /\ \A y : Contains(fc, y) <=>
               Contains(p.freeCached, y) \/ (y = b /\ freed /\ hashed)
  BY <1>4, ContainsAppend, TypedFields DEF FreeListsOK
<1>8. PoolTyped(q)
  <2> HIDE DEF q, left, fu, fc
  <2> QED BY <1>1, <1>2, <1>6, <1>7, TypedFields, PoolTypedIntro
<1>9. FreeListsOK(q)
  <2>1. freed <=> p.refCount[b] = 1
    BY <1>2, <1>3
  <2> HIDE DEF q, left, fu, fc, freed, hashed
  <2>2. \A x \in Blocks : Contains(fu, x) <=> left[x] = 0 /\ p.hashKey[x] = NoHash
    BY <1>2, <1>3, <1>5, <1>6, <2>1 DEF FreeListsOK
  <2>3. \A x \in Blocks : Contains(fc, x) <=> left[x] = 0 /\ p.hashKey[x] # NoHash
    BY <1>2, <1>3, <1>5, <1>7, <2>1 DEF FreeListsOK
  <2> QED BY <1>1, <1>6, <1>7, <2>2, <2>3 DEF FreeListsOK
<1>10. CacheOK(q) /\ HashedOnlyIfEnabled(q)
  <2> HIDE DEF q, left, fu, fc, freed, hashed
  <2>1. q.hashKey = p.hashKey /\ q.cache = p.cache
    BY <1>1
  <2> QED BY <2>1 DEF CacheOK, HashedOnlyIfEnabled
<1> QED BY <1>1, <1>8, <1>9, <1>10

\* _register names a block in use that has no name, unless the name is taken.
LEMMA RegisterFacts ==
    ASSUME NEW p, PoolOK(p), NEW b \in Blocks, p.refCount[b] > 0,
           p.hashKey[b] = NoHash, NEW h \in Hashes, h # NoHash
    PROVE  LET q == Register(p, b, h)
           IN  /\ q.refCount = p.refCount
               /\ q.hashKey \in {p.hashKey, [p.hashKey EXCEPT ![b] = h]}
               /\ NumFree(q) = NumFree(p)
               /\ PoolOK(q)
<1> DEFINE q == Register(p, b, h)
           hk == [p.hashKey EXCEPT ![b] = h]
           c == [g \in DOMAIN p.cache \cup {h} |-> IF g = h THEN b ELSE p.cache[g]]
<1> USE DEF PoolOK
<1>1. CASE ~(EnablePrefixCaching /\ h \notin DOMAIN p.cache)
  BY <1>1 DEF Register
<1>2. CASE EnablePrefixCaching /\ h \notin DOMAIN p.cache
  <2>1. /\ q = Pool(p.refCount, hk, p.freeUncached, p.freeCached, c)
        /\ q.refCount = p.refCount /\ q.hashKey = hk
        /\ q.freeUncached = p.freeUncached
        /\ q.freeCached = p.freeCached /\ q.cache = c
    BY <1>2, PoolFields DEF Register
  <2>2. /\ DOMAIN c = DOMAIN p.cache \cup {h}
        /\ \A g \in DOMAIN c : c[g] = IF g = h THEN b ELSE p.cache[g]
    OBVIOUS
  <2>3. c = [g \in DOMAIN c |-> c[g]]
    OBVIOUS
  <2>4. hk \in [Blocks -> Hashes]
    BY TypedFields
  <2>5. \A x \in Blocks : hk[x] = IF x = b THEN h ELSE p.hashKey[x]
    BY TypedFields
  <2> HIDE DEF q, hk, c
  <2>6. c \in [DOMAIN c -> Blocks] /\ DOMAIN c \subseteq Hashes
    BY <2>2, <2>3, TypedFields
  <2>7. PoolTyped(q)
    BY <2>1, <2>4, <2>6, TypedFields, PoolTypedIntro
  <2>8. FreeListsOK(q)
    BY <2>1, <2>5 DEF FreeListsOK
  <2>9. CacheOK(q)
    <3>1. NoHash \notin DOMAIN c
      BY <2>2 DEF CacheOK
    <3>2. \A g \in DOMAIN c : hk[c[g]] = g
      <4> TAKE g \in DOMAIN c
      <4>1. CASE g = h
        BY <2>2, <2>5, <4>1
      <4>2. CASE g # h
        <5>1. g \in DOMAIN p.cache /\ c[g] = p.cache[g] /\ g # NoHash
          BY <2>2, <4>2 DEF CacheOK
        <5>2. p.hashKey[p.cache[g]] = g /\ p.cache[g] \in Blocks
          BY <5>1, TypedFields DEF CacheOK
        <5> QED BY <2>5, <5>1, <5>2
      <4> QED BY <4>1, <4>2
    <3>3. \A x \in Blocks : hk[x] # NoHash => hk[x] \in DOMAIN c /\ c[hk[x]] = x
      BY <1>2, <2>2, <2>5 DEF CacheOK
    <3> QED BY <2>1, <3>1, <3>2, <3>3 DEF CacheOK
  <2>10. HashedOnlyIfEnabled(q)
    BY <1>2 DEF HashedOnlyIfEnabled
  <2>11. NumFree(q) = NumFree(p)
    BY <2>1 DEF NumFree
  <2> QED BY <2>1, <2>7, <2>8, <2>9, <2>10, <2>11 DEF q, hk
<1> QED BY <1>1, <1>2

-----------------------------------------------------------------------------
(* Prefixes of a sequence of tokens. *)

LEMMA PrefixConcat ==
    ASSUME NEW S, NEW q \in Seq(S), NEW m \in Nat, NEW n \in Nat,
           m <= n, n <= Len(q)
    PROVE  SubSeq(q, 1, m) \o SubSeq(q, m + 1, n) = SubSeq(q, 1, n)
<1> DEFINE u == SubSeq(q, 1, m)
           v == SubSeq(q, m + 1, n)
           w == SubSeq(q, 1, n)
<1>1. u \in Seq(S) /\ Len(u) = m /\ \A i \in 1 .. m : u[i] = q[i]
  OBVIOUS
<1>2. v \in Seq(S) /\ Len(v) = n - m /\ \A i \in 1 .. n - m : v[i] = q[m + i]
  OBVIOUS
<1>3. w \in Seq(S) /\ Len(w) = n /\ \A i \in 1 .. n : w[i] = q[i]
  OBVIOUS
<1> HIDE DEF u, v, w
<1>4. /\ u \o v \in Seq(S)
      /\ Len(u \o v) = Len(u) + Len(v)
      /\ \A i \in 1 .. Len(u) + Len(v) :
            (u \o v)[i] = IF i <= Len(u) THEN u[i] ELSE v[i - Len(u)]
  BY <1>1, <1>2, ConcatProperties
<1>5. Len(u \o v) = n
  BY <1>1, <1>2, <1>4
<1>6. ASSUME NEW i \in 1 .. n PROVE (u \o v)[i] = w[i]
  <2>1. (u \o v)[i] = IF i <= m THEN u[i] ELSE v[i - m]
    BY <1>1, <1>2, <1>4
  <2>2. CASE i <= m
    BY <1>1, <1>3, <2>1, <2>2
  <2>3. CASE i > m
    <3>1. i - m \in 1 .. n - m /\ m + (i - m) = i /\ ~(i <= m)
      BY <2>3
    <3>2. (u \o v)[i] = v[i - m]
      BY <2>1, <3>1
    <3>3. v[i - m] = q[i]
      BY <1>2, <3>1
    <3> QED BY <1>3, <3>2, <3>3
  <2>4. i <= m \/ i > m
    OBVIOUS
  <2> QED BY <2>2, <2>3, <2>4
<1>7. u \o v = w
  BY <1>3, <1>4, <1>5, <1>6, SeqEqual
<1> QED BY <1>7 DEF u, v, w

LEMMA PrefixOfConcat ==
    ASSUME NEW S, NEW q \in Seq(S), NEW r \in Seq(S), NEW m \in Nat, m <= Len(q)
    PROVE  SubSeq(q \o r, 1, m) = SubSeq(q, 1, m)
<1> DEFINE u == SubSeq(q \o r, 1, m)
           v == SubSeq(q, 1, m)
<1>1. /\ q \o r \in Seq(S)
      /\ Len(q \o r) = Len(q) + Len(r)
      /\ \A i \in 1 .. Len(q) : (q \o r)[i] = q[i]
  BY ConcatProperties
<1>2. u \in Seq(S) /\ Len(u) = m /\ \A i \in 1 .. m : u[i] = (q \o r)[i]
  BY <1>1
<1>3. v \in Seq(S) /\ Len(v) = m /\ \A i \in 1 .. m : v[i] = q[i]
  OBVIOUS
<1> HIDE DEF u, v
<1>4. u = v
  BY <1>1, <1>2, <1>3, SeqEqual
<1> QED BY <1>4 DEF u, v

-----------------------------------------------------------------------------
(* Division, and the number of blocks a prompt takes. *)

LEMMA DivMod ==
    ASSUME NEW a \in Nat, NEW b \in Nat \ {0}
    PROVE  /\ a \div b \in Nat
           /\ a % b \in 0 .. b - 1
           /\ a = b * (a \div b) + (a % b)
OBVIOUS

LEMMA Multiples ==
    ASSUME NEW i \in Nat, NEW j \in Nat, NEW b \in Nat \ {0}
    PROVE  /\ i * b \in Nat
           /\ i < j => i * b < j * b
           /\ i <= j => i * b <= j * b
           /\ (i + 1) * b = i * b + b
           /\ i * b = j * b => i = j
OBVIOUS

LEMMA DivUnique ==
    ASSUME NEW x \in Nat, NEW b \in Nat \ {0}, NEW q \in Nat,
           NEW r \in 0 .. b - 1, x = b * q + r
    PROVE  x \div b = q
OBVIOUS

-----------------------------------------------------------------------------
(***************************************************************************)
(* The inductive invariant.  The properties of the runs are not inductive  *)
(* by themselves: what a loop of the code will do next depends on what it  *)
(* has done so far, which CallOK says for each call; and that an unhashed  *)
(* block has one holder is what makes registering it harmless to others.   *)
(***************************************************************************)
AdmitOK ==
    call.op = "admit" =>
        /\ call.n = NumFull(call.seq)
        /\ call.i <= call.n
        /\ call.i = Len(blockTable[call.seq])
        /\ call.prev = PrefixOf(call.seq, call.i)
        /\ call.cached <= call.i * BlockSize
        /\ call.cached <= CapFull(call.seq) * BlockSize
        /\ NumFree(pool) >= (call.n - call.i) + (IF HasTail(call.seq) THEN 1 ELSE 0)

FreeOK ==
    call.op = "free" =>
        call.n = Len(blockTable[call.seq]) /\ call.i <= call.n

RegisterOK ==
    call.op = "register" =>
        /\ call.i <= call.n
        /\ call.i <= Len(blockTable[call.seq])
        /\ call.i * BlockSize <= TotalLen(call.seq)
        /\ call.prev = PrefixOf(call.seq, call.i)

CallOK == AdmitOK /\ FreeOK /\ RegisterOK

HoldersOK ==
    \A b \in Blocks :
        /\ IsFiniteSet(Holders(b))
        /\ pool.refCount[b] = Cardinality(Holders(b))

UnhashedHasOneHolder ==
    \A b \in Blocks : pool.hashKey[b] = NoHash =>
        \A x, y \in Holders(b) : x = y

PoolInv ==
    /\ PoolTypeOK
    /\ PoolOK(pool)
    /\ CallOK
    /\ HoldersOK
    /\ HashNamesContent
    /\ UnhashedHasOneHolder
    /\ PrefixLeavesWork

-----------------------------------------------------------------------------
(* Holders of a block, before and after a step. *)

LEMMA HoldersMembers ==
    ASSUME NEW b
    PROVE  /\ \A s, i : <<s, i>> \in Holders(b)
                  <=> s \in Seqs /\ i \in Held(s) /\ blockTable[s][i] = b
           /\ \A x \in Holders(b) : \E s, i : x = <<s, i>>
BY DEF Holders

LEMMA HoldersMembersPrime ==
    ASSUME NEW b
    PROVE  /\ \A s, i : <<s, i>> \in Holders(b)'
                  <=> s \in Seqs /\ i \in Held(s)' /\ blockTable'[s][i] = b
           /\ \A x \in Holders(b)' : \E s, i : x = <<s, i>>
BY DEF Holders

\* Appending block b to the table of s adds one reference to b.
LEMMA HoldersGrow ==
    ASSUME NEW s \in Seqs, NEW b \in Blocks,
           blockTable \in [Seqs -> Seq(Blocks)],
           call.op # "free", call'.op # "free",
           blockTable' = [blockTable EXCEPT ![s] = Append(@, b)]
    PROVE  LET e == <<s, Len(blockTable[s]) + 1>>
           IN  /\ e \notin Holders(b)
               /\ Holders(b)' = Holders(b) \cup {e}
               /\ \A c \in Blocks \ {b} : Holders(c)' = Holders(c)
<1> DEFINE n == Len(blockTable[s])
           e == <<s, n + 1>>
<1>1. /\ n \in Nat
      /\ \A r \in Seqs : Held(r) = 1 .. Len(blockTable[r])
      /\ \A r \in Seqs : Held(r)' = 1 .. Len(blockTable'[r])
      /\ Len(blockTable'[s]) = n + 1
      /\ \A i \in 1 .. n : blockTable'[s][i] = blockTable[s][i]
      /\ blockTable'[s][n + 1] = b
      /\ \A r \in Seqs \ {s} : blockTable'[r] = blockTable[r]
  BY DEF Held
<1>2. ASSUME NEW c \in Blocks, NEW r \in Seqs, NEW i
      PROVE  (i \in Held(r)' /\ blockTable'[r][i] = c)
                <=> \/ i \in Held(r) /\ blockTable[r][i] = c
                    \/ r = s /\ i = n + 1 /\ c = b
  <2>1. CASE r # s
    BY <1>1, <2>1
  <2>2. CASE r = s
    <3>1. i \in 1 .. n + 1 <=> i \in 1 .. n \/ i = n + 1
      BY <1>1
    <3>2. n + 1 \notin 1 .. n
      BY <1>1
    <3> QED BY <1>1, <2>2, <3>1, <3>2
  <2> QED BY <2>1, <2>2
<1>3. ASSUME NEW c \in Blocks, NEW x
      PROVE  x \in Holders(c)' <=> x \in Holders(c) \/ (x = e /\ c = b)
  <2>1. ASSUME NEW r, NEW i, x = <<r, i>>
        PROVE  x \in Holders(c)' <=> x \in Holders(c) \/ (x = e /\ c = b)
    <3>1. x \in Holders(c)' <=> r \in Seqs /\ i \in Held(r)' /\ blockTable'[r][i] = c
      BY <2>1, HoldersMembersPrime
    <3>2. x \in Holders(c) <=> r \in Seqs /\ i \in Held(r) /\ blockTable[r][i] = c
      BY <2>1, HoldersMembers
    <3>3. x = e <=> r = s /\ i = n + 1
      BY <2>1
    <3> HIDE DEF e, n
    <3>4. CASE r \notin Seqs
      BY <3>1, <3>2, <3>3, <3>4
    <3>5. CASE r \in Seqs
      <4>1. (i \in Held(r)' /\ blockTable'[r][i] = c)
              <=> \/ i \in Held(r) /\ blockTable[r][i] = c
                  \/ r = s /\ i = n + 1 /\ c = b
        BY <1>2, <3>5
      <4> QED BY <3>1, <3>2, <3>3, <3>5, <4>1
    <3> QED BY <3>4, <3>5
  <2>2. x = e \/ x \in Holders(c) \/ x \in Holders(c)' => \E r, i : x = <<r, i>>
    BY HoldersMembers, HoldersMembersPrime
  <2> HIDE DEF e
  <2> QED BY <2>1, <2>2
<1>4. e \notin Holders(b)
  BY <1>1, HoldersMembers
<1> QED BY <1>3, <1>4

\* Tables and references both stay.
LEMMA HoldersSame ==
    ASSUME blockTable' = blockTable, \A s \in Seqs : Held(s)' = Held(s)
    PROVE  \A b : Holders(b)' = Holders(b)
BY DEF Holders

\* free gives up one reference.
LEMMA HoldersRelease ==
    ASSUME NEW s \in Seqs, NEW k \in Nat, k + 1 \in DOMAIN blockTable[s],
           blockTable \in [Seqs -> Seq(Blocks)],
           call.op = "free", call.seq = s, call.i = k,
           call'.op = "free", call'.seq = s, call'.i = k + 1,
           blockTable' = blockTable,
           NEW b \in Blocks, b = blockTable[s][k + 1]
    PROVE  LET e == <<s, k + 1>>
           IN  /\ e \in Holders(b)
               /\ Holders(b)' = Holders(b) \ {e}
               /\ \A c \in Blocks \ {b} : Holders(c)' = Holders(c)
<1> DEFINE e == <<s, k + 1>>
<1>1. /\ \A r \in Seqs \ {s} : Held(r)' = Held(r)
      /\ Held(s)' = Held(s) \ {k + 1}
      /\ k + 1 \in Held(s)
  BY DEF Held
<1>2. ASSUME NEW c, NEW r \in Seqs, NEW i
      PROVE  (i \in Held(r)' /\ blockTable'[r][i] = c)
                <=> (i \in Held(r) /\ blockTable[r][i] = c) /\ ~(r = s /\ i = k + 1)
  BY <1>1
<1>3. ASSUME NEW c, NEW x
      PROVE  x \in Holders(c)' <=> x \in Holders(c) /\ x # e
  <2>1. ASSUME NEW r, NEW i, x = <<r, i>>
        PROVE  x \in Holders(c)' <=> x \in Holders(c) /\ x # e
    <3>1. x \in Holders(c)' <=> r \in Seqs /\ i \in Held(r)' /\ blockTable'[r][i] = c
      BY <2>1, HoldersMembersPrime
    <3>2. x \in Holders(c) <=> r \in Seqs /\ i \in Held(r) /\ blockTable[r][i] = c
      BY <2>1, HoldersMembers
    <3>3. x = e <=> r = s /\ i = k + 1
      BY <2>1
    <3> HIDE DEF e
    <3>4. CASE r \notin Seqs
      BY <3>1, <3>2, <3>3, <3>4
    <3>5. CASE r \in Seqs
      <4>1. (i \in Held(r)' /\ blockTable'[r][i] = c)
              <=> (i \in Held(r) /\ blockTable[r][i] = c) /\ ~(r = s /\ i = k + 1)
        BY ONLY <1>2, <3>5
      <4> QED BY ONLY <3>1, <3>2, <3>3, <3>5, <4>1
    <3> QED BY <3>4, <3>5
  <2>2. x \in Holders(c) \/ x \in Holders(c)' => \E r, i : x = <<r, i>>
    BY HoldersMembers, HoldersMembersPrime
  <2> HIDE DEF e
  <2> QED BY <2>1, <2>2
<1>4. e \in Holders(b)
  BY <1>1, HoldersMembers
<1>5. \A c : c # b => e \notin Holders(c)
  BY HoldersMembers
<1> HIDE DEF e
<1>6. Holders(b)' = Holders(b) \ {e}
  BY ONLY <1>3
<1>7. \A c \in Blocks \ {b} : Holders(c)' = Holders(c)
  BY ONLY <1>3, <1>5
<1> QED BY <1>4, <1>6, <1>7 DEF e

-----------------------------------------------------------------------------
(* Hashes and content, entry by entry. *)

LEMMA ContentByHolder ==
    ASSUME blockTable \in [Seqs -> Seq(Blocks)]
    PROVE  HashNamesContent <=>
             \A b \in Blocks : \A s, i :
                (<<s, i>> \in Holders(b) /\ pool.hashKey[b] # NoHash) =>
                    /\ i * BlockSize <= TotalLen(s)
                    /\ pool.hashKey[b] = PrefixOf(s, i)
<1>1. \A s \in Seqs : Held(s) \subseteq DOMAIN blockTable[s]
  BY DEF Held
<1>2. \A s \in Seqs : \A i \in DOMAIN blockTable[s] : blockTable[s][i] \in Blocks
  OBVIOUS
<1>3. \A b, s, i : <<s, i>> \in Holders(b)
          <=> s \in Seqs /\ i \in Held(s) /\ blockTable[s][i] = b
  BY HoldersMembers
<1>4. ASSUME HashNamesContent,
             NEW b \in Blocks, NEW s, NEW i, <<s, i>> \in Holders(b),
             pool.hashKey[b] # NoHash
      PROVE  i * BlockSize <= TotalLen(s) /\ pool.hashKey[b] = PrefixOf(s, i)
  BY ONLY <1>1, <1>3, <1>4 DEF HashNamesContent
<1>5. ASSUME \A b \in Blocks : \A s, i :
                (<<s, i>> \in Holders(b) /\ pool.hashKey[b] # NoHash) =>
                    /\ i * BlockSize <= TotalLen(s)
                    /\ pool.hashKey[b] = PrefixOf(s, i)
      PROVE  HashNamesContent
  <2> SUFFICES ASSUME NEW s \in Seqs, NEW i \in DOMAIN blockTable[s],
                      i \in Held(s), pool.hashKey[blockTable[s][i]] # NoHash
               PROVE  /\ i * BlockSize <= TotalLen(s)
                      /\ pool.hashKey[blockTable[s][i]] = PrefixOf(s, i)
    BY DEF HashNamesContent
  <2>1. /\ blockTable[s][i] \in Blocks
        /\ <<s, i>> \in Holders(blockTable[s][i])
    BY <1>2, <1>3
  <2> QED BY ONLY <1>5, <2>1, pool.hashKey[blockTable[s][i]] # NoHash
<1> QED BY ONLY <1>4, <1>5

LEMMA ContentByHolderPrime ==
    ASSUME blockTable' \in [Seqs -> Seq(Blocks)]
    PROVE  HashNamesContent' <=>
             \A b \in Blocks : \A s, i :
                (<<s, i>> \in Holders(b)' /\ pool'.hashKey[b] # NoHash) =>
                    /\ i * BlockSize <= TotalLen(s)'
                    /\ pool'.hashKey[b] = PrefixOf(s, i)'
<1>1. \A s \in Seqs : Held(s)' \subseteq DOMAIN blockTable'[s]
  BY DEF Held
<1>2. \A s \in Seqs : \A i \in DOMAIN blockTable'[s] : blockTable'[s][i] \in Blocks
  OBVIOUS
<1>3. \A b, s, i : <<s, i>> \in Holders(b)'
          <=> s \in Seqs /\ i \in Held(s)' /\ blockTable'[s][i] = b
  BY HoldersMembersPrime
<1>4. ASSUME HashNamesContent',
             NEW b \in Blocks, NEW s, NEW i, <<s, i>> \in Holders(b)',
             pool'.hashKey[b] # NoHash
      PROVE  i * BlockSize <= TotalLen(s)' /\ pool'.hashKey[b] = PrefixOf(s, i)'
  BY ONLY <1>1, <1>3, <1>4 DEF HashNamesContent
<1>5. ASSUME \A b \in Blocks : \A s, i :
                (<<s, i>> \in Holders(b)' /\ pool'.hashKey[b] # NoHash) =>
                    /\ i * BlockSize <= TotalLen(s)'
                    /\ pool'.hashKey[b] = PrefixOf(s, i)'
      PROVE  HashNamesContent'
  <2> SUFFICES ASSUME NEW s \in Seqs, NEW i \in DOMAIN blockTable'[s],
                      i \in Held(s)', pool'.hashKey[blockTable'[s][i]] # NoHash
               PROVE  /\ i * BlockSize <= TotalLen(s)'
                      /\ pool'.hashKey[blockTable'[s][i]] = PrefixOf(s, i)'
    BY DEF HashNamesContent
  <2>1. PICK b \in Blocks : b = blockTable'[s][i]
    BY <1>2
  <2>2. <<s, i>> \in Holders(b)'
    BY <1>3, <2>1
  <2>3. pool'.hashKey[b] # NoHash
    BY <2>1
  <2> QED BY ONLY <1>5, <2>1, <2>2, <2>3
<1> QED BY ONLY <1>4, <1>5

LEMMA SameTokens ==
    ASSUME UNCHANGED <<prompt, output>>
    PROVE  \A s, i : /\ PrefixOf(s, i)' = PrefixOf(s, i)
                     /\ TotalLen(s)' = TotalLen(s)
                     /\ PromptLen(s)' = PromptLen(s)
BY DEF PrefixOf, AllTokenIds, TotalLen, PromptLen

-----------------------------------------------------------------------------
(* What each kind of step does to the references and the hashes. *)

\* A fresh block, named for the tokens it will hold or not at all, goes to
\* the end of a table.
LEMMA FreshStep ==
    ASSUME PoolInv,
           NEW s \in Seqs, NEW b \in Blocks,
           call.op # "free", call'.op # "free",
           UNCHANGED <<prompt, output>>,
           blockTable' = [blockTable EXCEPT ![s] = Append(@, b)],
           pool.refCount[b] = 0,
           pool'.refCount = [pool.refCount EXCEPT ![b] = 1],
           \A c \in Blocks \ {b} : pool'.hashKey[c] = pool.hashKey[c],
           pool'.hashKey[b] # NoHash =>
               /\ (Len(blockTable[s]) + 1) * BlockSize <= TotalLen(s)
               /\ pool'.hashKey[b] = PrefixOf(s, Len(blockTable[s]) + 1)
    PROVE  HoldersOK' /\ HashNamesContent' /\ UnhashedHasOneHolder'
<1> DEFINE e == <<s, Len(blockTable[s]) + 1>>
<1>0. /\ blockTable \in [Seqs -> Seq(Blocks)]
      /\ blockTable' \in [Seqs -> Seq(Blocks)]
      /\ pool.refCount \in [Blocks -> Nat]
  <2>1. blockTable \in [Seqs -> Seq(Blocks)] /\ PoolTyped(pool)
    BY DEF PoolInv, PoolTypeOK
  <2>2. Append(blockTable[s], b) \in Seq(Blocks)
    BY <2>1
  <2>3. blockTable' \in [Seqs -> Seq(Blocks)]
    BY <2>1, <2>2
  <2> QED BY <2>1, <2>3, TypedFields
<1>1. /\ Holders(b)' = Holders(b) \cup {e}
      /\ \A c \in Blocks \ {b} : Holders(c)' = Holders(c)
  BY <1>0, HoldersGrow
<1>2. Holders(b) = {}
  BY FS_EmptySet DEF PoolInv, HoldersOK
<1>3. Holders(b)' = {e}
  BY <1>1, <1>2
<1>4. HoldersOK'
  <2>1. IsFiniteSet({e}) /\ Cardinality({e}) = 1
    <3> HIDE DEF e
    <3>1. IsFiniteSet({}) /\ Cardinality({}) = 0 /\ e \notin {}
      BY FS_EmptySet
    <3>2. IsFiniteSet({} \cup {e}) /\ Cardinality({} \cup {e}) = 0 + 1
      BY <3>1, FS_AddElement
    <3>3. {} \cup {e} = {e} /\ 0 + 1 = 1
      OBVIOUS
    <3> QED BY <3>2, <3>3
  <2>2. ASSUME NEW c \in Blocks
        PROVE  IsFiniteSet(Holders(c)') /\ pool'.refCount[c] = Cardinality(Holders(c)')
    <3>1. CASE c = b
      BY <1>0, <1>3, <2>1, <3>1
    <3>2. CASE c # b
      BY <1>0, <1>1, <3>2 DEF PoolInv, HoldersOK
    <3> QED BY <3>1, <3>2
  <2> QED BY <2>2 DEF HoldersOK
<1>5. HashNamesContent'
  <2> SUFFICES ASSUME NEW c \in Blocks, NEW r, NEW i, <<r, i>> \in Holders(c)',
                      pool'.hashKey[c] # NoHash
               PROVE  /\ i * BlockSize <= TotalLen(r)'
                      /\ pool'.hashKey[c] = PrefixOf(r, i)'
    BY <1>0, ContentByHolderPrime
  <2>1. CASE c = b
    <3>1. r = s /\ i = Len(blockTable[s]) + 1
      BY <1>3, <2>1
    <3> QED BY <2>1, <3>1, SameTokens
  <2>2. CASE c # b
    <3>1. <<r, i>> \in Holders(c) /\ pool.hashKey[c] # NoHash
      BY <1>1, <2>2
    <3>2. i * BlockSize <= TotalLen(r) /\ pool.hashKey[c] = PrefixOf(r, i)
      BY <1>0, <3>1, ContentByHolder DEF PoolInv
    <3> QED BY <2>2, <3>2, SameTokens
  <2> QED BY <2>1, <2>2
<1>6. UnhashedHasOneHolder'
  <2> SUFFICES ASSUME NEW c \in Blocks, pool'.hashKey[c] = NoHash,
                      NEW x \in Holders(c)', NEW y \in Holders(c)'
               PROVE  x = y
    BY DEF UnhashedHasOneHolder
  <2>1. CASE c = b
    BY <1>3, <2>1
  <2>2. CASE c # b
    BY <1>1, <2>2 DEF PoolInv, UnhashedHasOneHolder
  <2> QED BY <2>1, <2>2
<1> QED BY <1>4, <1>5, <1>6

\* A hit appends a block that is named for exactly the next tokens.
LEMMA ShareStep ==
    ASSUME PoolInv,
           NEW s \in Seqs, NEW b \in Blocks,
           call.op # "free", call'.op # "free",
           UNCHANGED <<prompt, output>>,
           blockTable' = [blockTable EXCEPT ![s] = Append(@, b)],
           pool'.refCount = [pool.refCount EXCEPT ![b] = @ + 1],
           pool'.hashKey = pool.hashKey,
           pool.hashKey[b] # NoHash,
           (Len(blockTable[s]) + 1) * BlockSize <= TotalLen(s),
           pool.hashKey[b] = PrefixOf(s, Len(blockTable[s]) + 1)
    PROVE  HoldersOK' /\ HashNamesContent' /\ UnhashedHasOneHolder'
<1> DEFINE e == <<s, Len(blockTable[s]) + 1>>
<1>0. /\ blockTable \in [Seqs -> Seq(Blocks)]
      /\ blockTable' \in [Seqs -> Seq(Blocks)]
      /\ pool.refCount \in [Blocks -> Nat]
  <2>1. blockTable \in [Seqs -> Seq(Blocks)] /\ PoolTyped(pool)
    BY DEF PoolInv, PoolTypeOK
  <2>2. Append(blockTable[s], b) \in Seq(Blocks)
    BY <2>1
  <2>3. blockTable' \in [Seqs -> Seq(Blocks)]
    BY <2>1, <2>2
  <2> QED BY <2>1, <2>3, TypedFields
<1>1. /\ e \notin Holders(b)
      /\ Holders(b)' = Holders(b) \cup {e}
      /\ \A c \in Blocks \ {b} : Holders(c)' = Holders(c)
  BY <1>0, HoldersGrow
<1>2. HoldersOK'
  <2> SUFFICES ASSUME NEW c \in Blocks
               PROVE  /\ IsFiniteSet(Holders(c)')
                      /\ pool'.refCount[c] = Cardinality(Holders(c)')
    BY DEF HoldersOK
  <2>1. IsFiniteSet(Holders(c)) /\ pool.refCount[c] = Cardinality(Holders(c))
    BY DEF PoolInv, HoldersOK
  <2>2. CASE c = b
    <3>1. /\ IsFiniteSet(Holders(b) \cup {e})
          /\ Cardinality(Holders(b) \cup {e}) = Cardinality(Holders(b)) + 1
      BY <1>1, <2>1, <2>2, FS_AddElement
    <3> QED BY <1>0, <1>1, <2>1, <2>2, <3>1
  <2>3. CASE c # b
    BY <1>0, <1>1, <2>1, <2>3
  <2> QED BY <2>2, <2>3
<1>3. HashNamesContent'
  <2> SUFFICES ASSUME NEW c \in Blocks, NEW r, NEW i, <<r, i>> \in Holders(c)',
                      pool'.hashKey[c] # NoHash
               PROVE  /\ i * BlockSize <= TotalLen(r)'
                      /\ pool'.hashKey[c] = PrefixOf(r, i)'
    BY <1>0, ContentByHolderPrime
  <2>1. CASE <<r, i>> \in Holders(c)
    <3>1. i * BlockSize <= TotalLen(r) /\ pool.hashKey[c] = PrefixOf(r, i)
      BY <1>0, <2>1, ContentByHolder DEF PoolInv
    <3> QED BY <3>1, SameTokens
  <2>2. CASE <<r, i>> \notin Holders(c)
    <3>1. c = b /\ r = s /\ i = Len(blockTable[s]) + 1
      BY <1>1, <2>2
    <3> QED BY <3>1, SameTokens
  <2> QED BY <2>1, <2>2
<1>4. UnhashedHasOneHolder'
  BY <1>1 DEF PoolInv, UnhashedHasOneHolder
<1> QED BY <1>2, <1>3, <1>4

\* The references stay; a block in use may get the name of its content.
LEMMA NamingStep ==
    ASSUME PoolInv,
           blockTable' = blockTable,
           \A b \in Blocks : Holders(b)' = Holders(b),
           pool'.refCount = pool.refCount,
           \A b \in Blocks : \A s, i :
              (<<s, i>> \in Holders(b) /\ pool'.hashKey[b] # NoHash) =>
                  \/ /\ pool'.hashKey[b] = pool.hashKey[b]
                     /\ PrefixOf(s, i)' = PrefixOf(s, i)
                     /\ TotalLen(s)' >= TotalLen(s)
                  \/ /\ i * BlockSize <= TotalLen(s)'
                     /\ pool'.hashKey[b] = PrefixOf(s, i)',
           \A b \in Blocks : pool'.hashKey[b] = NoHash => pool.hashKey[b] = NoHash,
           \A s \in Seqs : TotalLen(s) \in Nat /\ TotalLen(s)' \in Nat
    PROVE  HoldersOK' /\ HashNamesContent' /\ UnhashedHasOneHolder'
<1>0. blockTable \in [Seqs -> Seq(Blocks)]
  BY DEF PoolInv, PoolTypeOK
<1>1. HoldersOK'
  BY DEF PoolInv, HoldersOK
<1>2. HashNamesContent'
  <2> SUFFICES ASSUME NEW c \in Blocks, NEW r, NEW i, <<r, i>> \in Holders(c),
                      pool'.hashKey[c] # NoHash
               PROVE  /\ i * BlockSize <= TotalLen(r)'
                      /\ pool'.hashKey[c] = PrefixOf(r, i)'
    BY <1>0, ContentByHolderPrime
  <2>1. r \in Seqs /\ i \in DOMAIN blockTable[r]
    BY HoldersMembers DEF Held
  <2>2. i * BlockSize \in Int
    BY <1>0, <2>1, BlockConstants
  <2>3. pool.hashKey[c] # NoHash =>
           i * BlockSize <= TotalLen(r) /\ pool.hashKey[c] = PrefixOf(r, i)
    BY <1>0, ContentByHolder DEF PoolInv
  <2> QED BY <2>1, <2>2, <2>3
<1>3. UnhashedHasOneHolder'
  BY DEF PoolInv, UnhashedHasOneHolder
<1> QED BY <1>1, <1>2, <1>3

\* One reference goes, and the hashes stay.
LEMMA ReleaseStep ==
    ASSUME PoolInv,
           UNCHANGED <<prompt, output, blockTable>>,
           NEW b \in Blocks, NEW e \in Holders(b),
           Holders(b)' = Holders(b) \ {e},
           \A c \in Blocks \ {b} : Holders(c)' = Holders(c),
           pool'.refCount = [pool.refCount EXCEPT ![b] = @ - 1],
           pool'.hashKey = pool.hashKey
    PROVE  HoldersOK' /\ HashNamesContent' /\ UnhashedHasOneHolder'
<1>0. /\ blockTable \in [Seqs -> Seq(Blocks)]
      /\ blockTable' \in [Seqs -> Seq(Blocks)]
      /\ pool.refCount \in [Blocks -> Nat]
  BY TypedFields DEF PoolInv, PoolTypeOK
<1>1. \A c \in Blocks : Holders(c)' \subseteq Holders(c)
  OBVIOUS
<1>2. HoldersOK'
  <2> SUFFICES ASSUME NEW c \in Blocks
               PROVE  /\ IsFiniteSet(Holders(c)')
                      /\ pool'.refCount[c] = Cardinality(Holders(c)')
    BY DEF HoldersOK
  <2>1. IsFiniteSet(Holders(c)) /\ pool.refCount[c] = Cardinality(Holders(c))
    BY DEF PoolInv, HoldersOK
  <2>2. CASE c = b
    <3>1. /\ IsFiniteSet(Holders(b) \ {e})
          /\ Cardinality(Holders(b) \ {e}) = Cardinality(Holders(b)) - 1
      BY <2>1, <2>2, FS_RemoveElement
    <3> QED BY <1>0, <2>1, <2>2, <3>1
  <2>3. CASE c # b
    BY <1>0, <2>1, <2>3
  <2> QED BY <2>2, <2>3
<1>3. HashNamesContent'
  <2> SUFFICES ASSUME NEW c \in Blocks, NEW r, NEW i, <<r, i>> \in Holders(c)',
                      pool'.hashKey[c] # NoHash
               PROVE  /\ i * BlockSize <= TotalLen(r)'
                      /\ pool'.hashKey[c] = PrefixOf(r, i)'
    BY <1>0, ContentByHolderPrime
  <2>1. i * BlockSize <= TotalLen(r) /\ pool.hashKey[c] = PrefixOf(r, i)
    BY <1>0, <1>1, ContentByHolder DEF PoolInv
  <2> QED BY <2>1, SameTokens
<1>4. UnhashedHasOneHolder'
  BY <1>1 DEF PoolInv, UnhashedHasOneHolder
<1> QED BY <1>2, <1>3, <1>4

\* Nothing that counts changes: neither the references nor the hashes.
LEMMA QuietStep ==
    ASSUME PoolInv,
           UNCHANGED <<prompt, output, pool>>,
           blockTable' \in [Seqs -> Seq(Blocks)],
           \A b \in Blocks : Holders(b)' = Holders(b)
    PROVE  HoldersOK' /\ HashNamesContent' /\ UnhashedHasOneHolder'
<1>1. HoldersOK' /\ UnhashedHasOneHolder'
  BY DEF PoolInv, HoldersOK, UnhashedHasOneHolder
<1>2. HashNamesContent'
  <2> SUFFICES ASSUME NEW c \in Blocks, NEW r, NEW i, <<r, i>> \in Holders(c)',
                      pool'.hashKey[c] # NoHash
               PROVE  /\ i * BlockSize <= TotalLen(r)'
                      /\ pool'.hashKey[c] = PrefixOf(r, i)'
    BY ContentByHolderPrime
  <2>1. i * BlockSize <= TotalLen(r) /\ pool.hashKey[c] = PrefixOf(r, i)
    BY ContentByHolder DEF PoolInv, PoolTypeOK
  <2> QED BY <2>1, SameTokens
<1> QED BY <1>1, <1>2

-----------------------------------------------------------------------------
(* The tokens and the blocks of a sequence. *)

LEMMA SequenceSizes ==
    ASSUME PoolTypeOK, NEW s \in Seqs
    PROVE  /\ AllTokenIds(s) \in Seq(Tokens)
           /\ Len(AllTokenIds(s)) = TotalLen(s)
           /\ TotalLen(s) \in Nat
           /\ PromptLen(s) \in Nat \ {0}
           /\ PromptLen(s) <= TotalLen(s)
           /\ Len(blockTable[s]) \in Nat
           /\ prompt[s] \in Seq(Tokens)
           /\ output[s] \in Seq(Tokens)
<1>1. prompt[s] \in Seq(Tokens) /\ prompt[s] # <<>> /\ output[s] \in Seq(Tokens)
  BY PromptsAssumption DEF PoolTypeOK
<1>2. blockTable[s] \in Seq(Blocks)
  BY DEF PoolTypeOK
<1>3. /\ Len(prompt[s]) \in Nat \ {0}
      /\ Len(output[s]) \in Nat
      /\ Len(blockTable[s]) \in Nat
  BY <1>1, <1>2, EmptySeq
<1>4. /\ AllTokenIds(s) \in Seq(Tokens)
      /\ Len(AllTokenIds(s)) = Len(prompt[s]) + Len(output[s])
  BY <1>1, ConcatProperties DEF AllTokenIds
<1> DEFINE m == Len(prompt[s])
           n == Len(output[s])
<1>5. TotalLen(s) = m + n /\ PromptLen(s) = m /\ m \in Nat \ {0} /\ n \in Nat
  BY <1>3 DEF TotalLen, PromptLen
<1> HIDE DEF m, n
<1>6. TotalLen(s) \in Nat /\ PromptLen(s) \in Nat \ {0} /\ PromptLen(s) <= TotalLen(s)
  BY <1>5
<1> QED BY <1>1, <1>3, <1>4, <1>6 DEF TotalLen

\* The hash of block i, chained to that of the blocks before it, names the
\* first i + 1 blocks.
LEMMA ChainStep ==
    ASSUME PoolTypeOK, NEW s \in Seqs, NEW i \in Nat,
           (i + 1) * BlockSize <= TotalLen(s)
    PROVE  /\ BlockHash(PrefixOf(s, i), BlockTokens(s, i)) = PrefixOf(s, i + 1)
           /\ PrefixOf(s, i + 1) \in Hashes
           /\ PrefixOf(s, i + 1) # NoHash
<1> DEFINE q == AllTokenIds(s)
           m == i * BlockSize
           n == (i + 1) * BlockSize
<1>1. q \in Seq(Tokens) /\ Len(q) = TotalLen(s)
  BY SequenceSizes
<1>2. m \in Nat /\ n \in Nat /\ m <= n /\ n > 0
  BY BlockConstants
<1>3. n <= Len(q)
  BY <1>1
<1>4. /\ BlockHash(PrefixOf(s, i), BlockTokens(s, i))
              = SubSeq(q, 1, m) \o SubSeq(q, m + 1, n)
      /\ PrefixOf(s, i + 1) = SubSeq(q, 1, n)
  BY DEF BlockHash, PrefixOf, BlockTokens
<1> HIDE DEF q, m, n
<1>5. SubSeq(q, 1, m) \o SubSeq(q, m + 1, n) = SubSeq(q, 1, n)
  BY <1>1, <1>2, <1>3, PrefixConcat
<1>6. SubSeq(q, 1, n) \in Seq(Tokens) /\ Len(SubSeq(q, 1, n)) = n
  BY <1>1, <1>2, <1>3
<1>7. SubSeq(q, 1, n) # <<>>
  <2> DEFINE w == SubSeq(q, 1, n)
  <2>1. w \in Seq(Tokens) /\ Len(w) > 0
    BY <1>2, <1>6
  <2> HIDE DEF w
  <2>2. w # <<>>
    BY <2>1
  <2> QED BY <2>2 DEF w
<1> QED BY <1>4, <1>5, <1>6, <1>7 DEF Hashes, NoHash

LEMMA EmptyPrefix ==
    ASSUME PoolTypeOK, NEW s \in Seqs
    PROVE  PrefixOf(s, 0) = NoHash
<1>1. AllTokenIds(s) \in Seq(Tokens)
  BY SequenceSizes
<1>2. PrefixOf(s, 0) = SubSeq(AllTokenIds(s), 1, 0)
  BY BlockConstants DEF PrefixOf
<1> QED BY <1>1, <1>2 DEF NoHash

LEMMA PromptBlocks ==
    ASSUME PoolTypeOK, NEW s \in Seqs
    PROVE  /\ NumFull(s) \in Nat
           /\ NumFull(s) * BlockSize <= PromptLen(s)
           /\ CapFull(s) \in Nat
           /\ CapFull(s) * BlockSize < PromptLen(s)
           /\ NumBlocksNeededFor(PromptLen(s))
                  = NumFull(s) + (IF HasTail(s) THEN 1 ELSE 0)
<1> DEFINE a == PromptLen(s)
           b == BlockSize
           d == a \div b
           r == a % b
<1>1. a \in Nat \ {0} /\ b \in Nat \ {0}
  BY SequenceSizes, BlockConstants
<1>2. /\ NumFull(s) = d
      /\ CapFull(s) = IF r = 0 THEN d - 1 ELSE d
      /\ HasTail(s) <=> r # 0
      /\ NumBlocksNeededFor(a) = (a + b - 1) \div b
      /\ PromptLen(s) = a /\ BlockSize = b
  BY DEF NumFull, CapFull, HasTail, NumBlocksNeededFor
<1> HIDE DEF a, b
<1>3. d \in Nat /\ r \in 0 .. b - 1 /\ a = b * d + r
  BY <1>1, DivMod
<1> HIDE DEF d, r
<1>4. d * b <= a
  BY <1>1, <1>3
<1>5. CASE r = 0
  <2>1. d >= 1 /\ (d - 1) * b < a /\ d - 1 \in Nat
    BY <1>1, <1>3, <1>5
  <2>2. a + b - 1 = b * d + (b - 1) /\ a + b - 1 \in Nat /\ b - 1 \in 0 .. b - 1
    BY <1>1, <1>3, <1>5
  <2>3. (a + b - 1) \div b = d
    BY <1>1, <1>3, <2>2, DivUnique
  <2> QED BY <1>2, <1>3, <1>4, <1>5, <2>1, <2>3
<1>6. CASE r # 0
  <2>1. d * b < a
    BY <1>1, <1>3, <1>6
  <2>2. /\ a + b - 1 = b * (d + 1) + (r - 1)
        /\ a + b - 1 \in Nat
        /\ r - 1 \in 0 .. b - 1
        /\ d + 1 \in Nat
    BY <1>1, <1>3, <1>6
  <2>3. (a + b - 1) \div b = d + 1
    BY <1>1, <2>2, DivUnique
  <2> QED BY <1>2, <1>3, <1>4, <1>6, <2>1, <2>3
<1> QED BY <1>5, <1>6

LEMMA CallFields ==
    ASSUME NEW op, NEW s, NEW i, NEW n, NEW prev, NEW cached
    PROVE  /\ Call(op, s, i, n, prev, cached).op = op
           /\ Call(op, s, i, n, prev, cached).seq = s
           /\ Call(op, s, i, n, prev, cached).i = i
           /\ Call(op, s, i, n, prev, cached).n = n
           /\ Call(op, s, i, n, prev, cached).prev = prev
           /\ Call(op, s, i, n, prev, cached).cached = cached
BY DEF Call

LEMMA CallTyped ==
    ASSUME NEW op \in CallOps, NEW s \in Seqs \cup {NoSeq}, NEW i \in Nat,
           NEW n \in Nat, NEW prev \in Hashes, NEW cached \in Nat
    PROVE  Call(op, s, i, n, prev, cached)
              \in [op : CallOps, seq : Seqs \cup {NoSeq}, i : Nat, n : Nat,
                   prev : Hashes, cached : Nat]
BY DEF Call

LEMMA IdleFields ==
    /\ Idle.op = "none"
    /\ Idle \in [op : CallOps, seq : Seqs \cup {NoSeq}, i : Nat, n : Nat,
                  prev : Hashes, cached : Nat]
<1>1. NoHash \in Hashes /\ "none" \in CallOps /\ NoSeq \in Seqs \cup {NoSeq}
  BY DEF NoHash, Hashes, CallOps
<1>2. Call("none", NoSeq, 0, 0, NoHash, 0)
         \in [op : CallOps, seq : Seqs \cup {NoSeq}, i : Nat, n : Nat,
              prev : Hashes, cached : Nat]
  BY ONLY <1>1, CallTyped
<1> QED BY <1>2, CallFields DEF Idle

-----------------------------------------------------------------------------
(* The invariant holds initially, and each action preserves it. *)

LEMMA HoldersStay ==
    ASSUME blockTable' = blockTable, call.op # "free",
           call'.op = "free" => call'.i = 0,
           blockTable \in [Seqs -> Seq(Blocks)]
    PROVE  \A b : Holders(b)' = Holders(b)
<1>1. \A s \in Seqs : Held(s)' = Held(s)
  <2> SUFFICES ASSUME NEW s \in Seqs PROVE Held(s)' = Held(s)
    OBVIOUS
  <2>1. DOMAIN blockTable[s] = 1 .. Len(blockTable[s]) /\ Len(blockTable[s]) \in Nat
    OBVIOUS
  <2>2. \A i \in DOMAIN blockTable[s] : i > 0
    BY <2>1
  <2> QED BY <2>2 DEF Held
<1> QED BY <1>1, HoldersSame

LEMMA EmptyPoolOK == PoolOK(EmptyPool)
<1> DEFINE rc == [b \in Blocks |-> 0]
           hk == [b \in Blocks |-> NoHash]
           fu == [i \in 1 .. NumBlocks |-> i - 1]
           none == <<>>
<1>1. /\ EmptyPool = Pool(rc, hk, fu, none, none)
      /\ EmptyPool.refCount = rc /\ EmptyPool.hashKey = hk
      /\ EmptyPool.freeUncached = fu /\ EmptyPool.freeCached = none
      /\ EmptyPool.cache = none
  BY PoolFields DEF EmptyPool
<1>2. /\ fu \in Seq(Blocks) /\ DOMAIN fu = 1 .. NumBlocks
      /\ \A i \in 1 .. NumBlocks : fu[i] = i - 1
  BY BlockConstants DEF Blocks
<1>3. /\ none \in Seq(Blocks) /\ DOMAIN none = {} /\ none \in [{} -> Blocks]
      /\ Len(none) = 0
  OBVIOUS
<1>4. rc \in [Blocks -> Nat] /\ hk \in [Blocks -> Hashes]
  BY DEF NoHash, Hashes
<1>5. \A b \in Blocks : rc[b] = 0 /\ hk[b] = NoHash
  OBVIOUS
<1> HIDE DEF rc, hk, fu, none
<1>6. PoolTyped(EmptyPool)
  BY <1>1, <1>2, <1>3, <1>4, PoolTypedIntro
<1>7. FreeListsOK(EmptyPool)
  <2>1. NoDuplicates(fu) /\ NoDuplicates(none)
    BY <1>2, <1>3, BlockConstants DEF NoDuplicates
  <2>2. \A b \in Blocks : Contains(fu, b) /\ ~Contains(none, b)
    <3> TAKE b \in Blocks
    <3>1. b + 1 \in 1 .. NumBlocks /\ (b + 1) - 1 = b
      BY BlockConstants DEF Blocks
    <3>2. Len(fu) = NumBlocks
      BY <1>2, BlockConstants
    <3>3. fu[b + 1] = b
      BY <1>2, <3>1
    <3>4. Contains(fu, b)
      BY <3>1, <3>2, <3>3 DEF Contains
    <3>5. ~Contains(none, b)
      BY <1>3 DEF Contains
    <3> QED BY <3>4, <3>5
  <2> QED BY <1>1, <1>5, <2>1, <2>2 DEF FreeListsOK
<1>8. CacheOK(EmptyPool) /\ HashedOnlyIfEnabled(EmptyPool)
  BY <1>1, <1>3, <1>5 DEF CacheOK, HashedOnlyIfEnabled
<1> QED BY <1>6, <1>7, <1>8 DEF PoolOK

LEMMA InitInv == PoolInit => PoolInv
<1> SUFFICES ASSUME PoolInit PROVE PoolInv
  OBVIOUS
<1>1. pool = EmptyPool /\ call = Idle /\ Idle.op = "none"
  BY IdleFields DEF PoolInit
<1>2. /\ prompt \in [Seqs -> Prompts]
      /\ output \in [Seqs -> Seq(Tokens)]
      /\ blockTable \in [Seqs -> Seq(Blocks)]
      /\ numComputed \in [Seqs -> Nat]
      /\ numCachedPrefix \in [Seqs -> Nat]
      /\ \A s \in Seqs : blockTable[s] = <<>> /\ numCachedPrefix[s] = 0
  BY DEF PoolInit, SequenceInit
<1>3. PoolTypeOK
  BY <1>1, <1>2, IdleFields, EmptyPoolOK DEF PoolTypeOK, PoolOK
<1>4. CallOK
  BY <1>1 DEF CallOK, AdmitOK, FreeOK, RegisterOK
<1>5. \A b : Holders(b) = {}
  BY <1>2 DEF Holders, Held
<1>6. \A b \in Blocks : pool.refCount[b] = 0
  BY <1>1, PoolFields DEF EmptyPool
<1>7. HoldersOK /\ UnhashedHasOneHolder
  BY <1>5, <1>6, FS_EmptySet DEF HoldersOK, UnhashedHasOneHolder
<1>8. HashNamesContent
  BY <1>2 DEF HashNamesContent
<1>9. PrefixLeavesWork
  <2> SUFFICES ASSUME NEW s \in Seqs PROVE numCachedPrefix[s] < PromptLen(s)
    BY DEF PrefixLeavesWork
  <2>1. PromptLen(s) \in Nat \ {0} /\ numCachedPrefix[s] = 0
    BY <1>2, <1>3, SequenceSizes
  <2> QED BY <2>1
<1> QED BY <1>1, <1>3, <1>4, <1>7, <1>8, <1>9, EmptyPoolOK DEF PoolInv

\* A step that keeps the counts and starts, ends or idles a call of no loop
\* invariant.
LEMMA PlainCall ==
    ASSUME call'.op \notin {"admit", "free", "register"}
    PROVE  CallOK'
BY DEF CallOK, AdmitOK, FreeOK, RegisterOK

LEMMA AdmitPreserves ==
    ASSUME PoolInv, NEW s \in Seqs, CanAllocateInitial(s), Admit(s)
    PROVE  PoolInv'
<1>1. /\ call = Idle /\ call.op = "none" /\ blockTable[s] = <<>>
      /\ call' = Call("admit", s, 0, NumFull(s), NoHash, 0)
      /\ UNCHANGED <<prompt, output, blockTable, numComputed, numCachedPrefix, pool>>
  BY IdleFields DEF Admit, Begin, seqVars
<1>2. PoolTypeOK /\ PoolOK(pool)
  BY DEF PoolInv
<1>3. /\ call'.op = "admit" /\ call'.seq = s /\ call'.i = 0
      /\ call'.n = NumFull(s) /\ call'.prev = NoHash /\ call'.cached = 0
  BY <1>1, CallFields
<1>4. PoolTypeOK'
  <2>1. NumFull(s) \in Nat /\ NoHash \in Hashes /\ "admit" \in CallOps
    BY <1>2, PromptBlocks DEF NoHash, Hashes, CallOps
  <2>2. call' \in [op : CallOps, seq : Seqs \cup {NoSeq}, i : Nat, n : Nat,
                   prev : Hashes, cached : Nat]
    BY <1>1, <2>1, CallTyped
  <2> QED BY <1>1, <1>2, <1>3, <2>2 DEF PoolTypeOK
<1>5. CallOK'
  <2>1. /\ NumFull(s) \in Nat
        /\ CapFull(s) \in Nat
        /\ PrefixOf(s, 0) = NoHash
        /\ NumFree(pool) >= NumFull(s) + (IF HasTail(s) THEN 1 ELSE 0)
        /\ Len(blockTable[s]) = 0
    BY <1>1, <1>2, PromptBlocks, EmptyPrefix DEF CanAllocateInitial
  <2>2. /\ NumFull(s)' = NumFull(s) /\ CapFull(s)' = CapFull(s)
        /\ HasTail(s)' = HasTail(s) /\ PrefixOf(s, 0)' = PrefixOf(s, 0)
    BY <1>1 DEF NumFull, CapFull, HasTail, PromptLen, PrefixOf, AllTokenIds
  <2>3. 0 * BlockSize = 0 /\ CapFull(s) * BlockSize \in Nat
    BY <2>1, BlockConstants
  <2>4. AdmitOK'
    BY <1>1, <1>3, <2>1, <2>2, <2>3 DEF AdmitOK
  <2> QED BY <1>3, <2>4 DEF CallOK, FreeOK, RegisterOK
<1>6. HoldersOK' /\ HashNamesContent' /\ UnhashedHasOneHolder'
  <2>1. blockTable \in [Seqs -> Seq(Blocks)]
    BY <1>2 DEF PoolTypeOK
  <2>2. \A b \in Blocks : Holders(b)' = Holders(b)
    BY <1>1, <1>3, <2>1, HoldersStay
  <2> QED BY <1>1, <2>1, <2>2, QuietStep
<1>7. PrefixLeavesWork'
  BY <1>1 DEF PoolInv, PrefixLeavesWork, PromptLen
<1> QED BY <1>1, <1>2, <1>4, <1>5, <1>6, <1>7 DEF PoolInv

\* What the loop of admit knows at block i = call.i < call.n of sequence s.
LEMMA AdmitBlock ==
    ASSUME PoolInv, call.op = "admit", call.i < call.n,
           NEW s \in Seqs, s = call.seq, NEW i \in Nat, i = call.i
    PROVE  /\ AdmitHash = PrefixOf(s, i + 1)
           /\ AdmitHash \in Hashes
           /\ AdmitHash # NoHash
           /\ Len(blockTable[s]) = i
           /\ (i + 1) * BlockSize <= TotalLen(s)
<1>1. /\ PoolTypeOK /\ AdmitOK
  BY DEF PoolInv, CallOK
<1>2. /\ call.n = NumFull(s) /\ i < NumFull(s) /\ Len(blockTable[s]) = i
      /\ call.prev = PrefixOf(s, i)
  BY <1>1 DEF AdmitOK
<1>3. /\ NumFull(s) \in Nat
      /\ NumFull(s) * BlockSize <= PromptLen(s)
      /\ PromptLen(s) \in Nat /\ TotalLen(s) \in Nat
      /\ PromptLen(s) <= TotalLen(s)
  BY <1>1, PromptBlocks, SequenceSizes
<1>4. (i + 1) * BlockSize <= TotalLen(s)
  <2>1. (i + 1) * BlockSize <= NumFull(s) * BlockSize
    <3>1. i + 1 \in Nat /\ i + 1 <= NumFull(s)
      BY <1>2, <1>3
    <3> QED BY <1>3, <3>1, BlockConstants, Multiples
  <2>2. (i + 1) * BlockSize \in Nat /\ NumFull(s) * BlockSize \in Nat
    BY <1>3, BlockConstants
  <2> QED BY <1>3, <2>1, <2>2
<1>5. AdmitHash = BlockHash(PrefixOf(s, i), BlockTokens(s, i))
  BY <1>2 DEF AdmitHash
<1> QED BY <1>1, <1>2, <1>4, <1>5, ChainStep

\* One block of the prompt done, fresh or shared, with cached2 tokens cached.
LEMMA AdmitAdvances ==
    ASSUME PoolInv, call.op = "admit", call.i < call.n,
           NEW s \in Seqs, s = call.seq, NEW i \in Nat, i = call.i,
           NEW b \in Blocks, NEW cached2 \in Nat,
           blockTable' = [blockTable EXCEPT ![s] = Append(@, b)],
           Advance(AdmitHash, cached2),
           cached2 <= (i + 1) * BlockSize,
           cached2 <= CapFull(s) * BlockSize,
           UNCHANGED <<prompt, output, numComputed, numCachedPrefix>>,
           PoolOK(pool'),
           NumFree(pool') >= NumFree(pool) - 1
    PROVE  PoolTypeOK' /\ CallOK' /\ PrefixLeavesWork' /\ PoolOK(pool)'
<1>1. /\ PoolTypeOK /\ AdmitOK /\ PoolTyped(pool)
  BY DEF PoolInv, CallOK, PoolOK
<1>2. /\ call' = Call("admit", s, i + 1, call.n, PrefixOf(s, i + 1), cached2)
      /\ PrefixOf(s, i + 1) \in Hashes
      /\ Len(blockTable[s]) = i
      /\ call.n \in Nat
  BY <1>1, AdmitBlock DEF Advance, PoolTypeOK
<1>3. /\ call'.op = "admit" /\ call'.seq = s /\ call'.i = i + 1
      /\ call'.n = call.n /\ call'.prev = PrefixOf(s, i + 1)
      /\ call'.cached = cached2
  BY <1>2, CallFields
<1>4. blockTable' \in [Seqs -> Seq(Blocks)] /\ Len(blockTable'[s]) = i + 1
  BY <1>1, <1>2 DEF PoolTypeOK
<1>5. PoolTypeOK'
  <2>1. "admit" \in CallOps /\ i + 1 \in Nat
    BY DEF CallOps
  <2>2. call' \in [op : CallOps, seq : Seqs \cup {NoSeq}, i : Nat, n : Nat,
                   prev : Hashes, cached : Nat]
    BY <1>2, <2>1, CallTyped
  <2>3. PoolTyped(pool)'
    BY DEF PoolOK
  <2> QED BY <1>1, <1>3, <1>4, <2>2, <2>3 DEF PoolTypeOK
<1>6. CallOK'
  <2>1. /\ NumFull(s)' = NumFull(s) /\ CapFull(s)' = CapFull(s)
        /\ HasTail(s)' = HasTail(s)
        /\ PrefixOf(s, i + 1)' = PrefixOf(s, i + 1)
    BY DEF NumFull, CapFull, HasTail, PromptLen, PrefixOf, AllTokenIds
  <2>2. NumFree(pool) \in Nat /\ NumFree(pool') \in Nat
    BY <1>1, TypedFields DEF PoolOK
  <2>3. NumFree(pool') >= (call.n - (i + 1)) + (IF HasTail(s) THEN 1 ELSE 0)
    <3>1. PICK n \in Nat, t \in {0, 1}, m \in Nat, m2 \in Nat :
             /\ n = call.n /\ t = (IF HasTail(s) THEN 1 ELSE 0)
             /\ m = NumFree(pool) /\ m2 = NumFree(pool')
      BY <1>2, <2>2
    <3>2. m >= (n - i) + t /\ m2 >= m - 1
      BY <1>1, <3>1 DEF AdmitOK
    <3>3. m2 >= (n - (i + 1)) + t
      BY ONLY i \in Nat, n \in Nat, t \in {0, 1}, m \in Nat, m2 \in Nat, <3>2
    <3> QED BY <3>1, <3>3
  <2>4. call.n = NumFull(s) /\ i + 1 <= call.n
    BY <1>1, <1>2 DEF AdmitOK
  <2>5. AdmitOK'
    BY <1>3, <1>4, <2>1, <2>3, <2>4 DEF AdmitOK
  <2> QED BY <1>3, <2>5 DEF CallOK, FreeOK, RegisterOK
<1>7. PrefixLeavesWork'
  BY DEF PoolInv, PrefixLeavesWork, PromptLen
<1> QED BY <1>5, <1>6, <1>7

LEMMA AdmitHitPreserves == PoolInv /\ AdmitHit => PoolInv'
<1> SUFFICES ASSUME PoolInv, AdmitHit PROVE PoolInv'
  OBVIOUS
<1>1. PoolTypeOK /\ PoolOK(pool) /\ AdmitOK
  BY DEF PoolInv, CallOK
<1>2. call.op = "admit" /\ call.i < call.n /\ call.seq \in Seqs /\ call.i \in Nat
      /\ call.cached \in Nat
  BY <1>1 DEF AdmitHit, PoolTypeOK
<1>3. PICK s \in Seqs, i \in Nat : s = call.seq /\ i = call.i
  BY <1>2
<1>4. /\ AdmitHash = PrefixOf(s, i + 1) /\ AdmitHash # NoHash
      /\ Len(blockTable[s]) = i
      /\ (i + 1) * BlockSize <= TotalLen(s)
  BY <1>2, <1>3, AdmitBlock
<1>5. /\ AdmitHash \in DOMAIN pool.cache
      /\ i < CapFull(s)
      /\ pool' = Share(pool, pool.cache[AdmitHash])
      /\ blockTable' = [blockTable EXCEPT ![s] = Append(@, pool.cache[AdmitHash])]
      /\ Advance(AdmitHash, call.cached + BlockSize)
      /\ UNCHANGED <<prompt, output, numComputed, numCachedPrefix>>
  BY <1>3 DEF AdmitHit, IsHit
<1>6. PICK b \in Blocks : b = pool.cache[AdmitHash]
  BY <1>1, <1>5, TypedFields DEF PoolOK
<1>7. pool.hashKey[b] = AdmitHash
  BY <1>1, <1>5, <1>6 DEF PoolOK, CacheOK
<1>8. /\ pool'.refCount = [pool.refCount EXCEPT ![b] = @ + 1]
      /\ pool'.hashKey = pool.hashKey
      /\ NumFree(pool') \in {NumFree(pool) - 1, NumFree(pool)}
      /\ PoolOK(pool')
  <2>1. pool' = Share(pool, b) /\ pool.hashKey[b] # NoHash
    BY <1>4, <1>5, <1>6, <1>7
  <2> QED BY ONLY <1>1, <2>1, ShareFacts
<1>9. call'.op = "admit"
  BY <1>2, <1>5, CallFields DEF Advance
<1>10. HoldersOK' /\ HashNamesContent' /\ UnhashedHasOneHolder'
  BY <1>2, <1>4, <1>5, <1>6, <1>7, <1>8, <1>9, ShareStep
<1>11. /\ call.cached + BlockSize \in Nat
       /\ call.cached + BlockSize <= (i + 1) * BlockSize
       /\ call.cached + BlockSize <= CapFull(s) * BlockSize
  <2>1. call.cached <= i * BlockSize /\ CapFull(s) \in Nat
    BY <1>1, <1>2, <1>3, PromptBlocks DEF AdmitOK
  <2>2. (i + 1) * BlockSize = i * BlockSize + BlockSize /\ i * BlockSize \in Nat
    BY BlockConstants, Multiples
  <2>3. (i + 1) * BlockSize <= CapFull(s) * BlockSize
    BY <1>5, <2>1, BlockConstants, Multiples
  <2>4. CapFull(s) * BlockSize \in Nat
    BY <2>1, BlockConstants
  <2> QED BY <1>2, <2>1, <2>2, <2>3, <2>4, BlockConstants
<1>12. NumFree(pool') >= NumFree(pool) - 1
  BY <1>1, <1>8, TypedFields DEF PoolOK
<1>13. PoolTypeOK' /\ CallOK' /\ PrefixLeavesWork'
  BY <1>2, <1>3, <1>5, <1>6, <1>8, <1>11, <1>12, AdmitAdvances
<1> QED BY <1>8, <1>10, <1>13 DEF PoolInv

LEMMA AdmitMissPreserves == PoolInv /\ AdmitMiss => PoolInv'
<1> SUFFICES ASSUME PoolInv, AdmitMiss PROVE PoolInv'
  OBVIOUS
<1>1. PoolTypeOK /\ PoolOK(pool) /\ AdmitOK
  BY DEF PoolInv, CallOK
<1>2. call.op = "admit" /\ call.i < call.n /\ call.seq \in Seqs /\ call.i \in Nat
      /\ call.cached \in Nat
  BY <1>1 DEF AdmitMiss, PoolTypeOK
<1>3. PICK s \in Seqs, i \in Nat : s = call.seq /\ i = call.i
  BY <1>2
<1>4. /\ AdmitHash = PrefixOf(s, i + 1) /\ AdmitHash # NoHash
      /\ AdmitHash \in Hashes
      /\ Len(blockTable[s]) = i
      /\ (i + 1) * BlockSize <= TotalLen(s)
  BY <1>2, <1>3, AdmitBlock
<1>5. /\ NumFree(pool) > 0
      /\ pool' = Register(TakeFreeBlock(pool), NextFree(pool), AdmitHash)
      /\ blockTable' = [blockTable EXCEPT ![s] = Append(@, NextFree(pool))]
      /\ Advance(AdmitHash, call.cached)
      /\ UNCHANGED <<prompt, output, numComputed, numCachedPrefix>>
  BY <1>3 DEF AdmitMiss
<1>6. PICK b \in Blocks : b = NextFree(pool)
  BY <1>1, <1>5, TakeFacts
<1> DEFINE q == TakeFreeBlock(pool)
<1>7. /\ pool.refCount[b] = 0
      /\ q.refCount = [pool.refCount EXCEPT ![b] = 1]
      /\ q.hashKey = [pool.hashKey EXCEPT ![b] = NoHash]
      /\ NumFree(q) = NumFree(pool) - 1
      /\ PoolOK(q)
  BY <1>1, <1>5, <1>6, TakeFacts
<1> HIDE DEF q
<1>8. /\ pool.refCount \in [Blocks -> Nat]
      /\ pool.hashKey \in [Blocks -> Hashes]
  BY <1>1, TypedFields DEF PoolOK
<1>9. q.refCount[b] > 0 /\ q.hashKey[b] = NoHash
  BY <1>7, <1>8
<1>10. /\ pool'.refCount = q.refCount
       /\ pool'.hashKey \in {q.hashKey, [q.hashKey EXCEPT ![b] = AdmitHash]}
       /\ NumFree(pool') = NumFree(q)
       /\ PoolOK(pool')
  <2>1. pool' = Register(q, b, AdmitHash)
    BY <1>5, <1>6 DEF q
  <2>2. PICK h \in Hashes : h = AdmitHash /\ h # NoHash
    BY <1>4
  <2> DEFINE q2 == Register(q, b, h)
  <2>3. /\ q2.refCount = q.refCount
        /\ q2.hashKey \in {q.hashKey, [q.hashKey EXCEPT ![b] = h]}
        /\ NumFree(q2) = NumFree(q)
        /\ PoolOK(q2)
    <3>1. /\ b \in Blocks /\ h \in Hashes /\ h # NoHash /\ PoolOK(q)
          /\ q.refCount[b] > 0 /\ q.hashKey[b] = NoHash
      BY <1>7, <1>9, <2>2
    <3> QED BY ONLY <3>1, RegisterFacts
  <2> HIDE DEF q2
  <2>4. pool' = q2
    BY <2>1, <2>2 DEF q2
  <2> QED BY <2>2, <2>3, <2>4
<1>11. /\ \A c \in Blocks \ {b} : pool'.hashKey[c] = pool.hashKey[c]
       /\ pool'.hashKey[b] # NoHash => pool'.hashKey[b] = AdmitHash
  BY <1>7, <1>8, <1>10
<1>12. call'.op = "admit"
  BY <1>2, <1>5, CallFields DEF Advance
<1>17. /\ blockTable' = [blockTable EXCEPT ![s] = Append(@, b)]
       /\ pool'.refCount = [pool.refCount EXCEPT ![b] = 1]
       /\ UNCHANGED <<prompt, output>>
       /\ call.op # "free" /\ call'.op # "free"
       /\ pool'.hashKey[b] # NoHash =>
               /\ (Len(blockTable[s]) + 1) * BlockSize <= TotalLen(s)
               /\ pool'.hashKey[b] = PrefixOf(s, Len(blockTable[s]) + 1)
  BY <1>2, <1>4, <1>5, <1>6, <1>7, <1>10, <1>11, <1>12
<1>13. HoldersOK' /\ HashNamesContent' /\ UnhashedHasOneHolder'
  BY ONLY PoolInv, <1>7, <1>11, <1>17, FreshStep
<1>14. /\ call.cached <= (i + 1) * BlockSize
       /\ call.cached <= CapFull(s) * BlockSize
  <2>1. call.cached <= i * BlockSize /\ call.cached <= CapFull(s) * BlockSize
    BY <1>1, <1>2, <1>3 DEF AdmitOK
  <2>2. (i + 1) * BlockSize = i * BlockSize + BlockSize /\ i * BlockSize \in Nat
    BY BlockConstants, Multiples
  <2> QED BY <1>2, <2>1, <2>2, BlockConstants
<1>15. NumFree(pool') >= NumFree(pool) - 1
  BY <1>1, <1>7, <1>10, TypedFields DEF PoolOK
<1>16. PoolTypeOK' /\ CallOK' /\ PrefixLeavesWork'
  BY <1>2, <1>3, <1>5, <1>6, <1>10, <1>14, <1>15, AdmitAdvances
<1> QED BY <1>10, <1>13, <1>16 DEF PoolInv

\* A call that ends, or a step that starts none, leaves nothing to promise.
LEMMA IdleCall ==
    ASSUME call' = Idle
    PROVE  /\ CallOK'
           /\ call'.op = "none"
           /\ call' \in [op : CallOps, seq : Seqs \cup {NoSeq}, i : Nat, n : Nat,
                        prev : Hashes, cached : Nat]
BY IdleFields, PlainCall

\* One more block, fresh and unhashed, at the end of a table.
LEMMA GrowStep ==
    ASSUME PoolInv, NEW s \in Seqs, GrowTable(s), NumFree(pool) > 0,
           call.op # "free", call'.op # "free",
           UNCHANGED <<prompt, output>>
    PROVE  /\ HoldersOK' /\ HashNamesContent' /\ UnhashedHasOneHolder'
           /\ PoolOK(pool')
           /\ blockTable' \in [Seqs -> Seq(Blocks)]
           /\ NumFree(pool') = NumFree(pool) - 1
<1>1. PoolOK(pool) /\ blockTable \in [Seqs -> Seq(Blocks)]
  BY DEF PoolInv, PoolTypeOK
<1>2. PICK b \in Blocks : b = NextFree(pool)
  BY <1>1, TakeFacts
<1>3. /\ pool' = TakeFreeBlock(pool)
      /\ blockTable' = [blockTable EXCEPT ![s] = Append(@, b)]
  BY <1>2 DEF GrowTable
<1>4. /\ pool.refCount[b] = 0
      /\ pool'.refCount = [pool.refCount EXCEPT ![b] = 1]
      /\ pool'.hashKey = [pool.hashKey EXCEPT ![b] = NoHash]
      /\ NumFree(pool') = NumFree(pool) - 1
      /\ PoolOK(pool')
  BY <1>1, <1>2, <1>3, TakeFacts
<1>5. pool.hashKey \in [Blocks -> Hashes]
  BY <1>1, TypedFields DEF PoolOK
<1>6. /\ \A c \in Blocks \ {b} : pool'.hashKey[c] = pool.hashKey[c]
      /\ pool'.hashKey[b] = NoHash
  BY <1>4, <1>5
<1>7. HoldersOK' /\ HashNamesContent' /\ UnhashedHasOneHolder'
  BY <1>3, <1>4, <1>6, FreshStep
<1> QED BY <1>1, <1>3, <1>4, <1>7

LEMMA AdmitFinishPreserves == PoolInv /\ AdmitFinish => PoolInv'
<1> SUFFICES ASSUME PoolInv, AdmitFinish PROVE PoolInv'
  OBVIOUS
<1>1. PoolTypeOK /\ PoolOK(pool) /\ AdmitOK
  BY DEF PoolInv, CallOK
<1>2. /\ call.op = "admit" /\ call.cached \in Nat
      /\ call' = Idle /\ UNCHANGED <<prompt, output>>
  BY <1>1 DEF AdmitFinish, PoolTypeOK
<1>3. PICK s \in Seqs : s = call.seq
  BY <1>1, <1>2 DEF PoolTypeOK
<1>4. PICK c \in Nat : c = call.cached
  BY <1>2
<1>5. /\ numComputed' = [numComputed EXCEPT ![s] = c]
      /\ numCachedPrefix' = [numCachedPrefix EXCEPT ![s] = c]
  BY <1>3, <1>4 DEF AdmitFinish
<1>6. c < PromptLen(s)
  <2>1. c <= CapFull(s) * BlockSize
    BY <1>1, <1>2, <1>3, <1>4 DEF AdmitOK
  <2>2. /\ CapFull(s) \in Nat /\ CapFull(s) * BlockSize < PromptLen(s)
        /\ PromptLen(s) \in Nat
    BY <1>1, PromptBlocks, SequenceSizes
  <2>3. CapFull(s) * BlockSize \in Nat
    BY <2>2, BlockConstants
  <2> QED BY <2>1, <2>2, <2>3
<1>7. PrefixLeavesWork'
  <2>1. \A r \in Seqs : PromptLen(r)' = PromptLen(r)
    BY <1>2 DEF PromptLen
  <2>2. \A r \in Seqs : numCachedPrefix'[r] = IF r = s THEN c ELSE numCachedPrefix[r]
    BY <1>1, <1>5 DEF PoolTypeOK
  <2> QED BY <1>6, <2>1, <2>2 DEF PoolInv, PrefixLeavesWork
<1>8. /\ numComputed' \in [Seqs -> Nat] /\ numCachedPrefix' \in [Seqs -> Nat]
      /\ prompt' \in [Seqs -> Prompts] /\ output' \in [Seqs -> Seq(Tokens)]
  BY <1>1, <1>2, <1>5 DEF PoolTypeOK
<1>9. /\ HoldersOK' /\ HashNamesContent' /\ UnhashedHasOneHolder'
      /\ PoolOK(pool') /\ blockTable' \in [Seqs -> Seq(Blocks)]
  <2>1. call'.op = "none"
    BY <1>2, IdleCall
  <2>2. CASE HasTail(s)
    <3>1. GrowTable(s) /\ NumFree(pool) > 0
      BY <1>3, <2>2 DEF AdmitFinish
    <3> QED BY <1>2, <2>1, <3>1, GrowStep
  <2>3. CASE ~HasTail(s)
    <3>1. UNCHANGED <<pool, blockTable>>
      BY <1>3, <2>3 DEF AdmitFinish
    <3>2. blockTable' \in [Seqs -> Seq(Blocks)]
      BY <1>1, <3>1 DEF PoolTypeOK
    <3>3. \A b \in Blocks : Holders(b)' = Holders(b)
      BY <1>2, <2>1, <3>1, <3>2, HoldersStay
    <3> QED BY <1>1, <1>2, <3>1, <3>2, <3>3, QuietStep
  <2> QED BY <2>2, <2>3
<1>10. PoolTypeOK'
  BY <1>2, <1>8, <1>9, IdleCall DEF PoolTypeOK, PoolOK
<1> QED BY <1>2, <1>7, <1>9, <1>10, IdleCall DEF PoolInv

LEMMA AppendSlotPreserves ==
    ASSUME PoolInv, NEW s \in Seqs, AppendSlot(s)
    PROVE  PoolInv'
<1>1. /\ PoolTypeOK /\ PoolOK(pool)
      /\ call = Idle /\ call' = Idle /\ call.op = "none" /\ call'.op = "none"
      /\ UNCHANGED <<prompt, output, numComputed, numCachedPrefix>>
  BY IdleFields DEF PoolInv, AppendSlot
<1>2. /\ HoldersOK' /\ HashNamesContent' /\ UnhashedHasOneHolder'
      /\ PoolOK(pool') /\ blockTable' \in [Seqs -> Seq(Blocks)]
  <2>1. CASE SlotCovered(s)
    <3>1. UNCHANGED <<pool, blockTable>>
      BY <2>1 DEF AppendSlot
    <3>2. blockTable' \in [Seqs -> Seq(Blocks)]
      BY <1>1, <3>1 DEF PoolTypeOK
    <3>3. \A b \in Blocks : Holders(b)' = Holders(b)
      BY <1>1, <3>1, <3>2, HoldersStay
    <3> QED BY <1>1, <3>1, <3>2, <3>3, QuietStep
  <2>2. CASE ~SlotCovered(s)
    <3>1. GrowTable(s) /\ NumFree(pool) # 0
      BY <2>2 DEF AppendSlot, AppendSlotRaises
    <3>2. NumFree(pool) > 0
      BY <1>1, <3>1, TypedFields DEF PoolOK
    <3> QED BY <1>1, <3>1, <3>2, GrowStep
  <2> QED BY <2>1, <2>2
<1>3. PoolTypeOK'
  BY <1>1, <1>2, IdleCall DEF PoolTypeOK, PoolOK
<1>4. PrefixLeavesWork'
  BY <1>1 DEF PoolInv, PrefixLeavesWork, PromptLen
<1> QED BY <1>1, <1>2, <1>3, <1>4, IdleCall DEF PoolInv

\* The calls that only set up a loop.
LEMMA BeginStep ==
    ASSUME PoolInv, NEW s \in Seqs, NEW op \in {"ensure", "free", "register"},
           NEW n \in Nat,
           op = "free" => n = Len(blockTable[s]),
           call = Idle, Begin(op, s, n),
           UNCHANGED <<prompt, output, blockTable, pool>>,
           numComputed' \in [Seqs -> Nat], numCachedPrefix' \in [Seqs -> Nat],
           \A r \in Seqs : numCachedPrefix'[r] \in {0, numCachedPrefix[r]}
    PROVE  PoolInv'
<1>1. /\ PoolTypeOK /\ PoolOK(pool) /\ call.op = "none"
      /\ NoHash \in Hashes /\ op \in CallOps
  BY IdleFields DEF PoolInv, NoHash, Hashes, CallOps
<1>2. /\ call'.op = op /\ call'.seq = s /\ call'.i = 0 /\ call'.n = n
      /\ call'.prev = NoHash
      /\ call' \in [op : CallOps, seq : Seqs \cup {NoSeq}, i : Nat, n : Nat,
                   prev : Hashes, cached : Nat]
  <2>1. call' = Call(op, s, 0, n, NoHash, 0)
    BY DEF Begin
  <2>2. Call(op, s, 0, n, NoHash, 0)
           \in [op : CallOps, seq : Seqs \cup {NoSeq}, i : Nat, n : Nat,
                prev : Hashes, cached : Nat]
    <3>1. 0 \in Nat /\ s \in Seqs \cup {NoSeq} /\ NoHash \in Hashes /\ op \in CallOps
      BY <1>1
    <3> QED BY ONLY n \in Nat, <3>1, CallTyped
  <2> QED BY <2>1, <2>2, CallFields
<1>3. PoolTypeOK'
  BY <1>1, <1>2 DEF PoolTypeOK
<1>4. CallOK'
  <2>1. 0 * BlockSize = 0 /\ TotalLen(s) \in Nat /\ PrefixOf(s, 0) = NoHash
        /\ Len(blockTable[s]) \in Nat
    BY <1>1, BlockConstants, SequenceSizes, EmptyPrefix
  <2>2. TotalLen(s)' = TotalLen(s) /\ PrefixOf(s, 0)' = PrefixOf(s, 0)
    BY DEF TotalLen, PrefixOf, AllTokenIds
  <2>3. AdmitOK' /\ FreeOK'
    BY <1>2, <2>1 DEF AdmitOK, FreeOK
  <2>4. RegisterOK'
    BY <1>2, <2>1, <2>2 DEF RegisterOK
  <2> QED BY <2>3, <2>4 DEF CallOK
<1>5. HoldersOK' /\ HashNamesContent' /\ UnhashedHasOneHolder'
  <2>1. blockTable' \in [Seqs -> Seq(Blocks)] /\ blockTable \in [Seqs -> Seq(Blocks)]
    BY <1>1 DEF PoolTypeOK
  <2>2. \A b \in Blocks : Holders(b)' = Holders(b)
    BY <1>1, <1>2, <2>1, HoldersStay
  <2> QED BY <2>1, <2>2, QuietStep
<1>6. PrefixLeavesWork'
  <2> SUFFICES ASSUME NEW r \in Seqs PROVE numCachedPrefix'[r] < PromptLen(r)'
    BY DEF PrefixLeavesWork
  <2>1. PromptLen(r)' = PromptLen(r) /\ PromptLen(r) \in Nat \ {0}
    BY <1>1, SequenceSizes DEF PromptLen
  <2>2. numCachedPrefix[r] < PromptLen(r)
    BY DEF PoolInv, PrefixLeavesWork
  <2> QED BY <2>1, <2>2
<1> QED BY <1>1, <1>3, <1>4, <1>5, <1>6 DEF PoolInv

LEMMA EnsurePreserves ==
    ASSUME PoolInv, NEW s \in Seqs, NEW chunk \in Nat,
           EnsureBlocksForChunk(s, chunk)
    PROVE  PoolInv'
<1>1. NumBlocksNeededFor(numComputed[s] + chunk) \in Nat
  <2>1. numComputed[s] \in Nat
    BY DEF PoolInv, PoolTypeOK
  <2>2. numComputed[s] + chunk + BlockSize - 1 \in Nat
    BY <2>1, BlockConstants
  <2> QED BY <2>2, BlockConstants, DivMod DEF NumBlocksNeededFor
<1> QED BY <1>1, BeginStep DEF EnsureBlocksForChunk, seqVars, PoolInv, PoolTypeOK

\* free, whatever the caller does with the counts of computed tokens.
LEMMA FreePreserves ==
    ASSUME PoolInv, NEW s \in Seqs, Free(s),
           \/ ForgetComputed(s)
           \/ UNCHANGED <<numComputed, numCachedPrefix>>
    PROVE  PoolInv'
<1>1. PoolTypeOK
  BY DEF PoolInv
<1>2. Len(blockTable[s]) \in Nat
  BY <1>1, SequenceSizes
<1>3. /\ numComputed' \in [Seqs -> Nat] /\ numCachedPrefix' \in [Seqs -> Nat]
      /\ \A r \in Seqs : numCachedPrefix'[r] \in {0, numCachedPrefix[r]}
  <2>1. numComputed \in [Seqs -> Nat] /\ numCachedPrefix \in [Seqs -> Nat]
    BY <1>1 DEF PoolTypeOK
  <2>2. CASE ForgetComputed(s)
    BY <2>1, <2>2 DEF ForgetComputed
  <2>3. CASE UNCHANGED <<numComputed, numCachedPrefix>>
    BY <2>1, <2>3
  <2> QED BY <2>2, <2>3
<1> QED BY <1>2, <1>3, BeginStep DEF Free

LEMMA RegisterPreserves ==
    ASSUME PoolInv, NEW s \in Seqs, RegisterFilledBlocks(s)
    PROVE  PoolInv'
<1>1. PoolTypeOK /\ numComputed[s] \in Nat
  BY DEF PoolInv, PoolTypeOK
<1>2. numComputed[s] \div BlockSize \in Nat
  BY <1>1, BlockConstants, DivMod
<1> DEFINE n == IF EnablePrefixCaching THEN numComputed[s] \div BlockSize ELSE 0
<1>3. n \in Nat
  BY <1>2
<1>4. call = Idle /\ Begin("register", s, n) /\ UNCHANGED <<seqVars, pool>>
  BY DEF RegisterFilledBlocks
<1> HIDE DEF n
<1> QED BY <1>1, <1>3, <1>4, BeginStep DEF seqVars, PoolTypeOK

LEMMA EnsureTakePreserves == PoolInv /\ EnsureTake => PoolInv'
<1> SUFFICES ASSUME PoolInv, EnsureTake PROVE PoolInv'
  OBVIOUS
<1>1. /\ PoolTypeOK /\ call.op = "ensure" /\ call' = call
      /\ UNCHANGED <<prompt, output, numComputed, numCachedPrefix>>
  BY DEF PoolInv, EnsureTake
<1>2. PICK s \in Seqs : s = call.seq
  BY <1>1 DEF PoolTypeOK
<1>3. GrowTable(s) /\ NumFree(pool) > 0
  BY <1>2 DEF EnsureTake
<1>4. /\ HoldersOK' /\ HashNamesContent' /\ UnhashedHasOneHolder'
      /\ PoolOK(pool') /\ blockTable' \in [Seqs -> Seq(Blocks)]
  BY <1>1, <1>3, GrowStep
<1>5. PoolTypeOK'
  BY <1>1, <1>4 DEF PoolTypeOK, PoolOK
<1>6. PrefixLeavesWork'
  BY <1>1 DEF PoolInv, PrefixLeavesWork, PromptLen
<1> QED BY <1>1, <1>4, <1>5, <1>6, PlainCall DEF PoolInv

\* The calls that end with everything else as it is.
LEMMA EndStep ==
    ASSUME PoolInv, call.op # "free", call' = Idle, UNCHANGED <<seqVars, pool>>
    PROVE  PoolInv'
<1>1. /\ PoolTypeOK /\ PoolOK(pool) /\ blockTable \in [Seqs -> Seq(Blocks)]
      /\ UNCHANGED <<prompt, output, blockTable, numComputed, numCachedPrefix>>
  BY DEF PoolInv, PoolTypeOK, seqVars
<1>2. call'.op = "none"
  BY IdleCall
<1>3. \A b \in Blocks : Holders(b)' = Holders(b)
  BY <1>1, <1>2, HoldersStay
<1>4. HoldersOK' /\ HashNamesContent' /\ UnhashedHasOneHolder'
  BY <1>1, <1>3, QuietStep
<1>5. PoolTypeOK'
  BY <1>1, IdleCall DEF PoolTypeOK
<1>6. PrefixLeavesWork'
  BY <1>1 DEF PoolInv, PrefixLeavesWork, PromptLen
<1> QED BY <1>1, <1>4, <1>5, <1>6, IdleCall DEF PoolInv

LEMMA FreeReleasePreserves == PoolInv /\ FreeRelease => PoolInv'
<1> SUFFICES ASSUME PoolInv, FreeRelease PROVE PoolInv'
  OBVIOUS
<1>1. /\ PoolTypeOK /\ PoolOK(pool) /\ FreeOK /\ HoldersOK
      /\ call.op = "free" /\ call.i < call.n
      /\ UNCHANGED <<prompt, output, blockTable, numComputed, numCachedPrefix>>
  BY DEF PoolInv, CallOK, FreeRelease, seqVars
<1>2. PICK s \in Seqs, k \in Nat : s = call.seq /\ k = call.i
  BY <1>1 DEF PoolTypeOK
<1>3. blockTable \in [Seqs -> Seq(Blocks)] /\ call.n \in Nat /\ pool.refCount \in [Blocks -> Nat]
  BY <1>1, TypedFields DEF PoolTypeOK
<1>4. call.n = Len(blockTable[s]) /\ k + 1 \in DOMAIN blockTable[s]
  BY <1>1, <1>2, <1>3 DEF FreeOK
<1>5. PICK b \in Blocks : b = blockTable[s][k + 1]
  BY <1>3, <1>4
<1>6. pool' = Release(pool, b)
  BY <1>2, <1>5 DEF FreeRelease
<1>7. call' = Call("free", s, k + 1, call.n, call.prev, call.cached)
  BY <1>1, <1>2 DEF FreeRelease, Advance
<1>8. /\ call'.op = "free" /\ call'.seq = s /\ call'.i = k + 1 /\ call'.n = call.n
  BY <1>7, CallFields
<1>9. PICK e : /\ e \in Holders(b)
               /\ Holders(b)' = Holders(b) \ {e}
               /\ \A c \in Blocks \ {b} : Holders(c)' = Holders(c)
  <2>1. blockTable' = blockTable /\ call.op = "free" /\ call.seq = s /\ call.i = k
    BY <1>1, <1>2
  <2>2. k + 1 \in DOMAIN blockTable[s]
    BY <1>4
  <2>3. /\ <<s, k + 1>> \in Holders(b)
        /\ Holders(b)' = Holders(b) \ {<<s, k + 1>>}
        /\ \A c \in Blocks \ {b} : Holders(c)' = Holders(c)
    BY <2>1, <2>2, <1>3, <1>5, <1>8, HoldersRelease
  <2> QED BY <2>3
<1>10. pool.refCount[b] > 0
  <2>1. IsFiniteSet(Holders(b)) /\ pool.refCount[b] = Cardinality(Holders(b))
    BY <1>1 DEF HoldersOK
  <2>2. Cardinality(Holders(b)) # 0
    BY <1>9, <2>1, FS_EmptySet
  <2> QED BY <1>3, <2>1, <2>2
<1>11. /\ pool'.refCount = [pool.refCount EXCEPT ![b] = @ - 1]
       /\ pool'.hashKey = pool.hashKey
       /\ PoolOK(pool')
  BY <1>1, <1>6, <1>10, ReleaseFacts
<1>12. HoldersOK' /\ HashNamesContent' /\ UnhashedHasOneHolder'
  BY <1>1, <1>9, <1>11, ReleaseStep
<1>13. PoolTypeOK'
  <2>1. /\ "free" \in CallOps /\ k + 1 \in Nat /\ call.prev \in Hashes
        /\ call.cached \in Nat
    BY <1>1 DEF CallOps, PoolTypeOK
  <2>2. call' \in [op : CallOps, seq : Seqs \cup {NoSeq}, i : Nat, n : Nat,
                   prev : Hashes, cached : Nat]
    BY <1>3, <1>7, <2>1, CallTyped
  <2> QED BY <1>1, <1>8, <1>11, <2>2 DEF PoolTypeOK, PoolOK
<1>14. CallOK'
  <2>1. k + 1 <= call.n
    BY <1>1, <1>2, <1>3
  <2> QED BY <1>1, <1>4, <1>8, <2>1 DEF CallOK, AdmitOK, FreeOK, RegisterOK
<1>15. PrefixLeavesWork'
  BY <1>1 DEF PoolInv, PrefixLeavesWork, PromptLen
<1> QED BY <1>11, <1>12, <1>13, <1>14, <1>15 DEF PoolInv

LEMMA FreeClearPreserves == PoolInv /\ FreeClear => PoolInv'
<1> SUFFICES ASSUME PoolInv, FreeClear PROVE PoolInv'
  OBVIOUS
<1>1. /\ PoolTypeOK /\ PoolOK(pool) /\ FreeOK
      /\ call.op = "free" /\ call.i = call.n /\ call' = Idle
      /\ UNCHANGED <<prompt, output, numComputed, numCachedPrefix, pool>>
  BY DEF PoolInv, CallOK, FreeClear
<1>2. PICK s \in Seqs : s = call.seq
  BY <1>1 DEF PoolTypeOK
<1>3. /\ blockTable \in [Seqs -> Seq(Blocks)]
      /\ blockTable' = [blockTable EXCEPT ![s] = <<>>]
      /\ blockTable' \in [Seqs -> Seq(Blocks)]
      /\ call.i = Len(blockTable[s])
  BY <1>1, <1>2 DEF FreeClear, PoolTypeOK, FreeOK
<1>4. \A b \in Blocks : Holders(b)' = Holders(b)
  <2>1. call'.op = "none"
    BY <1>1, IdleCall
  <2>2. Held(s) = {}
    <3>1. DOMAIN blockTable[s] = 1 .. Len(blockTable[s]) /\ Len(blockTable[s]) \in Nat
      BY <1>3
    <3>2. \A i \in DOMAIN blockTable[s] : ~(i > call.i)
      BY <1>3, <3>1
    <3> QED BY <1>1, <1>2, <3>2 DEF Held
  <2>3. Held(s)' = {}
    BY <1>3, <2>1 DEF Held
  <2>4. \A r \in Seqs \ {s} : Held(r)' = Held(r) /\ blockTable'[r] = blockTable[r]
    BY <1>2, <1>3, <2>1 DEF Held
  <2>5. ASSUME NEW b \in Blocks, NEW r \in Seqs
        PROVE  {<<r, i>> : i \in {j \in Held(r) : blockTable[r][j] = b}}'
                  = {<<r, i>> : i \in {j \in Held(r) : blockTable[r][j] = b}}
    BY <2>2, <2>3, <2>4
  <2> QED BY <2>5 DEF Holders
<1>5. HoldersOK' /\ HashNamesContent' /\ UnhashedHasOneHolder'
  BY <1>1, <1>3, <1>4, QuietStep
<1>6. PoolTypeOK'
  BY <1>1, <1>3, IdleCall DEF PoolTypeOK
<1>7. PrefixLeavesWork'
  BY <1>1 DEF PoolInv, PrefixLeavesWork, PromptLen
<1> QED BY <1>1, <1>5, <1>6, <1>7, IdleCall DEF PoolInv

\* Where register stands: block call.i of its sequence, about to be read.
LEMMA RegisterEntry ==
    ASSUME PoolInv, call.op = "register", call.i < call.n, ~RegisterIndexError,
           NEW s \in Seqs, s = call.seq, NEW k \in Nat, k = call.i
    PROVE  /\ k + 1 \in DOMAIN blockTable[s]
           /\ blockTable[s][k + 1] \in Blocks
           /\ <<s, k + 1>> \in Holders(blockTable[s][k + 1])
           /\ (k + 1) * BlockSize <= TotalLen(s)
           /\ BlockHash(call.prev, BlockTokens(s, k)) = PrefixOf(s, k + 1)
           /\ PrefixOf(s, k + 1) \in Hashes
           /\ PrefixOf(s, k + 1) # NoHash
<1>1. PoolTypeOK /\ RegisterOK /\ HashNamesContent
  BY DEF PoolInv, CallOK
<1>2. /\ blockTable[s] \in Seq(Blocks) /\ Len(blockTable[s]) \in Nat
      /\ TotalLen(s) \in Nat
  BY <1>1, SequenceSizes DEF PoolTypeOK
<1>3. /\ ~(k >= Len(blockTable[s]))
      /\ pool.hashKey[blockTable[s][k + 1]] = NoHash
            => ~(TotalLen(s) < (k + 1) * BlockSize)
  BY DEF RegisterIndexError
<1>4. k + 1 \in DOMAIN blockTable[s] /\ blockTable[s][k + 1] \in Blocks
  BY <1>2, <1>3
<1>5. k + 1 \in Held(s)
  BY <1>4 DEF Held
<1>6. <<s, k + 1>> \in Holders(blockTable[s][k + 1])
  <2>1. PICK b \in Blocks : b = blockTable[s][k + 1]
    BY <1>4
  <2> QED BY <1>5, <2>1, HoldersMembers
<1>7. (k + 1) * BlockSize <= TotalLen(s)
  <2>1. CASE pool.hashKey[blockTable[s][k + 1]] = NoHash
    <3>1. (k + 1) * BlockSize \in Nat
      BY BlockConstants
    <3> QED BY <1>2, <1>3, <2>1, <3>1
  <2>2. CASE pool.hashKey[blockTable[s][k + 1]] # NoHash
    BY <1>1, <1>4, <1>5, <2>2 DEF HashNamesContent
  <2> QED BY <2>1, <2>2
<1>8. call.prev = PrefixOf(s, k)
  BY <1>1 DEF RegisterOK
<1> QED BY <1>1, <1>4, <1>6, <1>7, <1>8, ChainStep

\* One iteration of register, with prev2 = the hash of the block.
LEMMA RegisterAdvances ==
    ASSUME PoolInv, call.op = "register", call.i < call.n, ~RegisterIndexError,
           NEW s \in Seqs, s = call.seq, NEW k \in Nat, k = call.i,
           NEW prev2, prev2 = PrefixOf(s, k + 1),
           Advance(prev2, call.cached), UNCHANGED seqVars, PoolOK(pool')
    PROVE  /\ PoolTypeOK' /\ CallOK' /\ PrefixLeavesWork'
           /\ \A b \in Blocks : Holders(b)' = Holders(b)
<1>1. /\ PoolTypeOK /\ blockTable \in [Seqs -> Seq(Blocks)]
      /\ Len(blockTable[s]) \in Nat
      /\ UNCHANGED <<prompt, output, blockTable, numComputed, numCachedPrefix>>
  BY SequenceSizes DEF PoolInv, PoolTypeOK, seqVars
<1>2. /\ k + 1 \in DOMAIN blockTable[s] /\ (k + 1) * BlockSize <= TotalLen(s)
      /\ prev2 \in Hashes
  BY RegisterEntry
<1>3. /\ call' = Call("register", s, k + 1, call.n, prev2, call.cached)
      /\ call.n \in Nat /\ call.cached \in Nat /\ "register" \in CallOps
      /\ k + 1 \in Nat
  BY <1>1 DEF Advance, PoolTypeOK, CallOps
<1>4. /\ call'.op = "register" /\ call'.seq = s /\ call'.i = k + 1
      /\ call'.n = call.n /\ call'.prev = prev2
  BY <1>3, CallFields
<1>5. PoolTypeOK'
  <2>1. call' \in [op : CallOps, seq : Seqs \cup {NoSeq}, i : Nat, n : Nat,
                   prev : Hashes, cached : Nat]
    BY <1>2, <1>3, CallTyped
  <2> QED BY <1>1, <1>4, <2>1 DEF PoolTypeOK, PoolOK
<1>6. CallOK'
  <2>1. k + 1 <= call.n /\ k + 1 <= Len(blockTable[s])
    BY <1>1, <1>2, <1>3
  <2>2. TotalLen(s)' = TotalLen(s) /\ PrefixOf(s, k + 1)' = PrefixOf(s, k + 1)
    BY <1>1, SameTokens
  <2>3. RegisterOK'
    BY <1>1, <1>2, <1>4, <2>1, <2>2 DEF RegisterOK
  <2> QED BY <1>4, <2>3 DEF CallOK, AdmitOK, FreeOK
<1>7. PrefixLeavesWork'
  BY <1>1 DEF PoolInv, PrefixLeavesWork, PromptLen
<1>8. \A b \in Blocks : Holders(b)' = Holders(b)
  BY <1>1, <1>4, HoldersStay
<1> QED BY <1>5, <1>6, <1>7, <1>8

LEMMA RegisterSkipPreserves == PoolInv /\ RegisterSkip => PoolInv'
<1> SUFFICES ASSUME PoolInv, RegisterSkip PROVE PoolInv'
  OBVIOUS
<1>1. /\ PoolTypeOK /\ PoolOK(pool) /\ HashNamesContent
      /\ call.op = "register" /\ call.i < call.n /\ ~RegisterIndexError
      /\ UNCHANGED <<seqVars, pool>>
  BY DEF PoolInv, RegisterSkip
<1>2. PICK s \in Seqs, k \in Nat : s = call.seq /\ k = call.i
  BY <1>1 DEF PoolTypeOK
<1>3. /\ k + 1 \in DOMAIN blockTable[s] /\ blockTable[s][k + 1] \in Blocks
      /\ k + 1 \in Held(s)
  BY <1>1, <1>2, RegisterEntry DEF Held
<1>4. PICK h : /\ h = pool.hashKey[blockTable[s][k + 1]]
               /\ h # NoHash
               /\ Advance(h, call.cached)
  BY <1>2 DEF RegisterSkip
<1>5. h = PrefixOf(s, k + 1)
  BY <1>1, <1>3, <1>4 DEF HashNamesContent
<1>6. /\ PoolTypeOK' /\ CallOK' /\ PrefixLeavesWork'
      /\ \A b \in Blocks : Holders(b)' = Holders(b)
  BY <1>1, <1>2, <1>4, <1>5, RegisterAdvances
<1>7. HoldersOK' /\ HashNamesContent' /\ UnhashedHasOneHolder'
  <2>1. blockTable' \in [Seqs -> Seq(Blocks)]
    BY <1>6 DEF PoolTypeOK
  <2> QED BY <1>1, <1>6, <2>1, QuietStep DEF seqVars
<1> QED BY <1>1, <1>6, <1>7 DEF PoolInv

LEMMA RegisterBlockPreserves == PoolInv /\ RegisterBlock => PoolInv'
<1> SUFFICES ASSUME PoolInv, RegisterBlock PROVE PoolInv'
  OBVIOUS
<1>1. /\ PoolTypeOK /\ PoolOK(pool) /\ HoldersOK /\ UnhashedHasOneHolder
      /\ call.op = "register" /\ call.i < call.n /\ ~RegisterIndexError
      /\ UNCHANGED <<prompt, output, blockTable, numComputed, numCachedPrefix>>
      /\ UNCHANGED seqVars
  BY DEF PoolInv, RegisterBlock, seqVars
<1>2. PICK s \in Seqs, k \in Nat : s = call.seq /\ k = call.i
  BY <1>1 DEF PoolTypeOK
<1>3. PICK b \in Blocks : b = blockTable[s][k + 1]
  BY <1>1, <1>2, RegisterEntry
<1>4. /\ <<s, k + 1>> \in Holders(b)
      /\ (k + 1) * BlockSize <= TotalLen(s)
      /\ BlockHash(call.prev, BlockTokens(s, k)) = PrefixOf(s, k + 1)
      /\ PrefixOf(s, k + 1) \in Hashes
      /\ PrefixOf(s, k + 1) # NoHash
  BY <1>1, <1>2, <1>3, RegisterEntry
<1>5. PICK h \in Hashes : h = PrefixOf(s, k + 1) /\ h # NoHash
  BY <1>4
<1>6. /\ pool.hashKey[b] = NoHash
      /\ pool' = Register(pool, b, h)
      /\ Advance(h, call.cached)
  BY <1>2, <1>3, <1>4, <1>5 DEF RegisterBlock
<1>7. pool.refCount[b] > 0
  <2>1. IsFiniteSet(Holders(b)) /\ pool.refCount[b] = Cardinality(Holders(b))
    BY <1>1 DEF HoldersOK
  <2>2. Cardinality(Holders(b)) # 0
    BY <1>4, <2>1, FS_EmptySet
  <2>3. pool.refCount[b] \in Nat
    BY <1>1, TypedFields DEF PoolOK
  <2> QED BY <2>1, <2>2, <2>3
<1>8. /\ pool'.refCount = pool.refCount
      /\ pool'.hashKey \in {pool.hashKey, [pool.hashKey EXCEPT ![b] = h]}
      /\ PoolOK(pool')
  <2>1. /\ b \in Blocks /\ h \in Hashes /\ h # NoHash /\ PoolOK(pool)
        /\ pool.refCount[b] > 0 /\ pool.hashKey[b] = NoHash
    BY <1>1, <1>5, <1>6, <1>7
  <2> DEFINE q == Register(pool, b, h)
  <2>2. /\ q.refCount = pool.refCount
        /\ q.hashKey \in {pool.hashKey, [pool.hashKey EXCEPT ![b] = h]}
        /\ PoolOK(q)
    BY ONLY <2>1, RegisterFacts
  <2> HIDE DEF q
  <2>3. pool' = q
    BY <1>6 DEF q
  <2> QED BY <2>2, <2>3
<1>9. /\ \A c \in Blocks \ {b} : pool'.hashKey[c] = pool.hashKey[c]
      /\ pool'.hashKey[b] \in {NoHash, h}
  <2>1. pool.hashKey \in [Blocks -> Hashes]
    BY <1>1, TypedFields DEF PoolOK
  <2> QED BY <1>6, <1>8, <2>1
<1>10. /\ PoolTypeOK' /\ CallOK' /\ PrefixLeavesWork'
       /\ \A c \in Blocks : Holders(c)' = Holders(c)
  BY <1>1, <1>2, <1>5, <1>6, <1>8, RegisterAdvances
<1>11. HoldersOK' /\ HashNamesContent' /\ UnhashedHasOneHolder'
  <2>1. ASSUME NEW c \in Blocks, NEW r, NEW i,
               <<r, i>> \in Holders(c), pool'.hashKey[c] # NoHash
        PROVE  \/ /\ pool'.hashKey[c] = pool.hashKey[c]
                  /\ PrefixOf(r, i)' = PrefixOf(r, i)
                  /\ TotalLen(r)' >= TotalLen(r)
               \/ /\ i * BlockSize <= TotalLen(r)'
                  /\ pool'.hashKey[c] = PrefixOf(r, i)'
    <3>1. r \in Seqs /\ TotalLen(r) \in Nat
      BY <1>1, <2>1, HoldersMembers, SequenceSizes
    <3>2. PrefixOf(r, i)' = PrefixOf(r, i) /\ TotalLen(r)' = TotalLen(r)
      BY <1>1, SameTokens
    <3>3. CASE c # b
      BY <1>9, <3>1, <3>2, <3>3
    <3>4. CASE c = b
      <4>1. <<r, i>> = <<s, k + 1>>
        BY <1>1, <1>4, <1>6, <2>1, <3>4 DEF UnhashedHasOneHolder
      <4>2. r = s /\ i = k + 1
        BY <4>1
      <4> QED BY <1>4, <1>5, <1>9, <2>1, <3>2, <3>4, <4>2
    <3> QED BY <3>3, <3>4
  <2>2. \A c \in Blocks : pool'.hashKey[c] = NoHash => pool.hashKey[c] = NoHash
    BY <1>6, <1>9
  <2>3. \A r \in Seqs : TotalLen(r) \in Nat /\ TotalLen(r)' \in Nat
    BY <1>1, SequenceSizes, SameTokens
  <2> QED BY <1>1, <1>8, <1>10, <2>1, <2>2, <2>3, NamingStep
<1> QED BY <1>8, <1>10, <1>11 DEF PoolInv

\* The counts of computed tokens are no concern of the pool between calls.
LEMMA CountStep ==
    ASSUME PoolInv, call = Idle, call' = Idle,
           UNCHANGED <<prompt, output, blockTable, numCachedPrefix, pool>>,
           numComputed' \in [Seqs -> Nat]
    PROVE  PoolInv'
<1>1. /\ PoolTypeOK /\ PoolOK(pool) /\ call.op = "none"
      /\ blockTable \in [Seqs -> Seq(Blocks)]
  BY IdleFields DEF PoolInv, PoolTypeOK
<1>2. \A b \in Blocks : Holders(b)' = Holders(b)
  BY <1>1, IdleCall, HoldersStay
<1>3. HoldersOK' /\ HashNamesContent' /\ UnhashedHasOneHolder'
  BY <1>1, <1>2, QuietStep
<1>4. PoolTypeOK'
  BY <1>1, IdleCall DEF PoolTypeOK
<1>5. PrefixLeavesWork'
  BY <1>1 DEF PoolInv, PrefixLeavesWork, PromptLen
<1> QED BY <1>1, <1>3, <1>4, <1>5, IdleCall DEF PoolInv

LEMMA ForwardPreserves ==
    ASSUME PoolInv, NEW s \in Seqs, NEW n \in Nat, Forward(s, n)
    PROVE  PoolInv'
<1>1. /\ call = Idle /\ call' = Idle
      /\ UNCHANGED <<prompt, output, blockTable, numCachedPrefix, pool>>
  BY DEF Forward
<1>2. numComputed \in [Seqs -> Nat] /\ numComputed[s] \in Nat
  BY DEF PoolInv, PoolTypeOK
<1>3. numComputed' = [numComputed EXCEPT ![s] = @ + n]
  BY DEF Forward
<1>4. numComputed' \in [Seqs -> Nat]
  BY <1>2, <1>3
<1> QED BY <1>1, <1>4, CountStep

\* A sampled token leaves every prefix named so far as it is.
LEMMA AppendOutputStep ==
    ASSUME PoolInv, NEW s \in Seqs, NEW t \in Tokens, call = Idle, call' = Idle,
           AppendOutputToken(s, t),
           UNCHANGED <<prompt, blockTable, numCachedPrefix, pool>>,
           numComputed' \in [Seqs -> Nat]
    PROVE  PoolInv'
<1>1. /\ PoolTypeOK /\ PoolOK(pool) /\ call.op = "none" /\ call'.op = "none"
      /\ blockTable \in [Seqs -> Seq(Blocks)]
      /\ output' = [output EXCEPT ![s] = Append(@, t)]
  BY IdleFields DEF PoolInv, PoolTypeOK, AppendOutputToken
<1>2. /\ output \in [Seqs -> Seq(Tokens)]
      /\ output' \in [Seqs -> Seq(Tokens)]
      /\ output'[s] = Append(output[s], t)
      /\ \A r \in Seqs \ {s} : output'[r] = output[r]
  BY <1>1 DEF PoolTypeOK
<1>3. PoolTypeOK'
  BY <1>1, <1>2, IdleCall DEF PoolTypeOK
<1>4. \A r \in Seqs : TotalLen(r) \in Nat /\ TotalLen(r)' \in Nat
                       /\ TotalLen(r)' >= TotalLen(r)
  <2> SUFFICES ASSUME NEW r \in Seqs
               PROVE  TotalLen(r) \in Nat /\ TotalLen(r)' \in Nat
                       /\ TotalLen(r)' >= TotalLen(r)
    OBVIOUS
  <2>1. prompt[r] \in Seq(Tokens) /\ output[r] \in Seq(Tokens)
    BY <1>1, SequenceSizes
  <2> DEFINE m == Len(prompt[r])
             n == Len(output[r])
             n2 == Len(output'[r])
  <2>2. m \in Nat /\ n \in Nat /\ n2 \in {n, n + 1}
    <3>1. m \in Nat /\ n \in Nat
      BY <2>1
    <3>2. n2 \in {n, n + 1}
      <4>1. CASE r = s
        BY <1>2, <2>1, <4>1
      <4>2. CASE r # s
        BY <1>2, <4>2
      <4> QED BY <4>1, <4>2
    <3> QED BY <3>1, <3>2
  <2>3. TotalLen(r) = m + n /\ TotalLen(r)' = m + n2
    BY DEF TotalLen
  <2> HIDE DEF m, n, n2
  <2> QED BY <2>2, <2>3
<1>5. ASSUME NEW r \in Seqs, NEW i \in Nat, i * BlockSize <= TotalLen(r)
      PROVE  PrefixOf(r, i)' = PrefixOf(r, i)
  <2>1. CASE r # s
    BY <1>2, <2>1 DEF PrefixOf, AllTokenIds
  <2>2. CASE r = s
    <3> DEFINE q == AllTokenIds(s)
               m == i * BlockSize
    <3>1. /\ q \in Seq(Tokens) /\ Len(q) = TotalLen(s)
          /\ prompt[s] \in Seq(Tokens) /\ output[s] \in Seq(Tokens)
      BY <1>1, SequenceSizes
    <3>2. m \in Nat /\ m <= Len(q)
      BY <1>5, <2>2, <3>1, BlockConstants
    <3>3. AllTokenIds(s)' = q \o <<t>>
      <4>1. Append(output[s], t) = output[s] \o <<t>> /\ <<t>> \in Seq(Tokens)
        <5>1. PICK w \in Seq(Tokens), x \in Tokens : w = output[s] /\ x = t
          BY <3>1
        <5>2. Append(w, x) = w \o <<x>> /\ <<x>> \in Seq(Tokens)
          BY ONLY w \in Seq(Tokens), x \in Tokens, AppendIsConcat
        <5> QED BY <5>1, <5>2
      <4>2. prompt[s] \o (output[s] \o <<t>>) = (prompt[s] \o output[s]) \o <<t>>
        <5>1. PICK u \in Seq(Tokens), v \in Seq(Tokens), w \in Seq(Tokens) :
                 u = prompt[s] /\ v = output[s] /\ w = <<t>>
          BY <3>1, <4>1
        <5>2. (u \o v) \o w = u \o (v \o w)
          BY ONLY u \in Seq(Tokens), v \in Seq(Tokens), w \in Seq(Tokens),
                  ConcatAssociative
        <5> QED BY <5>1, <5>2
      <4> QED BY <1>2, <4>1, <4>2 DEF AllTokenIds
    <3>4. SubSeq(q \o <<t>>, 1, m) = SubSeq(q, 1, m)
      <4>1. <<t>> \in Seq(Tokens)
        OBVIOUS
      <4> HIDE DEF q, m
      <4> QED BY <3>1, <3>2, <4>1, PrefixOfConcat
    <3> QED BY <2>2, <3>3, <3>4 DEF PrefixOf
  <2> QED BY <2>1, <2>2
<1>6. \A b \in Blocks : Holders(b)' = Holders(b)
  BY <1>1, HoldersStay
<1>7. HoldersOK' /\ HashNamesContent' /\ UnhashedHasOneHolder'
  <2>1. ASSUME NEW c \in Blocks, NEW r, NEW i,
               <<r, i>> \in Holders(c), pool'.hashKey[c] # NoHash
        PROVE  /\ pool'.hashKey[c] = pool.hashKey[c]
               /\ PrefixOf(r, i)' = PrefixOf(r, i)
               /\ TotalLen(r)' >= TotalLen(r)
    <3>1. r \in Seqs /\ i \in Held(r)
      BY <2>1, HoldersMembers
    <3>2. i \in Nat
      BY <1>1, <3>1 DEF Held
    <3>3. i * BlockSize <= TotalLen(r)
      BY <1>1, <2>1, ContentByHolder DEF PoolInv
    <3> QED BY <1>4, <1>5, <3>1, <3>2, <3>3
  <2> QED BY <1>1, <1>4, <1>6, <2>1, NamingStep
<1>8. PrefixLeavesWork'
  BY DEF PoolInv, PrefixLeavesWork, PromptLen
<1> QED BY <1>1, <1>3, <1>7, <1>8, IdleCall DEF PoolInv

LEMMA CallStepPreserves == PoolInv /\ CallStep => PoolInv'
<1> SUFFICES ASSUME PoolInv, CallStep PROVE PoolInv'
  OBVIOUS
<1>1. CASE AdmitHit
  BY <1>1, AdmitHitPreserves
<1>2. CASE AdmitMiss
  BY <1>2, AdmitMissPreserves
<1>3. CASE AdmitFinish
  BY <1>3, AdmitFinishPreserves
<1>4. CASE EnsureTake
  BY <1>4, EnsureTakePreserves
<1>5. CASE EnsureExit
  BY <1>5, EndStep DEF EnsureExit
<1>6. CASE FreeRelease
  BY <1>6, FreeReleasePreserves
<1>7. CASE FreeClear
  BY <1>7, FreeClearPreserves
<1>8. CASE RegisterSkip
  BY <1>8, RegisterSkipPreserves
<1>9. CASE RegisterBlock
  BY <1>9, RegisterBlockPreserves
<1>10. CASE RegisterReturn
  BY <1>10, EndStep DEF RegisterReturn
<1> QED BY <1>1, <1>2, <1>3, <1>4, <1>5, <1>6, <1>7, <1>8, <1>9, <1>10 DEF CallStep

LEMMA StutterPreserves == PoolInv /\ UNCHANGED poolVars => PoolInv'
<1> SUFFICES ASSUME PoolInv, UNCHANGED poolVars PROVE PoolInv'
  OBVIOUS
<1>1. UNCHANGED <<prompt, output, blockTable, numComputed, numCachedPrefix, pool, call>>
  BY DEF poolVars, seqVars
<1>2. PoolTypeOK'
  BY <1>1 DEF PoolInv, PoolTypeOK
<1>3. \A s : Held(s)' = Held(s)
  BY <1>1 DEF Held
<1>4. \A b : Holders(b)' = Holders(b)
  BY <1>1, <1>3, HoldersSame
<1>5. HoldersOK' /\ HashNamesContent' /\ UnhashedHasOneHolder'
  BY <1>1, <1>2, <1>4, QuietStep DEF PoolTypeOK
<1>6. CallOK'
  <2>1. \A s, i : /\ NumFull(s)' = NumFull(s) /\ CapFull(s)' = CapFull(s)
                  /\ HasTail(s)' = HasTail(s) /\ PrefixOf(s, i)' = PrefixOf(s, i)
                  /\ TotalLen(s)' = TotalLen(s)
    BY <1>1 DEF NumFull, CapFull, HasTail, PromptLen, PrefixOf, AllTokenIds, TotalLen
  <2> QED BY <1>1, <2>1 DEF PoolInv, CallOK, AdmitOK, FreeOK, RegisterOK
<1>7. PrefixLeavesWork'
  BY <1>1 DEF PoolInv, PrefixLeavesWork, PromptLen
<1> QED BY <1>1, <1>2, <1>5, <1>6, <1>7 DEF PoolInv

LEMMA NextPreserves == PoolInv /\ [PoolNext]_poolVars => PoolInv'
<1> SUFFICES ASSUME PoolInv, [PoolNext]_poolVars PROVE PoolInv'
  OBVIOUS
<1>1. CASE UNCHANGED poolVars
  BY <1>1, StutterPreserves
<1>2. CASE CallStep
  BY <1>2, CallStepPreserves
<1>3. ASSUME NEW s \in Seqs, CallAdmit(s) PROVE PoolInv'
  BY <1>3, AdmitPreserves DEF CallAdmit
<1>4. ASSUME NEW s \in Seqs, CallAppendSlot(s) PROVE PoolInv'
  BY <1>4, AppendSlotPreserves DEF CallAppendSlot
<1>5. ASSUME NEW s \in Seqs, CallEnsure(s) PROVE PoolInv'
  <2>1. PICK chunk \in 1 .. 2 * BlockSize : EnsureBlocksForChunk(s, chunk)
    BY <1>5 DEF CallEnsure
  <2>2. chunk \in Nat
    BY <2>1, BlockConstants
  <2> QED BY <2>1, <2>2, EnsurePreserves
<1>6. ASSUME NEW s \in Seqs, CallFree(s) PROVE PoolInv'
  BY <1>6, FreePreserves DEF CallFree
<1>7. ASSUME NEW s \in Seqs, CallRegister(s) PROVE PoolInv'
  BY <1>7, RegisterPreserves DEF CallRegister
<1>8. ASSUME NEW s \in Seqs, NEW n \in 1 .. BlockSize, Forward(s, n) PROVE PoolInv'
  BY <1>8, ForwardPreserves, BlockConstants
<1>9. ASSUME NEW s \in Seqs, NEW t \in Tokens, Sample(s, t) PROVE PoolInv'
  BY <1>9, AppendOutputStep DEF Sample, PoolInv, PoolTypeOK
<1> QED BY <1>1, <1>2, <1>3, <1>4, <1>5, <1>6, <1>7, <1>8, <1>9 DEF PoolNext

\* The invariant of the pool, which its callers rely on.
THEOREM PoolInvariant == PoolSpec => []PoolInv
<1> QED BY InitInv, NextPreserves, PTL DEF PoolSpec

-----------------------------------------------------------------------------
(* What the callers rely on. *)

LEMMA InvImplies ==
    PoolInv => /\ PoolTypeOK /\ RefCountsExact /\ FreeListsExact
               /\ CacheCoherent /\ HashNamesContent /\ SharedBlocksAgree
               /\ AdmitNeverRunsDry /\ PrefixLeavesWork
<1> SUFFICES ASSUME PoolInv
             PROVE  /\ PoolTypeOK /\ RefCountsExact /\ FreeListsExact
                    /\ CacheCoherent /\ HashNamesContent /\ SharedBlocksAgree
                    /\ AdmitNeverRunsDry /\ PrefixLeavesWork
  OBVIOUS
<1>1. /\ PoolTypeOK /\ HashNamesContent /\ PrefixLeavesWork
      /\ FreeListsExact /\ CacheCoherent /\ RefCountsExact
  BY DEF PoolInv, PoolOK, HoldersOK, FreeListsExact, CacheCoherent, RefCountsExact
<1>2. SharedBlocksAgree
  <2> SUFFICES ASSUME NEW s \in Seqs, NEW r \in Seqs,
                      NEW i \in Held(s), NEW j \in Held(r),
                      <<s, i>> # <<r, j>>, blockTable[s][i] = blockTable[r][j]
               PROVE  /\ i = j
                      /\ pool.hashKey[blockTable[s][i]] # NoHash
                      /\ PrefixOf(s, i) = PrefixOf(r, i)
    BY DEF SharedBlocksAgree
  <2>1. /\ i \in DOMAIN blockTable[s] /\ j \in DOMAIN blockTable[r]
        /\ i \in Nat /\ j \in Nat
    <3>1. blockTable[s] \in Seq(Blocks) /\ blockTable[r] \in Seq(Blocks)
      BY <1>1 DEF PoolTypeOK
    <3>2. i \in DOMAIN blockTable[s] /\ j \in DOMAIN blockTable[r]
      BY DEF Held
    <3> QED BY <3>1, <3>2
  <2>2. PICK b \in Blocks : b = blockTable[s][i] /\ b = blockTable[r][j]
    <3>1. blockTable[s] \in Seq(Blocks)
      BY <1>1 DEF PoolTypeOK
    <3>2. blockTable[s][i] \in Blocks
      BY <2>1, <3>1
    <3> QED BY <3>2
  <2>3. pool.hashKey[b] # NoHash
    <3>1. <<s, i>> \in Holders(b) /\ <<r, j>> \in Holders(b)
      BY <2>2, HoldersMembers
    <3> QED BY <3>1 DEF PoolInv, UnhashedHasOneHolder
  <2>4. /\ i * BlockSize <= TotalLen(s) /\ pool.hashKey[b] = PrefixOf(s, i)
        /\ j * BlockSize <= TotalLen(r) /\ pool.hashKey[b] = PrefixOf(r, j)
    BY <1>1, <2>1, <2>2, <2>3 DEF HashNamesContent
  <2>5. Len(PrefixOf(s, i)) = i * BlockSize /\ Len(PrefixOf(r, j)) = j * BlockSize
    <3>1. ASSUME NEW x \in Seqs, NEW k \in Nat, k * BlockSize <= TotalLen(x)
          PROVE  Len(PrefixOf(x, k)) = k * BlockSize
      <4> DEFINE q == AllTokenIds(x)
                 m == k * BlockSize
      <4>1. q \in Seq(Tokens) /\ Len(q) = TotalLen(x) /\ m \in Nat
        <5>1. q \in Seq(Tokens) /\ Len(q) = TotalLen(x)
          BY <1>1, SequenceSizes
        <5>2. m \in Nat
          BY BlockConstants
        <5> QED BY <5>1, <5>2
      <4>2. PrefixOf(x, k) = SubSeq(q, 1, m)
        BY DEF PrefixOf
      <4>3. m <= Len(q)
        BY <3>1, <4>1
      <4> HIDE DEF q, m
      <4>4. Len(PrefixOf(x, k)) = m
        BY <4>1, <4>2, <4>3
      <4> QED BY <4>4 DEF m
    <3> QED BY <2>1, <2>4, <3>1
  <2>6. i = j
    BY <2>1, <2>4, <2>5, Multiples, BlockConstants
  <2> QED BY <2>2, <2>3, <2>4, <2>6
<1>3. AdmitNeverRunsDry
  <2> SUFFICES ASSUME call.op = "admit"
               PROVE  NumFree(pool) >= NumBlocksNeededFor(PromptLen(call.seq))
                                          - Len(blockTable[call.seq])
    BY DEF AdmitNeverRunsDry
  <2>1. PICK s \in Seqs : s = call.seq
    BY <1>1 DEF PoolTypeOK
  <2>2. /\ NumFree(pool) >= (NumFull(s) - Len(blockTable[s]))
                               + (IF HasTail(s) THEN 1 ELSE 0)
    BY <2>1 DEF PoolInv, CallOK, AdmitOK
  <2>3. /\ NumBlocksNeededFor(PromptLen(s))
              = NumFull(s) + (IF HasTail(s) THEN 1 ELSE 0)
        /\ NumFull(s) \in Nat /\ Len(blockTable[s]) \in Nat
        /\ NumFree(pool) \in Nat
    BY <1>1, PromptBlocks, SequenceSizes, TypedFields DEF PoolTypeOK
  <2>4. PICK n \in Nat, t \in {0, 1}, m \in Nat, f \in Nat :
           /\ n = NumFull(s) /\ t = (IF HasTail(s) THEN 1 ELSE 0)
           /\ m = Len(blockTable[s]) /\ f = NumFree(pool)
    BY <2>3
  <2>5. f >= (n + t) - m
    BY <2>2, <2>4
  <2> QED BY <2>1, <2>3, <2>4, <2>5
<1> QED BY <1>1, <1>2, <1>3

\* The state of the sequences, the pool and the call in progress is well typed.
THEOREM PoolTypeCorrect == PoolSpec => []PoolTypeOK
<1> QED BY PoolInvariant, InvImplies, PTL

\* The counter of a block is the number of table entries that name it.
THEOREM RefCountsAreExact == PoolSpec => []RefCountsExact
<1> QED BY PoolInvariant, InvImplies, PTL

\* The two free lists are the unreferenced blocks, unhashed and hashed.
THEOREM FreeListsAreExact == PoolSpec => []FreeListsExact
<1> QED BY PoolInvariant, InvImplies, PTL

\* _cache is the inverse of the hash_key of the blocks.
THEOREM CacheIsCoherent == PoolSpec => []CacheCoherent
<1> QED BY PoolInvariant, InvImplies, PTL

\* The hash of a block in a table is that of the tokens the table puts there.
THEOREM HashesNameContent == PoolSpec => []HashNamesContent
<1> QED BY PoolInvariant, InvImplies, PTL

\* Only sequences that agree up to the end of a block share it.
THEOREM SharingIsSound == PoolSpec => []SharedBlocksAgree
<1> QED BY PoolInvariant, InvImplies, PTL

\* What can_allocate_initial grants, admit never lacks.
THEOREM AdmitSucceeds == PoolSpec => []AdmitNeverRunsDry
<1> QED BY PoolInvariant, InvImplies, PTL

\* The prefix cache never covers a whole prompt.
THEOREM WorkIsLeft == PoolSpec => []PrefixLeavesWork
<1> QED BY PoolInvariant, InvImplies, PTL

-----------------------------------------------------------------------------
(* What a step may never do to the cache. *)

\* What a step does to the hashes and the cache: nothing, or it names an
\* unnamed block, or it takes a free block, which it may then name.
LEMMA PoolMoves ==
    ASSUME [PoolNext]_poolVars, PoolTypeOK
    PROVE  \/ pool'.hashKey = pool.hashKey /\ pool'.cache = pool.cache
           \/ \E b, h : /\ pool.hashKey[b] = NoHash
                        /\ pool' = Register(pool, b, h)
           \/ NumFree(pool) > 0 /\ pool' = TakeFreeBlock(pool)
           \/ /\ NumFree(pool) > 0
              /\ pool' = Register(TakeFreeBlock(pool), NextFree(pool), AdmitHash)
<1>1. CASE UNCHANGED poolVars \/ EnsureExit \/ FreeClear \/ RegisterSkip
           \/ RegisterReturn
  BY <1>1 DEF poolVars, EnsureExit, FreeClear, RegisterSkip, RegisterReturn
<1>2. CASE AdmitMiss
  BY <1>2 DEF AdmitMiss
<1>3. CASE AdmitFinish \/ EnsureTake
  BY <1>3 DEF AdmitFinish, EnsureTake, GrowTable
<1>4. CASE AdmitHit
  BY <1>4, PoolFields DEF AdmitHit, Share
<1>5. CASE FreeRelease
  <2>1. ASSUME NEW b
        PROVE  /\ Release(pool, b).hashKey = pool.hashKey
               /\ Release(pool, b).cache = pool.cache
    BY PoolFields DEF Release
  <2> QED BY <1>5, <2>1 DEF FreeRelease
<1>6. CASE RegisterBlock
  BY <1>6 DEF RegisterBlock
<1>7. ASSUME NEW s \in Seqs, AppendSlot(s)
      PROVE  \/ UNCHANGED pool
             \/ NumFree(pool) > 0 /\ pool' = TakeFreeBlock(pool)
  <2>1. NumFree(pool) \in Nat
    BY TypedFields DEF PoolTypeOK
  <2> QED BY <1>7, <2>1 DEF AppendSlot, AppendSlotRaises, GrowTable
<1>8. ASSUME NEW s \in Seqs,
             \/ CallAdmit(s) \/ CallEnsure(s) \/ CallFree(s) \/ CallRegister(s)
             \/ \E n \in 1 .. BlockSize : Forward(s, n)
             \/ \E t \in Tokens : Sample(s, t)
      PROVE  UNCHANGED pool
  BY <1>8 DEF CallAdmit, CallEnsure, CallFree, CallRegister, Forward, Sample,
              Admit, EnsureBlocksForChunk, Free, RegisterFilledBlocks
<1> QED BY <1>1, <1>2, <1>3, <1>4, <1>5, <1>6, <1>7, <1>8
        DEF PoolNext, CallStep, CallAppendSlot

\* _take_free_block touches one block, and evicts only when it must.
LEMMA TakeEvicts ==
    ASSUME PoolOK(pool), NumFree(pool) > 0
    PROVE  LET b == NextFree(pool)
               q == TakeFreeBlock(pool)
           IN  /\ pool.refCount[b] = 0
               /\ \A c \in Blocks \ {b} : q.hashKey[c] = pool.hashKey[c]
               /\ \A h \in DOMAIN pool.cache \ DOMAIN q.cache :
                     pool.freeUncached = <<>> /\ pool.cache[h] = b
<1> DEFINE b == NextFree(pool)
           q == TakeFreeBlock(pool)
<1>1. /\ b \in Blocks /\ pool.refCount[b] = 0
      /\ q.hashKey = [pool.hashKey EXCEPT ![b] = NoHash]
  BY TakeFacts
<1>2. pool.hashKey \in [Blocks -> Hashes]
  BY TypedFields DEF PoolOK
<1>3. CASE pool.freeUncached # <<>>
  <2>1. q.cache = pool.cache
    BY <1>3, PoolFields DEF TakeFreeBlock
  <2> HIDE DEF b, q
  <2> QED BY <1>1, <1>2, <2>1 DEF b, q
<1>4. CASE pool.freeUncached = <<>>
  <2>1. DOMAIN q.cache = DOMAIN pool.cache \ {pool.hashKey[b]}
    BY <1>4, PoolFields DEF TakeFreeBlock, Restrict
  <2> HIDE DEF b, q
  <2>2. \A h \in DOMAIN pool.cache \ DOMAIN q.cache : h = pool.hashKey[b]
    BY <2>1
  <2>3. pool.hashKey[b] \in DOMAIN pool.cache => pool.cache[pool.hashKey[b]] = b
    BY <1>1 DEF PoolOK, CacheOK
  <2> QED BY <1>1, <1>2, <1>4, <2>2, <2>3 DEF b, q
<1> QED BY <1>3, <1>4

\* _register only adds to the cache, and touches one block.
LEMMA RegisterAdds ==
    ASSUME NEW p, PoolTyped(p), NEW b, NEW h
    PROVE  /\ DOMAIN p.cache \subseteq DOMAIN Register(p, b, h).cache
           /\ \A c \in Blocks : c # b =>
                 Register(p, b, h).hashKey[c] = p.hashKey[c]
<1>1. CASE EnablePrefixCaching /\ h \notin DOMAIN p.cache
  <2>1. /\ Register(p, b, h).hashKey = [p.hashKey EXCEPT ![b] = h]
        /\ DOMAIN Register(p, b, h).cache = DOMAIN p.cache \cup {h}
    BY <1>1, PoolFields DEF Register
  <2>2. p.hashKey \in [Blocks -> Hashes]
    BY TypedFields
  <2> QED BY <2>1, <2>2
<1>2. CASE ~(EnablePrefixCaching /\ h \notin DOMAIN p.cache)
  BY <1>2 DEF Register
<1> QED BY <1>1, <1>2

LEMMA CacheMoves ==
    ASSUME PoolInv, [PoolNext]_poolVars
    PROVE  /\ \A h \in DOMAIN pool.cache \ DOMAIN pool'.cache :
                 /\ pool.freeUncached = <<>>
                 /\ pool.refCount[pool.cache[h]] = 0
           /\ \A b \in Blocks :
                 (pool.refCount[b] > 0 /\ pool.hashKey[b] # NoHash)
                    => pool'.hashKey[b] = pool.hashKey[b]
<1>1. PoolTypeOK /\ PoolOK(pool) /\ PoolTyped(pool)
  BY DEF PoolInv, PoolOK
<1>2. CASE pool'.hashKey = pool.hashKey /\ pool'.cache = pool.cache
  BY <1>2
<1>3. CASE \E b, h : pool.hashKey[b] = NoHash /\ pool' = Register(pool, b, h)
  BY <1>1, <1>3, RegisterAdds
<1>4. CASE NumFree(pool) > 0
           /\ \/ pool' = TakeFreeBlock(pool)
              \/ pool' = Register(TakeFreeBlock(pool), NextFree(pool), AdmitHash)
  <2> DEFINE b == NextFree(pool)
             q == TakeFreeBlock(pool)
  <2>1. /\ pool.refCount[b] = 0
        /\ \A c \in Blocks \ {b} : q.hashKey[c] = pool.hashKey[c]
        /\ \A h \in DOMAIN pool.cache \ DOMAIN q.cache :
              pool.freeUncached = <<>> /\ pool.cache[h] = b
    BY <1>1, <1>4, TakeEvicts
  <2>2. PoolTyped(q)
    BY <1>1, <1>4, TakeFacts DEF PoolOK
  <2>3. /\ DOMAIN q.cache \subseteq DOMAIN pool'.cache
        /\ \A c \in Blocks : c # b => pool'.hashKey[c] = q.hashKey[c]
    BY <1>4, <2>2, RegisterAdds
  <2> HIDE DEF b, q
  <2>4. \A h \in DOMAIN pool.cache \ DOMAIN pool'.cache :
              /\ pool.freeUncached = <<>>
              /\ pool.refCount[pool.cache[h]] = 0
    BY <2>1, <2>3
  <2>5. \A c \in Blocks : pool.refCount[c] > 0 => pool'.hashKey[c] = pool.hashKey[c]
    BY <2>1, <2>3
  <2> QED BY <2>4, <2>5
<1> QED BY <1>1, <1>2, <1>3, <1>4, PoolMoves

\* Only a dry pool evicts, and only a block nobody refers to.
THEOREM EvictionIsLastResort == PoolSpec => EvictOnlyWhenDry
<1>1. PoolInv /\ [PoolNext]_poolVars =>
        [\A h \in DOMAIN pool.cache \ DOMAIN pool'.cache :
            /\ pool.freeUncached = <<>>
            /\ pool.refCount[pool.cache[h]] = 0]_poolVars
  BY CacheMoves
<1> QED BY <1>1, PoolInvariant, PTL DEF PoolSpec, EvictOnlyWhenDry

\* A block in use keeps the hash it has.
THEOREM HashesAreStable == PoolSpec => HeldHashIsStable
<1>1. PoolInv /\ [PoolNext]_poolVars =>
        [\A b \in Blocks :
            (pool.refCount[b] > 0 /\ pool.hashKey[b] # NoHash)
               => pool'.hashKey[b] = pool.hashKey[b]]_poolVars
  BY CacheMoves
<1> QED BY <1>1, PoolInvariant, PTL DEF PoolSpec, HeldHashIsStable

=============================================================================
