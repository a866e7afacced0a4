--------------------------- MODULE GenerationProofs ---------------------------
(***************************************************************************)
(* One request with its own SamplingParams, from the row of logits to the  *)
(* page: what Sampler draws from is the nucleus, what the reader is sent   *)
(* is the text, the request does what Lifecycle promises, and the page     *)
(* shows what has reached it.                                              *)
(***************************************************************************)
EXTENDS DemoPage, QueueProofs, FiniteSetTheorems

-----------------------------------------------------------------------------
(***************************************************************************)
(* FoldLeft.  The community module defines it by a function on all sets of *)
(* places; that there is one, and that it is the only one, is what lets a  *)
(* proof take the last element off.                                        *)
(***************************************************************************)

\* A set of places has a last one.
LEMMA LastPlace ==
    ASSUME NEW n \in Nat, NEW P \in SUBSET (1 .. n), P # {}
    PROVE  /\ Max(P) \in P
           /\ \A i \in P : i <= Max(P)
<1> DEFINE T == {m \in Nat : \A i \in P : i <= m}
<1>1. n \in T
  OBVIOUS
<1>2. PICK m \in T : \A y \in T : m <= y
  <2>1. T \in SUBSET Nat /\ T # {}
    BY <1>1
  <2> HIDE DEF T
  <2> QED BY <2>1, LeastExists
<1>3. m \in Nat /\ \A i \in P : i <= m
  BY <1>2
<1>4. m \in P
  <2> SUFFICES ASSUME m \notin P PROVE FALSE
    OBVIOUS
  <2>1. PICK i \in P : i \in 1 .. n
    OBVIOUS
  <2>2. m - 1 \in Nat
    BY <1>3, <2>1
  <2>3. ASSUME NEW k \in P PROVE k <= m - 1
    <3>1. k \in Nat /\ k <= m /\ k # m
      BY <1>3
    <3> QED BY <1>3, <3>1
  <2>4. m - 1 \in T
    BY <2>2, <2>3
  <2>5. m <= m - 1
    BY <1>2, <2>4
  <2> QED BY <1>3, <2>5
<1>5. \E x \in P : \A y \in P : x >= y
  <2>1. \A y \in P : y \in Nat /\ m >= y
    BY <1>3
  <2> QED BY <1>4, <2>1
<1>6. Max(P) \in P /\ \A y \in P : Max(P) >= y
  BY <1>5 DEF Max
<1> QED BY <1>6

\* f and g begin alike and take the same steps.
SameSteps(f, g, n) ==
    /\ f[{}] = g[{}]
    /\ \A P \in SUBSET (1 .. n) :
          (P # {} /\ f[P \ {Max(P)}] = g[P \ {Max(P)}]) => f[P] = g[P]

\* Two functions that take the same steps are the same.
LEMMA FoldsAgree ==
    ASSUME NEW n \in Nat, NEW f, NEW g, SameSteps(f, g, n)
    PROVE  \A P \in SUBSET (1 .. n) : f[P] = g[P]
<1> DEFINE T == {m \in Nat : m <= n /\ \E P \in SUBSET (1 .. m) : f[P] # g[P]}
<1> SUFFICES ASSUME T # {} PROVE FALSE
  <2>1. n \notin T
    OBVIOUS
  <2> QED BY <2>1
<1>1. PICK m \in T : \A y \in T : m <= y
  <2>1. T \in SUBSET Nat
    OBVIOUS
  <2> HIDE DEF T
  <2> QED BY <2>1, LeastExists
<1>2. PICK P \in SUBSET (1 .. m) : f[P] # g[P]
  BY <1>1
<1>3. m \in Nat /\ m <= n /\ P \in SUBSET (1 .. n) /\ P # {}
  <2>1. m \in Nat /\ m <= n
    BY <1>1
  <2>2. 1 .. m \subseteq 1 .. n
    BY <2>1
  <2> QED BY <1>2, <2>1, <2>2 DEF SameSteps
<1>4. PICK top \in P : top = Max(P) /\ \A i \in P : i <= top
  BY <1>2, <1>3, LastPlace
<1>5. m - 1 \in Nat /\ P \ {top} \in SUBSET (1 .. m - 1)
  <2>1. \A i \in P : i \in Nat /\ 1 <= i /\ i <= m
    BY <1>2, <1>3
  <2>2. top \in Nat /\ 1 <= top /\ top <= m
    BY <1>4, <2>1
  <2>3. ASSUME NEW i \in P, i # top PROVE i \in 1 .. m - 1
    <3>1. i \in Nat /\ 1 <= i /\ i <= top
      BY <1>4, <2>1
    <3> QED BY <1>3, <2>2, <2>3, <3>1
  <2>4. m - 1 \in Nat
    BY <1>3, <2>2
  <2> QED BY <2>3, <2>4
<1>6. m - 1 \notin T
  <2> SUFFICES ASSUME m - 1 \in T PROVE FALSE
    OBVIOUS
  <2>1. m <= m - 1
    BY <1>1
  <2> QED BY <1>3, <2>1
<1>7. f[P \ {top}] = g[P \ {top}]
  BY <1>3, <1>5, <1>6
<1> QED BY <1>2, <1>3, <1>4, <1>7 DEF SameSteps

\* f folds the steps F over q, from base.
Folds(f, F, base, q) ==
    \A P \in SUBSET DOMAIN q :
        f[P] = IF P = {} THEN base ELSE F[<<f[P \ {Max(P)}], q[Max(P)]>>]

\* What is left of the places up to m without the last is places up to m - 1.
LEMMA WithoutTop ==
    ASSUME NEW m \in Nat, NEW P \in SUBSET (1 .. m), P # {}
    PROVE  /\ Max(P) \in P
           /\ P \ {Max(P)} \in SUBSET (1 .. m - 1)
<1>1. PICK top \in P : top = Max(P) /\ \A i \in P : i <= top
  BY LastPlace
<1>2. \A i \in P : i \in Nat /\ 1 <= i /\ i <= m /\ i <= top
  BY <1>1
<1>3. ASSUME NEW i \in P, i # top PROVE i \in 1 .. m - 1
  <2>1. i \in Nat /\ 1 <= i /\ i <= top /\ top \in Nat /\ top <= m
    BY <1>2
  <2> QED BY <2>1, <1>3
<1> QED BY <1>1, <1>3

\* A fold exists, by the least length to which there is none.
LEMMA FoldExists ==
    ASSUME NEW A, NEW B, NEW base \in A, NEW F \in [A \X B -> A], NEW q \in Seq(B)
    PROVE  \E f \in [SUBSET DOMAIN q -> A] : Folds(f, F, base, q)
<1> DEFINE Upto(f, m) ==
             \A P \in SUBSET (1 .. m) :
                f[P] = IF P = {} THEN base ELSE F[<<f[P \ {Max(P)}], q[Max(P)]>>]
           Has(m) == \E f \in [SUBSET (1 .. m) -> A] : Upto(f, m)
           T == {m \in Nat : m <= Len(q) /\ ~Has(m)}
<1>0. Len(q) \in Nat /\ DOMAIN q = 1 .. Len(q) /\ \A i \in 1 .. Len(q) : q[i] \in B
  OBVIOUS
<1> SUFFICES ASSUME T # {} PROVE FALSE
  <2>1. Len(q) \notin T
    OBVIOUS
  <2> HIDE DEF Has
  <2>4. Has(Len(q))
    BY <1>0, <2>1
  <2> USE DEF Has
  <2>2. PICK f \in [SUBSET (1 .. Len(q)) -> A] : Upto(f, Len(q))
    BY <2>4
  <2>3. Folds(f, F, base, q)
    BY <1>0, <2>2 DEF Folds
  <2> QED BY <1>0, <2>2, <2>3
<1>1. PICK m \in T : \A y \in T : m <= y
  <2>1. T \in SUBSET Nat
    OBVIOUS
  <2> HIDE DEF T
  <2> QED BY <2>1, LeastExists
<1>2. m \in Nat /\ m <= Len(q)
  BY <1>1
<1>3. m # 0
  <2> SUFFICES ASSUME m = 0 PROVE FALSE
    OBVIOUS
  <2> DEFINE g == [P \in SUBSET (1 .. 0) |-> base]
  <2>1. g \in [SUBSET (1 .. 0) -> A]
    OBVIOUS
  <2>2. Upto(g, 0)
    <3>1. 1 .. 0 = {}
      OBVIOUS
    <3> QED BY <3>1
  <2> QED BY <1>1, <2>1, <2>2
<1>4. m - 1 \in Nat /\ m - 1 <= Len(q) /\ m - 1 < m
  BY <1>0, <1>2, <1>3
<1>5. PICK f \in [SUBSET (1 .. m - 1) -> A] : Upto(f, m - 1)
  <2>1. m - 1 \notin T
    <3> SUFFICES ASSUME m - 1 \in T PROVE FALSE
      OBVIOUS
    <3>1. m <= m - 1
      BY <1>1
    <3> QED BY <1>2, <3>1
  <2> HIDE DEF Has
  <2>2. Has(m - 1)
    BY <1>4, <2>1
  <2> USE DEF Has
  <2> QED BY <2>2
<1> DEFINE g == [P \in SUBSET (1 .. m) |->
                   IF m \in P THEN F[<<f[P \ {m}], q[m]>>] ELSE f[P]]
<1>6. \A P \in SUBSET (1 .. m) : P \ {m} \in SUBSET (1 .. m - 1)
  BY <1>2
<1>7. g \in [SUBSET (1 .. m) -> A]
  <2> SUFFICES ASSUME NEW P \in SUBSET (1 .. m)
               PROVE  (IF m \in P THEN F[<<f[P \ {m}], q[m]>>] ELSE f[P]) \in A
    OBVIOUS
  <2>1. q[m] \in B
    BY <1>0, <1>2, <1>3
  <2>2. f[P \ {m}] \in A
    BY <1>5, <1>6
  <2>3. m \notin P => P = P \ {m}
    OBVIOUS
  <2> QED BY <2>1, <2>2, <2>3
<1>8. Upto(g, m)
  <2> SUFFICES ASSUME NEW P \in SUBSET (1 .. m)
               PROVE  g[P] = IF P = {} THEN base ELSE F[<<g[P \ {Max(P)}], q[Max(P)]>>]
    OBVIOUS
  <2>0. g[P] = IF m \in P THEN F[<<f[P \ {m}], q[m]>>] ELSE f[P]
    OBVIOUS
  <2>1. CASE m \in P
    <3>1. Max(P) = m
      <4>1. PICK top \in P : top = Max(P) /\ \A i \in P : i <= top
        BY <1>2, <2>1, LastPlace
      <4>2. top \in Nat /\ top <= m /\ m <= top
        BY <1>2, <2>1, <4>1
      <4> QED BY <1>2, <4>1, <4>2
    <3>2. g[P \ {m}] = f[P \ {m}]
      OBVIOUS
    <3> QED BY <2>0, <2>1, <3>1, <3>2
  <2>2. CASE m \notin P /\ P # {}
    <3>1. P \in SUBSET (1 .. m - 1)
      BY <1>6, <2>2
    <3>2. PICK top : top = Max(P)
      OBVIOUS
    <3>3. g[P \ {top}] = f[P \ {top}]
      BY <2>2
    <3>4. f[P] = F[<<f[P \ {top}], q[top]>>]
      BY <1>5, <2>2, <3>1, <3>2
    <3> QED BY <2>0, <2>2, <3>2, <3>3, <3>4
  <2>3. CASE P = {}
    <3>1. f[{}] = base
      BY <1>5
    <3> QED BY <2>0, <2>3, <3>1
  <2> QED BY <2>1, <2>2, <2>3
<1> QED BY <1>1, <1>7, <1>8

\* One element more is one step more.
LEMMA FoldsOneMore ==
    ASSUME NEW B, NEW q \in Seq(B), NEW x \in B, NEW F, NEW base, NEW f, NEW g,
           Folds(f, F, base, q), Folds(g, F, base, Append(q, x))
    PROVE  g[DOMAIN Append(q, x)] = F[<<f[DOMAIN q], x>>]
<1> DEFINE r == Append(q, x)
           n == Len(q)
<1>0. /\ n \in Nat /\ DOMAIN q = 1 .. n /\ DOMAIN r = 1 .. n + 1 /\ r[n + 1] = x
      /\ \A i \in 1 .. n : r[i] = q[i]
  OBVIOUS
<1> HIDE DEF r, n
<1>1. \A P \in SUBSET (1 .. n) : P \in SUBSET (1 .. n + 1)
  BY <1>0
<1>2. \A P \in SUBSET (1 .. n) : f[P] = g[P]
  <2>1. f[{}] = g[{}]
    BY DEF Folds, r
  <2>2. ASSUME NEW P \in SUBSET (1 .. n), P # {},
               f[P \ {Max(P)}] = g[P \ {Max(P)}]
        PROVE  f[P] = g[P]
    <3>1. Max(P) \in 1 .. n
      BY <1>0, <2>2, WithoutTop
    <3>2. q[Max(P)] = r[Max(P)]
      BY <1>0, <3>1
    <3>3. f[P] = F[<<f[P \ {Max(P)}], q[Max(P)]>>]
      BY <1>0, <2>2 DEF Folds
    <3>4. P \in SUBSET DOMAIN r
      BY <1>0, <1>1
    <3>5. g[P] = F[<<g[P \ {Max(P)}], r[Max(P)]>>]
      BY <2>2, <3>4 DEF Folds, r
    <3> QED BY <2>2, <3>2, <3>3, <3>5
  <2>3. \A P \in SUBSET (1 .. n) :
           (P # {} /\ f[P \ {Max(P)}] = g[P \ {Max(P)}]) => f[P] = g[P]
    BY <2>2
  <2>4. n \in Nat
    BY <1>0
  <2>5. SameSteps(f, g, n)
    BY <2>1, <2>3 DEF SameSteps
  <2> QED BY <2>4, <2>5, FoldsAgree
<1>3. Max(1 .. n + 1) = n + 1 /\ (1 .. n + 1) \ {n + 1} = 1 .. n /\ 1 .. n + 1 # {}
  <2>1. n + 1 \in Nat /\ 1 .. n + 1 # {} /\ n + 1 \in 1 .. n + 1
    BY <1>0
  <2> DEFINE P == 1 .. n + 1
  <2>5. P \in SUBSET (1 .. n + 1) /\ P # {}
    BY <2>1
  <2>6. Max(P) \in P /\ \A i \in P : i <= Max(P)
    BY <2>1, <2>5, LastPlace
  <2>2. PICK top : top = Max(P)
    OBVIOUS
  <2>3. top = n + 1
    <3>1. top \in Nat /\ top <= n + 1 /\ n + 1 <= top
      BY <1>0, <2>1, <2>2, <2>6
    <3> QED BY <1>0, <3>1
  <2>4. (1 .. n + 1) \ {n + 1} = 1 .. n
    BY <1>0
  <2> QED BY <2>1, <2>2, <2>3, <2>4
<1>4. g[1 .. n + 1] = F[<<g[1 .. n], r[n + 1]>>]
  <2>1. 1 .. n + 1 \in SUBSET DOMAIN r
    BY <1>0
  <2>2. g[1 .. n + 1] =
          F[<<g[(1 .. n + 1) \ {Max(1 .. n + 1)}], r[Max(1 .. n + 1)]>>]
    BY <1>3, <2>1 DEF Folds, r
  <2> QED BY <1>3, <2>2
<1>5. g[1 .. n] = f[1 .. n]
  BY <1>2
<1> QED BY <1>0, <1>4, <1>5 DEF r

-----------------------------------------------------------------------------
(***************************************************************************)
(* Text.                                                                   *)
(***************************************************************************)

Glyph == Vocab \cup {"char"}

Chars == {"char", "?"}

GlueStep == [x \in Seq(Glyph) \X Vocab |-> Glue(x[1], x[2])]

Glyphs(ids) == FoldLeft(Glue, <<>>, ids)

\* A token is added to the glyphs, or is skipped, or completes the last one.
LEMMA GlueMoves ==
    ASSUME NEW q \in Seq(Glyph), NEW t \in Vocab
    PROVE  /\ Glue(q, t) \in Seq(Glyph)
           /\ Len(Glue(q, t)) >= Len(q)
           /\ \A i \in DOMAIN q :
                 \/ Glue(q, t)[i] = q[i]
                 \/ (q[i] = "lead" /\ Glue(q, t)[i] = "char")
<1>1. CASE t = "eos"
  BY <1>1 DEF Glue
<1>2. CASE t = "trail" /\ q # <<>> /\ Last(q) = "lead"
  <2> DEFINE front == Front(q)
             new == Append(front, "char")
  <2>1. /\ front \in Seq(Glyph)
        /\ Last(q) = q[Len(q)]
        /\ Len(front) = Len(q) - 1
        /\ \A i \in 1 .. Len(q) - 1 : front[i] = q[i]
    BY <1>2, FrontEntries
  <2>2. Glue(q, t) = new
    BY <1>2 DEF Glue
  <2>3. Len(q) \in Nat /\ DOMAIN q = 1 .. Len(q) /\ "char" \in Glyph
    BY DEF Glyph
  <2> HIDE DEF front
  <2>4. /\ new \in Seq(Glyph) /\ Len(new) = Len(front) + 1
        /\ new[Len(front) + 1] = "char"
        /\ \A i \in 1 .. Len(front) : new[i] = front[i]
    BY <2>1, <2>3
  <2> HIDE DEF new
  <2>5. Len(new) = Len(q) /\ new[Len(q)] = "char"
    BY <2>1, <2>3, <2>4
  <2>6. \A i \in 1 .. Len(q) - 1 : new[i] = q[i]
    BY <2>1, <2>3, <2>4
  <2>7. ASSUME NEW i \in DOMAIN q PROVE new[i] = q[i] \/ (q[i] = "lead" /\ new[i] = "char")
    <3>1. i \in 1 .. Len(q) - 1 \/ i = Len(q)
      BY <2>3
    <3> QED BY <1>2, <2>1, <2>5, <2>6, <3>1
  <2> QED BY <2>2, <2>3, <2>4, <2>5, <2>7
<1>3. CASE t # "eos" /\ ~(t = "trail" /\ q # <<>> /\ Last(q) = "lead")
  <2>1. Glue(q, t) = Append(q, t)
    BY <1>3 DEF Glue
  <2>2. t \in Glyph
    BY DEF Glyph
  <2> QED BY <2>1, <2>2
<1> QED BY <1>1, <1>2, <1>3

\* A token makes glyphs of glyphs.
LEMMA GlueStepTyped == GlueStep \in [Seq(Glyph) \X Vocab -> Seq(Glyph)]
<1> SUFFICES ASSUME NEW x \in Seq(Glyph) \X Vocab PROVE Glue(x[1], x[2]) \in Seq(Glyph)
  BY DEF GlueStep
<1>1. x[1] \in Seq(Glyph) /\ x[2] \in Vocab
  OBVIOUS
<1> QED BY <1>1, GlueMoves

\* The glyphs are the result of a fold.
LEMMA GlyphsFold ==
    ASSUME NEW q \in Seq(Vocab)
    PROVE  \E f \in [SUBSET DOMAIN q -> Seq(Glyph)] :
              /\ Folds(f, GlueStep, <<>>, q)
              /\ Glyphs(q) = f[DOMAIN q]
<1> DEFINE D == SUBSET DOMAIN q
           Body(g) == [s \in D |-> IF s = {} THEN <<>>
                                   ELSE Glue(g[s \ {Max(s)}], q[Max(s)])]
           g == CHOOSE g : g = Body(g)
<1>1. Glyphs(q) = g[DOMAIN q]
  BY DEF Glyphs, FoldLeft, MapThenFoldSet
<1>2. <<>> \in Seq(Glyph)
  OBVIOUS
<1>3. PICK f \in [SUBSET DOMAIN q -> Seq(Glyph)] : Folds(f, GlueStep, <<>>, q)
  BY <1>2, GlueStepTyped, FoldExists
<1>4. /\ Len(q) \in Nat /\ DOMAIN q = 1 .. Len(q)
      /\ \A i \in 1 .. Len(q) : q[i] \in Vocab
  OBVIOUS
<1>5. ASSUME NEW s \in D, s # {}
      PROVE  Max(s) \in s /\ s \ {Max(s)} \in D /\ q[Max(s)] \in Vocab
  BY <1>4, <1>5, WithoutTop
<1>6. f = Body(f)
  <2>1. ASSUME NEW s \in D PROVE f[s] = Body(f)[s]
    <3>1. CASE s = {}
      BY <1>3, <3>1 DEF Folds
    <3>2. CASE s # {}
      <4>1. f[s] = GlueStep[<<f[s \ {Max(s)}], q[Max(s)]>>]
        BY <1>3, <3>2 DEF Folds
      <4>2. <<f[s \ {Max(s)}], q[Max(s)]>> \in Seq(Glyph) \X Vocab
        BY <1>3, <1>5, <3>2
      <4>3. GlueStep[<<f[s \ {Max(s)}], q[Max(s)]>>] = Glue(f[s \ {Max(s)}], q[Max(s)])
        BY <4>2 DEF GlueStep
      <4> QED BY <3>2, <4>1, <4>3
    <3> QED BY <3>1, <3>2
  <2> QED BY <1>3, <2>1
<1>7. g = Body(g)
  <2> HIDE DEF Body
  <2> QED BY <1>6
<1> HIDE DEF g
<1>8. SameSteps(f, g, Len(q))
  <2>1. \A s \in D : g[s] = IF s = {} THEN <<>> ELSE Glue(g[s \ {Max(s)}], q[Max(s)])
    BY <1>7
  <2>2. \A s \in D : f[s] = IF s = {} THEN <<>> ELSE Glue(f[s \ {Max(s)}], q[Max(s)])
    BY <1>6
  <2>3. {} \in D
    OBVIOUS
  <2> QED BY <1>4, <2>1, <2>2, <2>3 DEF SameSteps
<1>9. f[DOMAIN q] = g[DOMAIN q]
  BY <1>4, <1>8, FoldsAgree
<1> QED BY <1>1, <1>3, <1>9

\* One token more is one step more.
LEMMA GlyphsOneMore ==
    ASSUME NEW q \in Seq(Vocab), NEW t \in Vocab
    PROVE  /\ Glyphs(q) \in Seq(Glyph)
           /\ Glyphs(Append(q, t)) = Glue(Glyphs(q), t)
<1>1. PICK f \in [SUBSET DOMAIN q -> Seq(Glyph)] :
              /\ Folds(f, GlueStep, <<>>, q)
              /\ Glyphs(q) = f[DOMAIN q]
  BY GlyphsFold
<1>2. PICK g \in [SUBSET DOMAIN Append(q, t) -> Seq(Glyph)] :
              /\ Folds(g, GlueStep, <<>>, Append(q, t))
              /\ Glyphs(Append(q, t)) = g[DOMAIN Append(q, t)]
  <2>1. Append(q, t) \in Seq(Vocab)
    OBVIOUS
  <2> QED BY <2>1, GlyphsFold
<1>3. g[DOMAIN Append(q, t)] = GlueStep[<<f[DOMAIN q], t>>]
  BY <1>1, <1>2, FoldsOneMore
<1>4. f[DOMAIN q] \in Seq(Glyph)
  BY <1>1
<1>5. GlueStep[<<f[DOMAIN q], t>>] = Glue(f[DOMAIN q], t)
  BY <1>4 DEF GlueStep
<1> QED BY <1>1, <1>2, <1>3, <1>4, <1>5

\* A text is not made shorter by one token more, and of what was there only a
\* placeholder changes.
LEMMA DecodeOneMore ==
    ASSUME NEW q \in Seq(Vocab), NEW t \in Vocab
    PROVE  /\ Decode(q) \in Seq(Chars)
           /\ Decode(Append(q, t)) \in Seq(Chars)
           /\ Len(Decode(Append(q, t))) >= Len(Decode(q))
           /\ \A i \in DOMAIN Decode(q) : Decode(q)[i] \in {Decode(Append(q, t))[i], "?"}
<1> DEFINE old == Glyphs(q)
           new == Glyphs(Append(q, t))
           Shown(g) == [i \in DOMAIN g |-> IF g[i] = "char" THEN "char" ELSE "?"]
<1>1. old \in Seq(Glyph) /\ new \in Seq(Glyph) /\ new = Glue(old, t)
  BY GlyphsOneMore, GlueMoves
<1>2. /\ Len(new) >= Len(old)
      /\ \A i \in DOMAIN old : new[i] = old[i] \/ (old[i] = "lead" /\ new[i] = "char")
  BY <1>1, GlueMoves
<1>3. Decode(q) = Shown(old) /\ Decode(Append(q, t)) = Shown(new)
  BY DEF Decode, Glyphs
<1> HIDE DEF old, new
<1>4. ASSUME NEW g \in Seq(Glyph)
      PROVE  Shown(g) \in Seq(Chars) /\ Len(Shown(g)) = Len(g) /\ DOMAIN Shown(g) = DOMAIN g
  <2>1. Len(g) \in Nat /\ DOMAIN g = 1 .. Len(g)
    OBVIOUS
  <2>2. Shown(g) \in [1 .. Len(g) -> Chars]
    BY <2>1 DEF Chars
  <2> HIDE DEF Shown
  <2>3. Shown(g) \in Seq(Chars)
    BY <2>1, <2>2, SeqDef
  <2> QED BY <2>1, <2>2, <2>3, LenProperties
<1>5. /\ Len(old) \in Nat /\ Len(new) \in Nat
      /\ DOMAIN old = 1 .. Len(old) /\ DOMAIN new = 1 .. Len(new)
  BY <1>1
<1>6. \A i \in DOMAIN old : i \in DOMAIN new
  BY <1>2, <1>5
<1>7. ASSUME NEW i \in DOMAIN old
      PROVE  Shown(old)[i] \in {Shown(new)[i], "?"}
  <2>1. new[i] = old[i] \/ old[i] = "lead"
    BY <1>2
  <2> QED BY <1>6, <2>1
<1> HIDE DEF Shown
<1>8. /\ Shown(old) \in Seq(Chars) /\ Len(Shown(old)) = Len(old) /\ DOMAIN Shown(old) = DOMAIN old
      /\ Shown(new) \in Seq(Chars) /\ Len(Shown(new)) = Len(new)
  BY <1>1, <1>4
<1> QED BY <1>2, <1>3, <1>7, <1>8

-----------------------------------------------------------------------------
(***************************************************************************)
(* The sampler.  A set of tokens weighs as much as it has units: this      *)
(* counts the sum of its weights without an order.                         *)
(***************************************************************************)

Weights == [Vocab -> 0 .. MaxWeight]

Units(w, S) == {u \in Vocab \X (1 .. MaxWeight) : u[1] \in S /\ u[2] <= w[u[1]]}

\* A token has as many units as it weighs, and none of another token.
LEMMA UnitsMove ==
    ASSUME NEW w \in Weights, NEW S \in SUBSET Vocab, NEW x \in S
    PROVE  /\ IsFiniteSet(Units(w, S)) /\ Cardinality(Units(w, S)) \in Nat
           /\ Cardinality(Units(w, S)) = w[x] + Cardinality(Units(w, S \ {x}))
<1>1. IsFiniteSet(Vocab) /\ MaxWeight \in Nat /\ x \in Vocab
  BY SamplerConstants
<1>2. w[x] \in 0 .. MaxWeight
  BY <1>1 DEF Weights
<1>3. IsFiniteSet(Vocab \X (1 .. MaxWeight))
  <2>1. IsFiniteSet(1 .. MaxWeight)
    BY <1>1, FS_Interval
  <2> QED BY <1>1, <2>1, FS_Product
<1>4. ASSUME NEW T PROVE IsFiniteSet(Units(w, T)) /\ Cardinality(Units(w, T)) \in Nat
  <2>1. Units(w, T) \in SUBSET (Vocab \X (1 .. MaxWeight))
    BY DEF Units
  <2>2. IsFiniteSet(Units(w, T))
    BY <1>3, <2>1, FS_Subset
  <2> QED BY <2>2, FS_CardinalityType
<1>5. Cardinality(Units(w, {x})) = w[x]
  <2> DEFINE f == [m \in 1 .. w[x] |-> <<x, m>>]
  <2>1. f \in [1 .. w[x] -> Units(w, {x})]
    <3>1. ASSUME NEW m \in 1 .. w[x] PROVE <<x, m>> \in Units(w, {x})
      <4>1. m \in 1 .. MaxWeight /\ m <= w[x]
        BY <1>1, <1>2
      <4> QED BY <1>1, <4>1 DEF Units
    <3> QED BY <3>1
  <2>2. IsInjective(f)
    BY DEF IsInjective
  <2>3. ASSUME NEW u \in Units(w, {x}) PROVE \E m \in 1 .. w[x] : f[m] = u
    <3>1. u \in Vocab \X (1 .. MaxWeight) /\ u[1] = x /\ u[2] <= w[x]
      BY DEF Units
    <3>2. u = <<x, u[2]>> /\ u[2] \in 1 .. w[x]
      BY <1>1, <1>2, <3>1
    <3> QED BY <3>2
  <2>4. f \in Bijection(1 .. w[x], Units(w, {x}))
    <3> HIDE DEF f
    <3> QED BY <2>1, <2>2, <2>3 DEF Bijection, Injection, Surjection
  <2>5. IsFiniteSet(1 .. w[x]) /\ Cardinality(1 .. w[x]) = w[x]
    <3>1. w[x] \in Int /\ 1 \in Int
      BY <1>2
    <3>2. IsFiniteSet(1 .. w[x]) /\ Cardinality(1 .. w[x]) = IF 1 > w[x] THEN 0 ELSE w[x] - 1 + 1
      BY <3>1, FS_Interval
    <3> QED BY <1>2, <3>2
  <2>6. ExistsBijection(1 .. w[x], Units(w, {x}))
    BY <2>4 DEF ExistsBijection
  <2> QED BY <2>5, <2>6, FS_Bijection
<1>6. /\ Units(w, S) = Units(w, {x}) \cup Units(w, S \ {x})
      /\ Units(w, {x}) \cap Units(w, S \ {x}) = {}
  BY DEF Units
<1>7. Cardinality(Units(w, S)) =
         Cardinality(Units(w, {x})) + Cardinality(Units(w, S \ {x})) - 0
  <2> DEFINE A == Units(w, {x})
             B == Units(w, S \ {x})
  <2>1. IsFiniteSet(A) /\ IsFiniteSet(B) /\ A \cap B = {} /\ Units(w, S) = A \cup B
    BY <1>4, <1>6
  <2> HIDE DEF A, B
  <2>2. Cardinality(A \cup B) = Cardinality(A) + Cardinality(B) - Cardinality(A \cap B)
    BY <2>1, FS_Union
  <2>3. Cardinality(A \cap B) = 0
    BY <2>1, FS_EmptySet
  <2>4. Cardinality(Units(w, S)) = Cardinality(A) + Cardinality(B) - 0
    BY <2>1, <2>2, <2>3
  <2> QED BY <2>4 DEF A, B
<1> QED BY <1>2, <1>4, <1>5, <1>7

\* The weight of a set, which Sampler sums in some order.
LEMMA WeightIs ==
    ASSUME NEW w \in Weights, NEW S \in SUBSET Vocab
    PROVE  Weight(w, S) = Cardinality(Units(w, S))
<1> DEFINE Body(g) == [s \in SUBSET S |->
                          IF s = {} THEN 0
                          ELSE w[CHOOSE x \in s : TRUE] + g[s \ {CHOOSE x \in s : TRUE}]]
           f == [s \in SUBSET S |-> Cardinality(Units(w, s))]
           g == CHOOSE g : g = Body(g)
<1>1. Weight(w, S) = g[S]
  BY DEF Weight, MapThenSumSet, MapThenFoldSet
<1>2. f = Body(f)
  <2>1. ASSUME NEW s \in SUBSET S PROVE f[s] = Body(f)[s]
    <3>1. CASE s = {}
      <4>1. Units(w, {}) = {}
        BY DEF Units
      <4> QED BY <3>1, <4>1, FS_EmptySet
    <3>2. CASE s # {}
      <4>1. PICK x \in s : x = CHOOSE y \in s : TRUE
        BY <3>2
      <4>2. Cardinality(Units(w, s)) = w[x] + Cardinality(Units(w, s \ {x}))
        BY UnitsMove
      <4> QED BY <3>2, <4>1, <4>2
    <3> QED BY <3>1, <3>2
  <2> QED BY <2>1
<1>3. g = Body(g)
  <2> HIDE DEF Body, f
  <2> QED BY <1>2
<1> HIDE DEF g
<1>4. ASSUME NEW s \in SUBSET S, s # {}
      PROVE  \E x \in s : /\ f[s] = w[x] + f[s \ {x}]
                          /\ g[s] = w[x] + g[s \ {x}]
  <2>1. PICK x \in s : x = CHOOSE y \in s : TRUE
    BY <1>4
  <2> QED BY <1>2, <1>3, <1>4, <2>1
<1>5. f[{}] = 0 /\ g[{}] = 0
  BY <1>2, <1>3
<1> DEFINE Bad == {s \in SUBSET S : g[s] # f[s]}
           Sizes == {Cardinality(s) : s \in Bad}
<1>6. \A s \in SUBSET S : IsFiniteSet(s) /\ Cardinality(s) \in Nat
  <2>1. ASSUME NEW s \in SUBSET S PROVE IsFiniteSet(s)
    BY SamplerConstants, FS_Subset
  <2> QED BY <2>1, FS_CardinalityType
<1> HIDE DEF f, Body
<1>7. Bad = {}
  <2> SUFFICES ASSUME Bad # {} PROVE FALSE
    OBVIOUS
  <2>1. Sizes \in SUBSET Nat /\ Sizes # {}
    BY <1>6
  <2>2. PICK n \in Sizes : \A m \in Sizes : n <= m
    BY <2>1, LeastExists
  <2>3. PICK s \in Bad : Cardinality(s) = n
    OBVIOUS
  <2>4. s # {}
    BY <1>5
  <2>5. PICK x \in s : f[s] = w[x] + f[s \ {x}] /\ g[s] = w[x] + g[s \ {x}]
    BY <1>4, <2>4
  <2>6. s \ {x} \in SUBSET S /\ g[s \ {x}] # f[s \ {x}]
    BY <2>5
  <2>7. Cardinality(s \ {x}) \in Sizes
    BY <2>6
  <2>8. Cardinality(s \ {x}) = n - 1 /\ n \in Nat
    BY <1>6, <2>3, FS_RemoveElement
  <2>9. n <= n - 1
    BY <2>2, <2>7, <2>8
  <2> QED BY <2>8, <2>9
<1>8. g[S] = f[S] /\ f[S] = Cardinality(Units(w, S))
  BY <1>7 DEF f
<1> QED BY <1>1, <1>8

\* More tokens do not weigh less.
LEMMA WeightGrows ==
    ASSUME NEW w \in Weights, NEW S \in SUBSET Vocab, NEW T \in SUBSET S
    PROVE  Weight(w, S) \in Nat /\ Weight(w, T) \in Nat /\ Weight(w, T) <= Weight(w, S)
<1>1. IsFiniteSet(Vocab \X (1 .. MaxWeight))
  <2>1. IsFiniteSet(1 .. MaxWeight)
    BY SamplerConstants, FS_Interval
  <2> QED BY <2>1, SamplerConstants, FS_Product
<1>2. Units(w, S) \in SUBSET (Vocab \X (1 .. MaxWeight)) /\ Units(w, T) \in SUBSET Units(w, S)
  BY DEF Units
<1>3. IsFiniteSet(Units(w, S))
  BY <1>1, <1>2, FS_Subset
<1>4. IsFiniteSet(Units(w, T)) /\ Cardinality(Units(w, T)) <= Cardinality(Units(w, S))
  BY <1>2, <1>3, FS_Subset
<1>5. T \in SUBSET Vocab
  OBVIOUS
<1> QED BY <1>3, <1>4, <1>5, WeightIs, FS_CardinalityType

\* There is a value the k-th heaviest token has, and it is what Sampler takes.
LEMMA KthValueIs ==
    ASSUME NEW w \in Weights, NEW k \in 1 .. VocabSize
    PROVE  LET v == KthValue(w, k)
           IN  /\ v \in Nat
               /\ Cardinality({t \in Vocab : w[t] > v}) < k
               /\ Cardinality({t \in Vocab : w[t] >= v}) >= k
<1> DEFINE Above(v) == {t \in Vocab : w[t] > v}
           From(v) == {t \in Vocab : w[t] >= v}
           Few == {v \in Nat : Cardinality(Above(v)) < k}
<1>1. IsFiniteSet(Vocab) /\ MaxWeight \in Nat /\ VocabSize \in Nat /\ k \in Nat /\ k >= 1
  <2>1. VocabSize \in Nat
    BY SamplerConstants, FS_CardinalityType DEF VocabSize
  <2> QED BY <2>1, SamplerConstants
<1>2. \A t \in Vocab : w[t] \in Nat /\ w[t] <= MaxWeight
  BY <1>1 DEF Weights
<1>3. \A v : /\ IsFiniteSet(Above(v)) /\ Cardinality(Above(v)) \in Nat
             /\ IsFiniteSet(From(v)) /\ Cardinality(From(v)) \in Nat
  <2>1. \A v : Above(v) \in SUBSET Vocab /\ From(v) \in SUBSET Vocab
    OBVIOUS
  <2> HIDE DEF Above, From
  <2>2. \A v : IsFiniteSet(Above(v)) /\ IsFiniteSet(From(v))
    BY <1>1, <2>1, FS_Subset
  <2> QED BY <2>2, FS_CardinalityType
<1>4. MaxWeight \in Few
  <2>1. Above(MaxWeight) = {}
    BY <1>1, <1>2
  <2>2. Cardinality(Above(MaxWeight)) = 0
    BY <2>1, FS_EmptySet
  <2> QED BY <1>1, <2>2
<1>5. PICK v \in Few : \A u \in Few : v <= u
  <2>1. Few \in SUBSET Nat /\ Few # {}
    BY <1>4
  <2> HIDE DEF Few
  <2> QED BY <2>1, LeastExists
<1>6. Cardinality(From(v)) >= k
  <2>1. CASE v = 0
    <3>1. From(v) = Vocab
      BY <1>2, <2>1
    <3> QED BY <1>1, <3>1 DEF VocabSize
  <2>2. CASE v # 0
    <3>1. v - 1 \in Nat /\ v \in Nat
      BY <2>2
    <3>2. From(v) = Above(v - 1)
      BY <1>2, <3>1
    <3>3. v - 1 \notin Few
      <4>1. ~(v <= v - 1)
        BY <3>1
      <4> QED BY <1>5, <4>1
    <3>4. ~(Cardinality(Above(v - 1)) < k)
      BY <3>1, <3>3
    <3> HIDE DEF Above, From
    <3> QED BY <1>1, <1>3, <3>2, <3>4
  <2> QED BY <2>1, <2>2
<1>7. Cardinality(Above(v)) < k /\ v \in Nat
  OBVIOUS
<1>8. v \in Range(w)
  <2>1. Cardinality(From(v)) # Cardinality(Above(v))
    <3> HIDE DEF Above, From
    <3> QED BY <1>1, <1>3, <1>6, <1>7
  <2>2. From(v) # Above(v)
    BY <2>1
  <2>3. PICK t \in Vocab : w[t] >= v /\ ~(w[t] > v)
    <3>1. \A t \in Vocab : w[t] > v => w[t] >= v
      BY <1>2, <1>7
    <3> SUFFICES ASSUME \A t \in Vocab : w[t] >= v => w[t] > v PROVE FALSE
      OBVIOUS
    <3>2. From(v) = Above(v)
      BY <3>1
    <3> QED BY <2>2, <3>2
  <2>4. w[t] = v
    BY <1>2, <1>7, <2>3
  <2> QED BY <2>3, <2>4 DEF Weights, Range
<1>9. \E u \in Range(w) : Cardinality(Above(u)) < k /\ Cardinality(From(u)) >= k
  BY <1>6, <1>7, <1>8
<1> DEFINE c == CHOOSE u \in Range(w) : Cardinality(Above(u)) < k /\ Cardinality(From(u)) >= k
<1>10. c \in Range(w) /\ Cardinality(Above(c)) < k /\ Cardinality(From(c)) >= k
  <2> HIDE DEF Above, From
  <2> QED BY <1>9
<1>11. KthValue(w, k) = c
  BY DEF KthValue
<1>12. c \in Nat
  <2> HIDE DEF c
  <2> QED BY <1>2, <1>10 DEF Range, Weights
<1> HIDE DEF c
<1> QED BY <1>10, <1>11, <1>12

\* The tokens w can be sorted into: a ranking of S is one of all its tokens,
\* the heaviest first.
Ranks(w, S, n, order) ==
    /\ order \in [1 .. n -> S]
    /\ \A i, j \in 1 .. n : order[i] = order[j] => i = j
    /\ \A t \in S : \E i \in 1 .. n : order[i] = t
    /\ \A i \in 1 .. n - 1 : w[order[i]] >= w[order[i + 1]]

\* A token that is not heavier than the others can go behind them.
LEMMA RankingOneMore ==
    ASSUME NEW w \in Weights, NEW S \in SUBSET Vocab, NEW x \in S, NEW n \in Nat, NEW o,
           Ranks(w, S \ {x}, n, o), \A t \in S : w[t] >= w[x]
    PROVE  \E order : Ranks(w, S, n + 1, order)
<1> DEFINE p == [i \in 1 .. n + 1 |-> IF i = n + 1 THEN x ELSE o[i]]
<1>1. o \in [1 .. n -> S \ {x}]
  BY DEF Ranks
<1>2. /\ \A i \in 1 .. n : p[i] = o[i] /\ p[i] \in S /\ p[i] # x
      /\ p[n + 1] = x
  <2>1. ASSUME NEW i \in 1 .. n PROVE p[i] = o[i] /\ o[i] \in S \ {x}
    BY <1>1
  <2> QED BY <2>1
<1>3. \A i \in 1 .. n + 1 : i \in 1 .. n \/ i = n + 1
  OBVIOUS
<1>4. p \in [1 .. n + 1 -> S]
  BY <1>2, <1>3
<1> HIDE DEF p
<1>5. ASSUME NEW i \in 1 .. n + 1, NEW j \in 1 .. n + 1, p[i] = p[j] PROVE i = j
  <2>1. CASE i \in 1 .. n /\ j \in 1 .. n
    BY <1>2, <1>5, <2>1 DEF Ranks
  <2> QED BY <1>2, <1>3, <1>5, <2>1
<1>6. ASSUME NEW t \in S PROVE \E i \in 1 .. n + 1 : p[i] = t
  <2>1. CASE t = x
    BY <1>2, <2>1
  <2>2. CASE t # x
    <3>1. PICK i \in 1 .. n : o[i] = t
      BY <2>2 DEF Ranks
    <3>2. i \in 1 .. n + 1
      OBVIOUS
    <3> QED BY <1>2, <3>1, <3>2
  <2> QED BY <2>1, <2>2
<1>7. ASSUME NEW i \in 1 .. n PROVE w[p[i]] >= w[p[i + 1]]
  <2>1. CASE i = n
    BY <1>2, <2>1
  <2>2. CASE i # n
    <3>1. i \in 1 .. n - 1 /\ i + 1 \in 1 .. n
      BY <2>2
    <3>2. w[o[i]] >= w[o[i + 1]]
      BY <3>1 DEF Ranks
    <3> QED BY <1>2, <3>1, <3>2
  <2> QED BY <2>1, <2>2
<1>8. n + 1 - 1 = n
  OBVIOUS
<1>9. Ranks(w, S, n + 1, p)
  BY <1>4, <1>5, <1>6, <1>7, <1>8 DEF Ranks
<1> QED BY <1>9

\* Every set of tokens can be ranked.
LEMMA RankingExists ==
    ASSUME NEW w \in Weights
    PROVE  Rankings(w) # {}
<1> DEFINE Unranked == {S \in SUBSET Vocab : ~\E order : Ranks(w, S, Cardinality(S), order)}
           Sizes == {Cardinality(S) : S \in Unranked}
<1>1. \A S \in SUBSET Vocab : IsFiniteSet(S) /\ Cardinality(S) \in Nat
  <2>1. ASSUME NEW S \in SUBSET Vocab PROVE IsFiniteSet(S)
    BY SamplerConstants, FS_Subset
  <2> QED BY <2>1, FS_CardinalityType
<1>2. Unranked = {}
  <2> SUFFICES ASSUME Unranked # {} PROVE FALSE
    OBVIOUS
  <2>1. Sizes \in SUBSET Nat /\ Sizes # {}
    BY <1>1
  <2>2. PICK n \in Sizes : \A m \in Sizes : n <= m
    <3> HIDE DEF Sizes
    <3> QED BY <2>1, LeastExists
  <2>3. PICK S \in Unranked : Cardinality(S) = n
    OBVIOUS
  <2>4. S # {}
    <3> SUFFICES ASSUME S = {} PROVE FALSE
      OBVIOUS
    <3>1. Cardinality({}) = 0
      BY FS_EmptySet
    <3>2. Ranks(w, {}, 0, [i \in {} |-> 0])
      <4>1. 1 .. 0 = {} /\ 1 .. 0 - 1 = {}
        OBVIOUS
      <4> QED BY <4>1 DEF Ranks
    <3> QED BY <3>1, <3>2
  <2>5. PICK x \in S : \A t \in S : w[t] >= w[x]
    <3> DEFINE V == {w[t] : t \in S}
    <3>1. \A t \in S : w[t] \in Nat
      BY SamplerConstants DEF Weights
    <3>2. V \in SUBSET Nat /\ V # {}
      BY <2>4, <3>1
    <3>3. PICK v \in V : \A u \in V : v <= u
      <4> HIDE DEF V
      <4> QED BY <3>2, LeastExists
    <3>4. PICK x \in S : w[x] = v
      OBVIOUS
    <3>5. \A t \in S : w[t] >= w[x]
      <4>1. \A t \in S : w[t] \in V
        OBVIOUS
      <4> HIDE DEF V
      <4> QED BY <3>1, <3>3, <3>4, <4>1
    <3> QED BY <3>5
  <2>6. S \ {x} \in SUBSET Vocab /\ Cardinality(S \ {x}) = n - 1 /\ n \in Nat /\ n # 0
    BY <1>1, <2>3, <2>4, FS_RemoveElement, FS_EmptySet
  <2>7. S \ {x} \notin Unranked
    <3>1. ~(n <= n - 1)
      BY <2>6
    <3> QED BY <2>2, <2>6, <3>1
  <2>8. PICK o : Ranks(w, S \ {x}, n - 1, o)
    BY <2>6, <2>7
  <2>9. n - 1 \in Nat /\ n - 1 + 1 = n
    BY <2>6
  <2>10. \E order : Ranks(w, S, n, order)
    BY <2>5, <2>8, <2>9, RankingOneMore
  <2> QED BY <2>3, <2>10
<1>3. PICK order : Ranks(w, Vocab, VocabSize, order)
  BY <1>2 DEF VocabSize
<1>4. order \in Rankings(w)
  BY <1>3 DEF Ranks, Rankings, Bijection, Injection, Surjection, IsInjective
<1> QED BY <1>4

\* In a ranking, what is earlier is as heavy, not only what is next to it.
LEMMA RankingSorts ==
    ASSUME NEW w \in Weights, NEW order \in Rankings(w)
    PROVE  /\ VocabSize \in Nat
           /\ order \in [1 .. VocabSize -> Vocab]
           /\ \A i, j \in 1 .. VocabSize : order[i] = order[j] => i = j
           /\ \A t \in Vocab : \E i \in 1 .. VocabSize : order[i] = t
           /\ \A i, j \in 1 .. VocabSize : i <= j => w[order[i]] >= w[order[j]]
<1>1. VocabSize \in Nat
  BY SamplerConstants, FS_CardinalityType DEF VocabSize
<1>2. /\ order \in [1 .. VocabSize -> Vocab]
      /\ \A i, j \in 1 .. VocabSize : order[i] = order[j] => i = j
      /\ \A t \in Vocab : \E i \in 1 .. VocabSize : order[i] = t
      /\ \A i \in 1 .. VocabSize - 1 : w[order[i]] >= w[order[i + 1]]
  BY DEF Rankings, Bijection, Injection, Surjection, IsInjective
<1>3. \A i \in 1 .. VocabSize : w[order[i]] \in Nat
  BY <1>2, SamplerConstants DEF Weights
<1>4. ASSUME NEW i \in 1 .. VocabSize PROVE \A j \in i .. VocabSize : w[order[i]] >= w[order[j]]
  <2> DEFINE Bad == {j \in i .. VocabSize : ~(w[order[i]] >= w[order[j]])}
  <2> SUFFICES ASSUME Bad # {} PROVE FALSE
    OBVIOUS
  <2>1. Bad \in SUBSET Nat
    BY <1>1
  <2>2. PICK j \in Bad : \A m \in Bad : j <= m
    <3> HIDE DEF Bad
    <3> QED BY <2>1, LeastExists
  <2>3. j \in i .. VocabSize /\ ~(w[order[i]] >= w[order[j]]) /\ j # i
    BY <1>1, <1>3
  <2>4. /\ j - 1 \in i .. VocabSize /\ j - 1 \in 1 .. VocabSize - 1 /\ j - 1 + 1 = j
        /\ ~(j <= j - 1)
    BY <1>1, <2>3
  <2>5. w[order[i]] >= w[order[j - 1]]
    BY <2>2, <2>4
  <2>6. w[order[j - 1]] >= w[order[j]]
    <3>1. w[order[j - 1]] >= w[order[j - 1 + 1]]
      BY <1>2, <2>4
    <3> QED BY <2>4, <3>1
  <2>7. /\ w[order[i]] \in Nat /\ w[order[j - 1]] \in Nat /\ w[order[j]] \in Nat
    <3>1. j \in 1 .. VocabSize /\ j - 1 \in 1 .. VocabSize
      BY <1>1, <2>3, <2>4
    <3> QED BY <1>3, <3>1
  <2> QED BY <2>3, <2>5, <2>6, <2>7
<1>5. ASSUME NEW i \in 1 .. VocabSize, NEW j \in 1 .. VocabSize, i <= j
      PROVE  w[order[i]] >= w[order[j]]
  <2>1. j \in i .. VocabSize
    BY <1>1, <1>5
  <2> QED BY <1>4, <2>1
<1> QED BY <1>1, <1>2, <1>5

\* top-k keeps the tokens that few enough others are heavier than.
LEMMA TopKKeeps ==
    ASSUME NEW w \in Weights, NEW k \in Int
    PROVE  /\ TopK(w, k) \in Weights
           /\ \A t \in Vocab : TopK(w, k)[t] = IF AmongK(w, k, t) THEN w[t] ELSE 0
<1>1. IsFiniteSet(Vocab) /\ MaxWeight \in Nat /\ VocabSize \in Nat
  BY SamplerConstants, FS_CardinalityType DEF VocabSize
<1>2. \A t \in Vocab : w[t] \in Nat /\ w[t] \in 0 .. MaxWeight
  BY <1>1 DEF Weights
<1>3. ASSUME NEW t \in Vocab
      PROVE  IsFiniteSet(Heavier(w, t)) /\ Cardinality(Heavier(w, t)) \in Nat
             /\ Cardinality(Heavier(w, t)) < VocabSize
  <2>1. Heavier(w, t) \in SUBSET (Vocab \ {t})
    BY <1>2 DEF Heavier
  <2>2. IsFiniteSet(Vocab \ {t}) /\ Cardinality(Vocab \ {t}) = VocabSize - 1
    BY <1>1, FS_RemoveElement DEF VocabSize
  <2>3. IsFiniteSet(Heavier(w, t)) /\ Cardinality(Heavier(w, t)) <= VocabSize - 1
    BY <2>1, <2>2, FS_Subset
  <2> QED BY <1>1, <2>3, FS_CardinalityType
<1>4. CASE 0 < k /\ k < VocabSize
  <2>1. k \in 1 .. VocabSize
    BY <1>1, <1>4
  <2>2. PICK v \in Nat : /\ v = KthValue(w, k)
                         /\ Cardinality({t \in Vocab : w[t] > v}) < k
                         /\ Cardinality({t \in Vocab : w[t] >= v}) >= k
    BY <2>1, KthValueIs
  <2> DEFINE above == {t \in Vocab : w[t] > v}
             from == {t \in Vocab : w[t] >= v}
  <2>3. /\ IsFiniteSet(above) /\ Cardinality(above) \in Nat
        /\ IsFiniteSet(from) /\ Cardinality(from) \in Nat
    <3>1. above \in SUBSET Vocab /\ from \in SUBSET Vocab
      OBVIOUS
    <3> HIDE DEF above, from
    <3>2. IsFiniteSet(above) /\ IsFiniteSet(from)
      BY <1>1, <3>1, FS_Subset
    <3> QED BY <3>2, FS_CardinalityType
  <2>4. ASSUME NEW t \in Vocab PROVE AmongK(w, k, t) <=> ~(w[t] < v)
    <3>1. ASSUME ~(w[t] < v) PROVE Cardinality(Heavier(w, t)) < k
      <4>1. Heavier(w, t) \in SUBSET above
        BY <1>2, <3>1 DEF Heavier
      <4> HIDE DEF above
      <4>2. Cardinality(Heavier(w, t)) <= Cardinality(above)
        BY <2>3, <4>1, FS_Subset
      <4> QED BY <1>3, <2>2, <2>3, <4>2 DEF above
    <3>2. ASSUME w[t] < v PROVE ~(Cardinality(Heavier(w, t)) < k)
      <4>1. from \in SUBSET Heavier(w, t)
        BY <1>2, <3>2 DEF Heavier
      <4>2. Cardinality(from) >= k
        BY <2>2
      <4> HIDE DEF from
      <4>3. Cardinality(from) <= Cardinality(Heavier(w, t))
        BY <1>3, <4>1, FS_Subset
      <4> QED BY <1>3, <2>3, <4>2, <4>3
    <3> QED BY <2>1, <3>1, <3>2 DEF AmongK
  <2>5. TopK(w, k) = [t \in Vocab |-> IF w[t] < v THEN 0 ELSE w[t]]
    BY <1>4, <2>2 DEF TopK
  <2>6. 0 \in 0 .. MaxWeight
    BY <1>1
  <2>7. TopK(w, k) \in Weights
    BY <1>2, <2>5, <2>6 DEF Weights
  <2> QED BY <2>4, <2>5, <2>7
<1>5. CASE ~(0 < k /\ k < VocabSize)
  <2>1. TopK(w, k) = w
    BY <1>5 DEF TopK
  <2>2. ASSUME NEW t \in Vocab PROVE AmongK(w, k, t)
    <3>1. k \in 1 .. VocabSize => k = VocabSize
      BY <1>1, <1>5
    <3> QED BY <1>3, <3>1 DEF AmongK
  <2> QED BY <2>1, <2>2
<1> QED BY <1>4, <1>5

\* The tokens before place i.
Before(order, i) == {order[j] : j \in 1 .. i - 1}

\* top-p keeps a token if those before it leave room, or if it is the second.
LEMMA TopPKeeps ==
    ASSUME NEW w \in Weights, NEW order \in Rankings(w), NEW p \in 1 .. Whole - 1,
           NEW i \in 1 .. VocabSize, w[order[i]] > 0
    PROVE  /\ order[i] \in Vocab
           /\ TopP(w, order, p)[order[i]] > 0 <=>
                 \/ i \in 1 .. 2
                 \/ ~(Weight(w, Before(order, i)) * Whole > p * Weight(w, Vocab))
<1>1. /\ VocabSize \in Nat
      /\ order \in [1 .. VocabSize -> Vocab]
      /\ \A m, j \in 1 .. VocabSize : order[m] = order[j] => m = j
  BY RankingSorts
<1>2. order[i] \in Vocab
  BY <1>1
<1> DEFINE over == OverTopP(w, order, p)
           dropped == {order[j] : j \in Drop(over)}
<1>3. TopP(w, order, p) = [t \in Vocab |-> IF t \in dropped THEN 0 ELSE w[t]]
  <2>1. 0 < p /\ p < Whole
    BY SamplerConstants
  <2> QED BY <2>1 DEF TopP
<1>4. \A j \in Drop(over) : j \in 1 .. VocabSize
  BY <1>1 DEF Drop
<1>5. order[i] \in dropped <=> i \in Drop(over)
  <2> HIDE DEF over
  <2> QED BY <1>1, <1>4
<1>6. i \in Drop(over) <=>
         /\ i \notin 1 .. 2
         /\ Weight(w, Before(order, i)) * Whole > p * Weight(w, Vocab)
  <2>1. i \in Drop(over) <=> i \in 2 .. VocabSize /\ i - 1 \in over
    BY DEF Drop
  <2>2. i - 1 \in over <=>
           /\ i - 1 \in 2 .. VocabSize
           /\ Weight(w, Before(order, i)) * Whole > p * Weight(w, Vocab)
    BY DEF OverTopP, Before
  <2>3. (i \in 2 .. VocabSize /\ i - 1 \in 2 .. VocabSize) <=> i \notin 1 .. 2
    BY <1>1
  <2> QED BY <2>1, <2>2, <2>3
<1> HIDE DEF over, dropped
<1>7. TopP(w, order, p)[order[i]] > 0 <=> order[i] \notin dropped
  BY <1>2, <1>3
<1> QED BY <1>2, <1>5, <1>6, <1>7

\* What weighs less leaves as much room.
LEMMA LessHasRoom ==
    ASSUME NEW w \in Weights, NEW S \in SUBSET Vocab, NEW T \in SUBSET S, NEW m \in Int,
           Weight(w, S) * Whole <= m
    PROVE  Weight(w, T) * Whole <= m
<1>1. PICK a \in Nat : a = Weight(w, T)
  BY WeightGrows
<1>2. PICK b \in Nat : b = Weight(w, S)
  BY WeightGrows
<1>3. a <= b
  BY <1>1, <1>2, WeightGrows
<1>4. Whole \in Nat
  BY SamplerConstants
<1>5. ASSUME NEW c \in Nat PROVE a * c <= b * c
  <2>1. PICK d \in Nat : b = a + d
    <3>1. b - a \in Nat /\ b = a + (b - a)
      BY <1>3
    <3> QED BY <3>1
  <2>2. b * c = a * c + d * c /\ d * c \in Nat /\ a * c \in Nat
    BY <2>1
  <2> QED BY <2>2
<1>6. a * Whole <= b * Whole /\ a * Whole \in Int /\ b * Whole \in Int
  BY <1>4, <1>5
<1>7. b * Whole <= m
  BY <1>2
<1>8. a * Whole <= m
  BY <1>6, <1>7
<1> QED BY <1>1, <1>8

\* What is drawn is among the k, and what is heavier leaves it room.
LEMMA DrawsAreKept ==
    ASSUME NEW w \in Weights, NEW k \in Int, NEW p \in Int, NEW t \in Draws(w, k, p)
    PROVE  /\ t \in Vocab /\ w[t] > 0 /\ AmongK(w, k, t)
           /\ Room(TopK(w, k), p, Heavier(w, t)) \/ Cardinality(Heavier(w, t)) = 1
<1> DEFINE kept == TopK(w, k)
<1>1. /\ kept \in Weights
      /\ \A u \in Vocab : kept[u] = IF AmongK(w, k, u) THEN w[u] ELSE 0
  BY TopKKeeps
<1> HIDE DEF kept
<1>2. \A u \in Vocab : w[u] \in Nat /\ kept[u] \in Nat
  BY <1>1, SamplerConstants DEF Weights
<1>3. PICK order \in Rankings(kept) : t \in Vocab /\ TopP(kept, order, p)[t] > 0
  BY DEF Draws, kept
<1>4. kept[t] > 0
  <2>1. CASE 0 < p /\ p < Whole
    <3> DEFINE dropped == {order[i] : i \in Drop(OverTopP(kept, order, p))}
    <3>1. TopP(kept, order, p) = [u \in Vocab |-> IF u \in dropped THEN 0 ELSE kept[u]]
      BY <2>1 DEF TopP
    <3> HIDE DEF dropped
    <3> QED BY <1>3, <3>1
  <2>2. CASE ~(0 < p /\ p < Whole)
    BY <1>3, <2>2 DEF TopP
  <2> QED BY <2>1, <2>2
<1>5. w[t] > 0 /\ AmongK(w, k, t) /\ kept[t] = w[t]
  BY <1>1, <1>3, <1>4
<1>6. \A u \in Heavier(w, t) : u \in Vocab /\ kept[u] > kept[t]
  <2> SUFFICES ASSUME NEW u \in Heavier(w, t) PROVE u \in Vocab /\ kept[u] > kept[t]
    OBVIOUS
  <2>1. u \in Vocab /\ w[u] > w[t]
    BY DEF Heavier
  <2>2. AmongK(w, k, u)
    <3>1. Heavier(w, u) \in SUBSET Heavier(w, t)
      BY <1>2, <1>3, <2>1 DEF Heavier
    <3>2. IsFiniteSet(Heavier(w, t)) /\ IsFiniteSet(Heavier(w, u))
      <4>1. Heavier(w, t) \in SUBSET Vocab /\ Heavier(w, u) \in SUBSET Vocab
        BY DEF Heavier
      <4> QED BY <4>1, SamplerConstants, FS_Subset
    <3>3. /\ Cardinality(Heavier(w, u)) <= Cardinality(Heavier(w, t))
          /\ Cardinality(Heavier(w, u)) \in Nat /\ Cardinality(Heavier(w, t)) \in Nat
      BY <3>1, <3>2, FS_Subset, FS_CardinalityType
    <3>4. VocabSize \in Nat
      BY SamplerConstants, FS_CardinalityType DEF VocabSize
    <3> QED BY <1>5, <3>3, <3>4 DEF AmongK
  <2> QED BY <1>1, <1>5, <2>1, <2>2
<1>7. ASSUME p \in 1 .. Whole - 1
      PROVE  Room(kept, p, Heavier(w, t)) \/ Cardinality(Heavier(w, t)) = 1
  <2>1. /\ VocabSize \in Nat
        /\ order \in [1 .. VocabSize -> Vocab]
        /\ \A u \in Vocab : \E i \in 1 .. VocabSize : order[i] = u
        /\ \A i, j \in 1 .. VocabSize : i <= j => kept[order[i]] >= kept[order[j]]
    BY <1>1, RankingSorts
  <2>2. PICK i \in 1 .. VocabSize : order[i] = t
    BY <1>3, <2>1
  <2>3. \/ i \in 1 .. 2
        \/ ~(Weight(kept, Before(order, i)) * Whole > p * Weight(kept, Vocab))
    BY <1>1, <1>3, <1>4, <1>7, <2>2, TopPKeeps
  <2>4. Heavier(w, t) \in SUBSET Before(order, i)
    <3> SUFFICES ASSUME NEW u \in Heavier(w, t) PROVE u \in Before(order, i)
      OBVIOUS
    <3>1. PICK j \in 1 .. VocabSize : order[j] = u
      BY <1>6, <2>1
    <3>2. ~(i <= j)
      <4>1. i <= j => kept[t] >= kept[u]
        BY <2>1, <2>2, <3>1
      <4>2. kept[u] > kept[t] /\ kept[u] \in Nat /\ kept[t] \in Nat
        BY <1>2, <1>3, <1>6
      <4> QED BY <4>1, <4>2
    <3>3. j \in 1 .. i - 1
      BY <2>1, <3>2
    <3> QED BY <3>1, <3>3 DEF Before
  <2>5. Before(order, i) \in SUBSET Vocab
    <3>1. \A j \in 1 .. i - 1 : j \in 1 .. VocabSize
      BY <2>1
    <3> QED BY <2>1, <3>1 DEF Before
  <2>6. Vocab \in SUBSET Vocab /\ p \in Nat /\ Weight(kept, Vocab) \in Nat
        /\ Weight(kept, Before(order, i)) \in Nat /\ Whole \in Nat
    BY <1>1, <1>7, <2>5, WeightGrows, SamplerConstants
  <2>7. PICK m \in Nat : m = p * Weight(kept, Vocab)
    BY <2>6
  <2>8. CASE Heavier(w, t) = {}
    <3>1. Weight(kept, {}) = 0
      <4>1. Units(kept, {}) = {} /\ {} \in SUBSET Vocab
        BY DEF Units
      <4> QED BY <1>1, <4>1, WeightIs, FS_EmptySet
    <3>2. 0 * Whole = 0
      BY <2>6
    <3>3. Weight(kept, {}) * Whole <= m
      BY <2>7, <3>1, <3>2
    <3> QED BY <2>7, <2>8, <3>3 DEF Room
  <2>9. CASE Heavier(w, t) # {} /\ i \in 1 .. 2
    <3>1. PICK u : u \in Heavier(w, t)
      BY <2>9
    <3>2. Before(order, i) \in SUBSET {order[1]}
      <4>1. \A j \in 1 .. i - 1 : j = 1
        BY <2>9
      <4> QED BY <4>1 DEF Before
    <3>3. Heavier(w, t) = {u}
      BY <2>4, <3>1, <3>2
    <3> QED BY <3>3, FS_Singleton
  <2>10. CASE i \notin 1 .. 2
    <3>1. ~(Weight(kept, Before(order, i)) * Whole > m)
      BY <2>3, <2>7, <2>10
    <3>2. Weight(kept, Before(order, i)) * Whole \in Nat
      BY <2>6
    <3>3. Weight(kept, Before(order, i)) * Whole <= m
      BY <2>7, <3>1, <3>2
    <3>4. Weight(kept, Heavier(w, t)) * Whole <= m
      BY <1>1, <2>4, <2>5, <2>7, <3>3, LessHasRoom
    <3> QED BY <2>7, <3>4 DEF Room
  <2> QED BY <2>8, <2>9, <2>10
<1>8. Room(kept, p, Heavier(w, t)) \/ Cardinality(Heavier(w, t)) = 1
  BY <1>7 DEF Room
<1> QED BY <1>3, <1>5, <1>8 DEF kept

\* What is among the k and has room can be drawn.
LEMMA KeptAreDrawn ==
    ASSUME NEW w \in Weights, NEW k \in Int, NEW p \in Int, NEW t \in Vocab,
           w[t] > 0, AmongK(w, k, t), Room(TopK(w, k), p, Rivals(w, t))
    PROVE  t \in Draws(w, k, p)
<1> DEFINE kept == TopK(w, k)
<1>1. /\ kept \in Weights
      /\ \A u \in Vocab : kept[u] = IF AmongK(w, k, u) THEN w[u] ELSE 0
  BY TopKKeeps
<1> HIDE DEF kept
<1>2. \A u \in Vocab : w[u] \in Nat /\ kept[u] \in Nat
  BY <1>1, SamplerConstants DEF Weights
<1>3. kept[t] = w[t] /\ kept[t] > 0
  BY <1>1
<1>4. PICK order \in Rankings(kept) : TRUE
  BY <1>1, RankingExists
<1>5. TopP(kept, order, p)[t] > 0
  <2>1. CASE p \notin 1 .. Whole - 1
    <3>1. ~(0 < p /\ p < Whole)
      BY <2>1, SamplerConstants
    <3> QED BY <1>3, <3>1 DEF TopP
  <2>2. CASE p \in 1 .. Whole - 1
    <3>1. /\ VocabSize \in Nat
          /\ order \in [1 .. VocabSize -> Vocab]
          /\ \A i, j \in 1 .. VocabSize : order[i] = order[j] => i = j
          /\ \A u \in Vocab : \E i \in 1 .. VocabSize : order[i] = u
          /\ \A i, j \in 1 .. VocabSize : i <= j => kept[order[i]] >= kept[order[j]]
      BY <1>1, RankingSorts
    <3>2. PICK i \in 1 .. VocabSize : order[i] = t
      BY <3>1
    <3>3. Before(order, i) \in SUBSET Rivals(w, t)
      <4> SUFFICES ASSUME NEW j \in 1 .. i - 1 PROVE order[j] \in Rivals(w, t)
        BY DEF Before
      <4>1. j \in 1 .. VocabSize /\ j <= i /\ j # i
        BY <3>1
      <4>2. order[j] \in Vocab \ {t} /\ kept[order[j]] >= kept[t]
        BY <3>1, <3>2, <4>1
      <4>3. kept[order[j]] = w[order[j]]
        BY <1>1, <1>2, <1>3, <4>2
      <4> QED BY <1>3, <4>2, <4>3 DEF Rivals
    <3>4. PICK m \in Nat : m = p * Weight(kept, Vocab)
      <4>1. Vocab \in SUBSET Vocab /\ p \in Nat
        BY <2>2
      <4>2. Weight(kept, Vocab) \in Nat
        BY <1>1, <4>1, WeightGrows
      <4> QED BY <4>1, <4>2
    <3>5. Rivals(w, t) \in SUBSET Vocab
      BY DEF Rivals
    <3>6. Weight(kept, Rivals(w, t)) * Whole <= m
      BY <2>2, <3>4 DEF Room, kept
    <3>7. Weight(kept, Before(order, i)) * Whole <= m
      BY <1>1, <3>3, <3>4, <3>5, <3>6, LessHasRoom
    <3>8. Weight(kept, Before(order, i)) * Whole \in Nat
      <4>1. Weight(kept, Before(order, i)) \in Nat /\ Whole \in Nat
        BY <1>1, <3>3, <3>5, WeightGrows, SamplerConstants
      <4> QED BY <4>1
    <3>9. ~(Weight(kept, Before(order, i)) * Whole > p * Weight(kept, Vocab))
      BY <3>4, <3>7, <3>8
    <3> QED BY <1>1, <1>3, <2>2, <3>2, <3>9, TopPKeeps
  <2> QED BY <2>1, <2>2
<1> QED BY <1>5 DEF Draws, kept

-----------------------------------------------------------------------------
(***************************************************************************)
(* The request.                                                            *)
(***************************************************************************)

Items == [tokens : Seq(Vocab), text : Seq(Chars), finished : BOOLEAN,
          reason : {"none", "length", "stop", "abort"}]

EventSet == [type : {"request", "step"}, item : Nat]

GenerationTypeOK ==
    /\ params \in SamplingParams
    /\ prompt \in Prompts
    /\ output \in Seq(Vocab)
    /\ row \in Rows \cup {NoRow}
    /\ prevTextLen \in Nat
    /\ stream \in Seq(Items)
    /\ known \in BOOLEAN
    /\ events \in Seq(EventSet)
    /\ alive \in BOOLEAN

Aborted(q) == \E i \in DOMAIN q : q[i].reason = "abort"

\* A step is under way only while the loop runs, on a row the network may
\* compute, and for a request that is known or was aborted; one that is known
\* has been sent an item for each token.
StepOK ==
    /\ row # NoRow => alive /\ row \in Logits(params) /\ (known \/ Aborted(stream))
    /\ known => ~Aborted(stream) /\ Len(output) = Len(stream)
    /\ ~Made => output = <<>>

GenerationInv == GenerationTypeOK /\ StepOK

\* Whatever the sampler draws is a token.
LEMMA DrawnTyped ==
    ASSUME NEW t \in Drawn
    PROVE  t \in Vocab /\ row # NoRow
<1>1. CASE row = NoRow
  BY <1>1 DEF Drawn
<1>2. CASE row # NoRow /\ params.greedy
  BY <1>2 DEF Drawn, Greedy
<1>3. CASE row # NoRow /\ ~params.greedy
  <2>1. t \in Draws(row, params.topK, params.topP)
    BY <1>3 DEF Drawn
  <2> QED BY <1>3, <2>1 DEF Draws
<1> QED BY <1>1, <1>2, <1>3

\* What a step gives the request, and the stream.
LEMMA FinishTyped ==
    ASSUME GenerationTypeOK, NEW t \in Vocab, FinishStep(t)
    PROVE  /\ prompt \o output \in Seq(Vocab)
           /\ Append(output, t) \in Seq(Vocab)
           /\ prompt \o Append(output, t) = Append(prompt \o output, t)
           /\ Decode(prompt \o Append(output, t)) \in Seq(Chars)
           /\ \E item \in Items :
                 /\ item.tokens = <<t>>
                 /\ item.text = NewText(Decode(prompt \o Append(output, t)))
                 /\ item.finished = (TooLong(Append(output, t)) \/ Stops(t) \/ ~known)
                 /\ item.reason = IF TooLong(Append(output, t)) THEN "length"
                                  ELSE IF Stops(t) THEN "stop"
                                  ELSE IF known THEN "none" ELSE "abort"
                 /\ stream' = Append(stream, item)
<1> DEFINE text == Decode(prompt \o Append(output, t))
           done == (TooLong(Append(output, t)) \/ Stops(t)) \/ ~known
           why == IF TooLong(Append(output, t)) THEN "length"
                  ELSE IF TooLong(Append(output, t)) \/ Stops(t) THEN "stop"
                  ELSE IF known THEN "none" ELSE "abort"
           item == StreamItem(<<t>>, NewText(text), done, why)
<1>1. prompt \in Seq(Vocab) /\ output \in Seq(Vocab) /\ known \in BOOLEAN
  BY GenerationConstants DEF GenerationTypeOK
<1>2. /\ prompt \o output \in Seq(Vocab)
      /\ Append(output, t) \in Seq(Vocab)
  BY <1>1
<1>3. prompt \o Append(output, t) = Append(prompt \o output, t)
  <2>1. /\ Len(prompt) \in Nat /\ Len(output) \in Nat
        /\ Len(prompt \o Append(output, t)) = Len(prompt) + Len(output) + 1
        /\ Len(Append(prompt \o output, t)) = Len(prompt) + Len(output) + 1
        /\ prompt \o Append(output, t) \in Seq(Vocab)
        /\ Append(prompt \o output, t) \in Seq(Vocab)
    BY <1>1, <1>2
  <2>2. \A i \in 1 .. Len(prompt) + Len(output) + 1 :
           (prompt \o Append(output, t))[i] = Append(prompt \o output, t)[i]
    BY <1>1, <1>2
  <2> QED BY <2>1, <2>2, SeqEqual
<1>4. text \in Seq(Chars)
  BY <1>2, <1>3, DecodeOneMore
<1>5. stream' = Append(stream, item)
  BY DEF FinishStep
<1>6. NewText(text) \in Seq(Chars)
  <2>1. prevTextLen \in Nat /\ Len(text) \in Nat
    BY <1>4 DEF GenerationTypeOK
  <2> HIDE DEF text
  <2> QED BY <1>4, <2>1 DEF NewText
<1> HIDE DEF text
<1>7. done \in BOOLEAN
  OBVIOUS
<1>8. why \in {"none", "length", "stop", "abort"}
  OBVIOUS
<1>9. <<t>> \in Seq(Vocab)
  OBVIOUS
<1>10. /\ item.tokens = <<t>> /\ item.text = NewText(text)
       /\ item.finished = done /\ item.reason = why
  BY DEF StreamItem
<1>11. why = IF TooLong(Append(output, t)) THEN "length"
             ELSE IF Stops(t) THEN "stop"
             ELSE IF known THEN "none" ELSE "abort"
  OBVIOUS
<1> HIDE DEF done, why
<1>12. item \in Items
  BY <1>6, <1>7, <1>8, <1>9 DEF StreamItem, Items
<1>13. done = (TooLong(Append(output, t)) \/ Stops(t) \/ ~known)
  BY DEF done
<1> HIDE DEF item
<1> QED BY <1>2, <1>3, <1>4, <1>5, <1>10, <1>11, <1>12, <1>13 DEF text

\* Appending keeps what is there.
LEMMA AbortedStays ==
    ASSUME NEW q \in Seq(Items), NEW item \in Items
    PROVE  Aborted(Append(q, item)) <=> (Aborted(q) \/ item.reason = "abort")
<1> DEFINE p == Append(q, item)
<1>1. /\ Len(q) \in Nat /\ DOMAIN q = 1 .. Len(q) /\ DOMAIN p = 1 .. Len(q) + 1
      /\ \A i \in 1 .. Len(q) : p[i] = q[i]
      /\ p[Len(q) + 1] = item
  OBVIOUS
<1> HIDE DEF p
<1>2. ASSUME NEW i \in DOMAIN p, p[i].reason = "abort"
      PROVE  Aborted(q) \/ item.reason = "abort"
  <2>1. i \in 1 .. Len(q) \/ i = Len(q) + 1
    BY <1>1
  <2> QED BY <1>1, <1>2, <2>1 DEF Aborted
<1>3. ASSUME NEW i \in DOMAIN q, q[i].reason = "abort"
      PROVE  Aborted(p)
  <2>1. i \in DOMAIN p /\ p[i] = q[i]
    BY <1>1
  <2> QED BY <1>3, <2>1 DEF Aborted
<1>4. Len(q) + 1 \in DOMAIN p
  BY <1>1
<1>5. item.reason = "abort" => Aborted(p)
  BY <1>1, <1>4 DEF Aborted
<1> QED BY <1>2, <1>3, <1>5 DEF Aborted, p

AbortItem == StreamItem(<<>>, <<>>, TRUE, "abort")

\* What abort puts on the output queue.
LEMMA AbortItemTyped == AbortItem \in Items /\ AbortItem.reason = "abort"
<1>1. <<>> \in Seq(Vocab) /\ <<>> \in Seq(Chars)
  OBVIOUS
<1> QED BY <1>1 DEF AbortItem, StreamItem, Items

\* A request that was not made has no step and no answer.
LEMMA GenerationInitInv == GenerationInit => GenerationInv
<1> SUFFICES ASSUME GenerationInit PROVE GenerationInv
  OBVIOUS
<1>1. GenerationTypeOK
  <2>1. <<>> \in Seq(Vocab) /\ <<>> \in Seq(Items) /\ <<>> \in Seq(EventSet)
    OBVIOUS
  <2> QED BY <2>1 DEF GenerationInit, GenerationTypeOK
<1>2. StepOK
  BY DEF GenerationInit, StepOK, Aborted, Made
<1> QED BY <1>1, <1>2 DEF GenerationInv

\* Every step keeps the types, and a step under way its request.
LEMMA GenerationStepInv ==
    ASSUME GenerationInv, [GenerationNext]_generationVars
    PROVE  GenerationInv'
<1> USE DEF GenerationInv
<1>1. CASE AddRequest
  <2>1. Append(events, Event("request", 0)) \in Seq(EventSet)
    BY DEF GenerationTypeOK, Event, EventSet
  <2>2. GenerationTypeOK'
    BY <1>1, <2>1 DEF GenerationTypeOK, AddRequest
  <2>3. stream = <<>> /\ ~known /\ output = <<>> /\ Len(<<>>) = 0
    BY <1>1 DEF AddRequest, Made, StepOK
  <2>4. StepOK'
    BY <1>1, <2>3 DEF StepOK, AddRequest, Aborted, Made
  <2> QED BY <2>2, <2>4
<1>2. CASE StartStep
  <2>1. row' \in Rows
    BY <1>2, GenerationConstants DEF StartStep, GenerationTypeOK
  <2>2. GenerationTypeOK'
    BY <1>2, <2>1 DEF StartStep, GenerationTypeOK
  <2>3. StepOK'
    BY <1>2 DEF StartStep, StepOK, Aborted, Made
  <2> QED BY <2>2, <2>3
<1>3. CASE Abort
  <2>1. stream' = Append(stream, AbortItem)
    BY <1>3 DEF Abort, AbortItem
  <2>2. stream \in Seq(Items)
    BY DEF GenerationTypeOK
  <2>3. stream' \in Seq(Items) /\ Aborted(stream')
    BY <2>1, <2>2, AbortItemTyped, AbortedStays
  <2>4. GenerationTypeOK'
    BY <1>3, <2>3 DEF Abort, GenerationTypeOK
  <2>5. StepOK'
    <3>1. stream' # <<>>
      BY <2>1, <2>2
    <3> QED BY <1>3, <2>3, <3>1 DEF Abort, StepOK, Aborted, Made
  <2> QED BY <2>4, <2>5
<1>4. CASE LoopEnds
  <2>1. GenerationTypeOK'
    BY <1>4 DEF LoopEnds, GenerationTypeOK
  <2>2. StepOK'
    BY <1>4 DEF LoopEnds, StepOK, Aborted, Made
  <2> QED BY <2>1, <2>2
<1>5. ASSUME NEW t \in Drawn, FinishStep(t) PROVE GenerationInv'
  <2>0. t \in Vocab
    BY DrawnTyped
  <2>1. PICK item \in Items :
           /\ item.reason = IF TooLong(Append(output, t)) THEN "length"
                            ELSE IF Stops(t) THEN "stop"
                            ELSE IF known THEN "none" ELSE "abort"
           /\ stream' = Append(stream, item)
    BY <1>5, <2>0, FinishTyped
  <2>2. /\ stream \in Seq(Items) /\ stream' \in Seq(Items)
        /\ Append(output, t) \in Seq(Vocab)
        /\ Decode(prompt \o Append(output, t)) \in Seq(Chars)
    BY <1>5, <2>0, <2>1, FinishTyped DEF GenerationTypeOK
  <2>3. prevTextLen' \in Nat
    <3>1. Len(Decode(prompt \o Append(output, t))) \in Nat
      BY <2>2
    <3> QED BY <1>5, <3>1 DEF FinishStep, NewTextLen
  <2>4. Append(events, Event("step", Len(stream) + 1)) \in Seq(EventSet)
    <3>1. Event("step", Len(stream) + 1) \in EventSet
      BY <2>2 DEF Event, EventSet
    <3> QED BY <3>1 DEF GenerationTypeOK
  <2>5. GenerationTypeOK'
    <3>1. /\ output' = Append(output, t) /\ row' = NoRow /\ known' \in BOOLEAN
          /\ events' = Append(events, Event("step", Len(stream) + 1))
          /\ UNCHANGED <<params, prompt, alive>>
      BY <1>5 DEF FinishStep
    <3> QED BY <2>2, <2>3, <2>4, <3>1 DEF GenerationTypeOK
  <2>6. StepOK'
    <3>1. row' = NoRow
      BY <1>5 DEF FinishStep
    <3>2. known' => known
      BY <1>5 DEF FinishStep
    <3>3. known' => ~Aborted(stream')
      <4>1. ASSUME known PROVE ~Aborted(stream')
        <5>1. item.reason # "abort" /\ ~Aborted(stream)
          BY <2>1, <4>1 DEF StepOK
        <5> QED BY <2>1, <2>2, <5>1, AbortedStays
      <4> QED BY <3>2, <4>1
    <3>4. known => Len(output') = Len(stream')
      <4>1. known => Len(output) = Len(stream)
        BY DEF StepOK
      <4>2. Len(stream') = Len(stream) + 1
        BY <2>1, <2>2
      <4>3. output' = Append(output, t) /\ output \in Seq(Vocab)
        BY <1>5 DEF FinishStep, GenerationTypeOK
      <4>4. Len(output') = Len(output) + 1
        BY <2>0, <4>3
      <4> QED BY <4>1, <4>2, <4>4
    <3>5. stream' # <<>>
      BY <2>1, <2>2
    <3> QED BY <3>1, <3>2, <3>3, <3>4, <3>5 DEF StepOK, Aborted, Made
  <2> QED BY <2>5, <2>6
<1>6. CASE UNCHANGED generationVars
  BY <1>6 DEF generationVars, GenerationTypeOK, StepOK, Aborted, Made
<1> QED BY <1>1, <1>2, <1>3, <1>4, <1>5, <1>6 DEF GenerationNext

\* The state of a request has the types its actions assume, and a step that
\* is under way is for a request that is known or was aborted.
THEOREM GenerationInvariant == GenerationSpec => []GenerationInv
<1>1. GenerationInit => GenerationInv
  BY GenerationInitInv
<1>2. GenerationInv /\ [GenerationNext]_generationVars => GenerationInv'
  BY GenerationStepInv
<1> QED BY <1>1, <1>2, PTL DEF GenerationSpec

\* One token heavier than t is the heaviest.
LEMMA OneHeavier ==
    ASSUME NEW w \in Weights, NEW t \in Vocab, Cardinality(Heavier(w, t)) = 1
    PROVE  \E u \in Greedy(w) : Heavier(w, t) = {u}
<1>1. \A u \in Vocab : w[u] \in Nat
  BY SamplerConstants DEF Weights
<1>2. IsFiniteSet(Heavier(w, t))
  <2>1. Heavier(w, t) \in SUBSET Vocab
    BY DEF Heavier
  <2> QED BY <2>1, SamplerConstants, FS_Subset
<1>3. PICK u : Heavier(w, t) = {u}
  BY <1>2, FS_Singleton
<1>4. u \in Vocab /\ w[u] > w[t]
  BY <1>3 DEF Heavier
<1>5. Heavier(w, u) = {}
  <2> SUFFICES ASSUME NEW v \in Heavier(w, u) PROVE FALSE
    OBVIOUS
  <2>1. v \in Vocab /\ w[v] > w[u]
    BY DEF Heavier
  <2>2. v \in Heavier(w, t)
    BY <1>1, <1>4, <2>1 DEF Heavier
  <2>3. v = u
    BY <1>3, <2>2
  <2> QED BY <1>1, <1>4, <2>1, <2>3
<1> QED BY <1>3, <1>4, <1>5 DEF Greedy

\* Whatever the row, top_k and top_p: all of the nucleus can be drawn, and
\* only the k heaviest are; where the heaviest token leaves room for a second,
\* so does all that is heavier than what is drawn.
THEOREM SamplerKeepsTheNucleus == GenerationSpec => []NucleusIsDrawn
<1>1. GenerationInv => NucleusIsDrawn
  <2> SUFFICES ASSUME GenerationInv, Sampling, NEW t \in Vocab
               PROVE  /\ (/\ row[t] > 0
                          /\ AmongK(row, params.topK, t)
                          /\ Room(KeptByK, params.topP, Rivals(row, t))) => t \in Drawn
                      /\ t \in Drawn => row[t] > 0 /\ AmongK(row, params.topK, t)
                      /\ (/\ t \in Drawn
                          /\ \A u \in Greedy(row) : Room(KeptByK, params.topP, {u})) =>
                             Room(KeptByK, params.topP, Heavier(row, t))
    BY DEF NucleusIsDrawn
  <2>1. row \in Weights
    BY DEF GenerationInv, GenerationTypeOK, Rows, Weights, Sampling
  <2>2. params.topK \in Int /\ params.topP \in Int
    <3>1. params \in SamplingParams
      BY DEF GenerationInv, GenerationTypeOK
    <3> QED BY <3>1, GenerationConstants
  <2>3. Drawn = Draws(row, params.topK, params.topP)
    BY DEF Drawn, Sampling
  <2>4. (/\ row[t] > 0
         /\ AmongK(row, params.topK, t)
         /\ Room(KeptByK, params.topP, Rivals(row, t))) => t \in Drawn
    BY <2>1, <2>2, <2>3, KeptAreDrawn DEF KeptByK
  <2>5. t \in Drawn =>
          /\ row[t] > 0 /\ AmongK(row, params.topK, t)
          /\ \/ Room(KeptByK, params.topP, Heavier(row, t))
             \/ Cardinality(Heavier(row, t)) = 1
    BY <2>1, <2>2, <2>3, DrawsAreKept DEF KeptByK
  <2>6. ASSUME Cardinality(Heavier(row, t)) = 1,
               \A u \in Greedy(row) : Room(KeptByK, params.topP, {u})
        PROVE  Room(KeptByK, params.topP, Heavier(row, t))
    <3>1. PICK u \in Greedy(row) : Heavier(row, t) = {u}
      BY <2>1, <2>6, OneHeavier
    <3> QED BY <2>6, <3>1
  <2> QED BY <2>4, <2>5, <2>6
<1> QED BY <1>1, GenerationInvariant, PTL

-----------------------------------------------------------------------------
(* What a reader is offered. *)

OfferedOf(q) ==
    LET aborts == {i \in DOMAIN q : q[i].reason = "abort"}
    IN  IF aborts = {} THEN q ELSE SubSeq(q, 1, Min(aborts))

\* The items up to the first that says the request was aborted.
LEMMA OfferedEnds ==
    ASSUME NEW q \in Seq(Items), NEW item \in Items
    PROVE  /\ ~Aborted(q) => OfferedOf(q) = q /\ OfferedOf(Append(q, item)) = Append(q, item)
           /\ Aborted(q) => OfferedOf(Append(q, item)) = OfferedOf(q)
<1> DEFINE p == Append(q, item)
           A(r) == {i \in DOMAIN r : r[i].reason = "abort"}
<1>1. /\ p \in Seq(Items) /\ Len(q) \in Nat /\ Len(p) = Len(q) + 1
      /\ DOMAIN q = 1 .. Len(q) /\ DOMAIN p = 1 .. Len(q) + 1
      /\ \A i \in 1 .. Len(q) : p[i] = q[i]
      /\ p[Len(q) + 1] = item
  OBVIOUS
<1>2. OfferedOf(q) = IF A(q) = {} THEN q ELSE SubSeq(q, 1, Min(A(q)))
  BY DEF OfferedOf
<1>3. OfferedOf(p) = IF A(p) = {} THEN p ELSE SubSeq(p, 1, Min(A(p)))
  BY DEF OfferedOf
<1> HIDE DEF p
<1>4. A(q) \in SUBSET Nat /\ A(p) \in SUBSET Nat /\ A(q) \subseteq A(p)
      /\ \A i \in A(p) : i \in A(q) \/ i = Len(q) + 1
  BY <1>1
<1>5. ASSUME ~Aborted(q)
      PROVE  OfferedOf(q) = q /\ OfferedOf(p) = p
  <2>1. A(q) = {}
    BY <1>5 DEF Aborted
  <2>2. CASE A(p) = {}
    BY <1>2, <1>3, <2>1, <2>2
  <2>3. CASE A(p) # {}
    <3>1. Len(q) + 1 \in A(p) /\ \A i \in A(p) : Len(q) + 1 <= i
      BY <1>1, <1>4, <2>1, <2>3
    <3>2. Min(A(p)) = Len(q) + 1
      BY <1>4, <3>1, MinIsLeast
    <3>3. SubSeq(p, 1, Len(p)) = p
      BY <1>1
    <3> QED BY <1>1, <1>2, <1>3, <2>1, <2>3, <3>2, <3>3
  <2> QED BY <2>2, <2>3
<1>6. ASSUME Aborted(q)
      PROVE  OfferedOf(p) = OfferedOf(q)
  <2>1. A(q) # {} /\ A(p) # {}
    BY <1>4, <1>6 DEF Aborted
  <2>2. PICK m \in A(q) : \A y \in A(q) : m <= y
    <3> HIDE DEF A
    <3> QED BY <1>4, <2>1, LeastExists
  <2>3. m \in 1 .. Len(q) /\ m \in A(p) /\ \A y \in A(p) : m <= y
    <3>1. m \in 1 .. Len(q) /\ m \in A(p)
      BY <1>1, <1>4
    <3> QED BY <1>1, <1>4, <2>2, <3>1
  <2>4. Min(A(q)) = m /\ Min(A(p)) = m
    BY <1>4, <2>2, <2>3, MinIsLeast
  <2>5. SubSeq(p, 1, m) = SubSeq(q, 1, m)
    BY <1>1, <2>3
  <2> QED BY <1>2, <1>3, <2>1, <2>4, <2>5
<1> QED BY <1>5, <1>6 DEF p

\* What an item is to the specification of an engine.
LifeItem(item) ==
    [tokens |-> item.tokens, finished |-> item.finished, reason |-> item.reason]

Seen(q) == [i \in DOMAIN q |-> LifeItem(q[i])]

\* What Lifecycle sees of the stream grows by what it sees of the item.
LEMMA SeenGrows ==
    ASSUME NEW q \in Seq(Items), NEW item \in Items
    PROVE  /\ Len(Seen(q)) = Len(q)
           /\ Seen(Append(q, item)) = Append(Seen(q), LifeItem(item))
<1> DEFINE p == Append(q, item)
           n == Len(q)
           S == {LifeItem(x) : x \in Items}
<1>1. /\ p \in Seq(Items) /\ n \in Nat
      /\ DOMAIN q = 1 .. n /\ DOMAIN p = 1 .. n + 1
      /\ \A i \in 1 .. n : p[i] = q[i] /\ q[i] \in Items
      /\ p[n + 1] = item
  OBVIOUS
<1> HIDE DEF p, n
<1>2. Seen(q) \in Seq(S) /\ Len(Seen(q)) = n
  <2>1. Seen(q) \in [1 .. n -> S]
    BY <1>1 DEF Seen
  <2> QED BY <1>1, <2>1, SeqDef, LenProperties
<1>3. Seen(p) \in Seq(S) /\ Len(Seen(p)) = n + 1
  <2>1. \A i \in 1 .. n + 1 : p[i] \in Items
    BY <1>1
  <2>2. Seen(p) \in [1 .. n + 1 -> S]
    BY <1>1, <2>1 DEF Seen
  <2>3. n + 1 \in Nat
    BY <1>1
  <2> QED BY <2>2, <2>3, SeqDef, LenProperties
<1>4. LifeItem(item) \in S
  OBVIOUS
<1> HIDE DEF S
<1>5. /\ Append(Seen(q), LifeItem(item)) \in Seq(S)
      /\ Len(Append(Seen(q), LifeItem(item))) = n + 1
      /\ \A i \in 1 .. n : Append(Seen(q), LifeItem(item))[i] = Seen(q)[i]
      /\ Append(Seen(q), LifeItem(item))[n + 1] = LifeItem(item)
  BY <1>1, <1>2, <1>4
<1>6. ASSUME NEW i \in 1 .. n + 1
      PROVE  Seen(p)[i] = Append(Seen(q), LifeItem(item))[i]
  <2>1. Seen(p)[i] = LifeItem(p[i])
    BY <1>1 DEF Seen
  <2>2. CASE i \in 1 .. n
    BY <1>1, <1>5, <2>1, <2>2 DEF Seen
  <2>3. CASE i = n + 1
    BY <1>1, <1>5, <2>1, <2>3
  <2>4. i \in 1 .. n \/ i = n + 1
    BY <1>1
  <2> QED BY <2>2, <2>3, <2>4
<1>7. Seen(p) = Append(Seen(q), LifeItem(item))
  BY <1>1, <1>3, <1>5, <1>6, SeqEqual
<1> QED BY <1>2, <1>7 DEF p, n

\* max_tokens, max_model_len and the prompt's length make one limit.
LEMMA LimitIsTooLong ==
    ASSUME GenerationTypeOK
    PROVE  /\ AnswerLimit \in 1 .. MaxModelLen
           /\ \A answer \in Seq(Vocab) :
                 Len(answer) >= 1 => (TooLong(answer) <=> Len(answer) >= AnswerLimit)
<1> DEFINE n == params.maxTokens
           m == Max({1, n})
           room == MaxModelLen - Len(prompt)
<1>1. /\ n \in Int /\ MaxModelLen \in Nat /\ Len(prompt) \in Nat
      /\ Len(prompt) < MaxModelLen
  <2>1. /\ params \in [maxTokens : Int, ignoreEos : BOOLEAN, stopIds : SUBSET Vocab,
                       greedy : BOOLEAN, topK : Int, topP : Int]
        /\ prompt \in Seq(Vocab) /\ Len(prompt) < MaxModelLen
    BY GenerationConstants DEF GenerationTypeOK
  <2> QED BY <2>1, GenerationConstants
<1>2. m = IF 1 >= n THEN 1 ELSE n
  BY <1>1, MaxOfTwo
<1>3. AnswerLimit = Min({m, room})
  BY DEF AnswerLimit
<1>4. \A answer : TooLong(answer) <=> Len(answer) >= n \/ Len(prompt) + Len(answer) >= MaxModelLen
  BY DEF TooLong
<1>5. room \in Nat /\ room >= 1 /\ room <= MaxModelLen
  BY <1>1
<1> HIDE DEF n, m
<1>6. m \in Nat /\ m >= 1
  BY <1>1, <1>2
<1>7. AnswerLimit = IF m <= room THEN m ELSE room
  <2>1. {m, room} \in SUBSET Nat
    BY <1>5, <1>6
  <2>2. CASE m <= room
    <3>1. \A y \in {m, room} : m <= y
      BY <1>5, <1>6, <2>2
    <3> QED BY <1>3, <2>1, <2>2, <3>1, MinIsLeast
  <2>3. CASE room < m
    <3>1. \A y \in {m, room} : room <= y
      BY <1>5, <1>6, <2>3
    <3>2. Min({m, room}) = room
      BY <2>1, <3>1, MinIsLeast
    <3> QED BY <1>3, <1>5, <1>6, <2>3, <3>2
  <2> QED BY <1>5, <1>6, <2>2, <2>3
<1>8. AnswerLimit \in 1 .. MaxModelLen
  BY <1>1, <1>5, <1>6, <1>7
<1>9. ASSUME NEW answer \in Seq(Vocab), Len(answer) >= 1
      PROVE  TooLong(answer) <=> Len(answer) >= AnswerLimit
  <2>1. PICK l \in Nat : l = Len(answer)
    OBVIOUS
  <2>2. TooLong(answer) <=> l >= n \/ Len(prompt) + l >= MaxModelLen
    BY <1>4, <2>1
  <2> QED BY <1>1, <1>2, <1>7, <1>9, <2>1, <2>2
<1> QED BY <1>8, <1>9

\* Of a stream without items nothing is seen.
LEMMA NothingSeen == Seen(OfferedOf(<<>>)) = <<>>
<1>1. OfferedOf(<<>>) = <<>>
  BY DEF OfferedOf
<1>2. DOMAIN <<>> = 1 .. 0 /\ 1 .. 0 = {}
  OBVIOUS
<1>3. Seen(<<>>) \in [1 .. 0 -> Items]
  BY <1>2 DEF Seen
<1>4. Seen(<<>>) \in Seq(Items) /\ Len(Seen(<<>>)) = 0
  BY <1>3, SeqDef, LenProperties
<1>5. Seen(<<>>) = <<>>
  BY <1>4, EmptySeq
<1> QED BY <1>1, <1>5

\* What Lifecycle sees depends on little.
LEMMA LifeIs ==
    /\ LifeStream = [r \in {"r"} |-> Seen(OfferedOf(stream))]
    /\ LifeStream' = [r \in {"r"} |-> Seen(OfferedOf(stream'))]
    /\ LifeKnown' = IF known' THEN {"r"} ELSE {}
    /\ UNCHANGED <<params, prompt>> => UNCHANGED <<LifeLimit, LifeStops>>
<1>1. Offered = OfferedOf(stream) /\ Offered' = OfferedOf(stream')
  BY DEF Offered, OfferedOf
<1>2. ASSUME UNCHANGED <<params, prompt>> PROVE UNCHANGED <<LifeLimit, LifeStops>>
  BY <1>2 DEF LifeLimit, LifeStops, AnswerLimit
<1> QED BY <1>1, <1>2 DEF LifeStream, LifeKnown, Seen, LifeItem

\* A request that is not made is idle in Lifecycle.
LEMMA GenerationInitMaps ==
    ASSUME GenerationInit
    PROVE  Life!LifeInit
<1>1. GenerationTypeOK /\ stream = <<>> /\ known = FALSE /\ alive = TRUE
  BY GenerationInitInv DEF GenerationInv, GenerationInit
<1>2. LifeLimit \in [{"r"} -> 1 .. MaxModelLen]
  BY <1>1, LimitIsTooLong DEF LifeLimit
<1>3. LifeStops \in [{"r"} -> SUBSET Vocab]
  <2>1. params.stopIds \in SUBSET Vocab
    <3>1. params \in [maxTokens : Int, ignoreEos : BOOLEAN, stopIds : SUBSET Vocab,
                      greedy : BOOLEAN, topK : Int, topP : Int]
      BY <1>1, GenerationConstants DEF GenerationTypeOK
    <3> QED BY <3>1
  <2> QED BY <2>1, GenerationConstants DEF LifeStops
<1>4. LifeStream = [r \in {"r"} |-> <<>>]
  BY <1>1, NothingSeen, LifeIs
<1> QED BY <1>1, <1>2, <1>3, <1>4 DEF Life!LifeInit, LifeKnown

\* What Lifecycle does not see.
LEMMA GenerationStutters ==
    ASSUME UNCHANGED <<params, prompt, known, alive>>, OfferedOf(stream') = OfferedOf(stream)
    PROVE  UNCHANGED Life!lifeVars
BY LifeIs DEF Life!lifeVars, LifeKnown

\* An abort is one of Lifecycle.
LEMMA AbortMaps ==
    ASSUME GenerationInv, Abort
    PROVE  Life!AbortRequest("r")
<1> USE DEF GenerationInv
<1>1. /\ known /\ ~known' /\ stream' = Append(stream, AbortItem)
      /\ UNCHANGED <<params, prompt, alive>>
  BY DEF Abort, AbortItem
<1>2. stream \in Seq(Items) /\ ~Aborted(stream)
  BY <1>1 DEF GenerationTypeOK, StepOK
<1>3. /\ OfferedOf(stream) = stream
      /\ OfferedOf(stream') = Append(stream, AbortItem)
  BY <1>1, <1>2, OfferedEnds, AbortItemTyped
<1>4. Seen(OfferedOf(stream')) = Append(Seen(OfferedOf(stream)), LifeItem(AbortItem))
  BY <1>2, <1>3, SeenGrows, AbortItemTyped
<1>5. LifeItem(AbortItem) = Life!AbortItem
  BY DEF LifeItem, AbortItem, StreamItem, Life!AbortItem, Life!StreamItem
<1>6. LifeStream' = [LifeStream EXCEPT !["r"] = Append(@, Life!AbortItem)]
  BY <1>4, <1>5, LifeIs
<1>7. LifeKnown = {"r"} /\ LifeKnown' = {}
  BY <1>1, LifeIs DEF LifeKnown
<1>8. UNCHANGED <<LifeLimit, LifeStops, alive>>
  BY <1>1, LifeIs
<1> HIDE DEF GenerationInv
<1> QED BY <1>6, <1>7, <1>8 DEF Life!AbortRequest

\* The item of a step is the one Lifecycle asks for.
LEMMA FinishMaps ==
    ASSUME GenerationInv, NEW t \in Drawn, FinishStep(t)
    PROVE  Life!LifeNext \/ UNCHANGED Life!lifeVars
<1> USE DEF GenerationInv
<1>0. t \in Vocab /\ row # NoRow
  BY DrawnTyped
<1>1. PICK item \in Items :
         /\ item.tokens = <<t>>
         /\ item.finished = (TooLong(Append(output, t)) \/ Stops(t) \/ ~known)
         /\ item.reason = IF TooLong(Append(output, t)) THEN "length"
                          ELSE IF Stops(t) THEN "stop"
                          ELSE IF known THEN "none" ELSE "abort"
         /\ stream' = Append(stream, item)
  BY <1>0, FinishTyped
<1>2. /\ alive /\ UNCHANGED <<params, prompt, alive>>
      /\ known' = ~(TooLong(Append(output, t)) \/ Stops(t) \/ ~known)
      /\ stream \in Seq(Items)
  BY <1>0 DEF FinishStep, StepOK, GenerationTypeOK
<1>3. CASE ~known
  <2>1. Aborted(stream) /\ known' = known
    BY <1>0, <1>2, <1>3 DEF StepOK, GenerationTypeOK
  <2>2. OfferedOf(stream') = OfferedOf(stream)
    BY <1>1, <1>2, <2>1, OfferedEnds
  <2> QED BY <1>2, <2>1, <2>2, GenerationStutters
<1>4. CASE known
  <2> DEFINE token == [r \in {"r"} |-> t]
  <2>1. ~Aborted(stream)
    BY <1>4 DEF StepOK
  <2>2. OfferedOf(stream) = stream /\ OfferedOf(stream') = Append(stream, item)
    BY <1>1, <1>2, <2>1, OfferedEnds
  <2>3. /\ Seen(OfferedOf(stream')) = Append(Seen(OfferedOf(stream)), LifeItem(item))
        /\ Len(Seen(OfferedOf(stream))) = Len(stream)
    BY <1>2, <2>2, SeenGrows
  <2>4. /\ LifeStream["r"] = Seen(OfferedOf(stream))
        /\ LifeLimit["r"] = AnswerLimit
        /\ t \in LifeStops["r"] <=> Stops(t)
    BY LifeIs DEF LifeLimit, LifeStops, Stops
  <2>5. Len(stream) + 1 >= AnswerLimit <=> TooLong(Append(output, t))
    <3>1. Len(output) = Len(stream)
      BY <1>4 DEF StepOK
    <3>2. Append(output, t) \in Seq(Vocab) /\ Len(Append(output, t)) = Len(output) + 1
          /\ Len(output) \in Nat
      BY <1>0 DEF GenerationTypeOK
    <3>3. Len(Append(output, t)) >= 1
      BY <3>2
    <3> QED BY <3>1, <3>2, <3>3, LimitIsTooLong
  <2>6. Life!NextItem("r", t) = LifeItem(item)
    <3>1. LifeItem(item) =
             Life!StreamItem(<<t>>, TooLong(Append(output, t)) \/ Stops(t),
                             IF TooLong(Append(output, t)) THEN "length"
                             ELSE IF Stops(t) THEN "stop" ELSE "none")
      BY <1>1, <1>4 DEF LifeItem, Life!StreamItem
    <3>2. (Len(LifeStream["r"]) + 1 >= LifeLimit["r"]) <=> TooLong(Append(output, t))
      BY <2>3, <2>4, <2>5
    <3> QED BY <2>4, <3>1, <3>2 DEF Life!NextItem
  <2>7. LifeStream' = [r \in {"r"} |-> IF r \in {"r"}
                                       THEN Append(LifeStream[r], Life!NextItem(r, token[r]))
                                       ELSE LifeStream[r]]
    BY <2>3, <2>4, <2>6, LifeIs
  <2>8. LifeKnown' = {r \in LifeKnown : r \in {"r"} => ~Life!NextItem(r, token[r]).finished}
    <3>1. LifeKnown = {"r"} /\ (known' <=> ~LifeItem(item).finished)
      BY <1>1, <1>2, <1>4 DEF LifeKnown, LifeItem
    <3> QED BY <2>6, <3>1, LifeIs
  <2>9. token \in [{"r"} -> Vocab] /\ {"r"} \in SUBSET LifeKnown
    BY <1>0, <1>4 DEF LifeKnown
  <2>10. UNCHANGED <<LifeLimit, LifeStops, alive>> /\ alive
    BY <1>2, LifeIs
  <2> HIDE DEF token, GenerationInv
  <2>11. Life!Serve({"r"}, token)
    BY <2>7, <2>8, <2>9, <2>10 DEF Life!Serve
  <2> QED BY <2>9, <2>11 DEF Life!LifeNext
<1> QED BY <1>3, <1>4 DEF GenerationTypeOK

\* Every step is one of Lifecycle, or none.
LEMMA GenerationMaps ==
    ASSUME GenerationInv, [GenerationNext]_generationVars
    PROVE  [Life!LifeNext]_(Life!lifeVars)
<1>1. CASE AddRequest
  <2>1. /\ ~known /\ known' /\ stream = <<>> /\ UNCHANGED <<params, prompt, stream, alive>>
    BY <1>1 DEF AddRequest, Made
  <2>2. LifeStream' = LifeStream /\ LifeStream["r"] = <<>>
    BY <2>1, NothingSeen, LifeIs
  <2>3. LifeKnown = {} /\ LifeKnown' = {"r"}
    BY <2>1, LifeIs DEF LifeKnown
  <2>4. UNCHANGED <<LifeLimit, LifeStops, alive>>
    BY <2>1, LifeIs
  <2>5. Life!Submit("r")
    BY <2>2, <2>3, <2>4 DEF Life!Submit, Life!Made
  <2> QED BY <2>5 DEF Life!LifeNext
<1>2. CASE StartStep
  BY <1>2, GenerationStutters DEF StartStep
<1>3. CASE Abort
  BY <1>3, AbortMaps DEF Life!LifeNext
<1>4. CASE LoopEnds
  <2>1. alive /\ ~alive' /\ alive' = FALSE /\ UNCHANGED <<params, prompt, known, stream>>
    BY <1>4 DEF LoopEnds
  <2>2. UNCHANGED <<LifeLimit, LifeStops, LifeStream, LifeKnown>>
    BY <2>1, LifeIs DEF LifeKnown
  <2> QED BY <2>1, <2>2 DEF Life!LifeNext, Life!LoopEnds
<1>5. ASSUME NEW t \in Drawn, FinishStep(t) PROVE [Life!LifeNext]_(Life!lifeVars)
  BY <1>5, FinishMaps
<1>6. CASE UNCHANGED generationVars
  BY <1>6, GenerationStutters DEF generationVars
<1> QED BY <1>1, <1>2, <1>3, <1>4, <1>5, <1>6 DEF GenerationNext

\* A request is answered as Lifecycle says, whatever it asked for: each step
\* gives it one token, the limit is the smaller of max_tokens and the room in
\* the model's length, a stop token ends it, and an abort ends it once.
THEOREM GenerationImplementsLifecycle == GenerationSpec => ParamsImplementLifecycle
<1>1. GenerationInv /\ [GenerationNext]_generationVars => [Life!LifeNext]_(Life!lifeVars)
  BY GenerationMaps
<1>2. GenerationInit => Life!LifeInit
  BY GenerationInitMaps
<1> QED BY <1>1, <1>2, GenerationInvariant, PTL
     DEF GenerationSpec, ParamsImplementLifecycle, Life!LifeSpec

-----------------------------------------------------------------------------
(* The text a reader is sent. *)

Mapped(g, q) == [i \in DOMAIN q |-> g[q[i]]]

Maps(g, A, B) == g \in [A -> B]

\* A sequence that is mapped element by element grows with the sequence.
LEMMA MappedGrows ==
    ASSUME NEW A, NEW B, NEW g, Maps(g, A, B), NEW q \in Seq(A), NEW x \in A
    PROVE  /\ Mapped(g, q) \in Seq(B)
           /\ Mapped(g, Append(q, x)) = Append(Mapped(g, q), g[x])
<1> USE DEF Maps
<1> DEFINE p == Append(q, x)
           n == Len(q)
<1>1. /\ p \in Seq(A) /\ n \in Nat /\ n + 1 \in Nat
      /\ DOMAIN q = 1 .. n /\ DOMAIN p = 1 .. n + 1
      /\ \A i \in 1 .. n : p[i] = q[i] /\ q[i] \in A
      /\ p[n + 1] = x
      /\ \A i \in 1 .. n + 1 : p[i] \in A
  OBVIOUS
<1> HIDE DEF p, n
<1>2. Mapped(g, q) \in Seq(B) /\ Len(Mapped(g, q)) = n
  <2>1. Mapped(g, q) \in [1 .. n -> B]
    BY <1>1 DEF Mapped
  <2> QED BY <1>1, <2>1, SeqDef, LenProperties
<1>3. Mapped(g, p) \in Seq(B) /\ Len(Mapped(g, p)) = n + 1
  <2>1. Mapped(g, p) \in [1 .. n + 1 -> B]
    BY <1>1 DEF Mapped
  <2> QED BY <1>1, <2>1, SeqDef, LenProperties
<1>4. g[x] \in B
  OBVIOUS
<1>5. /\ Append(Mapped(g, q), g[x]) \in Seq(B)
      /\ Len(Append(Mapped(g, q), g[x])) = n + 1
      /\ \A i \in 1 .. n : Append(Mapped(g, q), g[x])[i] = Mapped(g, q)[i]
      /\ Append(Mapped(g, q), g[x])[n + 1] = g[x]
  BY <1>1, <1>2, <1>4
<1>6. ASSUME NEW i \in 1 .. n + 1
      PROVE  Mapped(g, p)[i] = Append(Mapped(g, q), g[x])[i]
  <2>1. Mapped(g, p)[i] = g[p[i]]
    BY <1>1 DEF Mapped
  <2>2. CASE i \in 1 .. n
    BY <1>1, <1>5, <2>1, <2>2 DEF Mapped
  <2>3. CASE i = n + 1
    BY <1>1, <1>5, <2>1, <2>3
  <2>4. i \in 1 .. n \/ i = n + 1
    BY <1>1
  <2> QED BY <2>2, <2>3, <2>4
<1>7. Mapped(g, p) = Append(Mapped(g, q), g[x])
  BY <1>1, <1>3, <1>5, <1>6, SeqEqual
<1> QED BY <1>2, <1>7 DEF p

Given(q) == FlattenSeq([i \in DOMAIN q |-> q[i].tokens])

Said(q) == FlattenSeq([i \in DOMAIN q |-> q[i].text])

HasToken(q) == \E i \in DOMAIN q : q[i].tokens # <<>>

\* One item more says its tokens and its text.
LEMMA SaidGrows ==
    ASSUME NEW q \in Seq(Items), NEW item \in Items
    PROVE  /\ Given(q) \in Seq(Vocab) /\ Said(q) \in Seq(Chars)
           /\ Given(Append(q, item)) = Given(q) \o item.tokens
           /\ Said(Append(q, item)) = Said(q) \o item.text
           /\ HasToken(Append(q, item)) <=> (HasToken(q) \/ item.tokens # <<>>)
<1> DEFINE p == Append(q, item)
           T == [x \in Items |-> x.tokens]
           W == [x \in Items |-> x.text]
<1>1. /\ p \in Seq(Items) /\ Len(q) \in Nat
      /\ DOMAIN q = 1 .. Len(q) /\ DOMAIN p = 1 .. Len(q) + 1
      /\ \A i \in 1 .. Len(q) : p[i] = q[i]
      /\ p[Len(q) + 1] = item
  OBVIOUS
<1>2. \A x \in Items : x.tokens \in Seq(Vocab) /\ x.text \in Seq(Chars)
  BY DEF Items
<1>3. T \in [Items -> Seq(Vocab)] /\ W \in [Items -> Seq(Chars)]
  BY <1>2
<1>4. ASSUME NEW r \in Seq(Items)
      PROVE  Given(r) = FlattenSeq(Mapped(T, r)) /\ Said(r) = FlattenSeq(Mapped(W, r))
  <2>1. \A i \in DOMAIN r : r[i] \in Items
    OBVIOUS
  <2>2. [i \in DOMAIN r |-> r[i].tokens] = Mapped(T, r)
    BY <2>1 DEF Mapped
  <2>3. [i \in DOMAIN r |-> r[i].text] = Mapped(W, r)
    BY <2>1 DEF Mapped
  <2> QED BY <2>2, <2>3 DEF Given, Said
<1>5. T[item] = item.tokens /\ W[item] = item.text
  OBVIOUS
<1> HIDE DEF T, W, p
<1>6. /\ Mapped(T, q) \in Seq(Seq(Vocab))
      /\ Mapped(T, p) = Append(Mapped(T, q), T[item])
  <2>1. /\ Mapped(T, q) \in Seq(Seq(Vocab))
        /\ Mapped(T, Append(q, item)) = Append(Mapped(T, q), T[item])
    <3>1. Maps(T, Items, Seq(Vocab))
      BY <1>3 DEF Maps
    <3> QED BY <3>1, MappedGrows
  <2> QED BY <2>1 DEF p
<1>7. /\ Mapped(W, q) \in Seq(Seq(Chars))
      /\ Mapped(W, p) = Append(Mapped(W, q), W[item])
  <2>1. /\ Mapped(W, q) \in Seq(Seq(Chars))
        /\ Mapped(W, Append(q, item)) = Append(Mapped(W, q), W[item])
    <3>1. Maps(W, Items, Seq(Chars))
      BY <1>3 DEF Maps
    <3> QED BY <3>1, MappedGrows
  <2> QED BY <2>1 DEF p
<1>8. /\ FlattenSeq(Mapped(T, q)) \in Seq(Vocab)
      /\ FlattenSeq(Mapped(T, p)) = FlattenSeq(Mapped(T, q)) \o T[item]
  <2>1. T[item] \in Seq(Vocab)
    BY <1>3
  <2> QED BY <1>6, <2>1, FlattenAppend
<1>9. /\ FlattenSeq(Mapped(W, q)) \in Seq(Chars)
      /\ FlattenSeq(Mapped(W, p)) = FlattenSeq(Mapped(W, q)) \o W[item]
  <2>1. W[item] \in Seq(Chars)
    BY <1>3
  <2> QED BY <1>7, <2>1, FlattenAppend
<1>10. HasToken(p) <=> (HasToken(q) \/ item.tokens # <<>>)
  <2>1. ASSUME NEW i \in DOMAIN p, p[i].tokens # <<>>
        PROVE  HasToken(q) \/ item.tokens # <<>>
    <3>1. i \in 1 .. Len(q) \/ i = Len(q) + 1
      BY <1>1
    <3> QED BY <1>1, <2>1, <3>1 DEF HasToken
  <2>2. ASSUME NEW i \in DOMAIN q, q[i].tokens # <<>> PROVE HasToken(p)
    <3>1. i \in DOMAIN p /\ p[i] = q[i]
      BY <1>1
    <3> QED BY <2>2, <3>1 DEF HasToken
  <2>3. Len(q) + 1 \in DOMAIN p
    BY <1>1
  <2>4. item.tokens # <<>> => HasToken(p)
    BY <1>1, <2>3 DEF HasToken
  <2> QED BY <2>1, <2>2, <2>4 DEF HasToken
<1> QED BY <1>1, <1>4, <1>5, <1>8, <1>9, <1>10 DEF p

\* Nothing is said before the first item.
LEMMA SaidNothing == Given(<<>>) = <<>> /\ Said(<<>>) = <<>> /\ ~HasToken(<<>>)
<1>1. Given(<<>>) = FlattenSeq(Mapped(<<>>, <<>>)) /\ Said(<<>>) = FlattenSeq(Mapped(<<>>, <<>>))
  <2>1. /\ [i \in DOMAIN <<>> |-> <<>>[i].tokens] = Mapped(<<>>, <<>>)
        /\ [i \in DOMAIN <<>> |-> <<>>[i].text] = Mapped(<<>>, <<>>)
    BY DEF Mapped
  <2> QED BY <2>1 DEF Given, Said
<1>2. Mapped(<<>>, <<>>) \in [1 .. 0 -> Items]
  <2>1. DOMAIN <<>> = 1 .. 0 /\ 1 .. 0 = {}
    OBVIOUS
  <2> QED BY <2>1 DEF Mapped
<1>3. Mapped(<<>>, <<>>) \in Seq(Items) /\ Len(Mapped(<<>>, <<>>)) = 0
  BY <1>2, SeqDef, LenProperties
<1>4. Mapped(<<>>, <<>>) = <<>>
  BY <1>3, EmptySeq
<1>5. FlattenSeq(<<>>) = <<>>
  BY DEF FlattenSeq
<1> QED BY <1>1, <1>4, <1>5 DEF HasToken

\* sent is the text of the prompt and the tokens ids, but for placeholders.
Matches(sent, ids) ==
    LET text == Decode(prompt \o ids)
    IN  /\ Len(sent) = Len(text)
        /\ \A i \in DOMAIN text : sent[i] \in {text[i], "?"}

\* The property, for the items that are offered; and for a request that is
\* known, that they are all there is and _prev_text_len their length.
TextOK ==
    /\ HasToken(OfferedOf(stream)) => Matches(Said(OfferedOf(stream)), Given(OfferedOf(stream)))
    /\ ~HasToken(OfferedOf(stream)) => Said(OfferedOf(stream)) = <<>>
    /\ known => Given(stream) = output /\ Len(Said(stream)) = prevTextLen
    /\ known /\ ~HasToken(stream) => output = <<>> /\ prevTextLen = 0

\* A token's item sends what is new of the text.
LEMMA FinishText ==
    ASSUME GenerationInv, TextOK, known, NEW t \in Drawn, FinishStep(t)
    PROVE  TextOK'
<1> USE DEF GenerationInv
<1> DEFINE old == Decode(prompt \o output)
           text == Decode(prompt \o Append(output, t))
<1>0. /\ t \in Vocab /\ output \in Seq(Vocab) /\ stream \in Seq(Items) /\ ~Aborted(stream)
      /\ prevTextLen \in Nat
  BY DrawnTyped DEF GenerationTypeOK, StepOK
<1>1. PICK item \in Items :
         /\ item.tokens = <<t>>
         /\ item.text = NewText(text)
         /\ stream' = Append(stream, item)
  BY <1>0, FinishTyped
<1>2. /\ old \in Seq(Chars) /\ text \in Seq(Chars) /\ Len(text) >= Len(old)
      /\ \A i \in DOMAIN old : old[i] \in {text[i], "?"}
  <2>1. /\ prompt \o output \in Seq(Vocab)
        /\ prompt \o Append(output, t) = Append(prompt \o output, t)
    BY <1>0, FinishTyped
  <2> QED BY <1>0, <2>1, DecodeOneMore
<1>3. /\ output' = Append(output, t) /\ prompt' = prompt
      /\ known' => prevTextLen' = Len(text)
  BY DEF FinishStep, NewTextLen
<1>4. OfferedOf(stream) = stream /\ OfferedOf(stream') = stream'
  BY <1>0, <1>1, OfferedEnds
<1> DEFINE before == Said(stream)
           after == Said(stream')
<1>5. /\ Given(stream) = output /\ Len(before) = prevTextLen
      /\ before \in Seq(Chars)
      /\ Given(stream') = output \o <<t>>
      /\ after = before \o NewText(text)
      /\ HasToken(stream')
  <2>1. <<t>> # <<>>
    OBVIOUS
  <2>2. Given(stream) = output /\ Len(before) = prevTextLen
    BY DEF TextOK
  <2>3. /\ before \in Seq(Chars)
        /\ Given(stream') = Given(stream) \o item.tokens
        /\ after = before \o item.text
        /\ HasToken(stream') <=> (HasToken(stream) \/ item.tokens # <<>>)
    BY <1>0, <1>1, SaidGrows
  <2> QED BY <1>1, <2>1, <2>2, <2>3
<1>6. Append(output, t) = output \o <<t>>
  BY <1>0, AppendIsConcat
<1> HIDE DEF GenerationInv, old, text, before, after
<1>7. /\ Len(old) \in Nat /\ Len(text) \in Nat
      /\ DOMAIN old = 1 .. Len(old) /\ DOMAIN text = 1 .. Len(text)
      /\ DOMAIN before = 1 .. prevTextLen
  BY <1>2, <1>5
<1>8. prevTextLen <= Len(text) /\ \A i \in 1 .. prevTextLen : before[i] \in {text[i], "?"}
  <2>1. CASE HasToken(stream)
    <3>1. /\ Len(before) = Len(old)
          /\ \A i \in DOMAIN old : before[i] \in {old[i], "?"}
      BY <1>4, <1>5, <2>1 DEF TextOK, Matches, old, before
    <3> QED BY <1>2, <1>5, <1>7, <3>1
  <2>2. CASE ~HasToken(stream)
    <3>1. prevTextLen = 0
      BY <2>2 DEF TextOK
    <3> QED BY <1>7, <3>1
  <2> QED BY <2>1, <2>2
<1>9. /\ NewText(text) \in Seq(Chars)
      /\ Len(NewText(text)) = Len(text) - prevTextLen
      /\ \A i \in 1 .. Len(text) - prevTextLen : NewText(text)[i] = text[prevTextLen + i]
  <2> DEFINE a == prevTextLen + 1
             b == Len(text)
  <2>1. a \in Int /\ b \in Int /\ \A i \in a .. b : text[i] \in Chars
    <3>1. \A i \in a .. b : i \in DOMAIN text
      BY <1>0, <1>7
    <3> QED BY <1>0, <1>2, <1>7, <3>1
  <2> HIDE DEF a, b
  <2>2. /\ SubSeq(text, a, b) \in Seq(Chars)
        /\ Len(SubSeq(text, a, b)) = IF a <= b THEN b - a + 1 ELSE 0
        /\ \A i \in 1 .. b - a + 1 : SubSeq(text, a, b)[i] = text[a + i - 1]
    BY <2>1, SubSeqProperties
  <2>3. b - a + 1 = Len(text) - prevTextLen /\ (a <= b <=> Len(text) - prevTextLen >= 1)
    BY <1>0, <1>7 DEF a, b
  <2>4. \A i \in Nat : a + i - 1 = prevTextLen + i
    BY <1>0 DEF a
  <2>5. \A i \in 1 .. Len(text) - prevTextLen : i \in Nat
    BY <1>0, <1>7
  <2>6. NewText(text) = SubSeq(text, a, b)
    BY DEF NewText, a, b
  <2>7. \A i \in 1 .. Len(text) - prevTextLen : NewText(text)[i] = text[prevTextLen + i]
    BY <2>2, <2>3, <2>4, <2>5, <2>6
  <2>8. Len(text) - prevTextLen >= 1 \/ Len(text) - prevTextLen = 0
    <3>1. Len(text) \in Nat /\ prevTextLen \in Nat
      BY <1>0, <1>7
    <3>2. prevTextLen <= Len(text)
      BY <1>8
    <3> QED BY <3>1, <3>2
  <2>9. Len(NewText(text)) = Len(text) - prevTextLen
    <3>1. Len(SubSeq(text, a, b)) = IF a <= b THEN b - a + 1 ELSE 0
      BY <2>2
    <3>2. CASE Len(text) - prevTextLen >= 1
      BY <2>3, <2>6, <3>1, <3>2
    <3>3. CASE Len(text) - prevTextLen = 0
      <4>1. ~(a <= b)
        BY <2>3, <3>3
      <4> QED BY <2>6, <3>1, <3>3, <4>1
    <3> QED BY <2>8, <3>2, <3>3
  <2> QED BY <2>2, <2>6, <2>7, <2>9
<1>10. /\ Len(after) = Len(text)
       /\ \A i \in 1 .. Len(text) : after[i] \in {text[i], "?"}
  <2> DEFINE new == NewText(text)
  <2> HIDE DEF new
  <2>1. /\ Len(before \o new) = Len(before) + Len(new)
        /\ \A i \in 1 .. Len(before) + Len(new) :
              (before \o new)[i] = IF i <= Len(before) THEN before[i] ELSE new[i - Len(before)]
    BY <1>5, <1>9, ConcatProperties DEF new
  <2>2. Len(after) = Len(text)
    BY <1>0, <1>5, <1>7, <1>9, <2>1 DEF new
  <2>3. ASSUME NEW i \in 1 .. Len(text) PROVE after[i] \in {text[i], "?"}
    <3>1. after[i] = IF i <= prevTextLen THEN before[i] ELSE new[i - prevTextLen]
      BY <1>0, <1>5, <1>7, <1>9, <2>1, <2>2 DEF new
    <3>2. CASE i <= prevTextLen
      BY <1>0, <1>7, <1>8, <3>1, <3>2
    <3>3. CASE i > prevTextLen
      <4>1. i - prevTextLen \in 1 .. Len(text) - prevTextLen /\ prevTextLen + (i - prevTextLen) = i
        BY <1>0, <1>7, <3>3
      <4>2. new[i - prevTextLen] = text[i]
        BY <1>9, <4>1 DEF new
      <4> QED BY <1>0, <1>7, <3>1, <3>3, <4>2
    <3> QED BY <1>0, <1>7, <3>2, <3>3
  <2> QED BY <2>2, <2>3
<1>11. Decode(prompt' \o Given(stream')) = text
  BY <1>3, <1>5, <1>6 DEF text
<1>12. known' => Given(stream') = output' /\ Len(after) = prevTextLen'
  BY <1>3, <1>5, <1>6, <1>10
<1> QED BY <1>4, <1>5, <1>7, <1>10, <1>11, <1>12 DEF TextOK, Matches, after

\* Before the first item nothing was sent.
LEMMA TextInit == GenerationInit => TextOK
<1> SUFFICES ASSUME GenerationInit PROVE TextOK
  OBVIOUS
<1>1. stream = <<>> /\ output = <<>> /\ prevTextLen = 0 /\ ~known
  BY DEF GenerationInit
<1>2. OfferedOf(<<>>) = <<>>
  BY DEF OfferedOf
<1> QED BY <1>1, <1>2, SaidNothing DEF TextOK

\* Every step keeps what was sent in line with the text.
LEMMA TextStepInv ==
    ASSUME GenerationInv, TextOK, [GenerationNext]_generationVars
    PROVE  TextOK'
<1>1. CASE UNCHANGED <<prompt, stream>> /\ (known' => known /\ UNCHANGED <<output, prevTextLen>>)
  BY <1>1 DEF TextOK, Matches
<1>2. CASE AddRequest
  <2>1. /\ stream = <<>> /\ ~known /\ output = <<>> /\ prevTextLen' = 0
        /\ UNCHANGED <<prompt, output, stream>>
    BY <1>2 DEF AddRequest, Made, GenerationInv, StepOK
  <2>2. OfferedOf(<<>>) = <<>> /\ Len(<<>>) = 0
    BY DEF OfferedOf
  <2> QED BY <2>1, <2>2, SaidNothing DEF TextOK
<1>3. StartStep \/ LoopEnds =>
         UNCHANGED <<prompt, stream>> /\ (known' => known /\ UNCHANGED <<output, prevTextLen>>)
  BY DEF StartStep, LoopEnds
<1>4. CASE Abort
  <2>1. known /\ ~known' /\ stream' = Append(stream, AbortItem) /\ prompt' = prompt
    BY <1>4 DEF Abort, AbortItem
  <2>2. stream \in Seq(Items) /\ ~Aborted(stream)
    BY <2>1 DEF GenerationInv, GenerationTypeOK, StepOK
  <2>3. OfferedOf(stream) = stream /\ OfferedOf(stream') = stream'
    BY <2>1, <2>2, OfferedEnds, AbortItemTyped
  <2>4. AbortItem.tokens = <<>> /\ AbortItem.text = <<>>
    BY DEF AbortItem, StreamItem
  <2>5. /\ Given(stream) \in Seq(Vocab) /\ Said(stream) \in Seq(Chars)
        /\ Given(stream') = Given(stream) \o <<>>
        /\ Said(stream') = Said(stream) \o <<>>
        /\ HasToken(stream') <=> HasToken(stream)
    BY <2>1, <2>2, <2>4, SaidGrows, AbortItemTyped
  <2>6. Given(stream') = Given(stream) /\ Said(stream') = Said(stream)
    BY <2>5
  <2> QED BY <2>1, <2>3, <2>5, <2>6 DEF TextOK, Matches
<1>5. ASSUME NEW t \in Drawn, FinishStep(t) PROVE TextOK'
  <2>1. CASE known
    BY <1>5, <2>1, FinishText
  <2>2. CASE ~known
    <3>0. t \in Vocab /\ row # NoRow
      BY DrawnTyped
    <3>1. PICK item \in Items : stream' = Append(stream, item)
      BY <1>5, <3>0, FinishTyped DEF GenerationInv
    <3>2. ~known' /\ prompt' = prompt
      BY <1>5, <2>2 DEF FinishStep
    <3>3. stream \in Seq(Items) /\ Aborted(stream)
      BY <2>2, <3>0 DEF GenerationInv, GenerationTypeOK, StepOK
    <3>4. OfferedOf(stream') = OfferedOf(stream)
      BY <3>1, <3>3, OfferedEnds
    <3> QED BY <3>2, <3>4 DEF TextOK, Matches
  <2> QED BY <2>1, <2>2
<1>6. CASE UNCHANGED generationVars
  BY <1>1, <1>6 DEF generationVars
<1> QED BY <1>1, <1>2, <1>3, <1>4, <1>5, <1>6 DEF GenerationNext

\* What the reader of the stream is sent.
LEMMA TextIsSent == TextOK => SentIsTextOrPlaceholder
<1> SUFFICES ASSUME TextOK, HasToken(OfferedOf(stream))
             PROVE  Matches(Said(OfferedOf(stream)), Given(OfferedOf(stream)))
  <2>1. Offered = OfferedOf(stream)
    BY DEF Offered, OfferedOf
  <2> QED BY <2>1 DEF SentIsTextOrPlaceholder, HasToken, Matches, Said, Given
<1> QED BY DEF TextOK

\* The texts a reader is sent, put together, are the text of the prompt and
\* the answer, character by character, but for those that were incomplete
\* when they were sent; whatever is skipped or completed later.
THEOREM ReadersAreSentTheText == GenerationSpec => []SentIsTextOrPlaceholder
<1>1. GenerationInv /\ TextOK /\ [GenerationNext]_generationVars => TextOK'
  BY TextStepInv
<1> QED BY <1>1, TextInit, TextIsSent, GenerationInvariant, PTL DEF GenerationSpec

-----------------------------------------------------------------------------
(* The request of a visitor. *)

\* A step of the page is a step of the request, or none.
LEMMA DemoStep == [DemoNext]_demoVars => [GenerationNext]_generationVars
<1> SUFFICES ASSUME [DemoNext]_demoVars PROVE [GenerationNext]_generationVars
  OBVIOUS
<1>1. CASE SendPrompt
  BY <1>1 DEF SendPrompt, GenerationNext
<1>2. ASSUME NEW k \in DOMAIN players, Fire(k) PROVE UNCHANGED generationVars
  BY <1>2 DEF Fire, Play
<1>3. Visit \/ Connect \/ FirstMessage \/ Message \/ MissEvent \/ ConnectionFails
        \/ FallbackTimer \/ ReadChunk \/ Loaded => UNCHANGED generationVars
  BY DEF Visit, Connect, FirstMessage, Message, MissEvent, ConnectionFails,
     FallbackTimer, ReadChunk, Loaded
<1>4. Pause \/ Resume \/ SetSpeed \/ Restart => UNCHANGED generationVars
  BY DEF Pause, Resume, SetSpeed, Restart, Button
<1>5. UNCHANGED demoVars => UNCHANGED generationVars
  BY DEF demoVars
<1> QED BY <1>1, <1>2, <1>3, <1>4, <1>5 DEF DemoNext

\* A visitor of the page does to the request nothing but what a client may.
THEOREM DemoIsGeneration == DemoSpec => GenerationSpec
<1>1. DemoInit => GenerationInit
  BY DEF DemoInit
<1> QED BY <1>1, DemoStep, PTL DEF DemoSpec, GenerationSpec

\* The same of the request a visitor sends.
THEOREM DemoImplementsLifecycle == DemoSpec => ParamsImplementLifecycle
BY DemoIsGeneration, GenerationImplementsLifecycle, PTL

\* The same of what a visitor reads.
THEOREM VisitorsAreSentTheText == DemoSpec => []SentIsTextOrPlaceholder
BY DemoIsGeneration, ReadersAreSentTheText, PTL

-----------------------------------------------------------------------------
(***************************************************************************)
(* The page.                                                               *)
(***************************************************************************)

TapeSet == [type : {"request", "step", "snapshot"}, item : Nat]

HandleStep == [x \in Seq(Nat) \X TapeSet |-> Handle(x[1], x[2])]

Handled(q) == FoldLeft(Handle, <<>>, q)

\* An event clears what is shown, adds an item to it or leaves it.
LEMMA HandleMoves ==
    ASSUME NEW q \in Seq(Nat), NEW event \in TapeSet
    PROVE  Handle(q, event) \in Seq(Nat)
<1>1. event.type \in {"request", "step", "snapshot"} /\ event.item \in Nat
  BY DEF TapeSet
<1>2. CASE event.type = "request"
  BY <1>2 DEF Handle
<1>3. CASE event.type = "step"
  BY <1>1, <1>3 DEF Handle
<1>4. CASE event.type = "snapshot"
  BY <1>4 DEF Handle
<1> QED BY <1>1, <1>2, <1>3, <1>4

\* An event makes items of items.
LEMMA HandleStepTyped == HandleStep \in [Seq(Nat) \X TapeSet -> Seq(Nat)]
<1> SUFFICES ASSUME NEW x \in Seq(Nat) \X TapeSet PROVE Handle(x[1], x[2]) \in Seq(Nat)
  BY DEF HandleStep
<1>1. x[1] \in Seq(Nat) /\ x[2] \in TapeSet
  OBVIOUS
<1> QED BY <1>1, HandleMoves

\* What the events show is the result of a fold.
LEMMA HandledFold ==
    ASSUME NEW q \in Seq(TapeSet)
    PROVE  \E f \in [SUBSET DOMAIN q -> Seq(Nat)] :
              /\ Folds(f, HandleStep, <<>>, q)
              /\ Handled(q) = f[DOMAIN q]
<1> DEFINE D == SUBSET DOMAIN q
           Body(g) == [s \in D |-> IF s = {} THEN <<>>
                                   ELSE Handle(g[s \ {Max(s)}], q[Max(s)])]
           g == CHOOSE g : g = Body(g)
<1>1. Handled(q) = g[DOMAIN q]
  BY DEF Handled, FoldLeft, MapThenFoldSet
<1>2. <<>> \in Seq(Nat)
  OBVIOUS
<1>3. PICK f \in [SUBSET DOMAIN q -> Seq(Nat)] : Folds(f, HandleStep, <<>>, q)
  BY <1>2, HandleStepTyped, FoldExists
<1>4. /\ Len(q) \in Nat /\ DOMAIN q = 1 .. Len(q)
      /\ \A i \in 1 .. Len(q) : q[i] \in TapeSet
  OBVIOUS
<1>5. ASSUME NEW s \in D, s # {}
      PROVE  Max(s) \in s /\ s \ {Max(s)} \in D /\ q[Max(s)] \in TapeSet
  BY <1>4, <1>5, WithoutTop
<1>6. f = Body(f)
  <2>1. ASSUME NEW s \in D PROVE f[s] = Body(f)[s]
    <3>1. CASE s = {}
      BY <1>3, <3>1 DEF Folds
    <3>2. CASE s # {}
      <4>1. f[s] = HandleStep[<<f[s \ {Max(s)}], q[Max(s)]>>]
        BY <1>3, <3>2 DEF Folds
      <4>2. <<f[s \ {Max(s)}], q[Max(s)]>> \in Seq(Nat) \X TapeSet
        BY <1>3, <1>5, <3>2
      <4>3. HandleStep[<<f[s \ {Max(s)}], q[Max(s)]>>] = Handle(f[s \ {Max(s)}], q[Max(s)])
        BY <4>2 DEF HandleStep
      <4> QED BY <3>2, <4>1, <4>3
    <3> QED BY <3>1, <3>2
  <2> QED BY <1>3, <2>1
<1>7. g = Body(g)
  <2> HIDE DEF Body
  <2> QED BY <1>6
<1> HIDE DEF g
<1>8. SameSteps(f, g, Len(q))
  <2>1. \A s \in D : g[s] = IF s = {} THEN <<>> ELSE Handle(g[s \ {Max(s)}], q[Max(s)])
    BY <1>7
  <2>2. \A s \in D : f[s] = IF s = {} THEN <<>> ELSE Handle(f[s \ {Max(s)}], q[Max(s)])
    BY <1>6
  <2>3. {} \in D
    OBVIOUS
  <2> QED BY <1>4, <2>1, <2>2, <2>3 DEF SameSteps
<1>9. f[DOMAIN q] = g[DOMAIN q]
  BY <1>4, <1>8, FoldsAgree
<1> QED BY <1>1, <1>3, <1>9

\* One event more is one step more, and before the first nothing is shown.
LEMMA HandledOneMore ==
    ASSUME NEW q \in Seq(TapeSet), NEW event \in TapeSet
    PROVE  /\ Handled(q) \in Seq(Nat)
           /\ Handled(Append(q, event)) = Handle(Handled(q), event)
           /\ Handled(<<>>) = <<>>
<1>1. PICK f \in [SUBSET DOMAIN q -> Seq(Nat)] :
              /\ Folds(f, HandleStep, <<>>, q)
              /\ Handled(q) = f[DOMAIN q]
  BY HandledFold
<1>2. PICK g \in [SUBSET DOMAIN Append(q, event) -> Seq(Nat)] :
              /\ Folds(g, HandleStep, <<>>, Append(q, event))
              /\ Handled(Append(q, event)) = g[DOMAIN Append(q, event)]
  <2>1. Append(q, event) \in Seq(TapeSet)
    OBVIOUS
  <2> QED BY <2>1, HandledFold
<1>3. g[DOMAIN Append(q, event)] = HandleStep[<<f[DOMAIN q], event>>]
  BY <1>1, <1>2, FoldsOneMore
<1>4. f[DOMAIN q] \in Seq(Nat)
  BY <1>1
<1>5. HandleStep[<<f[DOMAIN q], event>>] = Handle(f[DOMAIN q], event)
  BY <1>4 DEF HandleStep
<1>6. Handled(<<>>) = <<>>
  <2>1. <<>> \in Seq(TapeSet) /\ DOMAIN <<>> = {}
    OBVIOUS
  <2>2. PICK h \in [SUBSET DOMAIN <<>> -> Seq(Nat)] :
              /\ Folds(h, HandleStep, <<>>, <<>>)
              /\ Handled(<<>>) = h[DOMAIN <<>>]
    BY <2>1, HandledFold
  <2>3. h[{}] = <<>>
    BY <2>2 DEF Folds
  <2> QED BY <2>1, <2>2, <2>3
<1> QED BY <1>1, <1>2, <1>3, <1>4, <1>5, <1>6

Player == [idx : Nat, paused : BOOLEAN, timer : BOOLEAN, strays : Nat]

PageTypeOK ==
    /\ mode \in {"away", "connecting", "live", "replay"}
    /\ source \in {"none", "opening", "open", "closed"}
    /\ gotOne \in BOOLEAN /\ fallback \in BOOLEAN /\ missed \in BOOLEAN /\ own \in BOOLEAN
    /\ at \in Nat /\ chunks \in Nat /\ loading \in Nat
    /\ generated \in Seq(Nat)
    /\ tape \in Seq(TapeSet)
    /\ players \in Seq(Player)

\* The page is live or replays, and a page that is live stays so.
PageOK ==
    /\ at <= Len(events) /\ chunks <= Len(stream)
    /\ own => gotOne
    /\ gotOne <=> mode = "live"
    /\ gotOne => source = "open"
    /\ source \in {"opening", "open"} \/ mode = "away" => loading = 0 /\ players = <<>>
    /\ mode = "away" => source = "none"

\* The buttons and timers of the Replayers.
ReplayStep == Pause \/ Resume \/ SetSpeed \/ Restart \/ \E k \in DOMAIN players : Fire(k)

\* A Replayer that differs from p in one field.
Moved(p, q) == q \in Player /\ q.paused = p.paused /\ q.timer = p.timer /\ q.strays = p.strays

Switched(p, q) == q \in Player /\ q.idx = p.idx /\ q.timer = p.timer /\ q.strays = p.strays

Retimed(p, q) == q \in Player /\ q.idx = p.idx /\ q.paused = p.paused

\* What is left when one field of a Replayer is set.
LEMMA PlayerChanges ==
    ASSUME NEW p \in Player
    PROVE  /\ p.idx \in Nat /\ p.paused \in BOOLEAN /\ p.timer \in BOOLEAN /\ p.strays \in Nat
           /\ Switched(p, [p EXCEPT !.paused = TRUE]) /\ [p EXCEPT !.paused = TRUE].paused
           /\ Switched(p, [p EXCEPT !.paused = FALSE]) /\ ~[p EXCEPT !.paused = FALSE].paused
           /\ Moved(p, [p EXCEPT !.idx = 0]) /\ [p EXCEPT !.idx = 0].idx = 0
           /\ Moved(p, [p EXCEPT !.idx = @ + 1]) /\ [p EXCEPT !.idx = @ + 1].idx = p.idx + 1
           /\ p.strays > 0 => Retimed(p, [p EXCEPT !.strays = @ - 1])
<1>1. /\ p.idx \in Nat /\ p.paused \in BOOLEAN /\ p.timer \in BOOLEAN /\ p.strays \in Nat
      /\ DOMAIN p = {"idx", "paused", "timer", "strays"}
      /\ p = [idx |-> p.idx, paused |-> p.paused, timer |-> p.timer, strays |-> p.strays]
  BY DEF Player
<1>2. ASSUME NEW v \in BOOLEAN
      PROVE  Switched(p, [p EXCEPT !.paused = v]) /\ [p EXCEPT !.paused = v].paused = v
  BY <1>1 DEF Player, Switched
<1>3. ASSUME NEW i \in Nat
      PROVE  Moved(p, [p EXCEPT !.idx = i]) /\ [p EXCEPT !.idx = i].idx = i
  BY <1>1 DEF Player, Moved
<1>4. ASSUME NEW i \in Nat
      PROVE  Retimed(p, [p EXCEPT !.strays = i])
  BY <1>1 DEF Player, Retimed
<1>5. /\ [p EXCEPT !.idx = @ + 1] = [p EXCEPT !.idx = p.idx + 1]
      /\ [p EXCEPT !.strays = @ - 1] = [p EXCEPT !.strays = p.strays - 1]
  OBVIOUS
<1>6. Switched(p, [p EXCEPT !.paused = TRUE]) /\ [p EXCEPT !.paused = TRUE].paused = TRUE
  BY <1>2
<1>7. Switched(p, [p EXCEPT !.paused = FALSE]) /\ [p EXCEPT !.paused = FALSE].paused = FALSE
  BY <1>2
<1>8. Moved(p, [p EXCEPT !.idx = 0]) /\ [p EXCEPT !.idx = 0].idx = 0
  BY <1>3
<1>9. Moved(p, [p EXCEPT !.idx = p.idx + 1]) /\ [p EXCEPT !.idx = p.idx + 1].idx = p.idx + 1
  <2>1. p.idx + 1 \in Nat
    BY <1>1
  <2> QED BY <1>3, <2>1
<1>10. p.strays > 0 => Retimed(p, [p EXCEPT !.strays = p.strays - 1])
  <2>1. p.strays > 0 => p.strays - 1 \in Nat
    BY <1>1
  <2> QED BY <1>4, <2>1
<1> QED BY <1>1, <1>5, <1>6, <1>7, <1>8, <1>9, <1>10

\* _schedule leaves a Replayer that is not at the end with a timer; stop does
\* not touch the timers without a name.
LEMMA ScheduleTyped ==
    ASSUME NEW p \in Player
    PROVE  /\ Retimed(p, Schedule(p)) /\ (p.idx >= Len(tape) \/ Schedule(p).timer)
           /\ Retimed(p, Stop(p))
<1>1. /\ p.idx \in Nat /\ p.paused \in BOOLEAN /\ p.timer \in BOOLEAN /\ p.strays \in Nat
      /\ DOMAIN p = {"idx", "paused", "timer", "strays"}
      /\ p = [idx |-> p.idx, paused |-> p.paused, timer |-> p.timer, strays |-> p.strays]
  BY DEF Player
<1> DEFINE n == IF p.timer THEN p.strays + 1 ELSE p.strays
           s == [p EXCEPT !.timer = TRUE, !.strays = n]
<1>2. n \in Nat
  BY <1>1
<1>3. [p EXCEPT !.timer = TRUE, !.strays = IF p.timer THEN @ + 1 ELSE @] = s
  OBVIOUS
<1>4. Retimed(p, Stop(p))
  BY <1>1 DEF Stop, Retimed, Player
<1>5. Schedule(p) = IF p.idx >= Len(tape) THEN p ELSE s
  BY <1>3 DEF Schedule
<1> HIDE DEF n
<1>6. Retimed(p, s) /\ s.timer /\ Retimed(p, p)
  BY <1>1, <1>2 DEF Player, Retimed
<1> QED BY <1>4, <1>5, <1>6

\* What a button or a timer makes of a Replayer.  It is where it was, at the
\* beginning, or one event further, which has then been handled; and it goes
\* on by itself, if it is not paused and the tape not over.
Goes(p) == p.paused \/ p.idx >= Len(tape) \/ p.timer \/ p.strays > 0

Turned(p, q) ==
    /\ Goes(p) => Goes(q)
    /\ \/ q.idx = p.idx /\ generated' = generated
       \/ q.idx = 0 /\ generated' = <<>>
       \/ /\ q.idx = p.idx + 1
          /\ generated' = IF q.idx <= Len(tape) THEN Handle(generated, tape[q.idx])
                                                ELSE generated

\* Buttons and timers leave the connection and the tape alone.
LEMMA ReplayTurns ==
    ASSUME PageTypeOK, ReplayStep
    PROVE  /\ players # <<>>
           /\ UNCHANGED <<generationVars, mode, source, gotOne, fallback, liveVars, loading, tape>>
           /\ \E k \in DOMAIN players : \E q \in Player :
                 /\ players' = [players EXCEPT ![k] = q]
                 /\ Turned(players[k], q)
<1>1. players \in Seq(Player) /\ tape \in Seq(TapeSet) /\ Len(tape) \in Nat
      /\ \A k \in DOMAIN players : players[k] \in Player
  BY DEF PageTypeOK
<1>2. ASSUME Button
      PROVE  /\ current \in DOMAIN players /\ players # <<>>
             /\ UNCHANGED <<generationVars, mode, source, gotOne, fallback, liveVars, loading, tape>>
  BY <1>1, <1>2 DEF current, Button
<1>3. CASE Pause
  <2>1. Button
    BY <1>3 DEF Pause
  <2>2. PICK p \in Player : p = players[current]
    BY <1>1, <1>2, <2>1
  <2>3. PICK r \in Player : r = Stop(p) /\ r.idx = p.idx
    BY ScheduleTyped DEF Retimed
  <2>4. PICK q \in Player : q = [r EXCEPT !.paused = TRUE] /\ q.idx = r.idx /\ q.paused
    BY PlayerChanges DEF Switched
  <2>5. players' = [players EXCEPT ![current] = q] /\ generated' = generated
    BY <1>3, <2>2, <2>3, <2>4 DEF Pause, Put
  <2>6. Turned(p, q)
    BY <2>3, <2>4, <2>5 DEF Turned, Goes
  <2> QED BY <1>2, <2>1, <2>2, <2>5, <2>6
<1>4. CASE Resume
  <2>1. Button
    BY <1>4 DEF Resume
  <2>2. PICK p \in Player : p = players[current]
    BY <1>1, <1>2, <2>1
  <2>3. PICK r \in Player : r = [p EXCEPT !.paused = FALSE] /\ r.idx = p.idx
    <3>1. Switched(p, [p EXCEPT !.paused = FALSE])
      BY PlayerChanges
    <3> QED BY <3>1 DEF Switched
  <2>4. PICK q \in Player : q = Schedule(r) /\ q.idx = r.idx /\ (r.idx >= Len(tape) \/ q.timer)
    BY ScheduleTyped DEF Retimed
  <2>5. players' = [players EXCEPT ![current] = q] /\ generated' = generated
    BY <1>4, <2>2, <2>3, <2>4 DEF Resume, Put
  <2>6. Turned(p, q)
    BY <2>3, <2>4, <2>5 DEF Turned, Goes
  <2> QED BY <1>2, <2>1, <2>2, <2>5, <2>6
<1>5. CASE SetSpeed
  <2>1. Button
    BY <1>5 DEF SetSpeed
  <2>2. PICK p \in Player : p = players[current]
    BY <1>1, <1>2, <2>1
  <2>3. PICK r \in Player : r = Stop(p) /\ r.idx = p.idx
    BY ScheduleTyped DEF Retimed
  <2>4. PICK q \in Player : q = Schedule(r) /\ q.idx = r.idx /\ (r.idx >= Len(tape) \/ q.timer)
    BY ScheduleTyped DEF Retimed
  <2>5. players' = [players EXCEPT ![current] = q] /\ generated' = generated
    BY <1>5, <2>2, <2>3, <2>4 DEF SetSpeed, Put
  <2>6. Turned(p, q)
    BY <2>3, <2>4, <2>5 DEF Turned, Goes
  <2> QED BY <1>2, <2>1, <2>2, <2>5, <2>6
<1>6. CASE Restart
  <2>1. Button
    BY <1>6 DEF Restart
  <2>2. PICK p \in Player : p = players[current]
    BY <1>1, <1>2, <2>1
  <2>3. PICK r \in Player : r = Stop(p)
    BY ScheduleTyped DEF Retimed
  <2>4. PICK u \in Player : u = [r EXCEPT !.idx = 0] /\ u.idx = 0
    BY PlayerChanges DEF Moved
  <2>5. PICK q \in Player : q = Schedule(u) /\ q.idx = u.idx /\ (u.idx >= Len(tape) \/ q.timer)
    BY ScheduleTyped DEF Retimed
  <2>6. players' = [players EXCEPT ![current] = q] /\ generated' = <<>>
    BY <1>6, <2>2, <2>3, <2>4, <2>5 DEF Restart, Put, ClearRequests
  <2>7. Turned(p, q)
    BY <2>4, <2>5, <2>6 DEF Turned, Goes
  <2> QED BY <1>2, <2>1, <2>2, <2>6, <2>7
<1>7. ASSUME NEW k \in DOMAIN players, NEW p \in Player, Play(k, p), p.idx = players[k].idx,
             p.paused = players[k].paused
      PROVE  \E q \in Player :
                players' = [players EXCEPT ![k] = q] /\ Turned(players[k], q)
  <2>1. PICK next \in Player : /\ next = [p EXCEPT !.idx = @ + 1] /\ next.idx = p.idx + 1
                               /\ next.paused = p.paused
    BY PlayerChanges DEF Moved
  <2>2. PICK s \in Player : s = Schedule(next) /\ s.idx = next.idx /\ (next.idx >= Len(tape) \/ s.timer)
    <3>1. /\ Retimed(next, Schedule(next))
          /\ next.idx >= Len(tape) \/ Schedule(next).timer
      BY ScheduleTyped
    <3> QED BY <3>1 DEF Retimed
  <2>3. PICK q \in Player : q = IF p.paused THEN next ELSE Schedule(next)
    BY <2>1, <2>2
  <2>4. /\ players' = [players EXCEPT ![k] = q]
        /\ generated' = IF next.idx <= Len(tape) THEN Handle(generated, tape[next.idx])
                                                 ELSE generated
    BY <1>7, <2>1, <2>3 DEF Play
  <2>5. q.idx = next.idx /\ Goes(q)
    BY <2>1, <2>2, <2>3 DEF Goes
  <2>6. Turned(players[k], q)
    BY <1>7, <2>1, <2>4, <2>5 DEF Turned
  <2> QED BY <2>4, <2>6
<1>8. ASSUME NEW k \in DOMAIN players, Fire(k)
      PROVE  /\ players # <<>>
             /\ UNCHANGED <<generationVars, mode, source, gotOne, fallback, liveVars, loading, tape>>
             /\ \E q \in Player :
                   players' = [players EXCEPT ![k] = q] /\ Turned(players[k], q)
  <2>1. PICK p \in Player : p = players[k]
    BY <1>1
  <2>2. players # <<>>
    BY <1>1
  <2>3. PICK r \in Player : Play(k, r) /\ r.idx = p.idx /\ r.paused = p.paused
    <3>1. CASE p.timer /\ Play(k, Stop(p))
      BY <3>1, ScheduleTyped DEF Retimed
    <3>2. CASE p.strays > 0 /\ Play(k, [p EXCEPT !.strays = @ - 1])
      BY <3>2, PlayerChanges DEF Retimed
    <3> QED BY <1>8, <2>1, <3>1, <3>2 DEF Fire
  <2>4. UNCHANGED <<generationVars, mode, source, gotOne, fallback, liveVars, loading, tape>>
    BY <2>3 DEF Play
  <2> QED BY <1>7, <2>1, <2>2, <2>3, <2>4
<1> QED BY <1>1, <1>2, <1>3, <1>4, <1>5, <1>6, <1>8 DEF ReplayStep

-----------------------------------------------------------------------------
(* The events. *)

\* "request" comes first, and the steps tell of the items in their order.
EventsOK ==
    /\ Made \/ events = <<>>
    /\ \A i \in DOMAIN events :
          /\ events[i].type = "request" => i = 1
          /\ events[i].type = "step" => events[i].item \in 1 .. Len(stream)
    /\ \A i, j \in DOMAIN events :
          i < j /\ events[i].type = "step" /\ events[j].type = "step" =>
             events[i].item < events[j].item

\* Events and items are only added.
Kept(q, p) == Len(q) <= Len(p) /\ \A i \in 1 .. Len(q) : p[i] = q[i]

\* No step takes an event or an item back.
LEMMA EventsGrow ==
    ASSUME GenerationInv, [GenerationNext]_generationVars
    PROVE  /\ Len(events) \in Nat /\ Len(stream) \in Nat
           /\ Kept(events, events') /\ Kept(stream, stream')
           /\ Made => Made'
<1>1. events \in Seq(EventSet) /\ stream \in Seq(Items)
  BY DEF GenerationInv, GenerationTypeOK
<1>2. Kept(events, events) /\ Kept(stream, stream)
  BY <1>1 DEF Kept
<1>3. ASSUME NEW e \in EventSet PROVE Kept(events, Append(events, e))
  BY <1>1 DEF Kept
<1>4. ASSUME NEW item \in Items
      PROVE  Kept(stream, Append(stream, item)) /\ Append(stream, item) # <<>>
  <2>1. Append(stream, item) # <<>>
    BY <1>1
  <2> QED BY <1>1, <2>1 DEF Kept
<1>5. CASE AddRequest
  <2>1. Event("request", 0) \in EventSet
    BY DEF Event, EventSet
  <2> QED BY <1>1, <1>2, <1>3, <1>5, <2>1 DEF AddRequest, Made
<1>6. StartStep \/ LoopEnds => UNCHANGED <<stream, known, events>>
  BY DEF StartStep, LoopEnds
<1>7. CASE Abort
  <2>1. stream' = Append(stream, AbortItem) /\ events' = events
    BY <1>7 DEF Abort, AbortItem
  <2> QED BY <1>1, <1>2, <1>4, <2>1, AbortItemTyped DEF Made
<1>8. ASSUME NEW t \in Drawn, FinishStep(t)
      PROVE  Kept(events, events') /\ Kept(stream, stream') /\ Made'
  <2>1. t \in Vocab
    BY DrawnTyped
  <2>2. PICK item \in Items : stream' = Append(stream, item)
    BY <1>8, <2>1, FinishTyped DEF GenerationInv
  <2>3. Event("step", Len(stream) + 1) \in EventSet
    BY <1>1 DEF Event, EventSet
  <2>4. events' = Append(events, Event("step", Len(stream) + 1))
    BY <1>8 DEF FinishStep
  <2> QED BY <1>3, <1>4, <2>2, <2>3, <2>4 DEF Made
<1>9. UNCHANGED generationVars => UNCHANGED <<stream, known, events>>
  BY DEF generationVars
<1> QED BY <1>1, <1>2, <1>5, <1>6, <1>7, <1>8, <1>9 DEF GenerationNext, Made

\* A step that is over tells of the item it has just sent.
LEMMA EventsStepInv ==
    ASSUME GenerationInv, EventsOK, [GenerationNext]_generationVars
    PROVE  EventsOK'
<1>1. /\ events \in Seq(EventSet) /\ Len(events) \in Nat /\ DOMAIN events = 1 .. Len(events)
      /\ stream \in Seq(Items) /\ Len(stream) \in Nat
  BY DEF GenerationInv, GenerationTypeOK
<1>2. Len(stream) <= Len(stream') /\ (Made => Made') /\ Len(stream') \in Nat
  <2>1. stream' \in Seq(Items)
    BY GenerationStepInv DEF GenerationInv, GenerationTypeOK
  <2> QED BY <2>1, EventsGrow DEF Kept
<1>3. CASE events' = events
  <2>1. \A i \in DOMAIN events :
           events[i].type = "step" => events[i].item \in 1 .. Len(stream')
    BY <1>1, <1>2 DEF EventsOK
  <2> QED BY <1>2, <1>3, <2>1 DEF EventsOK
<1>4. CASE AddRequest
  <2>1. ~Made /\ Made' /\ events' = Append(events, Event("request", 0))
    BY <1>4 DEF AddRequest, Made
  <2>2. events = <<>>
    BY <2>1 DEF EventsOK
  <2>3. events' = <<Event("request", 0)>>
    BY <2>1, <2>2
  <2>4. DOMAIN events' = {1} /\ events'[1].type = "request"
    BY <2>3 DEF Event
  <2> QED BY <2>1, <2>4 DEF EventsOK
<1>5. ASSUME NEW t \in Drawn, FinishStep(t) PROVE EventsOK'
  <2>0. t \in Vocab
    BY DrawnTyped
  <2>1. PICK item \in Items : stream' = Append(stream, item)
    BY <1>5, <2>0, FinishTyped DEF GenerationInv
  <2>2. Len(stream') = Len(stream) + 1 /\ Made'
    BY <1>1, <2>1 DEF Made
  <2>3. PICK e \in EventSet : e = Event("step", Len(stream) + 1)
    <3>1. Event("step", Len(stream) + 1) \in EventSet
      BY <1>1 DEF Event, EventSet
    <3> QED BY <3>1
  <2>4. events' = Append(events, e) /\ e.type = "step" /\ e.item = Len(stream) + 1
    BY <1>5, <2>3 DEF FinishStep, Event
  <2>5. /\ DOMAIN events' = 1 .. Len(events) + 1
        /\ \A i \in 1 .. Len(events) : events'[i] = events[i]
        /\ events'[Len(events) + 1] = e
    BY <1>1, <2>4
  <2>6. \A i \in DOMAIN events' : i \in DOMAIN events \/ i = Len(events) + 1
    BY <1>1, <2>5
  <2>7. ASSUME NEW i \in DOMAIN events'
        PROVE  /\ events'[i].type = "request" => i = 1
               /\ events'[i].type = "step" => events'[i].item \in 1 .. Len(stream')
    <3>1. CASE i \in DOMAIN events
      BY <1>1, <2>2, <2>5, <3>1 DEF EventsOK
    <3>2. CASE i = Len(events) + 1
      BY <1>1, <2>2, <2>4, <2>5, <3>2
    <3> QED BY <2>6, <3>1, <3>2
  <2>8. ASSUME NEW i \in DOMAIN events', NEW j \in DOMAIN events', i < j,
               events'[i].type = "step", events'[j].type = "step"
        PROVE  events'[i].item < events'[j].item
    <3>1. i \in DOMAIN events
      BY <1>1, <2>5, <2>8
    <3>2. CASE j \in DOMAIN events
      BY <1>1, <2>5, <2>8, <3>1, <3>2 DEF EventsOK
    <3>3. CASE j = Len(events) + 1
      <4>1. events[i].item \in 1 .. Len(stream)
        BY <1>1, <2>5, <2>8, <3>1 DEF EventsOK
      <4> QED BY <1>1, <2>4, <2>5, <3>1, <3>3, <4>1
    <3> QED BY <2>6, <3>2, <3>3
  <2> QED BY <2>2, <2>7, <2>8 DEF EventsOK
<1>6. StartStep \/ LoopEnds \/ Abort \/ UNCHANGED generationVars => events' = events
  BY DEF StartStep, LoopEnds, Abort, generationVars
<1> QED BY <1>3, <1>4, <1>5, <1>6 DEF GenerationNext

-----------------------------------------------------------------------------
(* What has reached the page. *)

\* The items the first n of the events q tell of.
HeardOf(q, n) == {q[i].item : i \in {j \in 1 .. n : q[j].type = "step"}}

\* The items of S are in q, in order.
Embeds(S, q) ==
    \E place \in [S -> DOMAIN q] :
        /\ \A x \in S : q[place[x]] = x
        /\ \A x, y \in S : x < y => place[x] < place[y]

Count(q, x) == Cardinality({i \in DOMAIN q : q[i] = x})

Once(S, x) == IF x \in S THEN 1 ELSE 0

\* An event more adds the item it tells of.
LEMMA HeardMoves ==
    ASSUME NEW q, NEW n \in Nat
    PROVE  /\ HeardOf(q, 0) = {}
           /\ HeardOf(q, n + 1) = HeardOf(q, n) \cup
                 (IF q[n + 1].type = "step" THEN {q[n + 1].item} ELSE {})
<1>1. 1 .. 0 = {} /\ 1 .. n + 1 = (1 .. n) \cup {n + 1}
  OBVIOUS
<1>2. HeardOf(q, 0) = {}
  BY <1>1 DEF HeardOf
<1>3. CASE q[n + 1].type = "step"
  <2>1. {j \in 1 .. n + 1 : q[j].type = "step"} = {j \in 1 .. n : q[j].type = "step"} \cup {n + 1}
    BY <1>1, <1>3
  <2> QED BY <1>2, <1>3, <2>1 DEF HeardOf
<1>4. CASE q[n + 1].type # "step"
  <2>1. {j \in 1 .. n + 1 : q[j].type = "step"} = {j \in 1 .. n : q[j].type = "step"}
    BY <1>1, <1>4
  <2> QED BY <1>2, <1>4, <2>1 DEF HeardOf
<1> QED BY <1>3, <1>4

\* Events that come later do not change what was heard before.
LEMMA HeardStays ==
    ASSUME NEW q, NEW p, Kept(q, p), NEW n \in Nat, Len(q) \in Nat, n <= Len(q)
    PROVE  HeardOf(p, n) = HeardOf(q, n)
<1>1. \A j \in 1 .. n : p[j] = q[j]
  BY DEF Kept
<1> QED BY <1>1 DEF HeardOf

\* What is shown stays shown when something is appended.
LEMMA EmbedsMoves ==
    ASSUME NEW q \in Seq(Nat), NEW v \in Nat, NEW S \in SUBSET Nat
    PROVE  /\ Embeds({}, q)
           /\ Embeds(S, q) => Embeds(S, Append(q, v))
           /\ (Embeds(S, q) /\ \A x \in S : x < v) => Embeds(S \cup {v}, Append(q, v))
           /\ \A T \in SUBSET S : Embeds(S, q) => Embeds(T, q)
<1> DEFINE p == Append(q, v)
<1>1. /\ Len(q) \in Nat /\ DOMAIN q = 1 .. Len(q) /\ DOMAIN p = 1 .. Len(q) + 1
      /\ \A i \in 1 .. Len(q) : p[i] = q[i]
      /\ p[Len(q) + 1] = v
  OBVIOUS
<1> HIDE DEF p
<1>2. Embeds({}, q)
  <2> DEFINE f == [x \in {} |-> 1]
  <2>1. f \in [{} -> DOMAIN q]
    OBVIOUS
  <2> QED BY <2>1 DEF Embeds
<1>3. ASSUME NEW T \in SUBSET S, Embeds(S, q) PROVE Embeds(T, q)
  <2>1. PICK f \in [S -> DOMAIN q] :
           /\ \A x \in S : q[f[x]] = x
           /\ \A x, y \in S : x < y => f[x] < f[y]
    BY <1>3 DEF Embeds
  <2> DEFINE g == [x \in T |-> f[x]]
  <2>2. /\ g \in [T -> DOMAIN q]
        /\ \A x \in T : g[x] = f[x] /\ x \in S
    BY <1>3
  <2> HIDE DEF g
  <2> QED BY <2>1, <2>2 DEF Embeds
<1>4. ASSUME Embeds(S, q) PROVE Embeds(S, p)
  <2>1. PICK f \in [S -> DOMAIN q] :
           /\ \A x \in S : q[f[x]] = x
           /\ \A x, y \in S : x < y => f[x] < f[y]
    BY <1>4 DEF Embeds
  <2>2. \A i \in DOMAIN q : i \in DOMAIN p /\ p[i] = q[i]
    BY <1>1
  <2>3. f \in [S -> DOMAIN p] /\ \A x \in S : p[f[x]] = x
    BY <2>1, <2>2
  <2> QED BY <2>1, <2>3 DEF Embeds
<1>5. ASSUME Embeds(S, q), \A x \in S : x < v PROVE Embeds(S \cup {v}, p)
  <2>1. PICK f \in [S -> DOMAIN q] :
           /\ \A x \in S : q[f[x]] = x
           /\ \A x, y \in S : x < y => f[x] < f[y]
    BY <1>5 DEF Embeds
  <2> DEFINE g == [x \in S \cup {v} |-> IF x = v THEN Len(q) + 1 ELSE f[x]]
  <2>2. v \notin S
    BY <1>5
  <2>3. /\ g[v] = Len(q) + 1 /\ Len(q) + 1 \in DOMAIN p
        /\ \A x \in S : g[x] = f[x] /\ g[x] \in DOMAIN q /\ g[x] \in DOMAIN p
    BY <1>1, <2>1, <2>2
  <2>4. g \in [S \cup {v} -> DOMAIN p]
    <3>1. \A x \in S \cup {v} : g[x] \in DOMAIN p
      BY <2>3
    <3> QED BY <3>1
  <2> HIDE DEF g
  <2>5. \A x \in S \cup {v} : p[g[x]] = x
    BY <1>1, <2>1, <2>3
  <2>6. ASSUME NEW x \in S \cup {v}, NEW y \in S \cup {v}, x < y PROVE g[x] < g[y]
    <3>1. x \in S
      BY <1>5, <2>6
    <3>2. g[x] \in Nat /\ g[x] <= Len(q)
      BY <1>1, <2>3, <3>1
    <3>3. CASE y \in S
      BY <2>1, <2>3, <2>6, <3>1, <3>3
    <3>4. CASE y = v
      BY <1>1, <2>3, <3>2, <3>4
    <3> QED BY <3>3, <3>4
  <2> QED BY <2>4, <2>5, <2>6 DEF Embeds
<1> QED BY <1>2, <1>3, <1>4, <1>5 DEF p

\* How often an item is shown.
LEMMA CountMoves ==
    ASSUME NEW q \in Seq(Nat), NEW v \in Nat, NEW x
    PROVE  /\ Count(q, x) \in Nat
           /\ Count(<<>>, x) = 0
           /\ Count(Append(q, v), x) = Count(q, x) + Once({v}, x)
<1> DEFINE p == Append(q, v)
           P == {i \in DOMAIN q : q[i] = x}
<1>1. /\ Len(q) \in Nat /\ DOMAIN q = 1 .. Len(q) /\ DOMAIN p = 1 .. Len(q) + 1
      /\ \A i \in 1 .. Len(q) : p[i] = q[i]
      /\ p[Len(q) + 1] = v
  OBVIOUS
<1> HIDE DEF p
<1>2. IsFiniteSet(P)
  <2>1. IsFiniteSet(1 .. Len(q))
    BY <1>1, FS_Interval
  <2> QED BY <1>1, <2>1, FS_Subset
<1>3. Cardinality(P) \in Nat
  BY <1>2, FS_CardinalityType
<1>4. Count(<<>>, x) = 0
  <2>1. {i \in DOMAIN <<>> : <<>>[i] = x} = {}
    OBVIOUS
  <2> QED BY <2>1, FS_EmptySet DEF Count
<1>5. 1 .. Len(q) + 1 = (1 .. Len(q)) \cup {Len(q) + 1} /\ Len(q) + 1 \notin 1 .. Len(q)
  BY <1>1
<1>6. CASE v = x
  <2>1. {i \in DOMAIN p : p[i] = x} = P \cup {Len(q) + 1} /\ Len(q) + 1 \notin P
    BY <1>1, <1>5, <1>6
  <2>2. Cardinality(P \cup {Len(q) + 1}) = Cardinality(P) + 1
    BY <1>2, <2>1, FS_AddElement
  <2> QED BY <1>3, <1>4, <1>6, <2>1, <2>2 DEF Count, Once, p
<1>7. CASE v # x
  <2>1. {i \in DOMAIN p : p[i] = x} = P
    BY <1>1, <1>5, <1>7
  <2>2. Count(p, x) = Cardinality(P) /\ Count(q, x) = Cardinality(P)
    BY <2>1 DEF Count
  <2>3. Once({v}, x) = 0
    BY <1>7 DEF Once
  <2>4. Cardinality(P) + 0 = Cardinality(P)
    BY <1>3
  <2> QED BY <1>3, <1>4, <2>2, <2>3, <2>4 DEF p
<1> QED BY <1>6, <1>7

\* How much of the tape q a Replayer that is at i has played.
Played(q, i) == SubSeq(q, 1, Min({i, Len(q)}))

\* Behind the end there is nothing to play.
LEMMA PlayedMoves ==
    ASSUME NEW q \in Seq(TapeSet), NEW i \in Nat
    PROVE  /\ Played(q, i) \in Seq(TapeSet)
           /\ Played(q, 0) = <<>>
           /\ i + 1 <= Len(q) =>
                 q[i + 1] \in TapeSet /\ Played(q, i + 1) = Append(Played(q, i), q[i + 1])
           /\ ~(i + 1 <= Len(q)) => Played(q, i + 1) = Played(q, i)
<1>1. Len(q) \in Nat /\ \A j \in 1 .. Len(q) : q[j] \in TapeSet
  OBVIOUS
<1>2. ASSUME NEW j \in Nat
      PROVE  Min({j, Len(q)}) = IF j <= Len(q) THEN j ELSE Len(q)
  <2>1. CASE j <= Len(q)
    <3>1. \A y \in {j, Len(q)} : j <= y
      BY <1>1, <2>1
    <3> QED BY <1>1, <2>1, <3>1, MinIsLeast
  <2>2. CASE ~(j <= Len(q))
    <3>1. \A y \in {j, Len(q)} : Len(q) <= y
      BY <1>1, <2>2
    <3> QED BY <1>1, <2>2, <3>1, MinIsLeast
  <2> QED BY <2>1, <2>2
<1>3. \A j \in Nat : j <= Len(q) => Played(q, j) = SubSeq(q, 1, j)
  BY <1>2 DEF Played
<1>4. \A j \in Nat : ~(j <= Len(q)) => Played(q, j) = SubSeq(q, 1, Len(q))
  BY <1>2 DEF Played
<1>5. ASSUME NEW j \in Nat, j <= Len(q)
      PROVE  /\ SubSeq(q, 1, j) \in Seq(TapeSet)
             /\ Len(SubSeq(q, 1, j)) = j
             /\ \A m \in 1 .. j : SubSeq(q, 1, j)[m] = q[m]
  BY <1>1, <1>5
<1>6. Played(q, 0) = <<>>
  <2>1. SubSeq(q, 1, 0) \in Seq(TapeSet) /\ Len(SubSeq(q, 1, 0)) = 0
    BY <1>1, <1>5
  <2> QED BY <1>1, <1>3, <2>1, EmptySeq
<1>7. CASE i + 1 <= Len(q)
  <2>1. i <= Len(q) /\ i + 1 \in Nat /\ i + 1 \in 1 .. Len(q)
    BY <1>1, <1>7
  <2>2. /\ Played(q, i) = SubSeq(q, 1, i)
        /\ Played(q, i + 1) = SubSeq(q, 1, i + 1)
    BY <1>3, <1>7, <2>1
  <2>3. SubSeq(q, 1, i + 1) = Append(SubSeq(q, 1, i), q[i + 1])
    <3> DEFINE p == SubSeq(q, 1, i + 1)
               s == SubSeq(q, 1, i)
    <3>1. /\ p \in Seq(TapeSet) /\ Len(p) = i + 1
          /\ \A m \in 1 .. i + 1 : p[m] = q[m]
      BY <1>5, <1>7, <2>1
    <3>2. /\ s \in Seq(TapeSet) /\ Len(s) = i
          /\ \A m \in 1 .. i : s[m] = q[m]
      BY <1>5, <2>1
    <3> HIDE DEF p, s
    <3>3. q[i + 1] \in TapeSet
      BY <1>1, <2>1
    <3>4. /\ Append(s, q[i + 1]) \in Seq(TapeSet) /\ Len(Append(s, q[i + 1])) = i + 1
          /\ \A m \in 1 .. i + 1 : Append(s, q[i + 1])[m] = q[m]
      BY <3>2, <3>3
    <3>5. \A m \in 1 .. i + 1 : p[m] = Append(s, q[i + 1])[m]
      BY <3>1, <3>4
    <3>6. p = Append(s, q[i + 1])
      BY <3>1, <3>4, <3>5, SeqEqual
    <3> QED BY <3>6 DEF p, s
  <2> QED BY <1>1, <1>5, <1>6, <1>7, <2>1, <2>2, <2>3
<1>8. CASE ~(i + 1 <= Len(q))
  <2>1. i + 1 \in Nat /\ (i = Len(q) \/ ~(i <= Len(q)))
    BY <1>1, <1>8
  <2>2. Played(q, i) = SubSeq(q, 1, Len(q)) /\ Played(q, i + 1) = SubSeq(q, 1, Len(q))
    BY <1>1, <1>3, <1>4, <1>8, <2>1
  <2> QED BY <1>1, <1>5, <1>6, <1>8, <2>2
<1> QED BY <1>7, <1>8

\* While the page is live: what came as a chunk or what came as an event is
\* shown in order, and nothing more often than it came.
LiveOK ==
    /\ (own /\ ~missed) =>
          Embeds(1 .. chunks, generated) \/ Embeds(HeardOf(events, at), generated)
    /\ players = <<>> =>
          \A x \in Nat :
             Count(generated, x) <= Once(1 .. chunks, x) + Once(HeardOf(events, at), x)

\* A Replayer that is alone has shown what it has played.
ReplayOK ==
    Len(players) = 1 =>
        generated = Handled(Played(tape, players[1].idx)) /\ Goes(players[1])

PageInv == GenerationInv /\ EventsOK /\ PageTypeOK /\ PageOK /\ LiveOK /\ ReplayOK

\* A page that is not open shows nothing.
LEMMA PageInit == DemoInit => PageInv
<1> SUFFICES ASSUME DemoInit PROVE PageInv
  OBVIOUS
<1>1. GenerationInv
  BY GenerationInitInv DEF DemoInit
<1>2. events = <<>> /\ stream = <<>> /\ at = 0 /\ chunks = 0 /\ players = <<>>
      /\ own = FALSE /\ generated = <<>> /\ Len(<<>>) = 0 /\ DOMAIN <<>> = {}
  BY DEF DemoInit, GenerationInit
<1>3. EventsOK
  BY <1>2 DEF EventsOK
<1>4. PageTypeOK
  <2>1. <<>> \in Seq(Nat) /\ <<>> \in Seq(TapeSet) /\ <<>> \in Seq(Player)
    OBVIOUS
  <2> QED BY <2>1 DEF DemoInit, PageTypeOK
<1>5. PageOK
  BY <1>2 DEF DemoInit, PageOK
<1>6. LiveOK
  <2>1. ASSUME NEW x \in Nat PROVE Count(<<>>, x) = 0
    <3>1. <<>> \in Seq(Nat) /\ 0 \in Nat
      OBVIOUS
    <3> QED BY <3>1, CountMoves
  <2>2. 1 .. 0 = {} /\ HeardOf(events, 0) = {}
    BY HeardMoves
  <2>3. \A x \in Nat : Once({}, x) = 0
    BY DEF Once
  <2>4. 0 <= 0 + 0
    OBVIOUS
  <2> QED BY <1>2, <2>1, <2>2, <2>3, <2>4 DEF LiveOK
<1>7. ReplayOK
  BY <1>2 DEF ReplayOK
<1> QED BY <1>1, <1>3, <1>4, <1>5, <1>6, <1>7 DEF PageInv

\* The page has its types, and stays live once it is.
LEMMA PageTypeStep ==
    ASSUME PageInv, [DemoNext]_demoVars
    PROVE  PageTypeOK' /\ PageOK'
<1>1. /\ events \in Seq(EventSet) /\ Len(events) \in Nat
      /\ \A i \in 1 .. Len(events) : events[i] \in TapeSet
  <2>1. events \in Seq(EventSet)
    BY DEF PageInv, GenerationInv, GenerationTypeOK
  <2>2. \A e \in EventSet : e \in TapeSet
    BY DEF EventSet, TapeSet
  <2> QED BY <2>1, <2>2
<1>2. /\ Len(events) <= Len(events') /\ Len(stream) <= Len(stream')
      /\ Len(stream) \in Nat /\ Len(stream') \in Nat /\ Len(events') \in Nat
  <2>1. events' \in Seq(EventSet) /\ stream' \in Seq(Items)
    BY GenerationStepInv, DemoStep DEF PageInv, GenerationInv, GenerationTypeOK
  <2> QED BY <2>1, EventsGrow, DemoStep DEF PageInv, Kept
<1>3. PageTypeOK /\ PageOK
  BY DEF PageInv
<1>4. CASE UNCHANGED pageVars
  BY <1>2, <1>3, <1>4 DEF pageVars, liveVars, replayVars, PageTypeOK, PageOK
<1>5. CASE Visit
  <2>1. /\ mode = "away"
        /\ UNCHANGED <<events, stream, gotOne, at, missed, own, chunks, generated, tape, players>>
    BY <1>5 DEF Visit, generationVars, liveVars
  <2>2. \/ /\ mode' = "connecting" /\ source' = "opening"
           /\ fallback' = TRUE /\ loading' = loading
        \/ mode' = "replay" /\ loading' = 1 /\ UNCHANGED <<source, fallback>>
    BY <1>5 DEF Visit
  <2>3. PageTypeOK'
    <3>1. /\ mode' \in {"away", "connecting", "live", "replay"}
          /\ source' \in {"none", "opening", "open", "closed"}
      BY <1>3, <2>2 DEF PageTypeOK
    <3>2. fallback' \in BOOLEAN
      BY <1>3, <2>2 DEF PageTypeOK
    <3>3. loading' \in Nat
      BY <1>3, <2>2 DEF PageTypeOK
    <3> QED BY <1>3, <2>1, <3>1, <3>2, <3>3 DEF PageTypeOK
  <2>4. PageOK'
    BY <1>3, <2>1, <2>2 DEF PageOK
  <2> QED BY <2>3, <2>4
<1>6. CASE Connect
  BY <1>1, <1>3, <1>6 DEF Connect, generationVars, replayVars, PageTypeOK, PageOK
<1>7. CASE FirstMessage
  BY <1>3, <1>7 DEF FirstMessage, generationVars, liveVars, replayVars, PageTypeOK, PageOK
<1>8. CASE Message
  <2>1. at + 1 \in 1 .. Len(events) /\ at + 1 \in Nat /\ at + 1 <= Len(events)
    BY <1>1, <1>3, <1>8 DEF Message, PageTypeOK
  <2>2. generated' \in Seq(Nat)
    BY <1>1, <1>3, <1>8, <2>1, HandleMoves DEF Message, PageTypeOK
  <2> QED BY <1>3, <1>8, <2>1, <2>2 DEF Message, generationVars, replayVars, PageTypeOK, PageOK
<1>9. CASE MissEvent
  <2>1. at + 1 \in Nat /\ at + 1 <= Len(events)
    BY <1>1, <1>3, <1>9 DEF MissEvent, PageTypeOK
  <2> QED BY <1>3, <1>9, <2>1 DEF MissEvent, generationVars, replayVars, PageTypeOK, PageOK
<1>10. CASE ConnectionFails
  <2>1. loading + 1 \in Nat
    BY <1>3 DEF PageTypeOK
  <2> QED BY <1>3, <1>10, <2>1
          DEF ConnectionFails, FallBack, generationVars, liveVars, PageTypeOK, PageOK
<1>11. CASE FallbackTimer
  <2>1. loading + 1 \in Nat
    BY <1>3 DEF PageTypeOK
  <2> QED BY <1>3, <1>11, <2>1
          DEF FallbackTimer, FallBack, generationVars, liveVars, PageTypeOK, PageOK
<1>12. CASE SendPrompt
  <2>1. mode = "live" /\ own' = TRUE
        /\ UNCHANGED <<mode, source, gotOne, fallback, at, missed, chunks, generated, replayVars>>
    BY <1>12 DEF SendPrompt
  <2> QED BY <1>2, <1>3, <2>1 DEF replayVars, PageTypeOK, PageOK
<1>13. CASE ReadChunk
  <2>1. chunks + 1 \in Nat /\ chunks + 1 <= Len(stream)
    BY <1>2, <1>3, <1>13 DEF ReadChunk, PageTypeOK
  <2>2. generated' \in Seq(Nat)
    <3>1. <<1>> \in Seq(Nat) /\ Append(generated, chunks + 1) \in Seq(Nat)
      BY <1>3, <2>1 DEF PageTypeOK
    <3> QED BY <1>13, <3>1 DEF ReadChunk, ShowChunk
  <2> QED BY <1>3, <1>13, <2>1, <2>2 DEF ReadChunk, generationVars, replayVars, PageTypeOK, PageOK
<1>14. CASE Loaded
  <2>1. loading - 1 \in Nat
    BY <1>3, <1>14 DEF Loaded, PageTypeOK
  <2>2. tape' \in Seq(TapeSet)
    <3>1. Event("snapshot", 0) \in TapeSet
      BY DEF Event, TapeSet
    <3>2. events \in Seq(TapeSet)
      BY <1>1
    <3> QED BY <1>14, <3>1, <3>2 DEF Loaded
  <2>3. players' \in Seq(Player)
    <3>1. [idx |-> 0, paused |-> FALSE, timer |-> TRUE, strays |-> 0] \in Player
      BY DEF Player
    <3> QED BY <1>3, <1>14, <3>1 DEF Loaded, PageTypeOK
  <2>4. generated' \in Seq(Nat)
    BY <1>14 DEF Loaded, ClearRequests
  <2>5. loading > 0 /\ loading' = loading - 1
        /\ UNCHANGED <<generationVars, mode, source, gotOne, fallback, liveVars>>
    BY <1>14 DEF Loaded
  <2> QED BY <1>3, <2>1, <2>2, <2>3, <2>4, <2>5 DEF generationVars, liveVars, PageTypeOK, PageOK
<1>15. CASE ReplayStep
  <2>1. /\ players # <<>>
        /\ UNCHANGED <<generationVars, mode, source, gotOne, fallback, liveVars, loading, tape>>
    BY <1>3, <1>15, ReplayTurns
  <2>2. PICK k \in DOMAIN players : \E q \in Player :
                 /\ players' = [players EXCEPT ![k] = q]
                 /\ Turned(players[k], q)
    BY <1>3, <1>15, ReplayTurns
  <2>3. PICK q \in Player :
                 /\ players' = [players EXCEPT ![k] = q]
                 /\ Turned(players[k], q)
    BY <2>2
  <2>4. players' \in Seq(Player)
    BY <1>3, <2>3 DEF PageTypeOK
  <2>5. generated' \in Seq(Nat)
    <3>1. generated \in Seq(Nat) /\ <<>> \in Seq(Nat)
      BY <1>3 DEF PageTypeOK
    <3>2. CASE q.idx = players[k].idx + 1 /\ q.idx <= Len(tape)
               /\ generated' = Handle(generated, tape[q.idx])
      <4>1. players[k].idx \in Nat /\ tape \in Seq(TapeSet)
        <5>1. players \in Seq(Player) /\ tape \in Seq(TapeSet)
          BY <1>3 DEF PageTypeOK
        <5>2. players[k] \in Player
          BY <5>1
        <5> QED BY <5>1, <5>2 DEF Player
      <4>2. q.idx \in 1 .. Len(tape)
        BY <3>2, <4>1
      <4>3. tape[q.idx] \in TapeSet
        BY <4>1, <4>2
      <4> QED BY <3>1, <3>2, <4>3, HandleMoves
    <3> QED BY <2>3, <3>1, <3>2 DEF Turned
  <2> QED BY <1>3, <2>1, <2>4, <2>5 DEF generationVars, liveVars, PageTypeOK, PageOK
<1>16. GenerationNext /\ UNCHANGED pageVars => UNCHANGED pageVars
  OBVIOUS
<1>17. UNCHANGED demoVars => UNCHANGED pageVars
  BY DEF demoVars
<1> QED BY <1>4, <1>5, <1>6, <1>7, <1>8, <1>9, <1>10, <1>11, <1>12, <1>13, <1>14, <1>15,
           <1>16, <1>17 DEF DemoNext, ReplayStep

\* A chunk or an event adds an item that is newer than all that came the same
\* way, and the first of them begins anew.
LEMMA LiveStep ==
    ASSUME PageInv, [DemoNext]_demoVars
    PROVE  LiveOK'
<1> DEFINE heard == HeardOf(events, at)
           sent == 1 .. chunks
<1>1. PageTypeOK /\ PageOK /\ LiveOK /\ EventsOK
  BY DEF PageInv
<1>2. /\ at \in Nat /\ chunks \in Nat /\ at <= Len(events) /\ chunks <= Len(stream)
      /\ generated \in Seq(Nat)
  BY <1>1 DEF PageTypeOK, PageOK
<1>3. /\ events \in Seq(EventSet) /\ Len(events) \in Nat
      /\ \A i \in 1 .. Len(events) : events[i] \in EventSet
      /\ DOMAIN events = 1 .. Len(events)
  BY DEF PageInv, GenerationInv, GenerationTypeOK
<1>4. sent \in SUBSET Nat /\ heard \in SUBSET Nat
  <2>1. \A i \in 1 .. at : events[i] \in EventSet
    BY <1>2, <1>3
  <2>2. \A i \in 1 .. at : events[i].item \in Nat
    BY <2>1 DEF EventSet
  <2> QED BY <1>2, <2>2 DEF HeardOf
<1>5. HeardOf(events', at) = heard
  <2>1. Kept(events, events')
    BY EventsGrow, DemoStep DEF PageInv
  <2> QED BY <1>2, <1>3, <2>1, HeardStays
<1>6. CASE UNCHANGED <<at, missed, own, chunks, generated, players>>
  BY <1>1, <1>5, <1>6 DEF LiveOK
<1>7. ASSUME NEW T \in SUBSET Nat, heard \subseteq T, NEW x \in Nat
      PROVE  /\ Once(heard, x) \in {0, 1} /\ Once(T, x) \in {0, 1} /\ Once(sent, x) \in {0, 1}
             /\ Once(heard, x) <= Once(T, x)
  BY <1>7 DEF Once
<1>8. \A x \in Nat : Count(generated, x) \in Nat
  BY <1>2, CountMoves
<1>9. CASE Connect
  <2>1. /\ source = "opening" /\ at' = Len(events)
        /\ UNCHANGED <<events, missed, own, chunks, generated, players>>
    BY <1>9 DEF Connect, generationVars, replayVars
  <2>2. ~own'
    BY <1>1, <2>1 DEF PageOK
  <2>3. heard \subseteq HeardOf(events, Len(events))
    BY <1>2, <1>3 DEF HeardOf
  <2>4. HeardOf(events, Len(events)) \in SUBSET Nat
    <3>1. \A i \in 1 .. Len(events) : events[i].item \in Nat
      BY <1>3 DEF EventSet
    <3> QED BY <3>1 DEF HeardOf
  <2>5. ASSUME NEW x \in Nat, players = <<>>
        PROVE  Count(generated, x) <= Once(sent, x) + Once(HeardOf(events, Len(events)), x)
    <3>1. Count(generated, x) <= Once(sent, x) + Once(heard, x)
      BY <1>1, <2>5 DEF LiveOK
    <3> DEFINE all == HeardOf(events, Len(events))
    <3>2. all \in SUBSET Nat /\ heard \subseteq all
      BY <2>3, <2>4
    <3> HIDE DEF heard, sent, all
    <3>3. /\ Once(heard, x) \in {0, 1} /\ Once(all, x) \in {0, 1} /\ Once(sent, x) \in {0, 1}
          /\ Once(heard, x) <= Once(all, x)
      BY <1>7, <3>2
    <3>4. Count(generated, x) <= Once(sent, x) + Once(all, x)
      BY <1>8, <3>1, <3>3
    <3> QED BY <3>4 DEF all
  <2> QED BY <2>1, <2>2, <2>5 DEF LiveOK
<1>10. ASSUME at < Len(events), at' = at + 1, UNCHANGED <<events, own, chunks, players>>
       PROVE  /\ HeardOf(events', at') = heard \cup
                    (IF events[at + 1].type = "step" THEN {events[at + 1].item} ELSE {})
              /\ events[at + 1] \in EventSet
              /\ events[at + 1].type = "request" => at = 0 /\ heard = {}
              /\ events[at + 1].type = "step" =>
                    events[at + 1].item \in Nat /\ \A x \in heard : x < events[at + 1].item
  <2>1. at + 1 \in 1 .. Len(events)
    BY <1>2, <1>3, <1>10
  <2>2. events[at + 1].type = "request" => at = 0
    <3>1. events[at + 1].type = "request" => at + 1 = 1
      BY <1>1, <1>3, <2>1 DEF EventsOK
    <3> QED BY <1>2, <3>1
  <2>3. ASSUME events[at + 1].type = "step", NEW x \in heard PROVE x < events[at + 1].item
    <3>1. PICK i \in 1 .. at : events[i].type = "step" /\ x = events[i].item
      BY DEF HeardOf
    <3>2. i \in DOMAIN events /\ i < at + 1 /\ at + 1 \in DOMAIN events
      BY <1>2, <1>3, <2>1
    <3> QED BY <1>1, <2>3, <3>1, <3>2 DEF EventsOK
  <2>4. HeardOf(events, at + 1) = heard \cup
                    (IF events[at + 1].type = "step" THEN {events[at + 1].item} ELSE {})
    BY <1>2, HeardMoves
  <2>5. HeardOf(events, 0) = {}
    BY HeardMoves
  <2> QED BY <1>3, <1>10, <2>1, <2>2, <2>3, <2>4, <2>5 DEF EventSet
\* What is shown and heard grows by y, which is newer than all of S.
<1>11. ASSUME NEW y \in Nat, NEW S \in SUBSET Nat, \A x \in S : x < y
       PROVE  \A x \in Nat : Once(S \cup {y}, x) = Once(S, x) + Once({y}, x)
  <2>1. y \notin S
    BY <1>11
  <2>2. ASSUME NEW x \in Nat PROVE Once(S \cup {y}, x) = Once(S, x) + Once({y}, x)
    BY <2>1 DEF Once
  <2> QED BY <2>2
<1>12. CASE Message
  <2>1. /\ at < Len(events) /\ at' = at + 1 /\ gotOne
        /\ generated' = Handle(generated, events[at + 1])
        /\ UNCHANGED <<events, missed, own, chunks, players>>
    BY <1>12 DEF Message, generationVars, replayVars
  <2>2. events[at + 1] \in EventSet /\ players = <<>>
    BY <1>1, <1>10, <2>1 DEF PageOK
  <2>3. CASE events[at + 1].type = "request"
    <3>1. generated' = <<>> /\ HeardOf(events', at') = {}
      BY <1>10, <2>1, <2>3 DEF Handle
    <3>2. Embeds({}, <<>>) /\ \A x \in Nat : Count(<<>>, x) = 0
      <4>1. <<>> \in Seq(Nat) /\ 0 \in Nat /\ {} \in SUBSET Nat
        OBVIOUS
      <4> QED BY <4>1, EmbedsMoves, CountMoves
    <3>3. \A x \in Nat : 0 <= Once(sent, x) + Once({}, x)
      BY <1>4 DEF Once
    <3> QED BY <2>1, <3>1, <3>2, <3>3 DEF LiveOK
  <2>4. CASE events[at + 1].type = "step"
    <3>1. PICK y \in Nat : y = events[at + 1].item /\ \A x \in heard : x < y
      BY <1>10, <2>1, <2>4
    <3>2. generated' = Append(generated, y) /\ HeardOf(events', at') = heard \cup {y}
      BY <1>10, <2>1, <2>4, <3>1 DEF Handle
    <3>3. /\ Embeds(sent, generated) => Embeds(sent, generated')
          /\ Embeds(heard, generated) => Embeds(heard \cup {y}, generated')
      <4> HIDE DEF heard, sent
      <4> QED BY <1>2, <1>4, <3>1, <3>2, EmbedsMoves
    <3>4. ASSUME NEW x \in Nat
          PROVE  Count(generated', x) <= Once(sent, x) + Once(heard \cup {y}, x)
      <4>1. Count(generated, x) <= Once(sent, x) + Once(heard, x)
        BY <1>1, <2>2 DEF LiveOK
      <4> HIDE DEF heard, sent
      <4>2. Count(generated', x) = Count(generated, x) + Once({y}, x)
        BY <1>2, <3>2, CountMoves
      <4>3. Once(heard \cup {y}, x) = Once(heard, x) + Once({y}, x)
        BY <1>4, <1>11, <3>1
      <4>4. Once(heard, x) \in Nat /\ Once(sent, x) \in Nat /\ Once({y}, x) \in Nat
        BY DEF Once
      <4> QED BY <1>8, <4>1, <4>2, <4>3, <4>4
    <3> QED BY <1>1, <2>1, <3>2, <3>3, <3>4 DEF LiveOK
  <2> QED BY <2>2, <2>3, <2>4 DEF EventSet
<1>13. CASE MissEvent
  <2>1. /\ at < Len(events) /\ at' = at + 1 /\ gotOne /\ missed' = TRUE
        /\ UNCHANGED <<events, own, chunks, generated, players>>
    BY <1>13 DEF MissEvent, generationVars, replayVars
  <2>2. players = <<>>
    BY <1>1, <2>1 DEF PageOK
  <2>3. heard \subseteq HeardOf(events', at') /\ HeardOf(events', at') \in SUBSET Nat
    BY <1>4, <1>10, <2>1
  <2>4. ASSUME NEW x \in Nat
        PROVE  Count(generated, x) <= Once(sent, x) + Once(HeardOf(events', at'), x)
    <3> DEFINE all == HeardOf(events', at')
    <3>1. Count(generated, x) <= Once(sent, x) + Once(heard, x)
      BY <1>1, <2>2 DEF LiveOK
    <3>2. all \in SUBSET Nat /\ heard \subseteq all
      BY <2>3
    <3> HIDE DEF heard, sent, all
    <3>3. /\ Once(heard, x) \in {0, 1} /\ Once(all, x) \in {0, 1} /\ Once(sent, x) \in {0, 1}
          /\ Once(heard, x) <= Once(all, x)
      BY <1>7, <3>2
    <3>4. Count(generated, x) <= Once(sent, x) + Once(all, x)
      BY <1>8, <3>1, <3>3
    <3> QED BY <3>4 DEF all
  <2> QED BY <2>1, <2>4 DEF LiveOK
<1>14. CASE SendPrompt
  <2>1. /\ ~Made /\ UNCHANGED <<at, missed, chunks, generated, players>>
    BY <1>14 DEF SendPrompt, AddRequest, replayVars
  <2>2. events = <<>> /\ stream = <<>> /\ Len(<<>>) = 0
    BY <1>1, <2>1 DEF EventsOK, Made
  <2>3. chunks = 0 /\ 1 .. 0 = {}
    BY <1>2, <2>2
  <2>4. Embeds({}, generated)
    BY <1>2, <1>4, EmbedsMoves
  <2>5. Embeds(1 .. chunks, generated)
    BY <2>3, <2>4
  <2> QED BY <1>1, <1>5, <2>1, <2>5 DEF LiveOK
<1>15. CASE ReadChunk
  <2>1. /\ own /\ chunks' = chunks + 1 /\ ShowChunk(chunks + 1)
        /\ UNCHANGED <<at, missed, own, players>>
    BY <1>15 DEF ReadChunk, replayVars
  <2>2. players = <<>>
    BY <1>1, <2>1 DEF PageOK
  <2>3. 1 .. chunks + 1 = sent \cup {chunks + 1} /\ chunks + 1 \in Nat
        /\ \A x \in sent : x < chunks + 1
    BY <1>2
  <2>4. PICK y \in Nat : y = chunks + 1 /\ \A x \in sent : x < y
    BY <2>3
  <2>6. CASE y = 1
    <3>1. generated' = <<1>> /\ sent = {} /\ 1 .. chunks' = {1}
      BY <1>2, <2>1, <2>4, <2>6 DEF ShowChunk
    <3>2. <<1>> = Append(<<>>, 1) /\ <<>> \in Seq(Nat) /\ 1 \in Nat
      OBVIOUS
    <3>3. Embeds({1}, <<1>>)
      <4>1. /\ Embeds({}, <<>>)
            /\ {} \in SUBSET Nat /\ \A x \in {} : x < 1
            /\ {} \cup {1} = {1}
        BY <3>2, <1>4, EmbedsMoves
      <4>2. Embeds({} \cup {1}, Append(<<>>, 1))
        BY <3>2, <4>1, EmbedsMoves
      <4> QED BY <3>2, <4>1, <4>2
    <3>4. ASSUME NEW x \in Nat PROVE Count(<<1>>, x) <= Once({1}, x) + Once(heard, x)
      <4>1. Count(Append(<<>>, 1), x) = Count(<<>>, x) + Once({1}, x) /\ Count(<<>>, x) = 0
        BY <3>2, CountMoves
      <4>2. Once({1}, x) \in Nat /\ Once(heard, x) \in Nat
        BY DEF Once
      <4> HIDE DEF heard
      <4>3. Count(<<1>>, x) = 0 + Once({1}, x)
        BY <3>2, <4>1
      <4> QED BY <4>2, <4>3
    <3> QED BY <1>5, <2>1, <3>1, <3>3, <3>4 DEF LiveOK
  <2>7. CASE y # 1
    <3>1. generated' = Append(generated, y) /\ 1 .. chunks' = sent \cup {y}
      BY <2>1, <2>3, <2>4, <2>7 DEF ShowChunk
    <3>2. /\ Embeds(heard, generated) => Embeds(heard, generated')
          /\ Embeds(sent, generated) => Embeds(sent \cup {y}, generated')
      <4> HIDE DEF heard, sent
      <4> QED BY <1>2, <1>4, <2>4, <3>1, EmbedsMoves
    <3>3. ASSUME NEW x \in Nat
          PROVE  Count(generated', x) <= Once(sent \cup {y}, x) + Once(heard, x)
      <4>1. Count(generated, x) <= Once(sent, x) + Once(heard, x)
        BY <1>1, <2>2 DEF LiveOK
      <4> HIDE DEF heard, sent
      <4>2. Count(generated', x) = Count(generated, x) + Once({y}, x)
        BY <1>2, <3>1, CountMoves
      <4>3. Once(sent \cup {y}, x) = Once(sent, x) + Once({y}, x)
        BY <1>4, <1>11, <2>4
      <4>4. Once(heard, x) \in Nat /\ Once(sent, x) \in Nat /\ Once({y}, x) \in Nat
        BY DEF Once
      <4> QED BY <1>8, <4>1, <4>2, <4>3, <4>4
    <3> QED BY <1>1, <1>5, <2>1, <3>1, <3>2, <3>3 DEF LiveOK
  <2> QED BY <2>6, <2>7
<1>16. CASE Loaded
  <2>1. players' # <<>> /\ ~own /\ own' = own
    <3>1. players \in Seq(Player) /\ loading > 0 /\ loading \in Nat
      BY <1>1, <1>16 DEF PageTypeOK, Loaded
    <3>2. ~own
      BY <1>1, <3>1 DEF PageOK
    <3>3. PICK p \in Player : players' = Append(players, p)
      <4>1. [idx |-> 0, paused |-> FALSE, timer |-> TRUE, strays |-> 0] \in Player
        BY DEF Player
      <4> QED BY <1>16, <4>1 DEF Loaded
    <3> QED BY <1>16, <3>1, <3>2, <3>3 DEF Loaded, liveVars
  <2> QED BY <2>1 DEF LiveOK
<1>17. CASE ReplayStep
  <2>1. /\ players # <<>> /\ own' = own
        /\ \E k \in DOMAIN players : \E q \in Player : players' = [players EXCEPT ![k] = q]
    BY <1>1, <1>17, ReplayTurns DEF liveVars
  <2>2. players' # <<>>
    <3>1. PICK k \in DOMAIN players : \E q \in Player : players' = [players EXCEPT ![k] = q]
      BY <2>1
    <3>2. PICK q \in Player : players' = [players EXCEPT ![k] = q]
      BY <3>1
    <3>3. DOMAIN players' = DOMAIN players /\ DOMAIN <<>> = {}
      BY <1>1, <3>2 DEF PageTypeOK
    <3> QED BY <3>3
  <2>3. ~own
    BY <1>1, <2>1 DEF PageOK
  <2> QED BY <2>1, <2>2, <2>3 DEF LiveOK
<1>18. Visit \/ FirstMessage \/ ConnectionFails \/ FallbackTimer \/ UNCHANGED pageVars =>
          UNCHANGED <<at, missed, own, chunks, generated, players>>
  BY DEF Visit, FirstMessage, ConnectionFails, FallbackTimer, pageVars, liveVars, replayVars
<1>19. UNCHANGED demoVars => UNCHANGED pageVars
  BY DEF demoVars
<1> QED BY <1>6, <1>9, <1>12, <1>13, <1>14, <1>15, <1>16, <1>17, <1>18, <1>19
        DEF DemoNext, ReplayStep

\* A timer shows the next event of the tape, and a restart nothing.
LEMMA ReplayTurn ==
    ASSUME NEW p \in Player, NEW q \in Player, Turned(p, q), tape \in Seq(TapeSet),
           generated = Handled(Played(tape, p.idx))
    PROVE  generated' = Handled(Played(tape, q.idx))
<1>1. p.idx \in Nat /\ q.idx \in Nat
  BY DEF Player
<1>2. CASE q.idx = p.idx /\ generated' = generated
  BY <1>2
<1>3. CASE q.idx = 0 /\ generated' = <<>>
  <2>1. Played(tape, 0) = <<>> /\ Played(tape, 0) \in Seq(TapeSet)
    <3>1. 0 \in Nat
      OBVIOUS
    <3> QED BY <3>1, PlayedMoves
  <2>2. [type |-> "step", item |-> 0] \in TapeSet
    BY DEF TapeSet
  <2>3. Handled(<<>>) = <<>>
    BY <2>1, <2>2, HandledOneMore
  <2> QED BY <1>3, <2>1, <2>3
<1>4. CASE /\ q.idx = p.idx + 1
           /\ generated' = IF q.idx <= Len(tape) THEN Handle(generated, tape[q.idx])
                                                 ELSE generated
  <2>1. PICK i \in Nat : i = p.idx
    BY <1>1
  <2>2. /\ Played(tape, i) \in Seq(TapeSet)
        /\ i + 1 <= Len(tape) =>
              tape[i + 1] \in TapeSet /\ Played(tape, i + 1) = Append(Played(tape, i), tape[i + 1])
        /\ ~(i + 1 <= Len(tape)) => Played(tape, i + 1) = Played(tape, i)
    BY PlayedMoves
  <2>3. CASE i + 1 <= Len(tape)
    <3>1. Handled(Append(Played(tape, i), tape[i + 1])) = Handle(Handled(Played(tape, i)), tape[i + 1])
      BY <2>2, <2>3, HandledOneMore
    <3> QED BY <1>4, <2>1, <2>2, <2>3, <3>1
  <2>4. CASE ~(i + 1 <= Len(tape))
    BY <1>4, <2>1, <2>2, <2>4
  <2> QED BY <2>3, <2>4
<1> QED BY <1>2, <1>3, <1>4 DEF Turned

\* A Replayer that is alone is the first, and what is live does not reach it.
LEMMA ReplayStepInv ==
    ASSUME PageInv, [DemoNext]_demoVars
    PROVE  ReplayOK'
<1>1. PageTypeOK /\ PageOK /\ ReplayOK
  BY DEF PageInv
<1>2. players \in Seq(Player) /\ tape \in Seq(TapeSet) /\ Len(players) \in Nat
  BY <1>1 DEF PageTypeOK
<1>3. CASE UNCHANGED <<generated, tape, players>>
  BY <1>1, <1>3 DEF ReplayOK, Goes
<1>4. Message \/ ReadChunk => UNCHANGED players /\ players = <<>>
  BY <1>1 DEF PageOK, Message, ReadChunk, replayVars
<1>5. CASE UNCHANGED players /\ players = <<>>
  <2>1. Len(players') # 1
    BY <1>5
  <2> QED BY <2>1 DEF ReplayOK
<1>6. CASE Loaded
  <2>1. PICK p \in Player : /\ p = [idx |-> 0, paused |-> FALSE, timer |-> TRUE, strays |-> 0]
                            /\ p.idx = 0 /\ p.timer
    <3>1. [idx |-> 0, paused |-> FALSE, timer |-> TRUE, strays |-> 0] \in Player
      BY DEF Player
    <3> QED BY <3>1
  <2>2. players' = Append(players, p) /\ generated' = <<>>
    BY <1>6, <2>1 DEF Loaded, ClearRequests
  <2>3. tape' \in Seq(TapeSet)
    BY PageTypeStep DEF PageTypeOK
  <2>4. Handled(Played(tape', 0)) = <<>>
    <3>1. Played(tape', 0) = <<>> /\ Played(tape', 0) \in Seq(TapeSet) /\ 0 \in Nat
      BY <2>3, PlayedMoves
    <3>2. [type |-> "step", item |-> 0] \in TapeSet
      BY DEF TapeSet
    <3> QED BY <3>1, <3>2, HandledOneMore
  <2>5. Len(players') = 1 => players'[1] = p
    BY <1>2, <2>2
  <2>6. Len(players') = 1 => players'[1].idx = 0 /\ players'[1].timer
    BY <2>1, <2>5
  <2> QED BY <2>2, <2>4, <2>6 DEF ReplayOK, Goes
<1>7. CASE ReplayStep
  <2>1. tape' = tape /\ players # <<>>
    BY <1>1, <1>7, ReplayTurns
  <2>2. PICK k \in DOMAIN players : \E q \in Player :
                 /\ players' = [players EXCEPT ![k] = q]
                 /\ Turned(players[k], q)
    BY <1>1, <1>7, ReplayTurns
  <2>3. PICK q \in Player : /\ players' = [players EXCEPT ![k] = q]
                            /\ Turned(players[k], q)
    BY <2>2
  <2>4. SUFFICES ASSUME Len(players') = 1
                 PROVE  generated' = Handled(Played(tape', players'[1].idx)) /\ Goes(players[1])'
    BY DEF ReplayOK
  <2>5. Len(players) = 1 /\ k = 1 /\ players'[1] = q
    BY <1>2, <2>3, <2>4
  <2>6. PICK p \in Player : p = players[1]
    BY <1>2, <2>5
  <2>7. Goes(p) /\ generated = Handled(Played(tape, p.idx)) /\ Turned(p, q)
    BY <1>1, <2>3, <2>5, <2>6 DEF ReplayOK
  <2>8. generated' = Handled(Played(tape, q.idx)) /\ Goes(q)
    BY <1>2, <2>7, ReplayTurn DEF Turned
  <2>9. q.paused \/ q.idx >= Len(tape') \/ q.timer \/ q.strays > 0
    BY <2>1, <2>8 DEF Goes
  <2>10. Goes(players[1])'
    BY <2>5, <2>9 DEF Goes
  <2> QED BY <2>1, <2>5, <2>8, <2>10
<1>8. SendPrompt \/ Visit \/ Connect \/ FirstMessage \/ MissEvent \/ ConnectionFails
        \/ FallbackTimer \/ UNCHANGED pageVars => UNCHANGED <<generated, tape, players>>
  BY DEF SendPrompt, Visit, Connect, FirstMessage, MissEvent, ConnectionFails, FallbackTimer,
     FallBack, pageVars, replayVars
<1>9. UNCHANGED demoVars => UNCHANGED pageVars
  BY DEF demoVars
<1> QED BY <1>3, <1>4, <1>5, <1>6, <1>7, <1>8, <1>9 DEF DemoNext, ReplayStep

\* The state of a page that is live or replays.
THEOREM PageInvariant == DemoSpec => []PageInv
<1>1. PageInv /\ [DemoNext]_demoVars => PageInv'
  BY GenerationStepInv, EventsStepInv, DemoStep, PageTypeStep, LiveStep, ReplayStepInv DEF PageInv
<1> QED BY <1>1, PageInit, PTL DEF DemoSpec

\* Whatever was pressed, paused, sped up or started again: a Replayer that is
\* alone shows the tape up to where it is, and goes on by itself.
THEOREM ReplayShowsTheTape == DemoSpec => []ReplayFollowsTheTape
<1>1. PageInv => ReplayFollowsTheTape
  <2> SUFFICES ASSUME PageInv, Len(players) = 1
               PROVE  /\ generated = FoldLeft(Handle, <<>>,
                                        SubSeq(tape, 1, Min({players[1].idx, Len(tape)})))
                      /\ (~players[1].paused /\ players[1].idx < Len(tape)) =>
                            players[1].timer \/ players[1].strays > 0
    BY DEF ReplayFollowsTheTape, current
  <2>1. generated = Handled(Played(tape, players[1].idx)) /\ Goes(players[1])
    BY DEF PageInv, ReplayOK
  <2>2. players[1].idx \in Nat /\ Len(tape) \in Nat
    <3>1. players \in Seq(Player) /\ tape \in Seq(TapeSet)
      BY DEF PageInv, PageTypeOK
    <3>2. players[1] \in Player
      BY <3>1
    <3> QED BY <3>1, <3>2 DEF Player
  <2> QED BY <2>1, <2>2 DEF Handled, Played, Goes
<1> QED BY <1>1, PageInvariant, PTL

\* A visitor who sent the request and missed no event sees what came as a
\* chunk and as an event, in order, and nothing more than twice.
THEOREM LivePageKeepsEverything == DemoSpec => []LivePageLosesNothing
<1>1. PageInv => LivePageLosesNothing
  <2> SUFFICES ASSUME PageInv, own, ~missed PROVE LivePageLosesNothing
    BY DEF LivePageLosesNothing
  <2> DEFINE heard == HeardOf(events, at)
             sent == 1 .. chunks
  <2>1. PageTypeOK /\ PageOK /\ LiveOK
    BY DEF PageInv
  <2>2. mode = "live" /\ players = <<>>
    BY <2>1 DEF PageOK
  <2>3. /\ generated \in Seq(Nat) /\ chunks \in Nat /\ at \in Nat /\ at <= Len(events)
        /\ events \in Seq(EventSet) /\ Len(events) \in Nat
    BY <2>1 DEF PageTypeOK, PageOK, PageInv, GenerationInv, GenerationTypeOK
  <2>4. sent \in SUBSET Nat /\ heard \in SUBSET Nat
    <3>1. \A i \in 1 .. at : events[i] \in EventSet
      BY <2>3
    <3>2. \A i \in 1 .. at : events[i].item \in Nat
      BY <3>1 DEF EventSet
    <3> QED BY <2>3, <3>2 DEF HeardOf
  <2>5. CameBothWays \in SUBSET sent
    BY DEF CameBothWays
  <2>6. CameBothWays \in SUBSET heard
    <3> SUFFICES ASSUME NEW x \in CameBothWays PROVE x \in heard
      OBVIOUS
    <3>1. PICK i \in 1 .. at : events[i] = Event("step", x)
      BY DEF CameBothWays
    <3>2. events[i].type = "step" /\ events[i].item = x
      BY <3>1 DEF Event
    <3> QED BY <3>2 DEF HeardOf
  <2>7. Embeds(sent, generated) \/ Embeds(heard, generated)
    BY <2>1 DEF LiveOK
  <2>8. Embeds(CameBothWays, generated)
    <3> HIDE DEF sent, heard
    <3> QED BY <2>3, <2>4, <2>5, <2>6, <2>7, EmbedsMoves
  <2>9. ASSUME NEW x \in Range(generated) PROVE Count(generated, x) <= 2
    <3>1. x \in Nat
      BY <2>3 DEF Range
    <3>2. Count(generated, x) <= Once(sent, x) + Once(heard, x)
      BY <2>1, <2>2, <3>1 DEF LiveOK
    <3> HIDE DEF sent, heard
    <3>3. Once(sent, x) \in {0, 1} /\ Once(heard, x) \in {0, 1}
      BY DEF Once
    <3>4. Count(generated, x) \in Nat
      BY <2>3, CountMoves
    <3> QED BY <3>2, <3>3, <3>4
  <2> QED BY <2>2, <2>8, <2>9 DEF LivePageLosesNothing, Embeds, Count
<1> QED BY <1>1, PageInvariant, PTL
=============================================================================
