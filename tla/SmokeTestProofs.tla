---------------------------- MODULE SmokeTestProofs ----------------------------
(***************************************************************************)
(* What becomes of systems between the servers and a program that draws    *)
(* them, for any systems, attributes, maps and lists, of any size and with *)
(* any radii, pointers or none.                                            *)
(*                                                                         *)
(* SpaceInv (types, how far the loops of Physics have come, and the        *)
(* spheres there are for it) and ParentInv, of branches with pointers, are *)
(* about the placement.  StringInv is about what is interpreted and        *)
(* sorted, FileInv about the file of attributes.  The proofs about         *)
(* getSystem, getPoints and what is read and written follow the loops of   *)
(* the code one turn at a time.                                            *)
(***************************************************************************)
EXTENDS SmokeTest, SequenceTheorems, FiniteSetTheorems, WellFoundedInduction, TLAPS

-----------------------------------------------------------------------------
(* Numbers and sequences *)

LEMMA LeastNatural ==
  ASSUME NEW T \in SUBSET Nat, T # {}
  PROVE  \E n \in T : \A m \in T : n <= m
<1>1. PICK x \in T : \A y \in T : ~(<<y, x>> \in OpToRel(<, Nat))
  BY NatLessThanWellFounded, WFMin
<1>2. \A y \in T : ~(y < x)
  BY <1>1 DEF OpToRel
<1> QED BY <1>2

(* Of numbers up to n there is a greatest, and n is if it is one of them. *)
LEMMA Greatest ==
  ASSUME NEW n \in Nat, NEW s \in SUBSET (1 .. n), s # {}
  PROVE  /\ Max(s) \in s /\ (n \in s => Max(s) = n)
         /\ \A l \in s : l <= Max(s)
<1> DEFINE T == {n - k : k \in s}
<1>1. T \in SUBSET Nat /\ T # {}
  <2>1. \A k \in s : n - k \in Nat
    OBVIOUS
  <2> QED BY <2>1
<1>2. PICK m \in T : \A o \in T : m <= o
  BY <1>1, LeastNatural
<1>3. PICK k \in s : m = n - k
  OBVIOUS
<1>4. \A l \in s : k >= l
  <2> TAKE l \in s
  <2>1. n - l \in T
    OBVIOUS
  <2>2. m <= n - l
    BY <1>2, <2>1
  <2> QED BY <1>3, <2>2
<1>5. Max(s) \in s /\ \A l \in s : Max(s) >= l
  BY <1>4 DEF Max
<1>6. n \in s => Max(s) >= n
  BY <1>5
<1>7. Max(s) \in 1 .. n
  BY <1>5
<1>8. \A l \in s : l <= Max(s)
  BY <1>5, <1>7
<1> QED BY <1>5, <1>6, <1>7, <1>8

(* A sequence of whatever, and a list of such: texts, points, brackets *)
IsSeq(s) == \E S : s \in Seq(S)
IsList(ss) == \E S : ss \in Seq(Seq(S))

LEMMA Associative ==
  \A S : \A r, s, t \in Seq(S) : (r \o s) \o t = r \o (s \o t)
<1> TAKE S
<1> TAKE r \in Seq(S), s \in Seq(S), t \in Seq(S)
<1> QED BY ConcatAssociative

(* f is what FlattenSeq unrolls of the first n of ss. *)
Unrolled(ss, n, f) == f = [k \in 1 .. n |-> IF k = 1 THEN ss[k] ELSE f[k - 1] \o ss[k]]

LEMMA FlattenUnrolls ==
  ASSUME NEW ss, Len(ss) # 0
  PROVE  FlattenSeq(ss) = (CHOOSE f : Unrolled(ss, Len(ss), f))[Len(ss)]
  BY DEF FlattenSeq, Unrolled

LEMMA FlattenNothing ==
  FlattenSeq(<<>>) = <<>>
<1>1. Len(<<>>) = 0
  OBVIOUS
<1> QED BY <1>1 DEF FlattenSeq

(* It unrolls, and in one way. *)
LEMMA UnrolledExists ==
  ASSUME NEW S, NEW ss \in Seq(Seq(S)), NEW n \in Nat, n <= Len(ss)
  PROVE  \E f \in [1 .. n -> Seq(S)] : Unrolled(ss, n, f)
<1> DEFINE T == {m \in Nat : m <= Len(ss) /\ ~ \E f \in [1 .. m -> Seq(S)] : Unrolled(ss, m, f)}
<1> SUFFICES ASSUME T # {} PROVE FALSE
  OBVIOUS
<1>1. PICK m \in T : \A j \in T : m <= j
  <2>1. T \in SUBSET Nat
    OBVIOUS
  <2> HIDE DEF T
  <2> QED BY <2>1, LeastNatural
<1>2. Len(ss) \in Nat
  BY LenProperties
<1>3. CASE m = 0
  <2> DEFINE f == [k \in 1 .. 0 |-> IF k = 1 THEN ss[k] ELSE <<>>]
  <2>1. f \in [1 .. 0 -> Seq(S)]
    OBVIOUS
  <2>2. Unrolled(ss, 0, f)
    BY DEF Unrolled
  <2> QED BY <1>1, <1>3, <2>1, <2>2
<1>4. CASE m # 0
  <2>1. m - 1 \in Nat /\ m - 1 <= Len(ss) /\ m - 1 \notin T
    <3>1. m \in Nat /\ m <= Len(ss)
      BY <1>1
    <3>2. ~(m <= m - 1)
      BY <3>1
    <3>3. m - 1 \notin T
      <4> HIDE DEF T
      <4> QED BY <1>1, <3>2
    <3> QED BY <1>2, <1>4, <3>1, <3>3
  <2>2. PICK f \in [1 .. (m - 1) -> Seq(S)] : Unrolled(ss, m - 1, f)
    BY <2>1
  <2> DEFINE g == [k \in 1 .. m |-> IF k < m THEN f[k]
                                    ELSE IF k = 1 THEN ss[k] ELSE f[k - 1] \o ss[k]]
  <2>3. \A k \in 1 .. m : ss[k] \in Seq(S)
    BY <1>1, <1>2, ElementOfSeq
  <2>4. g \in [1 .. m -> Seq(S)]
    <3>1. ASSUME NEW k \in 1 .. m PROVE g[k] \in Seq(S)
      <4>1. CASE k < m
        BY <4>1, <1>1
      <4>2. CASE k = m /\ k = 1
        BY <4>2, <2>3
      <4>3. CASE k = m /\ k # 1
        <5>1. k - 1 \in 1 .. (m - 1)
          BY <4>3, <1>1
        <5> QED BY <4>3, <5>1, <2>3, ConcatProperties
      <4> QED BY <1>1, <4>1, <4>2, <4>3
    <3> QED BY <3>1
  <2>5. \A k \in 1 .. m : g[k] = IF k = 1 THEN ss[k] ELSE g[k - 1] \o ss[k]
    <3> TAKE k \in 1 .. m
    <3>1. CASE k < m
      <4>1. k \in 1 .. (m - 1) /\ g[k] = f[k]
        BY <3>1, <1>1
      <4>2. f[k] = IF k = 1 THEN ss[k] ELSE f[k - 1] \o ss[k]
        BY <2>2, <4>1 DEF Unrolled
      <4>3. k # 1 => k - 1 \in 1 .. m /\ k - 1 < m
        BY <3>1, <1>1
      <4>4. k # 1 => g[k - 1] = f[k - 1]
        BY <4>3
      <4> QED BY <4>1, <4>2, <4>4
    <3>2. CASE k = m
      <4>1. k # 1 => k - 1 \in 1 .. m /\ k - 1 < m
        BY <3>2, <1>1
      <4>2. k # 1 => g[k - 1] = f[k - 1]
        BY <4>1
      <4>3. g[k] = IF k = 1 THEN ss[k] ELSE f[k - 1] \o ss[k]
        BY <3>2, <1>1
      <4> QED BY <4>2, <4>3
    <3> QED BY <1>1, <3>1, <3>2
  <2>6. DOMAIN g = 1 .. m
    OBVIOUS
  <2> HIDE DEF g
  <2>7. Unrolled(ss, m, g)
    BY <2>4, <2>5, <2>6 DEF Unrolled
  <2> QED BY <1>1, <2>4, <2>7
<1> QED BY <1>3, <1>4

LEMMA UnrolledAt ==
  ASSUME NEW ss, NEW n, NEW f, Unrolled(ss, n, f), NEW k \in 1 .. n
  PROVE  f[k] = IF k = 1 THEN ss[k] ELSE f[k - 1] \o ss[k]
  BY DEF Unrolled

Agree(f, g, n) == \A k \in 1 .. n : f[k] = g[k]

LEMMA UnrolledOnce ==
  ASSUME NEW ss, NEW tt, NEW m \in Nat, NEW n \in Nat, NEW f, NEW g,
         Unrolled(ss, m, f), Unrolled(tt, n, g), m <= n, Agree(ss, tt, m)
  PROVE  Agree(f, g, m)
<1> USE DEF Agree
<1> DEFINE T == {k \in 1 .. m : f[k] # g[k]}
<1> SUFFICES ASSUME T # {} PROVE FALSE
  OBVIOUS
<1>1. PICK k \in T : \A j \in T : k <= j
  <2>1. T \in SUBSET Nat
    OBVIOUS
  <2> HIDE DEF T
  <2> QED BY <2>1, LeastNatural
<1>2. k \in 1 .. m /\ k \in 1 .. n
  BY <1>1
<1>3. /\ f[k] = IF k = 1 THEN ss[k] ELSE f[k - 1] \o ss[k]
      /\ g[k] = IF k = 1 THEN tt[k] ELSE g[k - 1] \o tt[k]
  BY <1>2 DEF Unrolled
<1>4. k # 1 => k - 1 \in 1 .. m /\ k - 1 \notin T
  BY <1>1, <1>2
<1>5. k # 1 => f[k - 1] = g[k - 1]
  BY <1>4
<1> QED BY <1>1, <1>2, <1>3, <1>5

LEMMA FlattenOne ==
  ASSUME NEW S, NEW ss \in Seq(Seq(S)), NEW t \in Seq(S)
  PROVE  /\ FlattenSeq(ss) \in Seq(S)
         /\ FlattenSeq(Append(ss, t)) = FlattenSeq(ss) \o t
<1> DEFINE tt == Append(ss, t)
           n == Len(ss)
<1>1. /\ n \in Nat /\ tt \in Seq(Seq(S)) /\ Len(tt) = n + 1 /\ tt[n + 1] = t
      /\ \A k \in 1 .. n : tt[k] = ss[k]
  BY LenProperties, AppendProperties
<1> HIDE DEF tt, n
<1> DEFINE G == CHOOSE f : Unrolled(tt, n + 1, f)
<1>2. FlattenSeq(tt) = G[n + 1] /\ Unrolled(tt, n + 1, G)
  <2>1. Len(tt) # 0 /\ n + 1 \in Nat /\ n + 1 <= Len(tt)
    BY <1>1
  <2>2. \E f \in [1 .. (n + 1) -> Seq(S)] : Unrolled(tt, n + 1, f)
    BY <1>1, <2>1, UnrolledExists
  <2>3. FlattenSeq(tt) = (CHOOSE f : Unrolled(tt, Len(tt), f))[Len(tt)]
    BY <2>1, FlattenUnrolls
  <2>4. Unrolled(tt, n + 1, G)
    BY <2>2
  <2> QED BY <1>1, <2>3, <2>4
<1> HIDE DEF G
<1>3. /\ n = 0 => G[n + 1] = tt[n + 1]
      /\ n # 0 => G[n + 1] = G[n] \o tt[n + 1]
  <2>1. n + 1 \in 1 .. (n + 1)
    BY <1>1
  <2>2. PICK k \in 1 .. (n + 1) : k = n + 1
    BY <2>1
  <2>3. G[k] = IF k = 1 THEN tt[k] ELSE G[k - 1] \o tt[k]
    BY <1>2, UnrolledAt
  <2>4. (n = 0 => k = 1) /\ (n # 0 => k # 1 /\ k - 1 = n)
    <3>1. n \in Nat
      BY <1>1
    <3> QED BY <2>2, <3>1
  <2>5. (n = 0 => G[k] = tt[k]) /\ (n # 0 => G[k] = G[n] \o tt[k])
    BY <2>3, <2>4
  <2> QED BY <2>2, <2>5
<1>4. CASE n = 0
  <2>1. ss = <<>>
    BY <1>4, EmptySeq DEF n
  <2>2. FlattenSeq(ss) = <<>> /\ <<>> \in Seq(S)
    BY <2>1, FlattenNothing
  <2>3. FlattenSeq(tt) = t
    BY <1>1, <1>2, <1>3, <1>4
  <2>4. <<>> \o t = t
    BY ConcatEmptySeq
  <2> QED BY <2>2, <2>3, <2>4 DEF tt
<1>5. CASE n # 0
  <2> DEFINE F == CHOOSE f : Unrolled(ss, n, f)
  <2>1. PICK f \in [1 .. n -> Seq(S)] : Unrolled(ss, n, f)
    <3>1. n \in Nat /\ n <= Len(ss)
      BY <1>1 DEF n
    <3> QED BY <3>1, UnrolledExists
  <2>2. FlattenSeq(ss) = F[n]
    BY <1>5, FlattenUnrolls DEF n
  <2>3. Unrolled(ss, n, F)
    BY <2>1
  <2> HIDE DEF F
  <2>4. n \in 1 .. n /\ n + 1 \in Nat /\ n <= n + 1
    BY <1>1, <1>5
  <2>5. F[n] = f[n]
    <3>1. Agree(ss, ss, n)
      BY DEF Agree
    <3>2. Agree(F, f, n)
      BY <1>1, <2>1, <2>3, <3>1, UnrolledOnce
    <3> QED BY <2>4, <3>2 DEF Agree
  <2>6. F[n] = G[n]
    <3>1. Agree(ss, tt, n)
      BY <1>1 DEF Agree
    <3>2. Agree(F, G, n)
      BY <1>1, <1>2, <2>3, <2>4, <3>1, UnrolledOnce
    <3> QED BY <2>4, <3>2 DEF Agree
  <2>7. FlattenSeq(tt) = FlattenSeq(ss) \o t
    BY <1>1, <1>2, <1>3, <2>2, <2>4, <2>6
  <2>8. f[n] \in Seq(S)
    BY <2>1, <2>4
  <2> QED BY <2>2, <2>5, <2>7, <2>8 DEF tt
<1> QED BY <1>4, <1>5

-----------------------------------------------------------------------------
(* getPoints goes through the items in their order. *)

Start == [stack_cursor |-> 0, branches |-> [k \in {} |-> <<>>], points |-> <<>>]
Sorts(f, items, n) ==
    f = [s \in SUBSET (1 .. n) |->
            IF s = {} THEN Start ELSE Sorted(f[s \ {Max(s)}], items[Max(s)])]

LEMMA SortsExists ==
  ASSUME NEW items, NEW n \in Nat
  PROVE  \E f : Sorts(f, items, n)
<1> DEFINE T == {m \in Nat : ~ \E f : Sorts(f, items, m)}
<1> SUFFICES ASSUME T # {} PROVE FALSE
  OBVIOUS
<1>1. PICK m \in T : \A l \in T : m <= l
  <2>1. T \in SUBSET Nat
    OBVIOUS
  <2> HIDE DEF T
  <2> QED BY <2>1, LeastNatural
<1>2. CASE m = 0
  <2> DEFINE f == [s \in SUBSET (1 .. 0) |-> Start]
  <2>1. SUBSET (1 .. 0) = {{}}
    OBVIOUS
  <2>2. Sorts(f, items, 0)
    BY <2>1, Zenon DEF Sorts
  <2> QED BY <1>1, <1>2, <2>2
<1>3. CASE m # 0
  <2>1. m \in Nat /\ m - 1 \in Nat /\ ~(m <= m - 1)
    BY <1>1, <1>3
  <2>2. m - 1 \notin T
    <3> HIDE DEF T
    <3> QED BY <1>1, <2>1
  <2>3. PICK f : Sorts(f, items, m - 1)
    BY <2>1, <2>2
  <2> DEFINE g == [s \in SUBSET (1 .. m) |->
                      IF m \in s THEN Sorted(f[s \ {m}], items[m]) ELSE f[s]]
  <2>4. ASSUME NEW s \in SUBSET (1 .. m)
        PROVE  g[s] = IF s = {} THEN Start ELSE Sorted(g[s \ {Max(s)}], items[Max(s)])
    <3>1. CASE m \in s
      <4>1. Max(s) = m /\ s # {}
        BY <2>1, <3>1, Greatest
      <4>2. s \ {m} \in SUBSET (1 .. m) /\ m \notin s \ {m}
        OBVIOUS
      <4>3. g[s \ {m}] = f[s \ {m}]
        BY <4>2
      <4> QED BY <3>1, <4>1, <4>3
    <3>2. CASE m \notin s
      <4>1. s \in SUBSET (1 .. m - 1) /\ g[s] = f[s]
        BY <2>1, <3>2
      <4>2. g[s] = IF s = {} THEN Start ELSE Sorted(f[s \ {Max(s)}], items[Max(s)])
        BY <2>3, <4>1, Zenon DEF Sorts
      <4>3. s \ {Max(s)} \in SUBSET (1 .. m) /\ m \notin s \ {Max(s)}
        BY <3>2
      <4>4. g[s \ {Max(s)}] = f[s \ {Max(s)}]
        BY <4>3
      <4> QED BY <4>2, <4>4
    <3> QED BY <3>1, <3>2
  <2>5. DOMAIN g = SUBSET (1 .. m) /\ g = [s \in SUBSET (1 .. m) |-> g[s]]
    OBVIOUS
  <2> HIDE DEF g
  <2>6. Sorts(g, items, m)
    BY <2>4, <2>5, Zenon DEF Sorts
  <2> QED BY <1>1, <2>6
<1> QED BY <1>2, <1>3

(* What has come of the first n items, for each n *)
LEMMA SortsInOrder ==
  ASSUME NEW items, NEW l \in Nat, DOMAIN items = 1 .. l
  PROVE  \E G : /\ G[0] = Start
                /\ \A n \in 1 .. l : G[n] = Sorted(G[n - 1], items[n])
                /\ FoldLeft(Sorted, Start, items) = G[l]
<1> DEFINE iter == CHOOSE f : Sorts(f, items, l)
<1>1. FoldLeft(Sorted, Start, items) = iter[1 .. l]
  BY DEF FoldLeft, MapThenFoldSet, Sorts
<1>2. Sorts(iter, items, l)
  BY SortsExists
<1> HIDE DEF iter
<1>3. \A s \in SUBSET (1 .. l) :
         iter[s] = IF s = {} THEN Start ELSE Sorted(iter[s \ {Max(s)}], items[Max(s)])
  BY <1>2, Zenon DEF Sorts
<1> DEFINE G == [n \in 0 .. l |-> iter[1 .. n]]
<1>4. G[0] = Start /\ G[l] = iter[1 .. l]
  <2>1. 1 .. 0 = {} /\ {} \in SUBSET (1 .. l) /\ 0 \in 0 .. l /\ l \in 0 .. l
    OBVIOUS
  <2> QED BY <1>3, <2>1
<1>5. ASSUME NEW n \in 1 .. l PROVE G[n] = Sorted(G[n - 1], items[n])
  <2>1. 1 .. n \in SUBSET (1 .. l) /\ n \in 1 .. n /\ n \in Nat
    OBVIOUS
  <2>2. Max(1 .. n) = n
    BY <2>1, Greatest
  <2>3. (1 .. n) \ {n} = 1 .. n - 1
    OBVIOUS
  <2>4. iter[1 .. n] = Sorted(iter[1 .. n - 1], items[n])
    BY <1>3, <2>1, <2>2, <2>3
  <2> QED BY <2>4
<1> HIDE DEF G
<1> QED BY <1>1, <1>4, <1>5

(* How many brackets are open *)
LEMMA DepthGoesOn ==
  ASSUME NEW items
  PROVE  /\ Depth(items, 0) = 0
         /\ \A n \in Nat : Depth(items, n) \in Int
         /\ \A n \in Nat \ {0} :
               Depth(items, n) = Depth(items, n - 1) + (IF items[n] = OpenBracket THEN 1
                                                        ELSE IF items[n] = CloseBracket THEN -1 ELSE 0)
<1> DEFINE Those(n, b) == {k \in 1 .. n : items[k] = b}
<1>1. \A n : Depth(items, n) = Cardinality(Those(n, OpenBracket)) - Cardinality(Those(n, CloseBracket))
  BY DEF Depth, Count, IsOpen, IsClose
<1>2. ASSUME NEW b
      PROVE  Cardinality(Those(0, b)) = 0
  <2>1. Those(0, b) = {}
    OBVIOUS
  <2> QED BY <2>1, FS_EmptySet
<1>3. ASSUME NEW n \in Nat, NEW b
      PROVE  IsFiniteSet(Those(n, b)) /\ Cardinality(Those(n, b)) \in Nat
  <2>1. IsFiniteSet(1 .. n)
    BY FS_Interval
  <2>2. IsFiniteSet(Those(n, b))
    BY <2>1, FS_Subset
  <2> QED BY <2>2, FS_CardinalityType
<1>4. ASSUME NEW n \in Nat \ {0}, NEW b
      PROVE  Cardinality(Those(n, b)) = Cardinality(Those(n - 1, b)) + (IF items[n] = b THEN 1 ELSE 0)
  <2>1. n - 1 \in Nat /\ n \notin Those(n - 1, b)
    OBVIOUS
  <2>2. CASE items[n] = b
    <3>1. Those(n, b) = Those(n - 1, b) \cup {n}
      BY <2>2
    <3>2. IsFiniteSet(Those(n - 1, b)) /\ Cardinality(Those(n - 1, b)) \in Nat
      BY <1>3, <2>1
    <3>3. Cardinality(Those(n, b)) = Cardinality(Those(n - 1, b)) + 1
      <4> HIDE DEF Those
      <4> QED BY <2>1, <3>1, <3>2, FS_AddElement
    <3> QED BY <2>2, <3>3
  <2>3. CASE items[n] # b
    <3>1. Those(n, b) = Those(n - 1, b)
      BY <2>3
    <3>2. Cardinality(Those(n - 1, b)) \in Nat
      BY <1>3, <2>1
    <3> HIDE DEF Those
    <3> QED BY <2>3, <3>1, <3>2
  <2> QED BY <2>2, <2>3
<1>5. OpenBracket # CloseBracket
  BY DEF OpenBracket, CloseBracket
<1> HIDE DEF Those
<1>6. ASSUME NEW n \in Nat PROVE Depth(items, n) \in Int
  BY <1>1, <1>3
<1>7. ASSUME NEW n \in Nat \ {0}
      PROVE  Depth(items, n) = Depth(items, n - 1) + (IF items[n] = OpenBracket THEN 1
                                                      ELSE IF items[n] = CloseBracket THEN -1 ELSE 0)
  <2>1. /\ Cardinality(Those(n - 1, OpenBracket)) \in Nat
        /\ Cardinality(Those(n - 1, CloseBracket)) \in Nat
    BY <1>3
  <2>2. /\ Cardinality(Those(n, OpenBracket))
             = Cardinality(Those(n - 1, OpenBracket)) + (IF items[n] = OpenBracket THEN 1 ELSE 0)
        /\ Cardinality(Those(n, CloseBracket))
             = Cardinality(Those(n - 1, CloseBracket)) + (IF items[n] = CloseBracket THEN 1 ELSE 0)
    BY <1>4
  <2> QED BY <1>1, <1>5, <2>1, <2>2
<1>8. Depth(items, 0) = 0
  BY <1>1, <1>2
<1> QED BY <1>6, <1>7, <1>8

(* A sequence is what comes before its last element, and that one. *)
LEMMA LastOne ==
  ASSUME NEW T, NEW n \in Nat \ {0}, NEW f \in [1 .. n -> T]
  PROVE  /\ [m \in 1 .. n - 1 |-> f[m]] \in Seq(T) /\ f[n] \in T
         /\ f = Append([m \in 1 .. n - 1 |-> f[m]], f[n])
<1> DEFINE g == [m \in 1 .. n - 1 |-> f[m]]
<1>1. n - 1 \in Nat /\ g \in [1 .. n - 1 -> T] /\ n \in 1 .. n /\ f[n] \in T
  OBVIOUS
<1>2. g \in Seq(T) /\ Len(g) = n - 1 /\ f \in Seq(T) /\ Len(f) = n
  BY <1>1, SeqDef
<1>3. /\ Append(g, f[n]) \in Seq(T) /\ Len(Append(g, f[n])) = n
      /\ \A m \in 1 .. n - 1 : Append(g, f[n])[m] = g[m]
      /\ Append(g, f[n])[n] = f[n]
  BY <1>1, <1>2, AppendProperties
<1>4. \A m \in 1 .. n - 1 : g[m] = f[m]
  OBVIOUS
<1> HIDE DEF g
<1>5. \A m \in 1 .. n : f[m] = Append(g, f[n])[m]
  BY <1>3, <1>4
<1>6. f = Append(g, f[n])
  BY <1>2, <1>3, <1>5, SeqEqual
<1> QED BY <1>1, <1>2, <1>6 DEF g

(* The points at a depth, of the first n items *)
Alone(items, d, n) ==
    IF Len(items[n]) = 3 /\ Depth(items, n) = d THEN <<items[n]>> ELSE <<>>
Here(items, d, n) == FlattenSeq([m \in 1 .. n |-> Alone(items, d, m)])

LEMMA HereGoesOn ==
  ASSUME NEW S, NEW items \in Seq(S), NEW d, NEW n \in 1 .. Len(items)
  PROVE  /\ Here(items, d, 0) = <<>>
         /\ Here(items, d, n - 1) \in Seq(S) /\ Here(items, d, n) \in Seq(S)
         /\ Here(items, d, n) = Here(items, d, n - 1) \o Alone(items, d, n)
<1>1. Len(items) \in Nat
  BY LenProperties
<1>2. \A m \in 1 .. n : items[m] \in S
  BY <1>1, ElementOfSeq
<1>3. \A m \in 1 .. n : Alone(items, d, m) \in Seq(S)
  BY <1>2 DEF Alone
<1> DEFINE f == [m \in 1 .. n |-> Alone(items, d, m)]
           g == [m \in 1 .. n - 1 |-> f[m]]
<1>4. f \in [1 .. n -> Seq(S)] /\ n \in Nat \ {0}
  BY <1>1, <1>3
<1>5. g = [m \in 1 .. n - 1 |-> Alone(items, d, m)] /\ f[n] = Alone(items, d, n)
  BY <1>1
<1>6. g \in Seq(Seq(S)) /\ f[n] \in Seq(S) /\ f = Append(g, f[n])
  <2> HIDE DEF f
  <2> QED BY <1>4, LastOne
<1>7. Here(items, d, n) = FlattenSeq(f) /\ Here(items, d, n - 1) = FlattenSeq(g)
  BY <1>5 DEF Here
<1> HIDE DEF f, g
<1>8. FlattenSeq(g) \in Seq(S) /\ FlattenSeq(Append(g, f[n])) = FlattenSeq(g) \o f[n]
  BY <1>6, FlattenOne
<1>9. FlattenSeq(g) \o f[n] \in Seq(S)
  BY <1>6, <1>8, ConcatProperties
<1>10. Here(items, d, 0) = <<>>
  <2>1. [m \in 1 .. 0 |-> Alone(items, d, m)] = <<>>
    OBVIOUS
  <2> QED BY <2>1, FlattenNothing DEF Here
<1> QED BY <1>5, <1>6, <1>7, <1>8, <1>9, <1>10

(* A branch that is not there has no points. *)
At(branches, d) == IF d \in DOMAIN branches THEN branches[d] ELSE <<>>

(* The depth as an unsigned int, and back *)
Fits(d) == d \in -(UintSize \div 2) .. UintSize \div 2 - 1
Cursor(d) == IF d >= 0 THEN d ELSE d + UintSize

LEMMA CursorMoves ==
  ASSUME NEW d \in Int, Fits(d)
  PROVE  /\ Key(Cursor(d)) = d
         /\ Cursor(d) \in Nat /\ Cursor(d) < UintSize
         /\ (Cursor(d) + 0) % UintSize = Cursor(d)
         /\ Fits(d + 1) => (Cursor(d) + 1) % UintSize = Cursor(d + 1)
         /\ Fits(d - 1) => (Cursor(d) + (UintSize - 1)) % UintSize = Cursor(d - 1)
<1>1. UintSize \in Nat \ {0}
  BY GenericAssumption
<1>2. PICK h \in Nat : h = UintSize \div 2 /\ 2 * h <= UintSize /\ UintSize <= 2 * h + 1
  BY <1>1
<1>3. -h <= d /\ d <= h - 1
  BY <1>2 DEF Fits
<1>4. Cursor(d) \in Nat /\ Cursor(d) < UintSize
  BY <1>1, <1>2, <1>3 DEF Cursor
<1>5. Key(Cursor(d)) = d
  BY <1>1, <1>2, <1>3 DEF Cursor, Key
<1>6. \A a \in Nat : /\ a < UintSize => a % UintSize = a
                     /\ a >= UintSize /\ a < 2 * UintSize => a % UintSize = a - UintSize
  BY <1>1
<1>7. (Cursor(d) + 0) % UintSize = Cursor(d)
  BY <1>4, <1>6
<1>8. Fits(d + 1) => (Cursor(d) + 1) % UintSize = Cursor(d + 1)
  <2>1. SUFFICES ASSUME d + 1 <= h - 1 PROVE (Cursor(d) + 1) % UintSize = Cursor(d + 1)
    BY <1>2 DEF Fits
  <2>2. CASE d = -1
    <3>1. Cursor(d) + 1 = UintSize /\ Cursor(d + 1) = 0
      BY <1>1, <2>2 DEF Cursor
    <3>2. UintSize % UintSize = UintSize - UintSize
      BY <1>1, <1>6
    <3> QED BY <1>1, <3>1, <3>2
  <2>3. CASE d # -1
    <3>1. Cursor(d + 1) = Cursor(d) + 1 /\ Cursor(d) + 1 < UintSize /\ Cursor(d) + 1 \in Nat
      BY <1>1, <1>2, <1>3, <2>1, <2>3 DEF Cursor
    <3> QED BY <1>6, <3>1
  <2> QED BY <2>2, <2>3
<1>9. Fits(d - 1) => (Cursor(d) + (UintSize - 1)) % UintSize = Cursor(d - 1)
  <2>1. SUFFICES ASSUME -h <= d - 1 PROVE (Cursor(d) + (UintSize - 1)) % UintSize = Cursor(d - 1)
    BY <1>2 DEF Fits
  <2>2. CASE d = 0
    <3>1. Cursor(d) + (UintSize - 1) = UintSize - 1 /\ Cursor(d - 1) = UintSize - 1
      BY <1>1, <2>2 DEF Cursor
    <3>2. UintSize - 1 \in Nat /\ UintSize - 1 < UintSize
      BY <1>1
    <3> QED BY <1>6, <3>1, <3>2
  <2>3. CASE d # 0
    <3>1. Cursor(d) >= 1 /\ Cursor(d - 1) = Cursor(d) - 1
      BY <1>1, <1>2, <1>3, <2>1, <2>3 DEF Cursor
    <3>2. PICK a \in Nat : a = Cursor(d) + (UintSize - 1) /\ a >= UintSize /\ a < 2 * UintSize
      BY <1>1, <1>4, <3>1
    <3>3. a % UintSize = a - UintSize
      BY <1>6, <3>2
    <3> QED BY <1>1, <1>4, <3>1, <3>2, <3>3
  <2> QED BY <2>2, <2>3
<1> QED BY <1>4, <1>5, <1>7, <1>8, <1>9

(* Of the first n items, each point is in its branch, or about to be. *)
SortedTo(T, g, items, n) ==
    /\ DOMAIN g = {"stack_cursor", "branches", "points"}
    /\ g.stack_cursor = Cursor(Depth(items, n))
    /\ g.points \in Seq(T) /\ \A d : At(g.branches, d) \in Seq(T)
    /\ \A d : At(g.branches, d) \o (IF d = Depth(items, n) THEN g.points ELSE <<>>) = Here(items, d, n)

LEMMA BranchPutAway ==
  ASSUME NEW T, NEW items, NEW n \in Nat, NEW g, SortedTo(T, g, items, n), Fits(Depth(items, n))
  PROVE  \A d : /\ At(Branches(g.branches, Key(g.stack_cursor), g.points), d) = Here(items, d, n)
                /\ At(Branches(g.branches, Key(g.stack_cursor), g.points), d) \in Seq(T)
<1> DEFINE D == Depth(items, n)
           branches == Branches(g.branches, Key(g.stack_cursor), g.points)
<1>1. /\ g.stack_cursor = Cursor(D) /\ g.points \in Seq(T) /\ \A d : At(g.branches, d) \in Seq(T)
      /\ \A d : At(g.branches, d) \o (IF d = D THEN g.points ELSE <<>>) = Here(items, d, n)
  BY DEF SortedTo
<1>2. D \in Int /\ Fits(D)
  BY DepthGoesOn
<1> HIDE DEF D
<1>3. branches = Branches(g.branches, D, g.points)
  BY <1>1, <1>2, CursorMoves
<1> HIDE DEF branches
<1>4. \A d : At(branches, d) = IF d = D THEN At(g.branches, d) \o g.points ELSE At(g.branches, d)
  BY <1>3 DEF At, Branches
<1> SUFFICES ASSUME NEW d PROVE At(branches, d) = Here(items, d, n) /\ At(branches, d) \in Seq(T)
  BY DEF branches
<1>5. CASE d = D
  <2>1. At(branches, d) = At(g.branches, d) \o g.points
    BY <1>4, <1>5
  <2>2. At(branches, d) \in Seq(T)
    BY <1>1, <2>1, ConcatProperties
  <2> QED BY <1>1, <1>5, <2>1, <2>2
<1>6. CASE d # D
  <2>1. At(branches, d) = At(g.branches, d)
    BY <1>4, <1>6
  <2>2. At(g.branches, d) \o <<>> = At(g.branches, d)
    BY <1>1, ConcatEmptySeq
  <2> QED BY <1>1, <1>6, <2>1, <2>2
<1> QED BY <1>5, <1>6

LEMMA FlushedSorted ==
  ASSUME NEW T, NEW items, NEW n \in Nat, NEW m \in Nat, NEW g, SortedTo(T, g, items, n),
         Fits(Depth(items, n)), NEW step,
         (Cursor(Depth(items, n)) + step) % UintSize = Cursor(Depth(items, m)),
         \A d : Here(items, d, m) = Here(items, d, n)
  PROVE  SortedTo(T, Flushed(g, step), items, m)
<1> DEFINE h == Flushed(g, step)
<1>1. DOMAIN g = {"stack_cursor", "branches", "points"} /\ g.stack_cursor = Cursor(Depth(items, n))
  BY DEF SortedTo
<1>2. /\ DOMAIN h = {"stack_cursor", "branches", "points"} /\ h.points = <<>>
      /\ h.stack_cursor = Cursor(Depth(items, m))
      /\ h.branches = Branches(g.branches, Key(g.stack_cursor), g.points)
  BY <1>1 DEF Flushed
<1> HIDE DEF h
<1>3. \A d : At(h.branches, d) = Here(items, d, n) /\ At(h.branches, d) \in Seq(T)
  <2>1. \A d : /\ At(Branches(g.branches, Key(g.stack_cursor), g.points), d) = Here(items, d, n)
               /\ At(Branches(g.branches, Key(g.stack_cursor), g.points), d) \in Seq(T)
    BY BranchPutAway
  <2> QED BY <1>2, <2>1
<1>4. \A d : At(h.branches, d) \o (IF d = Depth(items, m) THEN h.points ELSE <<>>) = Here(items, d, m)
  <2> TAKE d
  <2>1. At(h.branches, d) \o <<>> = Here(items, d, m)
    BY <1>3, ConcatEmptySeq
  <2> QED BY <1>2, <2>1
<1> QED BY <1>2, <1>3, <1>4 DEF SortedTo, h

LEMMA SortedStep ==
  ASSUME NEW S, NEW items \in Seq(Seq(S)), NEW n \in 1 .. Len(items), NEW g,
         SortedTo(Seq(S), g, items, n - 1), Fits(Depth(items, n - 1)), Fits(Depth(items, n)),
         Len(items[n]) = 3 => \A c \in 1 .. 3 : Abs(items[n][c]) < Million
  PROVE  SortedTo(Seq(S), Sorted(g, items[n]), items, n)
<1> DEFINE T == Seq(S)
           D == Depth(items, n - 1)
<1>1. n \in Nat \ {0} /\ n - 1 \in Nat
  BY LenProperties
<1>2. items[n] \in T
  BY ElementOfSeq
<1>3. /\ D \in Int
      /\ Depth(items, n) = D + (IF items[n] = OpenBracket THEN 1
                                ELSE IF items[n] = CloseBracket THEN -1 ELSE 0)
  BY <1>1, DepthGoesOn
<1>4. \A d : /\ Here(items, d, n - 1) \in Seq(T)
             /\ Here(items, d, n) = Here(items, d, n - 1) \o Alone(items, d, n)
  BY HereGoesOn
<1>5. \A d : Here(items, d, n - 1) \o <<>> = Here(items, d, n - 1)
  BY <1>4, ConcatEmptySeq
<1>6. Len(OpenBracket) = 1 /\ Len(CloseBracket) = 1 /\ OpenBracket # CloseBracket
  BY DEF OpenBracket, CloseBracket
<1>7. Len(items[n]) # 3 => \A d : Here(items, d, n) = Here(items, d, n - 1)
  BY <1>4, <1>5 DEF Alone
<1>8. CASE items[n] = OpenBracket
  <2>1. Depth(items, n) = D + 1 /\ \A d : Here(items, d, n) = Here(items, d, n - 1)
    <3>1. Len(items[n]) = 1
      BY <1>6, <1>8
    <3> QED BY <1>3, <1>7, <1>8, <3>1
  <2>2. (Cursor(D) + 1) % UintSize = Cursor(Depth(items, n))
    BY <1>3, <2>1, CursorMoves
  <2>3. Sorted(g, items[n]) = Flushed(g, 1)
    <3>1. Len(items[n]) # 3 /\ items[n] # CloseBracket
      BY <1>6, <1>8
    <3> QED BY <1>8, <3>1, Zenon DEF Sorted
  <2>4. SortedTo(T, Flushed(g, 1), items, n)
    BY <1>1, <2>1, <2>2, FlushedSorted, Zenon
  <2> QED BY <2>3, <2>4
<1>9. CASE items[n] = CloseBracket
  <2>1. Depth(items, n) = D - 1 /\ \A d : Here(items, d, n) = Here(items, d, n - 1)
    <3>1. Len(items[n]) = 1 /\ items[n] # OpenBracket
      BY <1>6, <1>9
    <3> QED BY <1>3, <1>7, <1>9, <3>1
  <2>2. (Cursor(D) + (UintSize - 1)) % UintSize = Cursor(Depth(items, n))
    BY <1>3, <2>1, CursorMoves
  <2>3. Sorted(g, items[n]) = Flushed(g, UintSize - 1)
    <3>1. Len(items[n]) # 3 /\ items[n] # OpenBracket
      BY <1>6, <1>9
    <3> QED BY <1>9, <3>1, Zenon DEF Sorted
  <2>4. SortedTo(T, Flushed(g, UintSize - 1), items, n)
    BY <1>1, <2>1, <2>2, FlushedSorted, Zenon
  <2> QED BY <2>3, <2>4
<1>10. CASE items[n] \notin {OpenBracket, CloseBracket} /\ Len(items[n]) # 3
  <2>1. Depth(items, n) = D /\ \A d : Here(items, d, n) = Here(items, d, n - 1)
    BY <1>3, <1>7, <1>10
  <2>2. Sorted(g, items[n]) = g
    BY <1>10 DEF Sorted
  <2> QED BY <2>1, <2>2 DEF SortedTo
<1>11. CASE items[n] \notin {OpenBracket, CloseBracket} /\ Len(items[n]) = 3
  <2> DEFINE item == items[n]
             h == Sorted(g, item)
  <2>1. item = <<item[1], item[2], item[3]>>
    BY <1>2, <1>11
  <2>2. ReadBack(item[1]) = item[1] /\ ReadBack(item[2]) = item[2] /\ ReadBack(item[3]) = item[3]
    BY <1>11 DEF ReadBack
  <2>3. h = [g EXCEPT !.points = Append(@, item)]
    BY <1>11, <2>1, <2>2, Zenon DEF Sorted
  <2>4. /\ DOMAIN g = {"stack_cursor", "branches", "points"} /\ g.stack_cursor = Cursor(D)
        /\ g.points \in Seq(T) /\ \A d : At(g.branches, d) \in Seq(T)
        /\ \A d : At(g.branches, d) \o (IF d = D THEN g.points ELSE <<>>) = Here(items, d, n - 1)
    BY DEF SortedTo
  <2>5. /\ DOMAIN h = {"stack_cursor", "branches", "points"} /\ h.stack_cursor = Cursor(D)
        /\ h.points = Append(g.points, item) /\ h.branches = g.branches
    BY <2>3, <2>4
  <2>6. Depth(items, n) = D
    BY <1>3, <1>11
  <2> HIDE DEF item, h
  <2>7. item \in T /\ <<item>> \in Seq(T) /\ h.points \in Seq(T)
    BY <1>2, <2>4, <2>5, AppendProperties DEF item
  <2>8. \A d : At(h.branches, d) \o (IF d = D THEN h.points ELSE <<>>) = Here(items, d, n)
    <3> TAKE d
    <3>1. CASE d = D
      <4>1. h.points = g.points \o <<item>>
        BY <2>4, <2>5, <2>7, AppendIsConcat
      <4>2. At(h.branches, d) \o h.points = (At(g.branches, d) \o g.points) \o <<item>>
        <5>1. At(g.branches, d) \in Seq(T) /\ g.points \in Seq(T) /\ At(h.branches, d) = At(g.branches, d)
          BY <2>4, <2>5
        <5>2. (At(g.branches, d) \o g.points) \o <<item>> = At(g.branches, d) \o (g.points \o <<item>>)
          <6>1. \A u, v, w \in Seq(T) : (u \o v) \o w = u \o (v \o w)
            <7> HIDE DEF T
            <7> QED BY ONLY Associative, SMTT(60)
          <6> QED BY <2>7, <5>1, <6>1, Zenon
        <5> QED BY <4>1, <5>1, <5>2
      <4>3. Alone(items, d, n) = <<item>>
        BY <1>11, <2>6, <3>1 DEF Alone, item
      <4> QED BY <1>4, <2>4, <3>1, <4>2, <4>3
    <3>2. CASE d # D
      <4>1. Alone(items, d, n) = <<>>
        BY <2>6, <3>2 DEF Alone
      <4> QED BY <1>4, <1>5, <2>4, <2>5, <3>2, <4>1
    <3> QED BY <3>1, <3>2
  <2>9. SortedTo(T, h, items, n)
    BY <2>4, <2>5, <2>6, <2>7, <2>8 DEF SortedTo
  <2> QED BY <2>9 DEF h, item
<1> QED BY <1>8, <1>9, <1>10, <1>11

(* Sorted by depth, if no depth and no number is out of bounds *)
LEMMA PointsSorted ==
  ASSUME NEW items, IsList(items),
         \A n \in DOMAIN items :
            /\ Fits(Depth(items, n))
            /\ Len(items[n]) = 3 => \A c \in 1 .. 3 : Abs(items[n][c]) < Million
  PROVE  \A d : At(getPoints(items), d) = Here(items, d, Len(items))
<1>1. PICK S : items \in Seq(Seq(S))
  BY DEF IsList
<1> DEFINE l == Len(items)
           T == Seq(S)
<1>2. l \in Nat /\ DOMAIN items = 1 .. l
  BY <1>1, LenProperties
<1>3. PICK G : /\ G[0] = Start
               /\ \A n \in 1 .. l : G[n] = Sorted(G[n - 1], items[n])
               /\ FoldLeft(Sorted, Start, items) = G[l]
  BY <1>2, SortsInOrder
<1>4. Depth(items, 0) = 0 /\ \A d : Here(items, d, 0) = <<>>
  <2>1. \A d : [m \in 1 .. 0 |-> Alone(items, d, m)] = <<>>
    OBVIOUS
  <2> QED BY <2>1, DepthGoesOn, FlattenNothing DEF Here
<1>5. SortedTo(T, G[0], items, 0)
  <2>1. /\ DOMAIN Start = {"stack_cursor", "branches", "points"} /\ Start.stack_cursor = 0
        /\ Start.points = <<>> /\ \A d : At(Start.branches, d) = <<>>
    BY DEF Start, At
  <2>2. <<>> \in Seq(T) /\ <<>> \o <<>> = <<>> /\ Cursor(0) = 0
    BY ConcatEmptySeq DEF Cursor
  <2> QED BY <1>3, <1>4, <2>1, <2>2 DEF SortedTo
<1>6. l # 0 => Fits(0)
  <2>1. SUFFICES ASSUME l # 0 PROVE Fits(0)
    OBVIOUS
  <2>2. 1 \in DOMAIN items
    BY <1>2, <2>1
  <2>3. PICK k : k \in -(UintSize \div 2) .. UintSize \div 2 - 1
    BY <2>2 DEF Fits
  <2>4. PICK h \in Nat : h = UintSize \div 2
    BY GenericAssumption
  <2>5. 0 \in -h .. h - 1
    BY <2>3, <2>4
  <2> QED BY <2>4, <2>5 DEF Fits
<1>7. \A n \in 0 .. l : SortedTo(T, G[n], items, n)
  <2> DEFINE W == {n \in Nat : n <= l /\ ~SortedTo(T, G[n], items, n)}
  <2>1. SUFFICES ASSUME W # {} PROVE FALSE
    BY <1>2
  <2>2. PICK n \in W : \A m \in W : n <= m
    <3>1. W \in SUBSET Nat
      OBVIOUS
    <3> HIDE DEF W
    <3> QED BY <2>1, <3>1, LeastNatural
  <2>3. n # 0 /\ n \in 1 .. l /\ n - 1 \in Nat /\ n - 1 <= l
    BY <1>2, <1>5, <2>2
  <2>4. n - 1 \notin W
    <3> HIDE DEF W
    <3> QED BY <2>2, <2>3
  <2>5. SortedTo(T, G[n - 1], items, n - 1)
    BY <2>3, <2>4
  <2>6. Fits(Depth(items, n - 1))
    <3>1. CASE n = 1
      BY <1>4, <1>6, <2>3, <3>1
    <3>2. CASE n # 1
      <4>1. n - 1 \in DOMAIN items
        BY <1>2, <2>3, <3>2
      <4> QED BY <4>1
    <3> QED BY <3>1, <3>2
  <2>7. SortedTo(T, Sorted(G[n - 1], items[n]), items, n)
    BY <1>1, <1>2, <2>3, <2>5, <2>6, SortedStep
  <2>8. SortedTo(T, G[n], items, n)
    BY <1>3, <2>3, <2>7
  <2> QED BY <2>2, <2>8
<1> DEFINE g == G[l]
<1>8. SortedTo(T, g, items, l)
  BY <1>2, <1>7
<1>9. getPoints(items) = IF g.points = <<>> THEN g.branches ELSE Flushed(g, 0).branches
  BY <1>3 DEF getPoints, Start
<1> HIDE DEF g
<1>10. CASE g.points = <<>>
  <2>1. \A d : At(g.branches, d) \in Seq(T)
    BY <1>8 DEF SortedTo
  <2>2. \A d : At(g.branches, d) \o <<>> = Here(items, d, l)
    BY <1>8, <1>10 DEF SortedTo
  <2>3. \A d : At(g.branches, d) \o <<>> = At(g.branches, d)
    BY <2>1, ConcatEmptySeq
  <2> QED BY <1>9, <1>10, <2>2, <2>3
<1>11. CASE g.points # <<>>
  <2>1. Fits(Depth(items, l)) /\ Depth(items, l) \in Int
    <3>1. Depth(items, l) \in Int
      BY <1>2, DepthGoesOn
    <3>2. CASE l = 0
      <4>1. g.points = <<>>
        BY <1>3, <3>2 DEF g, Start
      <4> QED BY <1>11, <4>1
    <3>3. CASE l # 0
      <4>1. l \in DOMAIN items
        BY <1>2, <3>3
      <4> QED BY <3>1, <4>1
    <3> QED BY <3>2, <3>3
  <2>2. Flushed(g, 0).branches = Branches(g.branches, Key(g.stack_cursor), g.points)
    <3>1. DOMAIN g = {"stack_cursor", "branches", "points"}
      BY <1>8 DEF SortedTo
    <3> QED BY <3>1 DEF Flushed
  <2>3. \A d : At(Flushed(g, 0).branches, d) = Here(items, d, l)
    <3> HIDE DEF l, T
    <3>1. \A d : /\ At(Branches(g.branches, Key(g.stack_cursor), g.points), d) = Here(items, d, l)
                 /\ At(Branches(g.branches, Key(g.stack_cursor), g.points), d) \in Seq(T)
      BY <1>2, <1>8, <2>1, BranchPutAway
    <3> QED BY <2>2, <3>1
  <2> QED BY <1>9, <1>11, <2>3
<1> QED BY <1>10, <1>11

-----------------------------------------------------------------------------
(* getSystem goes through the words in their order. *)

Reads(f, words, n) ==
    f = [s \in SUBSET (1 .. n) |->
            IF s = {} THEN Beginning ELSE ReadWord(f[s \ {Max(s)}], words[Max(s)])]

LEMMA ReadsExists ==
  ASSUME NEW words, NEW n \in Nat
  PROVE  \E f : Reads(f, words, n)
<1> DEFINE T == {m \in Nat : ~ \E f : Reads(f, words, m)}
<1> SUFFICES ASSUME T # {} PROVE FALSE
  OBVIOUS
<1>1. PICK m \in T : \A l \in T : m <= l
  <2>1. T \in SUBSET Nat
    OBVIOUS
  <2> HIDE DEF T
  <2> QED BY <2>1, LeastNatural
<1>2. CASE m = 0
  <2> DEFINE f == [s \in SUBSET (1 .. 0) |-> Beginning]
  <2>1. SUBSET (1 .. 0) = {{}}
    OBVIOUS
  <2>2. Reads(f, words, 0)
    BY <2>1, Zenon DEF Reads
  <2> QED BY <1>1, <1>2, <2>2
<1>3. CASE m # 0
  <2>1. m \in Nat /\ m - 1 \in Nat /\ ~(m <= m - 1)
    BY <1>1, <1>3
  <2>2. m - 1 \notin T
    <3> HIDE DEF T
    <3> QED BY <1>1, <2>1
  <2>3. PICK f : Reads(f, words, m - 1)
    BY <2>1, <2>2
  <2> DEFINE g == [s \in SUBSET (1 .. m) |->
                      IF m \in s THEN ReadWord(f[s \ {m}], words[m]) ELSE f[s]]
  <2>4. ASSUME NEW s \in SUBSET (1 .. m)
        PROVE  g[s] = IF s = {} THEN Beginning ELSE ReadWord(g[s \ {Max(s)}], words[Max(s)])
    <3>1. CASE m \in s
      <4>1. Max(s) = m /\ s # {}
        BY <2>1, <3>1, Greatest
      <4>2. s \ {m} \in SUBSET (1 .. m) /\ m \notin s \ {m}
        OBVIOUS
      <4>3. g[s \ {m}] = f[s \ {m}]
        BY <4>2
      <4> QED BY <3>1, <4>1, <4>3
    <3>2. CASE m \notin s
      <4>1. s \in SUBSET (1 .. m - 1) /\ g[s] = f[s]
        BY <2>1, <3>2
      <4>2. g[s] = IF s = {} THEN Beginning ELSE ReadWord(f[s \ {Max(s)}], words[Max(s)])
        BY <2>3, <4>1, Zenon DEF Reads
      <4>3. s \ {Max(s)} \in SUBSET (1 .. m) /\ m \notin s \ {Max(s)}
        BY <3>2
      <4>4. g[s \ {Max(s)}] = f[s \ {Max(s)}]
        BY <4>3
      <4> QED BY <4>2, <4>4
    <3> QED BY <3>1, <3>2
  <2>5. DOMAIN g = SUBSET (1 .. m) /\ g = [s \in SUBSET (1 .. m) |-> g[s]]
    OBVIOUS
  <2> HIDE DEF g
  <2>6. Reads(g, words, m)
    BY <2>4, <2>5, Zenon DEF Reads
  <2> QED BY <1>1, <2>6
<1> QED BY <1>2, <1>3

(* What has come of the first n words, for each n *)
LEMMA ReadsInOrder ==
  ASSUME NEW words, NEW l \in Nat, DOMAIN words = 1 .. l
  PROVE  \E G : /\ G[0] = Beginning
                /\ \A n \in 1 .. l : G[n] = ReadWord(G[n - 1], words[n])
                /\ FoldLeft(ReadWord, Beginning, words) = G[l]
<1> DEFINE iter == CHOOSE f : Reads(f, words, l)
<1>1. FoldLeft(ReadWord, Beginning, words) = iter[1 .. l]
  BY DEF FoldLeft, MapThenFoldSet, Reads
<1>2. Reads(iter, words, l)
  BY ReadsExists
<1> HIDE DEF iter
<1>3. \A s \in SUBSET (1 .. l) :
         iter[s] = IF s = {} THEN Beginning ELSE ReadWord(iter[s \ {Max(s)}], words[Max(s)])
  BY <1>2, Zenon DEF Reads
<1> DEFINE G == [n \in 0 .. l |-> iter[1 .. n]]
<1>4. G[0] = Beginning /\ G[l] = iter[1 .. l]
  <2>1. 1 .. 0 = {} /\ {} \in SUBSET (1 .. l) /\ 0 \in 0 .. l /\ l \in 0 .. l
    OBVIOUS
  <2> QED BY <1>3, <2>1
<1>5. ASSUME NEW n \in 1 .. l PROVE G[n] = ReadWord(G[n - 1], words[n])
  <2>1. 1 .. n \in SUBSET (1 .. l) /\ n \in 1 .. n /\ n \in Nat
    OBVIOUS
  <2>2. Max(1 .. n) = n
    BY <2>1, Greatest
  <2>3. (1 .. n) \ {n} = 1 .. n - 1
    OBVIOUS
  <2>4. iter[1 .. n] = ReadWord(iter[1 .. n - 1], words[n])
    BY <1>3, <2>1, <2>2, <2>3
  <2> QED BY <2>4
<1> HIDE DEF G
<1> QED BY <1>1, <1>4, <1>5

-----------------------------------------------------------------------------
(* Lists as texts, and back *)

(* There is a next delimiter, or the end. *)
LEMMA UptoThere ==
  ASSUME NEW text, NEW l \in Nat, l = Len(text), NEW p \in 1 .. l + 1, NEW delim
  PROVE  /\ Upto(text, p, delim) \in p .. l + 1
         /\ Upto(text, p, delim) = l + 1 \/ text[Upto(text, p, delim)] = delim
         /\ \A n \in p .. Upto(text, p, delim) - 1 : text[n] # delim
<1> DEFINE T == {q \in Nat : q \in p .. l + 1 /\ (q = l + 1 \/ text[q] = delim)}
<1>1. l + 1 \in T
  OBVIOUS
<1>2. PICK q \in T : \A r \in T : q <= r
  <2>1. T \in SUBSET Nat /\ T # {}
    BY <1>1
  <2> HIDE DEF T
  <2> QED BY <2>1, LeastNatural
<1>3. \A n \in p .. q - 1 : text[n] # delim
  <2> SUFFICES ASSUME NEW n \in p .. q - 1, text[n] = delim PROVE FALSE
    OBVIOUS
  <2>1. n \in T
    BY <1>2
  <2>2. q <= n
    BY <1>2, <2>1
  <2> QED BY <1>2, <2>2
<1>4. q \in p .. l + 1 /\ (q = l + 1 \/ text[q] = delim)
  BY <1>2
<1> HIDE DEF T
<1> QED BY <1>3, <1>4 DEF Upto

PartsFrom(f, text, delim, m) ==
    f = [p \in m .. Len(text) + 2 |->
            IF p > Len(text) THEN <<>>
            ELSE <<SubSeq(text, p, Upto(text, p, delim) - 1)>> \o f[Upto(text, p, delim) + 1]]

LEMMA PartsFromExists ==
  ASSUME NEW S, NEW text \in Seq(S), NEW delim, NEW k \in 0 .. Len(text) + 1
  PROVE  \E f \in [Len(text) + 2 - k .. Len(text) + 2 -> Seq(Seq(S))] :
            PartsFrom(f, text, delim, Len(text) + 2 - k)
<1> DEFINE l == Len(text)
           Is(f, j) == f \in [l + 2 - j .. l + 2 -> Seq(Seq(S))] /\ PartsFrom(f, text, delim, l + 2 - j)
           T == {j \in Nat : j <= l + 1 /\ ~ \E f : Is(f, j)}
<1>1. l \in Nat
  BY LenProperties
<1> SUFFICES ASSUME T # {} PROVE FALSE
  OBVIOUS
<1>2. PICK j \in T : \A r \in T : j <= r
  <2>1. T \in SUBSET Nat
    OBVIOUS
  <2> HIDE DEF T
  <2> QED BY <2>1, LeastNatural
<1>3. j \in Nat /\ j <= l + 1
  BY <1>2
<1>4. CASE j = 0
  <2> DEFINE f == [p \in l + 2 .. l + 2 |-> <<>>]
  <2>1. f \in [l + 2 .. l + 2 -> Seq(Seq(S))] /\ l + 2 - 0 = l + 2
    BY <1>1
  <2>2. \A p \in l + 2 .. l + 2 : p > Len(text)
    BY <1>1
  <2>3. PartsFrom(f, text, delim, l + 2)
    BY <2>2 DEF PartsFrom
  <2> QED BY <1>2, <1>4, <2>1, <2>3
<1>5. CASE j # 0
  <2>1. j - 1 \in Nat /\ j - 1 <= l + 1 /\ ~(j <= j - 1)
    BY <1>1, <1>3, <1>5
  <2>2. j - 1 \notin T
    <3> HIDE DEF T
    <3> QED BY <1>2, <2>1
  <2> DEFINE q == l + 2 - j
  <2>3. q \in 1 .. l + 1 /\ l + 2 - (j - 1) = q + 1
    BY <1>1, <1>3, <1>5
  <2>4. PICK f : f \in [q + 1 .. l + 2 -> Seq(Seq(S))] /\ PartsFrom(f, text, delim, q + 1)
    <3>1. PICK f : Is(f, j - 1)
      BY <2>1, <2>2
    <3> QED BY <2>3, <3>1
  <2> DEFINE end(p) == Upto(text, p, delim)
             first(p) == <<SubSeq(text, p, end(p) - 1)>>
             g == [p \in q .. l + 2 |-> IF p # q THEN f[p]
                                        ELSE IF p > l THEN <<>> ELSE first(p) \o f[end(p) + 1]]
  <2>5. ASSUME NEW p \in q .. l, p <= l
        PROVE  end(p) + 1 \in p + 1 .. l + 2 /\ first(p) \in Seq(Seq(S))
    <3>1. p \in 1 .. l + 1
      BY <1>1, <2>3
    <3>2. end(p) \in p .. l + 1
      BY <1>1, <3>1, UptoThere
    <3>3. \A n \in p .. end(p) - 1 : text[n] \in S
      <4>1. \A n \in p .. end(p) - 1 : n \in 1 .. Len(text)
        BY <1>1, <3>1, <3>2
      <4> QED BY <4>1, ElementOfSeq
    <3>4. SubSeq(text, p, end(p) - 1) \in Seq(S)
      BY <1>1, <3>1, <3>2, <3>3, SubSeqProperties
    <3> QED BY <1>1, <3>1, <3>2, <3>4
  <2> HIDE DEF end, first
  <2>6. ASSUME NEW p \in q .. l + 2
        PROVE  /\ g[p] \in Seq(Seq(S))
               /\ g[p] = IF p > l THEN <<>> ELSE first(p) \o g[end(p) + 1]
    <3>1. CASE p = q
      <4>1. CASE p > l
        BY <3>1, <4>1
      <4>2. CASE ~(p > l)
        <5>1. p \in q .. l /\ p <= l
          BY <1>1, <2>3, <3>1, <4>2
        <5>2. end(p) + 1 \in q + 1 .. l + 2 /\ first(p) \in Seq(Seq(S))
          BY <2>5, <3>1, <5>1
        <5>3. end(p) + 1 \in q .. l + 2 /\ end(p) + 1 # q
          BY <1>1, <2>3, <5>2
        <5>4. g[end(p) + 1] = f[end(p) + 1] /\ f[end(p) + 1] \in Seq(Seq(S))
          BY <2>4, <5>2, <5>3
        <5>5. g[p] = first(p) \o f[end(p) + 1]
          BY <3>1, <4>2
        <5>6. first(p) \o f[end(p) + 1] \in Seq(Seq(S))
          BY <5>2, <5>4, ConcatProperties
        <5> QED BY <4>2, <5>4, <5>5, <5>6
      <4> QED BY <4>1, <4>2
    <3>2. CASE p # q
      <4>1. p \in q + 1 .. l + 2 /\ g[p] = f[p]
        BY <1>1, <2>3, <3>2
      <4>2. f[p] = IF p > l THEN <<>> ELSE first(p) \o f[end(p) + 1]
        BY <2>4, <4>1 DEF PartsFrom, first, end
      <4>3. CASE p > l
        BY <2>4, <4>1, <4>2, <4>3
      <4>4. CASE ~(p > l)
        <5>1. p \in q .. l /\ p <= l
          BY <1>1, <2>3, <4>1, <4>4
        <5>2. end(p) + 1 \in p + 1 .. l + 2
          BY <2>5, <5>1
        <5>3. end(p) + 1 \in q .. l + 2 /\ end(p) + 1 # q
          BY <1>1, <2>3, <4>1, <5>2
        <5>4. g[end(p) + 1] = f[end(p) + 1]
          BY <5>3
        <5> QED BY <2>4, <4>1, <4>2, <5>4
      <4> QED BY <4>3, <4>4
    <3> QED BY <3>1, <3>2
  <2>7. DOMAIN g = q .. l + 2 /\ g = [p \in q .. l + 2 |-> g[p]]
    OBVIOUS
  <2> HIDE DEF g
  <2>8. g \in [q .. l + 2 -> Seq(Seq(S))]
    BY <2>6, <2>7
  <2>9. PartsFrom(g, text, delim, q)
    BY <2>6, <2>7, Zenon DEF PartsFrom, first, end
  <2>10. Is(g, j)
    BY <2>8, <2>9
  <2> QED BY <1>2, <2>10
<1> QED BY <1>4, <1>5

(* What begins at a place comes first, then what begins behind it. *)
LEMMA PartsInOrder ==
  ASSUME NEW S, NEW text \in Seq(S), NEW delim
  PROVE  \E F : /\ Parts(text, delim) = F[1]
                /\ \A p \in 1 .. Len(text) + 2 :
                      F[p] = IF p > Len(text) THEN <<>>
                             ELSE <<SubSeq(text, p, Upto(text, p, delim) - 1)>>
                                     \o F[Upto(text, p, delim) + 1]
<1> DEFINE F == CHOOSE f : PartsFrom(f, text, delim, 1)
<1>1. Parts(text, delim) = F[1]
  BY DEF Parts, PartsFrom
<1>2. Len(text) \in Nat
  BY LenProperties
<1>3. PICK k \in 0 .. Len(text) + 1 : Len(text) + 2 - k = 1
  BY <1>2
<1>4. \E f : PartsFrom(f, text, delim, 1)
  <2>1. \E f : f \in [Len(text) + 2 - k .. Len(text) + 2 -> Seq(Seq(S))]
                /\ PartsFrom(f, text, delim, Len(text) + 2 - k)
    BY <1>3, PartsFromExists
  <2>2. PICK f : PartsFrom(f, text, delim, Len(text) + 2 - k)
    BY <2>1
  <2>3. PartsFrom(f, text, delim, 1)
    BY ONLY <1>3, <2>2, Zenon
  <2> QED BY <2>3
<1>5. PartsFrom(F, text, delim, 1)
  BY <1>4
<1> HIDE DEF F
<1>6. \A p \in 1 .. Len(text) + 2 :
         F[p] = IF p > Len(text) THEN <<>>
                ELSE <<SubSeq(text, p, Upto(text, p, delim) - 1)>> \o F[Upto(text, p, delim) + 1]
  BY <1>5, Zenon DEF PartsFrom
<1> QED BY <1>1, <1>6

ArePartsFrom(F, text, delim, S) ==
    /\ Parts(text, delim) = F[1]
    /\ \A p \in 1 .. Len(text) + 2 :
          /\ F[p] \in Seq(Seq(S))
          /\ F[p] = IF p > Len(text) THEN <<>>
                    ELSE <<SubSeq(text, p, Upto(text, p, delim) - 1)>> \o F[Upto(text, p, delim) + 1]

LEMMA PartsTyped ==
  ASSUME NEW S, NEW text \in Seq(S), NEW delim
  PROVE  \E F : ArePartsFrom(F, text, delim, S)
<1> DEFINE l == Len(text)
           end(p) == Upto(text, p, delim)
           first(p) == <<SubSeq(text, p, end(p) - 1)>>
<1>1. l \in Nat
  BY LenProperties
<1>2. PICK F : /\ Parts(text, delim) = F[1]
               /\ \A p \in 1 .. l + 2 :
                     F[p] = IF p > l THEN <<>> ELSE first(p) \o F[end(p) + 1]
  BY PartsInOrder
<1> DEFINE T == {j \in Nat : j <= l + 1 /\ F[l + 2 - j] \notin Seq(Seq(S))}
<1>3. ASSUME T # {} PROVE FALSE
  <2>1. PICK j \in T : \A r \in T : j <= r
    <3>1. T \in SUBSET Nat
      OBVIOUS
    <3> HIDE DEF T
    <3> QED BY <1>3, <3>1, LeastNatural
  <2> DEFINE p == l + 2 - j
  <2>2. j \in Nat /\ p \in 1 .. l + 2 /\ F[p] \notin Seq(Seq(S))
    BY <1>1, <2>1
  <2>3. ~(p > l)
    <3>1. SUFFICES ASSUME p > l PROVE FALSE
      OBVIOUS
    <3>2. F[p] = <<>>
      BY <1>2, <2>2, <3>1
    <3> QED BY <2>2, <3>2
  <2>4. p \in 1 .. l /\ p \in 1 .. l + 1
    BY <1>1, <2>2, <2>3
  <2>5. end(p) \in p .. l + 1
    BY <1>1, <2>4, UptoThere
  <2>6. first(p) \in Seq(Seq(S))
    <3>1. \A n \in p .. end(p) - 1 : text[n] \in S
      <4>1. \A n \in p .. end(p) - 1 : n \in 1 .. Len(text)
        BY <1>1, <2>4, <2>5
      <4> QED BY <4>1, ElementOfSeq
    <3>2. SubSeq(text, p, end(p) - 1) \in Seq(S)
      BY <1>1, <2>4, <2>5, <3>1, SubSeqProperties
    <3> QED BY <3>2
  <2>7. F[end(p) + 1] \in Seq(Seq(S))
    <3>1. PICK r : r = l + 2 - (end(p) + 1)
      OBVIOUS
    <3>2. r \in Nat /\ r <= l + 1 /\ l + 2 - r = end(p) + 1 /\ r < j
      BY <1>1, <2>2, <2>4, <2>5, <3>1
    <3>3. r \notin T
      <4>1. ~(j <= r)
        BY <2>2, <3>2
      <4> HIDE DEF T
      <4> QED BY <2>1, <4>1
    <3> QED BY <3>2, <3>3
  <2>8. F[p] = first(p) \o F[end(p) + 1]
    BY <1>2, <2>2, <2>3
  <2> HIDE DEF first, end
  <2>9. F[p] \in Seq(Seq(S))
    BY <2>6, <2>7, <2>8, ConcatProperties
  <2> QED BY <2>2, <2>9
<1>4. ASSUME NEW p \in 1 .. l + 2 PROVE F[p] \in Seq(Seq(S))
  <2> DEFINE r == l + 2 - p
  <2>1. r \in Nat /\ r <= l + 1 /\ l + 2 - r = p
    BY <1>1
  <2>2. r \notin T
    <3> HIDE DEF T
    <3> QED BY <1>3
  <2>3. F[l + 2 - r] \in Seq(Seq(S))
    BY <2>1, <2>2
  <2> HIDE DEF r
  <2> QED BY <2>1, <2>3, Zenon
<1>5. ArePartsFrom(F, text, delim, S)
  BY <1>2, <1>4 DEF ArePartsFrom
<1> QED BY <1>5

LEMMA PartsList ==
  ASSUME NEW S, NEW text \in Seq(S), NEW delim
  PROVE  Parts(text, delim) \in Seq(Seq(S))
<1>1. PICK F : Parts(text, delim) = F[1] /\ \A p \in 1 .. Len(text) + 2 : F[p] \in Seq(Seq(S))
  BY PartsTyped DEF ArePartsFrom
<1>2. 1 \in 1 .. Len(text) + 2
  BY LenProperties
<1> QED BY <1>1, <1>2

LEMMA AssociativeLists ==
  ASSUME NEW S, NEW r \in Seq(Seq(S)), NEW s \in Seq(Seq(S)), NEW t \in Seq(Seq(S))
  PROVE  (r \o s) \o t = r \o (s \o t)
  BY Associative, SMTT(60)

(* There is one next delimiter. *)
LEMMA UptoIs ==
  ASSUME NEW text, NEW l \in Nat, l = Len(text), NEW p \in 1 .. l + 1, NEW delim,
         NEW e \in p .. l + 1, e = l + 1 \/ text[e] = delim,
         \A n \in p .. e - 1 : text[n] # delim
  PROVE  Upto(text, p, delim) = e
<1> DEFINE u == Upto(text, p, delim)
<1>1. /\ u \in p .. l + 1 /\ (u = l + 1 \/ text[u] = delim)
      /\ \A n \in p .. u - 1 : text[n] # delim
  BY UptoThere
<1> HIDE DEF u
<1>2. ~(u < e)
  <2> SUFFICES ASSUME u < e PROVE FALSE
    OBVIOUS
  <2>1. u \in p .. e - 1 /\ u # l + 1
    BY <1>1
  <2> QED BY <1>1, <2>1
<1>3. ~(e < u)
  <2> SUFFICES ASSUME e < u PROVE FALSE
    OBVIOUS
  <2>1. e \in p .. u - 1 /\ e # l + 1
    BY <1>1
  <2> QED BY <1>1, <2>1
<1>4. u = e
  BY <1>1, <1>2, <1>3
<1> QED BY <1>4 DEF u

(* What is in a text that consists of three *)
IsInThree(S, x, w, y) ==
    /\ (x \o w) \o y \in Seq(S)
    /\ Len((x \o w) \o y) = Len(x) + Len(w) + Len(y)
    /\ \A n \in 1 .. Len(x) : ((x \o w) \o y)[n] = x[n]
    /\ \A n \in 1 .. Len(w) : ((x \o w) \o y)[Len(x) + n] = w[n]
    /\ \A n \in 1 .. Len(y) : ((x \o w) \o y)[Len(x) + Len(w) + n] = y[n]

LEMMA InThree ==
  ASSUME NEW S, NEW x \in Seq(S), NEW w \in Seq(S), NEW y \in Seq(S)
  PROVE  IsInThree(S, x, w, y)
<1> DEFINE xw == x \o w
           t == xw \o y
           a == Len(x)
           b == Len(w)
           c == Len(y)
<1>1. a \in Nat /\ b \in Nat /\ c \in Nat
  BY LenProperties
<1>2. /\ xw \in Seq(S) /\ Len(xw) = a + b
      /\ \A n \in 1 .. a + b : xw[n] = IF n <= a THEN x[n] ELSE w[n - a]
  BY ConcatProperties
<1> HIDE DEF xw
<1>3. /\ t \in Seq(S) /\ Len(t) = (a + b) + c
      /\ \A n \in 1 .. (a + b) + c : t[n] = IF n <= a + b THEN xw[n] ELSE y[n - (a + b)]
  <2>1. /\ t \in Seq(S) /\ Len(t) = Len(xw) + c
        /\ \A n \in 1 .. Len(xw) + c : t[n] = IF n <= Len(xw) THEN xw[n] ELSE y[n - Len(xw)]
    <3>1. xw \in Seq(S)
      BY <1>2
    <3> QED BY ONLY <3>1, ConcatProperties, y \in Seq(S)
  <2>2. Len(xw) = a + b
    BY <1>2
  <2> HIDE DEF t, a, b, c
  <2> QED BY ONLY <2>1, <2>2, Zenon
<1> HIDE DEF t, a, b, c
<1>4. \A n \in 1 .. a : t[n] = x[n]
  BY <1>1, <1>2, <1>3
<1>5. \A n \in 1 .. b : t[a + n] = w[n]
  <2> TAKE n \in 1 .. b
  <2>1. a + n \in 1 .. (a + b) + c /\ a + n <= a + b /\ a + n \in 1 .. a + b /\ ~(a + n <= a)
        /\ (a + n) - a = n
    BY <1>1
  <2>2. t[a + n] = xw[a + n] /\ xw[a + n] = w[(a + n) - a]
    BY <1>2, <1>3, <2>1
  <2> QED BY <2>1, <2>2
<1>6. \A n \in 1 .. c : t[a + b + n] = y[n]
  <2> TAKE n \in 1 .. c
  <2>1. (a + b) + n \in 1 .. (a + b) + c /\ ~((a + b) + n <= a + b) /\ ((a + b) + n) - (a + b) = n
    BY <1>1
  <2>2. t[(a + b) + n] = y[((a + b) + n) - (a + b)]
    BY <1>3, <2>1
  <2> QED BY <2>1, <2>2
<1>7. Len(t) = a + b + c
  BY <1>1, <1>3
<1> QED BY <1>3, <1>4, <1>5, <1>6, <1>7, Zenon DEF IsInThree, t, xw, a, b, c

(* A part that comes behind a delimiter, or at the beginning, comes to the *)
(* parts; the delimiter behind it may be left out if there is something.   *)
LEMMA PartsComes ==
  ASSUME NEW S, NEW x \in Seq(S), NEW w \in Seq(S), NEW y \in Seq(S), NEW delim,
         x = <<>> \/ x[Len(x)] = delim,
         \A n \in 1 .. Len(w) : w[n] # delim,
         (y = <<>> /\ w # <<>>) \/ y = <<delim>>
  PROVE  Parts((x \o w) \o y, delim) = Append(Parts(x, delim), w)
<1> DEFINE t == (x \o w) \o y
           a == Len(x)
           b == Len(w)
           c == Len(y)
<1>1. a \in Nat /\ b \in Nat /\ c \in Nat
  BY LenProperties
<1>2. /\ t \in Seq(S) /\ Len(t) = a + b + c
      /\ \A n \in 1 .. a : t[n] = x[n]
      /\ \A n \in 1 .. b : t[a + n] = w[n]
      /\ \A n \in 1 .. c : t[a + b + n] = y[n]
  <2>1. IsInThree(S, x, w, y)
    BY InThree
  <2> QED BY <2>1, Zenon DEF IsInThree
<1>3. (c = 0 /\ b # 0) \/ (c = 1 /\ y[1] = delim)
  <2>1. w # <<>> => b # 0
    BY EmptySeq
  <2>2. Len(<<>>) = 0 /\ Len(<<delim>>) = 1 /\ <<delim>>[1] = delim
    OBVIOUS
  <2>3. CASE y = <<>> /\ w # <<>>
    BY <2>1, <2>2, <2>3
  <2>4. CASE y = <<delim>>
    BY <2>2, <2>4
  <2> QED BY <2>3, <2>4
<1>4. a # 0 => x[a] = delim
  <2>1. Len(<<>>) = 0
    OBVIOUS
  <2> QED BY <2>1
<1>5. \A n \in 1 .. b : w[n] # delim
  OBVIOUS
<1>6. x \in Seq(S) /\ w \in Seq(S)
  OBVIOUS
<1> HIDE DEF t, a, b, c
<1> DEFINE u == a + b + 1
<1>7. Upto(t, a + 1, delim) = u
  <2>1. u \in a + 1 .. Len(t) + 1 /\ a + 1 \in 1 .. Len(t) + 1 /\ Len(t) \in Nat
    BY <1>1, <1>2, <1>3
  <2>2. u = Len(t) + 1 \/ t[u] = delim
    BY <1>1, <1>2, <1>3
  <2>3. \A n \in a + 1 .. u - 1 : t[n] # delim
    <3> TAKE n \in a + 1 .. u - 1
    <3>1. PICK m \in 1 .. b : n = a + m
      <4>1. n - a \in 1 .. b /\ n = a + (n - a)
        BY <1>1
      <4> QED BY <4>1
    <3> QED BY <1>2, <1>5, <3>1
  <2> HIDE DEF u
  <2> QED BY <2>1, <2>2, <2>3, UptoIs
<1>8. SubSeq(t, a + 1, u - 1) = w
  <2>1. \A n \in a + 1 .. u - 1 : t[n] \in S
    <3>1. \A n \in a + 1 .. u - 1 : n \in 1 .. Len(t)
      BY <1>1, <1>2
    <3> QED BY <1>2, <3>1, ElementOfSeq
  <2> DEFINE s == SubSeq(t, a + 1, u - 1)
  <2>2. /\ s \in Seq(S) /\ Len(s) = IF a + 1 <= u - 1 THEN (u - 1) - (a + 1) + 1 ELSE 0
        /\ \A n \in 1 .. (u - 1) - (a + 1) + 1 : s[n] = t[(a + 1) + n - 1]
    <3>1. a + 1 \in Int /\ u - 1 \in Int
      BY <1>1
    <3> HIDE DEF u
    <3> QED BY <2>1, <3>1, SubSeqProperties
  <2> HIDE DEF s
  <2>3. Len(s) = b
    BY <1>1, <2>2
  <2>4. \A n \in 1 .. b : s[n] = w[n]
    <3> TAKE n \in 1 .. b
    <3>1. n \in 1 .. (u - 1) - (a + 1) + 1 /\ (a + 1) + n - 1 = a + n
      BY <1>1
    <3>2. s[n] = t[(a + 1) + n - 1]
      BY <2>2, <3>1
    <3>3. s[n] = t[a + n]
      BY ONLY <3>1, <3>2, Zenon
    <3> QED BY <1>2, <3>3
  <2>5. s = w
    BY <1>6, <2>2, <2>3, <2>4, SeqEqual DEF b
  <2> QED BY <2>5 DEF s
<1>9. PICK G : /\ Parts(t, delim) = G[1]
               /\ \A p \in 1 .. Len(t) + 2 :
                     /\ G[p] \in Seq(Seq(S))
                     /\ G[p] = IF p > Len(t) THEN <<>>
                               ELSE <<SubSeq(t, p, Upto(t, p, delim) - 1)>> \o G[Upto(t, p, delim) + 1]
  <2>1. \E F : ArePartsFrom(F, t, delim, S)
    <3>1. t \in Seq(S)
      BY ONLY <1>2
    <3> QED BY ONLY <3>1, PartsTyped
  <2> QED BY <2>1, Zenon DEF ArePartsFrom
<1>10. G[a + 1] = <<w>>
  <2>1. a + 1 \in 1 .. Len(t) + 2 /\ ~(a + 1 > Len(t))
    BY <1>1, <1>2, <1>3
  <2>2. u + 1 \in 1 .. Len(t) + 2 /\ u + 1 > Len(t)
    BY <1>1, <1>2, <1>3
  <2>3. G[u + 1] = <<>>
    BY <1>9, <2>2
  <2>4. G[a + 1] = <<SubSeq(t, a + 1, Upto(t, a + 1, delim) - 1)>> \o G[Upto(t, a + 1, delim) + 1]
    BY <1>9, <2>1
  <2>5. G[a + 1] = <<w>> \o <<>>
    <3> HIDE DEF u
    <3> QED BY <1>7, <1>8, <2>3, <2>4, Zenon
  <2>6. <<w>> \in Seq(Seq(S))
    BY <1>6
  <2> QED BY <2>5, <2>6, ConcatEmptySeq
<1>11. PICK F : /\ Parts(x, delim) = F[1]
                /\ \A p \in 1 .. a + 2 :
                      /\ F[p] \in Seq(Seq(S))
                      /\ F[p] = IF p > a THEN <<>>
                                ELSE <<SubSeq(x, p, Upto(x, p, delim) - 1)>> \o F[Upto(x, p, delim) + 1]
  <2>1. \E F : /\ Parts(x, delim) = F[1]
                /\ \A p \in 1 .. Len(x) + 2 :
                      /\ F[p] \in Seq(Seq(S))
                      /\ F[p] = IF p > Len(x) THEN <<>>
                                ELSE <<SubSeq(x, p, Upto(x, p, delim) - 1)>> \o F[Upto(x, p, delim) + 1]
    <3>1. x \in Seq(S)
      BY <1>6
    <3>2. \E F : ArePartsFrom(F, x, delim, S)
      BY ONLY <3>1, PartsTyped
    <3> QED BY ONLY <3>2, Zenon DEF ArePartsFrom
  <2> QED BY <2>1 DEF a
<1> DEFINE T == {j \in Nat : j <= a /\ G[a + 1 - j] # F[a + 1 - j] \o <<w>>}
<1>12. ASSUME T # {} PROVE FALSE
  <2>1. PICK j : j \in T /\ \A r \in T : j <= r
    <3>1. T \in SUBSET Nat
      OBVIOUS
    <3> HIDE DEF T
    <3> QED BY <1>12, <3>1, LeastNatural
  <2> DEFINE p == a + 1 - j
  <2>2. j \in Nat /\ j <= a /\ p \in 1 .. a + 1 /\ G[p] # F[p] \o <<w>>
    <3>1. j \in Nat /\ j <= a /\ G[a + 1 - j] # F[a + 1 - j] \o <<w>>
      BY ONLY <2>1
    <3>2. a + 1 - j \in 1 .. a + 1
      BY ONLY <1>1, <3>1
    <3> QED BY ONLY <3>1, <3>2, Zenon
  <2>3. CASE j = 0
    <3>1. p = a + 1
      BY <1>1, <2>3
    <3>2. F[a + 1] = <<>>
      <4>1. a + 1 \in 1 .. a + 2 /\ a + 1 > a
        BY <1>1
      <4> QED BY <1>11, <4>1
    <3>3. <<>> \o <<w>> = <<w>>
      <4>1. <<w>> \in Seq(Seq(S))
        BY <1>6
      <4> QED BY <4>1, ConcatEmptySeq
    <3> HIDE DEF p
    <3> QED BY <1>10, <2>2, <3>1, <3>2, <3>3, Zenon
  <2>4. CASE j # 0
    <3> DEFINE e == Upto(x, p, delim)
    <3>1. p \in 1 .. a /\ p \in 1 .. a + 1 /\ a # 0
      BY <1>1, <2>2, <2>4
    <3>2. e \in p .. a + 1 /\ (e = a + 1 \/ x[e] = delim) /\ \A n \in p .. e - 1 : x[n] # delim
      <4> HIDE DEF p
      <4> QED BY <1>1, <3>1, UptoThere DEF a
    <3> HIDE DEF e
    <3>3. e \in p .. a /\ x[e] = delim
      <4>1. e # a + 1
        <5> SUFFICES ASSUME e = a + 1 PROVE FALSE
          OBVIOUS
        <5>1. a \in p .. e - 1
          BY <1>1, <3>1
        <5> QED BY <1>4, <3>1, <3>2, <5>1
      <4> QED BY <1>1, <3>1, <3>2, <4>1
    <3>4. Upto(t, p, delim) = e
      <4>1. Len(t) \in Nat /\ p \in 1 .. Len(t) + 1 /\ e \in p .. Len(t) + 1
        BY <1>1, <1>2, <3>1, <3>3
      <4>2. t[e] = delim /\ \A n \in p .. e - 1 : t[n] # delim
        <5>1. e \in 1 .. a /\ \A n \in p .. e - 1 : n \in 1 .. a
          BY <1>1, <3>1, <3>3
        <5> QED BY <1>2, <3>2, <3>3, <5>1
      <4> HIDE DEF p
      <4> QED BY <4>1, <4>2, UptoIs
    <3>5. SubSeq(t, p, e - 1) = SubSeq(x, p, e - 1)
      <4>1. p \in Int /\ e - 1 \in Int /\ \A n \in p .. e - 1 : n \in 1 .. Len(x) /\ n \in 1 .. a
        BY <1>1, <3>1, <3>3 DEF a
      <4>2. \A n \in p .. e - 1 : x[n] \in S /\ t[n] = x[n]
        BY <1>2, <1>6, <4>1, ElementOfSeq
      <4>3. \A n \in p .. e - 1 : t[n] \in S
        BY <4>2
      <4> DEFINE f == SubSeq(x, p, e - 1)
                 g == SubSeq(t, p, e - 1)
      <4> HIDE DEF p
      <4>4. /\ f \in Seq(S) /\ Len(f) = IF p <= e - 1 THEN (e - 1) - p + 1 ELSE 0
            /\ \A n \in 1 .. (e - 1) - p + 1 : f[n] = x[p + n - 1]
        BY <4>1, <4>2, SubSeqProperties
      <4>5. /\ g \in Seq(S) /\ Len(g) = IF p <= e - 1 THEN (e - 1) - p + 1 ELSE 0
            /\ \A n \in 1 .. (e - 1) - p + 1 : g[n] = t[p + n - 1]
        BY <4>1, <4>3, SubSeqProperties
      <4> HIDE DEF f, g
      <4>6. \A n \in 1 .. Len(f) : g[n] = f[n]
        <5> TAKE n \in 1 .. Len(f)
        <5>1. n \in 1 .. (e - 1) - p + 1 /\ p + n - 1 \in p .. e - 1
          BY <4>1, <4>4
        <5> QED BY <4>2, <4>4, <4>5, <5>1
      <4>7. f \in Seq(S) /\ g \in Seq(S) /\ Len(f) = Len(g)
        BY <4>4, <4>5
      <4>8. f = g
        BY ONLY <4>6, <4>7, SeqEqual
      <4> QED BY <4>8 DEF f, g
    <3> DEFINE part == <<SubSeq(x, p, e - 1)>>
    <3>6. F[p] = part \o F[e + 1]
      <4>1. p \in 1 .. a + 2 /\ ~(p > a)
        BY <1>1, <3>1
      <4> HIDE DEF p
      <4> QED BY <1>11, <4>1 DEF e
    <3>7. G[p] = part \o G[e + 1]
      <4>1. p \in 1 .. Len(t) + 2 /\ ~(p > Len(t))
        BY <1>1, <1>2, <3>1
      <4>2. G[p] = <<SubSeq(t, p, Upto(t, p, delim) - 1)>> \o G[Upto(t, p, delim) + 1]
        <5> HIDE DEF p
        <5> QED BY <1>9, <4>1
      <4> HIDE DEF p
      <4> QED BY <3>4, <3>5, <4>2, Zenon
    <3>8. G[e + 1] = F[e + 1] \o <<w>>
      <4> DEFINE r == a - e
      <4>1. r \in Nat /\ r <= a /\ a + 1 - r = e + 1 /\ ~(j <= r)
        BY <1>1, <2>2, <3>1, <3>3
      <4>2. r \notin T
        <5> HIDE DEF T, r
        <5> QED BY <2>1, <4>1
      <4>3. G[a + 1 - r] = F[a + 1 - r] \o <<w>>
        BY <4>1, <4>2
      <4> HIDE DEF r
      <4> QED BY <4>1, <4>3, Zenon
    <3>9. part \in Seq(Seq(S)) /\ F[e + 1] \in Seq(Seq(S)) /\ <<w>> \in Seq(Seq(S))
      <4>1. SubSeq(x, p, e - 1) \in Seq(S)
        <5>1. p \in Int /\ e - 1 \in Int /\ \A n \in p .. e - 1 : n \in 1 .. Len(x)
          BY <1>1, <3>1, <3>3 DEF a
        <5>2. \A n \in p .. e - 1 : x[n] \in S
          BY <1>6, <5>1, ElementOfSeq
        <5> HIDE DEF p
        <5> QED BY <5>1, <5>2, SubSeqProperties
      <4>2. e + 1 \in 1 .. a + 2
        BY <1>1, <3>1, <3>3
      <4>3. F[e + 1] \in Seq(Seq(S))
        BY ONLY <1>11, <4>2
      <4>4. part \in Seq(Seq(S)) /\ <<w>> \in Seq(Seq(S))
        <5> HIDE DEF p
        <5> QED BY <1>6, <4>1
      <4> QED BY <4>3, <4>4
    <3>10. (part \o F[e + 1]) \o <<w>> = part \o (F[e + 1] \o <<w>>)
      <4> HIDE DEF part
      <4> DEFINE rest == F[e + 1]
                 last == <<w>>
      <4>1. part \in Seq(Seq(S)) /\ rest \in Seq(Seq(S)) /\ last \in Seq(Seq(S))
        BY <3>9
      <4> HIDE DEF rest, last
      <4>2. (part \o rest) \o last = part \o (rest \o last)
        BY ONLY <4>1, AssociativeLists, SMTT(60)
      <4> QED BY <4>2 DEF rest, last
    <3> HIDE DEF part, p
    <3> QED BY <2>2, <3>6, <3>7, <3>8, <3>10, Zenon
  <2> QED BY <2>3, <2>4
<1>13. G[1] = F[1] \o <<w>>
  <2>1. a \in Nat /\ a <= a /\ a + 1 - a = 1
    BY <1>1
  <2>2. a \notin T
    <3> HIDE DEF T
    <3> QED BY <1>12
  <2>3. G[a + 1 - a] = F[a + 1 - a] \o <<w>>
    BY <2>1, <2>2
  <2> QED BY ONLY <2>1, <2>3, Zenon
<1>14. F[1] \in Seq(Seq(S))
  <2>1. 1 \in 1 .. a + 2
    BY <1>1
  <2> QED BY <1>11, <2>1
<1>15. F[1] \o <<w>> = Append(F[1], w)
  BY <1>6, <1>14, AppendIsConcat
<1>16. Parts(t, delim) = Append(Parts(x, delim), w)
  BY <1>9, <1>11, <1>13, <1>15, Zenon
<1> QED BY <1>16 DEF t

LEMMA PartsOfNothing ==
  ASSUME NEW delim
  PROVE  Parts(<<>>, delim) = <<>>
<1>1. <<>> \in Seq({}) /\ Len(<<>>) = 0
  OBVIOUS
<1>2. PICK F : /\ Parts(<<>>, delim) = F[1]
               /\ \A p \in 1 .. Len(<<>>) + 2 :
                     F[p] = IF p > Len(<<>>) THEN <<>>
                            ELSE <<SubSeq(<<>>, p, Upto(<<>>, p, delim) - 1)>>
                                    \o F[Upto(<<>>, p, delim) + 1]
  BY <1>1, PartsInOrder
<1>3. 1 \in 1 .. Len(<<>>) + 2 /\ 1 > Len(<<>>)
  BY <1>1
<1> QED BY <1>2, <1>3

(* What vectorToString joins is taken apart again, unless a delimiter is   *)
(* in an element or the last one is empty.                                 *)
LEMMA JoinedParts ==
  ASSUME NEW S, NEW list \in Seq(Seq(S)), NEW delim \in S,
         \A n \in 1 .. Len(list) : \A m \in 1 .. Len(list[n]) : list[n][m] # delim,
         list # <<>> => list[Len(list)] # <<>>
  PROVE  /\ vectorToString(list, <<delim>>).text \in Seq(S)
         /\ Parts(vectorToString(list, <<delim>>).text, delim) = list
<1> DEFINE l == Len(list)
           piece(n) == (IF n = 1 THEN <<>> ELSE <<delim>>) \o list[n]
           pieces(n) == [m \in 1 .. n |-> piece(m)]
           text(n) == FlattenSeq(pieces(n))
           first(n) == [m \in 1 .. n |-> list[m]]
           until(n) == IF n = 0 THEN <<>> ELSE text(n) \o <<delim>>
           Joined(n) == text(n) \in Seq(S) /\ Parts(until(n), delim) = first(n)
<1>0. \A r, s, t \in Seq(S) : (r \o s) \o t = r \o (s \o t)
  BY ONLY Associative, SMTT(60)
<1>1. l \in Nat /\ DOMAIN list = 1 .. l /\ \A n \in 1 .. l : list[n] \in Seq(S)
  BY LenProperties, ElementOfSeq
<1>2. <<delim>> \in Seq(S) /\ <<>> \in Seq(S) /\ Len(<<delim>>) = 1 /\ <<delim>>[1] = delim
  OBVIOUS
<1>3. \A n \in 1 .. l : piece(n) \in Seq(S)
  BY <1>1, <1>2, ConcatProperties
<1>4. ASSUME NEW n \in 1 .. l
      PROVE  /\ pieces(n - 1) \in Seq(Seq(S))
             /\ text(n) = text(n - 1) \o piece(n) /\ text(n - 1) \in Seq(S)
  <2>1. pieces(n) \in [1 .. n -> Seq(S)] /\ n \in Nat \ {0}
    <3> HIDE DEF piece
    <3> QED BY <1>1, <1>3
  <2>2. /\ [m \in 1 .. n - 1 |-> pieces(n)[m]] = pieces(n - 1)
        /\ pieces(n)[n] = piece(n)
    <3> HIDE DEF piece
    <3> QED BY <1>1
  <2>3. /\ [m \in 1 .. n - 1 |-> pieces(n)[m]] \in Seq(Seq(S)) /\ pieces(n)[n] \in Seq(S)
        /\ pieces(n) = Append([m \in 1 .. n - 1 |-> pieces(n)[m]], pieces(n)[n])
    <3> HIDE DEF pieces
    <3> QED BY <2>1, LastOne
  <2> HIDE DEF pieces, piece
  <2>4. pieces(n - 1) \in Seq(Seq(S)) /\ piece(n) \in Seq(S)
        /\ pieces(n) = Append(pieces(n - 1), piece(n))
    BY <2>2, <2>3, Zenon
  <2> QED BY <2>4, FlattenOne
<1>5. text(0) = <<>>
  <2>1. pieces(0) = <<>>
    OBVIOUS
  <2> HIDE DEF pieces
  <2> QED BY <2>1, FlattenNothing
<1> HIDE DEF text, pieces
<1>6. ASSUME NEW n \in 1 .. l, Joined(n - 1)
      PROVE  /\ until(n - 1) \in Seq(S) /\ text(n) = until(n - 1) \o list[n]
             /\ until(n - 1) = <<>> \/ until(n - 1)[Len(until(n - 1))] = delim
  <2>1. text(n) = text(n - 1) \o piece(n) /\ text(n - 1) \in Seq(S) /\ list[n] \in Seq(S)
    BY <1>1, <1>4
  <2>2. CASE n = 1
    <3>1. until(n - 1) = <<>> /\ text(n - 1) = <<>> /\ piece(n) = <<>> \o list[n]
      BY <1>5, <2>2
    <3>2. <<>> \o list[n] = list[n]
      BY <2>1, ConcatEmptySeq
    <3>3. text(n) = <<>> \o list[n]
      BY <2>1, <3>1, <3>2, Zenon
    <3> HIDE DEF until
    <3> QED BY <1>2, <3>1, <3>3
  <2>3. CASE n # 1
    <3>1. until(n - 1) = text(n - 1) \o <<delim>> /\ piece(n) = <<delim>> \o list[n]
      BY <2>3
    <3> HIDE DEF until, piece
    <3>2. text(n) = until(n - 1) \o list[n]
      <4>1. (text(n - 1) \o <<delim>>) \o list[n] = text(n - 1) \o (<<delim>> \o list[n])
        <5> DEFINE b1 == text(n - 1)
                   b2 == <<delim>>
                   b3 == list[n]
        <5>1. b1 \in Seq(S) /\ b2 \in Seq(S) /\ b3 \in Seq(S)
          BY <1>2, <2>1
        <5> HIDE DEF b1, b2, b3
        <5>2. (b1 \o b2) \o b3 = b1 \o (b2 \o b3)
          BY ONLY <1>0, <5>1, Zenon
        <5> QED BY ONLY <5>2, Zenon DEF b1, b2, b3
      <4> QED BY <2>1, <3>1, <4>1, Zenon
    <3>3. until(n - 1) \in Seq(S) /\ until(n - 1)[Len(until(n - 1))] = delim
      <4> DEFINE t == text(n - 1)
      <4>1. t \in Seq(S) /\ until(n - 1) = t \o <<delim>>
        BY <2>1, <3>1
      <4> HIDE DEF t
      <4>2. until(n - 1) = Append(t, delim)
        BY <4>1, AppendIsConcat
      <4>3. /\ Append(t, delim) \in Seq(S) /\ Len(Append(t, delim)) = Len(t) + 1
            /\ Append(t, delim)[Len(t) + 1] = delim
        BY ONLY <4>1, delim \in S, AppendProperties
      <4> QED BY <4>2, <4>3, Zenon
    <3> QED BY <3>2, <3>3
  <2> QED BY <2>2, <2>3
<1>7. Joined(0)
  <2>1. first(0) = <<>> /\ until(0) = <<>>
    OBVIOUS
  <2> HIDE DEF first, until
  <2> QED BY <1>2, <1>5, <2>1, PartsOfNothing
<1>8. ASSUME NEW n \in 1 .. l, Joined(n - 1) PROVE Joined(n)
  <2> DEFINE x == until(n - 1)
             w == list[n]
  <2>1. x \in Seq(S) /\ text(n) = x \o w /\ (x = <<>> \/ x[Len(x)] = delim)
    <3> HIDE DEF until, Joined
    <3> QED BY <1>6, <1>8
  <2>2. w \in Seq(S) /\ \A m \in 1 .. Len(w) : w[m] # delim
    BY <1>1
  <2>3. until(n) = (x \o w) \o <<delim>>
    <3>1. until(n) = text(n) \o <<delim>>
      BY <1>1
    <3> HIDE DEF until, x, w
    <3> QED BY <2>1, <3>1, Zenon
  <2>4. Parts(x, delim) = first(n - 1)
    BY <1>8
  <2> HIDE DEF x, w, until
  <2>5. Parts((x \o w) \o <<delim>>, delim) = Append(Parts(x, delim), w)
    <3> DEFINE y == <<delim>>
    <3>1. x \in Seq(S) /\ (x = <<>> \/ x[Len(x)] = delim)
      BY ONLY <2>1
    <3>2. y \in Seq(S) /\ y = <<delim>>
      BY ONLY <1>2
    <3> HIDE DEF y
    <3>3. Parts((x \o w) \o y, delim) = Append(Parts(x, delim), w)
      BY ONLY <2>2, <3>1, <3>2, PartsComes
    <3> QED BY ONLY <3>2, <3>3, Zenon
  <2>6. first(n) = Append(first(n - 1), w)
    <3> DEFINE f == [m \in 1 .. n |-> list[m]]
    <3>1. f \in [1 .. n -> Seq(S)] /\ n \in Nat \ {0} /\ f[n] = w
          /\ [m \in 1 .. n - 1 |-> f[m]] = first(n - 1)
      BY <1>1 DEF w
    <3>2. f = Append([m \in 1 .. n - 1 |-> f[m]], f[n])
      <4> HIDE DEF f
      <4> QED BY <3>1, LastOne
    <3>3. first(n) = f
      OBVIOUS
    <3> HIDE DEF f, first
    <3> QED BY <3>1, <3>2, <3>3, Zenon
  <2>7. text(n) \in Seq(S)
    BY <2>1, <2>2, ConcatProperties
  <2>8. Parts(until(n), delim) = first(n)
    <3> HIDE DEF first
    <3> QED BY <2>3, <2>4, <2>5, <2>6, Zenon
  <2> QED BY <2>7, <2>8
<1> HIDE DEF Joined
<1>9. ASSUME NEW n \in 0 .. l PROVE Joined(n)
  <2> DEFINE V == {m \in Nat : m <= l /\ ~Joined(m)}
  <2>1. SUFFICES ASSUME V # {} PROVE FALSE
    BY <1>1
  <2>2. PICK m \in V : \A k \in V : m <= k
    <3>1. V \in SUBSET Nat
      OBVIOUS
    <3> HIDE DEF V
    <3> QED BY <2>1, <3>1, LeastNatural
  <2>3. m # 0
    BY <1>7, <2>2
  <2>4. m \in 1 .. l /\ m - 1 \in Nat /\ m - 1 <= l /\ ~(m <= m - 1)
    BY <1>1, <2>2, <2>3
  <2>5. m - 1 \notin V
    <3> HIDE DEF V
    <3> QED BY <2>2, <2>4
  <2>6. Joined(m - 1)
    BY <2>4, <2>5
  <2>7. Joined(m)
    BY <1>8, <2>4, <2>6
  <2> QED BY <2>2, <2>7
<1>10. vectorToString(list, <<delim>>).text = text(l)
  BY <1>1 DEF vectorToString, text, pieces
<1>11. text(l) \in Seq(S)
  <2>1. l \in 0 .. l
    BY <1>1
  <2>2. Joined(l)
    BY <1>9, <2>1
  <2> QED BY <2>2 DEF Joined
<1>12. Parts(text(l), delim) = list
  <2>1. CASE l = 0
    <3>1. list = <<>>
      BY <2>1, EmptySeq
    <3> QED BY <1>5, <2>1, <3>1, PartsOfNothing
  <2>2. CASE l # 0
    <3> DEFINE x == until(l - 1)
               w == list[l]
    <3>1. l \in 1 .. l /\ l - 1 \in 0 .. l
      BY <1>1, <2>2
    <3>2. Joined(l - 1)
      BY <1>9, <3>1
    <3>3. x \in Seq(S) /\ text(l) = x \o w /\ (x = <<>> \/ x[Len(x)] = delim)
      <4> HIDE DEF until
      <4> QED BY <1>6, <3>1, <3>2
    <3>4. w \in Seq(S) /\ w # <<>> /\ \A m \in 1 .. Len(w) : w[m] # delim
      <4>1. list # <<>>
        <5>1. Len(<<>>) = 0
          OBVIOUS
        <5> QED BY <2>2, <5>1
      <4> QED BY <1>1, <3>1, <4>1
    <3>5. Parts(x, delim) = first(l - 1)
      BY <3>2 DEF Joined
    <3> HIDE DEF x, w
    <3>6. Parts((x \o w) \o <<>>, delim) = Append(Parts(x, delim), w)
      <4> DEFINE y == <<>>
      <4>1. x \in Seq(S) /\ (x = <<>> \/ x[Len(x)] = delim)
        BY ONLY <3>3
      <4>2. y \in Seq(S) /\ y = <<>>
        BY ONLY <1>2
      <4> HIDE DEF y
      <4>3. Parts((x \o w) \o y, delim) = Append(Parts(x, delim), w)
        BY ONLY <3>4, <4>1, <4>2, PartsComes
      <4> QED BY ONLY <4>2, <4>3, Zenon
    <3>7. (x \o w) \o <<>> = x \o w
      <4>1. x \o w \in Seq(S)
        BY <3>3, <3>4, ConcatProperties
      <4> QED BY <4>1, ConcatEmptySeq
    <3>8. list = Append(first(l - 1), w)
      <4>1. list \in [1 .. l -> Seq(S)] /\ l \in Nat \ {0}
        BY <1>1, <2>2, LenProperties
      <4>2. list = Append([m \in 1 .. l - 1 |-> list[m]], list[l])
        <5> HIDE DEF l
        <5> QED BY <4>1, LastOne
      <4> QED BY <4>2 DEF w
    <3> HIDE DEF first
    <3> QED BY <3>3, <3>5, <3>6, <3>7, <3>8, Zenon
  <2> QED BY <2>1, <2>2
<1> QED BY <1>10, <1>11, <1>12

LEMMA TextOfList ==
  ASSUME NEW list, IsList(list), NEW delim, IsSeq(delim)
  PROVE  IsSeq(vectorToString(list, delim).text)
<1>1. PICK S : list \in Seq(Seq(S))
  BY DEF IsList
<1>2. PICK T : delim \in Seq(T)
  BY DEF IsSeq
<1> DEFINE U == S \cup T
           pieces == [n \in DOMAIN list |-> (IF n = 1 THEN <<>> ELSE delim) \o list[n]]
<1>3. delim \in Seq(U) /\ \A n \in DOMAIN list : list[n] \in Seq(U)
  <2>1. delim \in Seq(U)
    BY <1>2, SeqMonotonic
  <2>2. ASSUME NEW n \in DOMAIN list PROVE list[n] \in Seq(U)
    <3>1. list[n] \in Seq(S)
      BY <1>1, ElementOfSeq, LenProperties
    <3> QED BY <3>1, SeqMonotonic
  <2> QED BY <2>1, <2>2
<1> HIDE DEF U
<1>4. \A n \in DOMAIN list : (IF n = 1 THEN <<>> ELSE delim) \o list[n] \in Seq(U)
  <2> TAKE n \in DOMAIN list
  <2>1. <<>> \in Seq(U)
    OBVIOUS
  <2> QED BY <1>3, <2>1, ConcatProperties
<1>5. Len(list) \in Nat /\ DOMAIN list = 1 .. Len(list)
  BY <1>1, LenProperties
<1>6. pieces \in [1 .. Len(list) -> Seq(U)]
  BY <1>4, <1>5
<1>7. pieces \in Seq(Seq(U))
  BY <1>5, <1>6, SeqDef
<1>8. vectorToString(list, delim).text = FlattenSeq(pieces)
  BY DEF vectorToString
<1> HIDE DEF pieces
<1>9. FlattenSeq(pieces) \in Seq(U)
  <2>1. <<>> \in Seq(U)
    OBVIOUS
  <2> QED BY <1>7, <2>1, FlattenOne
<1> QED BY <1>8, <1>9 DEF IsSeq
-----------------------------------------------------------------------------
(* Maps as texts, and back *)

(* Where each of the texts is in what is made of all *)
Places(ss, n, text, q) ==
    /\ q \in [0 .. n -> 0 .. Len(text)] /\ q[0] = 0 /\ q[n] = Len(text)
    /\ \A m \in 1 .. n : /\ q[m] = q[m - 1] + Len(ss[m])
                         /\ \A k \in 1 .. Len(ss[m]) : text[q[m - 1] + k] = ss[m][k]

LEMMA PlacesOne ==
  ASSUME NEW S, NEW ss, NEW n \in Nat, NEW text \in Seq(S), NEW q, Places(ss, n, text, q),
         ss[n + 1] \in Seq(S), \A m \in 1 .. n : Len(ss[m]) \in Nat
  PROVE  \E r : Places(ss, n + 1, text \o ss[n + 1], r)
<1> DEFINE t == ss[n + 1]
           more == text \o t
           r == [m \in 0 .. n + 1 |-> IF m <= n THEN q[m] ELSE Len(more)]
<1>1. t \in Seq(S) /\ Len(text) \in Nat /\ Len(t) \in Nat
  BY LenProperties
<1> HIDE DEF t
<1>2. /\ Len(more) = Len(text) + Len(t)
      /\ \A k \in 1 .. Len(text) + Len(t) : more[k] = IF k <= Len(text) THEN text[k] ELSE t[k - Len(text)]
  BY <1>1, ConcatProperties
<1> HIDE DEF more
<1>3. /\ q \in [0 .. n -> 0 .. Len(text)] /\ q[0] = 0 /\ q[n] = Len(text)
      /\ \A m \in 1 .. n : /\ q[m] = q[m - 1] + Len(ss[m])
                           /\ \A k \in 1 .. Len(ss[m]) : text[q[m - 1] + k] = ss[m][k]
  BY DEF Places
<1>4. r \in [0 .. n + 1 -> 0 .. Len(more)] /\ r[n + 1] = Len(more) /\ \A m \in 0 .. n : r[m] = q[m]
  BY <1>1, <1>2, <1>3
<1> HIDE DEF r
<1>5. ASSUME NEW m \in 1 .. n
      PROVE  /\ r[m] = r[m - 1] + Len(ss[m])
             /\ \A k \in 1 .. Len(ss[m]) : more[r[m - 1] + k] = ss[m][k]
  <2>1. m \in 0 .. n /\ m - 1 \in 0 .. n
    OBVIOUS
  <2>2. r[m] = q[m] /\ r[m - 1] = q[m - 1] /\ q[m] \in 0 .. Len(text) /\ q[m - 1] \in 0 .. Len(text)
        /\ q[m] = q[m - 1] + Len(ss[m]) /\ Len(ss[m]) \in Nat
    BY <1>3, <1>4, <2>1
  <2>3. \A k \in 1 .. Len(ss[m]) : q[m - 1] + k \in 1 .. Len(text)
    BY <1>1, <2>2
  <2>4. \A k \in 1 .. Len(ss[m]) : more[q[m - 1] + k] = text[q[m - 1] + k]
    BY <1>1, <1>2, <2>3
  <2> QED BY <1>3, <2>2, <2>4
<1>6. /\ r[n + 1] = r[n] + Len(t)
      /\ \A k \in 1 .. Len(t) : more[r[n] + k] = t[k]
  <2>1. r[n] = Len(text)
    BY <1>3, <1>4
  <2>2. ASSUME NEW k \in 1 .. Len(t) PROVE more[Len(text) + k] = t[k]
    <3>1. Len(text) + k \in 1 .. Len(text) + Len(t) /\ ~(Len(text) + k <= Len(text))
          /\ (Len(text) + k) - Len(text) = k
      BY <1>1
    <3> QED BY <1>2, <3>1
  <2> QED BY <1>2, <1>4, <2>1, <2>2
<1>7. r[0] = 0
  BY <1>3, <1>4
<1>8. \A m \in 1 .. n + 1 : /\ r[m] = r[m - 1] + Len(ss[m])
                            /\ \A k \in 1 .. Len(ss[m]) : more[r[m - 1] + k] = ss[m][k]
  <2> TAKE m \in 1 .. n + 1
  <2>1. CASE m = n + 1
    <3>1. m - 1 = n
      BY <2>1
    <3> QED BY <1>6, <2>1, <3>1, Zenon DEF t
  <2>2. CASE m # n + 1
    <3>1. m \in 1 .. n
      BY <2>2
    <3> QED BY <1>5, <3>1
  <2> QED BY <2>1, <2>2
<1>9. Places(ss, n + 1, more, r)
  BY <1>4, <1>7, <1>8 DEF Places
<1> QED BY <1>9 DEF more, t

LEMMA FlattenPlaces ==
  ASSUME NEW S, NEW ss \in Seq(Seq(S))
  PROVE  FlattenSeq(ss) \in Seq(S) /\ \E q : Places(ss, Len(ss), FlattenSeq(ss), q)
<1> DEFINE l == Len(ss)
           first(n) == [m \in 1 .. n |-> ss[m]]
           text(n) == FlattenSeq(first(n))
           V == {n \in Nat : n <= l /\ ~(text(n) \in Seq(S) /\ \E q : Places(ss, n, text(n), q))}
<1>1. l \in Nat /\ first(l) = ss /\ \A n \in 1 .. l : ss[n] \in Seq(S) /\ Len(ss[n]) \in Nat
  <2>1. l \in Nat /\ first(l) = ss /\ \A n \in 1 .. l : ss[n] \in Seq(S)
    BY LenProperties, ElementOfSeq
  <2> QED BY <2>1, LenProperties
<1>2. V = {}
  <2> SUFFICES ASSUME V # {} PROVE FALSE
    OBVIOUS
  <2>1. PICK n : n \in V /\ \A m \in V : n <= m
    <3>1. V \in SUBSET Nat
      OBVIOUS
    <3> HIDE DEF V
    <3> QED BY <3>1, LeastNatural
  <2>2. n \in Nat /\ n <= l /\ ~(text(n) \in Seq(S) /\ \E q : Places(ss, n, text(n), q))
    BY <2>1
  <2>3. CASE n = 0
    <3>1. first(0) = <<>>
      OBVIOUS
    <3> HIDE DEF first
    <3>2. text(0) = <<>>
      BY <3>1, FlattenNothing
    <3> HIDE DEF text
    <3>3. Places(ss, 0, <<>>, [m \in 0 .. 0 |-> 0])
      <4>1. Len(<<>>) = 0
        OBVIOUS
      <4> QED BY <4>1 DEF Places
    <3>4. <<>> \in Seq(S)
      OBVIOUS
    <3> QED BY <2>2, <2>3, <3>2, <3>3, <3>4
  <2>4. CASE n # 0
    <3>1. n - 1 \in Nat /\ n - 1 <= l /\ ~(n <= n - 1) /\ n \in 1 .. l /\ n \in Nat \ {0}
      BY <1>1, <2>2, <2>4
    <3>2. n - 1 \notin V
      <4> HIDE DEF V
      <4> QED BY <2>1, <3>1
    <3>3. PICK q : text(n - 1) \in Seq(S) /\ Places(ss, n - 1, text(n - 1), q)
      <4> HIDE DEF text
      <4> QED BY <3>1, <3>2
    <3>4. first(n) \in [1 .. n -> Seq(S)] /\ first(n)[n] = ss[n]
          /\ [m \in 1 .. n - 1 |-> first(n)[m]] = first(n - 1)
      BY <1>1, <3>1
    <3>5. first(n - 1) \in Seq(Seq(S)) /\ first(n) = Append(first(n - 1), ss[n])
      <4>1. /\ [m \in 1 .. n - 1 |-> first(n)[m]] \in Seq(Seq(S))
            /\ first(n) = Append([m \in 1 .. n - 1 |-> first(n)[m]], first(n)[n])
        <5> DEFINE f == first(n)
        <5>1. f \in [1 .. n -> Seq(S)] /\ n \in Nat \ {0}
          BY <3>1, <3>4
        <5> HIDE DEF f
        <5>2. /\ [m \in 1 .. n - 1 |-> f[m]] \in Seq(Seq(S))
              /\ f = Append([m \in 1 .. n - 1 |-> f[m]], f[n])
          BY ONLY <5>1, LastOne
        <5> QED BY <5>2 DEF f
      <4> HIDE DEF first
      <4> QED BY <3>4, <4>1, Zenon
    <3>6. ss[n] \in Seq(S) /\ \A m \in 1 .. n - 1 : Len(ss[m]) \in Nat
      BY <1>1, <3>1
    <3> HIDE DEF first
    <3>7. text(n) = text(n - 1) \o ss[n]
      BY <3>5, <3>6, FlattenOne
    <3> HIDE DEF text
    <3>8. text(n) \in Seq(S)
      BY <3>3, <3>6, <3>7, ConcatProperties
    <3>9. (n - 1) + 1 = n
      BY <2>2
    <3>10. ss[(n - 1) + 1] \in Seq(S)
      BY <3>6, <3>9, Zenon
    <3>11. \E r : Places(ss, (n - 1) + 1, text(n - 1) \o ss[(n - 1) + 1], r)
      BY <3>1, <3>3, <3>6, <3>10, PlacesOne
    <3>12. \E r : Places(ss, n, text(n), r)
      BY <3>7, <3>9, <3>11, Zenon
    <3> QED BY <2>2, <3>8, <3>12
  <2> QED BY <2>3, <2>4
<1>3. text(l) \in Seq(S) /\ \E q : Places(ss, l, text(l), q)
  <2> HIDE DEF text
  <2> QED BY <1>1, <1>2
<1> QED BY <1>1, <1>3, Zenon

LEMMA BehindThere ==
  ASSUME NEW text, NEW l \in Nat, l = Len(text), NEW p \in 1 .. l + 1
  PROVE  Behind(text, p) \in p .. l + 1
  BY DEF Behind

LEMMA PairThere ==
  ASSUME NEW text, NEW l \in Nat, l = Len(text), NEW p \in 1 .. l + 1
  PROVE  Pair(text, p).next \in p + 1 .. l + 2
<1> DEFINE a == Upto(text, p, "(")
           b == Behind(text, a)
           c == Upto(text, b, ",")
           d == Behind(text, c)
           e == Upto(text, d, ")")
<1>1. a \in p .. l + 1
  BY UptoThere
<1>2. Pair(text, p).next = e + 1
  BY DEF Pair
<1> HIDE DEF a
<1>3. a \in 1 .. l + 1
  BY <1>1
<1>4. b \in a .. l + 1
  BY <1>3, BehindThere
<1> HIDE DEF b
<1>5. b \in 1 .. l + 1
  BY <1>3, <1>4
<1>6. c \in b .. l + 1
  BY <1>5, UptoThere
<1> HIDE DEF c
<1>7. c \in 1 .. l + 1
  BY <1>5, <1>6
<1>8. d \in c .. l + 1
  BY <1>7, BehindThere
<1> HIDE DEF d
<1>9. d \in 1 .. l + 1
  BY <1>7, <1>8
<1>10. e \in d .. l + 1
  BY <1>9, UptoThere
<1> HIDE DEF e
<1> QED BY <1>1, <1>2, <1>4, <1>6, <1>8, <1>10

(* What parseMap makes of a text from a place on *)
NoMap == [k \in {} |-> <<>>]
MapAt(f, text, V, p) ==
    IF p > Len(text) THEN [success |-> TRUE, map |-> NoMap]
    ELSE IF ~Converts(Pair(text, p).value, V) THEN [success |-> FALSE, map |-> NoMap]
    ELSE [f[Pair(text, p).next] EXCEPT !.map = Entry(Pair(text, p).key, Pair(text, p).value, @)]
MapFrom(f, text, V, m) == f = [p \in m .. Len(text) + 2 |-> MapAt(f, text, V, p)]

LEMMA MapFromExists ==
  ASSUME NEW text, NEW V, Len(text) \in Nat, NEW k \in 0 .. Len(text) + 1
  PROVE  \E f : MapFrom(f, text, V, Len(text) + 2 - k)
<1> DEFINE l == Len(text)
           T == {j \in Nat : j <= l + 1 /\ ~ \E f : MapFrom(f, text, V, l + 2 - j)}
<1>1. l \in Nat
  OBVIOUS
<1> SUFFICES ASSUME T # {} PROVE FALSE
  OBVIOUS
<1>2. PICK j : j \in T /\ \A r \in T : j <= r
  <2>1. T \in SUBSET Nat
    OBVIOUS
  <2> HIDE DEF T
  <2> QED BY <2>1, LeastNatural
<1>3. j \in Nat /\ j <= l + 1 /\ ~ \E f : MapFrom(f, text, V, l + 2 - j)
  BY <1>2
<1> DEFINE q == l + 2 - j
           part(f) == [p \in q .. l + 2 |->
                          IF p # q THEN f[p]
                          ELSE IF p > l THEN [success |-> TRUE, map |-> NoMap] ELSE MapAt(f, text, V, p)]
<1>4. q \in 1 .. l + 2 /\ (j = 0 => q = l + 2)
  BY <1>1, <1>3
<1>5. PICK f : j = 0 \/ f = [p \in q + 1 .. l + 2 |-> MapAt(f, text, V, p)]
  <2>1. CASE j = 0
    BY <2>1
  <2>2. CASE j # 0
    <3>1. j - 1 \in Nat /\ j - 1 <= l + 1 /\ ~(j <= j - 1) /\ l + 2 - (j - 1) = q + 1
      BY <1>1, <1>3, <2>2
    <3>2. j - 1 \notin T
      <4> HIDE DEF T
      <4> QED BY <1>2, <3>1
    <3>3. PICK f : MapFrom(f, text, V, l + 2 - (j - 1))
      BY <3>1, <3>2
    <3>4. MapFrom(f, text, V, q + 1)
      BY ONLY <3>1, <3>3, Zenon
    <3> QED BY <3>4 DEF MapFrom
  <2> QED BY <2>1, <2>2
<1> DEFINE g == part(f)
<1>6. \A p \in q + 1 .. l + 2 : g[p] = f[p]
  BY <1>4
<1>7. ASSUME NEW p \in q .. l + 2, p <= l
      PROVE  MapAt(f, text, V, p) = MapAt(g, text, V, p)
  <2>1. p \in 1 .. l + 1
    BY <1>1, <1>4, <1>7
  <2>2. Pair(text, p).next \in p + 1 .. l + 2
    BY <1>1, <2>1, PairThere
  <2>3. Pair(text, p).next \in q + 1 .. l + 2
    BY <1>1, <1>4, <2>1, <2>2
  <2>4. g[Pair(text, p).next] = f[Pair(text, p).next]
    BY <1>6, <2>3
  <2> HIDE DEF g
  <2> QED BY <2>4, Zenon DEF MapAt
<1>8. ASSUME NEW p \in q .. l + 2
      PROVE  g[p] = MapAt(g, text, V, p)
  <2>1. CASE p > l
    <3>1. MapAt(g, text, V, p) = [success |-> TRUE, map |-> NoMap]
      BY <2>1 DEF MapAt
    <3>2. CASE p = q
      BY <2>1, <3>1, <3>2
    <3>3. CASE p # q
      <4>1. p \in q + 1 .. l + 2 /\ j # 0
        BY <1>1, <1>4, <3>3
      <4>2. f[p] = MapAt(f, text, V, p)
        <5> HIDE DEF q, l
        <5> QED BY <1>5, <4>1
      <4>3. MapAt(f, text, V, p) = [success |-> TRUE, map |-> NoMap]
        BY <2>1 DEF MapAt
      <4> QED BY <1>6, <3>1, <4>1, <4>2, <4>3, Zenon
    <3> QED BY <3>2, <3>3
  <2>2. CASE ~(p > l)
    <3>0. p <= l
      BY <1>1, <1>4, <2>2
    <3>1. MapAt(f, text, V, p) = MapAt(g, text, V, p)
      BY <1>7, <3>0
    <3>2. CASE p = q
      <4>1. g[p] = MapAt(f, text, V, p)
        BY <2>2, <3>2
      <4> QED BY <3>1, <4>1, Zenon
    <3>3. CASE p # q
      <4>1. p \in q + 1 .. l + 2 /\ j # 0
        BY <1>1, <1>4, <3>3
      <4>2. f[p] = MapAt(f, text, V, p)
        <5> HIDE DEF q, l
        <5> QED BY <1>5, <4>1
      <4> QED BY <1>6, <3>1, <4>1, <4>2, Zenon
    <3> QED BY <3>2, <3>3
  <2> QED BY <2>1, <2>2
<1>9. g = [p \in q .. l + 2 |-> g[p]]
  OBVIOUS
<1> HIDE DEF g
<1>10. MapFrom(g, text, V, q)
  BY <1>8, <1>9, Zenon DEF MapFrom
<1> QED BY <1>3, <1>10

LEMMA MapsInOrder ==
  ASSUME NEW text, NEW V, Len(text) \in Nat
  PROVE  \E F : /\ parseMap(text, V) = F[1]
                /\ \A p \in 1 .. Len(text) + 2 : F[p] = MapAt(F, text, V, p)
<1> DEFINE F == CHOOSE f : MapFrom(f, text, V, 1)
<1>1. parseMap(text, V) = F[1]
  BY DEF parseMap, MapFrom, MapAt, NoMap
<1>2. \E f : MapFrom(f, text, V, 1)
  <2>1. Len(text) + 1 \in 0 .. Len(text) + 1 /\ Len(text) + 2 - (Len(text) + 1) = 1
    OBVIOUS
  <2>2. \E f : MapFrom(f, text, V, Len(text) + 2 - (Len(text) + 1))
    BY <2>1, MapFromExists
  <2> QED BY ONLY <2>1, <2>2, Zenon
<1>3. MapFrom(F, text, V, 1)
  BY <1>2
<1> HIDE DEF F
<1>4. \A p \in 1 .. Len(text) + 2 : F[p] = MapAt(F, text, V, p)
  BY <1>3, Zenon DEF MapFrom
<1> QED BY <1>1, <1>4

LEMMA SubSeqIs ==
  ASSUME NEW S, NEW w \in Seq(S), NEW text, NEW p \in Int,
         \A n \in 1 .. Len(w) : text[p + n] = w[n]
  PROVE  SubSeq(text, p + 1, p + Len(w)) = w
<1> DEFINE s == SubSeq(text, p + 1, p + Len(w))
           b == Len(w)
<1>1. b \in Nat /\ p + 1 \in Int /\ p + b \in Int /\ (p + b) - (p + 1) + 1 = b
      /\ \A n \in 1 .. b : w[n] \in S
  BY LenProperties, ElementOfSeq
<1>2. \A n \in p + 1 .. p + b : text[n] \in S
  <2> TAKE n \in p + 1 .. p + b
  <2>1. n - p \in 1 .. b /\ p + (n - p) = n
    BY <1>1
  <2>2. text[p + (n - p)] = w[n - p]
    BY <2>1
  <2>3. text[n] = w[n - p]
    BY ONLY <2>1, <2>2, Zenon
  <2> QED BY <1>1, <2>1, <2>3
<1>3. /\ s \in Seq(S) /\ Len(s) = IF p + 1 <= p + b THEN (p + b) - (p + 1) + 1 ELSE 0
      /\ \A n \in 1 .. (p + b) - (p + 1) + 1 : s[n] = text[(p + 1) + n - 1]
  BY <1>1, <1>2, SubSeqProperties
<1> HIDE DEF s
<1>4. Len(s) = b
  BY <1>1, <1>3
<1>5. \A n \in 1 .. b : s[n] = w[n]
  <2> TAKE n \in 1 .. b
  <2>1. n \in 1 .. (p + b) - (p + 1) + 1 /\ (p + 1) + n - 1 = p + n
    BY <1>1
  <2>2. s[n] = text[(p + 1) + n - 1]
    BY <1>3, <2>1
  <2>3. s[n] = text[p + n]
    BY ONLY <2>1, <2>2, Zenon
  <2> QED BY <2>3
<1>6. s \in Seq(S) /\ Len(s) = Len(w) /\ \A n \in 1 .. Len(s) : s[n] = w[n]
  BY <1>3, <1>4, <1>5
<1>7. s = w
  BY ONLY <1>6, w \in Seq(S), SeqEqual
<1> QED BY <1>7 DEF s

(* Two texts between three marks, as mapToString writes a pair *)
Marked(o, k, c, v, e) == <<o>> \o k \o <<c>> \o v \o <<e>>
PairText(k, v) == Marked("(", k, ",", v, ")")

HasMarks(t, o, k, c, v, e) ==
    /\ Len(t) = Len(k) + Len(v) + 3
    /\ t[1] = o /\ t[Len(k) + 2] = c /\ t[Len(k) + Len(v) + 3] = e
    /\ \A n \in 1 .. Len(k) : t[1 + n] = k[n]
    /\ \A n \in 1 .. Len(v) : t[Len(k) + 2 + n] = v[n]

LEMMA MarkedWritten ==
  ASSUME NEW S, NEW o \in S, NEW c \in S, NEW e \in S, NEW k \in Seq(S), NEW v \in Seq(S)
  PROVE  Marked(o, k, c, v, e) \in Seq(S) /\ HasMarks(Marked(o, k, c, v, e), o, k, c, v, e)
<1> DEFINE x == (<<o>> \o k) \o <<c>>
           t == (x \o v) \o <<e>>
           a == Len(k)
           b == Len(v)
<1>1. a \in Nat /\ b \in Nat
  BY LenProperties
<1>2. <<o>> \in Seq(S) /\ <<c>> \in Seq(S) /\ <<e>> \in Seq(S)
      /\ Len(<<o>>) = 1 /\ Len(<<c>>) = 1 /\ Len(<<e>>) = 1
      /\ <<o>>[1] = o /\ <<c>>[1] = c /\ <<e>>[1] = e
  OBVIOUS
<1>3. /\ x \in Seq(S) /\ Len(x) = a + 2 /\ x[1] = o /\ x[a + 2] = c
      /\ \A n \in 1 .. a : x[1 + n] = k[n]
  <2>1. /\ x \in Seq(S) /\ Len(x) = Len(<<o>>) + Len(k) + Len(<<c>>)
        /\ \A n \in 1 .. Len(<<o>>) : x[n] = <<o>>[n]
        /\ \A n \in 1 .. Len(k) : x[Len(<<o>>) + n] = k[n]
        /\ \A n \in 1 .. Len(<<c>>) : x[Len(<<o>>) + Len(k) + n] = <<c>>[n]
    <3> DEFINE p == <<o>>
               q == <<c>>
    <3>1. p \in Seq(S) /\ q \in Seq(S) /\ k \in Seq(S)
      BY <1>2
    <3> HIDE DEF p, q
    <3>2. IsInThree(S, p, k, q)
      BY ONLY <3>1, InThree
    <3> QED BY <3>2, Zenon DEF IsInThree, p, q
  <2> HIDE DEF x
  <2>2. 1 \in 1 .. 1 /\ 1 + a + 1 = a + 2
    BY <1>1
  <2>3. /\ Len(x) = 1 + a + 1
        /\ \A n \in 1 .. 1 : x[n] = <<o>>[n]
        /\ \A n \in 1 .. a : x[1 + n] = k[n]
        /\ \A n \in 1 .. 1 : x[1 + a + n] = <<c>>[n]
    BY <1>2, <2>1, Zenon
  <2>4. x[1] = o /\ x[1 + a + 1] = c
    BY <1>2, <2>2, <2>3, Zenon
  <2> QED BY <2>1, <2>2, <2>3, <2>4
<1> HIDE DEF x
<1>4. /\ t \in Seq(S) /\ Len(t) = a + 2 + b + 1
      /\ \A n \in 1 .. a + 2 : t[n] = x[n]
      /\ \A n \in 1 .. b : t[a + 2 + n] = v[n]
      /\ t[a + 2 + b + 1] = e
  <2>1. /\ t \in Seq(S) /\ Len(t) = Len(x) + Len(v) + Len(<<e>>)
        /\ \A n \in 1 .. Len(x) : t[n] = x[n]
        /\ \A n \in 1 .. Len(v) : t[Len(x) + n] = v[n]
        /\ \A n \in 1 .. Len(<<e>>) : t[Len(x) + Len(v) + n] = <<e>>[n]
    <3> DEFINE y == <<e>>
    <3>1. y \in Seq(S) /\ x \in Seq(S)
      BY <1>2, <1>3
    <3> HIDE DEF y
    <3>2. IsInThree(S, x, v, y)
      BY <3>1, InThree
    <3> QED BY <3>2, Zenon DEF IsInThree, y
  <2> HIDE DEF t
  <2>2. 1 \in 1 .. 1
    OBVIOUS
  <2>3. /\ Len(t) = a + 2 + b + 1
        /\ \A n \in 1 .. a + 2 : t[n] = x[n]
        /\ \A n \in 1 .. b : t[a + 2 + n] = v[n]
        /\ \A n \in 1 .. 1 : t[a + 2 + b + n] = <<e>>[n]
    BY <1>2, <1>3, <2>1, Zenon
  <2> QED BY <1>2, <2>1, <2>2, <2>3, Zenon
<1> HIDE DEF t
<1>5. t[1] = o /\ t[a + 2] = c
  <2>1. 1 \in 1 .. a + 2 /\ a + 2 \in 1 .. a + 2
    BY <1>1
  <2> QED BY <1>3, <1>4, <2>1
<1>6. \A n \in 1 .. a : t[1 + n] = k[n]
  <2>1. \A n \in 1 .. a : 1 + n \in 1 .. a + 2
    BY <1>1
  <2> QED BY <1>3, <1>4, <2>1
<1>7. a + 2 + b + 1 = a + b + 3
  BY <1>1
<1>8. t = Marked(o, k, c, v, e)
  BY DEF t, x, Marked
<1> HIDE DEF a, b
<1>9. Len(t) = a + b + 3 /\ t[a + b + 3] = e
  BY <1>4, <1>7, Zenon
<1>10. /\ t \in Seq(S) /\ Len(t) = a + b + 3
       /\ t[1] = o /\ t[a + 2] = c /\ t[a + b + 3] = e
       /\ \A n \in 1 .. a : t[1 + n] = k[n]
       /\ \A n \in 1 .. b : t[a + 2 + n] = v[n]
  BY <1>4, <1>5, <1>6, <1>9
<1>11. t \in Seq(S) /\ HasMarks(t, o, k, c, v, e)
  BY ONLY <1>10, Zenon DEF a, b, HasMarks
<1> QED BY ONLY <1>8, <1>11, Zenon

(* And how it is read, wherever it is *)
ReadAt(text, p, o, c, e, k, v, next) ==
    \E x, y, z :
        /\ Upto(text, p, o) = p /\ Behind(text, p) = x
        /\ Upto(text, x, c) = y /\ Behind(text, y) = z
        /\ SubSeq(text, x, y - 1) = k
        /\ SubSeq(text, z, Upto(text, z, e) - 1) = v
        /\ Upto(text, z, e) + 1 = next

LEMMA MarkedRead ==
  ASSUME NEW S, NEW o \in S, NEW c \in S, NEW e \in S, NEW k \in Seq(S), NEW v \in Seq(S),
         \A n \in 1 .. Len(k) : k[n] # c, \A n \in 1 .. Len(v) : v[n] # e,
         NEW text, NEW l \in Nat, l = Len(text), NEW q \in Nat, q + Len(Marked(o, k, c, v, e)) <= l,
         \A n \in 1 .. Len(Marked(o, k, c, v, e)) : text[q + n] = Marked(o, k, c, v, e)[n]
  PROVE  ReadAt(text, q + 1, o, c, e, k, v, q + Len(Marked(o, k, c, v, e)) + 1)
<1> DEFINE w == Marked(o, k, c, v, e)
           a == Len(k)
           b == Len(v)
<1>1. a \in Nat /\ b \in Nat
  BY LenProperties
<1>2. /\ Len(w) = a + b + 3 /\ w[1] = o /\ w[a + 2] = c /\ w[a + b + 3] = e
      /\ \A n \in 1 .. a : w[1 + n] = k[n]
      /\ \A n \in 1 .. b : w[a + 2 + n] = v[n]
  <2>1. HasMarks(w, o, k, c, v, e)
    BY MarkedWritten
  <2> HIDE DEF w
  <2> QED BY <2>1 DEF HasMarks
<1>3. q + (a + b + 3) <= l /\ \A n \in 1 .. a + b + 3 : text[q + n] = w[n]
  <2> HIDE DEF w, a, b
  <2>1. q + Len(w) <= l /\ \A n \in 1 .. Len(w) : text[q + n] = w[n]
    BY DEF w
  <2> QED BY <1>2, <2>1, Zenon
<1> HIDE DEF w
<1>4. text[q + 1] = o /\ text[q + (a + 2)] = c /\ text[q + (a + b + 3)] = e
  <2>1. 1 \in 1 .. a + b + 3 /\ a + 2 \in 1 .. a + b + 3 /\ a + b + 3 \in 1 .. a + b + 3
    BY <1>1
  <2> QED BY <1>2, <1>3, <2>1
<1>5. \A n \in 1 .. a : text[(q + 1) + n] = k[n]
  <2> TAKE n \in 1 .. a
  <2>1. 1 + n \in 1 .. a + b + 3 /\ q + (1 + n) = (q + 1) + n
    BY <1>1
  <2>2. text[q + (1 + n)] = w[1 + n]
    BY <1>3, <2>1
  <2>3. text[(q + 1) + n] = w[1 + n]
    BY ONLY <2>1, <2>2, Zenon
  <2> QED BY <1>2, <2>3
<1>6. \A n \in 1 .. b : text[(q + a + 2) + n] = v[n]
  <2> TAKE n \in 1 .. b
  <2>1. a + 2 + n \in 1 .. a + b + 3 /\ q + (a + 2 + n) = (q + a + 2) + n
    BY <1>1
  <2>2. text[q + (a + 2 + n)] = w[a + 2 + n]
    BY <1>3, <2>1
  <2>3. text[(q + a + 2) + n] = w[a + 2 + n]
    BY ONLY <2>1, <2>2, Zenon
  <2> QED BY <1>2, <2>3
<1>7. \A n \in 1 .. a : k[n] # c
  OBVIOUS
<1>8. \A n \in 1 .. b : v[n] # e
  OBVIOUS
<1>9. /\ k \in Seq(S) /\ v \in Seq(S) /\ l = Len(text) /\ l \in Nat /\ q \in Nat
      /\ a \in Nat /\ b \in Nat /\ q + (a + b + 3) <= l
  BY <1>1, <1>3
<1> HIDE DEF a, b
<1>10. Upto(text, q + 1, o) = q + 1
  <2>1. /\ q + 1 \in 1 .. l + 1 /\ q + 1 \in q + 1 .. l + 1
        /\ \A n \in q + 1 .. (q + 1) - 1 : text[n] # o
    BY ONLY <1>9
  <2> QED BY <1>4, <1>9, <2>1, UptoIs
<1>11. Behind(text, q + 1) = q + 2
  <2>1. q + 1 <= l /\ (q + 1) + 1 = q + 2
    BY ONLY <1>9
  <2> QED BY <2>1 DEF Behind
<1>12. Upto(text, q + 2, c) = q + a + 2
  <2>1. q + 2 \in 1 .. l + 1 /\ q + a + 2 \in q + 2 .. l + 1 /\ q + a + 2 = q + (a + 2)
    BY ONLY <1>9
  <2>2. \A n \in q + 2 .. (q + a + 2) - 1 : text[n] # c
    <3> TAKE n \in q + 2 .. (q + a + 2) - 1
    <3> DEFINE m == n - (q + 1)
    <3>1. m \in 1 .. a /\ (q + 1) + m = n
      BY <1>1
    <3> HIDE DEF m
    <3>2. text[(q + 1) + m] = k[m]
      BY <1>5, <3>1
    <3>3. text[n] = k[m]
      BY ONLY <3>1, <3>2, Zenon
    <3> QED BY <1>7, <3>1, <3>3
  <2>3. text[q + a + 2] = c
    BY ONLY <1>4, <2>1, Zenon
  <2> DEFINE x == q + 2
             u == q + a + 2
  <2>4. /\ l \in Nat /\ l = Len(text) /\ x \in 1 .. l + 1 /\ u \in x .. l + 1
        /\ text[u] = c /\ \A n \in x .. u - 1 : text[n] # c
    BY ONLY <1>9, <2>1, <2>2, <2>3
  <2> HIDE DEF x, u
  <2>5. Upto(text, x, c) = u
    BY ONLY <2>4, UptoIs
  <2> QED BY ONLY <2>5, Zenon DEF x, u
<1>13. Behind(text, q + a + 2) = q + a + 3
  <2>1. q + a + 2 <= l /\ (q + a + 2) + 1 = q + a + 3
    BY ONLY <1>9
  <2> QED BY <2>1 DEF Behind
<1>14. Upto(text, q + a + 3, e) = q + a + b + 3
  <2>1. q + a + 3 \in 1 .. l + 1 /\ q + a + b + 3 \in q + a + 3 .. l + 1
        /\ q + a + b + 3 = q + (a + b + 3)
    BY ONLY <1>9
  <2>2. \A n \in q + a + 3 .. (q + a + b + 3) - 1 : text[n] # e
    <3> TAKE n \in q + a + 3 .. (q + a + b + 3) - 1
    <3> DEFINE m == n - (q + a + 2)
    <3>1. m \in 1 .. b /\ (q + a + 2) + m = n
      BY <1>1
    <3> HIDE DEF m
    <3>2. text[(q + a + 2) + m] = v[m]
      BY <1>6, <3>1
    <3>3. text[n] = v[m]
      BY ONLY <3>1, <3>2, Zenon
    <3> QED BY <1>8, <3>1, <3>3
  <2>3. text[q + a + b + 3] = e
    BY ONLY <1>4, <2>1, Zenon
  <2> DEFINE x == q + a + 3
             u == q + a + b + 3
  <2>4. /\ l \in Nat /\ l = Len(text) /\ x \in 1 .. l + 1 /\ u \in x .. l + 1
        /\ text[u] = e /\ \A n \in x .. u - 1 : text[n] # e
    BY ONLY <1>9, <2>1, <2>2, <2>3
  <2> HIDE DEF x, u
  <2>5. Upto(text, x, e) = u
    BY ONLY <2>4, UptoIs
  <2> QED BY ONLY <2>5, Zenon DEF x, u
<1>15. SubSeq(text, q + 2, (q + a + 2) - 1) = k
  <2>1. q + 1 \in Int /\ (q + 1) + 1 = q + 2 /\ (q + 1) + a = (q + a + 2) - 1
    BY <1>1
  <2>2. SubSeq(text, (q + 1) + 1, (q + 1) + a) = k
    <3> DEFINE x == q + 1
    <3>1. x \in Int /\ k \in Seq(S) /\ \A n \in 1 .. Len(k) : text[x + n] = k[n]
      BY ONLY <1>5, <1>9, <2>1 DEF a
    <3> HIDE DEF x
    <3>2. SubSeq(text, x + 1, x + Len(k)) = k
      BY ONLY <3>1, SubSeqIs
    <3> QED BY ONLY <3>2, Zenon DEF x, a
  <2> QED BY ONLY <2>1, <2>2, Zenon
<1>16. SubSeq(text, q + a + 3, (q + a + b + 3) - 1) = v
  <2>1. q + a + 2 \in Int /\ (q + a + 2) + 1 = q + a + 3 /\ (q + a + 2) + b = (q + a + b + 3) - 1
    BY <1>1
  <2>2. SubSeq(text, (q + a + 2) + 1, (q + a + 2) + b) = v
    <3> DEFINE x == q + a + 2
    <3>1. x \in Int /\ v \in Seq(S) /\ \A n \in 1 .. Len(v) : text[x + n] = v[n]
      BY ONLY <1>6, <1>9, <2>1 DEF b
    <3> HIDE DEF x
    <3>2. SubSeq(text, x + 1, x + Len(v)) = v
      BY ONLY <3>1, SubSeqIs
    <3> QED BY ONLY <3>2, Zenon DEF x, b
  <2> QED BY ONLY <2>1, <2>2, Zenon
<1>17. (q + a + b + 3) + 1 = q + Len(w) + 1
  BY <1>1, <1>2
<1> QED BY ONLY <1>10, <1>11, <1>12, <1>13, <1>14, <1>15, <1>16, <1>17, Zenon DEF w, ReadAt

Delimiters(S) == "(" \in S /\ "," \in S /\ ")" \in S
HasPair(text, p, k, v, next) ==
    Pair(text, p).key = k /\ Pair(text, p).value = v /\ Pair(text, p).next = next

LEMMA PairRead ==
  ASSUME NEW S, Delimiters(S), NEW k \in Seq(S), NEW v \in Seq(S),
         "," \notin ToSet(k), ")" \notin ToSet(v),
         NEW text, NEW l \in Nat, l = Len(text), NEW q \in Nat, q + Len(PairText(k, v)) <= l,
         \A n \in 1 .. Len(PairText(k, v)) : text[q + n] = PairText(k, v)[n]
  PROVE  HasPair(text, q + 1, k, v, q + Len(PairText(k, v)) + 1)
<1> DEFINE o == "("
           c == ","
           e == ")"
           w == Marked(o, k, c, v, e)
<1>1. o \in S /\ c \in S /\ e \in S
  BY Zenon DEF Delimiters
<1>2. PairText(k, v) = w
  BY DEF PairText
<1>3. c \notin ToSet(k) /\ e \notin ToSet(v)
  OBVIOUS
<1>4. (\A n \in 1 .. Len(k) : k[n] # c) /\ (\A n \in 1 .. Len(v) : v[n] # e)
  <2> HIDE DEF o, c, e, w
  <2>1. DOMAIN k = 1 .. Len(k) /\ DOMAIN v = 1 .. Len(v)
    BY ONLY k \in Seq(S), v \in Seq(S), LenProperties
  <2> QED BY ONLY <1>3, <2>1, Zenon DEF ToSet
<1>5. q + Len(w) <= l /\ \A n \in 1 .. Len(w) : text[q + n] = w[n]
  <2> HIDE DEF w
  <2> QED BY <1>2, Zenon
<1> HIDE DEF o, c, e
<1>6. ReadAt(text, q + 1, o, c, e, k, v, q + Len(w) + 1)
  <2>1. l = Len(text) /\ l \in Nat /\ q \in Nat /\ k \in Seq(S) /\ v \in Seq(S)
    OBVIOUS
  <2> QED BY ONLY <1>1, <1>4, <1>5, <2>1, MarkedRead
<1> HIDE DEF w
<1>7. Pair(text, q + 1) = [key |-> k, value |-> v, next |-> q + Len(w) + 1]
  BY ONLY <1>6, Zenon DEF ReadAt, Pair, o, c, e
<1>8. HasPair(text, q + 1, k, v, q + Len(w) + 1)
  BY ONLY <1>7 DEF HasPair
<1> QED BY ONLY <1>2, <1>8, Zenon

(* A map of which the text has the pairs behind a place *)
Later(hash, order, n) ==
    [k \in {order[m] : m \in n + 1 .. Len(order)} \cap DOMAIN hash |-> hash[k]]
PairOf(hash, k) == IF k \in DOMAIN hash THEN PairText(k, hash[k]) ELSE <<>>
MapTyped(hash, order, S, V) ==
    /\ order = [n \in 1 .. Len(order) |-> order[n]] /\ Len(order) \in Nat
    /\ hash = [k \in DOMAIN hash |-> hash[k]]
    /\ \A k \in DOMAIN hash : /\ k \in {order[n] : n \in 1 .. Len(order)}
                              /\ k \in Seq(S) /\ hash[k] \in Seq(S)
                              /\ "," \notin ToSet(k) /\ ")" \notin ToSet(hash[k])
                              /\ Converts(hash[k], V)

LEMMA PairTextTyped ==
  ASSUME NEW S, Delimiters(S), NEW k \in Seq(S), NEW v \in Seq(S)
  PROVE  PairText(k, v) \in Seq(S) /\ Len(PairText(k, v)) \in Nat /\ Len(PairText(k, v)) >= 3
<1> DEFINE o == "("
           c == ","
           e == ")"
           w == Marked(o, k, c, v, e)
<1>1. o \in S /\ c \in S /\ e \in S
  BY Zenon DEF Delimiters
<1>2. PairText(k, v) = w
  BY DEF PairText
<1> HIDE DEF o, c, e
<1>3. w \in Seq(S) /\ HasMarks(w, o, k, c, v, e)
  BY ONLY <1>1, k \in Seq(S), v \in Seq(S), MarkedWritten
<1> HIDE DEF w
<1>4. Len(w) = Len(k) + Len(v) + 3
  BY ONLY <1>3, Zenon DEF HasMarks
<1>5. Len(k) \in Nat /\ Len(v) \in Nat
  BY ONLY k \in Seq(S), v \in Seq(S), LenProperties
<1>6. Len(w) \in Nat /\ Len(w) >= 3
  BY ONLY <1>4, <1>5
<1> QED BY ONLY <1>2, <1>3, <1>6, Zenon

Stands(text, b, w) == \A u \in 1 .. Len(w) : text[b + u] = w[u]
IsRead(F, text, V) == \A p \in 1 .. Len(text) + 2 : F[p] = MapAt(F, text, V, p)

LEMMA MapReplaced ==
  ASSUME NEW f, NEW s, NEW r, NEW z, f = [success |-> s, map |-> r]
  PROVE  f.map = r /\ [f EXCEPT !.map = z] = [success |-> s, map |-> z]
OBVIOUS

(* The step from what is behind a pair to what is behind the one before *)
LEMMA PairAdded ==
  ASSUME NEW S, Delimiters(S), NEW V, NEW order, NEW hash, MapTyped(hash, order, S, V),
         NEW text, NEW L \in Nat, L = Len(text),
         NEW F, IsRead(F, text, V),
         NEW n \in 1 .. Len(order), NEW b \in 0 .. L, NEW a \in 0 .. L,
         a = b + Len(PairOf(hash, order[n])),
         Stands(text, b, PairOf(hash, order[n])),
         F[a + 1] = [success |-> TRUE, map |-> Later(hash, order, n)]
  PROVE  F[b + 1] = [success |-> TRUE, map |-> Later(hash, order, n - 1)]
<1> DEFINE k == order[n]
           v == hash[k]
           N == Len(order)
<1>1. N \in Nat /\ n \in 1 .. N
  BY DEF MapTyped
<1>2. {order[m] : m \in (n - 1) + 1 .. N} = {k} \cup {order[m] : m \in n + 1 .. N}
  <2>1. (n - 1) + 1 .. N = {n} \cup (n + 1 .. N)
    BY <1>1
  <2> QED BY <2>1
<1>3. CASE k \notin DOMAIN hash
  <2>1. Len(PairOf(hash, k)) = 0
    BY <1>3 DEF PairOf
  <2>2. a = b
    BY <2>1
  <2>3. Later(hash, order, n - 1) = Later(hash, order, n)
    <3>1. {order[m] : m \in (n - 1) + 1 .. N} \cap DOMAIN hash = {order[m] : m \in n + 1 .. N} \cap DOMAIN hash
      BY <1>2, <1>3
    <3> QED BY <3>1, Zenon DEF Later
  <2> QED BY <2>2, <2>3, Zenon
<1>4. CASE k \in DOMAIN hash
  <2>1. k \in Seq(S) /\ v \in Seq(S) /\ "," \notin ToSet(k) /\ ")" \notin ToSet(v) /\ Converts(v, V)
    BY <1>4, Zenon DEF MapTyped
  <2> DEFINE w == PairText(k, v)
  <2>2. PairOf(hash, k) = w
    BY <1>4 DEF PairOf
  <2>3. w \in Seq(S) /\ Len(w) \in Nat /\ Len(w) >= 3
    BY ONLY <2>1, Delimiters(S), PairTextTyped
  <2> HIDE DEF w
  <2>4. a = b + Len(w) /\ \A u \in 1 .. Len(w) : text[b + u] = w[u]
    <3>1. Stands(text, b, w)
      BY <2>2, Zenon
    <3> QED BY <2>2, <3>1, Zenon DEF Stands
  <2>5. b \in Nat /\ b + Len(w) <= L /\ a + 1 = b + Len(w) + 1 /\ b + 1 \in 1 .. L + 2 /\ ~(b + 1 > L)
    BY <2>3, <2>4
  <2>6. HasPair(text, b + 1, k, v, a + 1)
    <3>1. HasPair(text, b + 1, k, v, b + Len(PairText(k, v)) + 1)
      <4>1. b + Len(PairText(k, v)) <= L /\ \A u \in 1 .. Len(PairText(k, v)) : text[b + u] = PairText(k, v)[u]
        BY ONLY <2>4, <2>5 DEF w
      <4>2. L \in Nat /\ L = Len(text) /\ Delimiters(S)
        OBVIOUS
      <4> HIDE DEF k, v
      <4> QED BY ONLY <2>1, <2>5, <4>1, <4>2, PairRead
    <3> QED BY ONLY <2>5, <3>1, Zenon DEF w
  <2>7. F[b + 1] = MapAt(F, text, V, b + 1)
    <3>1. b + 1 \in 1 .. Len(text) + 2
      BY <2>5
    <3> QED BY <3>1, Zenon DEF IsRead
  <2>8. MapAt(F, text, V, b + 1) = [F[a + 1] EXCEPT !.map = Entry(k, v, @)]
    BY <2>1, <2>5, <2>6, Zenon DEF MapAt, HasPair
  <2>9. [F[a + 1] EXCEPT !.map = Entry(k, v, @)] = [success |-> TRUE, map |-> Entry(k, v, Later(hash, order, n))]
    <3> DEFINE r == Later(hash, order, n)
    <3> HIDE DEF r
    <3>1. F[a + 1] = [success |-> TRUE, map |-> r]
      BY DEF r
    <3> DEFINE f == F[a + 1]
               z == Entry(k, v, r)
    <3>2. f = [success |-> TRUE, map |-> r]
      BY <3>1
    <3> HIDE DEF f, z
    <3>3. f.map = r /\ [f EXCEPT !.map = z] = [success |-> TRUE, map |-> z]
      BY ONLY <3>2, MapReplaced
    <3>4. [f EXCEPT !.map = Entry(k, v, @)] = [success |-> TRUE, map |-> z]
      BY ONLY <3>3, Zenon DEF z
    <3> QED BY ONLY <3>4, Zenon DEF f, z, r
  <2>10. Entry(k, v, Later(hash, order, n)) = Later(hash, order, n - 1)
    <3> DEFINE D == {order[m] : m \in n + 1 .. N} \cap DOMAIN hash
               E == {order[m] : m \in (n - 1) + 1 .. N} \cap DOMAIN hash
    <3>1. E = {k} \cup D
      BY <1>2, <1>4
    <3> HIDE DEF D, E
    <3>2. Later(hash, order, n) = [x \in D |-> hash[x]] /\ Later(hash, order, n - 1) = [x \in E |-> hash[x]]
      BY DEF Later, D, E
    <3>3. Entry(k, v, [x \in D |-> hash[x]]) = [x \in {k} \cup D |-> hash[x]]
      BY ONLY TRUE DEF Entry, v
    <3> QED BY <3>1, <3>2, <3>3, Zenon
  <2> QED BY ONLY <2>7, <2>8, <2>9, <2>10, Zenon
<1> QED BY <1>3, <1>4

LEMMA MapParsed ==
  ASSUME NEW S, Delimiters(S), NEW V, NEW order, NEW hash, MapTyped(hash, order, S, V)
  PROVE  /\ mapToString(hash, order) \in Seq(S) /\ Len(mapToString(hash, order)) # 1
         /\ parseMap(mapToString(hash, order), V) = [success |-> TRUE, map |-> hash]
<1> DEFINE N == Len(order)
           ss == [n \in DOMAIN order |-> PairOf(hash, order[n])]
           text == FlattenSeq(ss)
           L == Len(text)
<1>1. N \in Nat /\ order = [n \in 1 .. N |-> order[n]] /\ DOMAIN order = 1 .. N
  BY DEF MapTyped
<1>2. mapToString(hash, order) = text
  BY DEF mapToString, PairOf, PairText, Marked
<1>3. ss \in Seq(Seq(S)) /\ Len(ss) = N
  <2>1. ASSUME NEW n \in 1 .. N PROVE PairOf(hash, order[n]) \in Seq(S)
    <3>1. CASE order[n] \notin DOMAIN hash
      <4>1. <<>> \in Seq(S)
        OBVIOUS
      <4> QED BY <3>1, <4>1 DEF PairOf
    <3>2. CASE order[n] \in DOMAIN hash
      <4>1. order[n] \in Seq(S) /\ hash[order[n]] \in Seq(S)
        BY <3>2, Zenon DEF MapTyped
      <4>2. PairText(order[n], hash[order[n]]) \in Seq(S)
        BY ONLY <4>1, Delimiters(S), PairTextTyped
      <4> QED BY <3>2, <4>2 DEF PairOf
    <3> QED BY <3>1, <3>2
  <2>2. ss = [n \in 1 .. N |-> PairOf(hash, order[n])]
    BY <1>1, Zenon
  <2> HIDE DEF ss
  <2>3. ss \in [1 .. N -> Seq(S)]
    BY <2>1, <2>2
  <2> QED BY <1>1, <2>3
<1>4. \A n \in 1 .. N : ss[n] = PairOf(hash, order[n])
  BY <1>1
<1> HIDE DEF ss
<1>5. text \in Seq(S) /\ \E q : Places(ss, Len(ss), text, q)
  BY <1>3, FlattenPlaces
<1> HIDE DEF text
<1>6. PICK q : Places(ss, N, text, q)
  BY <1>3, <1>5
<1>7. L \in Nat
  BY <1>5, LenProperties
<1>8. PICK F : /\ parseMap(text, V) = F[1]
               /\ \A p \in 1 .. L + 2 : F[p] = MapAt(F, text, V, p)
  BY <1>7, MapsInOrder
<1>9. /\ q \in [0 .. N -> 0 .. L] /\ q[0] = 0 /\ q[N] = L
      /\ \A m \in 1 .. N : /\ q[m] = q[m - 1] + Len(ss[m])
                           /\ \A u \in 1 .. Len(ss[m]) : text[q[m - 1] + u] = ss[m][u]
  BY <1>6, Zenon DEF Places
<1> DEFINE P(n) == F[q[n] + 1] = [success |-> TRUE, map |-> Later(hash, order, n)]
           T == {j \in Nat : j <= N /\ ~P(N - j)}
<1>10. P(N)
  <2>1. {order[m] : m \in N + 1 .. N} = {}
    BY <1>1
  <2>2. Later(hash, order, N) = NoMap
    BY <2>1, Zenon DEF Later, NoMap
  <2>3. F[L + 1] = MapAt(F, text, V, L + 1) /\ L + 1 > L
    BY <1>7, <1>8
  <2>4. F[L + 1] = [success |-> TRUE, map |-> NoMap]
    BY <2>3, Zenon DEF MapAt
  <2> QED BY <1>9, <2>2, <2>4, Zenon
<1>11. ASSUME NEW n \in 1 .. N, P(n) PROVE P(n - 1)
  <2> DEFINE a == q[n]
             b == q[n - 1]
  <2>1. n \in 0 .. N /\ n - 1 \in 0 .. N
    BY <1>1
  <2>2. a \in 0 .. L /\ b \in 0 .. L
    BY <1>9, <2>1
  <2>3. ss[n] = PairOf(hash, order[n])
    BY <1>4
  <2>4. a = b + Len(ss[n]) /\ \A u \in 1 .. Len(ss[n]) : text[b + u] = ss[n][u]
    BY <1>9
  <2>5. a = b + Len(PairOf(hash, order[n]))
        /\ Stands(text, b, PairOf(hash, order[n]))
    BY ONLY <2>3, <2>4, Zenon DEF Stands
  <2>6. F[a + 1] = [success |-> TRUE, map |-> Later(hash, order, n)]
    BY <1>11, Zenon
  <2> HIDE DEF a, b
  <2>7. F[b + 1] = [success |-> TRUE, map |-> Later(hash, order, n - 1)]
    <3>1. n \in 1 .. Len(order) /\ L \in Nat /\ L = Len(text) /\ Delimiters(S) /\ MapTyped(hash, order, S, V)
      BY <1>7
    <3>2. IsRead(F, text, V)
      BY <1>8, Zenon DEF IsRead
    <3> HIDE DEF L
    <3> QED BY ONLY <2>2, <2>5, <2>6, <3>1, <3>2, PairAdded
  <2> QED BY <2>7 DEF b
<1> HIDE DEF P
<1>12. T = {}
  <2> SUFFICES ASSUME T # {} PROVE FALSE
    OBVIOUS
  <2>1. PICK j : j \in T /\ \A r \in T : j <= r
    <3>1. T \in SUBSET Nat
      OBVIOUS
    <3> HIDE DEF T
    <3> QED BY <3>1, LeastNatural
  <2>2. j \in Nat /\ j <= N /\ ~P(N - j)
    BY <2>1
  <2>3. j # 0
    <3> SUFFICES ASSUME j = 0 PROVE FALSE
      OBVIOUS
    <3>1. N - j = N
      BY <1>1
    <3> QED BY ONLY <1>10, <2>2, <3>1, Zenon
  <2>4. /\ j - 1 \in Nat /\ j - 1 <= N /\ ~(j <= j - 1)
        /\ N - (j - 1) \in 1 .. N /\ (N - (j - 1)) - 1 = N - j
    BY <1>1, <2>2, <2>3
  <2>5. j - 1 \notin T
    <3> HIDE DEF T
    <3> QED BY <2>1, <2>4
  <2>6. P(N - (j - 1))
    BY <2>4, <2>5
  <2>7. P((N - (j - 1)) - 1)
    BY ONLY <1>11, <2>4, <2>6
  <2> QED BY ONLY <2>2, <2>4, <2>7, Zenon
<1>13. P(0)
  <2>1. N \notin T /\ N - N = 0
    BY <1>1, <1>12
  <2>2. P(N - N)
    BY <1>1, <2>1
  <2> QED BY ONLY <2>1, <2>2, Zenon
<1>14. Later(hash, order, 0) = hash
  <2>1. {order[m] : m \in 0 + 1 .. N} \cap DOMAIN hash = DOMAIN hash
    <3>1. 0 + 1 .. N = 1 .. N
      BY <1>1
    <3>2. \A k \in DOMAIN hash : k \in {order[n] : n \in 1 .. N}
      BY Zenon DEF MapTyped
    <3> QED BY <3>1, <3>2
  <2>2. hash = [k \in DOMAIN hash |-> hash[k]]
    BY Zenon DEF MapTyped
  <2> QED BY <2>1, <2>2, Zenon DEF Later
<1>15. F[1] = [success |-> TRUE, map |-> hash]
  <2>1. F[q[0] + 1] = [success |-> TRUE, map |-> hash]
    BY <1>13, <1>14, Zenon DEF P
  <2>2. q[0] + 1 = 1
    BY <1>9
  <2> QED BY <2>1, <2>2, Zenon
<1>16. \A m \in 1 .. N : Len(ss[m]) = 0 \/ Len(ss[m]) >= 3
  <2> TAKE m \in 1 .. N
  <2>1. ss[m] = PairOf(hash, order[m])
    BY <1>4
  <2>2. CASE order[m] \notin DOMAIN hash
    <3>1. ss[m] = <<>>
      BY ONLY <2>1, <2>2, Zenon DEF PairOf
    <3> QED BY ONLY <3>1
  <2>3. CASE order[m] \in DOMAIN hash
    <3>1. order[m] \in Seq(S) /\ hash[order[m]] \in Seq(S)
      BY <2>3, Zenon DEF MapTyped
    <3>2. Len(PairText(order[m], hash[order[m]])) >= 3
      BY ONLY <3>1, Delimiters(S), PairTextTyped
    <3>3. ss[m] = PairText(order[m], hash[order[m]])
      BY ONLY <2>1, <2>3, Zenon DEF PairOf
    <3> QED BY ONLY <3>2, <3>3, Zenon
  <2> QED BY ONLY <2>2, <2>3
<1>17. L # 1
  <2> DEFINE B == {m \in 0 .. N : q[m] # 0}
  <2> SUFFICES ASSUME L = 1 PROVE FALSE
    OBVIOUS
  <2>1. N \in B
    BY <1>1, <1>9
  <2>2. PICK m : m \in B /\ \A r \in B : m <= r
    <3>1. B \in SUBSET Nat
      OBVIOUS
    <3> HIDE DEF B
    <3> QED BY <2>1, <3>1, LeastNatural
  <2>3. m \in 0 .. N /\ q[m] # 0
    BY <2>2
  <2>4. m \in 1 .. N /\ m - 1 \in 0 .. N /\ ~(m <= m - 1)
    <3>1. m # 0
      BY ONLY <1>9, <2>3, Zenon
    <3> QED BY ONLY <1>1, <2>3, <3>1
  <2>5. m - 1 \notin B
    <3> HIDE DEF B
    <3> QED BY ONLY <2>2, <2>4, Zenon
  <2>6. q[m - 1] = 0
    BY ONLY <2>4, <2>5
  <2>7. q[m] = q[m - 1] + Len(ss[m]) /\ q[m] \in 0 .. 1
    <3>1. L = 1
      OBVIOUS
    <3> HIDE DEF L
    <3>2. q[m] = q[m - 1] + Len(ss[m])
      BY ONLY <1>9, <2>4
    <3>3. q[m] \in 0 .. L
      BY ONLY <1>9, <2>3
    <3> QED BY ONLY <3>1, <3>2, <3>3
  <2>8. Len(ss[m]) = 0 \/ Len(ss[m]) >= 3
    BY <1>16, <2>4
  <2>9. Len(ss[m]) \in Nat
    <3>1. ss[m] \in Seq(S)
      BY <1>3, <2>4
    <3> QED BY ONLY <3>1, LenProperties
  <2> DEFINE w == Len(ss[m])
             u == q[m]
  <2>10. u = 0 + w /\ u \in 0 .. 1 /\ u # 0 /\ w \in Nat /\ (w = 0 \/ w >= 3)
    BY ONLY <2>3, <2>6, <2>7, <2>8, <2>9, Zenon
  <2> HIDE DEF w, u
  <2> QED BY ONLY <2>10
<1> QED BY <1>2, <1>5, <1>8, <1>15, <1>17, Zenon DEF L

(* The provers do not know that a text in quotes is a string. *)
Characters == STRING \cup {"(", ",", ")"}

LEMMA MoreElements ==
  ASSUME NEW A, NEW B, A \subseteq B
  PROVE  \A s \in Seq(A) : s \in Seq(B)
<1> TAKE s \in Seq(A)
<1>1. Len(s) \in Nat /\ s \in [1 .. Len(s) -> A]
  BY LenProperties
<1>2. s \in [1 .. Len(s) -> B]
  BY <1>1
<1> QED BY <1>1, <1>2, SeqDef

LEMMA StringsTyped == \A s \in Seq(STRING) : s \in Seq(Characters)
<1>1. STRING \subseteq Characters
  BY Zenon DEF Characters
<1> QED BY ONLY <1>1, MoreElements

LEMMA MapReceived ==
  ASSUME NEW m \in Maps, Legible(m)
  PROVE  parseMap(mapToString(m, MapKeys), "string").map = m
<1>1. /\ Len(MapKeys) \in Nat /\ MapKeys = [n \in 1 .. Len(MapKeys) |-> MapKeys[n]]
      /\ DOMAIN m \subseteq ToSet(MapKeys) /\ \A k \in DOMAIN m : m[k] \in Seq(STRING)
      /\ DOMAIN m \subseteq Seq(STRING) /\ m = [k \in DOMAIN m |-> m[k]]
  <2>1. IsSequence(MapKeys) /\ IsMap(m) /\ DOMAIN m \subseteq ToSet(MapKeys)
        /\ \A k \in DOMAIN m : m[k] \in Seq(STRING)
    BY SmokeTestAssumption, Zenon
  <2> QED BY ONLY <2>1, Zenon DEF IsSequence, IsMap
<1>2. ToSet(MapKeys) = {MapKeys[n] : n \in 1 .. Len(MapKeys)}
  <2>1. DOMAIN MapKeys = 1 .. Len(MapKeys)
    BY ONLY <1>1
  <2> QED BY ONLY <2>1, Zenon DEF ToSet
<1>3. \A k \in DOMAIN m : Converts(m[k], "string")
  BY DEF Converts
<1>4. MapTyped(m, MapKeys, Characters, "string")
  <2>1. ASSUME NEW k \in DOMAIN m
        PROVE  /\ k \in {MapKeys[n] : n \in 1 .. Len(MapKeys)}
               /\ k \in Seq(Characters) /\ m[k] \in Seq(Characters)
               /\ "," \notin ToSet(k) /\ ")" \notin ToSet(m[k])
               /\ Converts(m[k], "string")
    BY <1>1, <1>2, <1>3, StringsTyped, Zenon DEF Legible
  <2> QED BY ONLY <1>1, <2>1, Zenon DEF MapTyped
<1>5. Delimiters(Characters)
  BY Zenon DEF Delimiters, Characters
<1>6. parseMap(mapToString(m, MapKeys), "string") = [success |-> TRUE, map |-> m]
  <2> DEFINE S == Characters
             V == "string"
  <2>1. Delimiters(S) /\ MapTyped(m, MapKeys, S, V)
    BY <1>4, <1>5
  <2> HIDE DEF S, V
  <2>2. parseMap(mapToString(m, MapKeys), V) = [success |-> TRUE, map |-> m]
    BY ONLY <2>1, MapParsed
  <2> QED BY ONLY <2>2, Zenon DEF V
<1> QED BY ONLY <1>6

LEMMA TalkStep ==
  ASSUME [Next]_vars
  PROVE  \/ (\E m \in Maps : SendMap(m)) \/ (\E o \in Stored : StoreSystem(o))
         \/ UNCHANGED talkVars
<1>1. CASE \E m \in Maps : SendMap(m)
  BY <1>1
<1>2. CASE \E o \in Stored : StoreSystem(o)
  BY <1>2
<1>3. CASE \E attributes \in Settings : SetAll(attributes)
  BY <1>3 DEF SetAll, Attributes
<1>4. CASE \E pair \in Values : SetOne(pair[1], pair[2]) \/ GetOne(pair[1])
  BY <1>4 DEF SetOne, GetOne, Attributes
<1>5. CASE Save \/ Load
  BY <1>5 DEF Save, Load, Attributes
<1>6. CASE \E list \in Lists : PlaceList(list)
  BY <1>6 DEF PlaceList
<1>7. CASE \E levels \in Pointed : PlacePointed(levels)
  BY <1>7 DEF PlacePointed
<1>8. CASE \E words \in Systems \cup {loaded.system} : Interpret(words)
  BY <1>8 DEF Interpret
<1>9. CASE \E items \in Strangers : Strange(items)
  BY <1>9 DEF Strange
<1>10. CASE Sort
  BY <1>10 DEF Sort
<1>11. CASE PlaceOne
  BY <1>11 DEF PlaceOne
<1>12. CASE UNCHANGED vars
  BY <1>12 DEF vars
<1> QED BY <1>1, <1>2, <1>3, <1>4, <1>5, <1>6, <1>7, <1>8, <1>9, <1>10, <1>11, <1>12 DEF Next

-----------------------------------------------------------------------------
(* Spheres *)

(* Coordinates, radii, and levels and indices in pointers *)
Coordinates == Int \cup {Exponent(n) : n \in Int}

(* A std::map has a first level. *)
Items == Seq(Coordinates)
LevelSets == {S \in SUBSET Int : \E b \in Int : \A k \in S : b <= k}
Branched == UNION {[S -> Seq(Items)] : S \in LevelSets}

(* What getPoints returns has no pointers. *)
Points == [1 .. 3 -> Coordinates]
Shelves == UNION {[S -> Seq(Points)] : S \in LevelSets}
Given == Pointed \cup Shelves

(* What is done to Physics: systems and lists come, each when the one      *)
(* before is done.                                                         *)
PlacementNext ==
    \/ \E levels \in Given, r \in Coordinates : AddSystem(levels, r)
    \/ \E points \in Seq(Items), rs \in Seq(Coordinates) : AddList(points, rs)
    \/ Placing

-----------------------------------------------------------------------------
(* The invariant *)

Spheres == [at : Items, radius : Coordinates]

Typed ==
    /\ space \in Seq(Spheres) /\ before \in 0 .. Len(space)
    /\ stu_physics_collided \in BOOLEAN /\ placing \in BOOLEAN
    /\ system \in Branched /\ DOMAIN radii = DOMAIN system
    /\ \A k \in DOMAIN system : radii[k] \in Seq(Coordinates) /\ Len(radii[k]) = Len(system[k])

(* How far a method has come; what it leaves when it returns *)
Progress ==
    /\ placing =>
          /\ level \in DOMAIN system /\ i \in 1 .. Len(system[level]) + 1
          /\ collisionIndex \in 0 .. i - 1
          /\ DOMAIN ret = {k \in DOMAIN system : k < level}
    /\ ~placing => stu_physics_collided = FALSE /\ DOMAIN ret = DOMAIN system
    /\ \A k \in DOMAIN ret : ret[k] \in 0 .. Len(system[k])

Ball(k, n) == Sphere(system[k][n], radii[k][n])
AllPlain == \A k \in DOMAIN system : Plain(k)
Met(k, n) == \E m \in DOMAIN space : Touch(space[m], Ball(k, n))

(* How many points of a branch were placed so far *)
Done(k) == IF k \in DOMAIN ret THEN ret[k] ELSE IF placing /\ k = level THEN i - 1 ELSE 0

BeginningsPlaced ==
    AllPlain =>
        /\ placing => collisionIndex = i - 1
        /\ placing /\ stu_physics_collided => i <= Len(system[level]) /\ Met(level, i)
        /\ \A m \in before + 1 .. Len(space) :
              \E k \in DOMAIN system : \E n \in 1 .. Done(k) : space[m] = Ball(k, n)
        /\ \A k \in DOMAIN system : \A n \in 1 .. Done(k) :
              \E m \in before + 1 .. Len(space) : space[m] = Ball(k, n)
        /\ \A k \in DOMAIN ret : ret[k] < Len(system[k]) => Met(k, ret[k] + 1)

SpaceInv == Typed /\ Progress /\ ~Collided(space) /\ BeginningsPlaced

-----------------------------------------------------------------------------
(* Levels and spaces *)

(* The loop over a map starts, and goes on, at a level that is there.      *)
LEMMA FirstLevel ==
  ASSUME NEW S \in LevelSets, NEW T \in SUBSET S, T # {}
  PROVE  First(T) \in T /\ \A n \in T : First(T) <= n
<1>1. PICK b \in Int : \A k \in S : b <= k
  BY DEF LevelSets
<1>2. S \subseteq Int
  BY DEF LevelSets
<1> DEFINE U == {n \in Nat : b + n \in T}
<1>3. \A k \in T : k \in Int /\ b <= k /\ k - b \in Nat /\ b + (k - b) = k
  BY <1>1, <1>2
<1>4. U # {}
  BY <1>3
<1>5. PICK x \in U : \A y \in U : ~(<<y, x>> \in OpToRel(<, Nat))
  BY <1>4, NatLessThanWellFounded, WFMin
<1>6. x \in Nat /\ b + x \in T
  OBVIOUS
<1>7. \A y \in U : ~(y < x)
  BY <1>5, <1>6 DEF OpToRel
<1>8. ASSUME NEW k \in T PROVE b + x <= k
  <2>1. k - b \in U
    BY <1>3
  <2>2. ~(k - b < x) /\ b \in Int /\ k \in Int /\ x \in Nat
    BY <2>1, <1>1, <1>3, <1>6, <1>7
  <2> QED BY <2>2
<1> QED BY <1>6, <1>8 DEF First

LEMMA BranchedFacts ==
  ASSUME NEW levels \in Branched
  PROVE  /\ DOMAIN levels \in LevelSets /\ DOMAIN levels \subseteq Int
         /\ \A k \in DOMAIN levels : levels[k] \in Seq(Items) /\ Len(levels[k]) \in Nat
         /\ DOMAIN levels = {} => levels = [k \in {} |-> <<>>]
<1>1. PICK S \in LevelSets : levels \in [S -> Seq(Items)]
  BY DEF Branched
<1>2. DOMAIN levels = S /\ \A k \in S : levels[k] \in Seq(Items)
  BY <1>1
<1>3. \A k \in S : Len(levels[k]) \in Nat
  BY <1>2, LenProperties
<1>4. S \subseteq Int
  BY DEF LevelSets
<1>5. ASSUME S = {} PROVE levels = [k \in {} |-> <<>>]
  BY <1>1, <1>5
<1> QED BY <1>2, <1>3, <1>4, <1>5

(* Nothing touched before: what touches is the sphere that was added.      *)
LEMMA OnlyTheLast ==
  ASSUME NEW spheres \in Seq(Spheres), NEW ball \in Spheres, ~Collided(spheres)
  PROVE  Collided(Append(spheres, ball)) <=> \E m \in DOMAIN spheres : Touch(spheres[m], ball)
<1> DEFINE with == Append(spheres, ball)
<1>1. /\ with \in Seq(Spheres) /\ Len(with) = Len(spheres) + 1
      /\ \A m \in 1 .. Len(spheres) : with[m] = spheres[m]
      /\ with[Len(spheres) + 1] = ball
  BY AppendProperties
<1>2. /\ Len(spheres) \in Nat /\ DOMAIN spheres = 1 .. Len(spheres)
      /\ DOMAIN with = 1 .. Len(spheres) + 1
  BY <1>1, LenProperties
<1> HIDE DEF with
<1>3. ASSUME NEW m \in DOMAIN spheres, Touch(spheres[m], ball)
      PROVE  Collided(with)
  <2>1. m \in DOMAIN with /\ Len(spheres) + 1 \in DOMAIN with /\ m < Len(spheres) + 1
    BY <1>2
  <2>2. with[m] = spheres[m]
    BY <1>1, <1>2
  <2>3. Touch(with[m], with[Len(spheres) + 1])
    BY <1>1, <1>3, <2>2, Zenon
  <2> QED BY <2>1, <2>3 DEF Collided
<1>4. ASSUME Collided(with)
      PROVE  \E m \in DOMAIN spheres : Touch(spheres[m], ball)
  <2>1. PICK m \in DOMAIN with, n \in DOMAIN with : m < n /\ Touch(with[m], with[n])
    BY <1>4 DEF Collided
  <2>2. m \in DOMAIN spheres /\ with[m] = spheres[m]
    BY <1>1, <1>2, <2>1
  <2>3. ASSUME n \in DOMAIN spheres PROVE FALSE
    <3>1. with[n] = spheres[n]
      BY <1>1, <1>2, <2>3
    <3>2. m < n /\ Touch(spheres[m], spheres[n])
      BY <2>1, <2>2, <3>1, Zenon
    <3> QED BY <2>2, <2>3, <3>2 DEF Collided
  <2>4. n = Len(spheres) + 1
    BY <1>2, <2>1, <2>3
  <2>5. Touch(spheres[m], ball)
    BY <1>1, <2>1, <2>2, <2>4, Zenon
  <2> QED BY <2>2, <2>5
<1> QED BY <1>3, <1>4 DEF with
LEMMA GivenBranched ==
  ASSUME NEW levels \in Given
  PROVE  levels \in Branched
<1>1. CASE levels \in Pointed
  <2>1. HasFirst(DOMAIN levels) /\ levels \in [DOMAIN levels -> Seq(Seq(Int))]
    BY <1>1, SmokeTestAssumption
  <2>2. DOMAIN levels \in LevelSets
    BY <2>1 DEF HasFirst, LevelSets
  <2>3. \A k \in DOMAIN levels : levels[k] \in Seq(Items)
    <3>1. Seq(Int) \subseteq Items
      BY SeqMonotonic DEF Items, Coordinates
    <3> QED BY <2>1, <3>1, SeqMonotonic
  <2>4. levels \in [DOMAIN levels -> Seq(Items)]
    BY <2>1, <2>3
  <2> QED BY <2>2, <2>4 DEF Branched
<1>2. CASE levels \in Shelves
  <2>1. PICK S \in LevelSets : levels \in [S -> Seq(Points)]
    BY <1>2 DEF Shelves
  <2>2. Points \subseteq Items
    <3>1. 3 \in Nat
      OBVIOUS
    <3> QED BY <3>1, SeqDef DEF Points, Items
  <2>3. levels \in [S -> Seq(Items)]
    <3>1. \A k \in S : levels[k] \in Seq(Items)
      BY <2>1, <2>2, SeqMonotonic
    <3> QED BY <2>1, <3>1
  <2> QED BY <2>3 DEF Branched
<1> QED BY <1>1, <1>2 DEF Given
-----------------------------------------------------------------------------
(* What is called *)

LEMMA CalledStep ==
  ASSUME Typed, Progress, ~Collided(space), NEW levels \in Branched, NEW rs, Called(levels, rs),
         stu_physics_collided' = FALSE, DOMAIN rs = DOMAIN levels,
         \A k \in DOMAIN levels : rs[k] \in Seq(Coordinates) /\ Len(rs[k]) = Len(levels[k])
  PROVE  /\ SpaceInv' /\ DOMAIN ret' = {} /\ system' = levels /\ space' = space
         /\ before' = Len(space') /\ i' = 1
<1>1. /\ placing = FALSE /\ system' = levels /\ radii' = rs /\ ret' = [k \in {} |-> 0]
      /\ before' = Len(space) /\ space' = space /\ i' = 1 /\ collisionIndex' = 0
  BY DEF Called, Typed
<1>2. /\ DOMAIN levels \in LevelSets /\ DOMAIN levels \subseteq Int
      /\ \A k \in DOMAIN levels : levels[k] \in Seq(Items) /\ Len(levels[k]) \in Nat
      /\ DOMAIN levels = {} => levels = [k \in {} |-> <<>>]
  BY BranchedFacts
<1>3. DOMAIN ret' = {}
  BY <1>1
<1>4. Len(space) \in Nat
  BY LenProperties DEF Typed
<1>7. /\ space' \in Seq(Spheres) /\ before' \in 0 .. Len(space')
      /\ stu_physics_collided' \in BOOLEAN
      /\ system' \in Branched /\ DOMAIN radii' = DOMAIN system'
      /\ \A k \in DOMAIN system' : radii'[k] \in Seq(Coordinates) /\ Len(radii'[k]) = Len(system'[k])
  <2>1. space' \in Seq(Spheres) /\ before' \in 0 .. Len(space')
    BY <1>1, <1>4 DEF Typed
  <2>2. stu_physics_collided' \in BOOLEAN
    OBVIOUS
  <2>3. system' \in Branched /\ DOMAIN radii' = DOMAIN system'
    BY <1>1
  <2>4. \A k \in DOMAIN system' : radii'[k] \in Seq(Coordinates) /\ Len(radii'[k]) = Len(system'[k])
    BY <1>1
  <2> QED BY <2>1, <2>2, <2>3, <2>4
<1>5. CASE levels = [k \in {} |-> <<>>]
  <2>1. placing' = FALSE /\ DOMAIN levels = {}
    BY <1>1, <1>5 DEF Called
  <2>2. Typed'
    BY <1>1, <1>7, <2>1 DEF Typed
  <2>3. Progress'
    BY <1>1, <1>3, <2>1 DEF Progress
  <2>4. (~Collided(space))'
    BY <1>1
  <2>5. BeginningsPlaced'
    BY <1>1, <1>3, <1>4, <2>1 DEF BeginningsPlaced
  <2> QED BY <1>1, <1>3, <2>2, <2>3, <2>4, <2>5 DEF SpaceInv
<1>6. CASE levels # [k \in {} |-> <<>>]
  <2>1. placing' = TRUE /\ level' = First(DOMAIN levels)
    BY <1>6 DEF Called
  <2>2. level' \in DOMAIN levels /\ \A n \in DOMAIN levels : level' <= n
    BY <1>2, <1>6, <2>1, FirstLevel
  <2>3. Typed'
    BY <1>1, <1>7, <2>1 DEF Typed
  <2>4. {k \in DOMAIN levels : k < level'} = {}
    BY <1>2, <2>2
  <2>5. i' \in 1 .. Len(levels[level']) + 1 /\ collisionIndex' \in 0 .. i' - 1
    BY <1>1, <1>2, <2>2
  <2>6. Progress'
    BY <1>1, <1>3, <2>1, <2>2, <2>4, <2>5 DEF Progress
  <2>7. (~Collided(space))'
    BY <1>1
  <2>8. \A k \in DOMAIN levels : Done(k)' = 0
    BY <1>1, <1>3 DEF Done
  <2>9. BeginningsPlaced'
    <3>1. collisionIndex' = i' - 1
      BY <1>1
    <3>2. before' + 1 .. Len(space') = {}
      BY <1>1, <1>4
    <3> QED BY <1>1, <1>3, <2>8, <3>1, <3>2 DEF BeginningsPlaced
  <2> QED BY <1>1, <1>3, <2>3, <2>6, <2>7, <2>9 DEF SpaceInv
<1> QED BY <1>5, <1>6

LEMMA SystemStep ==
  ASSUME SpaceInv, NEW levels \in Branched, NEW r \in Coordinates, AddSystem(levels, r)
  PROVE  /\ SpaceInv' /\ DOMAIN ret' = {} /\ system' = levels /\ space' = space
         /\ before' = Len(space') /\ i' = 1
<1> DEFINE rs == [k \in DOMAIN levels |-> [n \in DOMAIN levels[k] |-> r]]
<1>1. \A k \in DOMAIN levels : levels[k] \in Seq(Items) /\ Len(levels[k]) \in Nat
  BY BranchedFacts
<1>2. \A k \in DOMAIN levels : rs[k] \in Seq(Coordinates) /\ Len(rs[k]) = Len(levels[k])
  <2>1. SUFFICES ASSUME NEW k \in DOMAIN levels
                 PROVE  rs[k] \in Seq(Coordinates) /\ Len(rs[k]) = Len(levels[k])
    OBVIOUS
  <2>2. rs[k] = [n \in 1 .. Len(levels[k]) |-> r]
    BY <1>1, LenProperties
  <2>3. rs[k] \in [1 .. Len(levels[k]) -> Coordinates]
    BY <2>2
  <2>4. rs[k] \in Seq(Coordinates)
    BY <1>1, <2>3, SeqDef
  <2> QED BY <1>1, <2>3, <2>4, LenProperties
<1>3. Called(levels, rs) /\ stu_physics_collided' = FALSE /\ DOMAIN rs = DOMAIN levels
  BY DEF AddSystem
<1> HIDE DEF rs
<1> QED BY <1>2, <1>3, CalledStep DEF SpaceInv

LEMMA ListStep ==
  ASSUME SpaceInv, NEW points \in Seq(Items), NEW rs \in Seq(Coordinates), AddList(points, rs)
  PROVE  /\ SpaceInv' /\ DOMAIN ret' = {} /\ system' = [k \in {0} |-> points] /\ space' = space
         /\ before' = Len(space') /\ i' = 1
<1> DEFINE levels == [k \in {0} |-> points]
           radiuses == [k \in {0} |-> rs]
<1>1. {0} \in LevelSets
  BY DEF LevelSets
<1>2. levels \in Branched
  BY <1>1 DEF Branched
<1>3. \A k \in DOMAIN levels : radiuses[k] \in Seq(Coordinates) /\ Len(radiuses[k]) = Len(levels[k])
  BY DEF AddList
<1>4. Called(levels, radiuses) /\ UNCHANGED stu_physics_collided /\ DOMAIN radiuses = DOMAIN levels
  BY DEF AddList
<1>5. stu_physics_collided' = FALSE
  BY <1>4 DEF Called, SpaceInv, Progress
<1> HIDE DEF levels, radiuses
<1>6. /\ SpaceInv' /\ DOMAIN ret' = {} /\ system' = levels /\ space' = space
      /\ before' = Len(space') /\ i' = 1
  BY <1>2, <1>3, <1>4, <1>5, CalledStep DEF SpaceInv
<1> QED BY <1>6 DEF levels
-----------------------------------------------------------------------------
(* A step of the loops *)

LEMMA WhilePlacing ==
  ASSUME Typed, Progress, placing
  PROVE  /\ level \in DOMAIN system /\ level \in Int /\ level \notin DOMAIN ret
         /\ DOMAIN ret = {k \in DOMAIN system : k < level}
         /\ system[level] \in Seq(Items) /\ Len(system[level]) \in Nat
         /\ DOMAIN system[level] = 1 .. Len(system[level])
         /\ i \in Nat \ {0} /\ i <= Len(system[level]) + 1 /\ collisionIndex \in 0 .. i - 1
         /\ \A n \in 1 .. Len(system[level]) :
               system[level][n] \in Items /\ Len(system[level][n]) \in Nat /\ Ball(level, n) \in Spheres
<1>1. /\ level \in DOMAIN system /\ i \in 1 .. Len(system[level]) + 1
      /\ collisionIndex \in 0 .. i - 1 /\ DOMAIN ret = {k \in DOMAIN system : k < level}
  BY DEF Progress
<1>2. /\ DOMAIN system \subseteq Int /\ system[level] \in Seq(Items)
      /\ Len(system[level]) \in Nat
  BY <1>1, BranchedFacts DEF Typed
<1>3. radii[level] \in Seq(Coordinates) /\ Len(radii[level]) = Len(system[level])
  BY <1>1 DEF Typed
<1>4. DOMAIN system[level] = 1 .. Len(system[level])
  BY <1>2, LenProperties
<1>5. ASSUME NEW n \in 1 .. Len(system[level])
      PROVE  /\ system[level][n] \in Items /\ Len(system[level][n]) \in Nat
             /\ Ball(level, n) \in Spheres
  <2>1. system[level][n] \in Items /\ radii[level][n] \in Coordinates
    BY <1>2, <1>3, ElementOfSeq
  <2>2. Len(system[level][n]) \in Nat
    BY <2>1, LenProperties DEF Items
  <2> QED BY <2>1, <2>2 DEF Ball, Sphere, Spheres
<1>6. level \in Int /\ level \notin DOMAIN ret
  BY <1>1, <1>2
<1>7. i \in Nat \ {0} /\ i <= Len(system[level]) + 1
  BY <1>1, <1>2
<1> QED BY <1>1, <1>2, <1>4, <1>5, <1>6, <1>7

(* What has no pointers and no short points is placed point by point. *)
LEMMA PlainPoints ==
  ASSUME Typed, Progress, More, AllPlain
  PROVE  Len(Point) = 3
<1>1. placing /\ i <= Len(system[level])
  BY DEF More
<1>2. i \in DOMAIN system[level] /\ level \in DOMAIN system
  BY <1>1, WhilePlacing
<1> QED BY <1>2 DEF AllPlain, Plain, Point

LEMMA PointerCutStep ==
  ASSUME SpaceInv, PointerCut
  PROVE  SpaceInv'
<1>1. /\ Typed /\ Progress /\ ~Collided(space) /\ BeginningsPlaced
      /\ placing /\ More /\ Len(Point) = 2
  BY DEF SpaceInv, PointerCut, More, Pointer
<1>2. UNCHANGED <<space, placing, system, radii, level, i, collisionIndex, ret, before>>
  BY DEF PointerCut
<1>3. stu_physics_collided' = TRUE
  BY DEF PointerCut
<1>4. Typed'
  BY <1>1, <1>2, <1>3, Zenon DEF Typed
<1>5. Progress'
  BY <1>1, <1>2, Zenon DEF Progress
<1>6. ~AllPlain
  BY <1>1, PlainPoints
<1>7. (~AllPlain)'
  BY <1>2, <1>6 DEF AllPlain, Plain
<1>8. (~Collided(space))'
  BY <1>1, <1>2
<1> QED BY <1>4, <1>5, <1>7, <1>8 DEF SpaceInv, BeginningsPlaced

LEMMA SkipStep ==
  ASSUME SpaceInv, Skip
  PROVE  SpaceInv'
<1>1. /\ Typed /\ Progress /\ ~Collided(space) /\ BeginningsPlaced
      /\ placing /\ More /\ i <= Len(system[level]) /\ Len(Point) < 3
  BY DEF SpaceInv, Skip, More
<1>2. UNCHANGED <<space, stu_physics_collided, placing, system, radii, level, collisionIndex,
                  ret, before>>
  BY DEF Skip
<1>3. i' = i + 1
  BY DEF Skip
<1>4. Typed'
  BY <1>1, <1>2, Zenon DEF Typed
<1>5. /\ level \in DOMAIN system /\ DOMAIN ret = {k \in DOMAIN system : k < level}
      /\ Len(system[level]) \in Nat /\ i \in Nat \ {0} /\ collisionIndex \in 0 .. i - 1
  BY <1>1, WhilePlacing
<1>6. Progress'
  <2>1. i' \in 1 .. Len(system'[level']) + 1 /\ collisionIndex' \in 0 .. i' - 1
    BY <1>1, <1>2, <1>3, <1>5
  <2>2. \A k \in DOMAIN ret' : ret'[k] \in 0 .. Len(system'[k])
    BY <1>1, <1>2, Zenon DEF Progress
  <2> QED BY <1>1, <1>2, <1>5, <2>1, <2>2 DEF Progress
<1>7. ~AllPlain
  BY <1>1, PlainPoints
<1>8. (~AllPlain)'
  BY <1>2, <1>7 DEF AllPlain, Plain
<1>9. (~Collided(space))'
  BY <1>1, <1>2
<1> QED BY <1>4, <1>6, <1>8, <1>9 DEF SpaceInv, BeginningsPlaced

(* There is no room for the point. *)
LEMMA CollisionStep ==
  ASSUME SpaceInv, Place, Collided(Append(space, Ball(level, i)))
  PROVE  SpaceInv' /\ UNCHANGED <<space, i, placing, system, level, ret, before>>
<1>1. /\ Typed /\ Progress /\ ~Collided(space) /\ BeginningsPlaced
      /\ placing /\ i <= Len(system[level])
  BY DEF SpaceInv, Place, More
<1>2. /\ UNCHANGED <<space, i, collisionIndex>>
      /\ stu_physics_collided' = TRUE
      /\ UNCHANGED <<placing, system, radii, level, ret, before>>
  BY DEF Place, Ball, Point
<1>3. Typed'
  BY <1>1, <1>2, Zenon DEF Typed
<1>4. Progress'
  BY <1>1, <1>2, Zenon DEF Progress
<1>5. (~Collided(space))'
  BY <1>1, <1>2
<1>6. Met(level, i)
  <2>1. Ball(level, i) \in Spheres /\ space \in Seq(Spheres)
    BY <1>1, WhilePlacing DEF Typed
  <2> QED BY <1>1, <2>1, OnlyTheLast DEF Met
<1>7. BeginningsPlaced'
  <2>1. SUFFICES ASSUME AllPlain' PROVE BeginningsPlaced'
    BY DEF BeginningsPlaced
  <2>2. AllPlain
    BY <1>2, <2>1 DEF AllPlain, Plain
  <2>3. \A k : Done(k)' = Done(k)
    BY <1>2 DEF Done
  <2>4. \A k, n : Ball(k, n)' = Ball(k, n) /\ Met(k, n)' = Met(k, n)
    BY <1>2 DEF Ball, Met
  <2>5. (placing /\ stu_physics_collided => i <= Len(system[level]) /\ Met(level, i))'
    BY <1>1, <1>2, <1>6, <2>4
  <2> QED BY <1>1, <1>2, <2>2, <2>3, <2>4, <2>5, Zenon DEF BeginningsPlaced
<1> QED BY <1>2, <1>3, <1>4, <1>5, <1>7 DEF SpaceInv

(* There is room for it. *)
LEMMA RoomStep ==
  ASSUME SpaceInv, Place, ~Collided(Append(space, Ball(level, i)))
  PROVE  /\ SpaceInv' /\ i' = i + 1
         /\ UNCHANGED <<placing, system, level, ret, before>>
         /\ Len(space') = Len(space) + 1 /\ space'[Len(space) + 1] = Ball(level, i)
         /\ \A m \in 1 .. Len(space) : space'[m] = space[m]
<1>1. /\ Typed /\ Progress /\ ~Collided(space) /\ BeginningsPlaced
      /\ placing /\ stu_physics_collided = FALSE /\ i <= Len(system[level])
  BY DEF SpaceInv, Place, More, Typed
<1>2. /\ space' = Append(space, Ball(level, i)) /\ i' = i + 1
      /\ collisionIndex' = collisionIndex + 1
      /\ UNCHANGED <<stu_physics_collided, placing, system, radii, level, ret, before>>
  BY DEF Place, Ball, Point
<1>3. /\ level \in DOMAIN system /\ level \notin DOMAIN ret
      /\ DOMAIN ret = {k \in DOMAIN system : k < level}
      /\ Len(system[level]) \in Nat
      /\ i \in Nat \ {0} /\ collisionIndex \in 0 .. i - 1 /\ Ball(level, i) \in Spheres
  BY <1>1, WhilePlacing
<1>4. /\ space' \in Seq(Spheres) /\ Len(space') = Len(space) + 1
      /\ \A m \in 1 .. Len(space) : space'[m] = space[m]
      /\ space'[Len(space) + 1] = Ball(level, i)
  <2>1. space \in Seq(Spheres)
    BY <1>1 DEF Typed
  <2> QED BY <2>1, <1>2, <1>3, AppendProperties
<1>5. /\ Len(space) \in Nat /\ before \in 0 .. Len(space)
      /\ DOMAIN space = 1 .. Len(space) /\ DOMAIN space' = 1 .. Len(space) + 1
  BY <1>1, <1>4, LenProperties DEF Typed
<1>6. Typed'
  <2>1. before' \in 0 .. Len(space')
    BY <1>2, <1>4, <1>5
  <2> QED BY <1>1, <1>2, <1>4, <2>1, Zenon DEF Typed
<1>7. Progress'
  <2>1. i' \in 1 .. Len(system'[level']) + 1 /\ collisionIndex' \in 0 .. i' - 1
    BY <1>1, <1>2, <1>3
  <2>2. \A k \in DOMAIN ret' : ret'[k] \in 0 .. Len(system'[k])
    BY <1>1, <1>2, Zenon DEF Progress
  <2> QED BY <1>1, <1>2, <1>3, <2>1, <2>2 DEF Progress
<1>8. (~Collided(space))'
  BY <1>2
<1>9. BeginningsPlaced'
  <2>1. SUFFICES ASSUME AllPlain' PROVE BeginningsPlaced'
    BY DEF BeginningsPlaced
  <2>2. AllPlain
    BY <1>2, <2>1 DEF AllPlain, Plain
  <2>3. \A k, n : Ball(k, n)' = Ball(k, n)
    BY <1>2 DEF Ball
  <2>4. ASSUME NEW k, NEW n, Met(k, n) PROVE Met(k, n)'
    <3>1. PICK m \in DOMAIN space : Touch(space[m], Ball(k, n))
      BY <2>4 DEF Met
    <3>2. m \in DOMAIN space' /\ space'[m] = space[m]
      BY <1>4, <1>5, <3>1
    <3>3. Touch(space'[m], Ball(k, n)')
      BY <2>3, <3>1, <3>2, Zenon
    <3> QED BY <3>2, <3>3 DEF Met
  <2>5. Done(level) = i - 1 /\ \A k : k = level => Done(k)' = i
    <3>1. i' - 1 = i
      BY <1>2, <1>3
    <3> QED BY <1>1, <1>2, <1>3, <3>1 DEF Done
  <2>6. \A k : k # level => Done(k)' = Done(k)
    BY <1>2 DEF Done
  <2>7. (placing => collisionIndex = i - 1)'
    <3>1. collisionIndex = i - 1
      BY <1>1, <2>2 DEF BeginningsPlaced
    <3> QED BY <1>2, <1>3, <3>1
  <2>8. ASSUME NEW m \in before' + 1 .. Len(space')
        PROVE  \E k \in DOMAIN system' : \E n \in 1 .. Done(k)' : space'[m] = Ball(k, n)'
    <3>1. CASE m = Len(space) + 1
      <4>1. PICK k \in DOMAIN system : k = level
        BY <1>3
      <4>2. i \in 1 .. Done(k)'
        BY <1>3, <2>5, <4>1
      <4>3. space'[m] = Ball(k, i)
        BY <1>4, <3>1, <4>1
      <4> QED BY <1>2, <2>3, <4>2, <4>3
    <3>2. CASE m # Len(space) + 1
      <4>1. m \in before + 1 .. Len(space) /\ m \in 1 .. Len(space)
        BY <1>2, <1>4, <1>5, <3>2
      <4>2. PICK k \in DOMAIN system : \E n \in 1 .. Done(k) : space[m] = Ball(k, n)
        BY <1>1, <2>2, <4>1 DEF BeginningsPlaced
      <4>3. PICK n \in 1 .. Done(k) : space[m] = Ball(k, n)
        BY <4>2
      <4>4. n \in 1 .. Done(k)'
        <5>1. CASE k = level
          <6>1. Done(k) = i - 1 /\ Done(k)' = i
            BY <2>5, <5>1
          <6> QED BY <1>3, <4>3, <6>1
        <5>2. CASE k # level
          BY <2>6, <4>3, <5>2
        <5> QED BY <5>1, <5>2
      <4>5. space'[m] = Ball(k, n)'
        BY <1>4, <2>3, <4>1, <4>3
      <4> QED BY <1>2, <4>2, <4>4, <4>5
    <3> QED BY <3>1, <3>2
  <2>9. ASSUME NEW k \in DOMAIN system', NEW n \in 1 .. Done(k)'
        PROVE  \E m \in before' + 1 .. Len(space') : space'[m] = Ball(k, n)'
    <3>1. CASE k = level /\ n = i
      <4>1. Len(space) + 1 \in before' + 1 .. Len(space')
        BY <1>2, <1>4, <1>5
      <4> QED BY <1>4, <2>3, <3>1, <4>1
    <3>2. CASE ~(k = level /\ n = i)
      <4>1. n \in 1 .. Done(k)
        <5>1. CASE k = level
          <6>1. Done(k) = i - 1 /\ Done(k)' = i
            BY <2>5, <5>1
          <6> QED BY <1>3, <2>9, <3>2, <5>1, <6>1
        <5>2. CASE k # level
          BY <2>6, <2>9, <5>2
        <5> QED BY <5>1, <5>2
      <4>2. PICK m \in before + 1 .. Len(space) : space[m] = Ball(k, n)
        BY <1>1, <1>2, <2>2, <4>1 DEF BeginningsPlaced
      <4>3. m \in before' + 1 .. Len(space') /\ m \in 1 .. Len(space)
        BY <1>2, <1>4, <1>5, <4>2
      <4>4. space'[m] = Ball(k, n)'
        BY <1>4, <2>3, <4>2, <4>3
      <4> QED BY <4>3, <4>4
    <3> QED BY <3>1, <3>2
  <2>10. ASSUME NEW k \in DOMAIN ret', ret'[k] < Len(system'[k])
         PROVE  Met(k, ret[k] + 1)'
    BY <1>1, <1>2, <2>2, <2>4, <2>10 DEF BeginningsPlaced
  <2>11. \A k \in DOMAIN ret' : ret'[k] < Len(system'[k]) => Met(k, ret[k] + 1)'
    BY <2>10
  <2> QED BY <1>1, <1>2, <2>7, <2>8, <2>9, <2>11 DEF BeginningsPlaced
<1> QED BY <1>2, <1>4, <1>6, <1>7, <1>8, <1>9 DEF SpaceInv

LEMMA BranchEndStep ==
  ASSUME SpaceInv, BranchEnd
  PROVE  /\ SpaceInv' /\ UNCHANGED <<space, system, before>> /\ i' = 1
         /\ level \notin DOMAIN ret /\ DOMAIN ret' = DOMAIN ret \cup {level}
         /\ \A k \in DOMAIN ret : ret'[k] = ret[k]
         /\ ret'[level] \in 0 .. i - 1
<1>1. /\ Typed /\ Progress /\ ~Collided(space) /\ BeginningsPlaced
      /\ placing /\ (stu_physics_collided \/ i > Len(system[level]))
  BY DEF SpaceInv, BranchEnd
<1> DEFINE end == IF stu_physics_collided THEN collisionIndex ELSE Len(system[level])
<1>2. /\ ret' = [k \in DOMAIN ret \cup {level} |-> IF k # level THEN ret[k] ELSE end]
      /\ stu_physics_collided' = FALSE /\ i' = 1 /\ collisionIndex' = 0
      /\ UNCHANGED <<space, system, radii, before>>
  BY DEF BranchEnd
<1>3. /\ level \in DOMAIN system /\ level \in Int /\ level \notin DOMAIN ret
      /\ DOMAIN ret = {k \in DOMAIN system : k < level}
      /\ Len(system[level]) \in Nat /\ i \in Nat \ {0} /\ i <= Len(system[level]) + 1
      /\ collisionIndex \in 0 .. i - 1
  BY <1>1, WhilePlacing
<1>4. /\ DOMAIN system \in LevelSets /\ DOMAIN system \subseteq Int
      /\ \A k \in DOMAIN system : Len(system[k]) \in Nat
  BY <1>1, BranchedFacts DEF Typed
<1>5. end \in 0 .. i - 1 /\ end \in 0 .. Len(system[level])
  BY <1>1, <1>3
<1> HIDE DEF end
<1>6. /\ DOMAIN ret' = DOMAIN ret \cup {level} /\ ret'[level] = end
      /\ \A k \in DOMAIN ret : ret'[k] = ret[k]
  BY <1>2, <1>3
<1>7. \A k \in DOMAIN ret' : ret'[k] \in 0 .. Len(system'[k])
  <2>1. \A k \in DOMAIN ret : ret'[k] \in 0 .. Len(system'[k])
    BY <1>1, <1>2, <1>6, Zenon DEF Progress
  <2>2. ret'[level] \in 0 .. Len(system'[level])
    BY <1>2, <1>5, <1>6
  <2> QED BY <1>6, <2>1, <2>2
<1>8. placing' \in BOOLEAN /\ Progress'
  <2>1. CASE Above = {}
    <3>1. placing' = FALSE
      BY <2>1 DEF BranchEnd
    <3>2. \A k \in DOMAIN system : k <= level
      BY <1>3, <1>4, <2>1 DEF Above
    <3>3. DOMAIN ret' = DOMAIN system'
      <4>1. \A k \in DOMAIN system : k \in DOMAIN ret'
        BY <1>3, <1>4, <1>6, <3>2
      <4>2. \A k \in DOMAIN ret' : k \in DOMAIN system
        BY <1>3, <1>6
      <4> QED BY <1>2, <4>1, <4>2
    <3> QED BY <1>2, <1>7, <3>1, <3>3 DEF Progress
  <2>2. CASE Above # {}
    <3>1. level' = First(Above) /\ placing' = placing
      BY <2>2 DEF BranchEnd
    <3>2. level' \in Above /\ \A n \in Above : level' <= n
      <4>1. Above \in SUBSET DOMAIN system
        BY DEF Above
      <4> QED BY <1>4, <2>2, <3>1, <4>1, FirstLevel
    <3>3. level' \in DOMAIN system /\ level' > level /\ level' \in Int
      BY <1>4, <3>2 DEF Above
    <3>4. \A k \in DOMAIN system : k < level' <=> k \in DOMAIN ret'
      <4>1. SUFFICES ASSUME NEW k \in DOMAIN system PROVE k < level' <=> k < level \/ k = level
        BY <1>3, <1>6
      <4>2. k > level => level' <= k
        BY <3>2 DEF Above
      <4>3. k \in Int
        BY <1>4
      <4> QED BY <1>3, <3>3, <4>2, <4>3
    <3>5. DOMAIN ret' = {k \in DOMAIN system' : k < level'}
      BY <1>2, <1>3, <1>6, <3>4
    <3>6. i' \in 1 .. Len(system'[level']) + 1 /\ collisionIndex' \in 0 .. i' - 1
      BY <1>2, <1>4, <3>3
    <3>7. placing' \in BOOLEAN /\ placing'
      BY <1>1, <3>1, Zenon DEF Typed
    <3> QED BY <1>2, <1>7, <3>3, <3>5, <3>6, <3>7 DEF Progress
  <2> QED BY <2>1, <2>2
<1>9. Typed'
  <2>1. stu_physics_collided' \in BOOLEAN
    BY <1>2
  <2> QED BY <1>1, <1>2, <1>8, <2>1, Zenon DEF Typed
<1>10. (~Collided(space))'
  BY <1>1, <1>2
<1>11. BeginningsPlaced'
  <2>1. SUFFICES ASSUME AllPlain' PROVE BeginningsPlaced'
    BY DEF BeginningsPlaced
  <2>2. AllPlain
    BY <1>2, <2>1 DEF AllPlain, Plain
  <2>3. \A k, n : Ball(k, n)' = Ball(k, n) /\ Met(k, n)' = Met(k, n)
    BY <1>2 DEF Ball, Met
  <2>4. /\ collisionIndex = i - 1
        /\ stu_physics_collided => i <= Len(system[level]) /\ Met(level, i)
    BY <1>1, <2>2 DEF BeginningsPlaced
  <2>5. end = i - 1
    BY <1>1, <1>3, <2>4 DEF end
  <2>6. \A k : Done(k)' = Done(k)
    <3>1. \A k : k = level => Done(k)' = i - 1 /\ Done(k) = i - 1
      BY <1>1, <1>3, <1>6, <2>5 DEF Done
    <3>2. \A k \in DOMAIN ret : Done(k)' = ret[k] /\ Done(k) = ret[k]
      BY <1>6 DEF Done
    <3>3. \A k : k \notin DOMAIN ret /\ k # level => Done(k)' = 0 /\ Done(k) = 0
      BY <1>2, <1>6 DEF Done
    <3> QED BY <3>1, <3>2, <3>3
  <2>7. ASSUME NEW k \in DOMAIN ret', ret'[k] < Len(system'[k])
        PROVE  Met(k, ret'[k] + 1)
    <3>1. CASE k = level
      <4>1. stu_physics_collided
        <5>1. SUFFICES ASSUME ~stu_physics_collided PROVE FALSE
          OBVIOUS
        <5>2. i > Len(system[level])
          BY <1>1, <5>1
        <5> QED BY <1>2, <1>3, <1>6, <2>5, <2>7, <3>1, <5>2
      <4>2. ret'[k] + 1 = i
        BY <1>3, <1>6, <2>5, <3>1
      <4> QED BY <2>4, <3>1, <4>1, <4>2
    <3>2. CASE k # level
      <4>1. k \in DOMAIN ret /\ ret'[k] = ret[k] /\ ret[k] < Len(system[k])
        BY <1>2, <1>6, <2>7, <3>2
      <4>2. Met(k, ret[k] + 1)
        BY <1>1, <2>2, <4>1 DEF BeginningsPlaced
      <4> QED BY <4>1, <4>2
    <3> QED BY <3>1, <3>2
  <2>8. (\A k \in DOMAIN ret : ret[k] < Len(system[k]) => Met(k, ret[k] + 1))'
    BY <2>3, <2>7
  <2>9. (placing => collisionIndex = i - 1)'
    BY <1>2
  <2>10. /\ \A m \in before + 1 .. Len(space) :
               \E k \in DOMAIN system : \E n \in 1 .. Done(k) : space[m] = Ball(k, n)
         /\ \A k \in DOMAIN system : \A n \in 1 .. Done(k) :
               \E m \in before + 1 .. Len(space) : space[m] = Ball(k, n)
    BY <1>1, <2>2 DEF BeginningsPlaced
  <2>11. (/\ \A m \in before + 1 .. Len(space) :
               \E k \in DOMAIN system : \E n \in 1 .. Done(k) : space[m] = Ball(k, n)
          /\ \A k \in DOMAIN system : \A n \in 1 .. Done(k) :
               \E m \in before + 1 .. Len(space) : space[m] = Ball(k, n))'
    BY <1>2, <2>3, <2>6, <2>10, Zenon
  <2> QED BY <1>2, <2>8, <2>9, <2>11 DEF BeginningsPlaced
<1> QED BY <1>2, <1>3, <1>5, <1>6, <1>8, <1>9, <1>10, <1>11 DEF SpaceInv
-----------------------------------------------------------------------------
(* Whatever is placed, collisions end branches. *)

LEMMA SpaceInit == PlacementInit => SpaceInv
<1> SUFFICES ASSUME PlacementInit PROVE SpaceInv
  OBVIOUS
<1>1. /\ space = <<>> /\ stu_physics_collided = FALSE /\ placing = FALSE
      /\ system = [k \in {} |-> <<>>] /\ radii = system /\ ret = [k \in {} |-> 0] /\ before = 0
  BY DEF PlacementInit
<1>2. space \in Seq(Spheres) /\ Len(space) = 0 /\ DOMAIN space = {}
  BY <1>1
<1>3. {} \in LevelSets
  BY DEF LevelSets
<1>4. system \in Branched
  <2>1. system \in [{} -> Seq(Items)]
    BY <1>1
  <2> QED BY <1>3, <2>1 DEF Branched
<1>5. DOMAIN system = {} /\ DOMAIN ret = {}
  BY <1>1
<1>6. Typed
  <2>1. stu_physics_collided \in BOOLEAN /\ placing \in BOOLEAN
    BY <1>1
  <2>2. before \in 0 .. Len(space)
    BY <1>1, <1>2
  <2> QED BY <1>1, <1>2, <1>4, <1>5, <2>1, <2>2 DEF Typed
<1>7. Progress
  BY <1>1, <1>5 DEF Progress
<1>8. ~Collided(space)
  BY <1>2 DEF Collided
<1>9. BeginningsPlaced
  <2>1. before + 1 .. Len(space) = {}
    BY <1>1, <1>2
  <2> QED BY <1>1, <1>5, <2>1 DEF BeginningsPlaced
<1> QED BY <1>6, <1>7, <1>8, <1>9 DEF SpaceInv

LEMMA SpaceStep ==
  ASSUME SpaceInv, [PlacementNext]_placementVars
  PROVE  SpaceInv'
<1>1. CASE \E levels \in Given, r \in Coordinates : AddSystem(levels, r)
  BY <1>1, SystemStep, GivenBranched
<1>2. CASE \E points \in Seq(Items), rs \in Seq(Coordinates) : AddList(points, rs)
  BY <1>2, ListStep
<1>3. CASE PointerCut
  BY <1>3, PointerCutStep
<1>4. CASE Skip
  BY <1>4, SkipStep
<1>5. CASE Place
  BY <1>5, CollisionStep, RoomStep
<1>6. CASE BranchEnd
  BY <1>6, BranchEndStep
<1>7. CASE UNCHANGED placementVars
  <2>1. UNCHANGED <<space, stu_physics_collided, placing, system, radii, level, i,
                    collisionIndex, ret, before>>
    BY <1>7 DEF placementVars
  <2>2. Typed' /\ Progress' /\ (~Collided(space))'
    BY <2>1, Zenon DEF SpaceInv, Typed, Progress, Collided
  <2>3. AllPlain' => AllPlain
    BY <2>1 DEF AllPlain, Plain
  <2>4. \A k, n : Ball(k, n)' = Ball(k, n) /\ Met(k, n)' = Met(k, n)
    BY <2>1 DEF Ball, Met
  <2>5. \A k : Done(k)' = Done(k)
    BY <2>1 DEF Done
  <2>6. BeginningsPlaced'
    BY <2>1, <2>3, <2>4, <2>5, Zenon DEF SpaceInv, BeginningsPlaced
  <2> QED BY <2>2, <2>6 DEF SpaceInv
<1> QED BY <1>1, <1>2, <1>3, <1>4, <1>5, <1>6, <1>7 DEF PlacementNext, Placing

LEMMA SpaceInvStops ==
  ASSUME SpaceInv
  PROVE  StopsAtCollisions
<1>1. Typed /\ Progress /\ ~Collided(space) /\ BeginningsPlaced
  BY DEF SpaceInv
<1>2. SUFFICES ASSUME ~placing, \A k \in DOMAIN system : Plain(k)
      PROVE  /\ DOMAIN ret = DOMAIN system
             /\ New = UNION {{Sphere(system[k][n], radii[k][n]) : n \in 1 .. ret[k]} :
                                k \in DOMAIN system}
             /\ \A k \in DOMAIN system :
                   ret[k] < Len(system[k]) =>
                      \E n \in DOMAIN space :
                         Touch(space[n], Sphere(system[k][ret[k] + 1], radii[k][ret[k] + 1]))
  BY <1>1 DEF StopsAtCollisions, Returned
<1>3. DOMAIN ret = DOMAIN system /\ AllPlain
  BY <1>1, <1>2 DEF Progress, AllPlain
<1>4. /\ \A m \in before + 1 .. Len(space) :
            \E k \in DOMAIN system : \E n \in 1 .. Done(k) : space[m] = Ball(k, n)
      /\ \A k \in DOMAIN system : \A n \in 1 .. Done(k) :
            \E m \in before + 1 .. Len(space) : space[m] = Ball(k, n)
      /\ \A k \in DOMAIN ret : ret[k] < Len(system[k]) => Met(k, ret[k] + 1)
  BY <1>1, <1>3 DEF BeginningsPlaced
<1>5. \A k \in DOMAIN system : Done(k) = ret[k]
  BY <1>3 DEF Done
<1> DEFINE Begun(k) == {Sphere(system[k][n], radii[k][n]) : n \in 1 .. ret[k]}
<1>6. ASSUME NEW s \in New
      PROVE  s \in UNION {Begun(k) : k \in DOMAIN system}
  <2>1. PICK m \in before + 1 .. Len(space) : s = space[m]
    BY DEF New
  <2>2. PICK k \in DOMAIN system : \E n \in 1 .. Done(k) : space[m] = Ball(k, n)
    BY <1>4
  <2>3. PICK n \in 1 .. ret[k] : space[m] = Sphere(system[k][n], radii[k][n])
    BY <1>5, <2>2, Zenon DEF Ball
  <2>4. s \in Begun(k)
    BY <2>1, <2>3
  <2> QED BY <2>2, <2>4
<1>7. ASSUME NEW k \in DOMAIN system, NEW s \in Begun(k)
      PROVE  s \in New
  <2>1. PICK n \in 1 .. ret[k] : s = Sphere(system[k][n], radii[k][n])
    OBVIOUS
  <2>2. PICK m \in before + 1 .. Len(space) : space[m] = Ball(k, n)
    BY <1>4, <1>5, <2>1, Zenon
  <2>3. s = space[m]
    BY <2>1, <2>2, Zenon DEF Ball
  <2> QED BY <2>3 DEF New
<1>8. New = UNION {Begun(k) : k \in DOMAIN system}
  BY <1>6, <1>7
<1>9. \A k \in DOMAIN system :
         ret[k] < Len(system[k]) =>
            \E n \in DOMAIN space :
               Touch(space[n], Sphere(system[k][ret[k] + 1], radii[k][ret[k] + 1]))
  BY <1>3, <1>4, Zenon DEF Met, Ball
<1> QED BY <1>3, <1>8, <1>9

-----------------------------------------------------------------------------
(* Branches with pointers *)

LEMMA ShelvesPoint ==
  ASSUME NEW levels \in Shelves
  PROVE  Pointing(levels)
<1>1. PICK S \in LevelSets : levels \in [S -> Seq(Points)]
  BY DEF Shelves
<1>2. ASSUME NEW k \in S, levels[k] # <<>>
      PROVE  Len(levels[k][1]) # 2
  <2>1. levels[k] \in Seq(Points)
    BY <1>1
  <2>2. levels[k][1] \in Points
    BY <1>2, <2>1
  <2>3. Len(levels[k][1]) = 3
    BY <2>2 DEF Points
  <2> QED BY <2>3
<1> QED BY <1>1, <1>2 DEF Pointing, Points

(* What a branch grows from was placed, if it grows from anything. *)
Grown(k) ==
    HasPointer(k) =>
        LET parent == system[k][1] IN
        parent[1] \in DOMAIN ret /\ parent[1] < k /\ parent[2] < ret[parent[1]]

There(k, n) == \E m \in before + 1 .. Len(space) : space[m].at = system[k][n]

ComeFromGrown ==
    \A m \in before + 1 .. Len(space) : \E k \in DOMAIN system :
        /\ Grown(k)
        /\ \E n \in DOMAIN system[k] : space[m].at = system[k][n] /\ Len(system[k][n]) >= 3

PassedAreThere ==
    /\ \A k \in DOMAIN ret : \A n \in 1 .. ret[k] : Len(system[k][n]) >= 3 => There(k, n)
    /\ placing => \A n \in 1 .. i - 1 : Len(system[level][n]) >= 3 => There(level, n)
    /\ placing /\ i > 1 => Grown(level)

ParentInv == SpaceInv /\ Pointing(system) /\ ComeFromGrown /\ PassedAreThere

LEMMA ParentInit == PlacementInit => ParentInv
<1> SUFFICES ASSUME PlacementInit PROVE ParentInv
  OBVIOUS
<1>1. SpaceInv
  BY SpaceInit
<1>2. /\ DOMAIN system = {} /\ DOMAIN ret = {} /\ placing = FALSE /\ before = 0 /\ space = <<>>
  BY DEF PlacementInit
<1>3. before + 1 .. Len(space) = {}
  BY <1>2
<1> QED BY <1>1, <1>2, <1>3 DEF ParentInv, Pointing, ComeFromGrown, PassedAreThere

(* Nothing is placed yet of what is called. *)
LEMMA ParentCalled ==
  ASSUME SpaceInv, SpaceInv', DOMAIN ret' = {}, Pointing(system)', space' = space,
         before' = Len(space'), i' = 1
  PROVE  ParentInv'
<1>1. Len(space') \in Nat
  BY LenProperties DEF SpaceInv, Typed
<1>2. before' + 1 .. Len(space') = {}
  BY <1>1
<1>3. ComeFromGrown'
  BY <1>2 DEF ComeFromGrown
<1>4. PassedAreThere'
  <2>1. 1 .. i' - 1 = {} /\ ~(i' > 1)
    OBVIOUS
  <2> QED BY <2>1 DEF PassedAreThere
<1> QED BY <1>3, <1>4 DEF ParentInv

LEMMA ParentOfSystem ==
  ASSUME ParentInv, NEW levels \in Branched, Pointing(levels), NEW r \in Coordinates,
         AddSystem(levels, r)
  PROVE  ParentInv'
<1>1. /\ SpaceInv' /\ DOMAIN ret' = {} /\ system' = levels /\ space' = space
      /\ before' = Len(space') /\ i' = 1
  BY SystemStep DEF ParentInv
<1>2. Pointing(system)'
  BY <1>1
<1> QED BY <1>1, <1>2, ParentCalled DEF ParentInv

(* A list is a branch that has no other to point at. *)
LEMMA ParentOfList ==
  ASSUME ParentInv, NEW points \in Seq(Items), NEW rs \in Seq(Coordinates), AddList(points, rs)
  PROVE  ParentInv'
<1>1. /\ SpaceInv' /\ DOMAIN ret' = {} /\ system' = [k \in {0} |-> points] /\ space' = space
      /\ before' = Len(space') /\ i' = 1
  BY ListStep DEF ParentInv
<1>2. DOMAIN system' = {0}
  BY <1>1
<1>3. Pointing(system)'
  <2>1. \A n : ~(n \in {0} /\ n < 0)
    OBVIOUS
  <2>2. \A j, k \in DOMAIN system' : j = k
    BY <1>2
  <2>3. \A k \in DOMAIN system' : ~(system'[k][1][1] \in DOMAIN system' /\ system'[k][1][1] < k)
    BY <1>2, <2>1
  <2> QED BY <2>2, <2>3, Zenon DEF Pointing
<1> QED BY <1>1, <1>3, ParentCalled DEF ParentInv

LEMMA ParentOfPointerCut ==
  ASSUME ParentInv, PointerCut
  PROVE  ParentInv'
<1>1. SpaceInv'
  BY PointerCutStep DEF ParentInv
<1>2. UNCHANGED <<space, placing, system, radii, level, i, collisionIndex, ret, before>>
  BY DEF PointerCut
<1>3. Pointing(system)'
  BY <1>2 DEF ParentInv
<1>4. \A k : (Grown(k)' <=> Grown(k)) /\ \A n : There(k, n)' <=> There(k, n)
  BY <1>2 DEF Grown, There, HasPointer
<1>5. ComeFromGrown'
  BY <1>2, <1>4, Zenon DEF ParentInv, ComeFromGrown
<1>6. PassedAreThere'
  BY <1>2, <1>4, Zenon DEF ParentInv, PassedAreThere
<1> QED BY <1>1, <1>3, <1>5, <1>6 DEF ParentInv

LEMMA ParentOfSkip ==
  ASSUME ParentInv, Skip
  PROVE  ParentInv'
<1>1. SpaceInv'
  BY SkipStep DEF ParentInv
<1>2. /\ UNCHANGED <<space, placing, system, radii, level, ret, before>>
      /\ i' = i + 1 /\ placing /\ Len(system[level][i]) < 3
      /\ Pointer => ParentFound /\ i <= Len(system[level])
  BY DEF Skip, More, Point
<1>3. /\ level \in DOMAIN system /\ DOMAIN ret = {k \in DOMAIN system : k < level}
      /\ i \in Nat \ {0} /\ i <= Len(system[level]) /\ Len(system[level]) \in Nat
      /\ \A n \in 1 .. Len(system[level]) : Len(system[level][n]) \in Nat
  BY <1>2, WhilePlacing DEF ParentInv, SpaceInv, Skip, More
<1>4. Pointing(system)'
  BY <1>2 DEF ParentInv
<1>5. \A k : (Grown(k)' <=> Grown(k)) /\ \A n : There(k, n)' <=> There(k, n)
  BY <1>2 DEF Grown, There, HasPointer
<1>6. ComeFromGrown'
  BY <1>2, <1>5, Zenon DEF ParentInv, ComeFromGrown
<1>7. Grown(level)
  <2>1. CASE i = 1
    <3>1. SUFFICES ASSUME HasPointer(level)
                   PROVE  /\ system[level][1][1] \in DOMAIN ret /\ system[level][1][1] < level
                          /\ system[level][1][2] < ret[system[level][1][1]]
      BY DEF Grown
    <3>2. Pointer
      BY <2>1, <3>1 DEF Pointer, HasPointer, Point
    <3>3. Point[1] \in DOMAIN ret /\ Point[2] < ret[Point[1]] /\ Point = system[level][1]
      BY <1>2, <2>1, <3>2 DEF ParentFound, Point
    <3> QED BY <1>3, <3>3
  <2>2. CASE i # 1
    <3>1. i > 1
      BY <1>3, <2>2
    <3> QED BY <1>2, <3>1 DEF ParentInv, PassedAreThere
  <2> QED BY <2>1, <2>2
<1>8. PassedAreThere'
  <2>1. \A n \in 1 .. i' - 1 : Len(system[level][n]) >= 3 => There(level, n)
    <3>1. SUFFICES ASSUME NEW n \in 1 .. i' - 1, Len(system[level][n]) >= 3
                   PROVE  There(level, n)
      OBVIOUS
    <3>2. n # i /\ n \in 1 .. i - 1
      BY <1>2, <1>3, <3>1
    <3> QED BY <1>2, <3>1, <3>2 DEF ParentInv, PassedAreThere
  <2>2. \A k \in DOMAIN ret : \A n \in 1 .. ret[k] : Len(system[k][n]) >= 3 => There(k, n)
    BY DEF ParentInv, PassedAreThere
  <2> QED BY <1>2, <1>5, <1>7, <2>1, <2>2, Zenon DEF PassedAreThere
<1> QED BY <1>1, <1>4, <1>6, <1>8 DEF ParentInv

LEMMA ParentOfCollision ==
  ASSUME ParentInv, Place, Collided(Append(space, Ball(level, i)))
  PROVE  ParentInv'
<1>1. SpaceInv' /\ UNCHANGED <<space, i, placing, system, level, ret, before>>
  BY CollisionStep DEF ParentInv
<1>2. Pointing(system)'
  BY <1>1 DEF ParentInv
<1>3. \A k : (Grown(k)' <=> Grown(k)) /\ \A n : There(k, n)' <=> There(k, n)
  BY <1>1 DEF Grown, There, HasPointer
<1>4. ComeFromGrown'
  BY <1>1, <1>3, Zenon DEF ParentInv, ComeFromGrown
<1>5. PassedAreThere'
  BY <1>1, <1>3, Zenon DEF ParentInv, PassedAreThere
<1> QED BY <1>1, <1>2, <1>4, <1>5 DEF ParentInv

LEMMA ParentOfRoom ==
  ASSUME ParentInv, Place, ~Collided(Append(space, Ball(level, i)))
  PROVE  ParentInv'
<1>1. /\ SpaceInv' /\ i' = i + 1
      /\ UNCHANGED <<placing, system, level, ret, before>>
      /\ Len(space') = Len(space) + 1 /\ space'[Len(space) + 1] = Ball(level, i)
      /\ \A m \in 1 .. Len(space) : space'[m] = space[m]
  BY RoomStep DEF ParentInv
<1>2. placing /\ Len(system[level][i]) >= 3 /\ i <= Len(system[level])
  BY DEF Place, More, Point
<1>3. /\ level \in DOMAIN system /\ i \in Nat \ {0} /\ Len(system[level]) \in Nat
      /\ DOMAIN system[level] = 1 .. Len(system[level])
  BY <1>2, WhilePlacing DEF ParentInv, SpaceInv
<1>4. Len(space) \in Nat /\ before \in 0 .. Len(space)
  BY LenProperties DEF ParentInv, SpaceInv, Typed
<1>5. Pointing(system)'
  BY <1>1 DEF ParentInv
<1>6. \A k : Grown(k)' <=> Grown(k)
  BY <1>1 DEF Grown, HasPointer
<1>7. ASSUME NEW k, NEW n, There(k, n) PROVE There(k, n)'
  <2>1. PICK m \in before + 1 .. Len(space) : space[m].at = system[k][n]
    BY <1>7 DEF There
  <2>2. m \in before' + 1 .. Len(space') /\ space'[m] = space[m]
    BY <1>1, <1>4, <2>1
  <2>3. space'[m].at = system'[k][n]
    BY <1>1, <2>1, <2>2
  <2> QED BY <2>2, <2>3 DEF There
<1>8. /\ Len(space) + 1 \in before' + 1 .. Len(space')
      /\ space'[Len(space) + 1].at = system[level][i]
  BY <1>1, <1>4 DEF Ball, Sphere
<1>9. Grown(level)
  <2>1. CASE i = 1
    BY <1>2, <2>1 DEF Grown, HasPointer
  <2>2. CASE i # 1
    <3>1. i > 1
      BY <1>3, <2>2
    <3> QED BY <1>2, <3>1 DEF ParentInv, PassedAreThere
  <2> QED BY <2>1, <2>2
<1>10. ComeFromGrown'
  <2>1. SUFFICES ASSUME NEW m \in before' + 1 .. Len(space')
        PROVE  \E k \in DOMAIN system :
                  /\ Grown(k)
                  /\ \E n \in DOMAIN system[k] :
                        space'[m].at = system[k][n] /\ Len(system[k][n]) >= 3
    BY <1>1, <1>6 DEF ComeFromGrown
  <2>2. CASE m = Len(space) + 1
    <3>1. i \in DOMAIN system[level]
      BY <1>2, <1>3
    <3> QED BY <1>2, <1>3, <1>8, <1>9, <2>2, <3>1
  <2>3. CASE m # Len(space) + 1
    <3>1. m \in before + 1 .. Len(space) /\ space'[m] = space[m]
      BY <1>1, <1>4, <2>3
    <3>2. \E k \in DOMAIN system :
             /\ Grown(k)
             /\ \E n \in DOMAIN system[k] :
                   space[m].at = system[k][n] /\ Len(system[k][n]) >= 3
      BY <3>1 DEF ParentInv, ComeFromGrown
    <3> QED BY <3>1, <3>2, Zenon
  <2> QED BY <2>2, <2>3
<1>11. PassedAreThere'
  <2>1. \A k \in DOMAIN ret : \A n \in 1 .. ret[k] : Len(system[k][n]) >= 3 => There(k, n)'
    BY <1>7 DEF ParentInv, PassedAreThere
  <2>2. ASSUME NEW n \in 1 .. i' - 1, Len(system[level][n]) >= 3, NEW k, k = level
        PROVE  There(k, n)'
    <3>1. CASE n = i
      <4>1. space'[Len(space) + 1].at = system'[k][n]
        BY <1>1, <1>8, <2>2, <3>1
      <4> QED BY <1>8, <4>1 DEF There
    <3>2. CASE n # i
      <4>1. n \in 1 .. i - 1
        BY <1>1, <1>3, <3>2
      <4>2. There(k, n)
        BY <1>2, <2>2, <4>1 DEF ParentInv, PassedAreThere
      <4> QED BY <1>7, <4>2
    <3> QED BY <3>1, <3>2
  <2>3. (\A n \in 1 .. i - 1 : Len(system[level][n]) >= 3 => There(level, n))'
    BY <1>1, <2>2
  <2>4. Grown(level)'
    BY <1>1, <1>6, <1>9
  <2>5. (\A k \in DOMAIN ret : \A n \in 1 .. ret[k] : Len(system[k][n]) >= 3 => There(k, n))'
    BY <1>1, <2>1
  <2> QED BY <2>3, <2>4, <2>5 DEF PassedAreThere
<1> QED BY <1>1, <1>5, <1>10, <1>11 DEF ParentInv

LEMMA ParentOfBranchEnd ==
  ASSUME ParentInv, BranchEnd
  PROVE  ParentInv'
<1>1. /\ SpaceInv' /\ UNCHANGED <<space, system, before>> /\ i' = 1
      /\ level \notin DOMAIN ret /\ DOMAIN ret' = DOMAIN ret \cup {level}
      /\ \A k \in DOMAIN ret : ret'[k] = ret[k]
      /\ ret'[level] \in 0 .. i - 1
  BY BranchEndStep DEF ParentInv
<1>2. placing
  BY DEF BranchEnd
<1>3. i \in Nat \ {0}
  BY <1>2, WhilePlacing DEF ParentInv, SpaceInv
<1>4. Pointing(system)'
  BY <1>1 DEF ParentInv
<1>5. ASSUME NEW k, Grown(k) PROVE Grown(k)'
  BY <1>1, <1>5 DEF Grown, HasPointer
<1>6. \A k, n : There(k, n)' <=> There(k, n)
  BY <1>1 DEF There
<1>7. ComeFromGrown'
  <2>1. ComeFromGrown
    BY DEF ParentInv
  <2> QED BY <1>1, <1>5, <2>1, Zenon DEF ComeFromGrown
<1>8. PassedAreThere'
  <2>1. \A k \in DOMAIN ret : \A n \in 1 .. ret[k] : Len(system[k][n]) >= 3 => There(k, n)
    BY DEF ParentInv, PassedAreThere
  <2>2. \A n \in 1 .. ret'[level] : Len(system[level][n]) >= 3 => There(level, n)
    <3>1. \A n \in 1 .. i - 1 : Len(system[level][n]) >= 3 => There(level, n)
      BY <1>2 DEF ParentInv, PassedAreThere
    <3>2. \A n \in 1 .. ret'[level] : n \in 1 .. i - 1
      BY <1>1, <1>3
    <3> QED BY <3>1, <3>2
  <2>3. \A k \in DOMAIN ret' : \A n \in 1 .. ret'[k] : Len(system[k][n]) >= 3 => There(k, n)
    BY <1>1, <2>1, <2>2
  <2>4. 1 .. i' - 1 = {} /\ ~(i' > 1)
    BY <1>1
  <2> QED BY <1>1, <1>6, <2>3, <2>4 DEF PassedAreThere
<1> QED BY <1>1, <1>4, <1>7, <1>8 DEF ParentInv

LEMMA ParentStep ==
  ASSUME \A levels \in Pointed : Pointing(levels), ParentInv, [PlacementNext]_placementVars
  PROVE  ParentInv'
<1>1. CASE \E levels \in Given, r \in Coordinates : AddSystem(levels, r)
  BY <1>1, ParentOfSystem, GivenBranched, ShelvesPoint DEF Given
<1>2. CASE \E points \in Seq(Items), rs \in Seq(Coordinates) : AddList(points, rs)
  BY <1>2, ParentOfList
<1>3. CASE PointerCut
  BY <1>3, ParentOfPointerCut
<1>4. CASE Skip
  BY <1>4, ParentOfSkip
<1>5. CASE Place
  BY <1>5, ParentOfCollision, ParentOfRoom
<1>6. CASE BranchEnd
  BY <1>6, ParentOfBranchEnd
<1>7. CASE UNCHANGED placementVars
  <2>1. SpaceInv'
    BY <1>7, SpaceStep DEF ParentInv
  <2>2. UNCHANGED <<space, placing, system, level, i, ret, before>>
    BY <1>7 DEF placementVars
  <2>3. Pointing(system)'
    BY <2>2 DEF ParentInv
  <2>4. \A k : (Grown(k)' <=> Grown(k)) /\ \A n : There(k, n)' <=> There(k, n)
    BY <2>2 DEF Grown, There, HasPointer
  <2>5. ComeFromGrown'
    BY <2>2, <2>4, Zenon DEF ParentInv, ComeFromGrown
  <2>6. PassedAreThere'
    BY <2>2, <2>4, Zenon DEF ParentInv, PassedAreThere
  <2> QED BY <2>1, <2>3, <2>5, <2>6 DEF ParentInv
<1> QED BY <1>1, <1>2, <1>3, <1>4, <1>5, <1>6, <1>7 DEF PlacementNext, Placing

LEMMA ParentInvPlaced ==
  ASSUME ParentInv
  PROVE  ParentsPlaced
<1>1. SUFFICES ASSUME ~placing, NEW k \in DOMAIN system, HasPointer(k),
                      NEW n \in DOMAIN system[k], Len(system[k][n]) = 3, Placed(k, n)
      PROVE  LET parent == system[k][1] IN
             /\ parent[1] \in DOMAIN system
             /\ parent[2] + 1 \in DOMAIN system[parent[1]]
             /\ \/ Len(system[parent[1]][parent[2] + 1]) = 2
                \/ Placed(parent[1], parent[2] + 1)
  BY Zenon DEF ParentsPlaced, Returned
<1> DEFINE parent == system[k][1]
           at == parent[2] + 1
<1>2. Typed /\ Progress /\ Pointing(system) /\ ComeFromGrown /\ PassedAreThere
  BY DEF ParentInv, SpaceInv
<1>3. DOMAIN ret = DOMAIN system /\ \A j \in DOMAIN ret : ret[j] \in 0 .. Len(system[j])
  BY <1>1, <1>2 DEF Progress
<1>4. PICK m \in before + 1 .. Len(space) : space[m].at = system[k][n]
  BY <1>1 DEF Placed, New
<1>5. PICK j \in DOMAIN system :
         /\ Grown(j)
         /\ \E l \in DOMAIN system[j] : space[m].at = system[j][l] /\ Len(system[j][l]) >= 3
  BY <1>2 DEF ComeFromGrown
<1>6. j = k
  <2>1. PICK l \in DOMAIN system[j] : space[m].at = system[j][l] /\ Len(system[j][l]) >= 3
    BY <1>5
  <2>2. system[k][n] = system[j][l]
    BY <1>4, <2>1
  <2>3. Len(system[k][n]) >= 3
    BY <1>1
  <2>4. system[k] # <<>> /\ Len(system[k][1]) = 2
    BY <1>1 DEF HasPointer
  <2> QED BY <1>1, <1>2, <1>5, <2>1, <2>2, <2>3, <2>4, Zenon DEF Pointing
<1>7. parent[1] \in DOMAIN ret /\ parent[1] < k /\ parent[2] < ret[parent[1]]
  BY <1>1, <1>5, <1>6 DEF Grown
<1>8. /\ parent[2] \in Nat
      /\ at \in DOMAIN system[parent[1]] => Len(system[parent[1]][at]) >= 2
  BY <1>1, <1>2, <1>3, <1>7, Zenon DEF Pointing, HasPointer
<1>9. /\ system[parent[1]] \in Seq(Items) /\ Len(system[parent[1]]) \in Nat
      /\ DOMAIN system[parent[1]] = 1 .. Len(system[parent[1]])
  BY <1>2, <1>3, <1>7, BranchedFacts, LenProperties DEF Typed
<1> HIDE DEF parent
<1>10. at \in 1 .. ret[parent[1]] /\ at \in DOMAIN system[parent[1]]
  BY <1>3, <1>7, <1>8, <1>9
<1>11. Len(system[parent[1]][at]) \in Nat
  <2>1. system[parent[1]][at] \in Items
    BY <1>9, <1>10, ElementOfSeq
  <2> QED BY <2>1, LenProperties DEF Items
<1>12. ASSUME Len(system[parent[1]][at]) # 2 PROVE Placed(parent[1], at)
  <2>1. Len(system[parent[1]][at]) >= 3
    <3>1. \A l \in Nat : l >= 2 /\ l # 2 => l >= 3
      OBVIOUS
    <3>2. Len(system[parent[1]][at]) >= 2
      BY <1>8, <1>10
    <3> QED BY <1>11, <1>12, <3>1, <3>2, Zenon
  <2>2. There(parent[1], at)
    BY <1>2, <1>7, <1>10, <2>1 DEF PassedAreThere
  <2> QED BY <2>2 DEF There, Placed, New
<1> QED BY <1>3, <1>7, <1>10, <1>12 DEF parent
-----------------------------------------------------------------------------
(* The turtle of getSystem *)

Vectors == [1 .. 3 -> Int]
Things == Vectors \cup {OpenBracket, CloseBracket}

LEMMA VectorOf ==
  ASSUME NEW a \in Int, NEW b \in Int, NEW c \in Int
  PROVE  <<a, b, c>> \in Vectors
BY DEF Vectors

LEMMA VectorParts ==
  ASSUME NEW v \in Vectors
  PROVE  v[1] \in Int /\ v[2] \in Int /\ v[3] \in Int
BY DEF Vectors

LEMMA Products == \A a, b \in Int : a * b \in Int
OBVIOUS

LEMMA VectorSums ==
  ASSUME NEW v \in Vectors, NEW w \in Vectors, NEW n \in Int
  PROVE  matrixAdd(v, w) \in Vectors /\ Scaled(v, n) \in Vectors
<1>1. /\ v[1] \in Int /\ v[2] \in Int /\ v[3] \in Int
      /\ w[1] \in Int /\ w[2] \in Int /\ w[3] \in Int
  BY VectorParts
<1>2. v[1] + w[1] \in Int /\ v[2] + w[2] \in Int /\ v[3] + w[3] \in Int
  BY <1>1
<1>3. v[1] * n \in Int /\ v[2] * n \in Int /\ v[3] * n \in Int
  BY <1>1, Products
<1>4. matrixAdd(v, w) \in Vectors
  BY <1>2, VectorOf DEF matrixAdd
<1>5. Scaled(v, n) \in Vectors
  BY <1>3, VectorOf DEF Scaled
<1> QED BY <1>4, <1>5

LEMMA VectorRotates ==
  ASSUME NEW v \in Vectors, NEW q \in Int
  PROVE  vector3RotateY(v, q) \in Vectors
<1> DEFINE m == << <<Cos(q), 0, -Sin(q)>>, <<0, 1, 0>>, <<Sin(q), 0, Cos(q)>> >>
<1>1. v[1] \in Int /\ v[2] \in Int /\ v[3] \in Int
  BY VectorParts
<1>2. \A r \in Int : Cos(r) \in Int
  BY DEF Cos
<1>3. Cos(q) \in Int /\ Sin(q) \in Int
  BY <1>2 DEF Sin
<1>4. /\ m[1] \in Vectors /\ m[2] \in Vectors /\ m[3] \in Vectors
  BY <1>3, VectorOf
<1> HIDE DEF m
<1>5. ASSUME NEW w \in Vectors PROVE Dot(w, v) \in Int
  <2>1. w[1] \in Int /\ w[2] \in Int /\ w[3] \in Int
    BY VectorParts
  <2>2. w[1] * v[1] \in Int /\ w[2] * v[2] \in Int /\ w[3] * v[3] \in Int
    BY <1>1, <2>1, Products
  <2> QED BY <2>2 DEF Dot
<1>6. vector3RotateY(v, q) = <<Dot(m[1], v), Dot(m[2], v), Dot(m[3], v)>>
  BY DEF vector3RotateY, vector3MultMatrix, m
<1> QED BY <1>4, <1>5, <1>6, VectorOf

LEMMA VectorCrosses ==
  ASSUME NEW v \in Vectors, NEW w \in Vectors
  PROVE  vectorCrossProduct(v, w) \in Vectors
<1>1. /\ v[1] \in Int /\ v[2] \in Int /\ v[3] \in Int
      /\ w[1] \in Int /\ w[2] \in Int /\ w[3] \in Int
  BY VectorParts
<1>2. /\ v[2] * w[3] \in Int /\ v[3] * w[2] \in Int /\ v[1] * w[3] \in Int
      /\ v[3] * w[1] \in Int /\ v[1] * w[2] \in Int /\ v[2] * w[1] \in Int
  BY <1>1, Products
<1>3. /\ v[2] * w[3] - v[3] * w[2] \in Int /\ v[1] * w[3] - v[3] * w[1] \in Int
      /\ v[1] * w[2] - v[2] * w[1] \in Int
  BY <1>2
<1> QED BY <1>3, VectorOf DEF vectorCrossProduct

LEMMA VectorTurns ==
  ASSUME NEW v \in Vectors, NEW axis \in Vectors, NEW q \in Int
  PROVE  vector3Rotate(v, axis, q) \in Vectors
<1> DEFINE n(k) == Sign(axis[k])
           along == n(1) * v[1] + n(2) * v[2] + n(3) * v[3]
           turned(a, b, c) == Cos(q) * v[a] + Sin(q) * (n(b) * v[c] - n(c) * v[b])
                                + (1 - Cos(q)) * along * n(a)
<1>1. v[1] \in Int /\ v[2] \in Int /\ v[3] \in Int
  BY VectorParts
<1>2. \A k : n(k) \in Int
  BY DEF Sign
<1>3. \A r \in Int : Cos(r) \in Int
  BY DEF Cos
<1>4. Cos(q) \in Int /\ Sin(q) \in Int
  BY <1>3 DEF Sin
<1> HIDE DEF n
<1>5. along \in Int
  <2>1. n(1) * v[1] \in Int /\ n(2) * v[2] \in Int /\ n(3) * v[3] \in Int
    BY <1>1, <1>2, Products
  <2> QED BY <2>1
<1> HIDE DEF along
<1>6. ASSUME NEW a \in 1 .. 3, NEW b \in 1 .. 3, NEW c \in 1 .. 3 PROVE turned(a, b, c) \in Int
  <2>1. v[a] \in Int /\ v[b] \in Int /\ v[c] \in Int
    BY <1>1
  <2>2. n(b) * v[c] \in Int /\ n(c) * v[b] \in Int
    BY <1>2, <2>1, Products
  <2>3. n(b) * v[c] - n(c) * v[b] \in Int /\ 1 - Cos(q) \in Int
    BY <1>4, <2>2
  <2>4. Cos(q) * v[a] \in Int /\ Sin(q) * (n(b) * v[c] - n(c) * v[b]) \in Int
    BY <1>4, <2>1, <2>3, Products
  <2>5. (1 - Cos(q)) * along \in Int
    BY <1>5, <2>3, Products
  <2>6. (1 - Cos(q)) * along * n(a) \in Int
    BY <1>2, <2>5, Products
  <2> QED BY <2>4, <2>6
<1>7. turned(1, 2, 3) \in Int /\ turned(2, 3, 1) \in Int /\ turned(3, 1, 2) \in Int
  BY <1>6
<1>8. CASE NoAxis(axis)
  BY <1>8 DEF vector3Rotate
<1>9. CASE ~NoAxis(axis)
  <2>1. vector3Rotate(v, axis, q) = <<turned(1, 2, 3), turned(2, 3, 1), turned(3, 1, 2)>>
    BY <1>9 DEF vector3Rotate, n, along
  <2> HIDE DEF turned
  <2> QED BY <1>7, <2>1, VectorOf
<1> QED BY <1>8, <1>9

(* Attributes that are no numbers are 0. *)
LEMMA NumbersOf == \A key : NumberOf(key) \in Int
<1>1. \A text : Default(stringTo(text)) \in Int
  BY SmokeTestAssumption DEF Default, stringTo
<1> QED BY <1>1 DEF NumberOf

LEMMA StartsThere == StartPointAttribute \in Vectors
<1> DEFINE coordinates == parseVector(Attribute(<<"StartPoint">>))
           coordinate(n) == IF n <= Len(coordinates) THEN Default(stringTo(coordinates[n])) ELSE 0
<1>1. \A text : Default(stringTo(text)) \in Int
  BY SmokeTestAssumption DEF Default, stringTo
<1>2. \A n : coordinate(n) \in Int
  <2>1. 0 \in Int
    OBVIOUS
  <2> QED BY <1>1, <2>1, Zenon
<1>3. StartPointAttribute = <<coordinate(1), coordinate(2), coordinate(3)>>
  BY DEF StartPointAttribute
<1> HIDE DEF coordinate
<1> QED BY <1>2, <1>3, VectorOf

LEMMA DepthAppended ==
  ASSUME NEW S, NEW items \in Seq(S), NEW x \in S
  PROVE  /\ \A n \in 0 .. Len(items) : Depth(Append(items, x), n) = Depth(items, n)
         /\ Depth(Append(items, x), Len(items) + 1)
              = Depth(items, Len(items)) + (IF x = OpenBracket THEN 1
                                            ELSE IF x = CloseBracket THEN -1 ELSE 0)
<1> DEFINE more == Append(items, x)
           Those(ss, n, bracket) == {j \in 1 .. n : ss[j] = bracket}
<1>1. Len(items) \in Nat
  BY LenProperties
<1>2. /\ \A j \in 1 .. Len(items) : more[j] = items[j]
      /\ more[Len(items) + 1] = x
  BY AppendProperties
<1>3. \A ss, n : Depth(ss, n) = Cardinality(Those(ss, n, OpenBracket))
                                  - Cardinality(Those(ss, n, CloseBracket))
  BY DEF Depth, Count, IsOpen, IsClose
<1> HIDE DEF more
<1>4. ASSUME NEW n \in 0 .. Len(items)
      PROVE  Depth(more, n) = Depth(items, n)
  <2>1. \A bracket : Those(more, n, bracket) = Those(items, n, bracket)
    BY <1>1, <1>2
  <2> HIDE DEF Those
  <2> QED BY <1>3, <2>1
<1>5. Depth(more, Len(items) + 1)
        = Depth(items, Len(items)) + (IF x = OpenBracket THEN 1
                                      ELSE IF x = CloseBracket THEN -1 ELSE 0)
  <2>1. Len(items) + 1 \in Nat \ {0} /\ Len(items) + 1 - 1 = Len(items)
    BY <1>1
  <2>2. Depth(more, Len(items) + 1)
          = Depth(more, Len(items) + 1 - 1)
              + (IF more[Len(items) + 1] = OpenBracket THEN 1
                 ELSE IF more[Len(items) + 1] = CloseBracket THEN -1 ELSE 0)
    BY <2>1, DepthGoesOn
  <2>3. Depth(more, Len(items)) = Depth(items, Len(items))
    BY <1>1, <1>4
  <2> QED BY <1>2, <2>1, <2>2, <2>3
<1> QED BY <1>4, <1>5 DEF more

Turtles ==
    [turtlePoint : Vectors, turtleMovementAxis : Vectors, turtleCrossProduct : Vectors,
     stack : Seq([1 .. 3 -> Vectors]), bracketScope : Nat, coordinates : Seq(Things)]

(* What is kept on the stack is as much as brackets are open, and none is  *)
(* closed before.                                                          *)
Balanced(t) ==
    /\ Len(t.stack) = t.bracketScope
    /\ Depth(t.coordinates, Len(t.coordinates)) = t.bracketScope
    /\ \A n \in 1 .. Len(t.coordinates) : Depth(t.coordinates, n) >= 0
Sound(t) == t \in Turtles /\ Balanced(t)

(* What is said comes to what was. *)
LEMMA SaidBalanced ==
  ASSUME NEW t, Sound(t), NEW u \in Turtles, NEW x \in Things,
         u.coordinates = Append(t.coordinates, x), Len(u.stack) = u.bracketScope,
         u.bracketScope = t.bracketScope + (IF x = OpenBracket THEN 1
                                            ELSE IF x = CloseBracket THEN -1 ELSE 0)
  PROVE  Sound(u)
<1>1. t \in Turtles /\ Balanced(t)
  BY DEF Sound
<1>2. t.coordinates \in Seq(Things) /\ t.bracketScope \in Nat /\ u.bracketScope \in Nat
  BY <1>1 DEF Turtles
<1> DEFINE c == t.coordinates
           d == u.coordinates
<1>3. /\ \A n \in 0 .. Len(c) : Depth(d, n) = Depth(c, n)
      /\ Depth(d, Len(c) + 1) = Depth(c, Len(c)) + (IF x = OpenBracket THEN 1
                                                    ELSE IF x = CloseBracket THEN -1 ELSE 0)
  BY <1>2, DepthAppended
<1>4. Len(c) \in Nat /\ Len(d) = Len(c) + 1
  BY <1>2, LenProperties, AppendProperties
<1>5. /\ Depth(c, Len(c)) = t.bracketScope
      /\ \A n \in 1 .. Len(c) : Depth(c, n) >= 0
  BY <1>1 DEF Balanced
<1> HIDE DEF c, d
<1>6. Depth(d, Len(d)) = u.bracketScope
  BY <1>3, <1>4, <1>5
<1>7. ASSUME NEW n \in 1 .. Len(d) PROVE Depth(d, n) >= 0
  <2>1. CASE n = Len(d)
    BY <1>2, <1>6, <2>1
  <2>2. CASE n # Len(d)
    <3>1. n \in 1 .. Len(c) /\ n \in 0 .. Len(c)
      BY <1>4, <2>2
    <3> QED BY <1>3, <1>5, <3>1
  <2> QED BY <2>1, <2>2
<1> QED BY <1>6, <1>7 DEF d, Sound, Balanced

LEMMA NoBrackets == \A v \in Vectors : v # OpenBracket /\ v # CloseBracket
<1> SUFFICES ASSUME NEW v \in Vectors PROVE v # OpenBracket /\ v # CloseBracket
  OBVIOUS
<1>1. Len(v) = 3
  BY DEF Vectors
<1>2. Len(OpenBracket) = 1 /\ Len(CloseBracket) = 1
  BY DEF OpenBracket, CloseBracket
<1>3. 3 # 1
  OBVIOUS
<1> QED BY <1>1, <1>2, <1>3, Zenon

LEMMA AlongSound ==
  ASSUME NEW t, Sound(t), NEW size \in Int
  PROVE  Sound(Along(t, size))
<1> DEFINE point == matrixAdd(t.turtlePoint, Scaled(t.turtleMovementAxis, size))
<1>1. t \in Turtles /\ Balanced(t)
  BY DEF Sound
<1>2. t.turtlePoint \in Vectors /\ t.turtleMovementAxis \in Vectors /\ t.coordinates \in Seq(Things)
  BY <1>1 DEF Turtles
<1>3. point \in Vectors
  BY <1>2, VectorSums
<1>4. Along(t, size) = [t EXCEPT !.turtlePoint = point, !.coordinates = Append(t.coordinates, point)]
  BY DEF Along
<1> HIDE DEF point
<1>5. point \in Things /\ point # OpenBracket /\ point # CloseBracket
  BY <1>3, NoBrackets DEF Things
<1>6. Append(t.coordinates, point) \in Seq(Things)
  BY <1>2, <1>5
<1> DEFINE u == Along(t, size)
<1>7. /\ u \in Turtles /\ u.coordinates = Append(t.coordinates, point)
      /\ u.stack = t.stack /\ u.bracketScope = t.bracketScope
  BY <1>1, <1>3, <1>4, <1>6 DEF Turtles
<1>8. Len(u.stack) = u.bracketScope /\ t.bracketScope \in Nat
  BY <1>1, <1>7 DEF Balanced, Turtles
<1> HIDE DEF u
<1>9. Sound(u)
  BY <1>5, <1>7, <1>8, SaidBalanced
<1> QED BY <1>9 DEF u

LEMMA OpenedSound ==
  ASSUME NEW t, Sound(t)
  PROVE  Sound(Opened(t))
<1> DEFINE kept == <<t.turtlePoint, t.turtleMovementAxis, t.turtleCrossProduct>>
           u == Opened(t)
<1>1. t \in Turtles /\ Balanced(t)
  BY DEF Sound
<1>2. kept \in [1 .. 3 -> Vectors]
  BY <1>1 DEF Turtles
<1>3. u = [t EXCEPT !.bracketScope = t.bracketScope + 1,
                    !.coordinates = Append(t.coordinates, OpenBracket),
                    !.stack = Append(t.stack, kept)]
  BY DEF Opened
<1>4. /\ t.stack \in Seq([1 .. 3 -> Vectors]) /\ t.bracketScope \in Nat
      /\ t.coordinates \in Seq(Things) /\ OpenBracket \in Things
  BY <1>1 DEF Turtles, Things
<1> HIDE DEF kept
<1>5. /\ Append(t.stack, kept) \in Seq([1 .. 3 -> Vectors])
      /\ Len(Append(t.stack, kept)) = Len(t.stack) + 1
      /\ Append(t.coordinates, OpenBracket) \in Seq(Things)
  BY <1>2, <1>4, AppendProperties
<1>6. /\ u \in Turtles /\ u.coordinates = Append(t.coordinates, OpenBracket)
      /\ u.stack = Append(t.stack, kept) /\ u.bracketScope = t.bracketScope + 1
  <2>1. PICK s : s = Append(t.stack, kept)
    OBVIOUS
  <2>2. PICK c : c = Append(t.coordinates, OpenBracket)
    OBVIOUS
  <2>3. u = [t EXCEPT !.bracketScope = t.bracketScope + 1, !.coordinates = c, !.stack = s]
    BY <1>3, <2>1, <2>2, Zenon
  <2>4. s \in Seq([1 .. 3 -> Vectors]) /\ c \in Seq(Things) /\ t.bracketScope + 1 \in Nat
    BY <1>4, <1>5, <2>1, <2>2
  <2>5. /\ u \in Turtles /\ u.coordinates = c
        /\ u.stack = s /\ u.bracketScope = t.bracketScope + 1
    BY <1>1, <2>3, <2>4 DEF Turtles
  <2> QED BY <2>1, <2>2, <2>5
<1>7. Len(u.stack) = u.bracketScope
  BY <1>1, <1>5, <1>6 DEF Balanced
<1> HIDE DEF u
<1>8. Sound(u)
  BY <1>4, <1>6, <1>7, SaidBalanced
<1> QED BY <1>8 DEF u

LEMMA ClosedSound ==
  ASSUME NEW t, Sound(t)
  PROVE  Sound(Closed(t))
<1>1. t \in Turtles /\ Balanced(t)
  BY DEF Sound
<1>2. CASE t.bracketScope = 0
  BY <1>2 DEF Closed
<1>3. CASE t.bracketScope # 0
  <2> DEFINE top == Last(t.stack)
             u == Closed(t)
  <2>1. /\ t.stack \in Seq([1 .. 3 -> Vectors]) /\ t.bracketScope \in Nat \ {0}
        /\ t.coordinates \in Seq(Things) /\ CloseBracket \in Things
        /\ Len(t.stack) = t.bracketScope
    BY <1>1, <1>3 DEF Turtles, Things, Balanced
  <2>2. top \in [1 .. 3 -> Vectors]
    <3>1. Len(t.stack) \in 1 .. Len(t.stack)
      BY <2>1
    <3> QED BY <2>1, <3>1, ElementOfSeq DEF Last
  <2>3. /\ Front(t.stack) \in Seq([1 .. 3 -> Vectors])
        /\ Len(Front(t.stack)) = Len(t.stack) - 1
    <3>1. \A n \in 1 .. Len(t.stack) - 1 : t.stack[n] \in [1 .. 3 -> Vectors]
      BY <2>1, ElementOfSeq
    <3>2. 1 \in 1 .. Len(t.stack) + 1 /\ Len(t.stack) - 1 \in 1 - 1 .. Len(t.stack)
      BY <2>1
    <3> QED BY <2>1, <3>1, <3>2, SubSeqProperties DEF Front
  <2>4. u = [t EXCEPT !.bracketScope = t.bracketScope - 1,
                      !.coordinates = Append(t.coordinates, CloseBracket),
                      !.stack = Front(t.stack), !.turtlePoint = top[1],
                      !.turtleMovementAxis = top[2], !.turtleCrossProduct = top[3]]
    BY <1>3 DEF Closed
  <2>5. top[1] \in Vectors /\ top[2] \in Vectors /\ top[3] \in Vectors
    BY <2>2
  <2>6. Append(t.coordinates, CloseBracket) \in Seq(Things) /\ t.bracketScope - 1 \in Nat
    BY <2>1
  <2> HIDE DEF top, u
  <2>7. /\ u \in Turtles /\ u.coordinates = Append(t.coordinates, CloseBracket)
        /\ u.stack = Front(t.stack) /\ u.bracketScope = t.bracketScope - 1
    BY <1>1, <2>3, <2>4, <2>5, <2>6 DEF Turtles
  <2>8. Len(u.stack) = u.bracketScope
    BY <2>1, <2>3, <2>7
  <2>9. CloseBracket # OpenBracket
    BY DEF OpenBracket, CloseBracket
  <2>10. Sound(u)
    BY <2>1, <2>7, <2>8, <2>9, SaidBalanced
  <2> QED BY <2>10 DEF u
<1> QED BY <1>2, <1>3

LEMMA TurnedSound ==
  ASSUME NEW t, Sound(t), NEW angle \in Int
  PROVE  Sound(LeftOrRight(t, angle)) /\ Sound(UpOrDown(t, angle))
<1>1. t \in Turtles /\ Balanced(t)
  BY DEF Sound
<1>2. t.turtleMovementAxis \in Vectors /\ t.turtleCrossProduct \in Vectors
  BY <1>1 DEF Turtles
<1>3. ASSUME NEW u \in Turtles, u.stack = t.stack, u.bracketScope = t.bracketScope,
             u.coordinates = t.coordinates
      PROVE  Sound(u)
  BY <1>1, <1>3, Zenon DEF Sound, Balanced
<1>4. Sound(UpOrDown(t, angle))
  <2> DEFINE axis == vector3Rotate(t.turtleMovementAxis, t.turtleCrossProduct, angle)
             u == UpOrDown(t, angle)
  <2>1. axis \in Vectors
    BY <1>2, VectorTurns
  <2>2. u = [t EXCEPT !.turtleMovementAxis = axis]
    BY DEF UpOrDown
  <2> HIDE DEF axis, u
  <2>3. /\ u \in Turtles /\ u.stack = t.stack /\ u.bracketScope = t.bracketScope
        /\ u.coordinates = t.coordinates
    BY <1>1, <2>1, <2>2 DEF Turtles
  <2>4. Sound(u)
    BY <1>3, <2>3
  <2> QED BY <2>4 DEF u
<1>5. Sound(LeftOrRight(t, angle))
  <2> DEFINE movement == vector3RotateY(t.turtleMovementAxis, angle)
             cross == vectorCrossProduct(movement, YAxis)
             axis == IF NoAxis(cross) THEN t.turtleCrossProduct ELSE cross
             u == LeftOrRight(t, angle)
  <2>1. movement \in Vectors
    BY <1>2, VectorRotates
  <2>2. YAxis \in Vectors
    BY VectorOf DEF YAxis
  <2> HIDE DEF movement
  <2>3. cross \in Vectors
    BY <2>1, <2>2, VectorCrosses
  <2>4. u = [t EXCEPT !.turtleMovementAxis = movement, !.turtleCrossProduct = axis]
    BY DEF LeftOrRight, movement
  <2> HIDE DEF cross, u
  <2>5. axis \in Vectors
    BY <1>2, <2>3
  <2> HIDE DEF axis
  <2>6. /\ u \in Turtles /\ u.stack = t.stack /\ u.bracketScope = t.bracketScope
        /\ u.coordinates = t.coordinates
    BY <1>1, <2>1, <2>4, <2>5 DEF Turtles
  <2>7. Sound(u)
    BY <1>3, <2>6
  <2> QED BY <2>7 DEF u
<1> QED BY <1>4, <1>5

LEMMA ReadWordSound ==
  ASSUME NEW t, Sound(t), NEW word
  PROVE  Sound(ReadWord(t, word))
<1> DEFINE kind == KindOf(word)
           size == NumberOf(<<"AtomicSize">>)
<1>1. size \in Int /\ Boosted(size) \in Int /\ NumberOf(AngleKey(kind)) \in Int
  <2>1. size \in Int /\ NumberOf(AngleKey(kind)) \in Int
    BY NumbersOf
  <2> HIDE DEF size
  <2> QED BY <2>1 DEF Boosted
<1> HIDE DEF size
<1>2. CASE kind = "S"
  <2>1. ReadWord(t, word) = Along(t, size)
    BY <1>2 DEF ReadWord, size
  <2> QED BY <1>1, <2>1, AlongSound
<1>3. CASE kind = "["
  <2>1. ReadWord(t, word) = Opened(t)
    BY <1>3 DEF ReadWord
  <2> QED BY <2>1, OpenedSound
<1>4. CASE kind = "]"
  <2>1. ReadWord(t, word) = Closed(t)
    BY <1>4 DEF ReadWord
  <2> QED BY <2>1, ClosedSound
<1>5. CASE kind \in {"L", "R"}
  <2>1. ReadWord(t, word) = Along(LeftOrRight(t, NumberOf(AngleKey(kind))), Boosted(size))
    BY <1>5 DEF ReadWord, size
  <2> QED BY <1>1, <2>1, AlongSound, TurnedSound
<1>6. CASE kind \in {"U", "D"}
  <2>1. ReadWord(t, word) = Along(UpOrDown(t, NumberOf(AngleKey(kind))), Boosted(size))
    BY <1>6 DEF ReadWord, size
  <2> QED BY <1>1, <2>1, AlongSound, TurnedSound
<1>7. CASE kind \notin {"S", "[", "]", "L", "R", "U", "D"}
  <2>1. ReadWord(t, word) = t
    BY <1>7 DEF ReadWord
  <2> QED BY <2>1
<1> QED BY <1>2, <1>3, <1>4, <1>5, <1>6, <1>7

LEMMA BeginningSound == Sound(Beginning)
<1> DEFINE b == Beginning
<1>1. b \in Turtles
  <2>1. <<0, 0, -1>> \in Vectors /\ <<-1, 0, 0>> \in Vectors
    BY VectorOf
  <2>2. StartPointAttribute \in Vectors
    BY StartsThere
  <2>3. <<StartPointAttribute>> \in Seq(Things)
    BY <2>2 DEF Things
  <2>4. <<>> \in Seq([1 .. 3 -> Vectors])
    OBVIOUS
  <2> QED BY <2>1, <2>2, <2>3, <2>4 DEF Turtles, Beginning
<1>2. /\ b.stack = <<>> /\ b.bracketScope = 0 /\ b.coordinates = <<StartPointAttribute>>
  BY DEF Beginning
<1> HIDE DEF b
<1>3. Len(b.stack) = 0 /\ Len(b.coordinates) = 1 /\ b.coordinates[1] = StartPointAttribute
  BY <1>2
<1>4. Depth(b.coordinates, 1) = 0
  <2>1. /\ Depth(b.coordinates, 0) = 0
        /\ Depth(b.coordinates, 1)
             = Depth(b.coordinates, 1 - 1) + (IF b.coordinates[1] = OpenBracket THEN 1
                                              ELSE IF b.coordinates[1] = CloseBracket THEN -1 ELSE 0)
    <3>1. 1 \in Nat \ {0}
      OBVIOUS
    <3> QED BY <3>1, DepthGoesOn
  <2>2. b.coordinates[1] # OpenBracket /\ b.coordinates[1] # CloseBracket
    BY <1>3, StartsThere, NoBrackets
  <2> QED BY <2>1, <2>2
<1>5. Balanced(b)
  BY <1>2, <1>3, <1>4 DEF Balanced
<1> QED BY <1>1, <1>5 DEF Sound, b

(* Of any text come points and brackets, and no bracket is closed before   *)
(* it is opened.                                                           *)
LEMMA InterpretationSound ==
  ASSUME NEW text, IsSeq(text)
  PROVE  /\ Interpretation(text) \in Seq(Things)
         /\ \A n \in 1 .. Len(Interpretation(text)) : Depth(Interpretation(text), n) >= 0
<1>1. PICK S : text \in Seq(S)
  BY DEF IsSeq
<1> DEFINE words == Parts(text, ",")
           l == Len(words)
<1>2. l \in Nat /\ DOMAIN words = 1 .. l
  BY <1>1, PartsList, LenProperties
<1> HIDE DEF words
<1>3. PICK G : /\ G[0] = Beginning
               /\ \A n \in 1 .. l : G[n] = ReadWord(G[n - 1], words[n])
               /\ FoldLeft(ReadWord, Beginning, words) = G[l]
  BY <1>2, ReadsInOrder
<1> HIDE DEF l
<1>4. \A n \in 0 .. l : Sound(G[n])
  <2> DEFINE W == {n \in Nat : n <= l /\ ~Sound(G[n])}
  <2>1. SUFFICES ASSUME W # {} PROVE FALSE
    BY <1>2
  <2>2. PICK n \in W : \A m \in W : n <= m
    <3>1. W \in SUBSET Nat
      OBVIOUS
    <3> HIDE DEF W
    <3> QED BY <2>1, <3>1, LeastNatural
  <2>3. n # 0 /\ n \in 1 .. l /\ n - 1 \in Nat /\ n - 1 <= l
    <3>1. n # 0
      BY <1>3, <2>2, BeginningSound
    <3> QED BY <1>2, <2>2, <3>1
  <2>4. n - 1 \notin W
    <3> HIDE DEF W
    <3> QED BY <2>2, <2>3
  <2>5. Sound(G[n - 1])
    BY <2>3, <2>4
  <2>6. Sound(G[n])
    BY <1>3, <2>3, <2>5, ReadWordSound
  <2> QED BY <2>2, <2>6
<1>5. Sound(G[l])
  BY <1>2, <1>4
<1>6. Interpretation(text) = G[l].coordinates
  BY <1>3 DEF Interpretation, parseVector, words
<1>7. G[l].coordinates \in Seq(Things)
  BY <1>5 DEF Sound, Turtles
<1>8. \A n \in 1 .. Len(G[l].coordinates) : Depth(G[l].coordinates, n) >= 0
  BY <1>5 DEF Sound, Balanced
<1> QED BY <1>6, <1>7, <1>8
-----------------------------------------------------------------------------
(* What getPoints returns of any items *)

(* Of what is no bracket, what has three numbers is a point. *)
Drawable(items) ==
    /\ IsList(items)
    /\ \A n \in DOMAIN items : Len(items[n]) = 3 => \A c \in 1 .. 3 : items[n][c] \in Int

Sortings == [stack_cursor : Int, branches : Shelves, points : Seq(Points)]

LEMMA FlushedShelved ==
  ASSUME NEW g \in Sortings, NEW step \in Int
  PROVE  Flushed(g, step) \in Sortings
<1>1. g.stack_cursor \in Int /\ g.branches \in Shelves /\ g.points \in Seq(Points)
  BY DEF Sortings
<1> DEFINE key == Key(g.stack_cursor)
           more == Branches(g.branches, key, g.points)
<1>2. key \in Int
  BY <1>1, GenericAssumption DEF Key
<1>3. more \in Shelves
  <2>1. PICK S \in LevelSets : g.branches \in [S -> Seq(Points)]
    BY <1>1 DEF Shelves
  <2>2. {key} \cup S \in LevelSets
    <3>1. S \subseteq Int /\ \E b \in Int : \A k \in S : b <= k
      BY DEF LevelSets
    <3>2. PICK b \in Int : \A k \in S : b <= k
      BY <3>1
    <3>3. PICK a \in Int : a <= b /\ a <= key
      <4>1. CASE b <= key
        BY <4>1
      <4>2. CASE ~(b <= key)
        BY <1>2, <4>2
      <4> QED BY <4>1, <4>2
    <3> HIDE DEF key
    <3>4. \A k \in {key} \cup S : k \in Int /\ a <= k
      BY <1>2, <3>1, <3>2, <3>3
    <3>5. {key} \cup S \in SUBSET Int
      BY <3>4
    <3> QED BY <3>3, <3>4, <3>5 DEF LevelSets
  <2>3. ASSUME NEW k \in {key} \cup S PROVE more[k] \in Seq(Points)
    <3>1. DOMAIN g.branches = S
      BY <2>1
    <3>2. CASE k # key
      <4>1. more[k] = g.branches[k] /\ k \in S
        BY <2>3, <3>1, <3>2 DEF Branches
      <4> QED BY <2>1, <4>1
    <3>3. CASE k = key
      <4>1. <<>> \in Seq(Points)
        OBVIOUS
      <4>2. (IF k \in DOMAIN g.branches THEN g.branches[k] ELSE <<>>) \in Seq(Points)
        BY <2>1, <3>1, <4>1
      <4>3. more[k] = (IF k \in DOMAIN g.branches THEN g.branches[k] ELSE <<>>) \o g.points
        BY <3>3 DEF Branches
      <4> QED BY <1>1, <4>2, <4>3, ConcatProperties
    <3> QED BY <3>2, <3>3
  <2>4. DOMAIN more = {key} \cup S /\ more = [k \in {key} \cup S |-> more[k]]
    BY <2>1 DEF Branches
  <2> HIDE DEF more, key
  <2>5. more \in [{key} \cup S -> Seq(Points)]
    BY <2>3, <2>4
  <2> QED BY <2>2, <2>5 DEF Shelves
<1> DEFINE next == (g.stack_cursor + step) % UintSize
<1>4. next \in Int
  <2>1. UintSize \in Nat \ {0} /\ g.stack_cursor + step \in Int
    BY <1>1, GenericAssumption
  <2> QED BY <2>1
<1>5. Flushed(g, step) = [g EXCEPT !.branches = more, !.points = <<>>, !.stack_cursor = next]
  BY DEF Flushed
<1>6. <<>> \in Seq(Points)
  OBVIOUS
<1> HIDE DEF more, next
<1> QED BY <1>3, <1>4, <1>5, <1>6 DEF Sortings

LEMMA SortedShelved ==
  ASSUME NEW g \in Sortings, NEW item, Len(item) = 3 => \A c \in 1 .. 3 : item[c] \in Int
  PROVE  Sorted(g, item) \in Sortings
<1>0. /\ OpenBracket # CloseBracket
      /\ Len(OpenBracket) = 1 /\ Len(CloseBracket) = 1
  BY DEF OpenBracket, CloseBracket
<1>1. CASE item = OpenBracket
  <2>1. item # CloseBracket /\ ~(Len(item) = 3)
    BY <1>0, <1>1
  <2>2. Sorted(g, item) = Flushed(g, 1)
    BY <1>1, <2>1 DEF Sorted
  <2> QED BY <2>2, FlushedShelved
<1>2. CASE item = CloseBracket
  <2>1. item # OpenBracket /\ ~(Len(item) = 3)
    BY <1>0, <1>2
  <2>2. Sorted(g, item) = Flushed(g, UintSize - 1)
    BY <1>2, <2>1 DEF Sorted
  <2>3. UintSize - 1 \in Int
    BY GenericAssumption
  <2> QED BY <2>2, <2>3, FlushedShelved
<1>3. CASE item # OpenBracket /\ item # CloseBracket /\ Len(item) = 3
  <2> DEFINE point == <<ReadBack(item[1]), ReadBack(item[2]), ReadBack(item[3])>>
  <2>1. \A n \in Int : ReadBack(n) \in Coordinates
    <3> TAKE n \in Int
    <3>1. Abs(n) \in Int
      BY DEF Abs
    <3> QED BY <3>1 DEF ReadBack, Coordinates
  <2>2. item[1] \in Int /\ item[2] \in Int /\ item[3] \in Int
    BY <1>3
  <2>3. /\ ReadBack(item[1]) \in Coordinates /\ ReadBack(item[2]) \in Coordinates
        /\ ReadBack(item[3]) \in Coordinates
    BY <2>1, <2>2
  <2>4. point \in Points
    BY <2>3 DEF Points
  <2>5. Sorted(g, item) = [g EXCEPT !.points = Append(g.points, point)]
    BY <1>3 DEF Sorted
  <2> HIDE DEF point
  <2>6. Append(g.points, point) \in Seq(Points)
    BY <2>4 DEF Sortings
  <2> QED BY <2>5, <2>6 DEF Sortings
<1>4. CASE item # OpenBracket /\ item # CloseBracket /\ Len(item) # 3
  <2>1. Sorted(g, item) = g
    BY <1>4 DEF Sorted
  <2> QED BY <2>1
<1> QED BY <1>1, <1>2, <1>3, <1>4

LEMMA PointsShelved ==
  ASSUME NEW items, Drawable(items)
  PROVE  getPoints(items) \in Shelves
<1>1. PICK S : items \in Seq(Seq(S))
  BY DEF Drawable, IsList
<1> DEFINE l == Len(items)
<1>2. l \in Nat /\ DOMAIN items = 1 .. l
  BY <1>1, LenProperties
<1>3. PICK G : /\ G[0] = Start
               /\ \A n \in 1 .. l : G[n] = Sorted(G[n - 1], items[n])
               /\ FoldLeft(Sorted, Start, items) = G[l]
  BY <1>2, SortsInOrder
<1>4. Start \in Sortings
  <2>1. {} \in LevelSets
    BY DEF LevelSets
  <2>2. [k \in {} |-> <<>>] \in [{} -> Seq(Points)]
    OBVIOUS
  <2>3. [k \in {} |-> <<>>] \in Shelves
    BY <2>1, <2>2 DEF Shelves
  <2> QED BY <2>3 DEF Start, Sortings
<1> HIDE DEF l
<1>5. \A n \in 0 .. l : G[n] \in Sortings
  <2> DEFINE W == {n \in Nat : n <= l /\ G[n] \notin Sortings}
  <2>1. SUFFICES ASSUME W # {} PROVE FALSE
    BY <1>2
  <2>2. PICK n \in W : \A m \in W : n <= m
    <3>1. W \in SUBSET Nat
      OBVIOUS
    <3> HIDE DEF W
    <3> QED BY <2>1, <3>1, LeastNatural
  <2>3. n # 0 /\ n \in 1 .. l /\ n - 1 \in Nat /\ n - 1 <= l
    <3>1. n # 0
      BY <1>3, <1>4, <2>2
    <3> QED BY <1>2, <2>2, <3>1
  <2>4. n - 1 \notin W
    <3> HIDE DEF W
    <3> QED BY <2>2, <2>3
  <2>5. G[n - 1] \in Sortings
    BY <2>3, <2>4
  <2>6. Len(items[n]) = 3 => \A c \in 1 .. 3 : items[n][c] \in Int
    BY <1>2, <2>3 DEF Drawable
  <2>7. G[n] \in Sortings
    BY <1>3, <2>3, <2>5, <2>6, SortedShelved
  <2> QED BY <2>2, <2>7
<1> DEFINE g == G[l]
<1>6. g \in Sortings
  BY <1>2, <1>5
<1>7. getPoints(items) = IF g.points = <<>> THEN g.branches ELSE Flushed(g, 0).branches
  BY <1>3 DEF getPoints, Start, l
<1> HIDE DEF g
<1>8. Flushed(g, 0) \in Sortings
  BY <1>6, FlushedShelved
<1> QED BY <1>6, <1>7, <1>8 DEF Sortings
-----------------------------------------------------------------------------
(* From a string to spheres *)

StringInv ==
    /\ pc \in {"set up", "interpreted", "sorted"} /\ (pc = "set up" => genes = <<>>)
    /\ loaded.system \in Seq(AllWords)
    /\ Drawable(interpretedSystem)
    /\ OpenedFirst
    /\ pc = "sorted" => system = getPoints(interpretedSystem)

(* Which is IsSequence, in other words *)
LEMMA SequencesAre ==
  ASSUME NEW s, IsSequence(s)
  PROVE  /\ Len(s) \in Nat /\ DOMAIN s = 1 .. Len(s)
         /\ \A S : (\A n \in 1 .. Len(s) : s[n] \in S) => s \in Seq(S)
<1>1. Len(s) \in Nat /\ s = [n \in 1 .. Len(s) |-> s[n]]
  BY DEF IsSequence
<1>2. DOMAIN s = 1 .. Len(s)
  BY <1>1
<1>3. ASSUME NEW S, \A n \in 1 .. Len(s) : s[n] \in S
      PROVE  s \in Seq(S)
  <2>1. s \in [1 .. Len(s) -> S]
    BY <1>1, <1>3
  <2> QED BY <1>1, <2>1, SeqDef
<1> QED BY <1>1, <1>2, <1>3

LEMMA WordsAre ==
  ASSUME NEW words \in Seq(AllWords)
  PROVE  IsSeq(SystemText(words))
<1> DEFINE atoms(word) == {word[n] : n \in 1 .. Len(word)}
           Atoms == UNION {atoms(word) : word \in AllWords}
<1>1. \A word \in AllWords : word \in Seq(Atoms)
  <2> TAKE word \in AllWords
  <2>1. IsSequence(word)
    BY SmokeTestAssumption
  <2>2. \A n \in 1 .. Len(word) : word[n] \in Atoms
    OBVIOUS
  <2> HIDE DEF Atoms
  <2> QED BY <2>1, <2>2, SequencesAre
<1> HIDE DEF Atoms
<1>2. words \in Seq(Seq(Atoms))
  BY <1>1, SeqMonotonic
<1>3. IsList(words)
  BY <1>2 DEF IsList
<1>4. <<",">> \in Seq({","})
  OBVIOUS
<1>5. IsSeq(<<",">>)
  BY <1>4 DEF IsSeq
<1> QED BY <1>3, <1>5, TextOfList DEF SystemText

LEMMA StrangersDrawable ==
  ASSUME NEW items \in Strangers
  PROVE  Drawable(items)
<1>1. IsSequence(items) /\ \A n \in DOMAIN items :
          /\ IsSequence(items[n])
          /\ Len(items[n]) = 3 => \A c \in 1 .. 3 : items[n][c] \in Int
  BY SmokeTestAssumption
<1> DEFINE atoms(item) == {item[n] : n \in 1 .. Len(item)}
           Atoms == UNION {atoms(items[n]) : n \in DOMAIN items}
<1>2. ASSUME NEW n \in 1 .. Len(items)
      PROVE  items[n] \in Seq(Atoms)
  <2>1. n \in DOMAIN items
    BY <1>1, SequencesAre
  <2>2. \A m \in 1 .. Len(items[n]) : items[n][m] \in Atoms
    BY <2>1
  <2> HIDE DEF Atoms
  <2> QED BY <1>1, <2>1, <2>2, SequencesAre
<1> HIDE DEF Atoms
<1>3. items \in Seq(Seq(Atoms))
  BY <1>1, <1>2, SequencesAre
<1>4. IsList(items)
  BY <1>3 DEF IsList
<1> QED BY <1>1, <1>4 DEF Drawable

LEMMA TriplesAre ==
  ASSUME NEW S
  PROVE  [1 .. 3 -> S] \subseteq Seq(S)
<1>1. 3 \in Nat
  OBVIOUS
<1> QED BY <1>1, SeqDef

LEMMA InterpretationDrawable ==
  ASSUME NEW items \in Seq(Things)
  PROVE  Drawable(items)
<1> DEFINE S == Int \cup {"[", "]"}
<1>1. Things \subseteq Seq(S)
  <2>1. Vectors \subseteq Seq(S)
    <3>1. Vectors \subseteq [1 .. 3 -> S]
      BY DEF Vectors
    <3> HIDE DEF S
    <3> QED BY <3>1, TriplesAre
  <2>2. OpenBracket \in Seq(S) /\ CloseBracket \in Seq(S)
    BY DEF OpenBracket, CloseBracket
  <2> HIDE DEF S
  <2> QED BY <2>1, <2>2 DEF Things
<1> HIDE DEF S
<1>2. items \in Seq(Seq(S))
  BY <1>1, SeqMonotonic
<1>3. ASSUME NEW n \in DOMAIN items, Len(items[n]) = 3
      PROVE  \A c \in 1 .. 3 : items[n][c] \in Int
  <2>1. items[n] \in Things
    BY ElementOfSeq, LenProperties
  <2>2. Len(OpenBracket) = 1 /\ Len(CloseBracket) = 1
    BY DEF OpenBracket, CloseBracket
  <2>3. items[n] \in Vectors
    BY <1>3, <2>1, <2>2 DEF Things
  <2> QED BY <2>3 DEF Vectors
<1> QED BY <1>2, <1>3 DEF Drawable, IsList

LEMMA RadiusThere == Radius \in Coordinates
<1>1. \A text : stringTo(text) = Bad \/ stringTo(text) \in Int
  BY SmokeTestAssumption DEF stringTo
<1> DEFINE size == stringTo(Attribute(<<"AtomicSize">>))
<1>2. size = Bad \/ size \in Int
  BY <1>1, Zenon
<1>3. Radius = 10 * (IF size = Bad THEN 5 ELSE size)
  BY DEF Radius
<1> HIDE DEF size
<1>4. (IF size = Bad THEN 5 ELSE size) \in Int
  BY <1>2
<1>5. Radius \in Int
  BY <1>3, <1>4
<1> QED BY <1>5 DEF Coordinates

(* Whatever else happens, this happens to Physics.                         *)
LEMMA StepPlaces ==
  ASSUME StringInv, [Next]_vars
  PROVE  [PlacementNext]_placementVars
<1>1. ASSUME NEW m \in Maps, SendMap(m) PROVE UNCHANGED placementVars
  BY <1>1 DEF SendMap
<1>2. ASSUME NEW o \in Stored, StoreSystem(o) PROVE UNCHANGED placementVars
  BY <1>2 DEF StoreSystem
<1>3. ASSUME \/ \E attributes \in Settings : SetAll(attributes)
             \/ \E pair \in Values : SetOne(pair[1], pair[2]) \/ GetOne(pair[1])
             \/ Save \/ Load
      PROVE  UNCHANGED placementVars
  BY <1>3, Zenon DEF SetAll, SetOne, GetOne, Save, Load, Attributes
<1>4. ASSUME NEW list \in Lists, PlaceList(list) PROVE PlacementNext
  <2>1. list.points \in Seq(Seq(Int)) /\ list.radii \in Seq(Int)
    BY SmokeTestAssumption
  <2>2. list.points \in Seq(Items) /\ list.radii \in Seq(Coordinates)
    <3>1. Seq(Int) \subseteq Items /\ Int \subseteq Coordinates
      BY SeqMonotonic DEF Items, Coordinates
    <3> QED BY <2>1, <3>1, SeqMonotonic
  <2>3. AddList(list.points, list.radii)
    BY <1>4 DEF PlaceList
  <2> QED BY <2>2, <2>3 DEF PlacementNext
<1>5. ASSUME NEW levels \in Pointed, PlacePointed(levels) PROVE PlacementNext
  <2>1. AddSystem(levels, Radius) /\ levels \in Given
    BY <1>5 DEF PlacePointed, Given
  <2> QED BY <2>1, RadiusThere DEF PlacementNext
<1>6. ASSUME NEW words \in Systems \cup {loaded.system}, Interpret(words)
      PROVE  UNCHANGED placementVars
  BY <1>6 DEF Interpret
<1>7. ASSUME NEW items \in Strangers, Strange(items) PROVE UNCHANGED placementVars
  BY <1>7 DEF Strange
<1>8. ASSUME Sort PROVE PlacementNext
  <2>1. AddSystem(getPoints(interpretedSystem), Radius)
    BY <1>8 DEF Sort
  <2>2. getPoints(interpretedSystem) \in Given
    BY PointsShelved DEF StringInv, Given
  <2> QED BY <2>1, <2>2, RadiusThere DEF PlacementNext
<1>9. ASSUME PlaceOne PROVE PlacementNext
  BY <1>9 DEF PlaceOne, PlacementNext
<1>10. ASSUME UNCHANGED vars PROVE UNCHANGED placementVars
  BY <1>10 DEF vars
<1> QED BY <1>1, <1>2, <1>3, <1>4, <1>5, <1>6, <1>7, <1>8, <1>9, <1>10 DEF Next

(* Placing leaves alone what is placed. *)
LEMMA PlacingKeeps == Placing => UNCHANGED system
BY DEF Placing, PointerCut, Skip, Place, BranchEnd

LEMMA StringStep ==
  ASSUME StringInv, [Next]_vars
  PROVE  StringInv'
<1> DEFINE text(words) == Interpretation(SystemText(words))
<1>1. ASSUME UNCHANGED <<pc, genes, interpretedSystem, system>>,
             loaded'.system \in Seq(AllWords)
      PROVE  StringInv'
  <2>1. OpenedFirst'
    BY <1>1, Zenon DEF StringInv, OpenedFirst
  <2> QED BY <1>1, <2>1 DEF StringInv
<1>2. ASSUME pc = "set up", UNCHANGED <<pc, genes, interpretedSystem>>,
             loaded'.system \in Seq(AllWords)
      PROVE  StringInv'
  <2>1. OpenedFirst'
    BY <1>2, Zenon DEF StringInv, OpenedFirst
  <2> QED BY <1>2, <2>1 DEF StringInv
<1>3. ASSUME NEW m \in Maps, SendMap(m) PROVE StringInv'
  <2>1. UNCHANGED <<pc, genes, interpretedSystem, loaded>> /\ pc = "set up"
    BY <1>3 DEF SendMap, SetUp, stringVars
  <2> QED BY <1>2, <2>1 DEF StringInv
<1>4. ASSUME NEW o \in Stored, StoreSystem(o) PROVE StringInv'
  <2>1. UNCHANGED <<pc, genes, interpretedSystem>> /\ loaded' = Loaded(o) /\ pc = "set up"
    BY <1>4 DEF StoreSystem, SetUp, stringVars
  <2>2. loaded'.system \in Seq(AllWords)
    BY <2>1, LoadedAssumption
  <2> QED BY <1>2, <2>1, <2>2
<1>5. ASSUME \/ \E attributes \in Settings : SetAll(attributes)
             \/ \E pair \in Values : SetOne(pair[1], pair[2]) \/ GetOne(pair[1])
             \/ Save \/ Load
      PROVE  StringInv'
  <2>1. UNCHANGED <<placementVars, pc, talkVars, stringVars>>
    BY <1>5, Zenon DEF SetAll, SetOne, GetOne, Save, Load, Attributes
  <2>2. UNCHANGED <<pc, genes, interpretedSystem, system, loaded>>
    BY <2>1 DEF placementVars, talkVars, stringVars
  <2> QED BY <1>1, <2>2 DEF StringInv
<1>6. ASSUME \/ \E list \in Lists : PlaceList(list)
             \/ \E levels \in Pointed : PlacePointed(levels)
      PROVE  StringInv'
  <2>1. UNCHANGED <<pc, talkVars, stringVars>> /\ pc = "set up"
    BY <1>6, Zenon DEF PlaceList, PlacePointed, SetUp
  <2>2. UNCHANGED <<pc, genes, interpretedSystem, loaded>> /\ pc = "set up"
    BY <2>1 DEF talkVars, stringVars
  <2> QED BY <1>2, <2>2 DEF StringInv
<1>7. ASSUME NEW words \in Systems \cup {loaded.system}, Interpret(words)
      PROVE  StringInv'
  <2>1. /\ genes' = words /\ interpretedSystem' = text(words) /\ pc' = "interpreted"
        /\ loaded' = loaded
    BY <1>7 DEF Interpret, getSystem, talkVars
  <2>2. words \in Seq(AllWords)
    BY SmokeTestAssumption DEF StringInv
  <2>3. IsSeq(SystemText(words))
    BY <2>2, WordsAre
  <2>4. /\ text(words) \in Seq(Things)
        /\ \A n \in 1 .. Len(text(words)) : Depth(text(words), n) >= 0
    BY <2>3, InterpretationSound
  <2> HIDE DEF text
  <2>5. Drawable(text(words))
    BY <2>4, InterpretationDrawable
  <2>6. \A n \in DOMAIN text(words) : Depth(text(words), n) >= 0
    BY <2>4, LenProperties
  <2>7. OpenedFirst'
    BY <2>1, <2>6, Zenon DEF OpenedFirst
  <2> QED BY <2>1, <2>5, <2>7 DEF StringInv
<1>8. ASSUME NEW items \in Strangers, Strange(items) PROVE StringInv'
  <2>1. /\ genes' = <<>> /\ interpretedSystem' = items /\ pc' = "interpreted"
        /\ loaded' = loaded
    BY <1>8 DEF Strange, talkVars, StringInv
  <2>2. Drawable(items)
    BY StrangersDrawable
  <2>3. OpenedFirst'
    BY <2>1 DEF OpenedFirst
  <2> QED BY <2>1, <2>2, <2>3 DEF StringInv
<1>9. ASSUME Sort PROVE StringInv'
  <2>1. /\ UNCHANGED <<genes, interpretedSystem, loaded>> /\ pc' = "sorted"
        /\ system' = getPoints(interpretedSystem)
    BY <1>9 DEF Sort, AddSystem, Called, talkVars, stringVars
  <2>2. OpenedFirst'
    BY <2>1, Zenon DEF StringInv, OpenedFirst
  <2> QED BY <2>1, <2>2 DEF StringInv
<1>10. ASSUME PlaceOne PROVE StringInv'
  <2>1. UNCHANGED <<pc, genes, interpretedSystem, system, loaded>>
    BY <1>10, PlacingKeeps DEF PlaceOne, talkVars, stringVars
  <2> QED BY <1>1, <2>1 DEF StringInv
<1>11. ASSUME UNCHANGED vars PROVE StringInv'
  <2>1. UNCHANGED <<pc, genes, interpretedSystem, system, loaded>>
    BY <1>11 DEF vars, placementVars, talkVars, stringVars
  <2> QED BY <1>1, <2>1 DEF StringInv
<1> QED BY <1>3, <1>4, <1>5, <1>6, <1>7, <1>8, <1>9, <1>10, <1>11 DEF Next

LEMMA StringInit == Init => StringInv
<1> SUFFICES ASSUME Init PROVE StringInv
  OBVIOUS
<1>1. pc = "set up" /\ genes = <<>> /\ interpretedSystem = <<>> /\ loaded = Fresh
  BY DEF Init
<1>2. loaded.system = <<>>
  BY <1>1 DEF Fresh
<1>3. Drawable(interpretedSystem)
  <2>1. <<>> \in Seq(Seq({})) /\ DOMAIN <<>> = {}
    OBVIOUS
  <2>2. IsList(<<>>)
    BY <2>1, Zenon DEF IsList
  <2> QED BY <1>1, <2>1, <2>2, Zenon DEF Drawable
<1>4. OpenedFirst
  BY <1>1 DEF OpenedFirst
<1>5. loaded.system \in Seq(AllWords)
  <2>1. <<>> \in Seq(AllWords)
    OBVIOUS
  <2> QED BY <1>2, <2>1, Zenon
<1> QED BY <1>1, <1>3, <1>4, <1>5 DEF StringInv

(* Wherever a point is put, it is where the brackets say. *)
LEMMA StringInvSorted ==
  ASSUME StringInv
  PROVE  SortedByDepth
<1> SUFFICES ASSUME pc = "sorted", Moderate, NEW d
             PROVE  AtDepth(d) = IF d \in DOMAIN system THEN system[d] ELSE <<>>
  BY DEF SortedByDepth
<1> DEFINE items == interpretedSystem
<1>1. IsList(items) /\ system = getPoints(items)
  BY DEF StringInv, Drawable
<1>2. \A n \in DOMAIN items :
         /\ Fits(Depth(items, n))
         /\ Len(items[n]) = 3 => \A c \in 1 .. 3 : Abs(items[n][c]) < Million
  BY DEF Moderate, Fits
<1> HIDE DEF items
<1>3. \A e : At(getPoints(items), e) = Here(items, e, Len(items))
  BY <1>1, <1>2, PointsSorted
<1>4. At(system, d) = Here(items, d, Len(items))
  BY <1>1, <1>3
<1>5. DOMAIN items = 1 .. Len(items)
  BY <1>1, LenProperties DEF IsList
<1>6. AtDepth(d) = FlattenSeq([n \in DOMAIN items |-> Alone(items, d, n)])
  BY DEF AtDepth, Alone, items
<1>7. AtDepth(d) = Here(items, d, Len(items))
  BY <1>5, <1>6 DEF Here
<1> QED BY <1>4, <1>7 DEF At

-----------------------------------------------------------------------------
(* The file of attributes *)

LEMMA OneByOne ==
  ASSUME NEW x, NEW y
  PROVE  <<x>> \o <<y>> = <<x, y>>
<1> DEFINE S == {x, y}
           s == <<x>> \o <<y>>
<1>1. <<x>> \in Seq(S) /\ <<y>> \in Seq(S) /\ <<x, y>> \in Seq(S)
  OBVIOUS
<1>2. /\ Len(<<x>>) = 1 /\ Len(<<y>>) = 1 /\ <<x>>[1] = x /\ <<y>>[1] = y
      /\ Len(<<x, y>>) = 2 /\ <<x, y>>[1] = x /\ <<x, y>>[2] = y
  OBVIOUS
<1>3. /\ s \in Seq(S) /\ Len(s) = 2
      /\ \A n \in 1 .. 2 : s[n] = IF n <= 1 THEN <<x>>[n] ELSE <<y>>[n - 1]
  <2>1. /\ s \in Seq(S) /\ Len(s) = Len(<<x>>) + Len(<<y>>)
        /\ \A n \in 1 .. Len(<<x>>) + Len(<<y>>) :
              s[n] = IF n <= Len(<<x>>) THEN <<x>>[n] ELSE <<y>>[n - Len(<<x>>)]
    BY <1>1, ConcatProperties
  <2> HIDE DEF s
  <2> QED BY <1>2, <2>1
<1> HIDE DEF s
<1>4. s[1] = x /\ s[2] = y
  BY <1>2, <1>3
<1>5. \A n \in 1 .. 2 : s[n] = <<x, y>>[n]
  BY <1>2, <1>4
<1>6. s = <<x, y>>
  BY <1>1, <1>2, <1>3, <1>5, SeqEqual
<1> QED BY <1>6 DEF s

(* A name and its value, if there is one *)
NamedBy(attributes, n) ==
    IF Keys[n] \in DOMAIN attributes THEN <<Keys[n], attributes[Keys[n]]>> ELSE <<>>
Odd(words) == {n \in DOMAIN words : n % 2 = 1}

(* The names are where a reader looks for names, and their values behind.  *)
InPairs(words, attributes) ==
    /\ Len(words) \in Nat /\ Len(words) % 2 = 0 /\ DOMAIN words = 1 .. Len(words)
    /\ \A n \in Odd(words) :
          words[n] \in DOMAIN attributes /\ n < Len(words) /\ words[n + 1] = attributes[words[n]]

(* As many pairs as there were, and one more *)
Extends(more, words, attributes, T, k) ==
    /\ more \in Seq(T) /\ InPairs(more, attributes)
    /\ \A n \in Odd(words) : n \in Odd(more) /\ more[n] = words[n]
    /\ \E n \in Odd(more) : more[n] = k

LEMMA PairComes ==
  ASSUME NEW T, NEW words \in Seq(T), NEW attributes, InPairs(words, attributes),
         NEW k \in DOMAIN attributes, k \in T, attributes[k] \in T
  PROVE  Extends(words \o <<k, attributes[k]>>, words, attributes, T, k)
<1> DEFINE pair == <<k, attributes[k]>>
           more == words \o pair
           l == Len(words)
<1>1. l \in Nat /\ l % 2 = 0 /\ DOMAIN words = 1 .. l
  BY DEF InPairs
<1>2. pair \in Seq(T) /\ Len(pair) = 2 /\ pair[1] = k /\ pair[2] = attributes[k]
  OBVIOUS
<1> HIDE DEF pair
<1>3. /\ more \in Seq(T) /\ Len(more) = l + 2
      /\ \A n \in 1 .. l : more[n] = words[n]
      /\ \A n \in l + 1 .. l + 2 : more[n] = pair[n - l]
  <2>1. /\ more \in Seq(T) /\ Len(more) = l + Len(pair)
        /\ \A n \in 1 .. l + Len(pair) : more[n] = IF n <= l THEN words[n] ELSE pair[n - l]
    BY <1>2, ConcatProperties
  <2> HIDE DEF more, l
  <2>2. Len(more) = l + 2
    BY <1>2, <2>1
  <2>3. ASSUME NEW n \in 1 .. l PROVE more[n] = words[n]
    <3>1. n \in 1 .. l + Len(pair) /\ n <= l
      BY <1>1, <1>2
    <3> QED BY <2>1, <3>1
  <2>4. ASSUME NEW n \in l + 1 .. l + 2 PROVE more[n] = pair[n - l]
    <3>1. n \in 1 .. l + Len(pair) /\ ~(n <= l)
      BY <1>1, <1>2
    <3> QED BY <2>1, <3>1
  <2> QED BY <2>1, <2>2, <2>3, <2>4
<1>4. DOMAIN more = 1 .. l + 2
  BY <1>3, LenProperties
<1> HIDE DEF more, l
<1>5. more[l + 1] = k /\ more[l + 2] = attributes[k]
  <2>1. \A n \in l + 1 .. l + 2 : more[n] = pair[n - l]
    BY <1>3
  <2>2. \A n \in l + 1 .. l + 2 : n = l + 1 => more[n] = k
    <3> TAKE n \in l + 1 .. l + 2
    <3> HAVE n = l + 1
    <3>1. n - l = 1
      BY <1>1
    <3> QED BY <1>2, <2>1, <3>1, Zenon
  <2>3. \A n \in l + 1 .. l + 2 : n = l + 2 => more[n] = attributes[k]
    <3> TAKE n \in l + 1 .. l + 2
    <3> HAVE n = l + 2
    <3>1. n - l = 2
      BY <1>1
    <3> QED BY <1>2, <2>1, <3>1, Zenon
  <2>4. l + 1 \in l + 1 .. l + 2 /\ l + 2 \in l + 1 .. l + 2
    BY <1>1
  <2> QED BY <2>2, <2>3, <2>4, Zenon
<1>6. Len(more) \in Nat /\ Len(more) % 2 = 0 /\ (l + 1) % 2 = 1 /\ l + 1 < Len(more)
  BY <1>1, <1>3
<1>7. l + 1 \in Odd(more)
  BY <1>1, <1>4, <1>6 DEF Odd
<1>8. \A n \in Odd(words) : n \in Odd(more) /\ more[n] = words[n]
  BY <1>1, <1>3, <1>4 DEF Odd
<1>9. ASSUME NEW n \in Odd(more)
      PROVE  more[n] \in DOMAIN attributes /\ n < Len(more) /\ more[n + 1] = attributes[more[n]]
  <2>1. n \in 1 .. l + 2 /\ n % 2 = 1
    BY <1>4 DEF Odd
  <2>2. CASE n \in 1 .. l
    <3>1. n \in Odd(words)
      BY <1>1, <2>1, <2>2 DEF Odd
    <3>2. words[n] \in DOMAIN attributes /\ n < l /\ words[n + 1] = attributes[words[n]]
      BY <3>1 DEF InPairs, l
    <3>3. n + 1 \in 1 .. l /\ n < Len(more)
      BY <1>1, <1>3, <2>2, <3>2
    <3> QED BY <1>3, <2>2, <3>2, <3>3
  <2>3. CASE n \notin 1 .. l
    <3>1. n = l + 1
      BY <1>1, <2>1, <2>3
    <3>2. n + 1 = l + 2
      BY <1>1, <3>1
    <3> QED BY <1>5, <1>6, <3>1, <3>2
  <2> QED BY <2>2, <2>3
<1>10. InPairs(more, attributes)
  BY <1>3, <1>4, <1>6, <1>9 DEF InPairs
<1>11. Extends(more, words, attributes, T, k)
  BY <1>3, <1>5, <1>7, <1>8, <1>10 DEF Extends
<1> QED BY <1>11 DEF more, pair

LEMMA FileInPairs ==
  ASSUME NEW attributes, OneWord(attributes)
  PROVE  /\ InPairs(FileOf(attributes), attributes)
         /\ \A k \in DOMAIN attributes :
               \E n \in Odd(FileOf(attributes)) : FileOf(attributes)[n] = k
<1> DEFINE T == DOMAIN attributes \cup {attributes[k] : k \in DOMAIN attributes}
           l == Len(Keys)
           W(n) == FlattenSeq([m \in 1 .. n |-> NamedBy(attributes, m)])
           Paired(n) == /\ W(n) \in Seq(T) /\ InPairs(W(n), attributes)
                         /\ \A m \in 1 .. n : Keys[m] \in DOMAIN attributes =>
                               \E p \in Odd(W(n)) : W(n)[p] = Keys[m]
<1>1. l \in Nat /\ DOMAIN Keys = 1 .. l
  BY GenericAssumption, SequencesAre
<1>2. \A m : NamedBy(attributes, m) \in Seq(T)
  <2> TAKE m
  <2>1. CASE Keys[m] \in DOMAIN attributes
    <3>1. Keys[m] \in T /\ attributes[Keys[m]] \in T
      BY <2>1
    <3> HIDE DEF T
    <3> QED BY <2>1, <3>1 DEF NamedBy
  <2>2. CASE Keys[m] \notin DOMAIN attributes
    BY <2>2 DEF NamedBy
  <2> QED BY <2>1, <2>2
<1>3. W(0) = <<>>
  <2>1. [m \in 1 .. 0 |-> NamedBy(attributes, m)] = <<>>
    OBVIOUS
  <2> QED BY <2>1, FlattenNothing
<1>4. ASSUME NEW n \in Nat \ {0}
      PROVE  W(n - 1) \in Seq(T) /\ W(n) = W(n - 1) \o NamedBy(attributes, n)
  <2> DEFINE f == [m \in 1 .. n |-> NamedBy(attributes, m)]
             g == [m \in 1 .. n - 1 |-> f[m]]
  <2>1. g = [m \in 1 .. n - 1 |-> NamedBy(attributes, m)] /\ f[n] = NamedBy(attributes, n)
    OBVIOUS
  <2> HIDE DEF T
  <2>2. f \in [1 .. n -> Seq(T)]
    BY <1>2
  <2>3. g \in Seq(Seq(T)) /\ f[n] \in Seq(T) /\ f = Append(g, f[n])
    <3> HIDE DEF f
    <3> QED BY <2>2, LastOne
  <2>4. W(n) = FlattenSeq(f) /\ W(n - 1) = FlattenSeq(g)
    BY <2>1
  <2> HIDE DEF f, g, W
  <2>5. FlattenSeq(g) \in Seq(T) /\ FlattenSeq(Append(g, f[n])) = FlattenSeq(g) \o f[n]
    BY <2>3, FlattenOne
  <2> QED BY <2>1, <2>3, <2>4, <2>5
<1> HIDE DEF T, W
<1>5. Paired(0)
  <2>1. <<>> \in Seq(T) /\ DOMAIN <<>> = {} /\ Len(<<>>) = 0
    OBVIOUS
  <2>2. Odd(<<>>) = {}
    BY <2>1 DEF Odd
  <2>3. InPairs(<<>>, attributes)
    BY <2>1, <2>2 DEF InPairs
  <2>4. 1 .. 0 = {}
    OBVIOUS
  <2> QED BY <1>3, <2>1, <2>3, <2>4, Zenon
<1>6. ASSUME NEW n \in Nat \ {0}, n <= l, Paired(n - 1)
      PROVE  Paired(n)
  <2>1. /\ W(n - 1) \in Seq(T) /\ InPairs(W(n - 1), attributes)
        /\ \A m \in 1 .. n - 1 : Keys[m] \in DOMAIN attributes =>
              \E p \in Odd(W(n - 1)) : W(n - 1)[p] = Keys[m]
    BY <1>6
  <2>2. W(n) = W(n - 1) \o NamedBy(attributes, n)
    BY <1>4
  <2>3. CASE Keys[n] \notin DOMAIN attributes
    <3>1. NamedBy(attributes, n) = <<>>
      BY <2>3 DEF NamedBy
    <3>2. W(n) = W(n - 1)
      BY <2>1, <2>2, <3>1, ConcatEmptySeq
    <3>3. \A m \in 1 .. n : Keys[m] \in DOMAIN attributes => m \in 1 .. n - 1
      BY <2>3
    <3> QED BY <2>1, <3>2, <3>3
  <2>4. CASE Keys[n] \in DOMAIN attributes
    <3> DEFINE k == Keys[n]
    <3>1. W(n) = W(n - 1) \o <<k, attributes[k]>>
      BY <2>2, <2>4 DEF NamedBy
    <3>2. k \in T /\ attributes[k] \in T
      BY <2>4 DEF T
    <3> HIDE DEF k
    <3>3. k \in DOMAIN attributes
      BY <2>4 DEF k
    <3>4. Extends(W(n - 1) \o <<k, attributes[k]>>, W(n - 1), attributes, T, k)
      BY <2>1, <3>2, <3>3, PairComes
    <3>5. /\ W(n) \in Seq(T) /\ InPairs(W(n), attributes)
          /\ \A p \in Odd(W(n - 1)) : p \in Odd(W(n)) /\ W(n)[p] = W(n - 1)[p]
          /\ \E p \in Odd(W(n)) : W(n)[p] = k
      BY <3>1, <3>4, Zenon DEF Extends
    <3>6. ASSUME NEW m \in 1 .. n, Keys[m] \in DOMAIN attributes
          PROVE  \E p \in Odd(W(n)) : W(n)[p] = Keys[m]
      <4>1. CASE m = n
        BY <3>5, <4>1 DEF k
      <4>2. CASE m # n
        <5>1. m \in 1 .. n - 1
          BY <4>2
        <5>2. PICK p \in Odd(W(n - 1)) : W(n - 1)[p] = Keys[m]
          BY <2>1, <3>6, <5>1
        <5> QED BY <3>5, <5>2
      <4> QED BY <4>1, <4>2
    <3> QED BY <3>5, <3>6
  <2> QED BY <2>3, <2>4
<1> HIDE DEF Paired
<1>7. Paired(l)
  <2> DEFINE V == {n \in Nat : n <= l /\ ~Paired(n)}
  <2>1. SUFFICES ASSUME V # {} PROVE FALSE
    BY <1>1
  <2>2. PICK n \in V : \A m \in V : n <= m
    <3>1. V \in SUBSET Nat
      OBVIOUS
    <3> HIDE DEF V
    <3> QED BY <2>1, <3>1, LeastNatural
  <2>3. n \in Nat \ {0} /\ n <= l /\ n - 1 \in Nat /\ n - 1 <= l
    <3>1. n # 0
      BY <1>5, <2>2
    <3> QED BY <1>1, <2>2, <3>1
  <2>4. n - 1 \notin V
    <3> HIDE DEF V
    <3> QED BY <2>2, <2>3
  <2>5. Paired(n - 1)
    BY <2>3, <2>4
  <2>6. Paired(n)
    BY <1>6, <2>3, <2>5
  <2> QED BY <2>2, <2>6
<1>8. FileOf(attributes) = W(l)
  <2>1. \A n \in DOMAIN Keys :
           (IF Keys[n] \in DOMAIN attributes THEN <<Keys[n]>> \o Words(attributes[Keys[n]]) ELSE <<>>)
              = NamedBy(attributes, n)
    <3> TAKE n \in DOMAIN Keys
    <3>1. CASE Keys[n] \in DOMAIN attributes
      <4>1. Words(attributes[Keys[n]]) = <<attributes[Keys[n]]>>
        BY <3>1 DEF OneWord
      <4>2. <<Keys[n]>> \o <<attributes[Keys[n]]>> = <<Keys[n], attributes[Keys[n]]>>
        BY OneByOne
      <4> QED BY <3>1, <4>1, <4>2 DEF NamedBy
    <3>2. CASE Keys[n] \notin DOMAIN attributes
      BY <3>2 DEF NamedBy
    <3> QED BY <3>1, <3>2
  <2>2. [n \in DOMAIN Keys |-> IF Keys[n] \in DOMAIN attributes
                               THEN <<Keys[n]>> \o Words(attributes[Keys[n]]) ELSE <<>>]
          = [n \in 1 .. l |-> NamedBy(attributes, n)]
    BY <1>1, <2>1
  <2> QED BY <2>2 DEF FileOf, W
<1>9. \A k \in DOMAIN attributes : \E m \in 1 .. l : Keys[m] = k
  BY <1>1 DEF OneWord, ToSet
<1>10. /\ InPairs(W(l), attributes)
       /\ \A m \in 1 .. l : Keys[m] \in DOMAIN attributes => \E p \in Odd(W(l)) : W(l)[p] = Keys[m]
  BY <1>7 DEF Paired
<1> QED BY <1>8, <1>9, <1>10

(* What is in the file is what was saved. *)
FileInv == file = FileOf(saved)

LEMMA LoadsPairs ==
  ASSUME FileInv, OneWord(saved), loadAttributes, NEW k \in DOMAIN saved
  PROVE  systemAttributes'[k] = saved[k]
<1> DEFINE names == {n \in DOMAIN file : n % 2 = 1}
           last(j) == CHOOSE n \in names : file[n] = j /\ \A m \in names : file[m] = j => m <= n
           newline == file # <<>> /\ Len(file) % 2 = 0
           D == DOMAIN systemAttributes \cup {file[n] : n \in names}
                     \cup (IF newline THEN {<<>>} ELSE {})
<1>1. /\ InPairs(file, saved)
      /\ \E n \in Odd(file) : file[n] = k
  BY FileInPairs DEF FileInv
<1>2. names = Odd(file)
  BY DEF Odd
<1>3. systemAttributes' =
             [j \in D |->
                 IF \E n \in names : file[n] = j
                 THEN IF last(j) < Len(file) THEN file[last(j) + 1] ELSE <<>>
                 ELSE IF j = <<>> /\ newline THEN <<>> ELSE systemAttributes[j]]
  BY DEF loadAttributes
<1>4. k \in D /\ \E n \in names : file[n] = k
  BY <1>1, <1>2
<1>5. last(k) \in names /\ file[last(k)] = k
  <2> DEFINE s == {n \in names : file[n] = k}
             l == Len(file)
  <2>1. l \in Nat /\ s \in SUBSET (1 .. l) /\ s # {}
    BY <1>1, <1>4 DEF InPairs
  <2>2. Max(s) \in s /\ \A m \in s : m <= Max(s)
    <3> HIDE DEF s, l
    <3> QED BY <2>1, Greatest
  <2>3. \E n \in names : file[n] = k /\ \A m \in names : file[m] = k => m <= n
    BY <2>2
  <2> HIDE DEF names, s, l
  <2> QED BY <2>3
<1>6. last(k) < Len(file) /\ file[last(k) + 1] = saved[k]
  <2> HIDE DEF last
  <2> QED BY <1>1, <1>2, <1>5 DEF InPairs
<1>7. systemAttributes'[k] = IF last(k) < Len(file) THEN file[last(k) + 1] ELSE <<>>
  <2> HIDE DEF names, last, newline, D
  <2> QED BY <1>3, <1>4
<1> HIDE DEF last, names
<1> QED BY <1>6, <1>7

-----------------------------------------------------------------------------
(* The sections of a file *)

(* keyValuePairs goes through the tokens in their order. *)

NoSection == [section |-> "", pairs |-> Nothing]
ReadsTokens(f, tokens, n) ==
    f = [s \in SUBSET (1 .. n) |->
            IF s = {} THEN NoSection ELSE ReadToken(f[s \ {Max(s)}], tokens[Max(s)])]

LEMMA ReadsTokensExists ==
  ASSUME NEW tokens, NEW n \in Nat
  PROVE  \E f : ReadsTokens(f, tokens, n)
<1> DEFINE T == {m \in Nat : ~ \E f : ReadsTokens(f, tokens, m)}
<1> SUFFICES ASSUME T # {} PROVE FALSE
  OBVIOUS
<1>1. PICK m \in T : \A l \in T : m <= l
  <2>1. T \in SUBSET Nat
    OBVIOUS
  <2> HIDE DEF T
  <2> QED BY <2>1, LeastNatural
<1>2. CASE m = 0
  <2> DEFINE f == [s \in SUBSET (1 .. 0) |-> NoSection]
  <2>1. SUBSET (1 .. 0) = {{}}
    OBVIOUS
  <2>2. ReadsTokens(f, tokens, 0)
    BY <2>1, Zenon DEF ReadsTokens
  <2> QED BY <1>1, <1>2, <2>2
<1>3. CASE m # 0
  <2>1. m \in Nat /\ m - 1 \in Nat /\ ~(m <= m - 1)
    BY <1>1, <1>3
  <2>2. m - 1 \notin T
    <3> HIDE DEF T
    <3> QED BY <1>1, <2>1
  <2>3. PICK f : ReadsTokens(f, tokens, m - 1)
    BY <2>1, <2>2
  <2> DEFINE g == [s \in SUBSET (1 .. m) |->
                      IF m \in s THEN ReadToken(f[s \ {m}], tokens[m]) ELSE f[s]]
  <2>4. ASSUME NEW s \in SUBSET (1 .. m)
        PROVE  g[s] = IF s = {} THEN NoSection ELSE ReadToken(g[s \ {Max(s)}], tokens[Max(s)])
    <3>1. CASE m \in s
      <4>1. Max(s) = m /\ s # {}
        BY <2>1, <3>1, Greatest
      <4>2. s \ {m} \in SUBSET (1 .. m) /\ m \notin s \ {m}
        OBVIOUS
      <4>3. g[s \ {m}] = f[s \ {m}]
        BY <4>2
      <4> QED BY <3>1, <4>1, <4>3
    <3>2. CASE m \notin s
      <4>1. s \in SUBSET (1 .. m - 1) /\ g[s] = f[s]
        BY <2>1, <3>2
      <4>2. g[s] = IF s = {} THEN NoSection ELSE ReadToken(f[s \ {Max(s)}], tokens[Max(s)])
        BY <2>3, <4>1, Zenon DEF ReadsTokens
      <4>3. s \ {Max(s)} \in SUBSET (1 .. m) /\ m \notin s \ {Max(s)}
        BY <3>2
      <4>4. g[s \ {Max(s)}] = f[s \ {Max(s)}]
        BY <4>3
      <4> QED BY <4>2, <4>4
    <3> QED BY <3>1, <3>2
  <2>5. DOMAIN g = SUBSET (1 .. m) /\ g = [s \in SUBSET (1 .. m) |-> g[s]]
    OBVIOUS
  <2> HIDE DEF g
  <2>6. ReadsTokens(g, tokens, m)
    BY <2>4, <2>5, Zenon DEF ReadsTokens
  <2> QED BY <1>1, <2>6
<1> QED BY <1>2, <1>3

LEMMA TokensInOrder ==
  ASSUME NEW tokens, NEW l \in Nat, DOMAIN tokens = 1 .. l
  PROVE  \E G : /\ G[0] = NoSection
                /\ \A n \in 1 .. l : G[n] = ReadToken(G[n - 1], tokens[n])
                /\ FoldLeft(ReadToken, NoSection, tokens) = G[l]
<1> DEFINE iter == CHOOSE f : ReadsTokens(f, tokens, l)
<1>1. FoldLeft(ReadToken, NoSection, tokens) = iter[1 .. l]
  BY DEF FoldLeft, MapThenFoldSet, ReadsTokens
<1>2. ReadsTokens(iter, tokens, l)
  BY ReadsTokensExists
<1> HIDE DEF iter
<1>3. \A s \in SUBSET (1 .. l) :
         iter[s] = IF s = {} THEN NoSection ELSE ReadToken(iter[s \ {Max(s)}], tokens[Max(s)])
  BY <1>2, Zenon DEF ReadsTokens
<1> DEFINE G == [n \in 0 .. l |-> iter[1 .. n]]
<1>4. G[0] = NoSection /\ G[l] = iter[1 .. l]
  <2>1. 1 .. 0 = {} /\ {} \in SUBSET (1 .. l) /\ 0 \in 0 .. l /\ l \in 0 .. l
    OBVIOUS
  <2> QED BY <1>3, <2>1
<1>5. ASSUME NEW n \in 1 .. l PROVE G[n] = ReadToken(G[n - 1], tokens[n])
  <2>1. 1 .. n \in SUBSET (1 .. l) /\ n \in 1 .. n /\ n \in Nat
    OBVIOUS
  <2>2. Max(1 .. n) = n
    BY <2>1, Greatest
  <2>3. (1 .. n) \ {n} = 1 .. n - 1
    OBVIOUS
  <2>4. iter[1 .. n] = ReadToken(iter[1 .. n - 1], tokens[n])
    BY <1>3, <2>1, <2>2, <2>3
  <2> QED BY <2>4
<1> HIDE DEF G
<1> QED BY <1>1, <1>4, <1>5

(* initialize goes through the rules in their order. *)

AddsRules(f, list, n) ==
    f = [s \in SUBSET (1 .. n) |->
            IF s = {} THEN Nothing ELSE Rule(f[s \ {Max(s)}], list[Max(s)])]

LEMMA AddsRulesExists ==
  ASSUME NEW list, NEW n \in Nat
  PROVE  \E f : AddsRules(f, list, n)
<1> DEFINE T == {m \in Nat : ~ \E f : AddsRules(f, list, m)}
<1> SUFFICES ASSUME T # {} PROVE FALSE
  OBVIOUS
<1>1. PICK m \in T : \A l \in T : m <= l
  <2>1. T \in SUBSET Nat
    OBVIOUS
  <2> HIDE DEF T
  <2> QED BY <2>1, LeastNatural
<1>2. CASE m = 0
  <2> DEFINE f == [s \in SUBSET (1 .. 0) |-> Nothing]
  <2>1. SUBSET (1 .. 0) = {{}}
    OBVIOUS
  <2>2. AddsRules(f, list, 0)
    BY <2>1, Zenon DEF AddsRules
  <2> QED BY <1>1, <1>2, <2>2
<1>3. CASE m # 0
  <2>1. m \in Nat /\ m - 1 \in Nat /\ ~(m <= m - 1)
    BY <1>1, <1>3
  <2>2. m - 1 \notin T
    <3> HIDE DEF T
    <3> QED BY <1>1, <2>1
  <2>3. PICK f : AddsRules(f, list, m - 1)
    BY <2>1, <2>2
  <2> DEFINE g == [s \in SUBSET (1 .. m) |->
                      IF m \in s THEN Rule(f[s \ {m}], list[m]) ELSE f[s]]
  <2>4. ASSUME NEW s \in SUBSET (1 .. m)
        PROVE  g[s] = IF s = {} THEN Nothing ELSE Rule(g[s \ {Max(s)}], list[Max(s)])
    <3>1. CASE m \in s
      <4>1. Max(s) = m /\ s # {}
        BY <2>1, <3>1, Greatest
      <4>2. s \ {m} \in SUBSET (1 .. m) /\ m \notin s \ {m}
        OBVIOUS
      <4>3. g[s \ {m}] = f[s \ {m}]
        BY <4>2
      <4> QED BY <3>1, <4>1, <4>3
    <3>2. CASE m \notin s
      <4>1. s \in SUBSET (1 .. m - 1) /\ g[s] = f[s]
        BY <2>1, <3>2
      <4>2. g[s] = IF s = {} THEN Nothing ELSE Rule(f[s \ {Max(s)}], list[Max(s)])
        BY <2>3, <4>1, Zenon DEF AddsRules
      <4>3. s \ {Max(s)} \in SUBSET (1 .. m) /\ m \notin s \ {Max(s)}
        BY <3>2
      <4>4. g[s \ {Max(s)}] = f[s \ {Max(s)}]
        BY <4>3
      <4> QED BY <4>2, <4>4
    <3> QED BY <3>1, <3>2
  <2>5. DOMAIN g = SUBSET (1 .. m) /\ g = [s \in SUBSET (1 .. m) |-> g[s]]
    OBVIOUS
  <2> HIDE DEF g
  <2>6. AddsRules(g, list, m)
    BY <2>4, <2>5, Zenon DEF AddsRules
  <2> QED BY <1>1, <2>6
<1> QED BY <1>2, <1>3

LEMMA RulesInOrder ==
  ASSUME NEW list, NEW l \in Nat, DOMAIN list = 1 .. l
  PROVE  \E G : /\ G[0] = Nothing
                /\ \A n \in 1 .. l : G[n] = Rule(G[n - 1], list[n])
                /\ FoldLeft(Rule, Nothing, list) = G[l]
<1> DEFINE iter == CHOOSE f : AddsRules(f, list, l)
<1>1. FoldLeft(Rule, Nothing, list) = iter[1 .. l]
  BY DEF FoldLeft, MapThenFoldSet, AddsRules
<1>2. AddsRules(iter, list, l)
  BY AddsRulesExists
<1> HIDE DEF iter
<1>3. \A s \in SUBSET (1 .. l) :
         iter[s] = IF s = {} THEN Nothing ELSE Rule(iter[s \ {Max(s)}], list[Max(s)])
  BY <1>2, Zenon DEF AddsRules
<1> DEFINE G == [n \in 0 .. l |-> iter[1 .. n]]
<1>4. G[0] = Nothing /\ G[l] = iter[1 .. l]
  <2>1. 1 .. 0 = {} /\ {} \in SUBSET (1 .. l) /\ 0 \in 0 .. l /\ l \in 0 .. l
    OBVIOUS
  <2> QED BY <1>3, <2>1
<1>5. ASSUME NEW n \in 1 .. l PROVE G[n] = Rule(G[n - 1], list[n])
  <2>1. 1 .. n \in SUBSET (1 .. l) /\ n \in 1 .. n /\ n \in Nat
    OBVIOUS
  <2>2. Max(1 .. n) = n
    BY <2>1, Greatest
  <2>3. (1 .. n) \ {n} = 1 .. n - 1
    OBVIOUS
  <2>4. iter[1 .. n] = Rule(iter[1 .. n - 1], list[n])
    BY <1>3, <2>1, <2>2, <2>3
  <2> QED BY <2>4
<1> HIDE DEF G
<1> QED BY <1>1, <1>4, <1>5

LEMMA FoldTokens ==
  ASSUME NEW T, NEW tokens \in Seq(T), NEW token \in T
  PROVE  FoldLeft(ReadToken, NoSection, Append(tokens, token))
           = ReadToken(FoldLeft(ReadToken, NoSection, tokens), token)
<1> DEFINE l == Len(tokens)
           more == Append(tokens, token)
<1>1. /\ l \in Nat /\ DOMAIN tokens = 1 .. l /\ DOMAIN more = 1 .. l + 1
      /\ more[l + 1] = token /\ \A n \in 1 .. l : more[n] = tokens[n]
  BY LenProperties, AppendProperties
<1>2. PICK G : /\ G[0] = NoSection
               /\ \A n \in 1 .. l : G[n] = ReadToken(G[n - 1], tokens[n])
               /\ FoldLeft(ReadToken, NoSection, tokens) = G[l]
  BY <1>1, TokensInOrder
<1> HIDE DEF more
<1>3. PICK H : /\ H[0] = NoSection
               /\ \A n \in 1 .. l + 1 : H[n] = ReadToken(H[n - 1], more[n])
               /\ FoldLeft(ReadToken, NoSection, more) = H[l + 1]
  <2> DEFINE k == l + 1
  <2>1. k \in Nat /\ DOMAIN more = 1 .. k
    BY <1>1
  <2> HIDE DEF k
  <2>2. \E H : /\ H[0] = NoSection
               /\ \A n \in 1 .. k : H[n] = ReadToken(H[n - 1], more[n])
               /\ FoldLeft(ReadToken, NoSection, more) = H[k]
    BY ONLY <2>1, TokensInOrder
  <2> QED BY ONLY <2>2, Zenon DEF k
<1> DEFINE D == {n \in Nat : n <= l /\ H[n] # G[n]}
<1>4. D = {}
  <2> SUFFICES ASSUME D # {} PROVE FALSE
    OBVIOUS
  <2>1. PICK n : n \in D /\ \A m \in D : n <= m
    <3>1. D \in SUBSET Nat
      OBVIOUS
    <3> HIDE DEF D
    <3> QED BY <3>1, LeastNatural
  <2>2. n \in Nat /\ n <= l /\ H[n] # G[n]
    BY <2>1
  <2>3. n # 0
    BY <1>2, <1>3, <2>2
  <2>4. n - 1 \in Nat /\ n - 1 <= l /\ ~(n <= n - 1) /\ n \in 1 .. l /\ n \in 1 .. l + 1
    BY <1>1, <2>2, <2>3
  <2>5. n - 1 \notin D
    <3> HIDE DEF D
    <3> QED BY <2>1, <2>4
  <2>6. H[n - 1] = G[n - 1]
    BY <2>4, <2>5
  <2>7. H[n] = ReadToken(H[n - 1], more[n]) /\ G[n] = ReadToken(G[n - 1], tokens[n]) /\ more[n] = tokens[n]
    BY <1>1, <1>2, <1>3, <2>4
  <2> QED BY ONLY <2>2, <2>6, <2>7, Zenon
<1>5. H[l] = G[l]
  BY <1>1, <1>4
<1>6. H[l + 1] = ReadToken(H[l], more[l + 1])
  <2>1. l + 1 \in 1 .. l + 1 /\ (l + 1) - 1 = l
    BY <1>1
  <2>2. H[l + 1] = ReadToken(H[(l + 1) - 1], more[l + 1])
    BY <1>3, <2>1
  <2> QED BY ONLY <2>1, <2>2, Zenon
<1> QED BY ONLY <1>1, <1>2, <1>3, <1>5, <1>6, Zenon DEF more

(* A text without comments is left as it is. *)
LEMMA OneByOneFlat ==
  ASSUME NEW S, NEW s \in Seq(S)
  PROVE  FlattenSeq([n \in DOMAIN s |-> <<s[n]>>]) = s
<1> DEFINE l == Len(s)
           ss == [n \in DOMAIN s |-> <<s[n]>>]
           t == FlattenSeq(ss)
<1>1. l \in Nat /\ DOMAIN s = 1 .. l /\ \A n \in 1 .. l : s[n] \in S
  BY LenProperties, ElementOfSeq
<1>2. /\ ss \in Seq(Seq(S)) /\ Len(ss) = l
      /\ \A n \in 1 .. l : Len(ss[n]) = 1 /\ ss[n][1] = s[n]
  <2>1. ss \in [1 .. l -> Seq(S)]
    BY <1>1
  <2>2. \A n \in 1 .. l : Len(ss[n]) = 1 /\ ss[n][1] = s[n]
    BY <1>1
  <2> HIDE DEF ss
  <2> QED BY <1>1, <2>1, <2>2
<1> HIDE DEF ss
<1>3. t \in Seq(S) /\ \E q : Places(ss, Len(ss), t, q)
  BY <1>2, FlattenPlaces
<1> HIDE DEF t
<1>4. PICK q : Places(ss, l, t, q)
  BY <1>2, <1>3
<1>5. /\ q \in [0 .. l -> 0 .. Len(t)] /\ q[0] = 0 /\ q[l] = Len(t)
      /\ \A m \in 1 .. l : q[m] = q[m - 1] + 1 /\ t[q[m - 1] + 1] = s[m]
  <2>1. /\ q \in [0 .. l -> 0 .. Len(t)] /\ q[0] = 0 /\ q[l] = Len(t)
        /\ \A m \in 1 .. l : /\ q[m] = q[m - 1] + Len(ss[m])
                             /\ \A k \in 1 .. Len(ss[m]) : t[q[m - 1] + k] = ss[m][k]
    BY <1>4, Zenon DEF Places
  <2>2. ASSUME NEW m \in 1 .. l PROVE q[m] = q[m - 1] + 1 /\ t[q[m - 1] + 1] = s[m]
    <3>1. Len(ss[m]) = 1 /\ ss[m][1] = s[m] /\ 1 \in 1 .. 1
      BY <1>2
    <3>2. q[m] = q[m - 1] + Len(ss[m]) /\ \A k \in 1 .. Len(ss[m]) : t[q[m - 1] + k] = ss[m][k]
      BY <2>1
    <3> QED BY ONLY <3>1, <3>2, Zenon
  <2> QED BY ONLY <2>1, <2>2, Zenon
<1> DEFINE D == {n \in Nat : n <= l /\ q[n] # n}
<1>6. D = {}
  <2> SUFFICES ASSUME D # {} PROVE FALSE
    OBVIOUS
  <2>1. PICK n : n \in D /\ \A m \in D : n <= m
    <3>1. D \in SUBSET Nat
      OBVIOUS
    <3> HIDE DEF D
    <3> QED BY <3>1, LeastNatural
  <2>2. n \in Nat /\ n <= l /\ q[n] # n
    BY <2>1
  <2>3. n # 0
    BY <1>5, <2>2
  <2>4. n - 1 \in Nat /\ n - 1 <= l /\ ~(n <= n - 1) /\ n \in 1 .. l
    BY <1>1, <2>2, <2>3
  <2>5. n - 1 \notin D
    <3> HIDE DEF D
    <3> QED BY <2>1, <2>4
  <2>6. q[n - 1] = n - 1
    BY <2>4, <2>5
  <2>7. q[n] = q[n - 1] + 1
    BY <1>5, <2>4
  <2> QED BY <2>2, <2>6, <2>7
<1>7. \A n \in 0 .. l : q[n] = n
  BY <1>6
<1>8. Len(t) = l
  BY <1>1, <1>5, <1>7
<1>9. ASSUME NEW n \in 1 .. l PROVE t[n] = s[n]
  <2>1. q[n - 1] = n - 1 /\ (n - 1) + 1 = n
    BY <1>1, <1>7
  <2>2. t[q[n - 1] + 1] = s[n]
    BY <1>5
  <2> QED BY ONLY <2>1, <2>2, Zenon
<1>10. t = s
  <2>1. s \in Seq(S) /\ Len(t) = Len(s) /\ \A n \in 1 .. Len(t) : t[n] = s[n]
    BY <1>8, <1>9
  <2> QED BY ONLY <1>3, <2>1, SeqEqual
<1> QED BY <1>10 DEF t, ss

LEMMA NoComments ==
  ASSUME NEW S, NEW text \in Seq(S), \A n \in 1 .. Len(text) : text[n] # "#"
  PROVE  stripComments(text) = text
<1>1. DOMAIN text = 1 .. Len(text) /\ Len(text) \in Nat
  BY LenProperties
<1>2. \A n \in DOMAIN text : ~InComment(text, n)
  <2> TAKE n \in DOMAIN text
  <2>1. \A m \in 1 .. n : m \in 1 .. Len(text)
    BY <1>1
  <2> QED BY <2>1, Zenon DEF InComment
<1>3. stripComments(text) = FlattenSeq([n \in DOMAIN text |-> <<text[n]>>])
  <2>1. [n \in DOMAIN text |-> IF InComment(text, n) THEN <<>> ELSE <<text[n]>>]
        = [n \in DOMAIN text |-> <<text[n]>>]
    BY <1>2, Zenon
  <2> QED BY ONLY <2>1, Zenon DEF stripComments
<1> QED BY <1>3, OneByOneFlat

(* The ends of lines are white, too. *)
Spaced(text) == [n \in DOMAIN text |-> IF text[n] = Newline THEN Space ELSE text[n]]

LEMMA SpacedTyped ==
  ASSUME NEW S, Space \in S, NEW x \in Seq(S)
  PROVE  /\ Spaced(x) \in Seq(S) /\ Len(Spaced(x)) = Len(x) /\ Len(x) \in Nat
         /\ \A n \in 1 .. Len(x) : Spaced(x)[n] = IF x[n] = Newline THEN Space ELSE x[n]
<1>1. Len(x) \in Nat /\ DOMAIN x = 1 .. Len(x) /\ \A n \in 1 .. Len(x) : x[n] \in S
  BY LenProperties, ElementOfSeq
<1>2. Spaced(x) \in [1 .. Len(x) -> S]
  BY <1>1 DEF Spaced
<1>3. \A n \in 1 .. Len(x) : Spaced(x)[n] = IF x[n] = Newline THEN Space ELSE x[n]
  BY <1>1 DEF Spaced
<1> QED BY <1>1, <1>2, <1>3

LEMMA SpacedConcat ==
  ASSUME NEW S, Space \in S, NEW x \in Seq(S), NEW y \in Seq(S)
  PROVE  Spaced(x \o y) = Spaced(x) \o Spaced(y)
<1> DEFINE xy == x \o y
           a == Len(x)
           b == Len(y)
           u == Spaced(x)
           v == Spaced(y)
           uv == u \o v
           w == Spaced(xy)
<1>1. /\ u \in Seq(S) /\ Len(u) = a /\ a \in Nat
      /\ \A n \in 1 .. a : u[n] = IF x[n] = Newline THEN Space ELSE x[n]
  BY SpacedTyped
<1>2. /\ v \in Seq(S) /\ Len(v) = b /\ b \in Nat
      /\ \A n \in 1 .. b : v[n] = IF y[n] = Newline THEN Space ELSE y[n]
  BY SpacedTyped
<1>3. /\ xy \in Seq(S) /\ Len(xy) = a + b
      /\ \A n \in 1 .. a + b : xy[n] = IF n <= a THEN x[n] ELSE y[n - a]
  BY ConcatProperties
<1> HIDE DEF xy
<1>4. /\ w \in Seq(S) /\ Len(w) = Len(xy)
      /\ \A n \in 1 .. Len(xy) : w[n] = IF xy[n] = Newline THEN Space ELSE xy[n]
  BY <1>3, SpacedTyped
<1> HIDE DEF u, v, w
<1>5. /\ uv \in Seq(S) /\ Len(uv) = Len(u) + Len(v)
      /\ \A n \in 1 .. Len(u) + Len(v) : uv[n] = IF n <= Len(u) THEN u[n] ELSE v[n - Len(u)]
  <2>1. u \in Seq(S) /\ v \in Seq(S)
    BY <1>1, <1>2
  <2> QED BY ONLY <2>1, ConcatProperties
<1> HIDE DEF uv, a, b
<1>6. Len(w) = a + b /\ Len(uv) = a + b
  BY <1>1, <1>2, <1>3, <1>4, <1>5
<1>7. ASSUME NEW n \in 1 .. a + b PROVE w[n] = uv[n]
  <2>1. w[n] = IF xy[n] = Newline THEN Space ELSE xy[n]
    BY <1>3, <1>4
  <2>2. uv[n] = IF n <= a THEN u[n] ELSE v[n - a]
    BY <1>1, <1>2, <1>5
  <2>3. CASE n <= a
    <3>1. n \in 1 .. a /\ xy[n] = x[n]
      BY <1>1, <1>2, <1>3, <2>3
    <3> QED BY <1>1, <2>1, <2>2, <2>3, <3>1
  <2>4. CASE ~(n <= a)
    <3>1. n - a \in 1 .. b /\ xy[n] = y[n - a]
      BY <1>1, <1>2, <1>3, <2>4
    <3> QED BY <1>2, <2>1, <2>2, <2>4, <3>1
  <2> QED BY <2>3, <2>4
<1>8. w = uv
  <2>1. w \in Seq(S) /\ uv \in Seq(S) /\ Len(w) = Len(uv) /\ \A n \in 1 .. Len(w) : w[n] = uv[n]
    BY <1>4, <1>5, <1>6, <1>7
  <2> QED BY ONLY <2>1, SeqEqual
<1> QED BY <1>8 DEF w, uv, u, v, xy

LEMMA SpacedSame ==
  ASSUME NEW S, NEW x \in Seq(S), Newline \notin S
  PROVE  Spaced(x) = x
<1>1. DOMAIN x = 1 .. Len(x) /\ \A n \in 1 .. Len(x) : x[n] \in S
  BY LenProperties, ElementOfSeq
<1>2. \A n \in DOMAIN x : x[n] # Newline
  BY <1>1
<1>3. x = [n \in DOMAIN x |-> x[n]]
  BY LenProperties
<1>4. Spaced(x) = [n \in DOMAIN x |-> x[n]]
  BY ONLY <1>2, Zenon DEF Spaced
<1> QED BY ONLY <1>3, <1>4, Zenon

LEMMA FilledAppend ==
  ASSUME NEW S, NEW list \in Seq(Seq(S)), NEW w \in Seq(S)
  PROVE  /\ Filled(list) \in Seq(Seq(S))
         /\ Filled(Append(list, w)) = IF w = <<>> THEN Filled(list) ELSE Append(Filled(list), w)
<1> DEFINE one(x) == IF x = <<>> THEN <<>> ELSE <<x>>
           l == Len(list)
           more == Append(list, w)
           ss == [n \in DOMAIN list |-> one(list[n])]
           tt == [n \in DOMAIN more |-> one(more[n])]
<1>1. /\ l \in Nat /\ DOMAIN list = 1 .. l /\ \A n \in 1 .. l : list[n] \in Seq(S)
      /\ DOMAIN more = 1 .. l + 1 /\ more[l + 1] = w /\ \A n \in 1 .. l : more[n] = list[n]
  BY LenProperties, ElementOfSeq, AppendProperties
<1>2. \A x \in Seq(S) : one(x) \in Seq(Seq(S))
  OBVIOUS
<1>3. Filled(list) = FlattenSeq(ss) /\ Filled(more) = FlattenSeq(tt)
  BY Zenon DEF Filled
<1> HIDE DEF more, one
<1>4. ss \in Seq(Seq(Seq(S))) /\ one(w) \in Seq(Seq(S)) /\ Len(ss) = l
  <2>1. ss \in [1 .. l -> Seq(Seq(S))]
    BY <1>1, <1>2
  <2> HIDE DEF ss
  <2>2. ss \in Seq(Seq(Seq(S))) /\ Len(ss) = l
    <3> DEFINE X == Seq(Seq(S))
    <3>1. l \in Nat /\ ss \in [1 .. l -> X]
      BY <1>1, <2>1
    <3> HIDE DEF X, l
    <3>2. ss \in Seq(X) /\ Len(ss) = l
      BY ONLY <3>1
    <3> QED BY ONLY <3>2 DEF X
  <2>3. one(w) \in Seq(Seq(S))
    BY <1>2
  <2> QED BY <2>2, <2>3
<1>5. tt = Append(ss, one(w))
  <2> DEFINE f == [n \in 1 .. l + 1 |-> one(more[n])]
             k == l + 1
  <2>1. tt = f
    BY <1>1, Zenon
  <2>2. f \in [1 .. k -> Seq(Seq(S))] /\ k \in Nat \ {0} /\ f[k] = one(w)
    <3>1. \A n \in 1 .. k : more[n] \in Seq(S)
      BY <1>1
    <3> QED BY <1>1, <1>2, <3>1
  <2>3. [m \in 1 .. k - 1 |-> f[m]] = ss
    <3>1. k - 1 = l /\ \A m \in 1 .. l : m \in 1 .. k
      BY <1>1
    <3>2. \A m \in 1 .. l : f[m] = one(list[m])
      BY <1>1, <3>1
    <3>3. [m \in 1 .. l |-> f[m]] = ss
      BY <1>1, <3>2, Zenon
    <3> HIDE DEF f, k, ss
    <3> QED BY ONLY <3>1, <3>3, Zenon
  <2> HIDE DEF f, k, ss
  <2>4. f = Append([m \in 1 .. k - 1 |-> f[m]], f[k])
    BY ONLY <2>2, LastOne
  <2>5. f = Append(ss, one(w))
    BY ONLY <2>2, <2>3, <2>4, Zenon
  <2> HIDE DEF tt
  <2> QED BY ONLY <2>1, <2>5, Zenon
<1> HIDE DEF ss, tt
<1>6. FlattenSeq(ss) \in Seq(Seq(S)) /\ FlattenSeq(Append(ss, one(w))) = FlattenSeq(ss) \o one(w)
  <2> DEFINE T == Seq(S)
             v == one(w)
  <2>1. ss \in Seq(Seq(T)) /\ v \in Seq(T)
    BY <1>4
  <2> HIDE DEF T, v
  <2>2. FlattenSeq(ss) \in Seq(T) /\ FlattenSeq(Append(ss, v)) = FlattenSeq(ss) \o v
    BY ONLY <2>1, FlattenOne
  <2> QED BY ONLY <2>2, Zenon DEF T, v
<1>7. CASE w = <<>>
  <2>1. one(w) = <<>>
    BY <1>7 DEF one
  <2>2. FlattenSeq(ss) \o <<>> = FlattenSeq(ss)
    BY <1>6, ConcatEmptySeq
  <2> QED BY <1>3, <1>5, <1>6, <1>7, <2>1, <2>2, Zenon DEF more
<1>8. CASE w # <<>>
  <2>1. one(w) = <<w>>
    BY <1>8 DEF one
  <2>2. FlattenSeq(ss) \o <<w>> = Append(FlattenSeq(ss), w)
    BY <1>6, AppendIsConcat
  <2> QED BY <1>3, <1>5, <1>6, <1>8, <2>1, <2>2, Zenon DEF more
<1> QED BY <1>7, <1>8

(* What sections and values consist of, and a file *)
Ink(S) ==
    /\ Space \notin S /\ Newline \notin S /\ "#" \notin S /\ Sections \subseteq S
    /\ Space # Newline /\ "#" # Space /\ "#" # Newline
Paper(S) == S \cup {Space, Newline}
AtLine(x, T) ==
    x \in Seq(T) /\ (Spaced(x) = <<>> \/ Spaced(x)[Len(Spaced(x))] = Space)

LEMMA EndsWith ==
  ASSUME NEW S, NEW x \in Seq(S), NEW e \in S
  PROVE  x \o <<e>> \in Seq(S) /\ (x \o <<e>>)[Len(x \o <<e>>)] = e
<1>1. x \o <<e>> = Append(x, e)
  BY AppendIsConcat
<1>2. Append(x, e) \in Seq(S) /\ Append(x, e)[Len(Append(x, e))] = e
  BY AppendProperties, LenProperties
<1> QED BY ONLY <1>1, <1>2, Zenon

LEMMA OneTyped ==
  ASSUME NEW S, NEW e \in S
  PROVE  <<e>> \in Seq(S) /\ Len(<<e>>) = 1 /\ <<e>>[1] = e /\ <<e>> # <<>>
OBVIOUS

(* A line comes to those before as its section and its value do. *)
LEMMA LineSpaced ==
  ASSUME NEW S, Ink(S), NEW x \in Seq(Paper(S)), NEW section \in S, NEW v \in Seq(S)
  PROVE  /\ x \o Line(section, v) \in Seq(Paper(S))
         /\ Spaced(x \o Line(section, v))
              = (((Spaced(x) \o <<section>>) \o <<Space>>) \o v) \o <<Space>>
<1> DEFINE T == Paper(S)
           g == <<section>>
           sp == <<Space>>
           nl == <<Newline>>
           line == ((g \o sp) \o v) \o nl
           X == Spaced(x)
<1>1. S \subseteq T /\ Space \in T /\ Newline \in T /\ section \in T
  BY DEF Paper
<1>2. x \in Seq(T)
  OBVIOUS
<1> HIDE DEF T
<1>3. g \in Seq(T) /\ sp \in Seq(T) /\ nl \in Seq(T) /\ v \in Seq(T)
  <2>1. v \in Seq(T)
    BY ONLY <1>1, v \in Seq(S), MoreElements
  <2> QED BY <1>1, <2>1, OneTyped
<1>4. Line(section, v) = line
  <2>1. <<section, Space>> = g \o sp
    BY OneByOne
  <2> QED BY ONLY <2>1, Zenon DEF Line
<1>5. Spaced(g) = g /\ Spaced(v) = v
  <2>1. g \in Seq(S) /\ Newline \notin S
    BY OneTyped, Zenon DEF Ink
  <2> HIDE DEF g
  <2> QED BY <2>1, SpacedSame
<1>6. Spaced(sp) = sp
  <2> DEFINE U == {Space}
  <2>1. sp \in Seq(U) /\ Newline \notin U
    BY OneTyped, Zenon DEF Ink
  <2> HIDE DEF U, sp
  <2> QED BY ONLY <2>1, SpacedSame
<1>7. Spaced(nl) = sp
  <2>1. DOMAIN nl = 1 .. 1 /\ nl[1] = Newline
    OBVIOUS
  <2>2. \A n \in DOMAIN nl : nl[n] = Newline
    BY <2>1
  <2>3. Spaced(nl) = [n \in DOMAIN nl |-> Space]
    BY ONLY <2>2, Zenon DEF Spaced
  <2>4. [n \in 1 .. 1 |-> Space] = sp
    OBVIOUS
  <2> HIDE DEF nl, sp
  <2> QED BY ONLY <2>1, <2>3, <2>4, Zenon
<1> HIDE DEF g, sp, nl
<1>8. X \in Seq(T)
  BY <1>1, <1>2, SpacedTyped
<1>9. g \o sp \in Seq(T) /\ (g \o sp) \o v \in Seq(T) /\ line \in Seq(T)
  <2>1. g \o sp \in Seq(T)
    BY ONLY <1>3, ConcatProperties
  <2> DEFINE a == g \o sp
  <2>2. a \in Seq(T)
    BY <2>1
  <2> HIDE DEF a
  <2>3. a \o v \in Seq(T)
    BY ONLY <1>3, <2>2, ConcatProperties
  <2> DEFINE b == a \o v
  <2>4. b \in Seq(T)
    BY <2>3
  <2> HIDE DEF b
  <2>5. b \o nl \in Seq(T)
    BY ONLY <1>3, <2>4, ConcatProperties
  <2> QED BY ONLY <2>1, <2>3, <2>5 DEF a, b
<1>10. \A y, z \in Seq(T) : Spaced(y \o z) = Spaced(y) \o Spaced(z)
  <2> TAKE y \in Seq(T), z \in Seq(T)
  <2> QED BY <1>1, SpacedConcat
<1>11. Spaced(line) = ((g \o sp) \o v) \o sp
  <2> DEFINE a == g \o sp
             b == a \o v
  <2>1. a \in Seq(T) /\ b \in Seq(T)
    BY ONLY <1>9, Zenon
  <2>2. Spaced(a) = a
    <3>1. Spaced(g \o sp) = Spaced(g) \o Spaced(sp)
      BY ONLY <1>3, <1>10
    <3> QED BY ONLY <1>5, <1>6, <3>1, Zenon
  <2> HIDE DEF a
  <2>3. Spaced(b) = b
    <3>1. Spaced(a \o v) = Spaced(a) \o Spaced(v)
      BY ONLY <1>3, <2>1, <1>10
    <3> QED BY ONLY <1>5, <2>2, <3>1, Zenon
  <2> HIDE DEF b
  <2>4. Spaced(b \o nl) = Spaced(b) \o Spaced(nl)
    BY ONLY <1>3, <2>1, <1>10
  <2>5. Spaced(b \o nl) = b \o sp
    BY ONLY <1>7, <2>3, <2>4, Zenon
  <2> QED BY ONLY <2>5 DEF a, b
<1>12. Spaced(x \o line) = X \o (((g \o sp) \o v) \o sp)
  BY ONLY <1>2, <1>9, <1>10, <1>11, Zenon
<1>13. \A p, q, r \in Seq(T) : (p \o q) \o r = p \o (q \o r)
  BY ONLY Associative, SMTT(60)
<1>14. X \o (((g \o sp) \o v) \o sp) = (((X \o g) \o sp) \o v) \o sp
  <2>1. (X \o ((g \o sp) \o v)) \o sp = X \o (((g \o sp) \o v) \o sp)
    BY ONLY <1>3, <1>8, <1>9, <1>13, Zenon
  <2>2. (X \o (g \o sp)) \o v = X \o ((g \o sp) \o v)
    BY ONLY <1>3, <1>8, <1>9, <1>13, Zenon
  <2>3. (X \o g) \o sp = X \o (g \o sp)
    BY ONLY <1>3, <1>8, <1>13, Zenon
  <2> QED BY ONLY <2>1, <2>2, <2>3, Zenon
<1>15. x \o line \in Seq(T)
  <2> HIDE DEF line
  <2> QED BY ONLY <1>2, <1>9, ConcatProperties
<1>16. x \o line \in Seq(T) /\ Spaced(x \o line) = (((X \o g) \o sp) \o v) \o sp
  BY ONLY <1>12, <1>14, <1>15, Zenon
<1> HIDE DEF line
<1> QED BY ONLY <1>4, <1>16, Zenon DEF X, g, sp, T

LEMMA LineParts ==
  ASSUME NEW S, Ink(S), NEW x, AtLine(x, Paper(S)), NEW section \in S, NEW v \in Seq(S)
  PROVE  /\ AtLine(x \o Line(section, v), Paper(S))
         /\ Parts(Spaced(x \o Line(section, v)), Space)
              = Append(Append(Parts(Spaced(x), Space), <<section>>), v)
<1> DEFINE T == Paper(S)
           g == <<section>>
           sp == <<Space>>
           X == Spaced(x)
           y == x \o Line(section, v)
           Y == (X \o g) \o sp
           Z == (Y \o v) \o sp
<1>1. S \subseteq T /\ Space \in T /\ section \in T /\ section # Space
  BY DEF Paper, Ink
<1>2. x \in Seq(T) /\ (X = <<>> \/ X[Len(X)] = Space)
  BY DEF AtLine
<1>3. y \in Seq(T) /\ Spaced(y) = Z
  BY <1>2, LineSpaced
<1> HIDE DEF T, y
<1>4. X \in Seq(T) /\ g \in Seq(T) /\ sp \in Seq(T) /\ v \in Seq(T)
  <2>1. v \in Seq(T)
    BY ONLY <1>1, v \in Seq(S), MoreElements
  <2>2. X \in Seq(T)
    BY ONLY <1>1, <1>2, SpacedTyped
  <2> QED BY <1>1, <2>1, <2>2, OneTyped
<1>5. Len(g) = 1 /\ g[1] = section
  BY OneTyped
<1>6. \A n \in 1 .. Len(g) : g[n] # Space
  BY <1>1, <1>5
<1>7. \A n \in 1 .. Len(v) : v[n] # Space
  <2>1. \A n \in 1 .. Len(v) : v[n] \in S
    BY ElementOfSeq
  <2> QED BY <2>1 DEF Ink
<1>8. sp = <<Space>>
  OBVIOUS
<1> HIDE DEF X, g, sp
<1>9. Parts(Y, Space) = Append(Parts(X, Space), g)
  BY ONLY <1>2, <1>4, <1>6, <1>8, PartsComes
<1>10. X \o g \in Seq(T)
  BY ONLY <1>4, ConcatProperties
<1>11. Y \in Seq(T) /\ Y[Len(Y)] = Space
  <2> DEFINE z == X \o g
  <2>1. z \in Seq(T) /\ Space \in T
    BY <1>1, <1>10
  <2> HIDE DEF z
  <2>2. z \o <<Space>> \in Seq(T) /\ (z \o <<Space>>)[Len(z \o <<Space>>)] = Space
    BY ONLY <2>1, EndsWith
  <2> QED BY ONLY <1>8, <2>2, Zenon DEF z
<1> HIDE DEF Y
<1>12. Parts(Z, Space) = Append(Parts(Y, Space), v)
  <2>1. Y \in Seq(T) /\ (Y = <<>> \/ Y[Len(Y)] = Space) /\ v \in Seq(T) /\ sp \in Seq(T)
    BY ONLY <1>4, <1>11
  <2> QED BY ONLY <1>7, <1>8, <2>1, PartsComes
<1>13. Z[Len(Z)] = Space
  <2> DEFINE z == Y \o v
  <2>1. z \in Seq(T) /\ Space \in T
    BY <1>1, <1>4, <1>11, ConcatProperties
  <2> HIDE DEF z
  <2>2. (z \o <<Space>>)[Len(z \o <<Space>>)] = Space
    BY ONLY <2>1, EndsWith
  <2> QED BY ONLY <1>8, <2>2, Zenon DEF z
<1> HIDE DEF Z
<1>14. AtLine(y, T)
  BY ONLY <1>3, <1>13, Zenon DEF AtLine
<1>15. Parts(Spaced(y), Space) = Append(Append(Parts(X, Space), g), v)
  BY ONLY <1>3, <1>9, <1>12, Zenon
<1> QED BY ONLY <1>14, <1>15, Zenon DEF y, T, X, g

(* What was read, and what of it a section, or a value, makes *)
Got(section, D, V) == [section |-> section, pairs |-> [k \in D |-> V[k]]]
Begun(section, D, V) == [k \in D \cup {section} |-> IF k = section THEN <<>> ELSE V[k]]
Read(text) == FoldLeft(ReadToken, NoSection, Filled(Parts(Spaced(text), Space)))

LEMMA SectionRead ==
  ASSUME NEW c, NEW D, NEW V, NEW section \in Sections, section \notin D
  PROVE  ReadToken(Got(c, D, V), <<section>>) = [section |-> section, pairs |-> Begun(section, D, V)]
<1> DEFINE s == Got(c, D, V)
           token == <<section>>
<1>1. token[1] = section /\ Len(token) = 1
  OBVIOUS
<1>2. ~checkWord(token)
  BY ONLY <1>1, section \in Sections, Zenon DEF checkWord
<1>3. s.pairs = [k \in D |-> V[k]]
  BY DEF Got
<1>4. DOMAIN s.pairs = D /\ \A k \in D : s.pairs[k] = V[k]
  BY <1>3
<1> HIDE DEF s, token
<1>5. ReadToken(s, token)
        = [section |-> section,
           pairs |-> [k \in {section} \cup D |-> IF k = section THEN <<>> ELSE s.pairs[k]]]
  BY ONLY <1>1, <1>2, <1>4, Zenon DEF ReadToken
<1>6. [k \in {section} \cup D |-> IF k = section THEN <<>> ELSE s.pairs[k]]
        = Begun(section, D, V)
  BY ONLY <1>4 DEF Begun
<1>7. ReadToken(s, token) = [section |-> section, pairs |-> Begun(section, D, V)]
  BY ONLY <1>5, <1>6, Zenon
<1> QED BY ONLY <1>7 DEF s, token

LEMMA PairsReplaced ==
  ASSUME NEW section, NEW pairs
  PROVE  \A q : [[section |-> section, pairs |-> pairs] EXCEPT !.pairs = q]
                  = [section |-> section, pairs |-> q]
OBVIOUS

LEMMA ValueRead ==
  ASSUME NEW S, NEW D, NEW V, NEW section \in Sections, NEW w \in Seq(S), checkWord(w),
         V[section] = w
  PROVE  /\ ReadToken([section |-> section, pairs |-> Begun(section, D, V)], w)
              = Got(section, D \cup {section}, V)
         /\ w = <<>> => [section |-> section, pairs |-> Begun(section, D, V)]
                          = Got(section, D \cup {section}, V)
<1> DEFINE pairs == Begun(section, D, V)
           E == D \cup {section}
           s == [section |-> section, pairs |-> pairs]
<1>1. section # ""
  BY DEF Sections
<1>2. DOMAIN pairs = E /\ section \in E /\ pairs[section] = <<>>
      /\ \A k \in E \ {section} : pairs[k] = V[k]
  BY DEF Begun
<1> HIDE DEF pairs
<1>3. s.section = section /\ s.pairs = pairs
  OBVIOUS
<1>4. <<>> \o w = w
  BY ConcatEmptySeq
<1>5. [s EXCEPT !.pairs[s.section] = @ \o w]
        = [section |-> section, pairs |-> [pairs EXCEPT ![section] = pairs[section] \o w]]
  <2>1. \A q : [s EXCEPT !.pairs = q] = [section |-> section, pairs |-> q]
    BY ONLY PairsReplaced
  <2> HIDE DEF s
  <2> QED BY ONLY <1>3, <2>1, Zenon
<1> DEFINE new == [pairs EXCEPT ![section] = w]
<1> HIDE DEF s
<1>6. ReadToken(s, w) = [section |-> section, pairs |-> new]
  <2>1. ReadToken(s, w) = [s EXCEPT !.pairs[s.section] = @ \o w]
    BY ONLY checkWord(w), <1>1, <1>3, Zenon DEF ReadToken
  <2>2. [pairs EXCEPT ![section] = pairs[section] \o w] = new
    BY ONLY <1>2, <1>4, Zenon
  <2> HIDE DEF new
  <2> QED BY ONLY <1>5, <2>1, <2>2, Zenon
<1> HIDE DEF E
<1>7. new = [k \in E |-> V[k]]
  BY <1>2
<1>8. w = <<>> => pairs = [k \in E |-> V[k]]
  <2>1. pairs = [k \in E |-> pairs[k]]
    BY DEF E, pairs, Begun
  <2>2. w = <<>> => \A k \in E : pairs[k] = V[k]
    BY <1>2
  <2> QED BY <2>1, <2>2
<1> HIDE DEF new
<1>9. ReadToken(s, w) = Got(section, E, V) /\ (w = <<>> => s = Got(section, E, V))
  BY ONLY <1>6, <1>7, <1>8, Zenon DEF Got, s
<1> QED BY ONLY <1>9 DEF s, E, pairs

(* So a line comes to what was read. *)
LEMMA LineRead ==
  ASSUME NEW S, Ink(S), NEW x, AtLine(x, Paper(S)), NEW c, NEW D, NEW V,
         NEW section \in Sections, section \notin D, V[section] \in Seq(S), checkWord(V[section]),
         Read(x) = Got(c, D, V)
  PROVE  /\ AtLine(x \o Line(section, V[section]), Paper(S))
         /\ Read(x \o Line(section, V[section])) = Got(section, D \cup {section}, V)
<1> DEFINE T == Paper(S)
           w == V[section]
           g == <<section>>
           y == x \o Line(section, w)
           ps == Parts(Spaced(x), Space)
<1>1. section \in S /\ S \subseteq T /\ Space \in T
  BY DEF Ink, Paper
<1>2. w \in Seq(T) /\ g \in Seq(T) /\ g # <<>>
  <2>1. w \in Seq(T)
    <3>1. w \in Seq(S)
      OBVIOUS
    <3> HIDE DEF w
    <3> QED BY ONLY <1>1, <3>1, MoreElements
  <2> QED BY <1>1, <2>1, OneTyped
<1>3. AtLine(y, T) /\ Parts(Spaced(y), Space) = Append(Append(ps, g), w)
  BY <1>1, LineParts
<1>4. ps \in Seq(Seq(T))
  <2>1. x \in Seq(T)
    BY DEF AtLine
  <2> DEFINE z == Spaced(x)
  <2>2. z \in Seq(T)
    BY <1>1, <2>1, SpacedTyped
  <2> HIDE DEF z, T
  <2> QED BY ONLY <2>2, PartsList DEF z
<1> HIDE DEF T, g, y, ps
<1>5. Append(ps, g) \in Seq(Seq(T))
  BY ONLY <1>2, <1>4, AppendProperties
<1> DEFINE Q == Append(ps, g)
<1>6. Q \in Seq(Seq(T))
  BY <1>5
<1>7. Filled(ps) \in Seq(Seq(T)) /\ Filled(Q) = Append(Filled(ps), g)
  BY ONLY <1>2, <1>4, FilledAppend DEF Q
<1> HIDE DEF Q
<1>8. Filled(Q) \in Seq(Seq(T))
      /\ Filled(Append(Q, w)) = IF w = <<>> THEN Filled(Q) ELSE Append(Filled(Q), w)
  <2> HIDE DEF w
  <2> QED BY ONLY <1>2, <1>6, FilledAppend
<1> DEFINE fold(list) == FoldLeft(ReadToken, NoSection, list)
           pairs == Begun(section, D, V)
           mid == [section |-> section, pairs |-> pairs]
<1>9. fold(Filled(Q)) = mid
  <2>1. fold(Append(Filled(ps), g)) = ReadToken(fold(Filled(ps)), g)
    <3> DEFINE A == Seq(T)
               tokens == Filled(ps)
    <3>1. tokens \in Seq(A) /\ g \in A
      BY ONLY <1>2, <1>7
    <3> HIDE DEF A, tokens
    <3>2. FoldLeft(ReadToken, NoSection, Append(tokens, g))
            = ReadToken(FoldLeft(ReadToken, NoSection, tokens), g)
      BY ONLY <3>1, FoldTokens
    <3> QED BY ONLY <3>2 DEF tokens
  <2>2. fold(Filled(ps)) = Got(c, D, V)
    BY DEF Read, ps
  <2>3. ReadToken(Got(c, D, V), g) = mid
    BY ONLY section \in Sections, section \notin D, SectionRead, Zenon DEF g
  <2> HIDE DEF mid, fold
  <2> QED BY ONLY <1>7, <2>1, <2>2, <2>3, Zenon
<1>10. /\ ReadToken(mid, w) = Got(section, D \cup {section}, V)
       /\ w = <<>> => mid = Got(section, D \cup {section}, V)
  <2>1. w \in Seq(S) /\ checkWord(w) /\ V[section] = w /\ section \in Sections
    OBVIOUS
  <2> HIDE DEF w
  <2>2. /\ ReadToken([section |-> section, pairs |-> Begun(section, D, V)], w)
            = Got(section, D \cup {section}, V)
        /\ w = <<>> => [section |-> section, pairs |-> Begun(section, D, V)]
                        = Got(section, D \cup {section}, V)
    BY ONLY <2>1, ValueRead
  <2> QED BY ONLY <2>2
<1> HIDE DEF mid
<1>11. fold(Filled(Append(Q, w))) = Got(section, D \cup {section}, V)
  <2>1. CASE w = <<>>
    BY ONLY <1>8, <1>9, <1>10, <2>1, Zenon
  <2>2. CASE w # <<>>
    <3> DEFINE A == Seq(T)
               tokens == Filled(Q)
    <3>1. tokens \in Seq(A) /\ w \in A
      BY ONLY <1>2, <1>8
    <3> HIDE DEF A, w
    <3>2. fold(Append(tokens, w)) = ReadToken(fold(tokens), w)
      <4> HIDE DEF tokens
      <4> QED BY ONLY <3>1, FoldTokens
    <3> HIDE DEF fold
    <3> QED BY ONLY <1>8, <1>9, <1>10, <2>2, <3>2, Zenon DEF tokens
  <2> QED BY ONLY <2>1, <2>2
<1>12. Read(y) = fold(Filled(Append(Q, w)))
  BY ONLY <1>3, Zenon DEF Read, Q
<1> HIDE DEF fold
<1>13. AtLine(y, T) /\ Read(y) = Got(section, D \cup {section}, V)
  BY ONLY <1>3, <1>11, <1>12, Zenon
<1> HIDE DEF w
<1> QED BY ONLY <1>13, Zenon DEF y, w, T

(* All of the sections are in the order, and none twice. *)
LEMMA OrderOfSections ==
  /\ DOMAIN Order = 1 .. 7 /\ {Order[m] : m \in 1 .. 7} = Sections
  /\ \A n \in 1 .. 7 : Order[n] \in Sections /\ Order[n] \notin {Order[m] : m \in 1 .. n - 1}
<1>1. DOMAIN Order = 1 .. 7
  BY DEF Order
<1>2. /\ Order[1] = "maxSize" /\ Order[2] = "minSize" /\ Order[3] = "options"
      /\ Order[4] = "system" /\ Order[5] = "mutationRules" /\ Order[6] = "growthRules"
      /\ Order[7] = "currentGene"
  BY DEF Order
<1>3. \A n \in 1 .. 7 : n = 1 \/ n = 2 \/ n = 3 \/ n = 4 \/ n = 5 \/ n = 6 \/ n = 7
  OBVIOUS
<1>4. \A n \in 1 .. 7 : Order[n] \in Sections
  BY <1>2, <1>3 DEF Sections
<1>5. \A n, m \in 1 .. 7 : m < n => Order[m] # Order[n]
  <2> SUFFICES ASSUME NEW n \in 1 .. 7, NEW m \in 1 .. 7, m < n PROVE Order[m] # Order[n]
    OBVIOUS
  <2>1. CASE n = 1
    BY <2>1
  <2>2. CASE n = 2
    <3>1. m = 1
      BY <2>2
    <3> QED BY <1>2, <2>2, <3>1
  <2>3. CASE n = 3
    <3>1. m = 1 \/ m = 2
      BY <2>3
    <3> QED BY <1>2, <2>3, <3>1
  <2>4. CASE n = 4
    <3>1. m = 1 \/ m = 2 \/ m = 3
      BY <2>4
    <3> QED BY <1>2, <2>4, <3>1
  <2>5. CASE n = 5
    <3>1. m = 1 \/ m = 2 \/ m = 3 \/ m = 4
      BY <2>5
    <3> QED BY <1>2, <2>5, <3>1
  <2>6. CASE n = 6
    <3>1. m = 1 \/ m = 2 \/ m = 3 \/ m = 4 \/ m = 5
      BY <2>6
    <3> QED BY <1>2, <2>6, <3>1
  <2>7. CASE n = 7
    <3>1. m = 1 \/ m = 2 \/ m = 3 \/ m = 4 \/ m = 5 \/ m = 6
      BY <2>7
    <3> QED BY <1>2, <2>7, <3>1
  <2> QED BY <1>3, <2>1, <2>2, <2>3, <2>4, <2>5, <2>6, <2>7
<1>6. \A n \in 1 .. 7 : Order[n] \notin {Order[m] : m \in 1 .. n - 1}
  <2> TAKE n \in 1 .. 7
  <2>1. \A m \in 1 .. n - 1 : m \in 1 .. 7 /\ m < n
    OBVIOUS
  <2> QED BY <1>5, <2>1, Zenon
<1>7. {Order[m] : m \in 1 .. 7} = Sections
  <2>1. \A s \in Sections : \E m \in 1 .. 7 : s = Order[m]
    <3> SUFFICES ASSUME NEW s \in Sections PROVE \E m \in 1 .. 7 : s = Order[m]
      OBVIOUS
    <3>1. \/ s = Order[1] \/ s = Order[2] \/ s = Order[3] \/ s = Order[4] \/ s = Order[5]
          \/ s = Order[6] \/ s = Order[7]
      BY <1>2 DEF Sections
    <3> QED BY <3>1
  <2> QED BY <1>4, <2>1
<1> QED BY <1>1, <1>4, <1>6, <1>7

LEMMA LineTyped ==
  ASSUME NEW S, Ink(S), NEW section \in Sections, NEW v \in Seq(S)
  PROVE  Line(section, v) \in Seq(Paper(S))
<1> DEFINE T == Paper(S)
           a == <<section, Space>>
           c == <<Newline>>
<1>1. S \subseteq T /\ Space \in T /\ Newline \in T /\ section \in T
  BY DEF Paper, Ink
<1> HIDE DEF T
<1>2. a \in Seq(T) /\ c \in Seq(T)
  BY <1>1
<1>3. v \in Seq(T)
  BY ONLY <1>1, v \in Seq(S), MoreElements
<1> HIDE DEF a, c
<1>4. a \o v \in Seq(T)
  BY ONLY <1>2, <1>3, ConcatProperties
<1> DEFINE b == a \o v
<1>5. b \in Seq(T)
  BY <1>4
<1> HIDE DEF b
<1>6. b \o c \in Seq(T)
  BY ONLY <1>2, <1>5, ConcatProperties
<1> QED BY ONLY <1>6, Zenon DEF b, a, c, T, Line

LEMMA NothingRead ==
  ASSUME NEW S, NEW V
  PROVE  AtLine(<<>>, Paper(S)) /\ Read(<<>>) = Got("", {}, V)
<1>1. Spaced(<<>>) = <<>>
  BY DEF Spaced
<1>2. Filled(<<>>) = <<>>
  <2> DEFINE f == [n \in DOMAIN <<>> |-> IF <<>>[n] = <<>> THEN <<>> ELSE <<<<>>[n]>>]
  <2>1. f = <<>>
    OBVIOUS
  <2> HIDE DEF f
  <2>2. FlattenSeq(f) = <<>>
    BY ONLY <2>1, FlattenNothing, Zenon
  <2> QED BY ONLY <2>2, Zenon DEF Filled, f
<1>3. Read(<<>>) = FoldLeft(ReadToken, NoSection, <<>>)
  <2>1. Parts(<<>>, Space) = <<>>
    BY ONLY PartsOfNothing, Zenon
  <2> QED BY ONLY <1>1, <1>2, <2>1, Zenon DEF Read
<1>4. FoldLeft(ReadToken, NoSection, <<>>) = NoSection
  <2>1. DOMAIN <<>> = 1 .. 0 /\ 0 \in Nat
    OBVIOUS
  <2>2. PICK G : G[0] = NoSection /\ FoldLeft(ReadToken, NoSection, <<>>) = G[0]
    BY ONLY <2>1, TokensInOrder, Zenon
  <2> QED BY ONLY <2>2, Zenon
<1>5. NoSection = Got("", {}, V)
  BY DEF NoSection, Got, Nothing
<1>6. <<>> \in Seq(Paper(S))
  OBVIOUS
<1> QED BY ONLY <1>1, <1>3, <1>4, <1>5, <1>6, Zenon DEF AtLine

LEMMA CountedTo7 ==
  ASSUME NEW n \in 1 .. 7
  PROVE  /\ n \in Nat \ {0} /\ n # 0 /\ n \in 1 .. n /\ \A m \in 1 .. n : m \in 1 .. 7
         /\ \A m \in 1 .. n - 1 : m \in 1 .. n
         /\ \A m : m \in 1 .. n <=> m \in 1 .. n - 1 \/ m = n
OBVIOUS

(* What is written to a file is what is read of it. *)
LEMMA FileRead ==
  ASSUME NEW S, Ink(S), NEW V,
         \A section \in Sections : V[section] \in Seq(S) /\ checkWord(V[section])
  PROVE  keyValuePairs(FlattenSeq([n \in DOMAIN Order |-> Line(Order[n], V[Order[n]])]))
           = [k \in Sections |-> V[k]]
<1> DEFINE T == Paper(S)
           L(n) == Line(Order[n], V[Order[n]])
           lines(n) == [m \in 1 .. n |-> L(m)]
           x(n) == FlattenSeq(lines(n))
           C(n) == IF n = 0 THEN "" ELSE Order[n]
           D(n) == {Order[m] : m \in 1 .. n}
           P(n) == AtLine(x(n), T) /\ Read(x(n)) = Got(C(n), D(n), V)
<1>1. \A n \in 1 .. 7 : L(n) \in Seq(T)
  <2> TAKE n \in 1 .. 7
  <2> DEFINE v == V[Order[n]]
  <2>1. Order[n] \in Sections /\ v \in Seq(S)
    BY OrderOfSections
  <2> HIDE DEF v, T
  <2>2. Line(Order[n], v) \in Seq(Paper(S))
    BY ONLY Ink(S), <2>1, LineTyped
  <2> QED BY ONLY <2>2 DEF T, v
<1>2. P(0)
  <2>1. lines(0) = <<>> /\ D(0) = {} /\ C(0) = ""
    OBVIOUS
  <2>2. x(0) = <<>>
    <3> HIDE DEF lines
    <3> QED BY ONLY <2>1, FlattenNothing, Zenon
  <2> HIDE DEF x, C, D
  <2> QED BY ONLY <2>1, <2>2, NothingRead, Zenon DEF T
<1>3. \A n \in 1 .. 7 : P(n - 1) => P(n)
  <2> SUFFICES ASSUME NEW n \in 1 .. 7, P(n - 1) PROVE P(n)
    OBVIOUS
  <2> DEFINE section == Order[n]
             line == L(n)
             y == x(n - 1)
             E == D(n - 1)
  <2>1. x(n) = y \o line
    <3> DEFINE f == lines(n)
               g == lines(n - 1)
               Q == Seq(T)
    <3>1. n \in Nat \ {0} /\ f \in [1 .. n -> Q]
      <4>1. n \in Nat \ {0} /\ \A m \in 1 .. n : m \in 1 .. 7
        BY ONLY n \in 1 .. 7, CountedTo7
      <4> HIDE DEF L, T
      <4>2. \A m \in 1 .. n : L(m) \in Seq(T)
        BY ONLY <1>1, <4>1
      <4> QED BY ONLY <4>1, <4>2
    <3>2. [m \in 1 .. n - 1 |-> f[m]] = g /\ f[n] = line
      <4>1. n \in 1 .. n /\ \A m \in 1 .. n - 1 : m \in 1 .. n
        BY ONLY n \in 1 .. 7, CountedTo7
      <4> HIDE DEF L
      <4> QED BY ONLY <4>1
    <3> HIDE DEF f, g, line, Q
    <3>3. g \in Seq(Q) /\ line \in Q /\ f = Append(g, line)
      <4>1. /\ [m \in 1 .. n - 1 |-> f[m]] \in Seq(Q) /\ f[n] \in Q
            /\ f = Append([m \in 1 .. n - 1 |-> f[m]], f[n])
        BY ONLY <3>1, LastOne
      <4> QED BY ONLY <3>2, <4>1, Zenon
    <3>4. FlattenSeq(Append(g, line)) = FlattenSeq(g) \o line
      <4>1. g \in Seq(Seq(T)) /\ line \in Seq(T)
        BY ONLY <3>3 DEF Q
      <4> HIDE DEF T
      <4> QED BY ONLY <4>1, FlattenOne
    <3> QED BY ONLY <3>3, <3>4, Zenon DEF f, g
  <2>2. section \in Sections /\ section \notin E /\ C(n) = section
    <3>1. n # 0
      BY ONLY n \in 1 .. 7, CountedTo7
    <3> QED BY <3>1, OrderOfSections, Zenon
  <2>3. D(n) = E \cup {section}
    <3>1. \A m : m \in 1 .. n <=> m \in 1 .. n - 1 \/ m = n
      BY ONLY n \in 1 .. 7, CountedTo7
    <3> QED BY ONLY <3>1
  <2>4. AtLine(y, Paper(S)) /\ Read(y) = Got(C(n - 1), E, V)
    OBVIOUS
  <2>5. V[section] \in Seq(S) /\ checkWord(V[section])
    BY <2>2
  <2> HIDE DEF y, E, section, C, D, x, L
  <2>6. /\ AtLine(y \o Line(section, V[section]), Paper(S))
        /\ Read(y \o Line(section, V[section])) = Got(section, E \cup {section}, V)
    BY ONLY Ink(S), <2>2, <2>4, <2>5, LineRead
  <2>7. line = Line(section, V[section])
    BY DEF L, section
  <2> QED BY ONLY <2>1, <2>2, <2>3, <2>6, <2>7, Zenon DEF T
<1>4. P(7)
  <2> HIDE DEF P
  <2> DEFINE B == {n \in 0 .. 7 : ~P(n)}
  <2> SUFFICES ASSUME B # {} PROVE FALSE
    OBVIOUS
  <2>1. PICK n : n \in B /\ \A m \in B : n <= m
    <3>1. B \in SUBSET Nat
      OBVIOUS
    <3> HIDE DEF B
    <3> QED BY <3>1, LeastNatural
  <2>2. n \in 1 .. 7
    BY <1>2, <2>1
  <2>3. n - 1 \notin B
    <3> HIDE DEF B
    <3> QED BY ONLY <2>1, <2>2
  <2>4. P(n - 1)
    BY <2>2, <2>3
  <2> QED BY <1>3, <2>1, <2>2, <2>4
<1>5. D(7) = Sections /\ lines(7) = [n \in DOMAIN Order |-> Line(Order[n], V[Order[n]])]
  BY OrderOfSections
<1> DEFINE text == x(7)
<1>6. text \in Seq(T) /\ Read(text).pairs = [k \in Sections |-> V[k]]
  <2>1. Got(C(7), Sections, V).pairs = [k \in Sections |-> V[k]]
    BY DEF Got
  <2> HIDE DEF C, D, x, T
  <2> QED BY ONLY <1>4, <1>5, <2>1, Zenon DEF AtLine
<1> HIDE DEF text
<1>7. stripComments(text) = text
  <2>1. "#" \notin T
    BY DEF Ink, Paper
  <2> HIDE DEF T
  <2>2. \A n \in 1 .. Len(text) : text[n] # "#"
    BY <1>6, <2>1, ElementOfSeq
  <2> QED BY ONLY <1>6, <2>2, NoComments
<1>8. Tokens(text) = Filled(Parts(Spaced(text), Space))
  BY ONLY Zenon DEF Tokens, Spaced
<1>9. keyValuePairs(text) = Read(text).pairs
  BY ONLY <1>7, <1>8, Zenon DEF keyValuePairs, Read, NoSection
<1>10. text = FlattenSeq([n \in DOMAIN Order |-> Line(Order[n], V[Order[n]])])
  <2> HIDE DEF lines
  <2> QED BY ONLY <1>5, Zenon DEF text
<1> QED BY ONLY <1>6, <1>9, <1>10, Zenon

(* SetToSeq has each element of a finite set once. *)
LEMMA AllInSequence ==
  ASSUME NEW D, IsFiniteSet(D)
  PROVE  /\ Cardinality(D) \in Nat
         /\ SetToSeq(D) \in [1 .. Cardinality(D) -> D]
         /\ \A k \in D : \E n \in 1 .. Cardinality(D) : SetToSeq(D)[n] = k
         /\ \A n, m \in 1 .. Cardinality(D) : SetToSeq(D)[n] = SetToSeq(D)[m] => n = m
<1> DEFINE c == Cardinality(D)
           I == 1 .. c
<1>1. c \in Nat /\ ExistsBijection(I, D)
  BY FS_CardinalityType
<1>2. PICK g : g \in Bijection(I, D)
  BY ONLY <1>1, Zenon DEF ExistsBijection
<1>3. g \in [I -> D] /\ IsInjective(g)
  BY ONLY <1>2, Zenon DEF Bijection, Injection
<1> DEFINE f == SetToSeq(D)
<1>4. f \in [I -> D] /\ IsInjective(f)
  BY ONLY <1>3, Zenon DEF SetToSeq
<1>5. f \in Injection(I, D)
  BY ONLY <1>4, Zenon DEF Injection
<1> HIDE DEF f
<1>6. Cardinality(I) = c
  <2> HIDE DEF c
  <2> QED BY <1>1, FS_Interval
<1>7. f \in Surjection(I, D)
  <2> HIDE DEF I, c
  <2>1. Cardinality(I) = Cardinality(D) <=> f \in Surjection(I, D)
    BY <1>5, FS_Injection
  <2> QED BY ONLY <1>6, <2>1, Zenon DEF c
<1>8. \A k \in D : \E n \in I : f[n] = k
  BY ONLY <1>7, Zenon DEF Surjection
<1>9. \A n, m \in I : f[n] = f[m] => n = m
  <2>1. DOMAIN f = I
    BY ONLY <1>4
  <2> QED BY ONLY <1>4, <2>1, Zenon DEF IsInjective
<1> QED BY ONLY <1>1, <1>4, <1>8, <1>9, Zenon DEF f

(* What the keywords and values of a file are made of *)
Letters == (Characters \cup {":", "."} \cup Numbers \cup Sections) \ {Space, Newline, "#"}

LEMMA LettersInk ==
  /\ Ink(Letters) /\ Delimiters(Letters) /\ ":" \in Letters /\ "." \in Letters
  /\ Numbers \subseteq Letters
  /\ \A s \in Seq(STRING) : Without(s, {Space, Newline, "#"}) => s \in Seq(Letters)
<1>1. /\ Space # Newline
      /\ (Numbers \cup Sections \cup {"#", ",", ".", ":", "(", ")"}) \cap {Space, Newline} = {}
      /\ Numbers \cap (Sections \cup {"#", ",", ".", ":", "(", ")"}) = {}
  BY FileAssumption
<1>2. "#" # Space /\ "#" # Newline
  BY <1>1
<1>3. Sections \subseteq Letters
  <2>1. \A s \in Sections : s \notin {Space, Newline}
    BY <1>1
  <2>2. \A s \in Sections : s # "#"
    BY Zenon DEF Sections
  <2> QED BY <2>1, <2>2 DEF Letters
<1>4. Numbers \subseteq Letters
  <2>1. \A s \in Numbers : s \notin {Space, Newline} /\ s # "#"
    BY <1>1
  <2> QED BY <2>1 DEF Letters
<1>5. \A s \in {",", ".", ":", "(", ")"} : s \notin {Space, Newline} /\ s # "#"
  <2>1. \A s \in {",", ".", ":", "(", ")"} : s \notin {Space, Newline}
    BY <1>1
  <2>2. \A s \in {",", ".", ":", "(", ")"} : s # "#"
    BY Zenon
  <2> QED BY <2>1, <2>2
<1>6. \A s \in {",", ".", ":", "(", ")"} : s \in Letters
  BY <1>5, Zenon DEF Letters, Characters
<1>7. \A s \in Seq(STRING) : Without(s, {Space, Newline, "#"}) => s \in Seq(Letters)
  <2> SUFFICES ASSUME NEW s \in Seq(STRING), Without(s, {Space, Newline, "#"}) PROVE s \in Seq(Letters)
    OBVIOUS
  <2>1. \A n \in DOMAIN s : s[n] \in ToSet(s)
    BY Zenon DEF ToSet
  <2>2. DOMAIN s = 1 .. Len(s) /\ \A n \in 1 .. Len(s) : s[n] \in STRING
    BY ElementOfSeq, LenProperties
  <2>3. \A n \in 1 .. Len(s) : s[n] \in Letters
    BY <2>1, <2>2, Zenon DEF Letters, Characters, Without
  <2>4. s \in [1 .. Len(s) -> Letters] /\ Len(s) \in Nat
    <3> HIDE DEF Letters
    <3>1. s = [n \in 1 .. Len(s) |-> s[n]] /\ Len(s) \in Nat
      BY ONLY s \in Seq(STRING)
    <3> QED BY ONLY <2>3, <3>1
  <2> HIDE DEF Letters
  <2> QED BY ONLY <2>4
<1>8. Ink(Letters)
  BY <1>1, <1>2, <1>3, Zenon DEF Ink, Letters
<1>9. Delimiters(Letters) /\ ":" \in Letters /\ "." \in Letters
  BY <1>6, Zenon DEF Delimiters
<1> QED BY <1>4, <1>7, <1>8, <1>9

(* A number as text, and back *)
LEMMA NumberWritten ==
  ASSUME NEW n \in Int, Numeric(n)
  PROVE  /\ Written(n) \in Seq(Letters) /\ checkWord(Written(n)) /\ stringTo(Written(n)) = n
         /\ n # Bad /\ ")" \notin ToSet(Written(n))
         /\ n <= IntMax /\ n >= -IntMax - 1 => IsInt(Written(n)) /\ IntOf(Written(n)) = n
<1> DEFINE atom == CHOOSE a \in Numbers : Value(a) = n
<1>1. atom \in Numbers /\ Value(atom) = n
  BY Zenon DEF Numeric
<1>2. Written(n) = <<atom>>
  BY ONLY Zenon DEF Written
<1> HIDE DEF atom
<1>3. atom \in Letters /\ atom \notin Sections /\ atom # ")" /\ Value(atom) # Bad
  <2>1. Numbers \subseteq Letters /\ Numbers \cap (Sections \cup {"#", ",", ".", ":", "(", ")"}) = {}
        /\ \A a \in Numbers : Value(a) # Bad
    BY LettersInk, FileAssumption
  <2> QED BY <1>1, <2>1, Zenon
<1> DEFINE t == <<atom>>
<1>4. t \in Seq(Letters) /\ Len(t) = 1 /\ t[1] = atom /\ ToSet(t) = {atom}
  <2>1. t \in Seq(Letters) /\ Len(t) = 1 /\ t[1] = atom /\ DOMAIN t = {1}
    BY ONLY <1>3
  <2> HIDE DEF t
  <2> QED BY ONLY <2>1, Zenon DEF ToSet
<1> HIDE DEF t
<1>5. checkWord(t)
  BY ONLY <1>3, <1>4, Zenon DEF checkWord
<1>6. stringTo(t) = n
  BY ONLY <1>1, <1>4, Zenon DEF stringTo
<1>7. n # Bad
  BY ONLY <1>1, <1>3
<1>8. ")" \notin ToSet(t)
  BY ONLY <1>3, <1>4, Zenon
<1>9. n <= IntMax /\ n >= -IntMax - 1 => IsInt(t) /\ IntOf(t) = n
  BY ONLY <1>6, <1>7, Zenon DEF IsInt, IntOf
<1>10. Written(n) = t
  BY ONLY <1>2, Zenon DEF t
<1> QED BY ONLY <1>4, <1>5, <1>6, <1>7, <1>8, <1>9, <1>10, Zenon

(* A list of names, and back *)
LEMMA ListWritten ==
  ASSUME NEW list \in Seq(Seq(STRING)), ListReadable(list)
  PROVE  /\ vectorToString(list, <<",">>).text \in Seq(Letters)
         /\ checkWord(vectorToString(list, <<",">>).text)
         /\ parseVector(vectorToString(list, <<",">>).text) = list
<1>1. DOMAIN list = 1 .. Len(list) /\ Len(list) \in Nat
      /\ list = [n \in 1 .. Len(list) |-> list[n]]
      /\ \A n \in 1 .. Len(list) : list[n] \in Seq(STRING)
  BY ONLY list \in Seq(Seq(STRING))
<1>2. \A n \in 1 .. Len(list) : Without(list[n], {Space, Newline, "#", ","})
  BY <1>1, Zenon DEF ListReadable
<1>3. \A n \in 1 .. Len(list) : list[n] \in Seq(Letters) /\ "," \notin ToSet(list[n])
  <2> TAKE n \in 1 .. Len(list)
  <2>1. Without(list[n], {Space, Newline, "#"}) /\ "," \notin ToSet(list[n])
    BY <1>2, Zenon DEF Without
  <2> QED BY <1>1, <2>1, LettersInk, Zenon
<1>4. \A n \in 1 .. Len(list) : \A m \in 1 .. Len(list[n]) : list[n][m] # ","
  <2> TAKE n \in 1 .. Len(list)
  <2> TAKE m \in 1 .. Len(list[n])
  <2> DEFINE s == list[n]
  <2>1. s \in Seq(STRING)
    BY <1>1
  <2>2. DOMAIN s = 1 .. Len(s)
    <3> HIDE DEF s
    <3> QED BY ONLY <2>1, LenProperties
  <2>3. s[m] \in ToSet(s)
    BY ONLY <2>2, m \in 1 .. Len(list[n]), Zenon DEF ToSet
  <2> QED BY ONLY <1>3, <2>3, Zenon
<1>5. list \in Seq(Seq(Letters))
  <2> DEFINE A == Seq(Letters)
  <2>1. \A n \in 1 .. Len(list) : list[n] \in A
    BY <1>3
  <2> HIDE DEF A
  <2>2. [n \in 1 .. Len(list) |-> list[n]] \in Seq(A)
    BY ONLY <1>1, <2>1
  <2> QED BY ONLY <1>1, <2>2, Zenon DEF A
<1>6. list # <<>> => list[Len(list)] # <<>>
  BY Zenon DEF ListReadable, Last
<1> DEFINE delim == ","
           S == Letters
<1>7. S = Letters /\ delim \in S /\ delim = ","
  BY LettersInk, Zenon DEF Delimiters
<1> HIDE DEF delim, S
<1>8. /\ vectorToString(list, <<delim>>).text \in Seq(S)
      /\ Parts(vectorToString(list, <<delim>>).text, delim) = list
  <2>1. \A n \in 1 .. Len(list) : \A m \in 1 .. Len(list[n]) : list[n][m] # delim
    BY ONLY <1>4, <1>7, Zenon
  <2>2. list \in Seq(Seq(S))
    BY ONLY <1>5, <1>7, Zenon
  <2> QED BY ONLY <1>6, <1>7, <2>1, <2>2, JoinedParts
<1>9. checkWord(vectorToString(list, <<",">>).text)
  BY Zenon DEF ListReadable
<1> QED BY ONLY <1>7, <1>8, <1>9, Zenon DEF parseVector

LEMMA IntMaxTyped == IntMax \in Int
  BY GenericAssumption DEF IntMax

(* Chances as text, and back *)
LEMMA ChancesWritten ==
  ASSUME NEW chances, IsMap(chances),
         \A type \in DOMAIN chances :
            /\ chances[type] \in -IntMax - 1 .. IntMax /\ Numeric(chances[type])
            /\ Without(type, {Space, Newline, "#", ","})
  PROVE  /\ ChancesOf(chances) \in Seq(Letters) /\ checkWord(ChancesOf(chances))
         /\ parseMap(ChancesOf(chances), "int").map
              = [type \in DOMAIN chances |-> Written(chances[type])]
         /\ [type \in DOMAIN chances |-> IntOf(Written(chances[type]))] = chances
<1> DEFINE D == DOMAIN chances
           order == SetToSeq(D)
           hash == [type \in D |-> Written(chances[type])]
           V == "int"
<1>1. IsFiniteSet(D) /\ D \subseteq Seq(STRING) /\ chances = [k \in D |-> chances[k]]
  BY Zenon DEF IsMap
<1>2. IntMax \in Int
  BY ONLY IntMaxTyped
<1>3. ASSUME NEW type \in D
      PROVE  /\ Written(chances[type]) \in Seq(Letters) /\ IsInt(Written(chances[type]))
             /\ IntOf(Written(chances[type])) = chances[type]
             /\ ")" \notin ToSet(Written(chances[type]))
             /\ type \in Seq(Letters) /\ "," \notin ToSet(type)
  <2> DEFINE n == chances[type]
  <2>1. n \in -IntMax - 1 .. IntMax /\ Numeric(n)
    BY <1>3
  <2> HIDE DEF n
  <2>2. n \in Int /\ n <= IntMax /\ n >= -IntMax - 1
    BY ONLY <1>2, <2>1
  <2>3. /\ Written(n) \in Seq(Letters) /\ ")" \notin ToSet(Written(n))
        /\ IsInt(Written(n)) /\ IntOf(Written(n)) = n
    BY ONLY <2>1, <2>2, NumberWritten
  <2>4. Without(type, {Space, Newline, "#"}) /\ "," \notin ToSet(type)
    <3>1. Without(type, {Space, Newline, "#", ","})
      BY <1>3
    <3> QED BY <3>1, Zenon DEF Without
  <2>5. type \in Seq(Letters)
    BY <1>1, <1>3, <2>4, LettersInk, Zenon
  <2> QED BY ONLY <2>3, <2>4, <2>5, Zenon DEF n
<1>4. /\ Cardinality(D) \in Nat /\ order \in [1 .. Cardinality(D) -> D]
      /\ \A k \in D : \E n \in 1 .. Cardinality(D) : order[n] = k
  <2> HIDE DEF D
  <2>1. IsFiniteSet(D)
    BY <1>1
  <2> QED BY ONLY <2>1, AllInSequence
<1>5. /\ DOMAIN hash = D /\ hash = [k \in DOMAIN hash |-> hash[k]]
      /\ \A k \in D : hash[k] = Written(chances[k])
  <2> HIDE DEF D
  <2> QED BY ONLY Zenon
<1> HIDE DEF order
<1>6. Len(order) = Cardinality(D) /\ Len(order) \in Nat /\ order = [n \in 1 .. Len(order) |-> order[n]]
  <2> HIDE DEF D
  <2> QED BY ONLY <1>4
<1>7. MapTyped(hash, order, Letters, V)
  <2>1. \A k \in DOMAIN hash :
           /\ k \in {order[n] : n \in 1 .. Len(order)}
           /\ k \in Seq(Letters) /\ hash[k] \in Seq(Letters)
           /\ "," \notin ToSet(k) /\ ")" \notin ToSet(hash[k]) /\ Converts(hash[k], V)
    <3> SUFFICES ASSUME NEW k \in D
                 PROVE  /\ k \in {order[n] : n \in 1 .. Len(order)}
                        /\ k \in Seq(Letters) /\ hash[k] \in Seq(Letters)
                        /\ "," \notin ToSet(k) /\ ")" \notin ToSet(hash[k]) /\ Converts(hash[k], V)
      BY <1>5
    <3>1. hash[k] = Written(chances[k])
      BY <1>5
    <3>2. Converts(hash[k], V)
      BY <1>3, <3>1, Zenon DEF Converts
    <3>3. k \in {order[n] : n \in 1 .. Len(order)}
      BY <1>4, <1>6, Zenon
    <3> HIDE DEF hash, D, V
    <3> QED BY ONLY <1>3, <3>1, <3>2, <3>3, k \in D, Zenon
  <2> HIDE DEF hash
  <2> QED BY ONLY <1>5, <1>6, <2>1, Zenon DEF MapTyped
<1>8. Delimiters(Letters)
  BY LettersInk
<1> HIDE DEF V, hash
<1>9. /\ mapToString(hash, order) \in Seq(Letters) /\ Len(mapToString(hash, order)) # 1
      /\ parseMap(mapToString(hash, order), V) = [success |-> TRUE, map |-> hash]
  BY ONLY <1>7, <1>8, MapParsed
<1>10. parseMap(mapToString(hash, order), V).map = hash
  BY ONLY <1>9
<1>11. ChancesOf(chances) = mapToString(hash, order)
  BY ONLY Zenon DEF ChancesOf, hash, order
<1>12. [type \in D |-> IntOf(Written(chances[type]))] = chances
  <2>1. \A type \in D : IntOf(Written(chances[type])) = chances[type]
    BY <1>3
  <2> HIDE DEF D
  <2> QED BY ONLY <1>1, <2>1, Zenon
<1>13. checkWord(mapToString(hash, order))
  BY ONLY <1>9, Zenon DEF checkWord
<1> QED BY ONLY <1>9, <1>10, <1>11, <1>12, <1>13, Zenon DEF hash, V

(* A rule of a gene that has none yet, of which neither has a colon *)
RuleText(start, rule) == start \o <<":">> \o rule
WithRule(rules, start, rule) ==
    [k \in {start} \cup DOMAIN rules |-> IF k = start THEN rule ELSE rules[k]]

LEMMA RuleRead ==
  ASSUME NEW S, NEW c \in S, c = ":", NEW start \in Seq(S), NEW rule \in Seq(S), ":" \notin ToSet(start),
         NEW rules
  PROVE  /\ RuleText(start, rule) \in Seq(S) /\ RuleText(start, rule) # <<>>
         /\ \E n \in 1 .. Len(RuleText(start, rule)) : RuleText(start, rule)[n] = ":"
         /\ Rule(rules, RuleText(start, rule)) = WithRule(rules, start, rule)
<1> DEFINE colon == <<c>>
           t == (start \o colon) \o rule
           a == Len(start)
           b == Len(rule)
<1>1. RuleText(start, rule) = t
  BY ONLY c = ":", Zenon DEF RuleText
<1>2. colon \in Seq(S) /\ Len(colon) = 1 /\ colon[1] = c
  BY OneTyped
<1>3. a \in Nat /\ b \in Nat /\ start \in Seq(S) /\ rule \in Seq(S)
  BY LenProperties
<1> HIDE DEF colon
<1>4. /\ t \in Seq(S) /\ Len(t) = a + Len(colon) + b
      /\ \A n \in 1 .. a : t[n] = start[n]
      /\ \A n \in 1 .. Len(colon) : t[a + n] = colon[n]
      /\ \A n \in 1 .. b : t[a + Len(colon) + n] = rule[n]
  <2> DEFINE x == start
             y == rule
  <2>1. x \in Seq(S) /\ colon \in Seq(S) /\ y \in Seq(S)
    BY <1>2, <1>3
  <2> HIDE DEF x, y
  <2>2. IsInThree(S, x, colon, y)
    BY ONLY <2>1, InThree
  <2> QED BY ONLY <2>2, Zenon DEF IsInThree, x, y
<1> HIDE DEF a, b, t
<1>5. Len(t) = a + 1 + b /\ t[a + 1] = c /\ \A n \in 1 .. b : t[(a + 1) + n] = rule[n]
  <2>1. Len(colon) = 1 /\ 1 \in 1 .. Len(colon)
    BY ONLY <1>2
  <2>2. t[a + 1] = c
    BY ONLY <1>2, <1>4, <2>1, Zenon
  <2>3. Len(t) = a + 1 + b
    BY ONLY <1>4, <2>1, Zenon
  <2>4. \A n \in 1 .. b : t[a + 1 + n] = rule[n]
    BY ONLY <1>4, <2>1, Zenon
  <2> QED BY ONLY <2>2, <2>3, <2>4, Zenon
<1>6. \A n \in 1 .. a : t[n] # c
  <2> TAKE n \in 1 .. a
  <2>1. DOMAIN start = 1 .. a
    BY <1>3 DEF a
  <2>2. start[n] \in ToSet(start)
    BY <2>1, Zenon DEF ToSet
  <2>3. t[n] = start[n]
    BY <1>4
  <2> QED BY ONLY <2>2, <2>3, c = ":", ":" \notin ToSet(start), Zenon
<1>7. Upto(t, 1, c) = a + 1
  <2> DEFINE l == Len(t)
             e == a + 1
  <2>1. l \in Nat /\ 1 \in 1 .. l + 1 /\ e \in 1 .. l + 1 /\ t[e] = c
        /\ \A n \in 1 .. e - 1 : t[n] # c
    BY ONLY <1>3, <1>5, <1>6
  <2>2. l = Len(t)
    OBVIOUS
  <2> HIDE DEF l, e
  <2>3. Upto(t, 1, c) = e
    BY ONLY <2>1, <2>2, UptoIs
  <2> QED BY ONLY <2>3 DEF e
<1>8. SubSeq(t, 1, a) = start
  <2>1. \A n \in 1 .. Len(start) : t[0 + n] = start[n]
    BY ONLY <1>3, <1>4 DEF a
  <2>2. SubSeq(t, 0 + 1, 0 + Len(start)) = start
    BY ONLY <1>3, <2>1, 0 \in Int, SubSeqIs
  <2>3. 0 + 1 = 1 /\ 0 + Len(start) = a
    BY <1>3 DEF a
  <2> QED BY ONLY <2>2, <2>3, Zenon
<1>9. SubSeq(t, (a + 1) + 1, Len(t)) = rule
  <2> DEFINE e == a + 1
  <2>1. e \in Int /\ \A n \in 1 .. Len(rule) : t[e + n] = rule[n]
    BY ONLY <1>3, <1>5 DEF b
  <2>2. e + Len(rule) = Len(t)
    BY ONLY <1>3, <1>5 DEF b
  <2> HIDE DEF e
  <2>3. SubSeq(t, e + 1, e + Len(rule)) = rule
    BY ONLY <1>3, <2>1, SubSeqIs
  <2> QED BY ONLY <2>2, <2>3, Zenon DEF e
<1>10. Rule(rules, t) = WithRule(rules, start, rule)
  <2> DEFINE e == a + 1
  <2>1. ~(e > Len(t)) /\ e - 1 = a
    BY ONLY <1>3, <1>5
  <2> HIDE DEF e
  <2>2. Upto(t, 1, ":") = e /\ SubSeq(t, 1, e - 1) = start /\ SubSeq(t, e + 1, Len(t)) = rule
    BY ONLY <1>7, <1>8, <1>9, <2>1, c = ":", Zenon DEF e
  <2> QED BY ONLY <2>1, <2>2, Zenon DEF Rule, WithRule
<1>11. a + 1 \in 1 .. Len(t) /\ t[a + 1] = ":" /\ t # <<>>
  <2>1. a + 1 \in 1 .. Len(t) /\ Len(t) # 0
    BY ONLY <1>3, <1>5
  <2>2. t[a + 1] = ":"
    BY ONLY <1>5, c = ":", Zenon
  <2> QED BY <2>1, <2>2
<1> QED BY ONLY <1>1, <1>4, <1>10, <1>11, Zenon

LEMMA WithoutOne ==
  ASSUME NEW S, NEW s \in Seq(S), NEW e, e \notin ToSet(s)
  PROVE  s \in Seq(S \ {e})
<1>1. DOMAIN s = 1 .. Len(s) /\ Len(s) \in Nat /\ s = [n \in 1 .. Len(s) |-> s[n]]
      /\ \A n \in 1 .. Len(s) : s[n] \in S
  BY ONLY s \in Seq(S)
<1>2. \A n \in 1 .. Len(s) : s[n] # e
  <2>1. \A n \in 1 .. Len(s) : s[n] \in ToSet(s)
    BY ONLY <1>1, Zenon DEF ToSet
  <2> QED BY <2>1
<1> DEFINE T == S \ {e}
<1>3. \A n \in 1 .. Len(s) : s[n] \in T
  BY <1>1, <1>2
<1> HIDE DEF T
<1> QED BY ONLY <1>1, <1>3 DEF T

(* A text of one letter is the only part there is, unless it is a delimiter. *)
LEMMA OneLetter ==
  ASSUME NEW S, NEW text \in Seq(S), Len(text) = 1, NEW delim, text[1] # delim
  PROVE  Parts(text, delim) = <<text>>
<1> DEFINE none == <<>>
<1>1. none \in Seq(S) /\ none = <<>> /\ text # <<>> /\ \A n \in 1 .. Len(text) : text[n] # delim
  <2>1. \A n \in 1 .. Len(text) : n = 1
    BY ONLY Len(text) = 1
  <2> QED BY ONLY text \in Seq(S), Len(text) = 1, text[1] # delim, <2>1
<1> HIDE DEF none
<1>2. Parts((none \o text) \o none, delim) = Append(Parts(none, delim), text)
  BY ONLY text \in Seq(S), <1>1, PartsComes
<1>3. (none \o text) \o none = text
  <2>1. none \o text = text /\ text \o none = text
    BY ONLY text \in Seq(S), <1>1, ConcatEmptySeq
  <2> QED BY ONLY <2>1, Zenon
<1>4. Parts(none, delim) = <<>>
  BY ONLY <1>1, PartsOfNothing, Zenon
<1>5. Append(<<>>, text) = <<text>>
  OBVIOUS
<1> QED BY ONLY <1>2, <1>3, <1>4, <1>5, Zenon

(* Rules as text, and back *)
LEMMA RulesWritten ==
  ASSUME NEW rules, IsMap(rules),
         \A start \in DOMAIN rules :
            /\ rules[start] \in Seq(STRING)
            /\ Without(start, {Space, Newline, "#", ":", "."})
            /\ Without(rules[start], {Space, Newline, "#", "."})
  PROVE  /\ RulesOf(rules) \in Seq(Letters) /\ checkWord(RulesOf(rules))
         /\ FoldLeft(Rule, Nothing, Parts(RulesOf(rules), ".")) = rules
<1> DEFINE D == DOMAIN rules
           order == SetToSeq(D)
           c == Cardinality(D)
           Ruled == Letters \ {"."}
           list == [n \in 1 .. c |-> RuleText(order[n], rules[order[n]])]
           text == RulesOf(rules)
<1>1. IsFiniteSet(D) /\ D \subseteq Seq(STRING) /\ rules = [k \in D |-> rules[k]]
  BY Zenon DEF IsMap
<1>2. c \in Nat /\ order \in [1 .. c -> D] /\ \A k \in D : \E n \in 1 .. c : order[n] = k
  <2> HIDE DEF D
  <2>1. IsFiniteSet(D)
    BY <1>1
  <2> QED BY ONLY <2>1, AllInSequence
<1>3. \A s \in Seq(Letters) : "." \notin ToSet(s) => s \in Seq(Ruled)
  <2> TAKE s \in Seq(Letters)
  <2> DEFINE e == "."
             S == Letters
  <2>1. s \in Seq(S)
    OBVIOUS
  <2> HIDE DEF e, S
  <2>2. e \notin ToSet(s) => s \in Seq(S \ {e})
    BY ONLY <2>1, WithoutOne
  <2> QED BY ONLY <2>2 DEF e, S
<1>4. ASSUME NEW k \in D
      PROVE  k \in Seq(Ruled) /\ rules[k] \in Seq(Ruled) /\ ":" \notin ToSet(k)
  <2>1. /\ rules[k] \in Seq(STRING) /\ k \in Seq(STRING)
        /\ Without(k, {Space, Newline, "#", ":", "."}) /\ Without(rules[k], {Space, Newline, "#", "."})
    BY <1>1, <1>4
  <2>2. /\ Without(k, {Space, Newline, "#"}) /\ Without(rules[k], {Space, Newline, "#"})
        /\ "." \notin ToSet(k) /\ "." \notin ToSet(rules[k]) /\ ":" \notin ToSet(k)
    BY ONLY <2>1, Zenon DEF Without
  <2>3. k \in Seq(Letters) /\ rules[k] \in Seq(Letters)
    BY ONLY <2>1, <2>2, LettersInk, Zenon
  <2> QED BY ONLY <1>3, <2>2, <2>3, Zenon
<1>5. ":" \in Ruled /\ "." \in Letters /\ "." \notin Ruled /\ Ruled \subseteq Letters
  <2>1. ":" \in Letters /\ "." \in Letters
    BY LettersInk, Zenon
  <2>2. ":" # "."
    BY Zenon
  <2> HIDE DEF D, order, c, list, text
  <2> QED BY ONLY <2>1, <2>2, Zenon DEF Ruled
<1> HIDE DEF Ruled
<1>6. ASSUME NEW k \in D
      PROVE  /\ RuleText(k, rules[k]) \in Seq(Ruled) /\ RuleText(k, rules[k]) # <<>>
             /\ \E n \in 1 .. Len(RuleText(k, rules[k])) : RuleText(k, rules[k])[n] = ":"
             /\ \A rs : Rule(rs, RuleText(k, rules[k])) = WithRule(rs, k, rules[k])
  <2> DEFINE r == rules[k]
             colon == ":"
  <2>1. k \in Seq(Ruled) /\ r \in Seq(Ruled) /\ ":" \notin ToSet(k) /\ colon \in Ruled /\ colon = ":"
    BY <1>4, <1>5, <1>6
  <2> HIDE DEF r, colon
  <2> SUFFICES ASSUME NEW rs
               PROVE  /\ RuleText(k, r) \in Seq(Ruled) /\ RuleText(k, r) # <<>>
                      /\ \E n \in 1 .. Len(RuleText(k, r)) : RuleText(k, r)[n] = ":"
                      /\ Rule(rs, RuleText(k, r)) = WithRule(rs, k, r)
    BY Zenon DEF r
  <2> QED BY ONLY <2>1, RuleRead
<1> HIDE DEF D
<1>7. \A n \in 1 .. c : order[n] \in D
  BY ONLY <1>2
<1>8. list \in Seq(Seq(Ruled)) /\ Len(list) = c /\ DOMAIN list = 1 .. c
      /\ \A n \in 1 .. c : list[n] = RuleText(order[n], rules[order[n]])
  <2> DEFINE A == Seq(Ruled)
             x(n) == RuleText(order[n], rules[order[n]])
  <2>1. \A n \in 1 .. c : x(n) \in A
    BY <1>6, <1>7
  <2> HIDE DEF A, x, c
  <2>2. [n \in 1 .. c |-> x(n)] \in Seq(A)
    BY ONLY <1>2, <2>1
  <2>3. Len([n \in 1 .. c |-> x(n)]) = c /\ DOMAIN [n \in 1 .. c |-> x(n)] = 1 .. c
        /\ \A n \in 1 .. c : [m \in 1 .. c |-> x(m)][n] = x(n)
    BY ONLY <1>2
  <2>4. list = [n \in 1 .. c |-> x(n)]
    BY DEF x
  <2> HIDE DEF list
  <2> QED BY ONLY <2>2, <2>3, <2>4, Zenon DEF A, x
<1>9. text = vectorToString(list, <<".">>).text
  BY ONLY Zenon DEF RulesOf, RuleText, list, order, c, D
<1> HIDE DEF list, text, order, c
<1>10. text \in Seq(Letters) /\ Parts(text, ".") = list
  <2> DEFINE delim == "."
             S == Letters
  <2>1. delim \in S /\ delim \notin Ruled /\ Ruled \subseteq S /\ delim = "."
    BY <1>5
  <2> HIDE DEF delim, S
  <2>2. \A n \in 1 .. Len(list) : list[n] \in Seq(Ruled) /\ list[n] # <<>>
    <3>1. \A n \in 1 .. Len(list) : list[n] \in Seq(Ruled)
      BY ONLY <1>8, ElementOfSeq
    <3>2. \A n \in 1 .. Len(list) : list[n] # <<>>
      <4> TAKE n \in 1 .. Len(list)
      <4>1. n \in 1 .. c
        BY ONLY <1>8
      <4>2. order[n] \in D /\ list[n] = RuleText(order[n], rules[order[n]])
        BY ONLY <1>7, <1>8, <4>1
      <4>3. RuleText(order[n], rules[order[n]]) # <<>>
        BY ONLY <1>6, <4>2
      <4> QED BY ONLY <4>2, <4>3, Zenon
    <3> QED BY ONLY <3>1, <3>2, Zenon
  <2>3. \A n \in 1 .. Len(list) : \A m \in 1 .. Len(list[n]) : list[n][m] # delim
    <3> TAKE n \in 1 .. Len(list)
    <3> DEFINE s == list[n]
    <3>1. s \in Seq(Ruled)
      BY <2>2
    <3> HIDE DEF s
    <3>2. \A m \in 1 .. Len(s) : s[m] \in Ruled
      BY ONLY <3>1, ElementOfSeq
    <3>3. \A m \in 1 .. Len(s) : s[m] # delim
      BY ONLY <2>1, <3>2, Zenon
    <3> QED BY ONLY <3>3, Zenon DEF s
  <2>4. list \in Seq(Seq(S))
    <3> DEFINE A == Seq(Ruled)
               B == Seq(S)
    <3>1. A \subseteq B
      BY ONLY <2>1, MoreElements
    <3>2. list \in Seq(A)
      BY <1>8
    <3> HIDE DEF A, B
    <3>3. list \in Seq(B)
      BY ONLY <3>1, <3>2, MoreElements
    <3> QED BY ONLY <3>3 DEF B
  <2>5. list # <<>> => list[Len(list)] # <<>>
    <3>1. list # <<>> => Len(list) \in 1 .. Len(list)
      BY ONLY <2>4
    <3> QED BY ONLY <2>2, <3>1, Zenon
  <2>6. /\ vectorToString(list, <<delim>>).text \in Seq(S)
        /\ Parts(vectorToString(list, <<delim>>).text, delim) = list
    BY ONLY <2>1, <2>3, <2>4, <2>5, JoinedParts
  <2> QED BY ONLY <1>9, <2>1, <2>6, Zenon DEF S
<1>11. checkWord(text)
  <2> SUFFICES ASSUME ~checkWord(text) PROVE FALSE
    OBVIOUS
  <2>1. Len(text) = 1 /\ text[1] \in Sections
    BY ONLY ~checkWord(text), Zenon DEF checkWord
  <2>2. text[1] # "." /\ text[1] # ":"
    BY ONLY <2>1, Zenon DEF Sections
  <2> DEFINE delim == "."
  <2>3. text[1] # delim
    BY <2>2
  <2> HIDE DEF delim
  <2>4. Parts(text, delim) = <<text>>
    BY ONLY <1>10, <2>1, <2>3, OneLetter
  <2>5. list = <<text>>
    BY ONLY <1>10, <2>4, Zenon DEF delim
  <2>6. Len(list) = 1 /\ list[1] = text
    BY ONLY <2>5
  <2>7. 1 \in 1 .. c
    BY ONLY <1>8, <2>6
  <2>8. \E n \in 1 .. Len(text) : text[n] = ":"
    <3>1. order[1] \in D /\ list[1] = RuleText(order[1], rules[order[1]])
      BY ONLY <1>7, <1>8, <2>7
    <3> DEFINE t == RuleText(order[1], rules[order[1]])
    <3>2. \E n \in 1 .. Len(t) : t[n] = ":"
      BY ONLY <1>6, <3>1
    <3> HIDE DEF t
    <3>3. text = t
      BY ONLY <2>6, <3>1, Zenon DEF t
    <3> QED BY ONLY <3>2, <3>3, Zenon
  <2>9. \A n \in 1 .. Len(text) : n = 1
    BY ONLY <2>1
  <2> QED BY ONLY <2>2, <2>8, <2>9, Zenon
<1>12. PICK G : /\ G[0] = Nothing
                /\ \A n \in 1 .. c : G[n] = Rule(G[n - 1], list[n])
                /\ FoldLeft(Rule, Nothing, list) = G[c]
  BY ONLY <1>2, <1>8, RulesInOrder
<1> DEFINE E(n) == {order[m] : m \in 1 .. n}
           Q(n) == G[n] = [k \in E(n) |-> rules[k]]
<1>13. Q(0)
  <2>1. E(0) = {}
    OBVIOUS
  <2> HIDE DEF E
  <2>2. [k \in {} |-> rules[k]] = Nothing
    BY DEF Nothing
  <2> QED BY ONLY <1>12, <2>1, <2>2, Zenon
<1>14. ASSUME NEW n \in 1 .. c, Q(n - 1) PROVE Q(n)
  <2> DEFINE start == order[n]
             F == E(n - 1)
             rs == G[n - 1]
  <2>1. E(n) = F \cup {start}
    <3>1. \A m : m \in 1 .. n <=> m \in 1 .. n - 1 \/ m = n
      BY ONLY n \in 1 .. c, <1>2
    <3> QED BY ONLY <3>1
  <2>2. G[n] = Rule(rs, RuleText(start, rules[start])) /\ start \in D
    BY <1>7, <1>8, <1>12
  <2>3. rs = [k \in F |-> rules[k]]
    BY <1>14
  <2> HIDE DEF E, F, start, rs
  <2>4. G[n] = WithRule(rs, start, rules[start])
    BY ONLY <1>6, <2>2, Zenon
  <2>5. DOMAIN rs = F /\ \A k \in F : rs[k] = rules[k]
    BY ONLY <2>3
  <2>6. WithRule(rs, start, rules[start]) = [k \in F \cup {start} |-> rules[k]]
    BY ONLY <2>5 DEF WithRule
  <2> QED BY ONLY <2>1, <2>4, <2>6, Zenon
<1> HIDE DEF Q
<1>15. Q(c)
  <2> DEFINE B == {n \in 0 .. c : ~Q(n)}
  <2> SUFFICES ASSUME B # {} PROVE FALSE
    BY <1>2
  <2>1. PICK n : n \in B /\ \A m \in B : n <= m
    <3>1. B \in SUBSET Nat
      BY <1>2
    <3> HIDE DEF B
    <3> QED BY <3>1, LeastNatural
  <2>2. n \in 0 .. c /\ ~Q(n) /\ n # 0
    BY <1>13, <2>1
  <2>3. n \in 1 .. c /\ n - 1 \in 0 .. c /\ ~(n <= n - 1)
    BY ONLY <1>2, <2>2
  <2>4. n - 1 \notin B
    <3> HIDE DEF B
    <3> QED BY ONLY <2>1, <2>3
  <2>5. Q(n - 1)
    BY <2>3, <2>4
  <2> QED BY ONLY <1>14, <2>2, <2>3, <2>5, Zenon
<1>16. E(c) = D
  BY <1>2, <1>7
<1>17. FoldLeft(Rule, Nothing, list) = rules
  <2> HIDE DEF E
  <2> QED BY ONLY <1>1, <1>12, <1>15, <1>16, Zenon DEF Q
<1> QED BY ONLY <1>10, <1>11, <1>17, Zenon DEF text

(* What the sections of a file are *)
SectionsOf(o, V) ==
    /\ V["maxSize"] = Written(o.maxSize) /\ V["minSize"] = Written(o.minSize)
    /\ V["currentGene"] = Written(o.currentGene)
    /\ V["options"] = vectorToString(o.options, <<",">>).text
    /\ V["system"] = vectorToString(o.system, <<",">>).text
    /\ V["mutationRules"] = ChancesOf(o.mutationProbabilities)
    /\ V["growthRules"] = RulesOf(o.growthRules)

LEMMA SectionsWritten ==
  ASSUME NEW o
  PROVE  SectionsOf(o, Output(o))
<1> DEFINE one(section) ==
        CASE section \in {"maxSize", "minSize", "currentGene"} -> Written(o[section])
          [] section \in {"options", "system"} -> vectorToString(o[section], <<",">>).text
          [] section = "mutationRules" -> ChancesOf(o.mutationProbabilities)
          [] section = "growthRules" -> RulesOf(o.growthRules)
<1>1. \A section \in Sections : Output(o)[section] = one(section)
  <2>1. Output(o) = [section \in Sections |-> one(section)]
    BY DEF Output
  <2> HIDE DEF one
  <2> QED BY ONLY <2>1, Zenon
<1>2. {"maxSize", "minSize", "options", "system", "mutationRules", "growthRules", "currentGene"}
        \subseteq Sections
  BY DEF Sections
<1>3. one("maxSize") = Written(o.maxSize) /\ one("minSize") = Written(o.minSize)
      /\ one("currentGene") = Written(o.currentGene)
  OBVIOUS
<1>4. one("options") = vectorToString(o.options, <<",">>).text
      /\ one("system") = vectorToString(o.system, <<",">>).text
  OBVIOUS
<1>5. one("mutationRules") = ChancesOf(o.mutationProbabilities)
  OBVIOUS
<1>6. one("growthRules") = RulesOf(o.growthRules)
  OBVIOUS
<1> HIDE DEF one
<1> QED BY ONLY <1>1, <1>2, <1>3, <1>4, <1>5, <1>6, Zenon DEF SectionsOf

LEMMA IntMaxLow == ASSUME NEW n \in 0 .. UintSize - 1 PROVE n \in Nat /\ n % UintSize = n /\ n >= -IntMax - 1
<1>1. UintSize \in Nat \ {0}
  BY ONLY GenericAssumption
<1>2. IntMax \in Int /\ IntMax >= -1
  BY ONLY <1>1 DEF IntMax
<1> QED BY ONLY <1>1, <1>2, n \in 0 .. UintSize - 1

LEMMA FreshReplaced ==
  ASSUME NEW a, NEW b, NEW c, NEW d, NEW e, NEW f, NEW g
  PROVE  [Fresh EXCEPT !.options = a, !.system = b, !.growthRules = c, !.mutationProbabilities = d,
                       !.minSize = e, !.maxSize = f, !.currentGene = g]
           = [system |-> b, options |-> a, growthRules |-> c, mutationProbabilities |-> d,
              minSize |-> e, maxSize |-> f, currentGene |-> g]
<1> DEFINE D == {"system", "options", "growthRules", "mutationProbabilities", "minSize", "maxSize",
                 "currentGene"}
           o == [Fresh EXCEPT !.options = a, !.system = b, !.growthRules = c,
                              !.mutationProbabilities = d, !.minSize = e, !.maxSize = f,
                              !.currentGene = g]
           r == [system |-> b, options |-> a, growthRules |-> c, mutationProbabilities |-> d,
                 minSize |-> e, maxSize |-> f, currentGene |-> g]
<1>1. DOMAIN Fresh = D
  BY DEF Fresh
<1>2. DOMAIN o = D /\ o = [k \in D |-> o[k]]
  BY <1>1
<1>3. /\ o["system"] = b /\ o["options"] = a /\ o["growthRules"] = c
      /\ o["mutationProbabilities"] = d /\ o["minSize"] = e /\ o["maxSize"] = f
      /\ o["currentGene"] = g
  BY <1>1
<1>4. DOMAIN r = D /\ r = [k \in D |-> r[k]]
  OBVIOUS
<1>5. /\ r["system"] = b /\ r["options"] = a /\ r["growthRules"] = c
      /\ r["mutationProbabilities"] = d /\ r["minSize"] = e /\ r["maxSize"] = f
      /\ r["currentGene"] = g
  OBVIOUS
<1> HIDE DEF o, r
<1>6. \A k \in D : o[k] = r[k]
  BY ONLY <1>3, <1>5, Zenon DEF D
<1> HIDE DEF D
<1>7. o = r
  BY ONLY <1>2, <1>4, <1>6, Zenon
<1> QED BY ONLY <1>7 DEF o, r

(* What initialize makes of the sections, of a system that is new *)
LEMMA SectionsLoaded ==
  ASSUME NEW o, NEW text, NEW V, SectionsOf(o, V), keyValuePairs(text) = [k \in Sections |-> V[k]],
         IsSystem(o),
         parseVector(V["options"]) = o.options, parseVector(V["system"]) = o.system,
         FoldLeft(Rule, Nothing, Parts(V["growthRules"], ".")) = o.growthRules,
         [type \in DOMAIN parseMap(V["mutationRules"], "int").map |->
             IntOf(parseMap(V["mutationRules"], "int").map[type])] = o.mutationProbabilities,
         IntOf(V["minSize"]) % UintSize = o.minSize, IntOf(V["maxSize"]) % UintSize = o.maxSize,
         Default(stringTo(V["currentGene"])) % UintSize = o.currentGene
  PROVE  initialize(Fresh, text) = o
<1> DEFINE pairs == keyValuePairs(text)
           input(section) == IF section \in DOMAIN pairs THEN pairs[section] ELSE <<>>
           chances == parseMap(input("mutationRules"), "int").map
           probabilities == [type \in DOMAIN chances |-> IntOf(chances[type])]
<1>1. DOMAIN pairs = Sections /\ \A k \in Sections : pairs[k] = V[k]
  BY Zenon
<1>2. \A k \in Sections : input(k) = V[k]
  <2> HIDE DEF pairs
  <2> QED BY ONLY <1>1, Zenon
<1>3. /\ input("maxSize") = V["maxSize"] /\ input("minSize") = V["minSize"]
      /\ input("currentGene") = V["currentGene"] /\ input("options") = V["options"]
      /\ input("system") = V["system"] /\ input("mutationRules") = V["mutationRules"]
      /\ input("growthRules") = V["growthRules"]
  <2> HIDE DEF input
  <2>1. {"maxSize", "minSize", "options", "system", "mutationRules", "growthRules", "currentGene"}
          \subseteq Sections
    BY DEF Sections
  <2> QED BY ONLY <1>2, <2>1, Zenon
<1>4. initialize(Fresh, text) =
        [Fresh EXCEPT
          !.options = @ \o parseVector(input("options")),
          !.system = parseVector(input("system")),
          !.growthRules = FoldLeft(Rule, @, Parts(input("growthRules"), ".")),
          !.mutationProbabilities = probabilities,
          !.minSize = IntOf(input("minSize")) % UintSize,
          !.maxSize = IntOf(input("maxSize")) % UintSize,
          !.currentGene = Default(stringTo(input("currentGene"))) % UintSize]
  BY ONLY Zenon DEF initialize
<1>5. probabilities = o.mutationProbabilities
  <2> HIDE DEF input
  <2> QED BY <1>3, Zenon
<1> HIDE DEF input, probabilities
<1>6. Fresh.options \o parseVector(input("options")) = o.options
  <2>1. o.options \in Seq(Seq(STRING))
    BY Zenon DEF IsSystem
  <2>2. <<>> \o o.options = o.options
    BY ONLY <2>1, ConcatEmptySeq
  <2>3. Fresh.options = <<>>
    BY ONLY DEF Fresh
  <2>4. parseVector(input("options")) = o.options
    BY <1>3, Zenon
  <2> QED BY ONLY <2>2, <2>3, <2>4, Zenon
<1>7. parseVector(input("system")) = o.system
  BY <1>3, Zenon
<1>8. FoldLeft(Rule, Fresh.growthRules, Parts(input("growthRules"), ".")) = o.growthRules
  <2>1. Fresh.growthRules = Nothing
    BY ONLY DEF Fresh
  <2> QED BY <1>3, <2>1, Zenon
<1>9. IntOf(input("minSize")) % UintSize = o.minSize
  BY <1>3, Zenon
<1>10. IntOf(input("maxSize")) % UintSize = o.maxSize
  BY <1>3, Zenon
<1>11. Default(stringTo(input("currentGene"))) % UintSize = o.currentGene
  BY <1>3, Zenon
<1>12. initialize(Fresh, text) =
        [Fresh EXCEPT
          !.options = o.options, !.system = o.system, !.growthRules = o.growthRules,
          !.mutationProbabilities = o.mutationProbabilities, !.minSize = o.minSize,
          !.maxSize = o.maxSize, !.currentGene = o.currentGene]
  BY ONLY <1>4, <1>5, <1>6, <1>7, <1>8, <1>9, <1>10, <1>11, Zenon
<1>13. o = [system |-> o.system, options |-> o.options, growthRules |-> o.growthRules,
            mutationProbabilities |-> o.mutationProbabilities, minSize |-> o.minSize,
            maxSize |-> o.maxSize, currentGene |-> o.currentGene]
  BY Zenon DEF IsSystem
<1> QED BY ONLY <1>12, <1>13, FreshReplaced, Zenon

LEMMA SystemLoaded ==
  ASSUME NEW o, IsSystem(o), Readable(o)
  PROVE  Loaded(o) = o
<1> DEFINE V == Output(o)
<1>1. SectionsOf(o, V)
  BY ONLY SectionsWritten
<1> HIDE DEF V
<1>2. ASSUME NEW n \in {o.minSize, o.maxSize, o.currentGene}
      PROVE  /\ Written(n) \in Seq(Letters) /\ checkWord(Written(n))
             /\ Default(stringTo(Written(n))) % UintSize = n
             /\ n <= IntMax => IntOf(Written(n)) % UintSize = n
  <2>1. n \in 0 .. UintSize - 1 /\ Numeric(n)
    BY <1>2, Zenon DEF IsSystem
  <2>2. n \in Nat /\ n % UintSize = n /\ n >= -IntMax - 1
    BY ONLY <2>1, IntMaxLow
  <2>3. n \in Int
    BY ONLY <2>2
  <2>4. /\ Written(n) \in Seq(Letters) /\ checkWord(Written(n)) /\ stringTo(Written(n)) = n
        /\ n # Bad
        /\ n <= IntMax /\ n >= -IntMax - 1 => IsInt(Written(n)) /\ IntOf(Written(n)) = n
    BY ONLY <2>1, <2>3, NumberWritten
  <2>5. Default(stringTo(Written(n))) = n
    BY ONLY <2>4, Zenon DEF Default
  <2> QED BY ONLY <2>2, <2>4, <2>5, Zenon
<1>3. ASSUME NEW list \in {o.system, o.options}
      PROVE  /\ vectorToString(list, <<",">>).text \in Seq(Letters)
             /\ checkWord(vectorToString(list, <<",">>).text)
             /\ parseVector(vectorToString(list, <<",">>).text) = list
  <2>1. list \in Seq(Seq(STRING)) /\ ListReadable(list)
    BY <1>3, Zenon DEF IsSystem, Readable
  <2> QED BY ONLY <2>1, ListWritten
<1> DEFINE chances == o.mutationProbabilities
           rules == o.growthRules
<1>4. /\ ChancesOf(chances) \in Seq(Letters) /\ checkWord(ChancesOf(chances))
      /\ parseMap(ChancesOf(chances), "int").map
           = [type \in DOMAIN chances |-> Written(chances[type])]
      /\ [type \in DOMAIN chances |-> IntOf(Written(chances[type]))] = chances
  <2>1. IsMap(chances)
    BY Zenon DEF IsSystem
  <2>2. \A type \in DOMAIN chances :
           /\ chances[type] \in -IntMax - 1 .. IntMax /\ Numeric(chances[type])
           /\ Without(type, {Space, Newline, "#", ","})
    BY Zenon DEF IsSystem, Readable
  <2> HIDE DEF chances
  <2> QED BY ONLY <2>1, <2>2, ChancesWritten
<1>5. /\ RulesOf(rules) \in Seq(Letters) /\ checkWord(RulesOf(rules))
      /\ FoldLeft(Rule, Nothing, Parts(RulesOf(rules), ".")) = rules
  <2>1. IsMap(rules)
    BY Zenon DEF IsSystem
  <2>2. \A start \in DOMAIN rules :
           /\ rules[start] \in Seq(STRING)
           /\ Without(start, {Space, Newline, "#", ":", "."})
           /\ Without(rules[start], {Space, Newline, "#", "."})
    BY Zenon DEF IsSystem, Readable
  <2> HIDE DEF rules
  <2> QED BY ONLY <2>1, <2>2, RulesWritten
<1>6. \A section \in Sections : V[section] \in Seq(Letters) /\ checkWord(V[section])
  <2> DEFINE good(v) == v \in Seq(Letters) /\ checkWord(v)
  <2>1. /\ good(V["maxSize"]) /\ good(V["minSize"]) /\ good(V["currentGene"])
        /\ good(V["options"]) /\ good(V["system"])
        /\ good(V["mutationRules"]) /\ good(V["growthRules"])
    BY ONLY <1>1, <1>2, <1>3, <1>4, <1>5, Zenon DEF SectionsOf
  <2> HIDE DEF good
  <2>2. \A section \in Sections : good(V[section])
    BY ONLY <2>1, Zenon DEF Sections
  <2> QED BY ONLY <2>2 DEF good
<1> DEFINE text == save(o)
<1>7. keyValuePairs(text) = [k \in Sections |-> V[k]]
  <2>1. Ink(Letters)
    BY ONLY LettersInk
  <2>2. keyValuePairs(FlattenSeq([n \in DOMAIN Order |-> Line(Order[n], V[Order[n]])]))
          = [k \in Sections |-> V[k]]
    BY ONLY <1>6, <2>1, FileRead
  <2>3. text = FlattenSeq([n \in DOMAIN Order |-> Line(Order[n], V[Order[n]])])
    BY ONLY Zenon DEF save, V
  <2> QED BY ONLY <2>2, <2>3, Zenon
<1> HIDE DEF text
<1>8. parseVector(V["options"]) = o.options /\ parseVector(V["system"]) = o.system
  BY ONLY <1>1, <1>3, Zenon DEF SectionsOf
<1>9. FoldLeft(Rule, Nothing, Parts(V["growthRules"], ".")) = o.growthRules
  BY ONLY <1>1, <1>5, Zenon DEF SectionsOf
<1>10. [type \in DOMAIN parseMap(V["mutationRules"], "int").map |->
           IntOf(parseMap(V["mutationRules"], "int").map[type])] = o.mutationProbabilities
  <2> DEFINE m == parseMap(V["mutationRules"], "int").map
  <2>1. m = [type \in DOMAIN chances |-> Written(chances[type])]
    BY ONLY <1>1, <1>4, Zenon DEF SectionsOf
  <2> HIDE DEF m
  <2>2. DOMAIN m = DOMAIN chances /\ \A type \in DOMAIN chances : m[type] = Written(chances[type])
    BY ONLY <2>1
  <2>3. [type \in DOMAIN m |-> IntOf(m[type])] = [type \in DOMAIN chances |-> IntOf(Written(chances[type]))]
    BY ONLY <2>2
  <2> QED BY ONLY <1>4, <2>3, Zenon DEF m
<1>11. IntOf(V["minSize"]) % UintSize = o.minSize /\ IntOf(V["maxSize"]) % UintSize = o.maxSize
  <2>1. o.minSize <= IntMax /\ o.maxSize <= IntMax
    BY Zenon DEF Readable
  <2> QED BY ONLY <1>1, <1>2, <2>1, Zenon DEF SectionsOf
<1>12. Default(stringTo(V["currentGene"])) % UintSize = o.currentGene
  BY ONLY <1>1, <1>2, Zenon DEF SectionsOf
<1>13. initialize(Fresh, text) = o
  BY ONLY <1>1, <1>7, <1>8, <1>9, <1>10, <1>11, <1>12, IsSystem(o), SectionsLoaded, Zenon
<1> QED BY ONLY <1>13, Zenon DEF Loaded, text

-----------------------------------------------------------------------------
(* Two interpreters *)

Inc == {"system", "attributes", "sizes", "points", "elements", "pointStack",
        "movementStack", "verticalStack", "horizontalStack", "currentSystemIndex", "bracketCount"}
Stacked(s, n) == IsSeq(s) /\ Len(s) = n

LEMMA StackPushed ==
  ASSUME NEW n \in Nat, NEW s, Stacked(s, n + 1)
  PROVE  /\ Stacked(Incremental!Pushed(s), n + 2)
         /\ \A k \in 1 .. n + 1 : Incremental!Pushed(s)[k] = s[k]
         /\ Incremental!Pushed(s)[n + 2] = s[n + 1]
<1>1. PICK S : s \in Seq(S)
  BY DEF Stacked, IsSeq
<1>2. Len(s) = n + 1
  BY DEF Stacked
<1>3. s[n + 1] \in S
  BY <1>1, <1>2, ElementOfSeq
<1>4. Incremental!Pushed(s) = Append(s, s[n + 1])
  BY <1>2 DEF Incremental!Pushed, Incremental!Top
<1>5. /\ Append(s, s[n + 1]) \in Seq(S) /\ Len(Append(s, s[n + 1])) = n + 1 + 1
      /\ \A k \in 1 .. n + 1 : Append(s, s[n + 1])[k] = s[k]
      /\ Append(s, s[n + 1])[n + 1 + 1] = s[n + 1]
  BY <1>1, <1>2, <1>3, AppendProperties
<1>6. n + 1 + 1 = n + 2
  OBVIOUS
<1> QED BY <1>4, <1>5, <1>6, Zenon DEF Stacked, IsSeq

LEMMA StackPopped ==
  ASSUME NEW n \in Nat \ {0}, NEW s, Stacked(s, n + 1)
  PROVE  /\ Stacked(Incremental!Popped(s), n)
         /\ \A k \in 1 .. n : Incremental!Popped(s)[k] = s[k]
<1>1. PICK S : s \in Seq(S)
  BY DEF Stacked, IsSeq
<1>2. Len(s) = n + 1
  BY DEF Stacked
<1>3. Incremental!Popped(s) = SubSeq(s, 1, n)
  BY <1>2 DEF Incremental!Popped
<1>4. \A k \in 1 .. n : s[k] \in S
  BY <1>1, <1>2, ElementOfSeq
<1>5. /\ SubSeq(s, 1, n) \in Seq(S) /\ Len(SubSeq(s, 1, n)) = n
      /\ \A k \in 1 .. n : SubSeq(s, 1, n)[k] = s[k]
  BY <1>1, <1>2, <1>4, SubSeqProperties
<1> QED BY <1>3, <1>5, Zenon DEF Stacked, IsSeq

LEMMA StackChanged ==
  ASSUME NEW n \in Nat, NEW s, Stacked(s, n + 1), NEW x
  PROVE  /\ Stacked(Incremental!WithTop(s, x), n + 1)
         /\ \A k \in 1 .. n : Incremental!WithTop(s, x)[k] = s[k]
         /\ Incremental!WithTop(s, x)[n + 1] = x
<1>1. PICK S : s \in Seq(S)
  BY DEF Stacked, IsSeq
<1>2. Len(s) = n + 1
  BY DEF Stacked
<1> DEFINE r == [s EXCEPT ![n + 1] = x]
           T == S \cup {x}
<1>3. Incremental!WithTop(s, x) = r
  BY <1>2 DEF Incremental!WithTop
<1>4. DOMAIN s = 1 .. n + 1 /\ \A k \in 1 .. n + 1 : s[k] \in S
  BY <1>1, <1>2, ElementOfSeq, LenProperties
<1>5. r \in [1 .. n + 1 -> T] /\ r[n + 1] = x /\ \A k \in 1 .. n : r[k] = s[k]
  BY <1>1, <1>4
<1> HIDE DEF r, T
<1>6. r \in Seq(T) /\ Len(r) = n + 1
  BY <1>5
<1> QED BY <1>3, <1>5, <1>6 DEF Stacked, IsSeq

LEMMA StackAppended ==
  ASSUME NEW s, IsSeq(s), NEW x
  PROVE  IsSeq(Append(s, x)) /\ Len(Append(s, x)) = Len(s) + 1
<1>1. PICK S : s \in Seq(S)
  BY DEF IsSeq
<1> DEFINE T == S \cup {x}
<1>2. s \in Seq(T) /\ x \in T
  <2>1. S \subseteq T
    OBVIOUS
  <2> HIDE DEF T
  <2>2. s \in Seq(T)
    BY <1>1, <2>1, SeqMonotonic
  <2> QED BY <2>2 DEF T
<1> HIDE DEF T
<1> QED BY <1>2, AppendProperties DEF IsSeq

Match(x, y) == (Len(x) = 3 /\ Len(y) = 3) \/ x = y

(* What both have said, and an item more of each *)
LEMMA ItemsAppended ==
  ASSUME NEW c, IsSeq(c), NEW d, IsSeq(d), NEW x, NEW y, NEW exact \in BOOLEAN,
         SameItems(c, d, exact), Match(y, x), exact => x = y
  PROVE  IsSeq(d \o <<y>>) /\ SameItems(Append(c, x), d \o <<y>>, exact)
<1>1. PICK S : c \in Seq(S)
  BY DEF IsSeq
<1>2. PICK T : d \in Seq(T)
  BY DEF IsSeq
<1> DEFINE U == (S \cup T) \cup {x, y}
<1>3. c \in Seq(U) /\ d \in Seq(U) /\ x \in U /\ y \in U
  <2>1. S \subseteq U /\ T \subseteq U
    OBVIOUS
  <2>2. x \in U /\ y \in U
    OBVIOUS
  <2> HIDE DEF U
  <2> QED BY <1>1, <1>2, <2>1, <2>2, SeqMonotonic
<1> HIDE DEF U
<1>4. d \o <<y>> = Append(d, y)
  BY <1>3, AppendIsConcat
<1> DEFINE cx == Append(c, x)
           dy == Append(d, y)
           l == Len(c)
<1>5. /\ l \in Nat /\ Len(d) = l /\ DOMAIN d = 1 .. l
      /\ \A n \in 1 .. l : Match(d[n], c[n])
      /\ exact => d = c
  BY <1>3, LenProperties DEF SameItems, Match
<1>6. /\ cx \in Seq(U) /\ Len(cx) = l + 1 /\ \A n \in 1 .. l : cx[n] = c[n]
      /\ cx[l + 1] = x
  BY <1>3, AppendProperties
<1>7. /\ dy \in Seq(U) /\ Len(dy) = l + 1 /\ DOMAIN dy = 1 .. l + 1
      /\ \A n \in 1 .. l : dy[n] = d[n]
      /\ dy[l + 1] = y
  BY <1>3, <1>5, AppendProperties, LenProperties
<1>8. exact => dy = cx
  BY <1>5
<1> HIDE DEF cx, dy, l
<1>9. ASSUME NEW n \in 1 .. l + 1
      PROVE  Match(dy[n], cx[n])
  <2>1. CASE n = l + 1
    BY <1>6, <1>7, <2>1
  <2>2. CASE n # l + 1
    <3>1. n \in 1 .. l
      BY <1>5, <2>2
    <3> QED BY <1>5, <1>6, <1>7, <3>1, Zenon
  <2> QED BY <2>1, <2>2
<1>10. SameItems(cx, dy, exact)
  BY <1>6, <1>7, <1>8, <1>9 DEF SameItems, Match
<1>11. IsSeq(dy)
  BY <1>7 DEF IsSeq
<1> QED BY <1>4, <1>10, <1>11 DEF cx, dy

(* A turtle of the incremental interpreter in which n brackets are open *)
InStep(t, attributes, n) ==
    /\ DOMAIN t = Inc /\ t.attributes = attributes /\ t.sizes = [g \in {} |-> 0]
    /\ IsSeq(t.points) /\ t.bracketCount = n
    /\ Stacked(t.pointStack, n + 1) /\ Stacked(t.movementStack, n + 1)
    /\ Stacked(t.verticalStack, n + 1) /\ Stacked(t.horizontalStack, n + 1)

(* Where the other one is, and was when it opened what is open *)
PointAt(g, k) == IF k <= g.bracketScope THEN g.stack[k][1] ELSE g.turtlePoint
MovementAt(g, k) == IF k <= g.bracketScope THEN g.stack[k][2] ELSE g.turtleMovementAxis

SamePlaces(g, t) ==
    \A k \in 1 .. g.bracketScope + 1 :
        t.pointStack[k][2] = PointAt(g, k) /\ t.movementStack[k] = MovementAt(g, k)

Twins(g, t, attributes, items, exact) ==
    /\ Sound(g) /\ InStep(t, attributes, g.bracketScope)
    /\ IsSeq(items) /\ SameItems(g.coordinates, items, exact)
    /\ exact => SamePlaces(g, t)

LEMMA SoundFacts ==
  ASSUME NEW g, Sound(g)
  PROVE  /\ g.bracketScope \in Nat /\ IsSeq(g.coordinates) /\ Len(g.stack) = g.bracketScope
         /\ g.stack \in Seq([1 .. 3 -> Vectors])
         /\ DOMAIN g = {"turtlePoint", "turtleMovementAxis", "turtleCrossProduct", "stack",
                        "bracketScope", "coordinates"}
BY DEF Sound, Turtles, Balanced, IsSeq

(* A turtle that has moved to a point *)
MovedOn(u, t, p) ==
    /\ DOMAIN u = Inc /\ u.attributes = t.attributes /\ u.sizes = t.sizes
    /\ u.points = Append(t.points, p) /\ u.bracketCount = t.bracketCount
    /\ u.pointStack = Incremental!WithTop(t.pointStack, <<Len(t.points), p>>)
    /\ u.movementStack = t.movementStack /\ u.verticalStack = t.verticalStack
    /\ u.horizontalStack = t.horizontalStack
    /\ u.currentSystemIndex = t.currentSystemIndex

LEMMA MovedFields ==
  ASSUME NEW t, DOMAIN t = Inc, NEW x, NEW step
  PROVE  MovedOn(Incremental!Moved(t, x, step), t, Incremental!Ahead(t, step))
<1> DEFINE p == Incremental!Ahead(t, step)
<1>1. PICK a : a = Append(t.points, p)
  OBVIOUS
<1>2. PICK b : b = Incremental!WithTop(t.pointStack, <<Len(t.points), p>>)
  OBVIOUS
<1>3. PICK c : c = Append(t.elements, x)
  OBVIOUS
<1>4. Incremental!Moved(t, x, step) = [t EXCEPT !.points = a, !.pointStack = b, !.elements = c]
  BY <1>1, <1>2, <1>3, Zenon DEF Incremental!Moved
<1> HIDE DEF p
<1> DEFINE u == [t EXCEPT !.points = a, !.pointStack = b, !.elements = c]
<1>5. /\ DOMAIN u = Inc /\ u.attributes = t.attributes /\ u.sizes = t.sizes
      /\ u.points = a /\ u.bracketCount = t.bracketCount
      /\ u.pointStack = b
      /\ u.movementStack = t.movementStack /\ u.verticalStack = t.verticalStack
      /\ u.horizontalStack = t.horizontalStack
      /\ u.currentSystemIndex = t.currentSystemIndex
  BY DEF Inc
<1> HIDE DEF u
<1> QED BY <1>1, <1>2, <1>4, <1>5, Zenon DEF u, p, MovedOn

LEMMA MovedTwin ==
  ASSUME NEW exact \in BOOLEAN, NEW g, NEW t, NEW attributes, NEW items,
         Twins(g, t, attributes, items, exact),
         NEW x, NEW step, NEW size \in Int, exact => step = size
  PROVE  Twins(Along(g, size), Incremental!Moved(t, x, step), attributes,
               items \o <<Incremental!Ahead(t, step)>>, exact)
<1> DEFINE p == Incremental!Ahead(t, step)
           u == Incremental!Moved(t, x, step)
           n == g.bracketScope
           point == matrixAdd(g.turtlePoint, Scaled(g.turtleMovementAxis, size))
           h == Along(g, size)
<1>1. /\ Sound(g) /\ InStep(t, attributes, n)
      /\ IsSeq(items) /\ SameItems(g.coordinates, items, exact)
      /\ exact => SamePlaces(g, t)
  BY DEF Twins
<1>2. n \in Nat /\ IsSeq(g.coordinates)
  BY <1>1, SoundFacts
<1>3. Len(p) = 3 /\ Len(point) = 3
  BY DEF Incremental!Ahead, Incremental!matrixAdd, matrixAdd
<1>4. Len(t.pointStack) = n + 1 /\ Len(t.movementStack) = n + 1
  BY <1>1 DEF InStep, Stacked
<1>5. exact => p = point
  <2> SUFFICES ASSUME exact PROVE p = point
    OBVIOUS
  <2>1. n + 1 \in 1 .. n + 1 /\ ~(n + 1 <= n)
    BY <1>2
  <2>2. t.pointStack[n + 1][2] = g.turtlePoint /\ t.movementStack[n + 1] = g.turtleMovementAxis
    BY <1>1, <2>1 DEF SamePlaces, PointAt, MovementAt
  <2>3. /\ Incremental!Top(t.pointStack)[2] = g.turtlePoint
        /\ Incremental!Top(t.movementStack) = g.turtleMovementAxis
    BY <1>4, <2>2, Zenon DEF Incremental!Top
  <2> QED BY <2>3, Zenon DEF Incremental!Ahead, Incremental!matrixAdd, Incremental!Scaled, matrixAdd, Scaled
<1>6. /\ DOMAIN h = DOMAIN g /\ h.turtlePoint = point /\ h.turtleMovementAxis = g.turtleMovementAxis
      /\ h.stack = g.stack /\ h.bracketScope = n
      /\ h.coordinates = Append(g.coordinates, point)
  BY <1>1, SoundFacts DEF Along
<1>7. Sound(h)
  BY <1>1, AlongSound
<1>8. /\ DOMAIN u = Inc /\ u.attributes = t.attributes /\ u.sizes = t.sizes
      /\ u.points = Append(t.points, p) /\ u.bracketCount = t.bracketCount
      /\ u.pointStack = Incremental!WithTop(t.pointStack, <<Len(t.points), p>>)
      /\ u.movementStack = t.movementStack /\ u.verticalStack = t.verticalStack
      /\ u.horizontalStack = t.horizontalStack
  <2>1. DOMAIN t = Inc
    BY <1>1 DEF InStep
  <2>2. MovedOn(u, t, p)
    BY ONLY <2>1, MovedFields
  <2> QED BY ONLY <2>2, Zenon DEF MovedOn
<1> HIDE DEF p, u, point, h, n
<1> DEFINE top == <<Len(t.points), p>>
<1>9. /\ Stacked(u.pointStack, n + 1)
      /\ \A k \in 1 .. n : u.pointStack[k] = t.pointStack[k]
      /\ u.pointStack[n + 1][2] = p
  <2>1. Stacked(t.pointStack, n + 1)
    BY <1>1 DEF InStep
  <2> HIDE DEF top
  <2>2. /\ Stacked(Incremental!WithTop(t.pointStack, top), n + 1)
        /\ \A k \in 1 .. n : Incremental!WithTop(t.pointStack, top)[k] = t.pointStack[k]
        /\ Incremental!WithTop(t.pointStack, top)[n + 1] = top
    BY ONLY <1>2, <2>1, StackChanged
  <2>3. top[2] = p
    BY DEF top
  <2> QED BY <1>8, <2>2, <2>3, Zenon DEF top
<1>10. InStep(u, attributes, n)
  <2>1. IsSeq(u.points)
    <3>1. IsSeq(t.points)
      BY <1>1 DEF InStep
    <3>2. IsSeq(Append(t.points, p))
      BY ONLY <3>1, StackAppended
    <3> QED BY <1>8, <3>2, Zenon
  <2>2. /\ DOMAIN u = Inc /\ u.attributes = attributes /\ u.sizes = [y \in {} |-> 0]
        /\ u.bracketCount = n
    BY <1>1, <1>8, Zenon DEF InStep
  <2>3. /\ Stacked(u.movementStack, n + 1) /\ Stacked(u.verticalStack, n + 1)
        /\ Stacked(u.horizontalStack, n + 1)
    BY <1>1, <1>8, Zenon DEF InStep
  <2> QED BY ONLY <1>9, <2>1, <2>2, <2>3, Zenon DEF InStep
<1>11. IsSeq(items \o <<p>>) /\ SameItems(h.coordinates, items \o <<p>>, exact)
  <2>1. Match(p, point)
    BY <1>3 DEF Match
  <2> QED BY <1>1, <1>2, <1>5, <1>6, <2>1, ItemsAppended
<1>12. ASSUME exact PROVE SamePlaces(h, u)
  <2> SUFFICES ASSUME NEW k \in 1 .. h.bracketScope + 1
               PROVE  u.pointStack[k][2] = PointAt(h, k) /\ u.movementStack[k] = MovementAt(h, k)
    BY DEF SamePlaces
  <2>1. k \in 1 .. n + 1
    BY <1>6
  <2>2. t.pointStack[k][2] = PointAt(g, k) /\ t.movementStack[k] = MovementAt(g, k)
    BY <1>1, <1>12, <2>1 DEF SamePlaces, n
  <2>3. CASE k = n + 1
    <3>1. ~(k <= n)
      BY <1>2, <2>3
    <3>2. PointAt(h, k) = point /\ MovementAt(h, k) = MovementAt(g, k)
      BY <1>6, <3>1 DEF PointAt, MovementAt, n
    <3> QED BY <1>5, <1>8, <1>9, <1>12, <2>2, <2>3, <3>2
  <2>4. CASE k # n + 1
    <3>1. k \in 1 .. n /\ k <= n
      BY <1>2, <2>1, <2>4
    <3>2. PointAt(h, k) = PointAt(g, k) /\ MovementAt(h, k) = MovementAt(g, k)
      BY <1>6, <3>1 DEF PointAt, MovementAt, n
    <3> QED BY <1>8, <1>9, <2>2, <3>1, <3>2
  <2> QED BY <2>3, <2>4
<1>13. Twins(h, u, attributes, items \o <<p>>, exact)
  BY <1>6, <1>7, <1>10, <1>11, <1>12 DEF Twins
<1> QED BY <1>13 DEF h, u, p

(* A change of the movement and of another axis *)
LEMMA TurnedFields ==
  ASSUME NEW t, DOMAIN t = Inc, NEW a, NEW b
  PROVE  /\ LET u == [t EXCEPT !.movementStack = a, !.verticalStack = b] IN
            /\ DOMAIN u = Inc /\ u.attributes = t.attributes /\ u.sizes = t.sizes
            /\ u.points = t.points /\ u.bracketCount = t.bracketCount
            /\ u.pointStack = t.pointStack /\ u.horizontalStack = t.horizontalStack
            /\ u.movementStack = a /\ u.verticalStack = b
            /\ u.currentSystemIndex = t.currentSystemIndex
         /\ LET u == [t EXCEPT !.movementStack = a, !.horizontalStack = b] IN
            /\ DOMAIN u = Inc /\ u.attributes = t.attributes /\ u.sizes = t.sizes
            /\ u.points = t.points /\ u.bracketCount = t.bracketCount
            /\ u.pointStack = t.pointStack /\ u.verticalStack = t.verticalStack
            /\ u.movementStack = a /\ u.horizontalStack = b
            /\ u.currentSystemIndex = t.currentSystemIndex
BY DEF Inc

LEMMA TurnedInStep ==
  ASSUME NEW n \in Nat, NEW t, NEW attributes, InStep(t, attributes, n), NEW kind
  PROVE  /\ InStep(Incremental!Turned(t, kind), attributes, n)
         /\ Incremental!Turned(t, kind).points = t.points
         /\ Incremental!Turned(t, kind).currentSystemIndex = t.currentSystemIndex
<1>1. DOMAIN t = Inc
  BY DEF InStep
<1>2. \A x : /\ Stacked(Incremental!WithTop(t.movementStack, x), n + 1)
             /\ Stacked(Incremental!WithTop(t.verticalStack, x), n + 1)
             /\ Stacked(Incremental!WithTop(t.horizontalStack, x), n + 1)
  BY StackChanged DEF InStep
<1> DEFINE Good(u) == /\ InStep(u, attributes, n) /\ u.points = t.points
                      /\ u.currentSystemIndex = t.currentSystemIndex
<1>3. Good(t)
  OBVIOUS
<1>4. ASSUME NEW a, NEW b, Stacked(a, n + 1), Stacked(b, n + 1)
      PROVE  /\ Good([t EXCEPT !.movementStack = a, !.verticalStack = b])
             /\ Good([t EXCEPT !.movementStack = a, !.horizontalStack = b])
  <2> DEFINE u == [t EXCEPT !.movementStack = a, !.verticalStack = b]
             v == [t EXCEPT !.movementStack = a, !.horizontalStack = b]
  <2>1. /\ DOMAIN u = Inc /\ u.attributes = t.attributes /\ u.sizes = t.sizes
        /\ u.points = t.points /\ u.bracketCount = t.bracketCount
        /\ u.pointStack = t.pointStack /\ u.horizontalStack = t.horizontalStack
        /\ u.movementStack = a /\ u.verticalStack = b
        /\ u.currentSystemIndex = t.currentSystemIndex
    BY ONLY <1>1, TurnedFields
  <2>2. /\ DOMAIN v = Inc /\ v.attributes = t.attributes /\ v.sizes = t.sizes
        /\ v.points = t.points /\ v.bracketCount = t.bracketCount
        /\ v.pointStack = t.pointStack /\ v.verticalStack = t.verticalStack
        /\ v.movementStack = a /\ v.horizontalStack = b
        /\ v.currentSystemIndex = t.currentSystemIndex
    BY ONLY <1>1, TurnedFields
  <2> HIDE DEF u, v
  <2>3. Good(u) /\ Good(v)
    BY <1>4, <2>1, <2>2, Zenon DEF InStep
  <2> QED BY <2>3 DEF u, v
<1> HIDE DEF Good
<1>5. \A q : Good(Incremental!TurnedLeftRight(t, q))
  <2> TAKE q
  <2> DEFINE axis == Incremental!Top(t.horizontalStack)
             movement == Incremental!vector3Rotate(Incremental!Top(t.movementStack), axis, q)
             a == Incremental!WithTop(t.movementStack, movement)
             b == Incremental!WithTop(t.verticalStack, Incremental!vectorCrossProduct(movement, axis))
  <2>1. Incremental!TurnedLeftRight(t, q) =
          IF Incremental!NoAxis(axis) THEN t
          ELSE [t EXCEPT !.movementStack = a, !.verticalStack = b]
    BY Zenon DEF Incremental!TurnedLeftRight
  <2>2. Stacked(a, n + 1) /\ Stacked(b, n + 1)
    BY <1>2
  <2> HIDE DEF a, b
  <2>3. Good([t EXCEPT !.movementStack = a, !.verticalStack = b])
    BY ONLY <1>4, <2>2, Zenon
  <2>4. CASE Incremental!NoAxis(axis)
    BY ONLY <1>3, <2>1, <2>4, Zenon
  <2>5. CASE ~Incremental!NoAxis(axis)
    BY ONLY <2>1, <2>3, <2>5, Zenon
  <2> QED BY ONLY <2>4, <2>5, Zenon
<1>6. \A q : Good(Incremental!TurnedUpDown(t, q))
  <2> TAKE q
  <2> DEFINE axis == Incremental!Top(t.verticalStack)
             movement == Incremental!vector3Rotate(Incremental!Top(t.movementStack), axis, q)
             a == Incremental!WithTop(t.movementStack, movement)
             b == Incremental!WithTop(t.horizontalStack, Incremental!vectorCrossProduct(movement, axis))
  <2>1. Incremental!TurnedUpDown(t, q) =
          IF Incremental!NoAxis(axis) THEN t
          ELSE [t EXCEPT !.movementStack = a, !.horizontalStack = b]
    BY Zenon DEF Incremental!TurnedUpDown
  <2>2. Stacked(a, n + 1) /\ Stacked(b, n + 1)
    BY <1>2
  <2> HIDE DEF a, b
  <2>3. Good([t EXCEPT !.movementStack = a, !.horizontalStack = b])
    BY ONLY <1>4, <2>2, Zenon
  <2>4. CASE Incremental!NoAxis(axis)
    BY ONLY <1>3, <2>1, <2>4, Zenon
  <2>5. CASE ~Incremental!NoAxis(axis)
    BY ONLY <2>1, <2>3, <2>5, Zenon
  <2> QED BY ONLY <2>4, <2>5, Zenon
<1>7. Good(Incremental!Turned(t, kind))
  BY <1>5, <1>6, Zenon DEF Incremental!Turned
<1> QED BY <1>7 DEF Good

LEMMA TurnedTwin ==
  ASSUME NEW g, NEW t, NEW attributes, NEW items, Twins(g, t, attributes, items, FALSE),
         NEW kind, NEW angle \in Int
  PROVE  /\ Twins(LeftOrRight(g, angle), Incremental!Turned(t, kind), attributes, items, FALSE)
         /\ Twins(UpOrDown(g, angle), Incremental!Turned(t, kind), attributes, items, FALSE)
<1> DEFINE n == g.bracketScope
           u == Incremental!Turned(t, kind)
<1>1. /\ Sound(g) /\ InStep(t, attributes, n)
      /\ IsSeq(items) /\ SameItems(g.coordinates, items, FALSE)
  BY DEF Twins
<1>2. n \in Nat
  BY <1>1, SoundFacts
<1>3. InStep(u, attributes, n)
  BY <1>1, <1>2, TurnedInStep
<1> HIDE DEF u
<1>4. ASSUME NEW h, Sound(h), h.bracketScope = n, h.coordinates = g.coordinates
      PROVE  Twins(h, u, attributes, items, FALSE)
  BY <1>1, <1>3, <1>4 DEF Twins
<1>5. /\ DOMAIN g = {"turtlePoint", "turtleMovementAxis", "turtleCrossProduct", "stack",
                     "bracketScope", "coordinates"}
  BY <1>1, SoundFacts
<1>6. /\ LeftOrRight(g, angle).bracketScope = n /\ UpOrDown(g, angle).bracketScope = n
      /\ LeftOrRight(g, angle).coordinates = g.coordinates
      /\ UpOrDown(g, angle).coordinates = g.coordinates
  BY <1>5 DEF LeftOrRight, UpOrDown
<1>7. Sound(LeftOrRight(g, angle)) /\ Sound(UpOrDown(g, angle))
  BY <1>1, TurnedSound
<1> QED BY <1>4, <1>6, <1>7 DEF u

LEMMA StacksReplaced ==
  ASSUME NEW t, DOMAIN t = Inc, NEW m, NEW a, NEW b, NEW c, NEW d
  PROVE  LET u == [t EXCEPT !.bracketCount = m, !.pointStack = a, !.movementStack = b,
                            !.verticalStack = c, !.horizontalStack = d] IN
         /\ DOMAIN u = Inc /\ u.attributes = t.attributes /\ u.sizes = t.sizes
         /\ u.points = t.points /\ u.bracketCount = m
         /\ u.pointStack = a /\ u.movementStack = b /\ u.verticalStack = c
         /\ u.horizontalStack = d /\ u.currentSystemIndex = t.currentSystemIndex
BY DEF Inc

LEMMA BranchedFields ==
  ASSUME NEW t, DOMAIN t = Inc
  PROVE  LET u == Incremental!Branched(t) IN
         /\ DOMAIN u = Inc /\ u.attributes = t.attributes /\ u.sizes = t.sizes
         /\ u.points = t.points /\ u.bracketCount = t.bracketCount + 1
         /\ u.pointStack = Incremental!Pushed(t.pointStack)
         /\ u.movementStack = Incremental!Pushed(t.movementStack)
         /\ u.verticalStack = Incremental!Pushed(t.verticalStack)
         /\ u.horizontalStack = Incremental!Pushed(t.horizontalStack)
         /\ u.currentSystemIndex = t.currentSystemIndex
<1> DEFINE m == t.bracketCount + 1
           a == Incremental!Pushed(t.pointStack)
           b == Incremental!Pushed(t.movementStack)
           c == Incremental!Pushed(t.verticalStack)
           d == Incremental!Pushed(t.horizontalStack)
<1>1. Incremental!Branched(t) =
        [t EXCEPT !.bracketCount = m, !.pointStack = a, !.movementStack = b,
                  !.verticalStack = c, !.horizontalStack = d]
  BY Zenon DEF Incremental!Branched
<1> HIDE DEF m, a, b, c, d
<1>2. LET u == [t EXCEPT !.bracketCount = m, !.pointStack = a, !.movementStack = b,
                         !.verticalStack = c, !.horizontalStack = d] IN
      /\ DOMAIN u = Inc /\ u.attributes = t.attributes /\ u.sizes = t.sizes
      /\ u.points = t.points /\ u.bracketCount = m
      /\ u.pointStack = a /\ u.movementStack = b /\ u.verticalStack = c
      /\ u.horizontalStack = d /\ u.currentSystemIndex = t.currentSystemIndex
  BY StacksReplaced
<1> QED BY ONLY <1>1, <1>2, Zenon DEF m, a, b, c, d

LEMMA RejoinedFields ==
  ASSUME NEW t, DOMAIN t = Inc
  PROVE  LET u == Incremental!Rejoined(t) IN
         /\ DOMAIN u = Inc /\ u.attributes = t.attributes /\ u.sizes = t.sizes
         /\ u.points = t.points /\ u.bracketCount = t.bracketCount - 1
         /\ u.pointStack = Incremental!Popped(t.pointStack)
         /\ u.movementStack = Incremental!Popped(t.movementStack)
         /\ u.verticalStack = Incremental!Popped(t.verticalStack)
         /\ u.horizontalStack = Incremental!Popped(t.horizontalStack)
         /\ u.currentSystemIndex = t.currentSystemIndex
<1> DEFINE m == t.bracketCount - 1
           a == Incremental!Popped(t.pointStack)
           b == Incremental!Popped(t.movementStack)
           c == Incremental!Popped(t.verticalStack)
           d == Incremental!Popped(t.horizontalStack)
<1>1. Incremental!Rejoined(t) =
        [t EXCEPT !.bracketCount = m, !.pointStack = a, !.movementStack = b,
                  !.verticalStack = c, !.horizontalStack = d]
  BY Zenon DEF Incremental!Rejoined
<1> HIDE DEF m, a, b, c, d
<1>2. LET u == [t EXCEPT !.bracketCount = m, !.pointStack = a, !.movementStack = b,
                         !.verticalStack = c, !.horizontalStack = d] IN
      /\ DOMAIN u = Inc /\ u.attributes = t.attributes /\ u.sizes = t.sizes
      /\ u.points = t.points /\ u.bracketCount = m
      /\ u.pointStack = a /\ u.movementStack = b /\ u.verticalStack = c
      /\ u.horizontalStack = d /\ u.currentSystemIndex = t.currentSystemIndex
  BY StacksReplaced
<1> QED BY ONLY <1>1, <1>2, Zenon DEF m, a, b, c, d

LEMMA OpenedTwin ==
  ASSUME NEW exact \in BOOLEAN, NEW g, NEW t, NEW attributes, NEW items,
         Twins(g, t, attributes, items, exact)
  PROVE  Twins(Opened(g), Incremental!Branched(t), attributes, items \o <<OpenBracket>>, exact)
<1> DEFINE n == g.bracketScope
           h == Opened(g)
           u == Incremental!Branched(t)
           kept == <<g.turtlePoint, g.turtleMovementAxis, g.turtleCrossProduct>>
<1>1. /\ Sound(g) /\ InStep(t, attributes, n)
      /\ IsSeq(items) /\ SameItems(g.coordinates, items, exact)
      /\ exact => SamePlaces(g, t)
  BY DEF Twins
<1>2. /\ n \in Nat /\ n + 1 \in Nat /\ n + 1 + 1 = n + 2
      /\ IsSeq(g.coordinates) /\ Len(g.stack) = n /\ g.stack \in Seq([1 .. 3 -> Vectors])
  BY <1>1, SoundFacts
<1>3. /\ h.turtlePoint = g.turtlePoint /\ h.turtleMovementAxis = g.turtleMovementAxis
      /\ h.stack = Append(g.stack, kept) /\ h.bracketScope = n + 1
      /\ h.coordinates = Append(g.coordinates, OpenBracket)
  <2>1. PICK s : s = Append(g.stack, kept)
    OBVIOUS
  <2>2. PICK c : c = Append(g.coordinates, OpenBracket)
    OBVIOUS
  <2>3. h = [g EXCEPT !.bracketScope = n + 1, !.coordinates = c, !.stack = s]
    BY <2>1, <2>2, Zenon DEF Opened
  <2>4. /\ DOMAIN g = {"turtlePoint", "turtleMovementAxis", "turtleCrossProduct", "stack",
                       "bracketScope", "coordinates"}
    BY <1>1, SoundFacts
  <2> HIDE DEF h
  <2>5. /\ h.turtlePoint = g.turtlePoint /\ h.turtleMovementAxis = g.turtleMovementAxis
        /\ h.stack = s /\ h.bracketScope = n + 1
        /\ h.coordinates = c
    BY <2>3, <2>4
  <2> QED BY <2>1, <2>2, <2>5, Zenon
<1>4. Sound(h)
  BY <1>1, OpenedSound
<1>5. /\ DOMAIN u = Inc /\ u.attributes = t.attributes /\ u.sizes = t.sizes
      /\ u.points = t.points /\ u.bracketCount = t.bracketCount + 1
      /\ u.pointStack = Incremental!Pushed(t.pointStack)
      /\ u.movementStack = Incremental!Pushed(t.movementStack)
      /\ u.verticalStack = Incremental!Pushed(t.verticalStack)
      /\ u.horizontalStack = Incremental!Pushed(t.horizontalStack)
  BY <1>1, BranchedFields DEF InStep
<1> HIDE DEF h, u, n
<1>6. /\ Stacked(u.pointStack, n + 2) /\ Stacked(u.movementStack, n + 2)
      /\ Stacked(u.verticalStack, n + 2) /\ Stacked(u.horizontalStack, n + 2)
      /\ \A k \in 1 .. n + 1 : u.pointStack[k] = t.pointStack[k]
                               /\ u.movementStack[k] = t.movementStack[k]
      /\ u.pointStack[n + 2] = t.pointStack[n + 1]
      /\ u.movementStack[n + 2] = t.movementStack[n + 1]
  <2>1. /\ Stacked(t.pointStack, n + 1) /\ Stacked(t.movementStack, n + 1)
        /\ Stacked(t.verticalStack, n + 1) /\ Stacked(t.horizontalStack, n + 1)
    BY <1>1 DEF InStep
  <2> QED BY <1>2, <1>5, <2>1, StackPushed
<1>7. InStep(u, attributes, n + 1)
  <2>1. u.bracketCount = n + 1
    BY <1>1, <1>5 DEF InStep
  <2>2. /\ Stacked(u.pointStack, n + 1 + 1) /\ Stacked(u.movementStack, n + 1 + 1)
        /\ Stacked(u.verticalStack, n + 1 + 1) /\ Stacked(u.horizontalStack, n + 1 + 1)
    BY <1>2, <1>6, Zenon
  <2> QED BY <1>1, <1>5, <2>1, <2>2, Zenon DEF InStep
<1>8. IsSeq(items \o <<OpenBracket>>) /\ SameItems(h.coordinates, items \o <<OpenBracket>>, exact)
  <2>1. Match(OpenBracket, OpenBracket)
    BY DEF Match
  <2> QED BY <1>1, <1>2, <1>3, <2>1, ItemsAppended
<1>9. ASSUME exact PROVE SamePlaces(h, u)
  <2>1. /\ \A k \in 1 .. n : h.stack[k] = g.stack[k]
        /\ h.stack[n + 1] = kept
    <3>1. kept \in [1 .. 3 -> Vectors]
      BY <1>1 DEF Sound, Turtles
    <3> HIDE DEF kept
    <3> QED BY <1>2, <1>3, <3>1, AppendProperties
  <2>2. kept[1] = g.turtlePoint /\ kept[2] = g.turtleMovementAxis
    OBVIOUS
  <2> HIDE DEF kept
  <2>3. \A k \in 1 .. n + 1 : PointAt(h, k) = PointAt(g, k) /\ MovementAt(h, k) = MovementAt(g, k)
    <3> TAKE k \in 1 .. n + 1
    <3>1. k <= n + 1
      BY <1>2
    <3>2. PointAt(h, k) = h.stack[k][1] /\ MovementAt(h, k) = h.stack[k][2]
      BY <1>3, <3>1, Zenon DEF PointAt, MovementAt
    <3>3. CASE k = n + 1
      <4>1. ~(k <= n)
        BY <1>2, <3>3
      <4>2. PointAt(g, k) = g.turtlePoint /\ MovementAt(g, k) = g.turtleMovementAxis
        BY <4>1, Zenon DEF PointAt, MovementAt, n
      <4> QED BY <2>1, <2>2, <3>2, <3>3, <4>2, Zenon
    <3>4. CASE k # n + 1
      <4>1. k <= n /\ k \in 1 .. n
        BY <1>2, <3>4
      <4>2. PointAt(g, k) = g.stack[k][1] /\ MovementAt(g, k) = g.stack[k][2]
        BY <4>1, Zenon DEF PointAt, MovementAt, n
      <4> QED BY <2>1, <3>2, <4>1, <4>2, Zenon
    <3> QED BY <3>3, <3>4
  <2>4. /\ PointAt(h, n + 2) = PointAt(g, n + 1)
        /\ MovementAt(h, n + 2) = MovementAt(g, n + 1)
    <3>1. ~(n + 2 <= n + 1) /\ ~(n + 1 <= n)
      BY <1>2
    <3> QED BY <1>3, <3>1, Zenon DEF PointAt, MovementAt, n
  <2>5. \A k \in 1 .. n + 1 : t.pointStack[k][2] = PointAt(g, k) /\ t.movementStack[k] = MovementAt(g, k)
    BY <1>1, <1>9 DEF SamePlaces, n
  <2>6. ASSUME NEW k \in 1 .. n + 2
        PROVE  u.pointStack[k][2] = PointAt(h, k) /\ u.movementStack[k] = MovementAt(h, k)
    <3>1. CASE k = n + 2
      <4>1. n + 1 \in 1 .. n + 1
        BY <1>2
      <4> QED BY <1>6, <2>4, <2>5, <3>1, <4>1, Zenon
    <3>2. CASE k # n + 2
      <4>1. k \in 1 .. n + 1
        BY <1>2, <3>2
      <4> QED BY <1>6, <2>3, <2>5, <4>1, Zenon
    <3> QED BY <3>1, <3>2
  <2> QED BY <1>2, <1>3, <2>6, Zenon DEF SamePlaces
<1>10. Twins(h, u, attributes, items \o <<OpenBracket>>, exact)
  BY <1>3, <1>4, <1>7, <1>8, <1>9, Zenon DEF Twins
<1> QED BY <1>10 DEF h, u

LEMMA ClosedTwin ==
  ASSUME NEW exact \in BOOLEAN, NEW g, NEW t, NEW attributes, NEW items,
         Twins(g, t, attributes, items, exact), g.bracketScope # 0
  PROVE  Twins(Closed(g), Incremental!Rejoined(t), attributes, items \o <<CloseBracket>>, exact)
<1> DEFINE n == g.bracketScope
           h == Closed(g)
           u == Incremental!Rejoined(t)
           top == Last(g.stack)
<1>1. /\ Sound(g) /\ InStep(t, attributes, n)
      /\ IsSeq(items) /\ SameItems(g.coordinates, items, exact)
      /\ exact => SamePlaces(g, t)
  BY DEF Twins
<1>2. /\ n \in Nat \ {0} /\ n - 1 \in Nat /\ n - 1 + 1 = n
      /\ IsSeq(g.coordinates) /\ Len(g.stack) = n /\ g.stack \in Seq([1 .. 3 -> Vectors])
  BY <1>1, SoundFacts
<1>3. /\ h.turtlePoint = top[1] /\ h.turtleMovementAxis = top[2]
      /\ h.stack = Front(g.stack) /\ h.bracketScope = n - 1
      /\ h.coordinates = Append(g.coordinates, CloseBracket)
  <2>1. PICK s : s = Front(g.stack)
    OBVIOUS
  <2>2. PICK c : c = Append(g.coordinates, CloseBracket)
    OBVIOUS
  <2>3. PICK x, y, z : x = top[1] /\ y = top[2] /\ z = top[3]
    OBVIOUS
  <2>4. h = [g EXCEPT !.bracketScope = n - 1, !.coordinates = c, !.stack = s,
                      !.turtlePoint = x, !.turtleMovementAxis = y, !.turtleCrossProduct = z]
    BY <1>2, <2>1, <2>2, <2>3, Zenon DEF Closed
  <2>5. /\ DOMAIN g = {"turtlePoint", "turtleMovementAxis", "turtleCrossProduct", "stack",
                       "bracketScope", "coordinates"}
    BY <1>1, SoundFacts
  <2> HIDE DEF h, top
  <2>6. /\ h.turtlePoint = x /\ h.turtleMovementAxis = y
        /\ h.stack = s /\ h.bracketScope = n - 1
        /\ h.coordinates = c
    BY <2>4, <2>5
  <2> QED BY <2>1, <2>2, <2>3, <2>6, Zenon
<1>4. Sound(h)
  BY <1>1, ClosedSound
<1>5. /\ DOMAIN u = Inc /\ u.attributes = t.attributes /\ u.sizes = t.sizes
      /\ u.points = t.points /\ u.bracketCount = t.bracketCount - 1
      /\ u.pointStack = Incremental!Popped(t.pointStack)
      /\ u.movementStack = Incremental!Popped(t.movementStack)
      /\ u.verticalStack = Incremental!Popped(t.verticalStack)
      /\ u.horizontalStack = Incremental!Popped(t.horizontalStack)
  BY <1>1, RejoinedFields DEF InStep
<1>6. top = g.stack[n]
  BY <1>2 DEF Last
<1> HIDE DEF h, u, n, top
<1>7. /\ Stacked(u.pointStack, n) /\ Stacked(u.movementStack, n)
      /\ Stacked(u.verticalStack, n) /\ Stacked(u.horizontalStack, n)
      /\ \A k \in 1 .. n : u.pointStack[k] = t.pointStack[k]
                           /\ u.movementStack[k] = t.movementStack[k]
  <2>1. /\ Stacked(t.pointStack, n + 1) /\ Stacked(t.movementStack, n + 1)
        /\ Stacked(t.verticalStack, n + 1) /\ Stacked(t.horizontalStack, n + 1)
    BY <1>1 DEF InStep
  <2> QED BY <1>2, <1>5, <2>1, StackPopped
<1>8. InStep(u, attributes, n - 1)
  <2>1. u.bracketCount = n - 1
    BY <1>1, <1>5 DEF InStep
  <2>2. /\ Stacked(u.pointStack, n - 1 + 1) /\ Stacked(u.movementStack, n - 1 + 1)
        /\ Stacked(u.verticalStack, n - 1 + 1) /\ Stacked(u.horizontalStack, n - 1 + 1)
    BY <1>2, <1>7, Zenon
  <2> QED BY <1>1, <1>5, <2>1, <2>2, Zenon DEF InStep
<1>9. IsSeq(items \o <<CloseBracket>>) /\ SameItems(h.coordinates, items \o <<CloseBracket>>, exact)
  <2>1. Match(CloseBracket, CloseBracket)
    BY DEF Match
  <2> QED BY <1>1, <1>2, <1>3, <2>1, ItemsAppended
<1>10. ASSUME exact PROVE SamePlaces(h, u)
  <2>1. \A k \in 1 .. n - 1 : h.stack[k] = g.stack[k]
    BY <1>2, <1>3 DEF Front
  <2>2. \A k \in 1 .. n : PointAt(h, k) = PointAt(g, k) /\ MovementAt(h, k) = MovementAt(g, k)
    <3> TAKE k \in 1 .. n
    <3>1. k <= n
      BY <1>2
    <3>2. PointAt(g, k) = g.stack[k][1] /\ MovementAt(g, k) = g.stack[k][2]
      BY <3>1, Zenon DEF PointAt, MovementAt, n
    <3>3. CASE k = n
      <4>1. ~(k <= n - 1)
        BY <1>2, <3>3
      <4>2. PointAt(h, k) = h.turtlePoint /\ MovementAt(h, k) = h.turtleMovementAxis
        BY <1>3, <4>1, Zenon DEF PointAt, MovementAt
      <4> QED BY <1>3, <1>6, <3>2, <3>3, <4>2, Zenon
    <3>4. CASE k # n
      <4>1. k <= n - 1 /\ k \in 1 .. n - 1
        BY <1>2, <3>4
      <4>2. PointAt(h, k) = h.stack[k][1] /\ MovementAt(h, k) = h.stack[k][2]
        BY <1>3, <4>1, Zenon DEF PointAt, MovementAt
      <4> QED BY <2>1, <3>2, <4>1, <4>2, Zenon
    <3> QED BY <3>3, <3>4
  <2>3. \A k \in 1 .. n + 1 : t.pointStack[k][2] = PointAt(g, k) /\ t.movementStack[k] = MovementAt(g, k)
    BY <1>1, <1>10 DEF SamePlaces, n
  <2>4. ASSUME NEW k \in 1 .. n
        PROVE  u.pointStack[k][2] = PointAt(h, k) /\ u.movementStack[k] = MovementAt(h, k)
    <3>1. k \in 1 .. n + 1
      BY <1>2
    <3> QED BY <1>7, <2>2, <2>3, <3>1, Zenon
  <2> QED BY <1>2, <1>3, <2>4, Zenon DEF SamePlaces
<1>11. Twins(h, u, attributes, items \o <<CloseBracket>>, exact)
  BY <1>3, <1>4, <1>8, <1>9, <1>10, Zenon DEF Twins
<1> QED BY <1>11 DEF h, u

LEMMA AttributesMatch ==
  ASSUME Numbered
  PROVE  LET a == Turtle.attributes IN
         /\ a.atomicSize # Bad /\ NumberOf(<<"AtomicSize">>) = a.atomicSize
         /\ \A kind \in Turns : a.angles[kind] # Bad
         /\ a.startPoint = StartPointAttribute
<1> DEFINE a == [startPoint |-> StartPointAttribute, startDirection |-> Bad,
                 angles |-> [b \in Turns |-> Parsed(AngleKey(b))],
                 atomicSize |-> Parsed(<<"AtomicSize">>)]
<1>1. Turtle.attributes = a
  BY DEF Turtle, Incremental!NewTurtle
<1>2. /\ a.atomicSize = Parsed(<<"AtomicSize">>) /\ a.startPoint = StartPointAttribute
      /\ \A b \in Turns : a.angles[b] = Parsed(AngleKey(b))
  OBVIOUS
<1> HIDE DEF a
<1>3. Parsed(<<"AtomicSize">>) # Bad /\ \A b \in Turns : Parsed(AngleKey(b)) # Bad
  <2>1. "L" \in Turns
    BY DEF Turns
  <2> QED BY <2>1, Zenon DEF Numbered
<1>4. NumberOf(<<"AtomicSize">>) = Parsed(<<"AtomicSize">>)
  BY <1>3, Zenon DEF NumberOf, Default, Parsed
<1> QED BY <1>1, <1>2, <1>3, <1>4, Zenon

(* What a gene is to the turtle *)
Reading(t, attributes, n, x) ==
    LET kind == OtherKind(x)
        step == attributes.atomicSize
        all == Incremental!Interpreted(t, x) IN
    /\ kind = "S" => all = {Incremental!Grown(t, x, step)}
    /\ kind \in Turns => all = {Incremental!Grown(Incremental!Turned(t, kind), x, step)}
    /\ kind = "[" => all = {Incremental!Result(TRUE, Incremental!Branched(t),
                                               Incremental!NoPoint, Incremental!OpenIndex)}
    /\ kind = "]" /\ n # 0 =>
          all = {Incremental!Result(TRUE, Incremental!Rejoined(t),
                                    Incremental!NoPoint, Incremental!CloseIndex)}
    /\ (kind = "]" /\ n = 0) \/ kind = "other" =>
          all = {Incremental!Result(FALSE, t, Incremental!NoPoint, 0)}

LEMMA InterpretedIs ==
  ASSUME NEW n \in Nat, NEW t, NEW attributes, InStep(t, attributes, n), NEW x \in AllWords,
         attributes.atomicSize # Bad, \A kind \in Turns : attributes.angles[kind] # Bad
  PROVE  Reading(t, attributes, n, x)
<1> DEFINE kind == OtherKind(x)
           step == attributes.atomicSize
           all == Incremental!Interpreted(t, x)
           sized == Incremental!AllStacked(t) /\ Incremental!StepOf(t, x) # Bad
<1>1. Incremental!StepOf(t, x) = step
  BY DEF Incremental!StepOf, InStep
<1>2. Incremental!AllStacked(t)
  <2>1. \A s : Stacked(s, n + 1) => s # <<>>
    BY DEF Stacked
  <2> QED BY <2>1 DEF Incremental!AllStacked, InStep
<1>3. sized
  BY <1>1, <1>2
<1>4. t.attributes = attributes /\ t.bracketCount = n
  BY DEF InStep
<1>5. all =
        CASE sized /\ kind = "S" -> {Incremental!Grown(t, x, step)}
          [] sized /\ kind \in Turns /\ t.attributes.angles[kind] # Bad ->
                {Incremental!Grown(u, x, step) : u \in {Incremental!Turned(t, kind)}}
          [] sized /\ kind = "[" -> Incremental!Unmoved(Incremental!Branched(t), Incremental!OpenIndex)
          [] sized /\ kind = "]" /\ t.bracketCount # 0 ->
                 Incremental!Unmoved(Incremental!Rejoined(t), Incremental!CloseIndex)
          [] OTHER -> Incremental!Failed(t)
  BY <1>1 DEF Incremental!Interpreted, Incremental!Turns, Turns
<1> HIDE DEF all, sized, kind, step
<1>6. ASSUME kind = "S" PROVE all = {Incremental!Grown(t, x, step)}
  BY <1>3, <1>5, <1>6 DEF Turns
<1>7. ASSUME kind \in Turns
      PROVE  all = {Incremental!Grown(Incremental!Turned(t, kind), x, step)}
  <2>1. all = {Incremental!Grown(u, x, step) : u \in {Incremental!Turned(t, kind)}}
    <3>1. t.attributes.angles[kind] # Bad
      BY <1>4, <1>7
    <3> QED BY <1>3, <1>5, <1>7, <3>1 DEF Turns
  <2> QED BY ONLY <2>1
<1>8. ASSUME kind = "["
      PROVE  all = Incremental!Unmoved(Incremental!Branched(t), Incremental!OpenIndex)
  BY <1>3, <1>5, <1>8 DEF Turns
<1>9. ASSUME kind = "]", n # 0
      PROVE  all = Incremental!Unmoved(Incremental!Rejoined(t), Incremental!CloseIndex)
  BY <1>3, <1>4, <1>5, <1>9 DEF Turns
<1>10. ASSUME (kind = "]" /\ n = 0) \/ kind = "other"
       PROVE  all = Incremental!Failed(t)
  BY <1>3, <1>4, <1>5, <1>10 DEF Turns
<1>11. /\ \A u, index : Incremental!Unmoved(u, index)
                        = {Incremental!Result(TRUE, u, Incremental!NoPoint, index)}
       /\ Incremental!Failed(t) = {Incremental!Result(FALSE, t, Incremental!NoPoint, 0)}
  BY DEF Incremental!Unmoved, Incremental!Failed
<1> QED BY <1>6, <1>7, <1>8, <1>9, <1>10, <1>11, Zenon DEF all, kind, step, Reading

LEMMA ItemOfResult ==
  ASSUME NEW u, NEW p, NEW m \in Nat
  PROVE  /\ m < MaxPoints => ItemOf(Incremental!Result(TRUE, u, p, m)) = <<p>>
         /\ ItemOf(Incremental!Result(TRUE, u, p, Incremental!OpenIndex)) = <<OpenBracket>>
         /\ ItemOf(Incremental!Result(TRUE, u, p, Incremental!CloseIndex)) = <<CloseBracket>>
         /\ ItemOf(Incremental!Result(FALSE, u, p, m)) = <<>>
<1>1. MaxPoints \in Nat
  BY SmokeTestAssumption
<1> QED BY <1>1 DEF ItemOf, Incremental!Result, Incremental!OpenIndex, Incremental!CloseIndex

(* What a call of grow leaves and returns, against a turn of the loop *)
Follows(r, g, t, attributes, items, exact) ==
    /\ Twins(g, r.turtle, attributes, items \o ItemOf(r), exact)
    /\ r.turtle.currentSystemIndex = t.currentSystemIndex
    /\ Len(r.turtle.points) \in Nat /\ Len(r.turtle.points) <= Len(t.points) + 1

LEMMA GrownFollows ==
  ASSUME NEW exact \in BOOLEAN, NEW g, NEW t, NEW attributes, NEW items,
         Twins(g, t, attributes, items, exact), Len(t.points) < MaxPoints,
         NEW x, NEW step, NEW size \in Int, exact => step = size
  PROVE  Follows(Incremental!Grown(t, x, step), Along(g, size), t, attributes, items, exact)
<1> DEFINE p == Incremental!Ahead(t, step)
           u == Incremental!Moved(t, x, step)
           r == Incremental!Result(TRUE, u, p, Len(t.points))
<1>1. Incremental!Grown(t, x, step) = r
  BY Zenon DEF Incremental!Grown
<1>2. Twins(Along(g, size), u, attributes, items \o <<p>>, exact)
  BY MovedTwin
<1>3. DOMAIN t = Inc /\ IsSeq(t.points)
  BY DEF Twins, InStep
<1>4. u.points = Append(t.points, p) /\ u.currentSystemIndex = t.currentSystemIndex
  <2>1. DOMAIN t = Inc
    BY <1>3
  <2>2. MovedOn(u, t, p)
    BY ONLY <2>1, MovedFields
  <2> QED BY ONLY <2>2, Zenon DEF MovedOn
<1>5. Len(t.points) \in Nat
  BY <1>3, LenProperties DEF IsSeq
<1>6. Len(u.points) = Len(t.points) + 1
  BY <1>3, <1>4, StackAppended
<1>7. r.turtle = u
  BY DEF Incremental!Result
<1>8. ItemOf(r) = <<p>>
  BY <1>5, ItemOfResult
<1> HIDE DEF u, p, r
<1> QED BY <1>1, <1>2, <1>4, <1>5, <1>6, <1>7, <1>8 DEF Follows

LEMMA WordFollows ==
  ASSUME NEW exact \in BOOLEAN, NEW g, NEW t, NEW items,
         Twins(g, t, Turtle.attributes, items, exact), Len(t.points) < MaxPoints,
         Numbered, NEW w, NEW x \in AllWords, KindOf(w) = OtherKind(x),
         exact => KindOf(w) \notin Turns
  PROVE  \E r : /\ Incremental!Interpreted(t, x) = {r}
                /\ Follows(r, ReadWord(g, w), t, Turtle.attributes, items, exact)
<1> DEFINE a == Turtle.attributes
           kind == OtherKind(x)
           step == a.atomicSize
           size == NumberOf(<<"AtomicSize">>)
           n == g.bracketScope
           all == Incremental!Interpreted(t, x)
<1>1. a.atomicSize # Bad /\ size = step /\ \A b \in Turns : a.angles[b] # Bad
  BY AttributesMatch
<1>2. size \in Int /\ Boosted(size) \in Int /\ \A key : NumberOf(key) \in Int
  <2>1. size \in Int /\ \A key : NumberOf(key) \in Int
    BY NumbersOf
  <2> HIDE DEF size
  <2> QED BY <2>1 DEF Boosted
<1>3. Sound(g) /\ InStep(t, a, n) /\ IsSeq(items)
  BY DEF Twins
<1>4. n \in Nat
  BY <1>3, SoundFacts
<1>5. /\ kind = "S" => all = {Incremental!Grown(t, x, step)}
      /\ kind \in Turns => all = {Incremental!Grown(Incremental!Turned(t, kind), x, step)}
      /\ kind = "[" => all = {Incremental!Result(TRUE, Incremental!Branched(t),
                                                 Incremental!NoPoint, Incremental!OpenIndex)}
      /\ kind = "]" /\ n # 0 =>
            all = {Incremental!Result(TRUE, Incremental!Rejoined(t),
                                      Incremental!NoPoint, Incremental!CloseIndex)}
      /\ (kind = "]" /\ n = 0) \/ kind = "other" =>
            all = {Incremental!Result(FALSE, t, Incremental!NoPoint, 0)}
  <2> HIDE DEF a, n
  <2>1. InStep(t, a, n) /\ n \in Nat
    BY <1>3, <1>4
  <2>2. a.atomicSize # Bad /\ \A b \in Turns : a.angles[b] # Bad
    BY <1>1
  <2>3. x \in AllWords
    OBVIOUS
  <2>4. Reading(t, a, n, x)
    BY ONLY <2>1, <2>2, <2>3, InterpretedIs
  <2> QED BY ONLY <2>4, Zenon DEF Reading, kind, step, all
<1>6. DOMAIN t = Inc /\ IsSeq(t.points) /\ Len(t.points) \in Nat
  BY <1>3, LenProperties DEF InStep, IsSeq
<1>7. kind \in Turns \cup {"S", "[", "]", "other"}
  BY DEF OtherKind, OpenBracket, CloseBracket
<1> HIDE DEF a, kind, step, size, n, all
<1>8. ASSUME NEW u, NEW h, NEW index, NEW bracket, all = {Incremental!Result(TRUE, u, Incremental!NoPoint, index)},
             u.points = t.points, u.currentSystemIndex = t.currentSystemIndex,
             \A q : ItemOf(Incremental!Result(TRUE, u, q, index)) = <<bracket>>,
             Twins(h, u, a, items \o <<bracket>>, exact), ReadWord(g, w) = h
      PROVE  \E r : all = {r} /\ Follows(r, ReadWord(g, w), t, a, items, exact)
  <2> DEFINE r == Incremental!Result(TRUE, u, Incremental!NoPoint, index)
  <2>1. r.turtle = u
    BY DEF Incremental!Result
  <2>2. ItemOf(r) = <<bracket>>
    BY <1>8, Zenon
  <2> HIDE DEF r
  <2>3. Len(t.points) <= Len(t.points) + 1
    BY <1>6
  <2>4. Follows(r, h, t, a, items, exact)
    BY ONLY <1>6, <1>8, <2>1, <2>2, <2>3, Zenon DEF Follows
  <2> QED BY <1>8, <2>4, Zenon DEF r
<1>9. CASE kind = "S"
  <2>1. ReadWord(g, w) = Along(g, size)
    BY <1>9 DEF ReadWord, kind, size
  <2>2. Follows(Incremental!Grown(t, x, step), Along(g, size), t, a, items, exact)
    BY <1>1, <1>2, GrownFollows DEF a
  <2> QED BY <1>5, <1>9, <2>1, <2>2, Zenon DEF all, a
<1>10. CASE kind \in Turns
  <2>1. exact = FALSE
    BY <1>10 DEF kind
  <2> DEFINE u == Incremental!Turned(t, kind)
             angle == NumberOf(AngleKey(kind))
             h == IF kind \in {"L", "R"} THEN LeftOrRight(g, angle) ELSE UpOrDown(g, angle)
  <2>2. ReadWord(g, w) = Along(h, Boosted(size))
    BY <1>10 DEF ReadWord, kind, size, Turns
  <2>3. angle \in Int
    BY <1>2
  <2>4. Twins(g, t, a, items, FALSE)
    BY <2>1 DEF a
  <2>5. Twins(h, u, a, items, FALSE)
    <3> HIDE DEF angle
    <3>1. /\ Twins(LeftOrRight(g, angle), u, a, items, FALSE)
          /\ Twins(UpOrDown(g, angle), u, a, items, FALSE)
      BY ONLY <2>3, <2>4, TurnedTwin
    <3> QED BY <3>1, Zenon
  <2>6. u.points = t.points /\ u.currentSystemIndex = t.currentSystemIndex
    BY <1>3, <1>4, TurnedInStep
  <2> HIDE DEF u, h
  <2>7. Len(u.points) < MaxPoints
    BY <2>6
  <2>8. Follows(Incremental!Grown(u, x, step), Along(h, Boosted(size)), u, a, items, FALSE)
    <3>1. FALSE \in BOOLEAN /\ Boosted(size) \in Int
      BY <1>2
    <3> DEFINE far == Boosted(size)
    <3> HIDE DEF far
    <3>2. far \in Int
      BY <3>1 DEF far
    <3>3. Follows(Incremental!Grown(u, x, step), Along(h, far), u, a, items, FALSE)
      BY ONLY <2>5, <2>7, <3>1, <3>2, GrownFollows
    <3> QED BY <3>3 DEF far
  <2>9. Follows(Incremental!Grown(u, x, step), Along(h, Boosted(size)), t, a, items, FALSE)
    BY ONLY <2>6, <2>8, Zenon DEF Follows
  <2> QED BY <1>5, <1>10, <2>1, <2>2, <2>9, Zenon DEF all, a, u
<1>11. CASE kind = "["
  <2>1. ReadWord(g, w) = Opened(g)
    BY <1>11 DEF ReadWord, kind
  <2>2. Twins(Opened(g), Incremental!Branched(t), a, items \o <<OpenBracket>>, exact)
    BY OpenedTwin DEF a
  <2>3. /\ Incremental!Branched(t).points = t.points
        /\ Incremental!Branched(t).currentSystemIndex = t.currentSystemIndex
    BY <1>6, BranchedFields
  <2>4. \A q : ItemOf(Incremental!Result(TRUE, Incremental!Branched(t), q, Incremental!OpenIndex)) = <<OpenBracket>>
    <3>1. 0 \in Nat
      OBVIOUS
    <3> QED BY <3>1, ItemOfResult
  <2>5. all = {Incremental!Result(TRUE, Incremental!Branched(t),
                                  Incremental!NoPoint, Incremental!OpenIndex)}
    BY <1>5, <1>11
  <2> QED BY ONLY <1>8, <2>1, <2>2, <2>3, <2>4, <2>5, Zenon DEF a, all
<1>12. CASE kind = "]" /\ n # 0
  <2>1. ReadWord(g, w) = Closed(g)
    BY <1>12 DEF ReadWord, kind
  <2>2. Twins(Closed(g), Incremental!Rejoined(t), a, items \o <<CloseBracket>>, exact)
    BY <1>12, ClosedTwin DEF a, n
  <2>3. /\ Incremental!Rejoined(t).points = t.points
        /\ Incremental!Rejoined(t).currentSystemIndex = t.currentSystemIndex
    BY <1>6, RejoinedFields
  <2>4. \A q : ItemOf(Incremental!Result(TRUE, Incremental!Rejoined(t), q, Incremental!CloseIndex)) = <<CloseBracket>>
    <3>1. 0 \in Nat
      OBVIOUS
    <3> QED BY <3>1, ItemOfResult
  <2>5. all = {Incremental!Result(TRUE, Incremental!Rejoined(t),
                                  Incremental!NoPoint, Incremental!CloseIndex)}
    BY <1>5, <1>12
  <2> QED BY ONLY <1>8, <2>1, <2>2, <2>3, <2>4, <2>5, Zenon DEF a, all
<1>13. CASE (kind = "]" /\ n = 0) \/ kind = "other"
  <2> DEFINE r == Incremental!Result(FALSE, t, Incremental!NoPoint, 0)
  <2>1. ReadWord(g, w) = g
    <3>1. CASE kind = "]" /\ n = 0
      <4>1. ReadWord(g, w) = Closed(g)
        BY <3>1 DEF ReadWord, kind
      <4> QED BY <3>1, <4>1 DEF Closed, n
    <3>2. CASE kind = "other"
      BY <3>2 DEF ReadWord, kind
    <3> QED BY <1>13, <3>1, <3>2
  <2>2. r.turtle = t
    BY DEF Incremental!Result
  <2>3. ItemOf(r) = <<>>
    <3>1. 0 \in Nat
      OBVIOUS
    <3> QED BY <3>1, ItemOfResult
  <2>4. items \o <<>> = items
    BY <1>3, ConcatEmptySeq DEF IsSeq
  <2> HIDE DEF r
  <2>5. Len(t.points) <= Len(t.points) + 1
    BY <1>6
  <2>6. Twins(g, t, a, items, exact)
    BY DEF a
  <2>7. Follows(r, g, t, a, items, exact)
    BY ONLY <1>6, <2>2, <2>3, <2>4, <2>5, <2>6, Zenon DEF Follows
  <2>8. all = {r}
    BY <1>5, <1>13 DEF r
  <2> QED BY ONLY <2>1, <2>7, <2>8, Zenon DEF a, all
<1> QED BY <1>7, <1>9, <1>10, <1>11, <1>12, <1>13

(* ReadBy goes through the words in their order, a call of grow for each. *)
Again(so, words) == GrownOnce(so.turtle, so.items, words)
Silent(turtle) == [turtle |-> turtle, items |-> <<turtle.attributes.startPoint>>]
Grows(f, turtle, words, n) ==
    f = [s \in SUBSET (1 .. n) |->
            IF s = {} THEN Silent(turtle) ELSE Again(f[s \ {Max(s)}], words)]

LEMMA GrowsExists ==
  ASSUME NEW turtle, NEW words, NEW n \in Nat
  PROVE  \E f : Grows(f, turtle, words, n)
<1> DEFINE T == {m \in Nat : ~ \E f : Grows(f, turtle, words, m)}
<1> SUFFICES ASSUME T # {} PROVE FALSE
  OBVIOUS
<1>1. PICK m \in T : \A l \in T : m <= l
  <2>1. T \in SUBSET Nat
    OBVIOUS
  <2> HIDE DEF T
  <2> QED BY <2>1, LeastNatural
<1>2. CASE m = 0
  <2> DEFINE f == [s \in SUBSET (1 .. 0) |-> Silent(turtle)]
  <2>1. SUBSET (1 .. 0) = {{}}
    OBVIOUS
  <2>2. Grows(f, turtle, words, 0)
    BY <2>1, Zenon DEF Grows
  <2> QED BY <1>1, <1>2, <2>2
<1>3. CASE m # 0
  <2>1. m \in Nat /\ m - 1 \in Nat /\ ~(m <= m - 1)
    BY <1>1, <1>3
  <2>2. m - 1 \notin T
    <3> HIDE DEF T
    <3> QED BY <1>1, <2>1
  <2>3. PICK f : Grows(f, turtle, words, m - 1)
    BY <2>1, <2>2
  <2> DEFINE g == [s \in SUBSET (1 .. m) |->
                      IF m \in s THEN Again(f[s \ {m}], words) ELSE f[s]]
  <2>4. ASSUME NEW s \in SUBSET (1 .. m)
        PROVE  g[s] = IF s = {} THEN Silent(turtle) ELSE Again(g[s \ {Max(s)}], words)
    <3>1. CASE m \in s
      <4>1. Max(s) = m /\ s # {}
        BY <2>1, <3>1, Greatest
      <4>2. s \ {m} \in SUBSET (1 .. m) /\ m \notin s \ {m}
        OBVIOUS
      <4>3. g[s \ {m}] = f[s \ {m}]
        BY <4>2
      <4> QED BY <3>1, <4>1, <4>3
    <3>2. CASE m \notin s
      <4>1. s \in SUBSET (1 .. m - 1) /\ g[s] = f[s]
        BY <2>1, <3>2
      <4>2. g[s] = IF s = {} THEN Silent(turtle) ELSE Again(f[s \ {Max(s)}], words)
        BY <2>3, <4>1, Zenon DEF Grows
      <4>3. s \ {Max(s)} \in SUBSET (1 .. m) /\ m \notin s \ {Max(s)}
        BY <3>2
      <4>4. g[s \ {Max(s)}] = f[s \ {Max(s)}]
        BY <4>3
      <4> QED BY <4>2, <4>4
    <3> QED BY <3>1, <3>2
  <2>5. DOMAIN g = SUBSET (1 .. m) /\ g = [s \in SUBSET (1 .. m) |-> g[s]]
    OBVIOUS
  <2> HIDE DEF g
  <2>6. Grows(g, turtle, words, m)
    BY <2>4, <2>5, Zenon DEF Grows
  <2> QED BY <1>1, <2>6
<1> QED BY <1>2, <1>3

GrowsAlong(G, turtle, words, l) ==
    /\ G[0] = Silent(turtle)
    /\ \A n \in 1 .. l : G[n] = Again(G[n - 1], words)
    /\ ReadBy(turtle, words) = G[l].items

LEMMA GrowsInOrder ==
  ASSUME NEW turtle, NEW words, NEW l \in Nat, DOMAIN words = 1 .. l
  PROVE  \E G : GrowsAlong(G, turtle, words, l)
<1> DEFINE iter == CHOOSE f : Grows(f, turtle, words, l)
<1>1. ReadBy(turtle, words) = iter[1 .. l].items
  BY DEF ReadBy, FoldLeft, MapThenFoldSet, Grows, Again, Silent
<1>2. Grows(iter, turtle, words, l)
  BY GrowsExists
<1> HIDE DEF iter
<1>3. \A s \in SUBSET (1 .. l) :
         iter[s] = IF s = {} THEN Silent(turtle) ELSE Again(iter[s \ {Max(s)}], words)
  BY <1>2, Zenon DEF Grows
<1> DEFINE G == [n \in 0 .. l |-> iter[1 .. n]]
<1>4. G[0] = Silent(turtle) /\ G[l] = iter[1 .. l]
  <2>1. 1 .. 0 = {} /\ {} \in SUBSET (1 .. l) /\ 0 \in 0 .. l /\ l \in 0 .. l
    OBVIOUS
  <2> QED BY <1>3, <2>1
<1>5. ASSUME NEW n \in 1 .. l PROVE G[n] = Again(G[n - 1], words)
  <2>1. 1 .. n \in SUBSET (1 .. l) /\ n \in 1 .. n /\ n \in Nat
    OBVIOUS
  <2>2. Max(1 .. n) = n
    BY <2>1, Greatest
  <2>3. (1 .. n) \ {n} = 1 .. n - 1
    OBVIOUS
  <2>4. iter[1 .. n] = Again(iter[1 .. n - 1], words)
    BY <1>3, <2>1, <2>2, <2>3
  <2> QED BY <2>4
<1> HIDE DEF G
<1>6. GrowsAlong(G, turtle, words, l)
  BY <1>1, <1>4, <1>5, Zenon DEF GrowsAlong
<1> QED BY <1>6

(* Which of the words that are not empty the first n are *)
Counts(C, list, S) ==
    LET l == Len(list)
        k == Len(Filled(list)) IN
    /\ C[0] = 0 /\ C[l] = k /\ \A m \in 0 .. l : C[m] \in 0 .. k
    /\ \A m \in 1 .. l :
          /\ list[m] = <<>> => C[m] = C[m - 1]
          /\ list[m] # <<>> => C[m] = C[m - 1] + 1 /\ Filled(list)[C[m]] = list[m]

LEMMA FilledCounts ==
  ASSUME NEW S, NEW list \in Seq(Seq(S))
  PROVE  /\ Filled(list) \in Seq(Seq(S))
         /\ \E C : Counts(C, list, S)
<1> DEFINE l == Len(list)
           first(m) == [j \in 1 .. m |-> list[j]]
           B == [m \in 0 .. l |-> Filled(first(m))]
           T == Seq(S)
<1>1. l \in Nat /\ DOMAIN list = 1 .. l /\ \A j \in 1 .. l : list[j] \in Seq(S)
  BY LenProperties, ElementOfSeq
<1>2. ASSUME NEW m \in 0 .. l
      PROVE  first(m) \in Seq(T) /\ Len(first(m)) = m
  <2>1. \A j \in 1 .. m : list[j] \in T
    BY <1>1
  <2> HIDE DEF T
  <2>2. m \in Nat /\ first(m) \in [1 .. m -> T]
    BY <1>1, <2>1
  <2> QED BY <2>2
<1>3. first(l) = list
  BY <1>1
<1>4. ASSUME NEW m \in 1 .. l
      PROVE  first(m) = Append(first(m - 1), list[m])
  <2>1. m \in Nat \ {0} /\ m \in 0 .. l /\ m - 1 \in 0 .. l
    BY <1>1
  <2> DEFINE f == first(m)
  <2>2. f \in [1 .. m -> T] /\ f[m] = list[m]
    <3>1. \A j \in 1 .. m : list[j] \in T
      BY <1>1
    <3>2. m \in 1 .. m
      BY <2>1
    <3> HIDE DEF T
    <3> QED BY <3>1, <3>2
  <2>3. [j \in 1 .. m - 1 |-> f[j]] = first(m - 1)
    <3>1. \A j \in 1 .. m - 1 : j \in 1 .. m
      BY <2>1
    <3> QED BY <3>1, Zenon
  <2>4. f = Append([j \in 1 .. m - 1 |-> f[j]], f[m])
    <3> HIDE DEF f, T
    <3> QED BY ONLY <2>1, <2>2, LastOne
  <2> QED BY <2>2, <2>3, <2>4, Zenon
<1>5. /\ \A m \in 0 .. l : B[m] \in Seq(Seq(S))
      /\ B[l] = Filled(list) /\ B[0] = <<>>
      /\ \A m \in 1 .. l : B[m] = IF list[m] = <<>> THEN B[m - 1] ELSE Append(B[m - 1], list[m])
  <2>1. ASSUME NEW m \in 0 .. l PROVE B[m] \in Seq(Seq(S)) /\ B[m] = Filled(first(m))
    <3>1. first(m) \in Seq(Seq(S)) /\ <<>> \in Seq(S)
      BY <1>2
    <3>2. Filled(first(m)) \in Seq(Seq(S))
      <4> HIDE DEF first
      <4> QED BY <3>1, FilledAppend
    <3> QED BY <3>2
  <2>2. B[0] = <<>>
    <3>1. 0 \in 0 .. l /\ first(0) = <<>>
      BY <1>1
    <3>2. Filled(<<>>) = <<>>
      BY FlattenNothing DEF Filled
    <3> QED BY <2>1, <3>1, <3>2
  <2>3. B[l] = Filled(list)
    <3>1. l \in 0 .. l
      BY <1>1
    <3> QED BY <1>3, <2>1, <3>1
  <2>4. ASSUME NEW m \in 1 .. l
        PROVE  B[m] = IF list[m] = <<>> THEN B[m - 1] ELSE Append(B[m - 1], list[m])
    <3>1. m \in 0 .. l /\ m - 1 \in 0 .. l
      BY <1>1
    <3>2. first(m - 1) \in Seq(Seq(S)) /\ list[m] \in Seq(S)
      BY <1>1, <1>2, <3>1
    <3>3. first(m) = Append(first(m - 1), list[m])
      BY <1>4
    <3> DEFINE few == first(m - 1)
               w == list[m]
    <3>4. B[m] = Filled(first(m)) /\ B[m - 1] = Filled(few)
      BY <2>1, <3>1
    <3> HIDE DEF few, B, w
    <3>5. Filled(Append(few, w)) = IF w = <<>> THEN Filled(few) ELSE Append(Filled(few), w)
      BY <3>2, FilledAppend DEF few, w
    <3> QED BY <3>3, <3>4, <3>5, Zenon DEF few, w
  <2> QED BY <2>1, <2>2, <2>3, <2>4
<1> DEFINE full == Filled(list)
           k == Len(full)
           C == [m \in 0 .. l |-> Len(B[m])]
           Ok(m) == Len(B[m]) <= k /\ \A j \in 1 .. Len(B[m]) : full[j] = B[m][j]
<1> HIDE DEF B, first, T
<1>6. ASSUME NEW m \in 1 .. l
      PROVE  /\ Len(B[m]) \in Nat /\ Len(B[m - 1]) \in Nat
             /\ list[m] = <<>> => B[m] = B[m - 1]
             /\ list[m] # <<>> =>
                   /\ Len(B[m]) = Len(B[m - 1]) + 1 /\ B[m][Len(B[m])] = list[m]
                   /\ \A j \in 1 .. Len(B[m - 1]) : B[m][j] = B[m - 1][j]
  <2>1. m \in 0 .. l /\ m - 1 \in 0 .. l
    BY <1>1
  <2>2. B[m] \in Seq(Seq(S)) /\ B[m - 1] \in Seq(Seq(S)) /\ list[m] \in Seq(S)
    BY <1>1, <1>5, <2>1
  <2>3. B[m] = IF list[m] = <<>> THEN B[m - 1] ELSE Append(B[m - 1], list[m])
    BY <1>5
  <2> QED BY <2>2, <2>3, LenProperties, AppendProperties
<1>7. full \in Seq(Seq(S)) /\ k \in Nat
  <2>1. l \in 0 .. l
    BY <1>1
  <2> QED BY <1>5, <2>1, LenProperties
<1> HIDE DEF full, k
<1>8. \A m \in 0 .. l : Ok(m)
  <2> DEFINE W == {r \in Nat : r <= l /\ ~Ok(l - r)}
  <2>1. SUFFICES W = {}
    <3>1. \A m \in 0 .. l : l - m \in Nat /\ l - m <= l /\ l - (l - m) = m
      BY <1>1
    <3> QED BY <3>1
  <2>2. SUFFICES ASSUME W # {} PROVE FALSE
    OBVIOUS
  <2>3. PICK r \in W : \A s \in W : r <= s
    <3>1. W \in SUBSET Nat
      OBVIOUS
    <3> HIDE DEF W
    <3> QED BY <2>2, <3>1, LeastNatural
  <2>4. r # 0
    <3>1. Ok(l)
      BY <1>5, <1>7 DEF full, k
    <3>2. l - 0 = l
      BY <1>1
    <3> QED BY <2>3, <3>1, <3>2
  <2> DEFINE m == l - r + 1
  <2>5. m \in 1 .. l /\ m - 1 = l - r /\ r - 1 \in Nat /\ r - 1 <= l /\ l - (r - 1) = m /\ ~(r <= r - 1)
    BY <1>1, <2>3, <2>4
  <2>6. Ok(m)
    <3>1. r - 1 \notin W
      <4> HIDE DEF W
      <4> QED BY <2>3, <2>5
    <3> QED BY <2>5, <3>1
  <2>7. ~Ok(m - 1)
    BY <2>3, <2>5
  <2> HIDE DEF m
  <2>8. Ok(m - 1)
    <3>1. CASE list[m] = <<>>
      BY <1>6, <2>5, <2>6, <3>1
    <3>2. CASE list[m] # <<>>
      <4>1. /\ Len(B[m]) = Len(B[m - 1]) + 1 /\ Len(B[m - 1]) \in Nat
            /\ \A j \in 1 .. Len(B[m - 1]) : B[m][j] = B[m - 1][j]
        BY <1>6, <2>5, <3>2
      <4>2. Len(B[m - 1]) <= k
        BY <1>7, <2>6, <4>1
      <4>3. \A j \in 1 .. Len(B[m - 1]) : j \in 1 .. Len(B[m])
        BY <4>1
      <4> QED BY <2>6, <4>1, <4>2, <4>3
    <3> QED BY <3>1, <3>2
  <2> QED BY <2>7, <2>8
<1>9. Counts(C, list, S)
  <2>1. C[0] = 0 /\ C[l] = k /\ \A m \in 0 .. l : C[m] \in 0 .. k
    <3>1. 0 \in 0 .. l /\ l \in 0 .. l
      BY <1>1
    <3>2. \A m \in 0 .. l : Len(B[m]) \in Nat /\ C[m] = Len(B[m])
      BY <1>5, LenProperties
    <3>3. C[0] = 0
      BY <1>5, <3>1
    <3>4. C[l] = k
      BY <1>5, <3>1 DEF k, full
    <3> QED BY <1>7, <1>8, <3>2, <3>3, <3>4
  <2>2. ASSUME NEW m \in 1 .. l
        PROVE  /\ list[m] = <<>> => C[m] = C[m - 1]
               /\ list[m] # <<>> => C[m] = C[m - 1] + 1 /\ full[C[m]] = list[m]
    <3>1. m \in 0 .. l /\ m - 1 \in 0 .. l
      BY <1>1
    <3>2. C[m] = Len(B[m]) /\ C[m - 1] = Len(B[m - 1])
      BY <3>1
    <3>3. ASSUME list[m] # <<>> PROVE full[Len(B[m])] = list[m]
      <4>1. Len(B[m]) = Len(B[m - 1]) + 1 /\ Len(B[m - 1]) \in Nat /\ B[m][Len(B[m])] = list[m]
        BY <1>6, <3>3
      <4>2. Len(B[m]) \in 1 .. Len(B[m])
        BY <4>1
      <4>3. Ok(m)
        BY <1>8, <3>1
      <4> QED BY <4>1, <4>2, <4>3
    <3> HIDE DEF C
    <3> QED BY <1>6, <3>2, <3>3
  <2> HIDE DEF C
  <2> QED BY <2>1, <2>2 DEF Counts, full, k
<1> QED BY <1>7, <1>9 DEF full

(* The turtle that is compared, when it is told where it starts *)
StartsAt(s, p) ==
    /\ DOMAIN s = Inc /\ s.attributes = Turtle.attributes /\ s.sizes = [g \in {} |-> 0]
    /\ s.points = <<p>> /\ s.pointStack = << <<0, p>> >>
    /\ s.movementStack = << <<0, 0, -1>> >> /\ s.verticalStack = << <<-1, 0, 0>> >>
    /\ s.horizontalStack = << <<0, 1, 0>> >>
    /\ s.currentSystemIndex = 0 /\ s.bracketCount = 0

LEMMA TurtleStarts ==
  /\ Turtle.currentSystemIndex = 0 /\ Turtle.points = <<Zero>>
  /\ StartsAt(Incremental!Started(Turtle), StartPointAttribute)
<1> DEFINE a == [startPoint |-> StartPointAttribute, startDirection |-> Bad,
                 angles |-> [b \in Turns |-> Parsed(AngleKey(b))],
                 atomicSize |-> Parsed(<<"AtomicSize">>)]
           p == StartPointAttribute
<1>1. p # Bad
  BY StartsThere, SmokeTestAssumption DEF Vectors
<1>2. a.startPoint = p /\ a.startDirection = Bad
  OBVIOUS
<1>3. Turtle = Incremental!NewTurtle(0, a)
  BY Zenon DEF Turtle
<1> HIDE DEF a
<1>4. PICK t : t = Incremental!NewTurtle(0, a)
  OBVIOUS
<1>5. /\ t.attributes = a /\ t.currentSystemIndex = 0 /\ t.points = <<Zero>>
      /\ t.pointStack = << <<0, Zero>> >> /\ t.movementStack = << <<0, 0, -1>> >>
      /\ DOMAIN t = Inc /\ t.sizes = [g \in {} |-> 0] /\ t.bracketCount = 0
      /\ t.verticalStack = << <<-1, 0, 0>> >> /\ t.horizontalStack = << <<0, 1, 0>> >>
  BY <1>4 DEF Incremental!NewTurtle, Incremental!Zero, Zero, Inc
<1>6. Incremental!IsFirst(t)
  BY <1>5 DEF Incremental!IsFirst
<1>7. Incremental!Started(t) = Incremental!AtStartPoint(t, p)
  BY <1>1, <1>2, <1>5, <1>6, Zenon DEF Incremental!Started
<1> HIDE DEF p
<1>8. /\ [<<Zero>> EXCEPT ![1] = p] = <<p>>
      /\ [<< <<0, Zero>> >> EXCEPT ![1] = <<0, p>>] = << <<0, p>> >>
  OBVIOUS
<1>9. PICK q, r : q = [t.points EXCEPT ![1] = p] /\ r = [t.pointStack EXCEPT ![1] = <<0, p>>]
  OBVIOUS
<1>10. Incremental!AtStartPoint(t, p) = [t EXCEPT !.points = q, !.pointStack = r]
  BY <1>9, Zenon DEF Incremental!AtStartPoint
<1>11. q = <<p>> /\ r = << <<0, p>> >>
  BY <1>5, <1>8, <1>9
<1> DEFINE s == [t EXCEPT !.points = q, !.pointStack = r]
<1>12. /\ DOMAIN s = Inc /\ s.attributes = a /\ s.sizes = [g \in {} |-> 0]
       /\ s.points = q /\ s.pointStack = r
       /\ s.movementStack = << <<0, 0, -1>> >> /\ s.verticalStack = << <<-1, 0, 0>> >>
       /\ s.horizontalStack = << <<0, 1, 0>> >>
       /\ s.currentSystemIndex = 0 /\ s.bracketCount = 0
  BY <1>5 DEF Inc
<1> HIDE DEF s
<1>13. StartsAt(s, p)
  BY <1>3, <1>4, <1>5, <1>11, <1>12, Zenon DEF StartsAt
<1> QED BY <1>3, <1>4, <1>5, <1>7, <1>10, <1>13, Zenon DEF s, p

LEMMA StartTwin ==
  ASSUME NEW exact \in BOOLEAN
  PROVE  Twins(Beginning, Incremental!Started(Turtle), Turtle.attributes,
               <<StartPointAttribute>>, exact)
<1> DEFINE p == StartPointAttribute
           s == Incremental!Started(Turtle)
           g == Beginning
<1>1. StartsAt(s, p)
  BY TurtleStarts
<1>2. Sound(g)
  BY BeginningSound
<1>3. /\ g.bracketScope = 0 /\ g.coordinates = <<p>> /\ g.turtlePoint = p
      /\ g.turtleMovementAxis = <<0, 0, -1>>
  BY DEF Beginning
<1> HIDE DEF g, s, p
<1>4. \A x : Stacked(<<x>>, 1)
  <2> TAKE x
  <2>1. <<x>> \in Seq({x}) /\ Len(<<x>>) = 1
    OBVIOUS
  <2> QED BY <2>1, Zenon DEF Stacked, IsSeq
<1>5. InStep(s, Turtle.attributes, 0)
  <2>1. 0 + 1 = 1
    OBVIOUS
  <2>2. IsSeq(<<p>>)
    BY <1>4 DEF Stacked
  <2> QED BY <1>1, <1>4, <2>1, <2>2, Zenon DEF InStep, StartsAt
<1>6. SameItems(<<p>>, <<p>>, exact)
  BY DEF SameItems
<1>7. SamePlaces(g, s)
  <2> SUFFICES ASSUME NEW k \in 1 .. g.bracketScope + 1
               PROVE  s.pointStack[k][2] = PointAt(g, k) /\ s.movementStack[k] = MovementAt(g, k)
    BY DEF SamePlaces
  <2>1. k = 1 /\ ~(k <= 0)
    BY <1>3
  <2>2. PointAt(g, k) = p /\ MovementAt(g, k) = <<0, 0, -1>>
    BY <1>3, <2>1 DEF PointAt, MovementAt
  <2>3. s.pointStack[1] = <<0, p>> /\ s.movementStack[1] = <<0, 0, -1>>
    BY <1>1 DEF StartsAt
  <2> QED BY <2>1, <2>2, <2>3
<1>8. IsSeq(<<p>>)
  BY <1>4 DEF Stacked
<1>9. Twins(g, s, Turtle.attributes, <<p>>, exact)
  BY <1>2, <1>3, <1>5, <1>6, <1>7, <1>8, Zenon DEF Twins
<1> QED BY <1>9 DEF g, s, p

(* Where both are when the one has read some words, the other some genes *)
InTurn(g, so, c, exact) ==
    LET s == Incremental!Started(so.turtle) IN
    /\ Twins(g, s, Turtle.attributes, so.items, exact)
    /\ so.turtle.currentSystemIndex = c /\ s.currentSystemIndex = c
    /\ Len(so.turtle.points) \in Nat /\ Len(s.points) = Len(so.turtle.points)
    /\ Len(so.turtle.points) <= c + 1

LEMMA BeginsInTurn ==
  ASSUME NEW exact \in BOOLEAN, Numbered
  PROVE  InTurn(Beginning, Silent(Turtle), 0, exact)
<1> DEFINE p == StartPointAttribute
           s == Incremental!Started(Turtle)
           so == Silent(Turtle)
<1>1. /\ Turtle.currentSystemIndex = 0 /\ Turtle.points = <<Zero>>
      /\ StartsAt(s, p)
  BY TurtleStarts
<1>2. Twins(Beginning, s, Turtle.attributes, <<p>>, exact)
  BY StartTwin
<1>3. Turtle.attributes.startPoint = p
  BY AttributesMatch
<1>4. so.turtle = Turtle /\ so.items = <<p>>
  BY <1>3 DEF Silent
<1> HIDE DEF s, so, p
<1>5. Len(Turtle.points) = 1 /\ Len(s.points) = 1 /\ s.currentSystemIndex = 0
  BY <1>1 DEF StartsAt
<1>6. 1 \in Nat /\ 1 <= 0 + 1
  OBVIOUS
<1> QED BY <1>1, <1>2, <1>4, <1>5, <1>6, Zenon DEF InTurn, s, so

LEMMA StaysInTurn ==
  ASSUME NEW exact \in BOOLEAN, Numbered, NEW g, NEW so, NEW c \in Nat, InTurn(g, so, c, exact),
         NEW words, Len(words) \in Nat, c < Len(words), Len(words) < MaxPoints,
         NEW w, words[c + 1] \in AllWords, KindOf(w) = OtherKind(words[c + 1]),
         exact => KindOf(w) \notin Turns
  PROVE  InTurn(ReadWord(g, w), Again(so, words), c + 1, exact)
<1> DEFINE t == so.turtle
           s == Incremental!Started(t)
           a == Turtle.attributes
           x == words[c + 1]
           h == ReadWord(g, w)
           n == g.bracketScope
<1>1. /\ Twins(g, s, a, so.items, exact)
      /\ t.currentSystemIndex = c /\ s.currentSystemIndex = c
      /\ Len(t.points) \in Nat /\ Len(s.points) = Len(t.points) /\ Len(t.points) <= c + 1
  BY Zenon DEF InTurn
<1>2. MaxPoints \in Nat /\ Len(t.points) < MaxPoints
  <2>1. MaxPoints \in Nat
    BY SmokeTestAssumption
  <2> HIDE DEF t
  <2> QED BY <1>1, <2>1
<1>3. InStep(s, a, n)
  BY <1>1, Zenon DEF Twins
<1>4. PICK b : b = [s EXCEPT !.currentSystemIndex = c + 1]
  OBVIOUS
<1>5. Incremental!Begun(t) = b
  BY <1>1, <1>4, Zenon DEF Incremental!Begun
<1> HIDE DEF s, a, x, h, n, t
<1>6. DOMAIN s = Inc
  BY <1>3 DEF InStep
<1>7. /\ DOMAIN b = Inc /\ b.attributes = s.attributes /\ b.sizes = s.sizes /\ b.points = s.points
      /\ b.pointStack = s.pointStack /\ b.movementStack = s.movementStack
      /\ b.verticalStack = s.verticalStack /\ b.horizontalStack = s.horizontalStack
      /\ b.bracketCount = s.bracketCount /\ b.currentSystemIndex = c + 1
  BY <1>4, <1>6 DEF Inc
<1>8. Twins(g, b, a, so.items, exact)
  <2>1. InStep(b, a, n)
    BY <1>3, <1>7, Zenon DEF InStep
  <2>2. exact => SamePlaces(g, b)
    <3>1. exact => SamePlaces(g, s)
      BY <1>1, Zenon DEF Twins
    <3> QED BY <1>7, <3>1, Zenon DEF SamePlaces
  <2> QED BY <1>1, <2>1, <2>2, Zenon DEF Twins, n
<1>9. Len(b.points) < MaxPoints /\ Len(b.points) \in Nat
  BY <1>1, <1>2, <1>7
<1>10. PICK r : /\ Incremental!Interpreted(b, x) = {r}
                /\ Follows(r, h, b, a, so.items, exact)
  <2>1. x \in AllWords /\ KindOf(w) = OtherKind(x)
    BY DEF x
  <2>2. Twins(g, b, Turtle.attributes, so.items, exact)
    BY <1>8 DEF a
  <2>3. \E r : /\ Incremental!Interpreted(b, x) = {r}
               /\ Follows(r, ReadWord(g, w), b, Turtle.attributes, so.items, exact)
    BY ONLY exact \in BOOLEAN, <1>9, <2>1, <2>2, Numbered, exact => KindOf(w) \notin Turns,
            WordFollows
  <2> QED BY <2>3, Zenon DEF h, a
<1>11. Incremental!Grow(t, words) = {r}
  <2>1. Incremental!HasGene(t, words)
    BY <1>1, <1>2 DEF Incremental!HasGene
  <2>2. Incremental!Grow(t, words) =
          UNION {Incremental!Interpreted(u, words[c + 1]) : u \in {b}}
    BY <1>1, <1>5, <2>1, Zenon DEF Incremental!Grow
  <2>3. UNION {Incremental!Interpreted(u, words[c + 1]) : u \in {b}}
          = Incremental!Interpreted(b, words[c + 1])
    OBVIOUS
  <2> QED BY <1>10, <2>2, <2>3, Zenon DEF x
<1> DEFINE next == Again(so, words)
<1>12. next.turtle = r.turtle /\ next.items = so.items \o ItemOf(r)
  <2>1. (CHOOSE q \in {r} : TRUE) = r
    OBVIOUS
  <2>2. next = [turtle |-> r.turtle, items |-> so.items \o ItemOf(r)]
    BY <1>11, <2>1, Zenon DEF Again, GrownOnce, t
  <2> QED BY <2>2
<1>13. /\ Twins(h, r.turtle, a, so.items \o ItemOf(r), exact)
       /\ r.turtle.currentSystemIndex = b.currentSystemIndex
       /\ Len(r.turtle.points) \in Nat /\ Len(r.turtle.points) <= Len(b.points) + 1
  BY <1>10, Zenon DEF Follows
<1>14. Incremental!Started(r.turtle) = r.turtle
  <2>1. r.turtle.currentSystemIndex # 0
    BY <1>7, <1>13
  <2>2. ~Incremental!IsFirst(r.turtle)
    BY <2>1, Zenon DEF Incremental!IsFirst
  <2> QED BY <2>2, Zenon DEF Incremental!Started
<1> HIDE DEF next
<1>15. Len(r.turtle.points) <= c + 1 + 1
  BY <1>1, <1>7, <1>9, <1>13
<1> QED BY <1>7, <1>12, <1>13, <1>14, <1>15, Zenon DEF InTurn, next, h, a

LEMMA NoWordRead ==
  ASSUME NEW g
  PROVE  ReadWord(g, <<>>) = g
<1> DEFINE word == <<>>
<1>1. KindOf(word) = "other"
  BY DEF KindOf
<1> HIDE DEF word
<1>2. ReadWord(g, word) = g
  BY <1>1 DEF ReadWord
<1> QED BY <1>2 DEF word

LEMMA LengthOf ==
  ASSUME NEW k \in Nat, NEW f, f = [n \in 1 .. k |-> f[n]]
  PROVE  Len(f) = k /\ DOMAIN f = 1 .. k
<1> DEFINE T == {f[n] : n \in 1 .. k}
<1>1. \A n \in 1 .. k : f[n] \in T
  OBVIOUS
<1> HIDE DEF T
<1>2. f \in [1 .. k -> T]
  BY <1>1
<1> QED BY <1>2, SeqDef, LenProperties

(* What the other interpreter is told: the genes one after the other,      *)
(* without those of no letters, and without their spaces.                  *)
LEMMA ShapesSimulated ==
  ASSUME NEW text, IsSeq(text), Numbered, Known(text)
  PROVE  SameItems(Interpretation(text), ReadBy(Turtle, split(text)), Straight(text))
<1> DEFINE parts == parseVector(text)
           l == Len(parts)
           tokens == Filled(parts)
           k == Len(tokens)
           words == split(text)
           exact == Straight(text)
<1>1. PICK S : text \in Seq(S)
  BY DEF IsSeq
<1>2. parts \in Seq(Seq(S))
  BY <1>1, PartsList DEF parseVector
<1>3. l \in Nat /\ DOMAIN parts = 1 .. l
  BY <1>2, LenProperties
<1>4. tokens \in Seq(Seq(S)) /\ \E C : Counts(C, parts, S)
  <2> HIDE DEF parts
  <2> QED BY <1>2, FilledCounts
<1>5. PICK C : Counts(C, parts, S)
  BY <1>4
<1>6. k \in Nat /\ DOMAIN tokens = 1 .. k
  BY <1>4, LenProperties
<1>7. /\ Len(words) = k /\ DOMAIN words = 1 .. k
      /\ \A n \in 1 .. k : words[n] = trim(tokens[n])
  <2>1. words = [n \in DOMAIN tokens |-> trim(tokens[n])]
    BY Zenon DEF split
  <2> HIDE DEF words, tokens
  <2>2. words = [n \in 1 .. k |-> words[n]] /\ \A n \in 1 .. k : words[n] = trim(tokens[n])
    BY <1>6, <2>1
  <2> QED BY <1>6, <2>2, LengthOf
<1>8. exact \in BOOLEAN
  BY DEF Straight
<1>9. /\ k < MaxPoints
      /\ \A w \in ToSet(parts) : w # <<>> => trim(w) \in AllWords /\ KindOf(w) = OtherKind(trim(w))
  BY <1>7, Zenon DEF Known
<1>10. exact => \A w \in ToSet(parts) : KindOf(w) \notin Turns
  BY Zenon DEF Straight
<1>11. \A m \in 1 .. l : parts[m] \in ToSet(parts)
  BY <1>3, Zenon DEF ToSet
<1>12. Interpretation(text) = FoldLeft(ReadWord, Beginning, parts).coordinates
  BY Zenon DEF Interpretation
<1>13. /\ C[0] = 0 /\ C[l] = k /\ \A m \in 0 .. l : C[m] \in 0 .. k
       /\ \A m \in 1 .. l :
             /\ parts[m] = <<>> => C[m] = C[m - 1]
             /\ parts[m] # <<>> => C[m] = C[m - 1] + 1 /\ tokens[C[m]] = parts[m]
  BY <1>5, Zenon DEF Counts
<1> HIDE DEF parts, tokens, words, exact, l, k
<1>14. PICK G : /\ G[0] = Beginning
                /\ \A n \in 1 .. l : G[n] = ReadWord(G[n - 1], parts[n])
                /\ FoldLeft(ReadWord, Beginning, parts) = G[l]
  BY <1>3, ReadsInOrder
<1>15. PICK I : /\ I[0] = Silent(Turtle)
                /\ \A n \in 1 .. k : I[n] = Again(I[n - 1], words)
                /\ ReadBy(Turtle, words) = I[k].items
  <2>1. k \in Nat /\ DOMAIN words = 1 .. k
    BY <1>6, <1>7
  <2>2. PICK t : t = Turtle
    OBVIOUS
  <2>3. PICK I : GrowsAlong(I, t, words, k)
    BY ONLY <2>1, GrowsInOrder
  <2> QED BY ONLY <2>2, <2>3, Zenon DEF GrowsAlong
<1> DEFINE Same(m) == InTurn(G[m], I[C[m]], C[m], exact)
<1>16. Same(0)
  BY <1>8, <1>13, <1>14, <1>15, BeginsInTurn
<1>17. ASSUME NEW m \in 1 .. l, Same(m - 1)
       PROVE  Same(m)
  <2>1. m - 1 \in 0 .. l /\ m \in 0 .. l
    BY <1>3
  <2>2. G[m] = ReadWord(G[m - 1], parts[m])
    BY <1>14
  <2>3. CASE parts[m] = <<>>
    <3>1. G[m] = G[m - 1]
      BY <2>2, <2>3, NoWordRead
    <3>2. C[m] = C[m - 1]
      BY <1>13, <2>3
    <3> QED BY <1>17, <3>1, <3>2, Zenon
  <2>4. CASE parts[m] # <<>>
    <3> DEFINE c == C[m - 1]
               w == parts[m]
    <3>1. C[m] = c + 1 /\ tokens[C[m]] = w
      BY <1>13, <2>4
    <3>2. C[m] \in 0 .. k /\ c \in 0 .. k
      BY <1>13, <2>1
    <3> HIDE DEF c, w
    <3>3. c \in Nat /\ c < k /\ c + 1 \in 1 .. k /\ c + 1 - 1 = c
      BY <1>6, <3>1, <3>2
    <3>4. words[c + 1] = trim(w)
      BY <1>7, <3>1, <3>3
    <3>5. trim(w) \in AllWords /\ KindOf(w) = OtherKind(trim(w)) /\ (exact => KindOf(w) \notin Turns)
      BY <1>9, <1>10, <1>11, <2>4 DEF w
    <3>6. I[c + 1] = Again(I[c], words)
      BY <1>15, <3>3
    <3>7. InTurn(G[m - 1], I[c], c, exact)
      BY <1>17 DEF c
    <3>8. Len(words) \in Nat /\ c < Len(words) /\ Len(words) < MaxPoints
      BY <1>6, <1>7, <1>9, <3>3
    <3>9. words[c + 1] \in AllWords /\ KindOf(w) = OtherKind(words[c + 1])
      BY <3>4, <3>5
    <3>10. InTurn(ReadWord(G[m - 1], w), Again(I[c], words), c + 1, exact)
      BY ONLY <1>8, Numbered, <3>3, <3>5, <3>7, <3>8, <3>9, StaysInTurn
    <3> QED BY <2>2, <3>1, <3>6, <3>10, Zenon DEF w
  <2> QED BY <2>3, <2>4
<1> HIDE DEF Same
<1>18. \A m \in 0 .. l : Same(m)
  <2> DEFINE W == {m \in Nat : m <= l /\ ~Same(m)}
  <2>1. SUFFICES ASSUME W # {} PROVE FALSE
    BY <1>3
  <2>2. PICK n \in W : \A m \in W : n <= m
    <3>1. W \in SUBSET Nat
      OBVIOUS
    <3> HIDE DEF W
    <3> QED BY <2>1, <3>1, LeastNatural
  <2>3. n # 0 /\ n \in 1 .. l /\ n - 1 \in Nat /\ n - 1 <= l /\ ~(n <= n - 1)
    <3>1. n # 0
      BY <1>16, <2>2
    <3> QED BY <1>3, <2>2, <3>1
  <2>4. n - 1 \notin W
    <3> HIDE DEF W
    <3> QED BY <2>2, <2>3
  <2>5. Same(n - 1)
    BY <2>3, <2>4
  <2>6. Same(n)
    BY <1>17, <2>3, <2>5
  <2> QED BY <2>2, <2>6
<1>19. InTurn(G[l], I[k], k, exact)
  <2>1. l \in 0 .. l
    BY <1>3
  <2>2. Same(l)
    BY <1>18, <2>1
  <2> QED BY <1>13, <2>2, Zenon DEF Same
<1>20. SameItems(G[l].coordinates, I[k].items, exact)
  BY <1>19, Zenon DEF InTurn, Twins
<1> QED BY <1>12, <1>14, <1>15, <1>20, Zenon DEF words, exact

-----------------------------------------------------------------------------
(* The type of every variable *)

Texts(attributes) == \A k \in DOMAIN attributes : attributes[k] \in Seq(STRING)
AttributesInv == Texts(systemAttributes) /\ Texts(saved) /\ file = FileOf(saved)

LEMMA FileOfTexts ==
  ASSUME NEW attributes, Texts(attributes)
  PROVE  FileOf(attributes) \in Seq(Seq(STRING))
<1> DEFINE l == Len(Keys)
           T == Seq(Seq(STRING))
           part(n) == IF Keys[n] \in DOMAIN attributes
                      THEN <<Keys[n]>> \o Words(attributes[Keys[n]]) ELSE <<>>
           ss == [n \in 1 .. l |-> part(n)]
<1>1. l \in Nat /\ DOMAIN Keys = 1 .. l
  BY GenericAssumption, SequencesAre
<1>2. \A n \in 1 .. l : Keys[n] \in Seq(STRING)
  BY <1>1, SmokeTestAssumption
<1>3. ASSUME NEW n \in 1 .. l PROVE part(n) \in T
  <2>1. CASE Keys[n] \in DOMAIN attributes
    <3> DEFINE x == attributes[Keys[n]]
               y == Keys[n]
    <3>1. x \in Seq(STRING) /\ y \in Seq(STRING)
      BY <1>2, <2>1 DEF Texts
    <3>2. part(n) = <<y>> \o Words(x)
      BY <2>1
    <3> HIDE DEF x, y, part
    <3>3. Parts(x, Space) \in Seq(Seq(STRING)) /\ <<>> \in Seq(STRING)
      BY <3>1, PartsList
    <3>4. Words(x) \in Seq(Seq(STRING))
      BY <3>3, FilledAppend DEF Words
    <3>5. <<y>> \in Seq(Seq(STRING))
      BY <3>1
    <3> QED BY <3>2, <3>4, <3>5, ConcatProperties
  <2>2. CASE Keys[n] \notin DOMAIN attributes
    <3>1. part(n) = <<>> /\ <<>> \in Seq(Seq(STRING))
      BY <2>2
    <3> HIDE DEF part
    <3> QED BY <3>1
  <2> QED BY <2>1, <2>2
<1> HIDE DEF part
<1>4. ss \in Seq(T)
  <2>1. ss \in [1 .. l -> T]
    BY <1>3
  <2> HIDE DEF ss, T
  <2> QED BY <1>1, <2>1, SeqDef
<1>5. FileOf(attributes) = FlattenSeq(ss)
  BY <1>1 DEF FileOf, part
<1> HIDE DEF ss, l
<1> QED BY <1>4, <1>5, FlattenPlaces

LEMMA LoadsTexts ==
  ASSUME AttributesInv, loadAttributes
  PROVE  Texts(systemAttributes)'
<1> DEFINE names == {n \in DOMAIN file : n % 2 = 1}
           last(j) == CHOOSE n \in names : file[n] = j /\ \A m \in names : file[m] = j => m <= n
           newline == file # <<>> /\ Len(file) % 2 = 0
           D == DOMAIN systemAttributes \cup {file[n] : n \in names}
                     \cup (IF newline THEN {<<>>} ELSE {})
           value(j) == IF \E n \in names : file[n] = j
                       THEN IF last(j) < Len(file) THEN file[last(j) + 1] ELSE <<>>
                       ELSE IF j = <<>> /\ newline THEN <<>> ELSE systemAttributes[j]
<1>1. systemAttributes' = [j \in D |-> value(j)]
  BY DEF loadAttributes
<1>2. file \in Seq(Seq(STRING))
  BY FileOfTexts DEF AttributesInv
<1>3. Len(file) \in Nat /\ DOMAIN file = 1 .. Len(file) /\ names \subseteq 1 .. Len(file)
      /\ \A n \in 1 .. Len(file) : file[n] \in Seq(STRING)
  BY <1>2, LenProperties, ElementOfSeq
<1>4. <<>> \in Seq(STRING)
  OBVIOUS
<1> HIDE DEF names
<1>5. ASSUME NEW j \in D PROVE value(j) \in Seq(STRING)
  <2>1. CASE \E n \in names : file[n] = j
    <3>1. last(j) \in names
      <4> DEFINE s == {n \in names : file[n] = j}
                 l == Len(file)
      <4>1. l \in Nat /\ s \in SUBSET (1 .. l) /\ s # {}
        BY <1>3, <2>1
      <4>2. Max(s) \in s /\ \A m \in s : m <= Max(s)
        <5> HIDE DEF s, l
        <5> QED BY <4>1, Greatest
      <4>3. \E n \in names : file[n] = j /\ \A m \in names : file[m] = j => m <= n
        BY <4>2
      <4> HIDE DEF s, l
      <4> QED BY <4>3
    <3> HIDE DEF last
    <3>2. CASE last(j) < Len(file)
      <4> DEFINE p == last(j)
                 l == Len(file)
      <4>1. p \in 1 .. l /\ p < l /\ l \in Nat
        BY <1>3, <3>1, <3>2
      <4>2. p + 1 \in 1 .. l
        <5> HIDE DEF p, l
        <5> QED BY ONLY <4>1
      <4>3. value(j) = file[last(j) + 1]
        BY <2>1, <3>2, Zenon
      <4> QED BY <1>3, <4>2, <4>3
    <3>3. CASE ~(last(j) < Len(file))
      BY <1>4, <2>1, <3>3
    <3> QED BY <3>2, <3>3
  <2>2. CASE ~ \E n \in names : file[n] = j
    <3> HIDE DEF last
    <3>1. CASE j = <<>> /\ newline
      BY <1>4, <2>2, <3>1
    <3>2. CASE ~(j = <<>> /\ newline)
      <4>1. j \in DOMAIN systemAttributes
        BY <2>2, <3>2
      <4>2. systemAttributes[j] \in Seq(STRING)
        BY <4>1 DEF AttributesInv, Texts
      <4> QED BY <2>2, <3>2, <4>2
    <3> QED BY <3>1, <3>2
  <2> QED BY <2>1, <2>2
<1> HIDE DEF D, value, last, newline
<1> QED BY <1>1, <1>5 DEF Texts

LEMMA LookedTexts ==
  ASSUME AttributesInv, NEW keys
  PROVE  Texts(Looked(keys))
<1>1. <<>> \in Seq(STRING)
  OBVIOUS
<1>2. \A k : Attribute(k) \in Seq(STRING)
  BY <1>1 DEF Attribute, AttributesInv, Texts
<1> QED BY <1>2 DEF Looked, Texts

LEMMA AttributesStep ==
  ASSUME AttributesInv, [Next]_vars
  PROVE  AttributesInv'
<1>1. ASSUME UNCHANGED interpreterVars PROVE AttributesInv'
  <2>1. UNCHANGED <<systemAttributes, saved, file>>
    BY <1>1 DEF interpreterVars
  <2> QED BY <2>1 DEF AttributesInv, Texts, FileOf
<1>2. ASSUME UNCHANGED <<file, saved>>, Texts(systemAttributes)' PROVE AttributesInv'
  <2>1. Texts(saved)' /\ (file = FileOf(saved))'
    BY <1>2 DEF AttributesInv, Texts, FileOf
  <2> QED BY <1>2, <2>1 DEF AttributesInv
<1>3. ASSUME NEW keys, systemAttributes' = Looked(keys) PROVE Texts(systemAttributes)'
  <2>1. Texts(Looked(keys))
    BY LookedTexts
  <2> QED BY <1>3, <2>1 DEF Texts
<1>4. ASSUME NEW attributes \in Settings, SetAll(attributes) PROVE AttributesInv'
  <2>1. systemAttributes' = attributes /\ UNCHANGED <<file, saved>>
    BY <1>4, Zenon DEF SetAll, Attributes, setAttributes
  <2>2. \A k \in DOMAIN attributes : attributes[k] \in Seq(STRING)
    BY SmokeTestAssumption
  <2>3. Texts(systemAttributes)'
    BY <2>1, <2>2 DEF Texts
  <2> QED BY <1>2, <2>1, <2>3
<1>5. ASSUME NEW pair \in Values, SetOne(pair[1], pair[2]) PROVE AttributesInv'
  <2> DEFINE key == pair[1]
             value == pair[2]
             f == Looked({key})
  <2>1. systemAttributes' = [f EXCEPT ![key] = value] /\ UNCHANGED <<file, saved>>
    BY <1>5, Zenon DEF SetOne, Attributes, setAttribute
  <2>2. value \in Seq(STRING)
    BY SmokeTestAssumption
  <2>3. Texts(f)
    BY LookedTexts
  <2> HIDE DEF f, key, value
  <2>4. Texts(systemAttributes)'
    BY <2>1, <2>2, <2>3 DEF Texts
  <2> QED BY <1>2, <2>1, <2>4
<1>6. ASSUME NEW key, getAttributeValue(key) PROVE AttributesInv'
  <2>1. systemAttributes' = Looked({key}) /\ UNCHANGED <<file, saved>>
    BY <1>6, Zenon DEF getAttributeValue
  <2> QED BY <1>2, <1>3, <2>1
<1>7. CASE Save
  <2>1. file' = FileOf(systemAttributes) /\ saved' = systemAttributes
        /\ systemAttributes' = systemAttributes
    BY <1>7, Zenon DEF Save, Attributes, saveAttributes
  <2> QED BY <2>1 DEF AttributesInv, Texts, FileOf
<1>8. CASE Load
  <2>1. loadAttributes /\ UNCHANGED <<file, saved>>
    BY <1>8, Zenon DEF Load, Attributes, loadAttributes
  <2>2. Texts(systemAttributes)'
    BY <2>1, LoadsTexts
  <2> QED BY <1>2, <2>1, <2>2
<1>9. ASSUME NEW words, Interpret(words) PROVE AttributesInv'
  <2>1. systemAttributes' = Looked(Consulted(SystemText(words))) /\ UNCHANGED <<file, saved>>
    BY <1>9, Zenon DEF Interpret, getSystem
  <2> QED BY <1>2, <1>3, <2>1
<1>10. CASE \E m \in Maps : SendMap(m)
  BY <1>1, <1>10, Zenon DEF SendMap
<1>11. CASE \E o \in Stored : StoreSystem(o)
  BY <1>1, <1>11, Zenon DEF StoreSystem
<1>12. CASE \E attributes \in Settings : SetAll(attributes)
  BY <1>4, <1>12, Zenon
<1>13. CASE \E pair \in Values : SetOne(pair[1], pair[2]) \/ GetOne(pair[1])
  BY <1>5, <1>6, <1>13, Zenon DEF GetOne, Attributes
<1>14. CASE \E list \in Lists : PlaceList(list)
  BY <1>1, <1>14, Zenon DEF PlaceList
<1>15. CASE \E levels \in Pointed : PlacePointed(levels)
  BY <1>1, <1>15, Zenon DEF PlacePointed
<1>16. CASE \E words \in Systems \cup {loaded.system} : Interpret(words)
  BY <1>9, <1>16, Zenon
<1>17. CASE \E items \in Strangers : Strange(items)
  BY <1>1, <1>17, Zenon DEF Strange
<1>18. CASE Sort
  BY <1>6, <1>18, Zenon DEF Sort
<1>19. CASE PlaceOne
  BY <1>1, <1>19, Zenon DEF PlaceOne
<1>20. CASE UNCHANGED vars
  BY <1>1, <1>20 DEF vars
<1> QED BY <1>7, <1>8, <1>10, <1>11, <1>12, <1>13, <1>14, <1>15, <1>16, <1>17, <1>18, <1>19, <1>20
        DEF Next

LEMMA AttributesInit == Init => AttributesInv
<1> SUFFICES ASSUME Init PROVE AttributesInv
  OBVIOUS
<1>1. PICK earlier \in Saves : InterpreterInit(earlier)
  BY DEF Init
<1>2. \A k \in DOMAIN earlier : earlier[k] \in Seq(STRING)
  BY SmokeTestAssumption
<1>3. /\ systemAttributes = [k \in {} |-> <<>>]
      /\ file = FileOf(earlier) /\ saved = earlier
  BY <1>1, Zenon DEF InterpreterInit
<1>4. DOMAIN systemAttributes = {}
  BY <1>3
<1> QED BY <1>2, <1>3, <1>4, Zenon DEF AttributesInv, Texts

(* What is a sphere was a point, or longer: a pointer is none. *)
PlacedWhole == \A n \in DOMAIN space : Len(space[n].at) >= 3

LEMMA WholeStep ==
  ASSUME SpaceInv, PlacedWhole, [PlacementNext]_placementVars
  PROVE  PlacedWhole'
<1>1. ASSUME UNCHANGED space PROVE PlacedWhole'
  BY <1>1 DEF PlacedWhole
<1>2. CASE \E levels \in Given, r \in Coordinates : AddSystem(levels, r)
  BY <1>1, <1>2 DEF AddSystem, Called
<1>3. CASE \E points \in Seq(Items), rs \in Seq(Coordinates) : AddList(points, rs)
  BY <1>1, <1>3 DEF AddList, Called
<1>4. CASE PointerCut \/ Skip \/ BranchEnd
  BY <1>1, <1>4 DEF PointerCut, Skip, BranchEnd
<1>5. CASE Place /\ Collided(Append(space, Ball(level, i)))
  BY <1>1, <1>5, CollisionStep
<1>6. CASE Place /\ ~Collided(Append(space, Ball(level, i)))
  <2>1. /\ SpaceInv' /\ Len(space') = Len(space) + 1 /\ space'[Len(space) + 1] = Ball(level, i)
        /\ \A m \in 1 .. Len(space) : space'[m] = space[m]
    BY <1>6, RoomStep
  <2>2. Ball(level, i).at = Point /\ Len(Point) >= 3
    BY <1>6 DEF Ball, Sphere, Point, Place
  <2>3. space \in Seq(Spheres) /\ space' \in Seq(Spheres)
    BY <2>1 DEF SpaceInv, Typed, Spheres, Items, Coordinates
  <2>4. /\ Len(space) \in Nat /\ DOMAIN space = 1 .. Len(space)
        /\ DOMAIN space' = 1 .. Len(space')
    BY <2>3, LenProperties
  <2> SUFFICES ASSUME NEW n \in DOMAIN space'
               PROVE  Len(space'[n].at) >= 3
    BY DEF PlacedWhole
  <2>5. n \in 1 .. Len(space) \/ n = Len(space) + 1
    BY <2>1, <2>4
  <2>6. CASE n \in 1 .. Len(space)
    BY <2>1, <2>4, <2>6 DEF PlacedWhole
  <2>7. CASE n = Len(space) + 1
    BY <2>1, <2>2, <2>7
  <2> QED BY <2>5, <2>6, <2>7
<1>7. CASE UNCHANGED placementVars
  BY <1>1, <1>7 DEF placementVars
<1> QED BY <1>2, <1>3, <1>4, <1>5, <1>6, <1>7 DEF PlacementNext, Placing

CallsInv == calls \in 0 .. MaxCalls

LEMMA CallsStep ==
  ASSUME CallsInv, [Next]_vars
  PROVE  CallsInv'
<1>1. MaxCalls \in Nat
  BY SmokeTestAssumption
<1>2. ASSUME SetUp PROVE CallsInv'
  <2>1. calls < MaxCalls /\ calls' = calls + 1
    BY <1>2, Zenon DEF SetUp
  <2>2. calls \in 0 .. MaxCalls
    BY DEF CallsInv
  <2>3. calls' \in 0 .. MaxCalls
    BY <1>1, <2>1, <2>2
  <2> QED BY <2>3 DEF CallsInv
<1>3. ASSUME UNCHANGED calls PROVE CallsInv'
  BY <1>3 DEF CallsInv
<1>4. CASE \/ (\E m \in Maps : SendMap(m)) \/ (\E o \in Stored : StoreSystem(o))
           \/ (\E list \in Lists : PlaceList(list))
           \/ (\E levels \in Pointed : PlacePointed(levels))
  BY <1>2, <1>4, Zenon DEF SendMap, StoreSystem, PlaceList, PlacePointed
<1>5. CASE \/ (\E attributes \in Settings : SetAll(attributes))
           \/ (\E pair \in Values : SetOne(pair[1], pair[2]) \/ GetOne(pair[1]))
           \/ Save \/ Load
  BY <1>2, <1>5, Zenon DEF SetAll, SetOne, GetOne, Save, Load, Attributes
<1>6. CASE \E words \in Systems \cup {loaded.system} : Interpret(words)
  BY <1>3, <1>6 DEF Interpret
<1>7. CASE \E items \in Strangers : Strange(items)
  BY <1>3, <1>7 DEF Strange
<1>8. CASE Sort \/ PlaceOne
  BY <1>3, <1>8 DEF Sort, PlaceOne
<1>9. CASE UNCHANGED vars
  BY <1>3, <1>9 DEF vars
<1> QED BY <1>4, <1>5, <1>6, <1>7, <1>8, <1>9 DEF Next

TypesInv == StringInv /\ SpaceInv /\ PlacedWhole /\ AttributesInv /\ CallsInv

LEMMA TypesStep ==
  ASSUME TypesInv, [Next]_vars
  PROVE  TypesInv'
<1>1. StringInv /\ SpaceInv /\ PlacedWhole /\ AttributesInv /\ CallsInv
  BY DEF TypesInv
<1>2. [PlacementNext]_placementVars
  BY <1>1, StepPlaces
<1>3. SpaceInv' /\ PlacedWhole'
  BY <1>1, <1>2, SpaceStep, WholeStep
<1>4. StringInv'
  BY <1>1, StringStep
<1>5. AttributesInv'
  BY <1>1, AttributesStep
<1>6. CallsInv'
  BY <1>1, CallsStep
<1> QED BY <1>3, <1>4, <1>5, <1>6 DEF TypesInv

LEMMA TypesInit == Init => TypesInv
<1> SUFFICES ASSUME Init PROVE TypesInv
  OBVIOUS
<1>1. StringInv /\ AttributesInv
  BY StringInit, AttributesInit
<1>2. PlacementInit /\ calls = 0
  BY DEF Init
<1>3. SpaceInv
  BY <1>2, SpaceInit
<1>4. PlacedWhole
  <2>1. DOMAIN space = {}
    BY <1>2 DEF PlacementInit
  <2> QED BY <2>1, Zenon DEF PlacedWhole
<1>5. CallsInv
  BY <1>2, SmokeTestAssumption DEF CallsInv
<1> QED BY <1>1, <1>3, <1>4, <1>5 DEF TypesInv

LEMMA TypesInvTypes ==
  ASSUME TypesInv, \A n \in Int : Exponent(n) \in Int
  PROVE  TypeOK
<1>1. Coordinates = Int
  BY DEF Coordinates
<1>2. space \in Seq(Spheres) /\ stu_physics_collided \in BOOLEAN /\ placing \in BOOLEAN
  BY DEF TypesInv, SpaceInv, Typed
<1>3. \A n \in DOMAIN space : space[n].at \in Seq(Int)
  <2>1. \A n \in DOMAIN space : space[n] \in Spheres
    BY <1>2, LenProperties, ElementOfSeq
  <2>2. \A s \in Spheres : s.at \in Seq(Int)
    BY <1>1 DEF Spheres, Items
  <2> QED BY <2>1, <2>2
<1>4. \A n \in DOMAIN space : Len(space[n].at) >= 3
  BY DEF TypesInv, PlacedWhole
<1>5. \A k \in DOMAIN ret : ret[k] \in 0 .. Len(system[k])
  BY DEF TypesInv, SpaceInv, Progress
<1>6. \A k \in DOMAIN systemAttributes : systemAttributes[k] \in Seq(STRING)
  BY DEF TypesInv, AttributesInv, Texts
<1>7. pc \in {"set up", "interpreted", "sorted"} /\ OpenedFirst
  BY DEF TypesInv, StringInv
<1>8. calls \in 0 .. MaxCalls
  BY DEF TypesInv, CallsInv
<1> QED BY <1>2, <1>3, <1>4, <1>5, <1>6, <1>7, <1>8, Zenon DEF TypeOK

-----------------------------------------------------------------------------
(* When a string was interpreted, the other interpreter still reads it the *)
(* same.                                                                   *)

LEMMA SameTurtle ==
  ASSUME \A k : Attribute(k)' = Attribute(k)
  PROVE  Turtle' = Turtle /\ Numbered' = Numbered
<1>1. \A key : Parsed(key)' = Parsed(key)
  BY DEF Parsed
<1>2. StartPointAttribute' = StartPointAttribute
  BY DEF StartPointAttribute
<1>3. Turtle' = Turtle
  BY <1>1, <1>2 DEF Turtle
<1>4. Numbered' = Numbered
  BY <1>1 DEF Numbered
<1> QED BY <1>3, <1>4

LEMMA LookedSame ==
  ASSUME NEW keys, systemAttributes' = Looked(keys)
  PROVE  \A k : Attribute(k)' = Attribute(k)
<1> SUFFICES ASSUME NEW k PROVE Attribute(k)' = Attribute(k)
  OBVIOUS
<1>1. DOMAIN Looked(keys) = DOMAIN systemAttributes \cup keys
  BY DEF Looked
<1>2. \A j \in DOMAIN systemAttributes \cup keys : Looked(keys)[j] = Attribute(j)
  BY DEF Looked
<1>3. Attribute(k)' = IF k \in DOMAIN systemAttributes' THEN systemAttributes'[k] ELSE <<>>
  BY DEF Attribute
<1>4. CASE k \in DOMAIN systemAttributes \cup keys
  BY <1>1, <1>2, <1>3, <1>4
<1>5. CASE k \notin DOMAIN systemAttributes \cup keys
  <2>1. Attribute(k) = <<>>
    BY <1>5 DEF Attribute
  <2> QED BY <1>1, <1>3, <1>5, <2>1
<1> QED BY <1>4, <1>5

Agreed(items, turtle, text) == SameItems(items, ReadBy(turtle, split(text)), Straight(text))

LEMMA ShapesStep ==
  ASSUME StringInv, ShapesAgree, [Next]_vars
  PROVE  ShapesAgree'
<1>1. ASSUME pc' # "interpreted" \/ genes' = <<>> PROVE ShapesAgree'
  BY <1>1 DEF ShapesAgree
<1>2. ASSUME UNCHANGED <<systemAttributes, pc, genes, interpretedSystem>> PROVE ShapesAgree'
  <2>1. \A k : Attribute(k)' = Attribute(k)
    BY <1>2 DEF Attribute
  <2>2. Turtle' = Turtle /\ Numbered' = Numbered
    BY <2>1, SameTurtle
  <2> QED BY <1>2, <2>2, Zenon DEF ShapesAgree
<1>3. ASSUME NEW words \in Systems \cup {loaded.system}, Interpret(words)
      PROVE  ShapesAgree'
  <2> DEFINE text == SystemText(words)
  <2>1. /\ genes' = words /\ pc' = "interpreted"
        /\ interpretedSystem' = Interpretation(text)
        /\ systemAttributes' = Looked(Consulted(text))
    BY <1>3, Zenon DEF Interpret, getSystem
  <2>2. Turtle' = Turtle /\ Numbered' = Numbered
    BY <2>1, LookedSame, SameTurtle
  <2>3. words \in Seq(AllWords)
    BY SmokeTestAssumption DEF StringInv
  <2>4. IsSeq(text)
    BY <2>3, WordsAre
  <2> HIDE DEF text
  <2>5. Numbered /\ Known(text) => Agreed(Interpretation(text), Turtle, text)
    BY ONLY <2>4, ShapesSimulated DEF Agreed
  <2>6. SystemText(genes)' = text
    BY <2>1 DEF text
  <2>7. Numbered /\ Known(text) => Agreed(interpretedSystem', Turtle', text)
    BY <2>1, <2>2, <2>5
  <2> QED BY <2>2, <2>6, <2>7, Zenon DEF ShapesAgree, Agreed
<1>4. CASE \/ (\E m \in Maps : SendMap(m)) \/ (\E o \in Stored : StoreSystem(o))
           \/ (\E list \in Lists : PlaceList(list))
           \/ (\E levels \in Pointed : PlacePointed(levels))
  <2>1. pc = "set up" /\ pc' = pc
    BY <1>4, Zenon DEF SendMap, StoreSystem, PlaceList, PlacePointed, SetUp
  <2> QED BY <1>1, <2>1
<1>5. CASE \/ (\E attributes \in Settings : SetAll(attributes))
           \/ (\E pair \in Values : SetOne(pair[1], pair[2]) \/ GetOne(pair[1]))
           \/ Save \/ Load
  <2>1. pc = "set up" /\ pc' = pc
    BY <1>5, Zenon DEF SetAll, SetOne, GetOne, Save, Load, Attributes, SetUp
  <2> QED BY <1>1, <2>1
<1>6. CASE \E items \in Strangers : Strange(items)
  <2>1. genes' = <<>>
    BY <1>6 DEF Strange, StringInv
  <2> QED BY <1>1, <2>1
<1>7. CASE Sort
  <2>1. pc' = "sorted"
    BY <1>7 DEF Sort
  <2> QED BY <1>1, <2>1
<1>8. CASE PlaceOne
  BY <1>2, <1>8 DEF PlaceOne, interpreterVars, stringVars
<1>9. CASE UNCHANGED vars
  BY <1>2, <1>9 DEF vars, interpreterVars, stringVars
<1> QED BY <1>3, <1>4, <1>5, <1>6, <1>7, <1>8, <1>9 DEF Next

-----------------------------------------------------------------------------
(* Theorems *)

(* What getPoints returns of an interpreted system, or of what strangers   *)
(* send, is its points by the depth of their brackets, in the order they   *)
(* come, none lost and none twice: when depths stay within an int, and no  *)
(* number is printed with an exponent.                                     *)
THEOREM PointsAreSorted == Spec => []SortedByDepth
<1>1. StringInv /\ [Next]_vars => StringInv'
  BY StringStep
<1>2. StringInv => SortedByDepth
  BY StringInvSorted
<1> QED BY StringInit, <1>1, <1>2, PTL DEF Spec

(* The genes may close what was never opened: of what getSystem makes of   *)
(* them, each beginning has at least as many opening brackets as closing.  *)
THEOREM BracketsOpenFirst == Spec => []OpenedFirst
<1>1. StringInv /\ [Next]_vars => StringInv'
  BY StringStep
<1>2. StringInv => OpenedFirst
  BY DEF StringInv
<1> QED BY StringInit, <1>1, <1>2, PTL DEF Spec

(* Whatever systems and lists come, of any size and shape: no spheres that *)
(* are kept touch, and when the branches are of plain points, what is      *)
(* placed of each is its beginning, up to the first point that collides.   *)
THEOREM CollisionsStopBranches == Spec => []StopsAtCollisions
<1>1. StringInv /\ [Next]_vars => StringInv'
  BY StringStep
<1>2. SpaceInv /\ StringInv /\ [Next]_vars => SpaceInv'
  BY StepPlaces, SpaceStep
<1>3. SpaceInv => StopsAtCollisions
  BY SpaceInvStops
<1>4. Init => SpaceInv
  BY SpaceInit DEF Init
<1> QED BY StringInit, <1>1, <1>2, <1>3, <1>4, PTL DEF Spec

(* Of a branch that has a pointer nothing is placed unless what it points  *)
(* at is: whatever collides, in which system, and however many pointers    *)
(* lead from one branch to the next; when the pointers of a system that    *)
(* lead to a level before their own have an index and lead to a point or a *)
(* pointer, and a point is in one branch.  What getPoints returns has no   *)
(* pointers, so it needs no hypothesis.                                    *)
THEOREM ParentsComeFirst ==
  ASSUME \A levels \in Pointed : Pointing(levels)
  PROVE  Spec => []ParentsPlaced
<1>1. StringInv /\ [Next]_vars => StringInv'
  BY StringStep
<1>2. ParentInv /\ StringInv /\ [Next]_vars => ParentInv'
  BY StepPlaces, ParentStep
<1>3. ParentInv => ParentsPlaced
  BY ParentInvPlaced
<1>4. Init => ParentInv
  BY ParentInit DEF Init
<1> QED BY StringInit, <1>1, <1>2, <1>3, <1>4, PTL DEF Spec

(* What is loaded is what was saved, whatever the interpreter had before:  *)
(* loadAttributes finds behind each name in the file the value it had when *)
(* saveAttributes wrote it, if the values are words.                       *)
THEOREM SavedAttributesLoad == Spec => LoadedAsSaved
<1> USE DEF FileInv
<1>1. Init => FileInv
  BY DEF Init, InterpreterInit
<1>2. FileInv /\ [Next]_vars => FileInv'
  <2> SUFFICES ASSUME FileInv, [Next]_vars PROVE FileInv'
    OBVIOUS
  <2>1. CASE Save
    BY <2>1 DEF Save, Attributes, saveAttributes
  <2>2. ASSUME UNCHANGED <<file, saved>> PROVE FileInv'
    BY <2>2
  <2>3. CASE \E m \in Maps : SendMap(m)
    BY <2>2, <2>3 DEF SendMap, interpreterVars
  <2>4. CASE \E o \in Stored : StoreSystem(o)
    BY <2>2, <2>4 DEF StoreSystem, interpreterVars
  <2>5. CASE \E attributes \in Settings : SetAll(attributes)
    BY <2>2, <2>5 DEF SetAll, Attributes, setAttributes
  <2>6. CASE \E pair \in Values : SetOne(pair[1], pair[2]) \/ GetOne(pair[1])
    BY <2>2, <2>6 DEF SetOne, GetOne, Attributes, setAttribute, getAttributeValue
  <2>7. CASE Load
    BY <2>2, <2>7 DEF Load, Attributes, loadAttributes
  <2>8. CASE \E list \in Lists : PlaceList(list)
    BY <2>2, <2>8 DEF PlaceList, interpreterVars
  <2>9. CASE \E levels \in Pointed : PlacePointed(levels)
    BY <2>2, <2>9 DEF PlacePointed, interpreterVars
  <2>10. CASE \E words \in Systems \cup {loaded.system} : Interpret(words)
    BY <2>2, <2>10 DEF Interpret, getSystem
  <2>11. CASE \E items \in Strangers : Strange(items)
    BY <2>2, <2>11 DEF Strange, interpreterVars
  <2>12. CASE Sort
    BY <2>2, <2>12 DEF Sort, getAttributeValue
  <2>13. CASE PlaceOne
    BY <2>2, <2>13 DEF PlaceOne, interpreterVars
  <2>14. CASE UNCHANGED vars
    BY <2>2, <2>14 DEF vars, interpreterVars
  <2> QED BY <2>1, <2>3, <2>4, <2>5, <2>6, <2>7, <2>8, <2>9, <2>10, <2>11, <2>12, <2>13, <2>14
          DEF Next
<1>3. ASSUME FileInv
      PROVE  [Load /\ OneWord(saved) => \A k \in DOMAIN saved : systemAttributes'[k] = saved[k]]_vars
  BY <1>3, LoadsPairs DEF Load, Attributes
<1> QED BY <1>1, <1>2, <1>3, PTL DEF Spec, LoadedAsSaved

(* Maps and systems arrive as they were sent and stored: of what           *)
(* mapToString wrote parseMap, and of what save wrote initialize, makes    *)
(* what it was, of any size, unless there is in it what the formats cannot *)
(* hold.  No token of the file is lost, and no value is taken for a        *)
(* keyword; a rule is what is behind the first colon.                      *)
THEOREM MapsAndSystemsArrive == Spec => []ArrivesAsSent
<1>1. Init => ArrivesAsSent
  <2> SUFFICES ASSUME Init PROVE ArrivesAsSent
    OBVIOUS
  <2>1. received = sent /\ loaded = stored
    BY DEF Init
  <2> QED BY ONLY <2>1 DEF ArrivesAsSent, MapsArrive, SystemsArrive
<1>2. ArrivesAsSent /\ [Next]_vars => ArrivesAsSent'
  <2> SUFFICES ASSUME ArrivesAsSent, [Next]_vars PROVE ArrivesAsSent'
    OBVIOUS
  <2>1. ASSUME UNCHANGED <<sent, received>> PROVE MapsArrive'
    BY <2>1 DEF ArrivesAsSent, MapsArrive, Legible
  <2>2. ASSUME UNCHANGED <<stored, loaded>> PROVE SystemsArrive'
    BY <2>2 DEF ArrivesAsSent, SystemsArrive, Readable, ListReadable
  <2>3. ASSUME NEW m \in Maps, SendMap(m) PROVE ArrivesAsSent'
    <3>1. sent' = m /\ received' = parseMap(mapToString(m, MapKeys), "string").map
      BY <2>3, Zenon DEF SendMap
    <3>2. Legible(m) => received' = m
      BY <3>1, MapReceived, Zenon
    <3>3. MapsArrive'
      BY ONLY <3>1, <3>2, Zenon DEF MapsArrive, Legible
    <3>4. UNCHANGED <<stored, loaded>>
      BY <2>3 DEF SendMap
    <3> QED BY <2>2, <3>3, <3>4, Zenon DEF ArrivesAsSent
  <2>4. ASSUME NEW o \in Stored, StoreSystem(o) PROVE ArrivesAsSent'
    <3>1. stored' = o /\ loaded' = Loaded(o) /\ UNCHANGED <<sent, received>>
      BY <2>4, Zenon DEF StoreSystem
    <3>2. IsSystem(o)
      BY <2>4, SmokeTestAssumption
    <3>3. Readable(o) => loaded' = o
      BY <3>1, <3>2, SystemLoaded, Zenon
    <3>4. SystemsArrive'
      BY ONLY <3>1, <3>3, Zenon DEF SystemsArrive, Readable, ListReadable
    <3> QED BY <2>1, <3>1, <3>4, Zenon DEF ArrivesAsSent
  <2>5. CASE UNCHANGED talkVars
    BY <2>1, <2>2, <2>5 DEF talkVars, ArrivesAsSent
  <2> QED BY <2>3, <2>4, <2>5, TalkStep
<1> QED BY <1>1, <1>2, PTL DEF Spec

(* Every variable keeps its type, if an exponent is a number: what is      *)
(* loaded from a file of attributes is text, however it got there; what    *)
(* is kept in the space has three coordinates, so that no pointer becomes  *)
(* a sphere; no method of Physics returns more than it was given; and the  *)
(* brackets of what was interpreted are opened before they are closed.     *)
THEOREM TypesHold ==
  ASSUME \A n \in Int : Exponent(n) \in Int
  PROVE  Spec => []TypeOK
<1>1. TypesInv /\ [Next]_vars => TypesInv'
  BY TypesStep
<1>2. TypesInv => TypeOK
  BY TypesInvTypes
<1> QED BY TypesInit, <1>1, <1>2, PTL DEF Spec

(* Of a string of genes both know, of any length, and whatever attributes  *)
(* were set, if they are numbers, both interpreters make the same shape:   *)
(* the one, that reads the genes with their spaces in one loop, and the    *)
(* other, that reads them without, a gene at a call.  The same brackets    *)
(* are ignored, as many points come between the others, and if nothing     *)
(* turns, they come at the same places.                                    *)
THEOREM InterpretersAgree ==
  ASSUME \A n \in Int : Exponent(n) \in Int
  PROVE  Spec => []SameShape
<1>1. Init => ShapesAgree
  BY DEF Init, ShapesAgree
<1>2. StringInv /\ ShapesAgree /\ [Next]_vars => ShapesAgree'
  BY ShapesStep
<1>3. StringInv /\ [Next]_vars => StringInv'
  BY StringStep
<1>4. Spec => []TypeOK
  BY TypesHold
<1>5. TypeOK /\ ShapesAgree => SameShape
  BY DEF SameShape
<1> QED BY StringInit, <1>1, <1>2, <1>3, <1>4, <1>5, PTL DEF Spec
=============================================================================
