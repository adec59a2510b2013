------------------------ MODULE LSystemGenericProofs ------------------------
(***************************************************************************)
(* Any strings, rules, limits and crossings, of any number of systems.     *)
(*                                                                         *)
(* SystemInv (types, and what a call in progress was given) is inductive   *)
(* as it stands, and so is CrossExchanges relative to it.  What grow       *)
(* arrives at needs GrowInv: at every iteration a first part of the string *)
(* there was is rewritten, all of it or all but its last gene, and the     *)
(* rest is as it was.  Facts by induction on a number are proved from the  *)
(* least number for which they would fail (LeastNatural).                  *)
(***************************************************************************)
EXTENDS LSystemGeneric, TLAPS, SequenceTheorems, WellFoundedInduction, FunctionTheorems,
        FiniteSetTheorems

-----------------------------------------------------------------------------
(* Numbers and sequences *)

LEMMA LeastNatural ==
  ASSUME NEW T \in SUBSET Nat, T # {}
  PROVE  Min(T) \in T /\ \A n \in T : Min(T) <= n
<1>1. PICK x \in T : \A y \in T : ~(<<y, x>> \in OpToRel(<, Nat))
  BY NatLessThanWellFounded, WFMin
<1>2. \A y \in T : ~(y < x)
  BY <1>1 DEF OpToRel
<1>3. \A y \in T : x <= y
  BY <1>2
<1> QED BY <1>3 DEF Min

LEMMA MinOfTwo ==
  ASSUME NEW a \in Nat, NEW b \in Nat
  PROVE  /\ Min({a, b}) \in Nat /\ Min({a, b}) <= a /\ Min({a, b}) <= b
         /\ Min({a, b}) \in {a, b}
  BY LeastNatural

(* Any piece of a sequence is one. *)
LEMMA Piece ==
  ASSUME NEW S, NEW s \in Seq(S), NEW m \in Nat, NEW n \in Nat, m >= 1, n <= Len(s)
  PROVE  /\ SubSeq(s, m, n) \in Seq(S)
         /\ Len(SubSeq(s, m, n)) = IF m <= n THEN n - m + 1 ELSE 0
<1>1. Len(s) \in Nat
  BY LenProperties
<1>2. \A k \in m .. n : s[k] \in S
  BY <1>1, ElementOfSeq
<1> QED BY <1>2, SubSeqProperties

(* A sequence with the element at k replaced by a sequence *)
LEMMA Spliced ==
  ASSUME NEW S, NEW s \in Seq(S), NEW k \in 1 .. Len(s), NEW t \in Seq(S)
  PROVE  /\ SubSeq(s, 1, k - 1) \o t \o SubSeq(s, k + 1, Len(s)) \in Seq(S)
         /\ Len(SubSeq(s, 1, k - 1) \o t \o SubSeq(s, k + 1, Len(s))) = Len(s) + Len(t) - 1
<1>1. Len(s) \in Nat /\ Len(t) \in Nat
  BY LenProperties
<1>2. /\ SubSeq(s, 1, k - 1) \in Seq(S) /\ SubSeq(s, k + 1, Len(s)) \in Seq(S)
      /\ Len(SubSeq(s, 1, k - 1)) = k - 1 /\ Len(SubSeq(s, k + 1, Len(s))) = Len(s) - k
  BY <1>1, Piece
<1> DEFINE a == SubSeq(s, 1, k - 1)
           b == SubSeq(s, k + 1, Len(s))
<1>3. /\ a \in Seq(S) /\ b \in Seq(S)
      /\ Len(a) = k - 1 /\ Len(b) = Len(s) - k
  BY <1>2
<1> HIDE DEF a, b
<1>4. a \o t \in Seq(S) /\ Len(a \o t) = k - 1 + Len(t)
  BY <1>3, ConcatProperties, ZenonT(60)
<1>5. (a \o t) \o b \in Seq(S) /\ Len((a \o t) \o b) = Len(a \o t) + Len(b)
  BY <1>3, <1>4, ConcatProperties
<1>6. Len((a \o t) \o b) = Len(s) + Len(t) - 1
  BY <1>1, <1>3, <1>4, <1>5
<1> QED BY <1>5, <1>6 DEF a, b

LEMMA Removed ==
  ASSUME NEW S, NEW s \in Seq(S), NEW k \in 1 .. Len(s)
  PROVE  RemoveAt(s, k) \in Seq(S) /\ Len(RemoveAt(s, k)) = Len(s) - 1
<1>1. Len(s) \in Nat
  BY LenProperties
<1>2. /\ SubSeq(s, 1, k - 1) \in Seq(S) /\ SubSeq(s, k + 1, Len(s)) \in Seq(S)
      /\ Len(SubSeq(s, 1, k - 1)) = k - 1 /\ Len(SubSeq(s, k + 1, Len(s))) = Len(s) - k
  BY <1>1, Piece
<1> DEFINE a == SubSeq(s, 1, k - 1)
           b == SubSeq(s, k + 1, Len(s))
<1>3. /\ a \in Seq(S) /\ b \in Seq(S)
      /\ Len(a) = k - 1 /\ Len(b) = Len(s) - k
  BY <1>2
<1> HIDE DEF a, b
<1>4. a \o b \in Seq(S) /\ Len(a \o b) = Len(a) + Len(b)
  BY <1>3, ConcatProperties
<1>5. Len(a \o b) = Len(s) - 1
  BY <1>1, <1>3, <1>4
<1> QED BY <1>4, <1>5 DEF a, b, RemoveAt

LEMMA Inserted1 ==
  ASSUME NEW S, NEW s \in Seq(S), NEW k \in 1 .. Len(s), NEW e \in S
  PROVE  InsertAt(s, k, e) \in Seq(S) /\ Len(InsertAt(s, k, e)) = Len(s) + 1
<1>1. Len(s) \in Nat
  BY LenProperties
<1>2. /\ SubSeq(s, 1, k - 1) \in Seq(S) /\ SubSeq(s, k, Len(s)) \in Seq(S)
      /\ Len(SubSeq(s, 1, k - 1)) = k - 1 /\ Len(SubSeq(s, k, Len(s))) = Len(s) - k + 1
  BY <1>1, Piece
<1>3. <<e>> \in Seq(S) /\ Len(<<e>>) = 1
  OBVIOUS
<1>4. /\ SubSeq(s, 1, k - 1) \o <<e>> \in Seq(S)
      /\ Len(SubSeq(s, 1, k - 1) \o <<e>>) = k
  BY <1>2, <1>3, ConcatProperties
<1> QED BY <1>1, <1>2, <1>4, ConcatProperties DEF InsertAt

LEMMA FirstRemoved ==
  ASSUME NEW S, NEW s \in Seq(S), NEW e
  PROVE  RemoveFirst(s, e) \in Seq(S) /\ Len(RemoveFirst(s, e)) <= Len(s)
<1>1. Len(s) \in Nat
  BY LenProperties
<1> DEFINE J == {k \in 1 .. Len(s) : s[k] = e}
<1>2. CASE \E k \in 1 .. Len(s) : s[k] = e
  <2>1. J \in SUBSET Nat /\ J # {}
    BY <1>2
  <2>2. Min(J) \in J
    BY <2>1, LeastNatural
  <2>3. RemoveFirst(s, e) = RemoveAt(s, Min(J))
    BY <1>2, <2>1 DEF RemoveFirst, SelectInSeq
  <2> QED BY <2>2, <2>3, Removed, <1>1
<1> QED BY <1>2, <1>1 DEF RemoveFirst

LEMMA Swapped ==
  ASSUME NEW S, NEW s \in Seq(S), NEW k \in 1 .. Len(s), NEW n \in 1 .. Len(s)
  PROVE  /\ [s EXCEPT ![k] = s[n], ![n] = s[k]] \in Seq(S)
         /\ Len([s EXCEPT ![k] = s[n], ![n] = s[k]]) = Len(s)
<1>1. s[k] \in S /\ s[n] \in S
  BY ElementOfSeq
<1>2. [s EXCEPT ![k] = s[n]] \in Seq(S) /\ Len([s EXCEPT ![k] = s[n]]) = Len(s)
  BY <1>1, ExceptSeq
<1> QED BY <1>1, <1>2, ExceptSeq

-----------------------------------------------------------------------------
(* Types, and what is known of a call in progress *)

CallAt ==
    /\ pc \in {"idle", "cross"} => i = 1
    /\ pc = "cross" => maps \in CrossMaps /\ todo \in Seq(ToSet(maps[stage]))

SystemInv == TypeOK /\ CallAt

(* Entries of a kind stay of it when a map gets more of them. *)
LEMMA OverKeeps ==
  ASSUME NEW D, NEW V, NEW f, NEW g,
         DOMAIN f \subseteq D, \A k \in DOMAIN f : f[k] \in V,
         DOMAIN g \subseteq D, \A k \in DOMAIN g : g[k] \in V
  PROVE  /\ DOMAIN Over(f, g) \subseteq D
         /\ \A k \in DOMAIN Over(f, g) : Over(f, g)[k] \in V
  BY DEF Over

LEMMA WithKeeps ==
  ASSUME NEW D, NEW V, NEW f, NEW k \in D, NEW v \in V,
         DOMAIN f \subseteq D, \A x \in DOMAIN f : f[x] \in V
  PROVE  /\ DOMAIN With(f, k, v) \subseteq D
         /\ \A x \in DOMAIN With(f, k, v) : With(f, k, v)[x] \in V
<1>1. /\ DOMAIN [x \in {k} |-> v] \subseteq D
      /\ \A x \in DOMAIN [y \in {k} |-> v] : [y \in {k} |-> v][x] \in V
  OBVIOUS
<1> QED BY <1>1, OverKeeps DEF With

LEMMA UnsignedType ==
  ASSUME NEW n \in Int
  PROVE  Unsigned(n) \in Uints
<1>1. UintMax \in Nat
  BY LSystemAssumption
<1> QED BY <1>1 DEF Unsigned, Uints

(* A system as read from a file, or as constructed *)
Source(in) ==
    /\ in.system \in Strings /\ in.options \in Strings
    /\ DOMAIN in.rules \subseteq Genes
    /\ \A g \in DOMAIN in.rules : in.rules[g] \in Strings
    /\ \A k \in DOMAIN in.probabilities : in.probabilities[k] \in Int
    /\ in.minSize \in Int /\ in.maxSize \in Int /\ in.currentGene \in Nat

LEMMA SourceType ==
  ASSUME NEW in \in Inputs \cup {Fresh}
  PROVE  Source(in)
<1>1. CASE in \in Inputs
  BY <1>1, InputAssumption DEF Source, Strings
<1>2. CASE in = Fresh
  <2>1. DOMAIN Empty = {}
    BY DEF Empty
  <2> QED BY <1>2, <2>1 DEF Source, Strings, Fresh
<1> QED BY <1>1, <1>2

LEMMA SystemInvInit == Init => SystemInv
<1> SUFFICES ASSUME Init PROVE SystemInv
  OBVIOUS
<1>1. PICK source \in [Systems -> Inputs \cup {Fresh}] :
        /\ system = [s \in Systems |-> source[s].system]
        /\ options = [s \in Systems |-> source[s].options]
        /\ mutationProbabilities = [s \in Systems |-> source[s].probabilities]
        /\ growthRules = [s \in Systems |-> source[s].rules]
        /\ currentGene = [s \in Systems |-> source[s].currentGene]
        /\ minSize = [s \in Systems |-> Unsigned(source[s].minSize)]
        /\ maxSize = [s \in Systems |-> Unsigned(source[s].maxSize)]
        /\ isInitialized = [s \in Systems |-> source[s] # Fresh]
  BY DEF Init
<1>2. /\ pc = "idle" /\ this \in Systems /\ other = this
      /\ i = 1 /\ stage = 1 /\ before = system /\ calls = 0
  BY DEF Init
<1>3. \A s \in Systems : Source(source[s])
  BY <1>1, SourceType
<1>4. system \in [Systems -> Strings] /\ options \in [Systems -> Strings]
  BY <1>1, <1>3 DEF Source
<1>5. \A s \in Systems :
         /\ \A k \in DOMAIN mutationProbabilities[s] : mutationProbabilities[s][k] \in Int
         /\ DOMAIN growthRules[s] \subseteq Genes
         /\ \A g \in DOMAIN growthRules[s] : growthRules[s][g] \in Strings
  BY <1>1, <1>3 DEF Source
<1>6. \A s \in Systems : Unsigned(source[s].minSize) \in Uints /\ Unsigned(source[s].maxSize) \in Uints
  BY <1>3, UnsignedType DEF Source
<1>7. Len(system[this]) \in Nat
  BY <1>2, <1>4, LenProperties DEF Strings
<1>8. i \in 1 .. Len(system[this]) + 1 /\ stage \in 1 .. 4 /\ calls \in 0 .. MaxCalls
  BY <1>2, <1>7, LSystemAssumption
<1>9. currentGene \in [Systems -> Nat] /\ isInitialized \in [Systems -> BOOLEAN]
  BY <1>1, <1>3 DEF Source
<1>10. minSize \in [Systems -> Uints] /\ maxSize \in [Systems -> Uints]
  BY <1>1, <1>6
<1>11. DOMAIN mutationProbabilities = Systems /\ DOMAIN growthRules = Systems
  BY <1>1
<1> QED BY <1>2, <1>4, <1>5, <1>8, <1>9, <1>10, <1>11 DEF SystemInv, TypeOK, CallAt

(* A method that changes strings, maps or limits of a system, and nothing  *)
(* of a call in progress: there is none.                                   *)
LEMMA MethodKeeps ==
  ASSUME SystemInv, Called, Quietly,
         system' \in [Systems -> Strings], options' \in [Systems -> Strings],
         DOMAIN mutationProbabilities' = Systems, DOMAIN growthRules' = Systems,
         \A s \in Systems :
             /\ \A k \in DOMAIN mutationProbabilities'[s] : mutationProbabilities'[s][k] \in Int
             /\ DOMAIN growthRules'[s] \subseteq Genes
             /\ \A g \in DOMAIN growthRules'[s] : growthRules'[s][g] \in Strings,
         currentGene' \in [Systems -> Nat],
         minSize' \in [Systems -> Uints], maxSize' \in [Systems -> Uints],
         isInitialized' \in [Systems -> BOOLEAN]
  PROVE  SystemInv'
<1>1. /\ pc' = "idle" /\ pc = "idle" /\ i' = 1 /\ this' = this /\ other' = other
      /\ this \in Systems /\ other \in Systems
      /\ before' \in [Systems -> Strings] /\ stage' \in 1 .. 4
  BY DEF SystemInv, TypeOK, CallAt, Called, Quietly, callVars
<1>2. Len(system'[this]) \in Nat
  BY <1>1, LenProperties DEF Strings
<1>3. i' \in 1 .. Len(system'[this']) + 1
  BY <1>1, <1>2
<1>4. calls' \in 0 .. MaxCalls
  BY LSystemAssumption DEF SystemInv, TypeOK, Called
<1> QED BY <1>1, <1>3, <1>4 DEF SystemInv, TypeOK, CallAt

LEMMA SetterKeeps ==
  ASSUME NEW s \in Systems, SystemInv, Setter(s)
  PROVE  SystemInv'
<1> USE DEF SystemInv, TypeOK
<1>1. ASSUME NEW in \in Inputs, Initialize(s, in)
      PROVE  SystemInv'
  <2>1. Source(in)
    BY SourceType
  <2>2. Unsigned(in.minSize) \in Uints /\ Unsigned(in.maxSize) \in Uints
    BY <2>1, UnsignedType DEF Source
  <2>3. options[s] \o in.options \in Strings
    BY <2>1, ConcatProperties DEF Source, Strings
  <2>4. /\ DOMAIN Over(in.rules, growthRules[s]) \subseteq Genes
        /\ \A g \in DOMAIN Over(in.rules, growthRules[s]) :
              Over(in.rules, growthRules[s])[g] \in Strings
    BY <2>1, OverKeeps, ZenonT(60) DEF Source
  <2>5. /\ system' \in [Systems -> Strings] /\ options' \in [Systems -> Strings]
        /\ currentGene' \in [Systems -> Nat]
        /\ minSize' \in [Systems -> Uints] /\ maxSize' \in [Systems -> Uints]
        /\ isInitialized' \in [Systems -> BOOLEAN]
    BY <1>1, <2>1, <2>2, <2>3 DEF Initialize, Source
  <2>6. /\ DOMAIN mutationProbabilities' = Systems /\ DOMAIN growthRules' = Systems
        /\ \A t \in Systems :
             /\ mutationProbabilities'[t] = IF t = s THEN in.probabilities ELSE mutationProbabilities[t]
             /\ growthRules'[t] = IF t = s THEN Over(in.rules, growthRules[t]) ELSE growthRules[t]
    BY <1>1 DEF Initialize
  <2>7. \A t \in Systems :
           /\ \A k \in DOMAIN mutationProbabilities'[t] : mutationProbabilities'[t][k] \in Int
           /\ DOMAIN growthRules'[t] \subseteq Genes
           /\ \A g \in DOMAIN growthRules'[t] : growthRules'[t][g] \in Strings
    BY <2>1, <2>4, <2>6 DEF Source
  <2>8. Called /\ Quietly
    BY <1>1 DEF Initialize
  <2> QED BY <2>5, <2>6, <2>7, <2>8, MethodKeeps
<1>2. ASSUME NEW n \in Sizes, SetMinSize(s, n) \/ SetMaxSize(s, n)
      PROVE  SystemInv'
  <2>1. n \in Int /\ n <= UintMax /\ UintMax \in Nat
    BY LSystemAssumption
  <2>2. (IF n < 0 THEN 0 ELSE n) \in Uints /\ Unsigned(n) \in Uints
    BY <2>1, UnsignedType DEF Uints
  <2>3. minSize' \in [Systems -> Uints] /\ maxSize' \in [Systems -> Uints]
    BY <1>2, <2>2 DEF SetMinSize, SetMaxSize
  <2>4. Called /\ Quietly /\ UNCHANGED <<geneVars, currentGene, isInitialized>>
    BY <1>2 DEF SetMinSize, SetMaxSize
  <2> QED BY <2>3, <2>4, MethodKeeps DEF geneVars
<1>3. ASSUME NEW genes \in Seeds, SetSystem(s, genes)
      PROVE  SystemInv'
  <2>1. system' \in [Systems -> Strings]
    BY <1>3, LSystemAssumption DEF SetSystem, Strings
  <2>2. /\ Called /\ Quietly
        /\ UNCHANGED <<options, mutationProbabilities, growthRules, currentGene, limitVars>>
    BY <1>3 DEF SetSystem
  <2> QED BY <2>1, <2>2, MethodKeeps DEF limitVars
<1>4. ASSUME NEW g \in Genes, NEW end \in Productions, SetGrowthRule(s, g, end)
      PROVE  SystemInv'
  <2>1. /\ DOMAIN growthRules' = Systems
        /\ \A t \in Systems :
              growthRules'[t] = IF t = s THEN With(growthRules[t], g, end) ELSE growthRules[t]
    BY <1>4 DEF SetGrowthRule
  <2>2. /\ DOMAIN With(growthRules[s], g, end) \subseteq Genes
        /\ \A k \in DOMAIN With(growthRules[s], g, end) :
              With(growthRules[s], g, end)[k] \in Strings
    <3>1. end \in Strings
      BY LSystemAssumption DEF Strings
    <3> QED BY <3>1, WithKeeps, ZenonT(60)
  <2>3. \A t \in Systems : /\ DOMAIN growthRules'[t] \subseteq Genes
                           /\ \A k \in DOMAIN growthRules'[t] : growthRules'[t][k] \in Strings
    BY <2>1, <2>2
  <2>4. /\ Called /\ Quietly
        /\ UNCHANGED <<system, options, mutationProbabilities, currentGene, limitVars>>
    BY <1>4 DEF SetGrowthRule
  <2> QED BY <2>1, <2>3, <2>4, MethodKeeps DEF limitVars
<1>5. ASSUME NEW g \in Genes, DeleteGrowthRule(s, g)
      PROVE  SystemInv'
  <2>1. /\ DOMAIN growthRules' = Systems
        /\ \A t \in Systems :
              growthRules'[t] = IF t = s THEN [k \in DOMAIN growthRules[s] \ {g} |-> growthRules[s][k]]
                                ELSE growthRules[t]
    BY <1>5 DEF DeleteGrowthRule
  <2>2. \A t \in Systems : /\ DOMAIN growthRules'[t] \subseteq Genes
                           /\ \A k \in DOMAIN growthRules'[t] : growthRules'[t][k] \in Strings
    BY <2>1
  <2>3. /\ Called /\ Quietly
        /\ UNCHANGED <<system, options, mutationProbabilities, currentGene, limitVars>>
    BY <1>5 DEF DeleteGrowthRule
  <2> QED BY <2>1, <2>2, <2>3, MethodKeeps DEF limitVars
<1>6. ASSUME NEW g \in Genes, AddOption(s, g) \/ DeleteOption(s, g)
      PROVE  SystemInv'
  <2>1. options[s] \in Seq(Genes)
    BY DEF Strings
  <2>2. Append(options[s], g) \in Strings /\ RemoveFirst(options[s], g) \in Strings
    BY <2>1, FirstRemoved, AppendProperties DEF Strings
  <2>3. options' \in [Systems -> Strings]
    BY <1>6, <2>2 DEF AddOption, DeleteOption
  <2>4. /\ Called /\ Quietly
        /\ UNCHANGED <<system, mutationProbabilities, growthRules, currentGene, limitVars>>
    BY <1>6 DEF AddOption, DeleteOption
  <2> QED BY <2>3, <2>4, MethodKeeps DEF limitVars
<1>7. ASSUME NEW type \in Types, NEW p \in {0, 5000}, SetMutationProbability(s, type, p)
      PROVE  SystemInv'
  <2>1. /\ DOMAIN mutationProbabilities' = Systems
        /\ \A t \in Systems : mutationProbabilities'[t] =
              IF t = s THEN With(mutationProbabilities[t], type, p) ELSE mutationProbabilities[t]
    BY <1>7 DEF SetMutationProbability
  <2>2. \A k \in DOMAIN With(mutationProbabilities[s], type, p) :
           With(mutationProbabilities[s], type, p)[k] \in Int
    <3> DEFINE D == DOMAIN mutationProbabilities[s] \cup {type}
    <3>1. /\ type \in D /\ p \in Int /\ DOMAIN mutationProbabilities[s] \subseteq D
          /\ \A k \in DOMAIN mutationProbabilities[s] : mutationProbabilities[s][k] \in Int
      OBVIOUS
    <3> HIDE DEF D, SystemInv, TypeOK
    <3> QED BY <3>1, WithKeeps
  <2>3. \A t \in Systems :
           \A k \in DOMAIN mutationProbabilities'[t] : mutationProbabilities'[t][k] \in Int
    BY <2>1, <2>2
  <2>4. /\ Called /\ Quietly
        /\ UNCHANGED <<system, options, growthRules, currentGene, limitVars>>
    BY <1>7 DEF SetMutationProbability
  <2> QED BY <2>1, <2>3, <2>4, MethodKeeps DEF limitVars
<1> HIDE DEF SystemInv, TypeOK
<1> QED BY <1>1, <1>2, <1>3, <1>4, <1>5, <1>6, <1>7 DEF Setter

LEMMA GetCopyKeeps ==
  ASSUME NEW s \in Systems, NEW t \in Systems, SystemInv, GetCopy(s, t)
  PROVE  SystemInv'
<1> USE DEF SystemInv, TypeOK
<1>1. /\ system' \in [Systems -> Strings] /\ options' \in [Systems -> Strings]
      /\ currentGene' \in [Systems -> Nat]
      /\ minSize' \in [Systems -> Uints] /\ maxSize' \in [Systems -> Uints]
      /\ isInitialized' \in [Systems -> BOOLEAN]
  BY DEF GetCopy
<1>2. /\ DOMAIN mutationProbabilities' = Systems /\ DOMAIN growthRules' = Systems
      /\ \A u \in Systems :
           /\ mutationProbabilities'[u] = mutationProbabilities[IF u = t THEN s ELSE u]
           /\ growthRules'[u] = growthRules[IF u = t THEN s ELSE u]
  BY DEF GetCopy
<1>3. \A u \in Systems :
         /\ \A k \in DOMAIN mutationProbabilities'[u] : mutationProbabilities'[u][k] \in Int
         /\ DOMAIN growthRules'[u] \subseteq Genes
         /\ \A g \in DOMAIN growthRules'[u] : growthRules'[u][g] \in Strings
  BY <1>2
<1>4. Called /\ Quietly
  BY DEF GetCopy
<1> QED BY <1>1, <1>2, <1>3, <1>4, MethodKeeps

-----------------------------------------------------------------------------
(* mutate *)

LEMMA CursorAtGene ==
  ASSUME TypeOK, NEW s \in Systems, Len(system[s]) > 0
  PROVE  Cursor(s) + 1 \in 1 .. Len(system[s])
<1>1. Len(system[s]) \in Nat /\ currentGene[s] \in Nat
  BY LenProperties DEF TypeOK, Strings
<1> QED BY <1>1 DEF Cursor

(* A mutation keeps strings strings, and changes their length by one at    *)
(* most, within the limits.                                                *)
LEMMA MutatedString ==
  ASSUME TypeOK, NEW s \in Systems, NEW type,
         NEW genes \in Mutated(s, type, Cursor(s) + 1)
  PROVE  /\ genes \in Strings
         /\ Len(genes) > Len(system[s]) => Len(genes) <= maxSize[s]
         /\ Len(genes) < Len(system[s]) => Len(genes) >= minSize[s]
<1> DEFINE old == system[s]
           j == Cursor(s) + 1
<1>1. /\ old \in Seq(Genes) /\ Len(old) \in Nat /\ options[s] \in Seq(Genes)
      /\ minSize[s] \in Nat /\ maxSize[s] \in Nat
  BY LenProperties DEF TypeOK, Strings, Uints
<1>2. Len(old) > 0 => j \in 1 .. Len(old)
  BY CursorAtGene
<1> HIDE DEF j, old
<1> DEFINE case1 == type = "1" /\ Len(old) > 1
           case2 == type = "2" /\ Len(old) > 0
           case3 == type = "3" /\ Len(old) > 0 /\ Len(old) > minSize[s]
           case4 == type = "4" /\ Len(old) > 0 /\ Len(old) < maxSize[s]
<1>3. /\ case1 => genes \in {[old EXCEPT ![j] = old[n], ![n] = old[j]] : n \in Neighbors(old, j)}
      /\ case2 => genes \in {[old EXCEPT ![j] = o] : o \in ToSet(options[s])}
      /\ case3 => genes = RemoveAt(old, j)
      /\ case4 => genes = InsertAt(old, j, old[j])
      /\ ~case1 /\ ~case2 /\ ~case3 /\ ~case4 => genes = old
  BY DEF Mutated, j, old
<1>4. CASE case1
  <2>1. PICK n \in Neighbors(old, j) : genes = [old EXCEPT ![j] = old[n], ![n] = old[j]]
    BY <1>3, <1>4
  <2>2. n \in 1 .. Len(old)
    BY <2>1 DEF Neighbors
  <2> QED BY <1>1, <1>2, <1>4, <2>1, <2>2, Swapped DEF Strings, old
<1>5. CASE case2
  <2>1. PICK o \in ToSet(options[s]) : genes = [old EXCEPT ![j] = o]
    BY <1>3, <1>5
  <2>2. o \in Genes
    BY <1>1, ElementOfSeq, LenProperties DEF ToSet
  <2> QED BY <1>1, <1>2, <1>5, <2>1, <2>2, ExceptSeq DEF Strings, old
<1>6. CASE case3
  BY <1>1, <1>2, <1>3, <1>6, Removed DEF Strings, old
<1>7. CASE case4
  <2>1. old[j] \in Genes
    BY <1>1, <1>2, <1>7, ElementOfSeq
  <2> QED BY <1>1, <1>2, <1>3, <1>7, <2>1, Inserted1 DEF Strings, old
<1>8. CASE ~case1 /\ ~case2 /\ ~case3 /\ ~case4
  BY <1>1, <1>3, <1>8 DEF Strings, old
<1> QED BY <1>4, <1>5, <1>6, <1>7, <1>8

LEMMA MutateChanges ==
  ASSUME TypeOK, NEW s \in Systems, Mutate(s)
  PROVE  /\ system' \in [Systems -> Strings]
         /\ \A t \in Systems : SizeStep(t)
<1>1. CASE UNCHANGED system
  <2>1. \A t \in Systems : Len(system'[t]) \in Nat /\ system'[t] = system[t]
    BY <1>1, LenProperties DEF TypeOK, Strings
  <2> QED BY <1>1, <2>1 DEF SizeStep, TypeOK
<1>2. ASSUME NEW type, NEW genes \in Mutated(s, type, Cursor(s) + 1),
             system' = [system EXCEPT ![s] = genes]
      PROVE  /\ system' \in [Systems -> Strings]
             /\ \A t \in Systems : SizeStep(t)
  <2>1. /\ genes \in Strings
        /\ Len(genes) > Len(system[s]) => Len(genes) <= maxSize[s]
        /\ Len(genes) < Len(system[s]) => Len(genes) >= minSize[s]
    BY MutatedString
  <2>2. \A t \in Systems : Len(system[t]) \in Nat
    BY LenProperties DEF TypeOK, Strings
  <2>3. \A t \in Systems : system'[t] = IF t = s THEN genes ELSE system[t]
    BY <1>2 DEF TypeOK
  <2>4. \A t \in Systems : SizeStep(t)
    BY <2>1, <2>2, <2>3 DEF SizeStep
  <2> QED BY <1>2, <2>1, <2>4 DEF TypeOK
<1> QED BY <1>1, <1>2 DEF Mutate

LEMMA MutateKeeps ==
  ASSUME NEW s \in Systems, SystemInv, Mutate(s)
  PROVE  SystemInv'
<1>1. system' \in [Systems -> Strings]
  BY MutateChanges DEF SystemInv
<1>2. Cursor(s) \in Nat
  BY DEF SystemInv, TypeOK, Cursor
<1>3. currentGene' \in [Systems -> Nat]
  BY <1>2 DEF Mutate, SystemInv, TypeOK
<1>4. /\ Called /\ Quietly
      /\ UNCHANGED <<options, mutationProbabilities, growthRules, limitVars>>
  BY DEF Mutate
<1> QED BY <1>1, <1>3, <1>4, MethodKeeps DEF SystemInv, TypeOK, limitVars

LEMMA CallsType ==
  ASSUME SystemInv, Called
  PROVE  calls' \in 0 .. MaxCalls
  BY LSystemAssumption DEF SystemInv, TypeOK, Called

LEMMA MutateNoOptionsKeeps ==
  ASSUME NEW s \in Systems, SystemInv, MutateNoOptions(s)
  PROVE  SystemInv'
<1>1. calls' \in 0 .. MaxCalls
  BY CallsType DEF MutateNoOptions
<1> QED BY <1>1 DEF MutateNoOptions, SystemInv, TypeOK, CallAt, geneVars, limitVars

-----------------------------------------------------------------------------
(* grow *)

LEMMA GrowKeeps ==
  ASSUME NEW s \in Systems, SystemInv, Grow(s)
  PROVE  SystemInv'
<1>1. calls' \in 0 .. MaxCalls
  BY CallsType DEF Grow
<1>2. Len(system[s]) \in Nat
  BY LenProperties DEF SystemInv, TypeOK, Strings
<1>3. i' \in 1 .. Len(system'[this']) + 1
  BY <1>2 DEF Grow, geneVars
<1> QED BY <1>1, <1>3 DEF Grow, SystemInv, TypeOK, CallAt, geneVars, limitVars

(* What a gene becomes: at least itself, and no more than there is room. *)
LEMMA ReplacementType ==
  ASSUME NEW end \in Seq(Genes), NEW room \in Nat, end # <<>>
  PROVE  /\ Inserted(end, room) \in Nat /\ Inserted(end, room) <= room
         /\ Inserted(end, room) \in {Len(end) - 1, room} /\ Inserted(end, room) < Len(end)
         /\ Replacement(end, room) \in Seq(Genes)
         /\ Len(Replacement(end, room)) = Inserted(end, room) + 1
<1> DEFINE n == Inserted(end, room)
<1>1. Len(end) \in Nat /\ Len(end) >= 1
  BY EmptySeq, LenProperties
<1>2. Len(end) - 1 \in Nat
  BY <1>1
<1>3. n \in Nat /\ n <= room /\ n <= Len(end) - 1 /\ n \in {Len(end) - 1, room}
  BY <1>2, MinOfTwo DEF Inserted
<1> HIDE DEF n
<1>4. /\ SubSeq(end, Len(end) - n, Len(end) - 1) \in Seq(Genes)
      /\ Len(SubSeq(end, Len(end) - n, Len(end) - 1)) = n
  BY <1>1, <1>3, Piece
<1>5. end[n + 1] \in Genes
  BY <1>1, <1>3, ElementOfSeq
<1>6. Replacement(end, room) = Append(SubSeq(end, Len(end) - n, Len(end) - 1), end[n + 1])
  BY DEF Replacement, n
<1>7. Replacement(end, room) \in Seq(Genes) /\ Len(Replacement(end, room)) = n + 1
  BY <1>4, <1>5, <1>6, AppendProperties
<1> QED BY <1>1, <1>3, <1>7 DEF n

(* One iteration *)
LEMMA GrowGeneChanges ==
  ASSUME TypeOK, GrowGene
  PROVE  /\ End \in Seq(Genes) /\ End # <<>> /\ Room \in Nat
         /\ i \in 1 .. Len(system[this])
         /\ system' \in [Systems -> Strings]
         /\ Len(system'[this]) = Len(system[this]) + Inserted(End, Room)
         /\ \A s \in Systems : s # this => system'[s] = system[s]
         /\ i' = i + 1 + Inserted(End, Room)
<1> DEFINE genes == system[this]
           n == Inserted(End, Room)
           tokens == Replacement(End, Room)
<1>1. /\ genes \in Seq(Genes) /\ Len(genes) \in Nat /\ maxSize[this] \in Nat /\ this \in Systems
  BY LenProperties DEF TypeOK, Strings, Uints
<1>2. GrowBy(tokens, 1 + n)
  BY DEF GrowGene
<1>3. i \in 1 .. Len(genes) /\ Len(genes) < maxSize[this] /\ (HasRule => Production # <<>>)
  BY <1>1, <1>2 DEF GrowBy, InLoop, TypeOK
<1>4. Room \in Nat
  BY <1>1, <1>3 DEF Room
<1>5. genes[i] \in Genes
  BY <1>1, <1>3, ElementOfSeq
<1>6. End \in Seq(Genes) /\ End # <<>>
  <2>1. CASE HasRule
    BY <2>1, <1>1, <1>3 DEF HasRule, Production, End, TypeOK, Strings
  <2>2. CASE ~HasRule
    <3>1. End = <<genes[i]>>
      BY <2>2 DEF End
    <3> QED BY <3>1, <1>5
  <2> QED BY <2>1, <2>2
<1>7. n \in Nat /\ tokens \in Seq(Genes) /\ Len(tokens) = n + 1
  BY <1>4, <1>6, ReplacementType
<1> DEFINE grown == SubSeq(genes, 1, i - 1) \o tokens \o SubSeq(genes, i + 1, Len(genes))
<1>8. system' = [system EXCEPT ![this] = grown] /\ i' = i + (1 + n)
  BY <1>2 DEF GrowBy
<1> HIDE DEF genes, n, tokens
<1>9. grown \in Seq(Genes) /\ Len(grown) = Len(genes) + Len(tokens) - 1
  BY <1>1, <1>3, <1>7, Spliced
<1> HIDE DEF grown
<1>10. Len(grown) = Len(genes) + n
  BY <1>1, <1>7, <1>9
<1>11. /\ system' \in [Systems -> Strings] /\ system'[this] = grown
       /\ \A s \in Systems : s # this => system'[s] = system[s]
  BY <1>1, <1>8, <1>9 DEF TypeOK, Strings
<1>12. i' = i + 1 + n
  BY <1>3, <1>7, <1>8
<1> QED BY <1>3, <1>4, <1>6, <1>10, <1>11, <1>12 DEF genes, n

LEMMA GrowGeneKeeps ==
  ASSUME SystemInv, GrowGene
  PROVE  SystemInv'
<1> DEFINE n == Inserted(End, Room)
<1>1. /\ End \in Seq(Genes) /\ End # <<>> /\ Room \in Nat
      /\ i \in 1 .. Len(system[this])
      /\ system' \in [Systems -> Strings]
      /\ Len(system'[this]) = Len(system[this]) + n
      /\ i' = i + 1 + n
  BY GrowGeneChanges DEF SystemInv
<1>2. n \in Nat
  BY <1>1, ReplacementType
<1>3. Len(system[this]) \in Nat /\ this' = this /\ pc = "grow" /\ pc' = "grow"
  BY LenProperties DEF SystemInv, TypeOK, Strings, GrowGene, GrowBy
<1> HIDE DEF n
<1>4. i' \in 1 .. Len(system'[this']) + 1
  BY <1>1, <1>2, <1>3
<1>5. UNCHANGED <<options, mutationProbabilities, growthRules, currentGene, limitVars,
                  this, other, stage, before, calls>>
  BY DEF GrowGene, GrowBy
<1> QED BY <1>1, <1>3, <1>4, <1>5 DEF SystemInv, TypeOK, CallAt, limitVars

LEMMA GrowEndsKeeps ==
  ASSUME SystemInv, GrowEmptyProduction \/ GrowReturn
  PROVE  SystemInv'
  BY DEF GrowEmptyProduction, GrowReturn, SystemInv, TypeOK, CallAt, geneVars, limitVars

-----------------------------------------------------------------------------
(* cross *)

LEMMA CrossKeeps ==
  ASSUME NEW s \in Systems, NEW t \in Systems, NEW m \in CrossMaps, SystemInv, Cross(s, t, m)
  PROVE  SystemInv'
<1>1. calls' \in 0 .. MaxCalls
  BY CallsType DEF Cross
<1>2. i = 1 /\ Len(system[s]) \in Nat
  BY LenProperties DEF SystemInv, TypeOK, Strings, CallAt, Cross, Called
<1>3. i' \in 1 .. Len(system'[this']) + 1
  BY <1>2 DEF Cross, geneVars
<1>4. todo' \in Seq(ToSet(m[1]))
  <2>1. m[1] \in Seq(ToSet(m[1])) /\ <<>> \in Seq(ToSet(m[1]))
    BY InputAssumption
  <2> QED BY <2>1 DEF Cross
<1> QED BY <1>1, <1>2, <1>3, <1>4 DEF Cross, SystemInv, TypeOK, CallAt, geneVars, limitVars

(* What an exchange makes of f: elements are replaced by elements. *)
Mixed(f, k1, k2, x) ==
    /\ DOMAIN x = DOMAIN f
    /\ \A s \in DOMAIN f :
          /\ DOMAIN x[s] = DOMAIN f[s]
          /\ \A k \in DOMAIN f[s] :
                x[s][k] = f[s][k] \/ x[s][k] = f[this][k1] \/ x[s][k] = f[other][k2]

LEMMA ExchangeKeeps ==
  ASSUME NEW f, NEW op, this \in DOMAIN f, other \in DOMAIN f,
         NEW k1 \in DOMAIN f[this], NEW k2 \in DOMAIN f[other]
  PROVE  Mixed(f, k1, k2, Exchange(f, k1, k2, op))
<1> USE DEF Mixed
<1>1. CASE op = "1"
  BY <1>1 DEF Exchange
<1>2. CASE op = "2"
  BY <1>2 DEF Exchange
<1>3. CASE op = "3"
  <2> DEFINE f1 == [f EXCEPT ![this][k1] = f[other][k2]]
             f2 == [f1 EXCEPT ![other][k2] = f[this][k1]]
  <2>1. Exchange(f, k1, k2, op) = f2
    BY <1>3 DEF Exchange
  <2>2. DOMAIN f1 = DOMAIN f /\ \A s \in DOMAIN f :
           /\ DOMAIN f1[s] = DOMAIN f[s]
           /\ \A k \in DOMAIN f[s] : f1[s][k] = f[s][k] \/ f1[s][k] = f[other][k2]
    OBVIOUS
  <2> HIDE DEF f1
  <2>3. DOMAIN f2 = DOMAIN f1 /\ \A s \in DOMAIN f1 :
           /\ DOMAIN f2[s] = DOMAIN f1[s]
           /\ \A k \in DOMAIN f1[s] : f2[s][k] = f1[s][k] \/ f2[s][k] = f[this][k1]
    OBVIOUS
  <2> HIDE DEF f2
  <2> QED BY <2>1, <2>2, <2>3
<1>4. CASE op \notin {"1", "2", "3"}
  BY <1>4 DEF Exchange
<1> QED BY <1>1, <1>2, <1>3, <1>4

LEMMA PlaceReplaced ==
  ASSUME NEW f \in [Systems -> Strings], NEW s \in Systems, NEW k \in DOMAIN f[s],
         NEW g \in Genes
  PROVE  /\ [f EXCEPT ![s][k] = g] \in [Systems -> Strings]
         /\ \A t \in Systems : /\ Len([f EXCEPT ![s][k] = g][t]) = Len(f[t])
                               /\ DOMAIN [f EXCEPT ![s][k] = g][t] = DOMAIN f[t]
<1> DEFINE v == [f[s] EXCEPT ![k] = g]
<1>1. f[s] \in Seq(Genes) /\ k \in 1 .. Len(f[s]) /\ DOMAIN f[s] = 1 .. Len(f[s])
  BY LenProperties DEF Strings
<1>2. v \in Seq(Genes) /\ Len(v) = Len(f[s])
  BY <1>1, ExceptSeq
<1>3. DOMAIN v = DOMAIN f[s]
  BY <1>1, <1>2, LenProperties
<1>4. [f EXCEPT ![s][k] = g] = [f EXCEPT ![s] = v]
  OBVIOUS
<1> HIDE DEF v
<1> QED BY <1>2, <1>3, <1>4 DEF Strings

LEMMA VectorsExchanged ==
  ASSUME NEW f \in [Systems -> Strings], NEW op, this \in Systems, other \in Systems,
         NEW k1 \in DOMAIN f[this], NEW k2 \in DOMAIN f[other]
  PROVE  /\ Exchange(f, k1, k2, op) \in [Systems -> Strings]
         /\ \A s \in Systems : Len(Exchange(f, k1, k2, op)[s]) = Len(f[s])
<1>1. f[this][k1] \in Genes /\ f[other][k2] \in Genes
  BY ElementOfSeq, LenProperties DEF Strings
<1>2. CASE op = "1"
  BY <1>1, <1>2, PlaceReplaced DEF Exchange
<1>3. CASE op = "2"
  BY <1>1, <1>3, PlaceReplaced DEF Exchange
<1>4. CASE op = "3"
  <2> DEFINE f1 == [f EXCEPT ![this][k1] = f[other][k2]]
  <2>1. Exchange(f, k1, k2, op) = [f1 EXCEPT ![other][k2] = f[this][k1]]
    BY <1>4 DEF Exchange
  <2>2. /\ f1 \in [Systems -> Strings]
        /\ \A s \in Systems : Len(f1[s]) = Len(f[s]) /\ DOMAIN f1[s] = DOMAIN f[s]
    BY <1>1, PlaceReplaced
  <2> HIDE DEF f1
  <2>3. k2 \in DOMAIN f1[other]
    BY <2>2
  <2>4. PICK g \in Genes : g = f[this][k1]
    BY <1>1
  <2> DEFINE f2 == [f1 EXCEPT ![other][k2] = g]
  <2>5. /\ f2 \in [Systems -> Strings]
        /\ \A t \in Systems : Len(f2[t]) = Len(f1[t]) /\ DOMAIN f2[t] = DOMAIN f1[t]
    BY <2>2, <2>3, PlaceReplaced
  <2>6. Exchange(f, k1, k2, op) = f2
    BY <2>1, <2>4
  <2> HIDE DEF f2
  <2> QED BY <2>2, <2>5, <2>6
<1>5. CASE op \notin {"1", "2", "3"}
  BY <1>5 DEF Exchange
<1> QED BY <1>2, <1>3, <1>4, <1>5

LEMMA CrossVectorsChanges ==
  ASSUME TypeOK, CrossVectors
  PROVE  /\ system' \in [Systems -> Strings] /\ options' \in [Systems -> Strings]
         /\ \A s \in Systems : Len(system'[s]) = Len(system[s])
<1> DEFINE e == Head(todo)
           vectors == IF stage = 1 THEN system ELSE options
<1>1. CASE UNCHANGED <<system, options>>
  BY <1>1 DEF TypeOK
<1>2. ASSUME NEW k1 \in Indices(e.left, vectors[this]),
             NEW k2 \in Indices(e.right, vectors[other]),
             system' = IF stage = 1 THEN Exchange(vectors, k1, k2, e.op) ELSE system,
             options' = IF stage = 2 THEN Exchange(vectors, k1, k2, e.op) ELSE options
      PROVE  /\ system' \in [Systems -> Strings] /\ options' \in [Systems -> Strings]
             /\ \A s \in Systems : Len(system'[s]) = Len(system[s])
  <2>1. stage \in {1, 2} /\ this \in Systems /\ other \in Systems
    BY DEF TypeOK, CrossVectors
  <2>2. vectors \in [Systems -> Strings]
    BY DEF TypeOK
  <2>3. k1 \in DOMAIN vectors[this] /\ k2 \in DOMAIN vectors[other]
    BY <1>2 DEF Indices
  <2> DEFINE crossed == Exchange(vectors, k1, k2, e.op)
  <2>4. /\ crossed \in [Systems -> Strings]
        /\ \A s \in Systems : Len(crossed[s]) = Len(vectors[s])
    <3> HIDE DEF e, vectors
    <3> QED BY <2>1, <2>2, <2>3, VectorsExchanged
  <2> HIDE DEF crossed
  <2>5. system' = (IF stage = 1 THEN crossed ELSE system)
        /\ options' = IF stage = 2 THEN crossed ELSE options
    BY <1>2 DEF crossed
  <2> QED BY <2>4, <2>5 DEF TypeOK
<1> QED BY <1>1, <1>2 DEF CrossVectors

(* The entries that are left are entries of the stage. *)
LEMMA TailOfEntries ==
  ASSUME NEW S, NEW s \in Seq(S), s # <<>>
  PROVE  Head(s) \in S /\ Tail(s) \in Seq(S)
  BY HeadTailProperties

LEMMA CrossVectorsKeeps ==
  ASSUME SystemInv, CrossVectors
  PROVE  SystemInv'
<1>1. /\ system' \in [Systems -> Strings] /\ options' \in [Systems -> Strings]
      /\ \A s \in Systems : Len(system'[s]) = Len(system[s])
  BY CrossVectorsChanges DEF SystemInv
<1>2. /\ pc = "cross" /\ todo # <<>> /\ pc' \in {"cross", "crossed"}
      /\ pc' = "cross" => todo' = Tail(todo)
      /\ UNCHANGED <<mutationProbabilities, growthRules, currentGene, limitVars,
                     this, other, i, stage, maps, before, calls>>
  BY DEF CrossVectors
<1>3. pc' = "cross" => todo' \in Seq(ToSet(maps[stage]))
  BY <1>2, TailOfEntries DEF SystemInv, CallAt
<1> QED BY <1>1, <1>2, <1>3 DEF SystemInv, TypeOK, CallAt, limitVars

LEMMA CrossNextKeeps ==
  ASSUME SystemInv, CrossNext
  PROVE  SystemInv'
<1>1. CASE stage < 4 /\ stage' = stage + 1 /\ pc' = pc
  <2>1. stage + 1 \in 1 .. 4
    BY <1>1 DEF SystemInv, TypeOK
  <2>2. maps \in CrossMaps /\ UNCHANGED maps
    BY DEF SystemInv, CallAt, CrossNext
  <2>3. maps[stage + 1] \in Seq(ToSet(maps[stage + 1])) /\ <<>> \in Seq(ToSet(maps[stage + 1]))
    BY <2>1, <2>2, InputAssumption
  <2>4. todo' \in Seq(ToSet(maps'[stage']))
    BY <1>1, <2>1, <2>2, <2>3 DEF CrossNext, SystemInv, TypeOK
  <2> QED BY <1>1, <2>1, <2>2, <2>4 DEF CrossNext, SystemInv, TypeOK, CallAt, geneVars, limitVars
<1>2. CASE stage = 4 /\ pc' = "crossed" /\ UNCHANGED stage
  BY <1>2 DEF CrossNext, SystemInv, TypeOK, CallAt, geneVars, limitVars
<1> QED BY <1>1, <1>2 DEF CrossNext

LEMMA ReturnKeeps ==
  ASSUME SystemInv, Return
  PROVE  SystemInv'
<1>1. Len(system[this]) \in Nat
  BY LenProperties DEF SystemInv, TypeOK, Strings
<1>2. i' \in 1 .. Len(system'[this']) + 1
  BY <1>1 DEF Return, geneVars
<1> QED BY <1>2 DEF Return, SystemInv, TypeOK, CallAt, geneVars, limitVars

LEMMA CrossMapKeeps ==
  ASSUME SystemInv, CrossMap
  PROVE  SystemInv'
<1> DEFINE e == Head(todo)
           maps3 == IF stage = 3 THEN mutationProbabilities ELSE growthRules
           Typed(probabilities, rules) ==
               /\ DOMAIN probabilities = Systems /\ DOMAIN rules = Systems
               /\ \A s \in Systems :
                     /\ \A k \in DOMAIN probabilities[s] : probabilities[s][k] \in Int
                     /\ DOMAIN rules[s] \subseteq Genes
                     /\ \A g \in DOMAIN rules[s] : rules[s][g] \in Strings
<1>1. /\ pc = "cross" /\ todo # <<>> /\ pc' \in {"cross", "crossed"} /\ stage \in {3, 4}
      /\ pc' = "cross" => todo' = Tail(todo)
      /\ UNCHANGED <<system, options, currentGene, limitVars, this, other, i, stage, maps,
                     before, calls>>
  BY DEF CrossMap
<1>2. Typed(mutationProbabilities, growthRules) /\ this \in Systems /\ other \in Systems
  BY DEF SystemInv, TypeOK
<1>3. ASSUME NEW k1, NEW k2, NEW keys,
             LET looked == [mutationProbabilities EXCEPT ![this] = Looked(@, keys)]
                 now == IF stage = 3 THEN looked ELSE growthRules
                 crossed == IF k1 \in DOMAIN now[this] /\ k2 \in DOMAIN now[other]
                            THEN Exchange(now, k1, k2, e.op) ELSE now
             IN /\ mutationProbabilities' = IF stage = 3 THEN crossed ELSE looked
                /\ growthRules' = IF stage = 4 THEN crossed ELSE growthRules
      PROVE  Typed(mutationProbabilities', growthRules')
  <2> DEFINE looked == [mutationProbabilities EXCEPT ![this] = Looked(@, keys)]
             now == IF stage = 3 THEN looked ELSE growthRules
             crossed == IF k1 \in DOMAIN now[this] /\ k2 \in DOMAIN now[other]
                        THEN Exchange(now, k1, k2, e.op) ELSE now
  <2>1. /\ mutationProbabilities' = IF stage = 3 THEN crossed ELSE looked
        /\ growthRules' = IF stage = 4 THEN crossed ELSE growthRules
    BY <1>3
  <2>2. Typed(looked, growthRules)
    <3>1. \A k \in DOMAIN Looked(mutationProbabilities[this], keys) :
             Looked(mutationProbabilities[this], keys)[k] \in Int
      BY <1>2 DEF Looked, Over
    <3> DEFINE l == Looked(mutationProbabilities[this], keys)
    <3>2. /\ DOMAIN looked = Systems
          /\ \A s \in Systems : looked[s] = IF s = this THEN l ELSE mutationProbabilities[s]
      BY <1>2
    <3> HIDE DEF l, looked
    <3>3. \A s \in Systems : \A k \in DOMAIN looked[s] : looked[s][k] \in Int
      BY <1>2, <3>1, <3>2 DEF l
    <3> QED BY <1>2, <3>2, <3>3
  <2> HIDE DEF looked, e
  <2>3. CASE k1 \in DOMAIN now[this] /\ k2 \in DOMAIN now[other]
    <3>1. crossed = Exchange(now, k1, k2, e.op) /\ this \in DOMAIN now /\ other \in DOMAIN now
      BY <1>2, <2>2, <2>3
    <3> DEFINE x == Exchange(now, k1, k2, e.op)
    <3> HIDE DEF now
    <3>0. PICK f, op : f = now /\ op = e.op
      OBVIOUS
    <3>2. /\ DOMAIN x = DOMAIN now
          /\ \A s \in DOMAIN now :
               /\ DOMAIN x[s] = DOMAIN now[s]
               /\ \A k \in DOMAIN now[s] :
                     x[s][k] = now[s][k] \/ x[s][k] = now[this][k1] \/ x[s][k] = now[other][k2]
      <4>1. /\ this \in DOMAIN f /\ other \in DOMAIN f
            /\ k1 \in DOMAIN f[this] /\ k2 \in DOMAIN f[other]
        BY <3>0, <3>1, <2>3
      <4>2. Mixed(f, k1, k2, Exchange(f, k1, k2, op))
        BY <4>1, ExchangeKeeps
      <4>3. Mixed(f, k1, k2, x)
        BY <3>0, <4>2
      <4> QED BY <3>0, <4>3 DEF Mixed
    <3> HIDE DEF x
    <3>3. CASE stage = 3
      <4>1. now = looked /\ mutationProbabilities' = x /\ growthRules' = growthRules
        BY <2>1, <3>1, <3>3 DEF now, x
      <4> QED BY <1>2, <2>2, <2>3, <3>2, <4>1
    <3>4. CASE stage = 4
      <4>1. now = growthRules /\ mutationProbabilities' = looked /\ growthRules' = x
        BY <2>1, <3>1, <3>4 DEF now, x
      <4> QED BY <1>2, <2>2, <2>3, <3>2, <4>1
    <3> QED BY <1>1, <3>3, <3>4
  <2>4. CASE ~(k1 \in DOMAIN now[this] /\ k2 \in DOMAIN now[other])
    <3>1. crossed = now
      BY <2>4
    <3> QED BY <1>1, <2>1, <2>2, <3>1
  <2> QED BY <2>3, <2>4
<1>4. Typed(mutationProbabilities', growthRules')
  <2>1. CASE UNCHANGED <<mutationProbabilities, growthRules>>
    BY <1>2, <2>1
  <2> HIDE DEF Typed
  <2> QED BY <1>3, <2>1 DEF CrossMap
<1>5. pc' = "cross" => todo' \in Seq(ToSet(maps[stage]))
  BY <1>1, TailOfEntries DEF SystemInv, CallAt
<1> QED BY <1>1, <1>4, <1>5 DEF SystemInv, TypeOK, CallAt, limitVars

-----------------------------------------------------------------------------
LEMMA SystemInvNext ==
  ASSUME SystemInv, [Next]_vars
  PROVE  SystemInv'
<1>1. ASSUME NEW s \in Systems, Setter(s) \/ Mutate(s) \/ MutateNoOptions(s) \/ Grow(s)
      PROVE  SystemInv'
  BY <1>1, SetterKeeps, MutateKeeps, MutateNoOptionsKeeps, GrowKeeps
<1>2. ASSUME NEW s \in Systems, NEW t \in Systems,
             GetCopy(s, t) \/ \E m \in CrossMaps : Cross(s, t, m)
      PROVE  SystemInv'
  BY <1>2, GetCopyKeeps, CrossKeeps
<1>3. CASE Continue
  BY <1>3, GrowGeneKeeps, GrowEndsKeeps, CrossVectorsKeeps, CrossMapKeeps, CrossNextKeeps,
     ReturnKeeps DEF Continue
<1>4. CASE UNCHANGED vars
  BY <1>4 DEF vars, geneVars, limitVars, callVars, SystemInv, TypeOK, CallAt
<1> QED BY <1>1, <1>2, <1>3, <1>4 DEF Next

(* Every variable keeps the type the code gives it, and the loop of grow   *)
(* never is more than one past the end of the string it changes, whatever  *)
(* is read from files and sent by clients.                                 *)
THEOREM TypesStay == Spec => []TypeOK
<1>1. Init => SystemInv
  BY SystemInvInit
<1>2. SystemInv /\ [Next]_vars => SystemInv'
  BY SystemInvNext
<1>3. SystemInv => TypeOK
  BY DEF SystemInv
<1> QED BY <1>1, <1>2, <1>3, PTL DEF Spec

(* No call is made while one is in progress; a cross is begun by cross.    *)
LEMMA OnlyContinue ==
  ASSUME Next, pc # "idle"
  PROVE  Continue
<1>1. ~Called
  BY DEF Called
<1>2. ASSUME NEW s \in Systems PROVE ~Setter(s)
  <2>1. \A in \in Inputs : ~Initialize(s, in)
    BY <1>1 DEF Initialize
  <2>2. \A n \in Sizes : ~SetMinSize(s, n) /\ ~SetMaxSize(s, n)
    BY <1>1 DEF SetMinSize, SetMaxSize
  <2>3. \A genes \in Seeds : ~SetSystem(s, genes)
    BY <1>1 DEF SetSystem
  <2>4. \A g \in Genes, end \in Productions : ~SetGrowthRule(s, g, end)
    BY <1>1 DEF SetGrowthRule
  <2>5. \A g \in Genes : ~DeleteGrowthRule(s, g) /\ ~AddOption(s, g) /\ ~DeleteOption(s, g)
    BY <1>1 DEF DeleteGrowthRule, AddOption, DeleteOption
  <2>6. \A type \in Types, p \in {0, 5000} : ~SetMutationProbability(s, type, p)
    BY <1>1 DEF SetMutationProbability
  <2> QED BY <2>1, <2>2, <2>3, <2>4, <2>5, <2>6 DEF Setter
<1>3. ASSUME NEW s \in Systems PROVE ~Mutate(s) /\ ~MutateNoOptions(s) /\ ~Grow(s)
  BY <1>1 DEF Mutate, MutateNoOptions, Grow
<1>4. ASSUME NEW s \in Systems, NEW t \in Systems
      PROVE  ~GetCopy(s, t) /\ \A m \in CrossMaps : ~Cross(s, t, m)
  BY <1>1 DEF GetCopy, Cross
<1> QED BY <1>2, <1>3, <1>4 DEF Next

LEMMA OnlyLoops ==
  ASSUME Next, pc = "idle", pc' \notin {"idle", "crashed"}
  PROVE  \/ \E s \in Systems : Grow(s)
         \/ \E s \in Systems, t \in Systems, m \in CrossMaps : Cross(s, t, m)
<1>1. ~Quietly
  BY DEF Quietly, callVars
<1>2. ASSUME NEW s \in Systems PROVE ~Setter(s)
  <2>1. \A in \in Inputs : ~Initialize(s, in)
    BY <1>1 DEF Initialize
  <2>2. \A n \in Sizes : ~SetMinSize(s, n) /\ ~SetMaxSize(s, n)
    BY <1>1 DEF SetMinSize, SetMaxSize
  <2>3. \A genes \in Seeds : ~SetSystem(s, genes)
    BY <1>1 DEF SetSystem
  <2>4. \A g \in Genes, end \in Productions : ~SetGrowthRule(s, g, end)
    BY <1>1 DEF SetGrowthRule
  <2>5. \A g \in Genes : ~DeleteGrowthRule(s, g) /\ ~AddOption(s, g) /\ ~DeleteOption(s, g)
    BY <1>1 DEF DeleteGrowthRule, AddOption, DeleteOption
  <2>6. \A type \in Types, p \in {0, 5000} : ~SetMutationProbability(s, type, p)
    BY <1>1 DEF SetMutationProbability
  <2> QED BY <2>1, <2>2, <2>3, <2>4, <2>5, <2>6 DEF Setter
<1>3. ASSUME NEW s \in Systems PROVE ~Mutate(s) /\ ~MutateNoOptions(s)
  BY <1>1 DEF Mutate, MutateNoOptions
<1>4. ASSUME NEW s \in Systems, NEW t \in Systems PROVE ~GetCopy(s, t)
  BY <1>1 DEF GetCopy
<1>5. ~Continue
  BY DEF Continue, GrowGene, GrowBy, GrowEmptyProduction, GrowReturn, CrossVectors, CrossMap,
         CrossNext, Return
<1> QED BY <1>2, <1>3, <1>4, <1>5 DEF Next

(* A step of a call in progress *)
LEMMA ContinueSizes ==
  ASSUME TypeOK, Next, pc # "idle"
  PROVE  \A s \in Systems : SizeStep(s)
<1>1. \A s \in Systems : Len(system[s]) \in Nat /\ maxSize[s] \in Nat
  BY LenProperties DEF TypeOK, Strings, Uints
<1>2. CASE GrowGene
  <2>1. /\ End \in Seq(Genes) /\ End # <<>> /\ Room \in Nat
        /\ Len(system'[this]) = Len(system[this]) + Inserted(End, Room)
        /\ \A s \in Systems : s # this => system'[s] = system[s]
    BY <1>2, GrowGeneChanges
  <2>2. Inserted(End, Room) \in Nat /\ Inserted(End, Room) <= Room
    BY <2>1, ReplacementType
  <2>3. Len(system'[this]) <= maxSize[this] /\ Len(system'[this]) >= Len(system[this])
    BY <1>1, <2>1, <2>2 DEF Room, TypeOK
  <2>4. Len(system'[this]) \in Nat /\ this \in Systems
    BY <1>1, <2>1, <2>2 DEF TypeOK
  <2> QED BY <1>1, <2>1, <2>3, <2>4 DEF SizeStep
<1>3. CASE CrossVectors
  <2>1. \A s \in Systems : Len(system'[s]) = Len(system[s])
    BY <1>3, CrossVectorsChanges
  <2> QED BY <1>1, <2>1 DEF SizeStep
<1>4. CASE GrowEmptyProduction \/ GrowReturn \/ CrossMap \/ CrossNext \/ Return
  <2>1. system' = system
    BY <1>4 DEF GrowEmptyProduction, GrowReturn, CrossMap, CrossNext, Return, geneVars
  <2> QED BY <1>1, <2>1 DEF SizeStep
<1>5. Continue
  BY OnlyContinue
<1> QED BY <1>2, <1>3, <1>4, <1>5 DEF Continue

(* What mutates or grows or crosses a system never makes it longer than    *)
(* maxSize or shorter than minSize, wherever the setters put the limits    *)
(* and the string in between.                                              *)
THEOREM LimitsStayRespected == Spec => LimitsRespected
<1>1. Init => SystemInv
  BY SystemInvInit
<1>2. SystemInv /\ [Next]_vars => SystemInv'
  BY SystemInvNext
<1>3. SystemInv /\ [Next]_vars =>
         [(pc # "idle" \/ \E s \in Systems : Mutate(s)) => \A s \in Systems : SizeStep(s)]_vars
  BY ContinueSizes, MutateChanges DEF SystemInv
<1> QED BY <1>1, <1>2, <1>3, PTL DEF Spec, LimitsRespected

-----------------------------------------------------------------------------
(* How often a gene is in the parents *)

Places(strings, ss) == UNION {{s} \X DOMAIN strings[s] : s \in ss}
PlacesOf(strings, ss, g) == {p \in Places(strings, ss) : strings[p[1]][p[2]] = g}

LEMMA PlacesAre ==
  ASSUME NEW strings, NEW ss
  PROVE  /\ \A s \in ss : \A k \in DOMAIN strings[s] : <<s, k>> \in Places(strings, ss)
         /\ \A p \in Places(strings, ss) :
               p = <<p[1], p[2]>> /\ p[1] \in ss /\ p[2] \in DOMAIN strings[p[1]]
<1>1. ASSUME NEW p \in Places(strings, ss)
      PROVE  p = <<p[1], p[2]>> /\ p[1] \in ss /\ p[2] \in DOMAIN strings[p[1]]
  <2>1. PICK s \in ss : p \in {s} \X DOMAIN strings[s]
    BY DEF Places
  <2> QED BY <2>1
<1>2. ASSUME NEW s \in ss, NEW k \in DOMAIN strings[s]
      PROVE  <<s, k>> \in Places(strings, ss)
  <2>1. <<s, k>> \in {s} \X DOMAIN strings[s]
    OBVIOUS
  <2> QED BY <2>1 DEF Places
<1> QED BY <1>1, <1>2

LEMMA PlacesFinite ==
  ASSUME NEW f \in [Systems -> Strings], NEW s \in Systems, NEW t \in Systems
  PROVE  IsFiniteSet(Places(f, {s, t}))
<1>1. ASSUME NEW u \in Systems PROVE IsFiniteSet({u} \X DOMAIN f[u])
  <2>1. DOMAIN f[u] = 1 .. Len(f[u]) /\ Len(f[u]) \in Nat
    BY LenProperties DEF Strings
  <2>2. IsFiniteSet(DOMAIN f[u])
    BY <2>1, FS_Interval
  <2>3. IsFiniteSet({u})
    BY FS_Singleton
  <2> QED BY <2>2, <2>3, FS_Product
<1>2. Places(f, {s, t}) = ({s} \X DOMAIN f[s]) \cup ({t} \X DOMAIN f[t])
  BY DEF Places
<1> DEFINE A == {s} \X DOMAIN f[s]
           B == {t} \X DOMAIN f[t]
<1>3. IsFiniteSet(A) /\ IsFiniteSet(B) /\ Places(f, {s, t}) = A \cup B
  BY <1>1, <1>2
<1> HIDE DEF A, B
<1> QED BY <1>3, FS_Union

LEMMA CountIsZero ==
  ASSUME NEW f \in [Systems -> Strings], NEW s \in Systems, NEW t \in Systems, NEW g
  PROVE  Count(f, {s, t}, g) = 0 <=> PlacesOf(f, {s, t}, g) = {}
<1>1. PlacesOf(f, {s, t}, g) \in SUBSET Places(f, {s, t})
  BY DEF PlacesOf
<1>2. IsFiniteSet(PlacesOf(f, {s, t}, g))
  BY <1>1, PlacesFinite, FS_Subset
<1>3. Count(f, {s, t}, g) = Cardinality(PlacesOf(f, {s, t}, g))
  BY DEF Count, PlacesOf, Places
<1> QED BY <1>2, <1>3, FS_EmptySet

(* The elements of P that are in T when x and y take each other's place:   *)
(* there are as many.                                                      *)
SwappedIn(P, T, x, y) == {p \in P : (IF p = x THEN y ELSE IF p = y THEN x ELSE p) \in T}

LEMMA SwapKeepsSize ==
  ASSUME NEW P, IsFiniteSet(P), NEW T \in SUBSET P, NEW x \in P, NEW y \in P
  PROVE  Cardinality(SwappedIn(P, T, x, y)) = Cardinality(T)
<1> DEFINE U == SwappedIn(P, T, x, y)
           f == [p \in U |-> IF p = x THEN y ELSE IF p = y THEN x ELSE p]
<1> USE DEF SwappedIn
<1>1. f \in [U -> T]
  OBVIOUS
<1>2. \A p, q \in U : f[p] = f[q] => p = q
  OBVIOUS
<1>3. \A q \in T : \E p \in U : f[p] = q
  <2> TAKE q \in T
  <2> DEFINE p == IF q = x THEN y ELSE IF q = y THEN x ELSE q
  <2>1. p \in P /\ (IF p = x THEN y ELSE IF p = y THEN x ELSE p) = q
    OBVIOUS
  <2>2. p \in U
    BY <2>1
  <2>3. f[p] = q
    BY <2>1, <2>2
  <2> QED BY <2>2, <2>3
<1>4. IsFiniteSet(U)
  BY FS_Subset
<1> HIDE DEF f, U, SwappedIn
<1>5. f \in Bijection(U, T)
  BY <1>1, <1>2, <1>3, Fun_IsBij
<1>6. Cardinality(U) = Cardinality(T)
  BY <1>4, <1>5, FS_Bijection DEF ExistsBijection
<1> QED BY <1>6 DEF U

(* What an exchange leaves at each place *)
LEMMA SwapAt ==
  ASSUME NEW f, this \in DOMAIN f, other \in DOMAIN f,
         NEW k1 \in DOMAIN f[this], NEW k2 \in DOMAIN f[other]
  PROVE  \A s \in DOMAIN f : \A k \in DOMAIN f[s] :
            Exchange(f, k1, k2, "3")[s][k] =
               IF s = other /\ k = k2 THEN f[this][k1]
               ELSE IF s = this /\ k = k1 THEN f[other][k2] ELSE f[s][k]
<1> DEFINE f1 == [f EXCEPT ![this][k1] = f[other][k2]]
<1>1. /\ DOMAIN f1 = DOMAIN f
      /\ \A s \in DOMAIN f :
            /\ DOMAIN f1[s] = DOMAIN f[s]
            /\ \A k \in DOMAIN f[s] :
                  f1[s][k] = IF s = this /\ k = k1 THEN f[other][k2] ELSE f[s][k]
  OBVIOUS
<1>2. Exchange(f, k1, k2, "3") = [f1 EXCEPT ![other][k2] = f[this][k1]]
  BY DEF Exchange
<1> HIDE DEF f1
<1>3. \A s \in DOMAIN f1 : \A k \in DOMAIN f1[s] :
         [f1 EXCEPT ![other][k2] = f[this][k1]][s][k] =
            IF s = other /\ k = k2 THEN f[this][k1] ELSE f1[s][k]
  OBVIOUS
<1> QED BY <1>1, <1>2, <1>3

(* An exchange between the parents leaves the others alone, brings in      *)
(* nothing and loses nothing when it swaps.                                *)
FairExchange(f, x, op) ==
    /\ \A s \in Systems \ {this, other} : x[s] = f[s]
    /\ \A g : PlacesOf(f, {this, other}, g) = {} => PlacesOf(x, {this, other}, g) = {}
    /\ op = "3" => \A g : Count(x, {this, other}, g) = Count(f, {this, other}, g)

LEMMA ExchangeCounts ==
  ASSUME NEW f \in [Systems -> Strings], this \in Systems, other \in Systems,
         NEW k1 \in DOMAIN f[this], NEW k2 \in DOMAIN f[other], NEW op
  PROVE  FairExchange(f, Exchange(f, k1, k2, op), op)
<1>0. PICK x : x = Exchange(f, k1, k2, op)
  OBVIOUS
<1> DEFINE a == <<this, k1>>
           b == <<other, k2>>
           P == Places(f, {this, other})
<1>1. a[1] = this /\ a[2] = k1 /\ b[1] = other /\ b[2] = k2
  OBVIOUS
<1>2. /\ a \in P /\ b \in P
      /\ \A p \in P : p = <<p[1], p[2]>> /\ p[1] \in {this, other} /\ p[2] \in DOMAIN f[p[1]]
  BY PlacesAre
<1>3. /\ DOMAIN x = DOMAIN f
      /\ \A s \in DOMAIN f :
            /\ DOMAIN x[s] = DOMAIN f[s]
            /\ \A k \in DOMAIN f[s] :
                  x[s][k] = f[s][k] \/ x[s][k] = f[this][k1] \/ x[s][k] = f[other][k2]
  <2>1. this \in DOMAIN f /\ other \in DOMAIN f
    OBVIOUS
  <2>2. Mixed(f, k1, k2, x)
    BY <1>0, <2>1, ExchangeKeeps
  <2> QED BY <2>2 DEF Mixed
<1>4. ASSUME NEW s \in Systems \ {this, other}
      PROVE  x[s] = f[s]
  BY <1>0, <1>4 DEF Exchange
<1>5. Places(x, {this, other}) = P
  <2>1. DOMAIN x[this] = DOMAIN f[this] /\ DOMAIN x[other] = DOMAIN f[other]
    BY <1>3
  <2> QED BY <2>1 DEF Places
<1> HIDE DEF a, b, P
<1>6. ASSUME NEW g, PlacesOf(f, {this, other}, g) = {}
      PROVE  PlacesOf(x, {this, other}, g) = {}
  <2>1. \A p \in P : f[p[1]][p[2]] # g
    BY <1>6 DEF PlacesOf, P
  <2>2. f[this][k1] # g /\ f[other][k2] # g
    BY <1>1, <1>2, <2>1
  <2>3. ASSUME NEW p \in P PROVE x[p[1]][p[2]] # g
    <3>1. p[1] \in DOMAIN f /\ p[2] \in DOMAIN f[p[1]]
      BY <1>2
    <3> QED BY <1>3, <2>1, <2>2, <3>1
  <2> QED BY <1>5, <2>3 DEF PlacesOf
<1>7. ASSUME op = "3", NEW g
      PROVE  Count(x, {this, other}, g) = Count(f, {this, other}, g)
  <2> DEFINE T == PlacesOf(f, {this, other}, g)
             U == PlacesOf(x, {this, other}, g)
  <2>1. \A s \in Systems : \A k \in DOMAIN f[s] :
           x[s][k] = IF s = other /\ k = k2 THEN f[this][k1]
                     ELSE IF s = this /\ k = k1 THEN f[other][k2] ELSE f[s][k]
    BY <1>0, <1>7, SwapAt
  <2>2. ASSUME NEW p \in P
        PROVE  x[p[1]][p[2]] = LET q == IF p = a THEN b ELSE IF p = b THEN a ELSE p
                               IN  f[q[1]][q[2]]
    <3>1. p = <<p[1], p[2]>> /\ p[1] \in Systems /\ p[2] \in DOMAIN f[p[1]]
      BY <1>2
    <3>2. CASE p = a
      BY <1>1, <2>1, <3>2
    <3>3. CASE p = b /\ p # a
      BY <1>1, <2>1, <3>3
    <3>4. CASE p # a /\ p # b
      <4>1. ~(p[1] = this /\ p[2] = k1) /\ ~(p[1] = other /\ p[2] = k2)
        BY <3>1, <3>4 DEF a, b
      <4> QED BY <2>1, <3>1, <3>4, <4>1
    <3> QED BY <3>2, <3>3, <3>4
  <2>3. T \in SUBSET P /\ IsFiniteSet(P)
    BY PlacesFinite DEF PlacesOf, P
  <2>4. Count(x, {this, other}, g) = Cardinality(U) /\ Count(f, {this, other}, g) = Cardinality(T)
    BY DEF Count, PlacesOf, Places
  <2>5. U = SwappedIn(P, T, a, b)
    <3>1. U = {p \in P : x[p[1]][p[2]] = g} /\ T = {p \in P : f[p[1]][p[2]] = g}
      BY <1>5 DEF PlacesOf, P
    <3>2. \A p \in P : (IF p = a THEN b ELSE IF p = b THEN a ELSE p) \in P
      BY <1>2
    <3> HIDE DEF T, U
    <3> QED BY <2>2, <3>1, <3>2 DEF SwappedIn
  <2> HIDE DEF T, U
  <2>6. Cardinality(U) = Cardinality(T)
    BY <1>2, <2>3, <2>5, SwapKeepsSize
  <2> QED BY <2>4, <2>6
<1> QED BY <1>0, <1>4, <1>6, <1>7 DEF FairExchange

-----------------------------------------------------------------------------
(* However far a cross gets *)

CrossInv == SystemInv /\ CrossExchanges

Exchanged(now, then, s, t, m) ==
    /\ \A u \in Systems : Len(now[u]) = Len(then[u])
    /\ \A u \in Systems \ {s, t} : now[u] = then[u]
    /\ \A g \in Genes : Count(then, {s, t}, g) = 0 => Count(now, {s, t}, g) = 0
    /\ (\A e \in ToSet(IF m = <<>> THEN <<>> ELSE m[1]) : e.op = "3") =>
          \A g \in Genes : Count(now, {s, t}, g) = Count(then, {s, t}, g)

LEMMA ExchangedSaysIt ==
  CrossExchanges <=> (pc \in {"cross", "crossed"} => Exchanged(system, before, this, other, maps))
<1> QED BY Zenon DEF CrossExchanges, Exchanged

LEMMA ExchangedSaysItNext ==
  CrossExchanges' <=>
    (pc' \in {"cross", "crossed"} => Exchanged(system', before', this', other', maps'))
<1> QED BY Zenon DEF CrossExchanges, Exchanged, Count

LEMMA CrossVectorsExchanges ==
  ASSUME CrossInv, CrossVectors
  PROVE  CrossExchanges'
<1> DEFINE e == Head(todo)
<1>1. /\ pc = "cross" /\ todo # <<>>
      /\ this' = this /\ other' = other /\ maps' = maps /\ before' = before
      /\ this \in Systems /\ other \in Systems /\ system \in [Systems -> Strings]
  BY DEF CrossVectors, CrossInv, SystemInv, TypeOK
<1>2. Exchanged(system, before, this, other, maps)
  BY <1>1, ExchangedSaysIt DEF CrossInv
<1>3. CASE UNCHANGED system
  BY <1>1, <1>2, <1>3, ExchangedSaysItNext
<1>4. ASSUME NEW k1 \in DOMAIN system[this], NEW k2 \in DOMAIN system[other], stage = 1,
             system' = Exchange(system, k1, k2, e.op)
      PROVE  CrossExchanges'
  <2>1. PICK op : op = e.op
    OBVIOUS
  <2>2. PICK x : x = Exchange(system, k1, k2, op)
    OBVIOUS
  <2>4. /\ \A s \in Systems \ {this, other} : x[s] = system[s]
        /\ \A g : PlacesOf(system, {this, other}, g) = {} => PlacesOf(x, {this, other}, g) = {}
        /\ op = "3" => \A g : Count(x, {this, other}, g) = Count(system, {this, other}, g)
    <3>1. FairExchange(system, x, op)
      BY <1>1, <2>2, ExchangeCounts
    <3> QED BY <3>1 DEF FairExchange
  <2>5. \A s \in Systems : Len(x[s]) = Len(system[s])
    BY <1>1, <2>2, VectorsExchanged
  <2>6. \A g : Count(system, {this, other}, g) = 0 => Count(x, {this, other}, g) = 0
    <3> TAKE g
    <3>1. Count(system, {this, other}, g) = 0 <=> PlacesOf(system, {this, other}, g) = {}
      BY <1>1, CountIsZero
    <3>2. Count(x, {this, other}, g) = 0 <=> PlacesOf(x, {this, other}, g) = {}
      <4>1. x \in [Systems -> Strings]
        BY <1>1, <2>2, VectorsExchanged
      <4> QED BY <1>1, <4>1, CountIsZero
    <3> QED BY <2>4, <3>1, <3>2
  <2>7. maps # <<>> /\ e \in ToSet(maps[1])
    <3>1. maps \in CrossMaps /\ todo \in Seq(ToSet(maps[1]))
      BY <1>1, <1>4 DEF CrossInv, SystemInv, CallAt
    <3> QED BY <1>1, <3>1, TailOfEntries, InputAssumption
  <2>8. system' = x
    BY <1>4, <2>1, <2>2
  <2>9. Exchanged(x, before, this, other, maps)
    <3> HIDE DEF e
    <3>1. (\A d \in ToSet(maps[1]) : d.op = "3") => op = "3"
      BY <2>1, <2>7
    <3> QED BY <1>2, <2>4, <2>5, <2>6, <2>7, <3>1 DEF Exchanged
  <2> QED BY <1>1, <2>8, <2>9, ExchangedSaysItNext
<1> QED BY <1>3, <1>4 DEF CrossVectors, Indices

LEMMA CrossInvNext ==
  ASSUME CrossInv, [Next]_vars
  PROVE  CrossInv'
<1> SUFFICES CrossExchanges'
  BY SystemInvNext DEF CrossInv
<1>2. CASE pc' \notin {"cross", "crossed"}
  BY <1>2, ExchangedSaysItNext
<1>3. ASSUME pc \in {"cross", "crossed"},
             system' = system /\ this' = this /\ other' = other /\ maps' = maps /\ before' = before
      PROVE  CrossExchanges'
  BY <1>3, ExchangedSaysIt, ExchangedSaysItNext DEF CrossInv
<1>4. CASE pc' \in {"cross", "crossed"} /\ Next /\ pc # "idle"
  <2>1. Continue
    BY <1>4, OnlyContinue
  <2>2. CASE CrossVectors
    BY <2>2, CrossVectorsExchanges
  <2>3. CASE CrossMap \/ CrossNext
    <3>1. /\ pc = "cross" /\ system' = system /\ this' = this /\ other' = other
          /\ maps' = maps /\ before' = before
      BY <2>3 DEF CrossMap, CrossNext, geneVars
    <3> QED BY <1>3, <3>1
  <2>4. ~GrowGene /\ ~GrowEmptyProduction /\ ~GrowReturn /\ ~Return
    BY <1>4 DEF GrowGene, GrowBy, GrowEmptyProduction, GrowReturn, Return
  <2> QED BY <2>1, <2>2, <2>3, <2>4 DEF Continue
<1>5. CASE pc' \in {"cross", "crossed"} /\ Next /\ pc = "idle"
  <2>1. PICK s \in Systems, t \in Systems, m \in CrossMaps : Cross(s, t, m)
    <3>1. \A s \in Systems : ~Grow(s)
      BY <1>5 DEF Grow
    <3> QED BY <1>5, <3>1, OnlyLoops
  <2>2. system' = before'
    BY <2>1 DEF Cross, geneVars
  <2> QED BY <2>2, ExchangedSaysItNext DEF Exchanged
<1>6. CASE UNCHANGED vars
  <2>1. /\ pc' = pc /\ system' = system /\ this' = this /\ other' = other
        /\ maps' = maps /\ before' = before
    BY <1>6 DEF vars, geneVars, callVars
  <2> QED BY <1>2, <1>3, <2>1
<1> QED BY <1>2, <1>4, <1>5, <1>6

(* However far a cross gets, before it fails or succeeds and a system with *)
(* itself, it brings in no gene from elsewhere, changes no length, and     *)
(* loses none while it only swaps.                                         *)
THEOREM CrossOnlyExchanges == Spec => []CrossExchanges
<1>1. Init => CrossInv
  BY SystemInvInit, ExchangedSaysIt DEF CrossInv, Init
<1>2. CrossInv /\ [Next]_vars => CrossInv'
  BY CrossInvNext
<1>3. CrossInv => CrossExchanges
  BY DEF CrossInv
<1> QED BY <1>1, <1>2, <1>3, PTL DEF Spec

-----------------------------------------------------------------------------
(* What rewriting all genes at once makes of a string *)

(* f is what FlattenSeq unrolls of the first n of ss. *)
Unrolled(ss, n, f) == f = [k \in 1 .. n |-> IF k = 1 THEN ss[k] ELSE f[k - 1] \o ss[k]]

LEMMA FlattenUnrolls ==
  ASSUME NEW ss, Len(ss) # 0
  PROVE  FlattenSeq(ss) = (CHOOSE f : Unrolled(ss, Len(ss), f))[Len(ss)]
  BY DEF FlattenSeq, Unrolled

LEMMA FlattenNothing ==
  FlattenSeq(<<>>) = <<>>
<1>1. Len(<<>>) = 0
  OBVIOUS
<1> QED BY <1>1 DEF FlattenSeq

(* It unrolls, and in one way. *)
LEMMA UnrolledExists ==
  ASSUME NEW S, NEW ss \in Seq(Seq(S)), NEW n \in Nat, n <= Len(ss)
  PROVE  \E f \in [1 .. n -> Seq(S)] : Unrolled(ss, n, f)
<1> DEFINE T == {m \in Nat : m <= Len(ss) /\ ~ \E f \in [1 .. m -> Seq(S)] : Unrolled(ss, m, f)}
<1> SUFFICES ASSUME T # {} PROVE FALSE
  OBVIOUS
<1>1. PICK m \in T : \A j \in T : m <= j
  <2>1. T \in SUBSET Nat
    OBVIOUS
  <2> HIDE DEF T
  <2> QED BY <2>1, LeastNatural
<1>2. Len(ss) \in Nat
  BY LenProperties
<1>3. CASE m = 0
  <2> DEFINE f == [k \in 1 .. 0 |-> IF k = 1 THEN ss[k] ELSE <<>>]
  <2>1. f \in [1 .. 0 -> Seq(S)]
    OBVIOUS
  <2>2. Unrolled(ss, 0, f)
    BY DEF Unrolled
  <2> QED BY <1>1, <1>3, <2>1, <2>2
<1>4. CASE m # 0
  <2>1. m - 1 \in Nat /\ m - 1 <= Len(ss) /\ m - 1 \notin T
    <3>1. m \in Nat /\ m <= Len(ss)
      BY <1>1
    <3>2. ~(m <= m - 1)
      BY <3>1
    <3>3. m - 1 \notin T
      <4> HIDE DEF T
      <4> QED BY <1>1, <3>2
    <3> QED BY <1>2, <1>4, <3>1, <3>3
  <2>2. PICK f \in [1 .. (m - 1) -> Seq(S)] : Unrolled(ss, m - 1, f)
    BY <2>1
  <2> DEFINE g == [k \in 1 .. m |-> IF k < m THEN f[k]
                                    ELSE IF k = 1 THEN ss[k] ELSE f[k - 1] \o ss[k]]
  <2>3. \A k \in 1 .. m : ss[k] \in Seq(S)
    BY <1>1, <1>2, ElementOfSeq
  <2>4. g \in [1 .. m -> Seq(S)]
    <3>1. ASSUME NEW k \in 1 .. m PROVE g[k] \in Seq(S)
      <4>1. CASE k < m
        BY <4>1, <1>1
      <4>2. CASE k = m /\ k = 1
        BY <4>2, <2>3
      <4>3. CASE k = m /\ k # 1
        <5>1. k - 1 \in 1 .. (m - 1)
          BY <4>3, <1>1
        <5> QED BY <4>3, <5>1, <2>3, ConcatProperties
      <4> QED BY <1>1, <4>1, <4>2, <4>3
    <3> QED BY <3>1
  <2>5. \A k \in 1 .. m : g[k] = IF k = 1 THEN ss[k] ELSE g[k - 1] \o ss[k]
    <3> TAKE k \in 1 .. m
    <3>1. CASE k < m
      <4>1. k \in 1 .. (m - 1) /\ g[k] = f[k]
        BY <3>1, <1>1
      <4>2. f[k] = IF k = 1 THEN ss[k] ELSE f[k - 1] \o ss[k]
        BY <2>2, <4>1 DEF Unrolled
      <4>3. k # 1 => k - 1 \in 1 .. m /\ k - 1 < m
        BY <3>1, <1>1
      <4>4. k # 1 => g[k - 1] = f[k - 1]
        BY <4>3
      <4> QED BY <4>1, <4>2, <4>4
    <3>2. CASE k = m
      <4>1. k # 1 => k - 1 \in 1 .. m /\ k - 1 < m
        BY <3>2, <1>1
      <4>2. k # 1 => g[k - 1] = f[k - 1]
        BY <4>1
      <4>3. g[k] = IF k = 1 THEN ss[k] ELSE f[k - 1] \o ss[k]
        BY <3>2, <1>1
      <4> QED BY <4>2, <4>3
    <3> QED BY <1>1, <3>1, <3>2
  <2>6. DOMAIN g = 1 .. m
    OBVIOUS
  <2> HIDE DEF g
  <2>7. Unrolled(ss, m, g)
    BY <2>4, <2>5, <2>6 DEF Unrolled
  <2> QED BY <1>1, <2>4, <2>7
<1> QED BY <1>3, <1>4

LEMMA UnrolledAt ==
  ASSUME NEW ss, NEW n, NEW f, Unrolled(ss, n, f), NEW k \in 1 .. n
  PROVE  f[k] = IF k = 1 THEN ss[k] ELSE f[k - 1] \o ss[k]
  BY DEF Unrolled

Agree(f, g, n) == \A k \in 1 .. n : f[k] = g[k]

LEMMA UnrolledOnce ==
  ASSUME NEW ss, NEW tt, NEW m \in Nat, NEW n \in Nat, NEW f, NEW g,
         Unrolled(ss, m, f), Unrolled(tt, n, g), m <= n, Agree(ss, tt, m)
  PROVE  Agree(f, g, m)
<1> USE DEF Agree
<1> DEFINE T == {k \in 1 .. m : f[k] # g[k]}
<1> SUFFICES ASSUME T # {} PROVE FALSE
  OBVIOUS
<1>1. PICK k \in T : \A j \in T : k <= j
  <2>1. T \in SUBSET Nat
    OBVIOUS
  <2> HIDE DEF T
  <2> QED BY <2>1, LeastNatural
<1>2. k \in 1 .. m /\ k \in 1 .. n
  BY <1>1
<1>3. /\ f[k] = IF k = 1 THEN ss[k] ELSE f[k - 1] \o ss[k]
      /\ g[k] = IF k = 1 THEN tt[k] ELSE g[k - 1] \o tt[k]
  BY <1>2 DEF Unrolled
<1>4. k # 1 => k - 1 \in 1 .. m /\ k - 1 \notin T
  BY <1>1, <1>2
<1>5. k # 1 => f[k - 1] = g[k - 1]
  BY <1>4
<1> QED BY <1>1, <1>2, <1>3, <1>5

LEMMA FlattenOne ==
  ASSUME NEW S, NEW ss \in Seq(Seq(S)), NEW t \in Seq(S)
  PROVE  /\ FlattenSeq(ss) \in Seq(S)
         /\ FlattenSeq(Append(ss, t)) = FlattenSeq(ss) \o t
<1> DEFINE tt == Append(ss, t)
           n == Len(ss)
<1>1. /\ n \in Nat /\ tt \in Seq(Seq(S)) /\ Len(tt) = n + 1 /\ tt[n + 1] = t
      /\ \A k \in 1 .. n : tt[k] = ss[k]
  BY LenProperties, AppendProperties
<1> HIDE DEF tt, n
<1> DEFINE G == CHOOSE f : Unrolled(tt, n + 1, f)
<1>2. FlattenSeq(tt) = G[n + 1] /\ Unrolled(tt, n + 1, G)
  <2>1. Len(tt) # 0 /\ n + 1 \in Nat /\ n + 1 <= Len(tt)
    BY <1>1
  <2>2. \E f \in [1 .. (n + 1) -> Seq(S)] : Unrolled(tt, n + 1, f)
    BY <1>1, <2>1, UnrolledExists
  <2>3. FlattenSeq(tt) = (CHOOSE f : Unrolled(tt, Len(tt), f))[Len(tt)]
    BY <2>1, FlattenUnrolls
  <2>4. Unrolled(tt, n + 1, G)
    BY <2>2
  <2> QED BY <1>1, <2>3, <2>4
<1> HIDE DEF G
<1>3. /\ n = 0 => G[n + 1] = tt[n + 1]
      /\ n # 0 => G[n + 1] = G[n] \o tt[n + 1]
  <2>1. n + 1 \in 1 .. (n + 1)
    BY <1>1
  <2>2. PICK k \in 1 .. (n + 1) : k = n + 1
    BY <2>1
  <2>3. G[k] = IF k = 1 THEN tt[k] ELSE G[k - 1] \o tt[k]
    BY <1>2, UnrolledAt
  <2>4. (n = 0 => k = 1) /\ (n # 0 => k # 1 /\ k - 1 = n)
    <3>1. n \in Nat
      BY <1>1
    <3> QED BY <2>2, <3>1
  <2>5. (n = 0 => G[k] = tt[k]) /\ (n # 0 => G[k] = G[n] \o tt[k])
    BY <2>3, <2>4
  <2> QED BY <2>2, <2>5
<1>4. CASE n = 0
  <2>1. ss = <<>>
    BY <1>4, EmptySeq DEF n
  <2>2. FlattenSeq(ss) = <<>> /\ <<>> \in Seq(S)
    BY <2>1, FlattenNothing
  <2>3. FlattenSeq(tt) = t
    BY <1>1, <1>2, <1>3, <1>4
  <2>4. <<>> \o t = t
    BY ConcatEmptySeq
  <2> QED BY <2>2, <2>3, <2>4 DEF tt
<1>5. CASE n # 0
  <2> DEFINE F == CHOOSE f : Unrolled(ss, n, f)
  <2>1. PICK f \in [1 .. n -> Seq(S)] : Unrolled(ss, n, f)
    <3>1. n \in Nat /\ n <= Len(ss)
      BY <1>1 DEF n
    <3> QED BY <3>1, UnrolledExists
  <2>2. FlattenSeq(ss) = F[n]
    BY <1>5, FlattenUnrolls DEF n
  <2>3. Unrolled(ss, n, F)
    BY <2>1
  <2> HIDE DEF F
  <2>4. n \in 1 .. n /\ n + 1 \in Nat /\ n <= n + 1
    BY <1>1, <1>5
  <2>5. F[n] = f[n]
    <3>1. Agree(ss, ss, n)
      BY DEF Agree
    <3>2. Agree(F, f, n)
      BY <1>1, <2>1, <2>3, <3>1, UnrolledOnce
    <3> QED BY <2>4, <3>2 DEF Agree
  <2>6. F[n] = G[n]
    <3>1. Agree(ss, tt, n)
      BY <1>1 DEF Agree
    <3>2. Agree(F, G, n)
      BY <1>1, <1>2, <2>3, <2>4, <3>1, UnrolledOnce
    <3> QED BY <2>4, <3>2 DEF Agree
  <2>7. FlattenSeq(tt) = FlattenSeq(ss) \o t
    BY <1>1, <1>2, <1>3, <2>2, <2>4, <2>6
  <2>8. f[n] \in Seq(S)
    BY <2>1, <2>4
  <2> QED BY <2>2, <2>5, <2>7, <2>8 DEF tt
<1> QED BY <1>4, <1>5

(* The end of a sequence is a suffix of it. *)
LEMMA SuffixOfConcat ==
  ASSUME NEW S, NEW s \in Seq(S), NEW t \in Seq(S)
  PROVE  IsSuffix(t, s \o t)
<1>1. /\ Len(s) \in Nat /\ Len(t) \in Nat
      /\ s \o t \in Seq(S) /\ Len(s \o t) = Len(s) + Len(t)
      /\ \A k \in 1 .. Len(s) + Len(t) : (s \o t)[k] = IF k <= Len(s) THEN s[k] ELSE t[k - Len(s)]
  BY LenProperties, ConcatProperties
<1> DEFINE u == s \o t
<1> HIDE DEF u
<1>2. \A v \in Seq(S) :
         /\ Reverse(v) \in Seq(S) /\ Len(Reverse(v)) = Len(v)
         /\ \A k \in 1 .. Len(v) : Reverse(v)[k] = v[Len(v) - k + 1]
  <2> TAKE v \in Seq(S)
  <2>1. Len(v) \in Nat /\ DOMAIN v = 1 .. Len(v)
    BY LenProperties
  <2>2. \A k \in 1 .. Len(v) : Len(v) - k + 1 \in 1 .. Len(v)
    BY <2>1
  <2>3. \A k \in 1 .. Len(v) : v[Len(v) - k + 1] \in S
    BY <2>2, ElementOfSeq
  <2>4. Reverse(v) \in [1 .. Len(v) -> S]
    BY <2>3 DEF Reverse
  <2>5. Reverse(v) \in Seq(S) /\ Len(Reverse(v)) = Len(v)
    <3> DEFINE r == Reverse(v)
    <3>1. r \in [1 .. Len(v) -> S] /\ DOMAIN r = 1 .. Len(v)
      BY <2>4
    <3> HIDE DEF r
    <3>2. r \in Seq(S)
      BY <2>1, <3>1, SeqDef
    <3>3. DOMAIN r = 1 .. Len(r) /\ Len(r) \in Nat
      BY <3>2, LenProperties
    <3>4. Len(r) = Len(v)
      BY <2>1, <3>1, <3>3
    <3> QED BY <3>2, <3>4 DEF r
  <2> QED BY <2>5 DEF Reverse
<1>3. /\ Reverse(t) \in Seq(S) /\ Reverse(u) \in Seq(S)
      /\ Len(Reverse(t)) = Len(t) /\ Len(Reverse(u)) = Len(s) + Len(t)
  BY <1>1, <1>2 DEF u
<1>4. \A k \in 1 .. Len(t) : Reverse(t)[k] = Reverse(u)[k]
  <2> TAKE k \in 1 .. Len(t)
  <2>1. /\ k \in 1 .. Len(s) + Len(t) /\ Len(s) + Len(t) - k + 1 \in 1 .. Len(s) + Len(t)
        /\ ~(Len(s) + Len(t) - k + 1 <= Len(s))
        /\ Len(s) + Len(t) - k + 1 - Len(s) = Len(t) - k + 1
    BY <1>1
  <2>2. Reverse(u)[k] = u[Len(s) + Len(t) - k + 1]
    <3>1. u \in Seq(S) /\ Len(u) = Len(s) + Len(t) /\ k \in 1 .. Len(u)
      BY <1>1, <2>1 DEF u
    <3> QED BY <1>2, <3>1
  <2>3. u[Len(s) + Len(t) - k + 1] = t[Len(t) - k + 1]
    BY <1>1, <2>1 DEF u
  <2> QED BY <1>2, <2>2, <2>3
<1>5. SubSeq(Reverse(t), 1, Len(t)) = SubSeq(Reverse(u), 1, Len(t))
  <2> DEFINE p == SubSeq(Reverse(t), 1, Len(t))
             q == SubSeq(Reverse(u), 1, Len(t))
  <2>1. Len(t) \in Nat /\ Len(t) <= Len(Reverse(t)) /\ Len(t) <= Len(Reverse(u))
    BY <1>1, <1>3
  <2>2. /\ \A k \in 1 .. Len(t) : Reverse(t)[k] \in S
        /\ \A k \in 1 .. Len(t) : Reverse(u)[k] \in S
    BY <1>1, <1>3, <2>1, ElementOfSeq
  <2>3. /\ p \in Seq(S) /\ Len(p) = Len(t) /\ \A k \in 1 .. Len(t) : p[k] = Reverse(t)[k]
        /\ q \in Seq(S) /\ Len(q) = Len(t) /\ \A k \in 1 .. Len(t) : q[k] = Reverse(u)[k]
    BY <2>1, <2>2, SubSeqProperties
  <2> HIDE DEF p, q
  <2>4. p = q
    BY <1>4, <2>3, SeqEqual
  <2> QED BY <2>4 DEF p, q
<1> QED BY <1>1, <1>3, <1>5 DEF IsSuffix, IsPrefix, u

(* What FlattenSeq is made of, with the rules and strings as parameters *)
GrowthRules(rules) == DOMAIN rules \subseteq Genes /\ \A g \in DOMAIN rules : rules[g] \in Seq(Genes)
RuleOf(rules, g) == IF g \in DOMAIN rules THEN rules[g] ELSE <<g>>
RewrittenBy(rules, genes) == FlattenSeq([k \in DOMAIN genes |-> RuleOf(rules, genes[k])])
UpTo(rules, b, k) == RewrittenBy(rules, SubSeq(b, 1, k)) \o SubSeq(b, k + 1, Len(b))

(* The first k genes of b are rewritten, and so is nothing else, ...       *)
Whole(rules, max, b, now, at, k) ==
    /\ now = UpTo(rules, b, k)
    /\ at = Len(RewrittenBy(rules, SubSeq(b, 1, k))) + 1
    /\ k > 0 => Len(now) <= max

(* ... or the k-th became what there was room for.                         *)
Cut(rules, max, b, now, k) ==
    /\ k > 0 /\ Len(UpTo(rules, b, k)) > max /\ Len(now) = max
    /\ IsPrefix(RewrittenBy(rules, SubSeq(b, 1, k - 1)), now)
    /\ IsSuffix(SubSeq(b, k + 1, Len(b)), now)

(* There was room before each of them. *)
RoomUpTo(rules, max, b, k) == \A j \in 0 .. k - 1 : Len(UpTo(rules, b, j)) < max

GrownTo(rules, max, b, now, at, k) ==
    /\ RoomUpTo(rules, max, b, k)
    /\ Whole(rules, max, b, now, at, k) \/ Cut(rules, max, b, now, k)

Growing(rules, max, b, now, at) ==
    \E k \in 0 .. Len(b) : GrownTo(rules, max, b, now, at, k)

GrowAt ==
    /\ pc \in {"grow", "grown"} =>
          Growing(growthRules[this], maxSize[this], before[this], system[this], i)
    /\ pc = "grown" => ~InLoop
GrowInv == SystemInv /\ GrowAt

LEMMA RewrittenNothing ==
  ASSUME NEW rules
  PROVE  RewrittenBy(rules, <<>>) = <<>>
<1>1. [k \in DOMAIN <<>> |-> RuleOf(rules, <<>>[k])] = <<>>
  OBVIOUS
<1> QED BY <1>1, FlattenNothing DEF RewrittenBy

LEMMA RewrittenOne ==
  ASSUME NEW rules, GrowthRules(rules),
         NEW genes \in Seq(Genes), NEW g \in Genes
  PROVE  /\ RuleOf(rules, g) \in Seq(Genes)
         /\ RewrittenBy(rules, genes) \in Seq(Genes)
         /\ RewrittenBy(rules, Append(genes, g)) = RewrittenBy(rules, genes) \o RuleOf(rules, g)
<1>1. ASSUME NEW h \in Genes PROVE RuleOf(rules, h) \in Seq(Genes)
  BY DEF RuleOf, GrowthRules
<1> DEFINE more == Append(genes, g)
           ss == [k \in DOMAIN genes |-> RuleOf(rules, genes[k])]
           tt == [k \in DOMAIN more |-> RuleOf(rules, more[k])]
<1>2. /\ Len(genes) \in Nat /\ DOMAIN genes = 1 .. Len(genes)
      /\ more \in Seq(Genes) /\ Len(more) = Len(genes) + 1 /\ DOMAIN more = 1 .. Len(genes) + 1
      /\ more[Len(genes) + 1] = g /\ \A k \in 1 .. Len(genes) : more[k] = genes[k]
  BY LenProperties, AppendProperties
<1>3. ss \in Seq(Seq(Genes)) /\ Len(ss) = Len(genes)
  <2>1. \A k \in 1 .. Len(genes) : RuleOf(rules, genes[k]) \in Seq(Genes)
    BY <1>1, ElementOfSeq
  <2>2. ss \in [1 .. Len(genes) -> Seq(Genes)]
    BY <1>2, <2>1
  <2> HIDE DEF ss
  <2>3. ss \in Seq(Seq(Genes))
    BY <1>2, <2>2, SeqDef
  <2>4. DOMAIN ss = 1 .. Len(ss) /\ Len(ss) \in Nat /\ DOMAIN ss = 1 .. Len(genes)
    BY <2>2, <2>3, LenProperties
  <2>5. Len(genes) \in Nat
    BY <1>2
  <2>6. Len(ss) = Len(genes)
    BY <2>4, <2>5
  <2> QED BY <2>3, <2>6
<1>4. tt = Append(ss, RuleOf(rules, g))
  <2> DEFINE uu == Append(ss, RuleOf(rules, g))
  <2>1. RuleOf(rules, g) \in Seq(Genes)
    BY <1>1
  <2>2. /\ uu \in Seq(Seq(Genes)) /\ Len(uu) = Len(genes) + 1 /\ uu[Len(genes) + 1] = RuleOf(rules, g)
        /\ \A k \in 1 .. Len(genes) : uu[k] = ss[k]
    BY <1>2, <1>3, <2>1, AppendProperties
  <2>3. DOMAIN uu = 1 .. Len(genes) + 1
    BY <2>2, LenProperties
  <2>4. \A k \in 1 .. Len(genes) + 1 : uu[k] = tt[k]
    <3> TAKE k \in 1 .. Len(genes) + 1
    <3>1. CASE k = Len(genes) + 1
      BY <1>2, <2>2, <3>1
    <3>2. CASE k \in 1 .. Len(genes)
      BY <1>2, <2>2, <3>2
    <3> QED BY <1>2, <3>1, <3>2
  <2>5. uu \in [1 .. Len(genes) + 1 -> Seq(Genes)] /\ DOMAIN tt = 1 .. Len(genes) + 1
    BY <1>2, <2>2, LenProperties
  <2>6. tt = [k \in 1 .. Len(genes) + 1 |-> uu[k]]
    BY <1>2, <2>4
  <2> HIDE DEF uu, tt
  <2>7. tt = uu
    BY <2>5, <2>6
  <2> QED BY <2>7 DEF uu
<1> HIDE DEF ss, tt
<1>5. FlattenSeq(ss) \in Seq(Genes) /\ FlattenSeq(tt) = FlattenSeq(ss) \o RuleOf(rules, g)
  BY <1>1, <1>3, <1>4, FlattenOne
<1> QED BY <1>1, <1>5 DEF RewrittenBy, ss, tt

LEMMA RewrittenType ==
  ASSUME NEW rules, GrowthRules(rules),
         NEW genes \in Seq(Genes)
  PROVE  RewrittenBy(rules, genes) \in Seq(Genes)
<1>1. CASE genes = <<>>
  <2>1. <<>> \in Seq(Genes)
    OBVIOUS
  <2> QED BY <1>1, <2>1, RewrittenNothing
<1>2. CASE genes # <<>>
  <2>1. Len(genes) \in Nat /\ Len(genes) # 0
    BY <1>2, EmptySeq, LenProperties
  <2>2. genes[1] \in Genes
    BY <2>1, ElementOfSeq
  <2> QED BY <2>2, RewrittenOne
<1> QED BY <1>1, <1>2

(* A sequence and what it begins with, ... *)
LEMMA PrefixOfConcat ==
  ASSUME NEW S, NEW s \in Seq(S), NEW t \in Seq(S)
  PROVE  IsPrefix(s, s \o t)
<1>1. /\ Len(s) \in Nat /\ Len(t) \in Nat
      /\ s \o t \in Seq(S) /\ Len(s \o t) = Len(s) + Len(t)
      /\ \A k \in 1 .. Len(s) : (s \o t)[k] = s[k]
  BY LenProperties, ConcatProperties
<1> DEFINE u == s \o t
           p == SubSeq(s, 1, Len(s))
           q == SubSeq(u, 1, Len(s))
<1>2. u \in Seq(S) /\ Len(s) <= Len(u) /\ \A k \in 1 .. Len(s) : u[k] = s[k]
  BY <1>1
<1> HIDE DEF u
<1>3. /\ \A k \in 1 .. Len(s) : s[k] \in S
      /\ \A k \in 1 .. Len(s) : u[k] \in S
  BY <1>1, <1>2, ElementOfSeq
<1>4. /\ p \in Seq(S) /\ Len(p) = Len(s) /\ \A k \in 1 .. Len(s) : p[k] = s[k]
      /\ q \in Seq(S) /\ Len(q) = Len(s) /\ \A k \in 1 .. Len(s) : q[k] = u[k]
  BY <1>1, <1>3, SubSeqProperties
<1> HIDE DEF p, q
<1>5. p = q
  BY <1>2, <1>4, SeqEqual
<1> QED BY <1>2, <1>5 DEF IsPrefix, p, q, u

(* ... and where its parts are. *)
LEMMA PartsOfConcat ==
  ASSUME NEW S, NEW r \in Seq(S), NEW c \in S, NEW t \in Seq(S), NEW u, u = r \o (<<c>> \o t)
  PROVE  /\ u \in Seq(S) /\ Len(u) = Len(r) + 1 + Len(t)
         /\ u[Len(r) + 1] = c
         /\ SubSeq(u, 1, Len(r)) = r
         /\ SubSeq(u, Len(r) + 2, Len(u)) = t
<1>1. Len(r) \in Nat /\ Len(t) \in Nat /\ <<c>> \in Seq(S) /\ Len(<<c>>) = 1 /\ <<c>>[1] = c
  BY LenProperties
<1> DEFINE v == <<c>> \o t
<1>2. /\ v \in Seq(S) /\ Len(v) = 1 + Len(t) /\ v[1] = c
      /\ \A k \in 1 .. Len(t) : v[1 + k] = t[k]
  <2>1. /\ v \in Seq(S) /\ Len(v) = 1 + Len(t)
        /\ \A k \in 1 .. 1 + Len(t) : v[k] = IF k <= 1 THEN <<c>>[k] ELSE t[k - 1]
    BY <1>1, ConcatProperties
  <2> HIDE DEF v
  <2>2. 1 \in 1 .. 1 + Len(t)
    BY <1>1
  <2>3. \A k \in 1 .. Len(t) : 1 + k \in 1 .. 1 + Len(t) /\ ~(1 + k <= 1) /\ 1 + k - 1 = k
    BY <1>1
  <2> QED BY <1>1, <2>1, <2>2, <2>3
<1> HIDE DEF v
<1>3. /\ u \in Seq(S) /\ Len(u) = Len(r) + 1 + Len(t)
      /\ \A k \in 1 .. Len(r) + 1 + Len(t) : u[k] = IF k <= Len(r) THEN r[k] ELSE v[k - Len(r)]
  <2>1. u = r \o v
    BY DEF v
  <2>2. /\ r \o v \in Seq(S) /\ Len(r \o v) = Len(r) + Len(v)
        /\ \A k \in 1 .. Len(r) + Len(v) : (r \o v)[k] = IF k <= Len(r) THEN r[k] ELSE v[k - Len(r)]
    <3>1. v \in Seq(S)
      BY <1>2
    <3> QED BY <3>1, ConcatProperties
  <2>3. Len(r) + Len(v) = Len(r) + 1 + Len(t)
    BY <1>1, <1>2
  <2> QED BY <2>1, <2>2, <2>3
<1>4. u[Len(r) + 1] = c
  <2>1. Len(r) + 1 \in 1 .. Len(r) + 1 + Len(t) /\ ~(Len(r) + 1 <= Len(r)) /\ Len(r) + 1 - Len(r) = 1
    BY <1>1
  <2> QED BY <1>2, <1>3, <2>1
<1>5. SubSeq(u, 1, Len(r)) = r
  <2> DEFINE q == SubSeq(u, 1, Len(r))
  <2>1. \A k \in 1 .. Len(r) : k \in 1 .. Len(r) + 1 + Len(t) /\ k <= Len(r)
    BY <1>1
  <2>2. \A k \in 1 .. Len(r) : u[k] = r[k] /\ u[k] \in S
    BY <1>3, <2>1, ElementOfSeq
  <2>3. q \in Seq(S) /\ Len(q) = Len(r) /\ \A k \in 1 .. Len(r) : q[k] = r[k]
    BY <1>1, <2>2, SubSeqProperties
  <2> HIDE DEF q
  <2>4. q = r
    BY <2>3, SeqEqual
  <2> QED BY <2>4 DEF q
<1>6. SubSeq(u, Len(r) + 2, Len(u)) = t
  <2> DEFINE q == SubSeq(u, Len(r) + 2, Len(u))
  <2>1. \A k \in 1 .. Len(t) :
           /\ Len(r) + 2 + k - 1 \in 1 .. Len(r) + 1 + Len(t)
           /\ ~(Len(r) + 2 + k - 1 <= Len(r)) /\ Len(r) + 2 + k - 1 - Len(r) = 1 + k
    BY <1>1
  <2>2. \A k \in 1 .. Len(t) : u[Len(r) + 2 + k - 1] = t[k]
    BY <1>2, <1>3, <2>1
  <2>3. /\ Len(r) + 2 \in Nat /\ Len(u) \in Nat /\ Len(r) + 2 >= 1
        /\ (IF Len(r) + 2 <= Len(u) THEN Len(u) - (Len(r) + 2) + 1 ELSE 0) = Len(t)
        /\ 1 .. (1 + Len(u) - (Len(r) + 2)) = 1 .. Len(t)
    BY <1>1, <1>3
  <2>4. \A k \in (Len(r) + 2) .. Len(u) : u[k] \in S
    <3> TAKE k \in (Len(r) + 2) .. Len(u)
    <3>1. k \in 1 .. Len(u)
      BY <1>1, <1>3
    <3> QED BY <1>3, <3>1, ElementOfSeq
  <2>5. q \in Seq(S) /\ Len(q) = Len(t)
    BY <1>3, <2>3, Piece
  <2>6. \A k \in 1 .. (1 + Len(u) - (Len(r) + 2)) : q[k] = u[Len(r) + 2 + k - 1]
    BY <2>3, <2>4, SubSeqProperties
  <2>7. \A k \in 1 .. Len(t) : q[k] = t[k]
    BY <2>2, <2>3, <2>6
  <2> HIDE DEF q
  <2>8. q = t
    BY <2>5, <2>7, SeqEqual
  <2> QED BY <2>8 DEF q
<1> QED BY <1>3, <1>4, <1>5, <1>6

(* One gene more is rewritten. *)
LEMMA OneMore ==
  ASSUME NEW rules, GrowthRules(rules),
         NEW b \in Seq(Genes), NEW k \in Nat, k < Len(b)
  PROVE  /\ b[k + 1] \in Genes /\ RuleOf(rules, b[k + 1]) \in Seq(Genes)
         /\ RewrittenBy(rules, SubSeq(b, 1, k)) \in Seq(Genes)
         /\ RewrittenBy(rules, SubSeq(b, 1, k + 1)) =
               RewrittenBy(rules, SubSeq(b, 1, k)) \o RuleOf(rules, b[k + 1])
         /\ SubSeq(b, k + 2, Len(b)) \in Seq(Genes)
         /\ SubSeq(b, k + 1, Len(b)) = <<b[k + 1]>> \o SubSeq(b, k + 2, Len(b))
<1>1. /\ Len(b) \in Nat /\ k + 1 \in 1 .. Len(b) /\ 1 \in 1 .. Len(b) /\ k + 1 \in 1 .. Len(b)
      /\ Len(b) \in (k + 1) .. Len(b) /\ k + 1 - 1 = k /\ k + 1 + 1 = k + 2 /\ k <= Len(b)
      /\ k + 2 >= 1 /\ k + 2 \in Nat
  BY LenProperties
<1>2. b[k + 1] \in Genes
  BY <1>1, ElementOfSeq
<1>3. SubSeq(b, 1, k) \in Seq(Genes) /\ SubSeq(b, k + 2, Len(b)) \in Seq(Genes)
  BY <1>1, Piece
<1>4. SubSeq(b, 1, k + 1) = Append(SubSeq(b, 1, k), b[k + 1])
  <2>1. SubSeq(b, 1, k + 1) = SubSeq(b, 1, k + 1 - 1) \o <<b[k + 1]>>
    BY <1>1, SubSeqRecursiveSecond
  <2> QED BY <1>1, <1>2, <1>3, <2>1, AppendIsConcat
<1>5. SubSeq(b, k + 1, Len(b)) = <<b[k + 1]>> \o SubSeq(b, k + 2, Len(b))
  <2>1. SubSeq(b, k + 1, Len(b)) = <<b[k + 1]>> \o SubSeq(b, k + 1 + 1, Len(b))
    BY <1>1, SubSeqRecursiveFirst
  <2> QED BY <1>1, <2>1
<1>6. /\ RuleOf(rules, b[k + 1]) \in Seq(Genes)
      /\ RewrittenBy(rules, SubSeq(b, 1, k)) \in Seq(Genes)
      /\ RewrittenBy(rules, SubSeq(b, 1, k + 1)) =
            RewrittenBy(rules, SubSeq(b, 1, k)) \o RuleOf(rules, b[k + 1])
  BY <1>2, <1>3, <1>4, RewrittenOne
<1> QED BY <1>2, <1>3, <1>5, <1>6

(* The gene c between r and t becomes what the rule has for it, or what    *)
(* there is room for.                                                      *)
Became(r, t, end, max, n, tokens) ==
    \/ n = Len(end) - 1 /\ tokens = end /\ Len((r \o end) \o t) <= max
    \/ /\ Len((r \o end) \o t) > max /\ Len((r \o tokens) \o t) = max
       /\ IsPrefix(r, (r \o tokens) \o t) /\ IsSuffix(t, (r \o tokens) \o t)

LEMMA ReplacedByAll ==
  ASSUME NEW end \in Seq(Genes), NEW room \in Nat, end # <<>>,
         Inserted(end, room) = Len(end) - 1
  PROVE  Replacement(end, room) = end
<1> DEFINE m == Len(end)
<1>1. m \in Nat /\ m >= 1
  BY EmptySeq, LenProperties
<1>2. Replacement(end, room) = Append(SubSeq(end, m - (m - 1), m - 1), end[m - 1 + 1])
  BY DEF Replacement
<1>3. m - (m - 1) = 1 /\ m - 1 + 1 = m /\ 1 \in 1 .. m /\ m \in 1 .. m /\ m - 1 \in Nat /\ m - 1 <= m
  BY <1>1
<1>4. SubSeq(end, 1, m) = SubSeq(end, 1, m - 1) \o <<end[m]>>
  BY <1>3, SubSeqRecursiveSecond
<1>5. SubSeq(end, 1, m) = end
  BY SubSeqFull
<1>6. SubSeq(end, 1, m - 1) \in Seq(Genes) /\ end[m] \in Genes
  BY <1>3, Piece, ElementOfSeq
<1> HIDE DEF m
<1>7. Append(SubSeq(end, 1, m - 1), end[m]) = SubSeq(end, 1, m - 1) \o <<end[m]>>
  BY <1>6, AppendIsConcat
<1> QED BY <1>2, <1>3, <1>4, <1>5, <1>7

LEMMA ThreeParts ==
  ASSUME NEW S, NEW r \in Seq(S), NEW s \in Seq(S), NEW t \in Seq(S)
  PROVE  /\ Len(r) \in Nat /\ Len(s) \in Nat /\ Len(t) \in Nat
         /\ (r \o s) \o t \in Seq(S) /\ Len((r \o s) \o t) = Len(r) + Len(s) + Len(t)
         /\ IsPrefix(r, (r \o s) \o t) /\ IsSuffix(t, (r \o s) \o t)
<1>1. Len(r) \in Nat /\ Len(s) \in Nat /\ Len(t) \in Nat
  BY LenProperties
<1>2. r \o s \in Seq(S) /\ Len(r \o s) = Len(r) + Len(s) /\ s \o t \in Seq(S)
  BY ConcatProperties
<1>3. (r \o s) \o t \in Seq(S) /\ Len((r \o s) \o t) = Len(r \o s) + Len(t)
  BY <1>2, ConcatProperties
<1>4. IsSuffix(t, (r \o s) \o t)
  BY <1>2, SuffixOfConcat
<1>5. IsPrefix(r, r \o (s \o t))
  BY <1>2, PrefixOfConcat
<1>6. (r \o s) \o t = r \o (s \o t)
  BY ConcatAssociative
<1>7. IsPrefix(r, (r \o s) \o t)
  BY <1>5, <1>6, Zenon
<1> QED BY <1>1, <1>2, <1>3, <1>4, <1>7

LEMMA RoomForSome ==
  ASSUME NEW r \in Nat, NEW t \in Nat, NEW m \in Nat, NEW max \in Nat, NEW n \in Nat,
         n <= max - (r + 1 + t), n \in {m - 1, max - (r + 1 + t)}, n < m
  PROVE  \/ n = m - 1 /\ r + m + t <= max
         \/ r + m + t > max /\ r + (n + 1) + t = max
  OBVIOUS

LEMMA GeneBecomes ==
  ASSUME NEW r \in Seq(Genes), NEW t \in Seq(Genes), NEW end \in Seq(Genes), end # <<>>,
         NEW max \in Nat, Len(r) + 1 + Len(t) < max
  PROVE  Became(r, t, end, max, Inserted(end, max - (Len(r) + 1 + Len(t))),
                Replacement(end, max - (Len(r) + 1 + Len(t))))
<1>1. Len(r) \in Nat /\ Len(t) \in Nat /\ Len(end) \in Nat
  BY LenProperties
<1>2. PICK room \in Nat : room = max - (Len(r) + 1 + Len(t))
  <2>1. max - (Len(r) + 1 + Len(t)) \in Nat
    BY <1>1
  <2> QED BY <2>1
<1>3. PICK n \in Nat : n = Inserted(end, room)
  BY ReplacementType
<1>4. PICK tokens \in Seq(Genes) : tokens = Replacement(end, room)
  BY ReplacementType
<1>5. n <= room /\ n \in {Len(end) - 1, room} /\ n < Len(end) /\ Len(tokens) = n + 1
  BY <1>3, <1>4, ReplacementType
<1>6. \/ n = Len(end) - 1 /\ Len(r) + Len(end) + Len(t) <= max
      \/ Len(r) + Len(end) + Len(t) > max /\ Len(r) + (n + 1) + Len(t) = max
  BY <1>1, <1>2, <1>5, RoomForSome
<1>7. n = Len(end) - 1 => tokens = end
  BY <1>3, <1>4, ReplacedByAll
<1>8. /\ Len((r \o end) \o t) = Len(r) + Len(end) + Len(t)
      /\ Len((r \o tokens) \o t) = Len(r) + Len(tokens) + Len(t)
      /\ IsPrefix(r, (r \o tokens) \o t) /\ IsSuffix(t, (r \o tokens) \o t)
  BY ThreeParts
<1>9. Became(r, t, end, max, n, tokens)
  BY <1>5, <1>6, <1>7, <1>8 DEF Became
<1> QED BY <1>2, <1>3, <1>4, <1>9

(* What one iteration of grow makes of a string that is rewritten up to k *)
LEMMA GrowOne ==
  ASSUME NEW rules, GrowthRules(rules), NEW max \in Nat, NEW b \in Seq(Genes),
         NEW k \in 0 .. Len(b), NEW now \in Seq(Genes), NEW at,
         RoomUpTo(rules, max, b, k), Whole(rules, max, b, now, at, k),
         at <= Len(now), Len(now) < max,
         RuleOf(rules, now[at]) # <<>>
  PROVE  Growing(rules, max, b,
            SubSeq(now, 1, at - 1) \o Replacement(RuleOf(rules, now[at]), max - Len(now))
              \o SubSeq(now, at + 1, Len(now)),
            at + 1 + Inserted(RuleOf(rules, now[at]), max - Len(now)))
<1>1. Len(b) \in Nat /\ k \in Nat /\ Len(now) \in Nat
  BY LenProperties
<1>2. PICK r : r = RewrittenBy(rules, SubSeq(b, 1, k))
  OBVIOUS
<1>3. r \in Seq(Genes) /\ Len(r) \in Nat
  <2>1. SubSeq(b, 1, k) \in Seq(Genes)
    BY <1>1, Piece
  <2>2. r \in Seq(Genes)
    BY <1>2, <2>1, RewrittenType
  <2> QED BY <2>2, LenProperties
<1>4. now = r \o SubSeq(b, k + 1, Len(b)) /\ at = Len(r) + 1 /\ UpTo(rules, b, k) = now
  BY <1>2 DEF Whole, UpTo
<1>5. k < Len(b)
  <2> SUFFICES ASSUME k = Len(b) PROVE FALSE
    BY <1>1
  <2>1. SubSeq(b, k + 1, Len(b)) = <<>>
    BY <1>1, SubSeqEmpty
  <2>2. now = r
    BY <1>3, <1>4, <2>1, ConcatEmptySeq
  <2> QED BY <1>3, <1>4, <2>2
<1>6. PICK c \in Genes, t \in Seq(Genes), end \in Seq(Genes) :
         /\ end = RuleOf(rules, c)
         /\ RewrittenBy(rules, SubSeq(b, 1, k + 1)) = r \o end
         /\ SubSeq(b, k + 1, Len(b)) = <<c>> \o t
         /\ SubSeq(b, k + 2, Len(b)) = t
  <2>1. k \in Nat
    BY <1>1
  <2> QED BY <1>2, <1>5, <2>1, OneMore
<1>7. /\ Len(now) = Len(r) + 1 + Len(t) /\ now[Len(r) + 1] = c
      /\ SubSeq(now, 1, Len(r)) = r /\ SubSeq(now, Len(r) + 2, Len(now)) = t
  <2>1. now = r \o (<<c>> \o t)
    BY <1>4, <1>6
  <2> QED BY <1>3, <2>1, PartsOfConcat
<1>8. PICK n, tokens : /\ n = Inserted(end, max - (Len(r) + 1 + Len(t)))
                       /\ tokens = Replacement(end, max - (Len(r) + 1 + Len(t)))
  OBVIOUS
<1>9. RuleOf(rules, now[at]) = end
  BY <1>4, <1>6, <1>7
<1>10. Became(r, t, end, max, n, tokens)
  <2>1. end # <<>>
    BY <1>9
  <2>2. Len(r) + 1 + Len(t) < max
    BY <1>7
  <2> QED BY <1>3, <1>8, <2>1, <2>2, GeneBecomes
<1>11. UpTo(rules, b, k + 1) = (r \o end) \o t
  <2>1. k + 1 + 1 = k + 2
    BY <1>1
  <2> QED BY <1>6, <2>1 DEF UpTo
<1>12. k + 1 \in 0 .. Len(b) /\ RoomUpTo(rules, max, b, k + 1)
  <2>1. \A j \in 0 .. (k + 1) - 1 : j = k \/ j \in 0 .. k - 1
    BY <1>1
  <2>2. Len(UpTo(rules, b, k)) < max
    BY <1>4
  <2>3. k + 1 \in 0 .. Len(b)
    BY <1>1, <1>5
  <2> QED BY <2>1, <2>2, <2>3 DEF RoomUpTo
<1> DEFINE grown == (r \o tokens) \o t
<1>13. ASSUME n = Len(end) - 1, tokens = end, Len((r \o end) \o t) <= max
       PROVE  GrownTo(rules, max, b, grown, at + 1 + n, k + 1)
  <2>1. Len(r \o end) = Len(r) + Len(end) /\ Len(end) \in Nat
    BY <1>3, ConcatProperties, LenProperties
  <2>2. at + 1 + n = Len(r \o end) + 1
    <3>1. at = Len(r) + 1 /\ Len(r) \in Nat
      BY <1>3, <1>4
    <3>2. n = Len(end) - 1
      BY <1>13
    <3> QED BY <2>1, <3>1, <3>2
  <2>3. grown = UpTo(rules, b, k + 1) /\ Len(grown) <= max
    BY <1>11, <1>13
  <2>4. at + 1 + n = Len(RewrittenBy(rules, SubSeq(b, 1, k + 1))) + 1
    BY <1>6, <2>2
  <2>5. Whole(rules, max, b, grown, at + 1 + n, k + 1)
    BY <2>3, <2>4 DEF Whole
  <2> QED BY <1>12, <2>5 DEF GrownTo
<1>14. ASSUME Len((r \o end) \o t) > max, Len((r \o tokens) \o t) = max,
              IsPrefix(r, (r \o tokens) \o t), IsSuffix(t, (r \o tokens) \o t)
       PROVE  GrownTo(rules, max, b, grown, at + 1 + n, k + 1)
  <2>1. k + 1 > 0 /\ k + 1 - 1 = k /\ k + 1 + 1 = k + 2
    BY <1>1
  <2>2. IsPrefix(RewrittenBy(rules, SubSeq(b, 1, k + 1 - 1)), grown)
    BY <1>2, <1>14, <2>1, Zenon
  <2>3. IsSuffix(SubSeq(b, k + 1 + 1, Len(b)), grown)
    BY <1>6, <1>14, <2>1, Zenon
  <2>4. Len(UpTo(rules, b, k + 1)) > max /\ Len(grown) = max
    BY <1>11, <1>14
  <2>5. Cut(rules, max, b, grown, k + 1)
    BY <2>1, <2>2, <2>3, <2>4 DEF Cut
  <2> QED BY <1>12, <2>5 DEF GrownTo
<1>15. GrownTo(rules, max, b, grown, at + 1 + n, k + 1)
  BY <1>10, <1>13, <1>14 DEF Became
<1>16. Growing(rules, max, b, grown, at + 1 + n)
  BY <1>12, <1>15 DEF Growing
<1>17. /\ SubSeq(now, 1, at - 1) = r /\ SubSeq(now, at + 1, Len(now)) = t
       /\ Replacement(RuleOf(rules, now[at]), max - Len(now)) = tokens
       /\ Inserted(RuleOf(rules, now[at]), max - Len(now)) = n
  <2>1. at - 1 = Len(r) /\ at + 1 = Len(r) + 2
    BY <1>3, <1>4
  <2> QED BY <1>7, <1>8, <1>9, <2>1
<1> QED BY <1>16, <1>17, Zenon

-----------------------------------------------------------------------------
(* However far a growth gets *)

LEMMA GrowAtSaysIt ==
  GrowAt <=>
    /\ pc \in {"grow", "grown"} =>
          Growing(growthRules[this], maxSize[this], before[this], system[this], i)
    /\ pc = "grown" => ~InLoop
<1> QED BY Zenon DEF GrowAt

LEMMA GrowAtSaysItNext ==
  GrowAt' <=>
    /\ pc' \in {"grow", "grown"} =>
          Growing(growthRules'[this'], maxSize'[this'], before'[this'], system'[this'], i')
    /\ pc' = "grown" => ~InLoop'
<1> QED BY Zenon DEF GrowAt, Growing, GrownTo, RoomUpTo, Whole, Cut, UpTo, RewrittenBy, RuleOf,
                     FlattenSeq, IsPrefix, IsSuffix, Reverse

(* Nothing is rewritten at first. *)
LEMMA GrowthBegins ==
  ASSUME NEW rules, NEW max, NEW b \in Seq(Genes)
  PROVE  Growing(rules, max, b, b, 1)
<1>1. Len(b) \in Nat
  BY LenProperties
<1>2. SubSeq(b, 1, 0) = <<>> /\ SubSeq(b, 0 + 1, Len(b)) = b
  <2>1. SubSeq(b, 1, Len(b)) = b
    BY SubSeqFull
  <2> QED BY <2>1, SubSeqEmpty
<1>3. RewrittenBy(rules, SubSeq(b, 1, 0)) = <<>>
  BY <1>2, RewrittenNothing
<1>4. UpTo(rules, b, 0) = b
  BY <1>2, <1>3, ConcatEmptySeq DEF UpTo
<1>5. Whole(rules, max, b, b, 1, 0)
  <2>1. Len(<<>>) + 1 = 1
    OBVIOUS
  <2> QED BY <1>3, <1>4, <2>1 DEF Whole
<1>6. RoomUpTo(rules, max, b, 0)
  BY DEF RoomUpTo
<1>7. 0 \in 0 .. Len(b)
  BY <1>1
<1> QED BY <1>5, <1>6, <1>7 DEF Growing, GrownTo

LEMMA GrowGrows ==
  ASSUME NEW s \in Systems, GrowInv, Grow(s)
  PROVE  GrowAt'
<1>1. /\ pc' = "grow" /\ i' = 1 /\ before'[this'] = system[s] /\ system'[this'] = system[s]
      /\ system[s] \in Seq(Genes)
  BY DEF Grow, GrowInv, SystemInv, TypeOK, Strings, geneVars
<1>2. Growing(growthRules'[this'], maxSize'[this'], system[s], system[s], 1)
  BY <1>1, GrowthBegins
<1> QED BY <1>1, <1>2, GrowAtSaysItNext

LEMMA GrowGeneGrows ==
  ASSUME GrowInv, GrowGene
  PROVE  GrowAt'
<1> DEFINE rules == growthRules[this]
           max == maxSize[this]
           b == before[this]
           now == system[this]
<1>1. /\ pc = "grow" /\ pc' = "grow" /\ InLoop /\ this' = this /\ this \in Systems
      /\ growthRules' = growthRules /\ maxSize' = maxSize /\ before' = before
      /\ system' = [system EXCEPT ![this] =
                       SubSeq(now, 1, i - 1) \o Replacement(End, Room) \o SubSeq(now, i + 1, Len(now))]
      /\ i' = i + (1 + Inserted(End, Room))
  BY DEF GrowGene, GrowBy, GrowInv, SystemInv, TypeOK, limitVars
<1>2. /\ GrowthRules(rules) /\ max \in Nat /\ b \in Seq(Genes) /\ now \in Seq(Genes)
      /\ i \in 1 .. Len(now) /\ Len(now) < max /\ Len(now) \in Nat
  <2>1. TypeOK
    BY DEF GrowInv, SystemInv
  <2>2. b \in Seq(Genes) /\ now \in Seq(Genes) /\ max \in Nat /\ GrowthRules(rules)
    BY <1>1, <2>1 DEF TypeOK, Strings, Uints, GrowthRules
  <2>3. Len(now) \in Nat
    BY <2>2, LenProperties
  <2>4. i \in 1 .. Len(now) /\ Len(now) < max
    BY <1>1, <2>1, <2>3 DEF TypeOK, InLoop
  <2> QED BY <2>2, <2>3, <2>4
<1>3. End = RuleOf(rules, now[i]) /\ Room = max - Len(now) /\ End # <<>> /\ Room \in Nat
  <2>1. End = RuleOf(rules, now[i])
    BY DEF End, HasRule, Production, RuleOf
  <2>2. End # <<>> /\ Room \in Nat
    BY GrowGeneChanges DEF GrowInv, SystemInv
  <2> QED BY <2>1, <2>2 DEF Room
<1>4. PICK k \in 0 .. Len(b) : GrownTo(rules, max, b, now, i, k)
  BY <1>1 DEF GrowInv, GrowAt, Growing
<1>5. RoomUpTo(rules, max, b, k) /\ Whole(rules, max, b, now, i, k)
  <2>1. ~Cut(rules, max, b, now, k)
    BY <1>2 DEF Cut
  <2> QED BY <1>4, <2>1 DEF GrownTo
<1> HIDE DEF rules, max, b, now
<1>6. PICK n \in Nat : n = Inserted(End, Room)
  <2>1. Inserted(End, Room) \in Nat
    <3>1. End \in Seq(Genes)
      BY GrowGeneChanges DEF GrowInv, SystemInv
    <3> QED BY <1>3, <3>1, ReplacementType
  <2> QED BY <2>1
<1>7. PICK tokens : tokens = Replacement(End, Room)
  OBVIOUS
<1>8. Growing(rules, max, b, SubSeq(now, 1, i - 1) \o tokens \o SubSeq(now, i + 1, Len(now)),
              i + 1 + n)
  <2>1. i <= Len(now)
    BY <1>2
  <2>2. RuleOf(rules, now[i]) # <<>>
    BY <1>3
  <2>3. Growing(rules, max, b,
            SubSeq(now, 1, i - 1) \o Replacement(RuleOf(rules, now[i]), max - Len(now))
              \o SubSeq(now, i + 1, Len(now)),
            i + 1 + Inserted(RuleOf(rules, now[i]), max - Len(now)))
    BY <1>2, <1>5, <2>1, <2>2, GrowOne
  <2>4. RuleOf(rules, now[i]) = End /\ max - Len(now) = Room
    BY <1>3
  <2> QED BY <1>6, <1>7, <2>3, <2>4, Zenon
<1>9. i + (1 + n) = i + 1 + n
  BY <1>2
<1>10. /\ growthRules'[this'] = rules /\ maxSize'[this'] = max /\ before'[this'] = b
       /\ system'[this'] = SubSeq(now, 1, i - 1) \o tokens \o SubSeq(now, i + 1, Len(now))
       /\ i' = i + 1 + n
  <2>1. system \in [Systems -> Strings]
    BY DEF GrowInv, SystemInv, TypeOK
  <2> QED BY <1>1, <1>6, <1>7, <1>9, <2>1 DEF rules, max, b, now
<1>11. Growing(growthRules'[this'], maxSize'[this'], before'[this'], system'[this'], i')
  BY <1>8, <1>10, Zenon
<1>12. pc' # "grown"
  BY <1>1
<1> QED BY <1>11, <1>12, GrowAtSaysItNext

LEMMA GrowInvNext ==
  ASSUME GrowInv, [Next]_vars
  PROVE  GrowInv'
<1> SUFFICES GrowAt'
  BY SystemInvNext DEF GrowInv
<1>1. CASE pc' \notin {"grow", "grown"}
  BY <1>1, GrowAtSaysItNext
<1>2. ASSUME pc \in {"grow", "grown"}, UNCHANGED <<growthRules, maxSize, before, system, this, i>>,
             pc' = "grown" => ~InLoop
      PROVE  GrowAt'
  <2>1. Growing(growthRules'[this'], maxSize'[this'], before'[this'], system'[this'], i')
    BY <1>2, GrowAtSaysIt DEF GrowInv
  <2>2. InLoop' <=> InLoop
    BY <1>2 DEF InLoop
  <2> QED BY <1>2, <2>1, <2>2, GrowAtSaysItNext
<1>3. CASE pc' \in {"grow", "grown"} /\ Next /\ pc # "idle"
  <2>1. Continue
    BY <1>3, OnlyContinue
  <2>2. CASE GrowGene
    BY <2>2, GrowGeneGrows
  <2>3. CASE GrowReturn
    <3>1. /\ pc = "grow" /\ ~InLoop
          /\ UNCHANGED <<growthRules, maxSize, before, system, this, i>>
      BY <2>3 DEF GrowReturn, geneVars, limitVars
    <3> QED BY <1>2, <3>1
  <2>4. ~GrowEmptyProduction /\ ~CrossVectors /\ ~CrossMap /\ ~CrossNext /\ ~Return
    BY <1>3 DEF GrowEmptyProduction, CrossVectors, CrossMap, CrossNext, Return
  <2> QED BY <2>1, <2>2, <2>3, <2>4 DEF Continue
<1>4. CASE pc' \in {"grow", "grown"} /\ Next /\ pc = "idle"
  <2>1. \A s \in Systems, t \in Systems, m \in CrossMaps : ~Cross(s, t, m)
    BY <1>4 DEF Cross
  <2>2. PICK s \in Systems : Grow(s)
    BY <1>4, <2>1, OnlyLoops
  <2> QED BY <2>2, GrowGrows
<1>5. CASE UNCHANGED vars
  <2>1. UNCHANGED <<growthRules, maxSize, before, system, this, i>> /\ pc' = pc
    BY <1>5 DEF vars, geneVars, limitVars, callVars
  <2>2. pc = "grown" => ~InLoop
    BY GrowAtSaysIt DEF GrowInv
  <2> QED BY <1>1, <1>2, <2>1, <2>2
<1> QED BY <1>1, <1>3, <1>4, <1>5

(* The growth ends where it was to end. *)
LEMMA GrowthEnds ==
  ASSUME NEW rules, GrowthRules(rules), NEW max \in Nat, NEW b \in Seq(Genes),
         NEW now \in Seq(Genes), NEW at \in Nat, NEW k \in 0 .. Len(b),
         GrownTo(rules, max, b, now, at, k),
         ~(at <= Len(now) /\ at - 1 < max /\ Len(now) < max)
  PROVE  \A m \in 0 .. Len(b) : RoomUpTo(rules, max, b, m) => m <= k
<1>1. Len(b) \in Nat /\ k \in Nat /\ Len(now) \in Nat
  BY LenProperties
<1> SUFFICES ASSUME NEW m \in 0 .. Len(b), RoomUpTo(rules, max, b, m), m > k
             PROVE  FALSE
  BY <1>1
<1>2. Len(UpTo(rules, b, k)) < max
  <2>1. k \in 0 .. m - 1
    BY <1>1
  <2> QED BY <2>1 DEF RoomUpTo
<1>3. Whole(rules, max, b, now, at, k)
  <2>1. Len(UpTo(rules, b, k)) \in Nat
    <3>1. SubSeq(b, 1, k) \in Seq(Genes) /\ SubSeq(b, k + 1, Len(b)) \in Seq(Genes)
      BY <1>1, Piece
    <3>2. RewrittenBy(rules, SubSeq(b, 1, k)) \in Seq(Genes)
      BY <3>1, RewrittenType
    <3>3. UpTo(rules, b, k) \in Seq(Genes)
      BY <3>1, <3>2, ConcatProperties DEF UpTo
    <3> QED BY <3>3, LenProperties
  <2>2. ~(Len(UpTo(rules, b, k)) > max)
    BY <1>2, <2>1
  <2> QED BY <2>2 DEF GrownTo, Cut
<1>4. PICK r : r = RewrittenBy(rules, SubSeq(b, 1, k))
  OBVIOUS
<1>5. k < Len(b)
  BY <1>1
<1>6. PICK t \in Seq(Genes), c \in Genes : SubSeq(b, k + 1, Len(b)) = <<c>> \o t
  BY <1>1, <1>5, OneMore
<1>7. r \in Seq(Genes)
  BY <1>1, <1>4, <1>5, OneMore
<1>8. now = r \o (<<c>> \o t) /\ at = Len(r) + 1 /\ Len(now) < max
  <2>1. now = UpTo(rules, b, k) /\ at = Len(r) + 1
    BY <1>3, <1>4 DEF Whole
  <2>2. now = r \o (<<c>> \o t)
    BY <1>4, <1>6, <2>1 DEF UpTo
  <2> QED BY <1>2, <2>1, <2>2
<1>9. Len(now) = Len(r) + 1 + Len(t)
  BY <1>6, <1>7, <1>8, PartsOfConcat
<1>10. Len(r) \in Nat /\ Len(t) \in Nat
  BY <1>6, <1>7, LenProperties
<1>11. at <= Len(now) /\ at - 1 < max
  BY <1>8, <1>9, <1>10
<1> QED BY <1>8, <1>11

LEMMA GreatestIsMax ==
  ASSUME NEW T \in SUBSET Nat, NEW k \in T, \A m \in T : m <= k
  PROVE  Max(T) = k
<1>1. \A m \in T : k >= m
  OBVIOUS
<1>2. Max(T) \in T /\ \A m \in T : Max(T) >= m
  BY <1>1 DEF Max
<1>3. Max(T) \in Nat /\ k \in Nat
  BY <1>2
<1> QED BY <1>2, <1>3

LEMMA GrownByTheRules ==
  ASSUME GrowInv
  PROVE  GrowsByTheRules
<1>1. TypeOK
  BY DEF GrowInv, SystemInv
<1> DEFINE rules == growthRules[this]
           max == maxSize[this]
           b == before[this]
           now == system[this]
<1> SUFFICES ASSUME pc = "grown"
             PROVE  IF Reached = 0 \/ Len(RewrittenUpTo(Reached)) <= max
                    THEN now = RewrittenUpTo(Reached)
                    ELSE /\ Len(now) = max
                         /\ IsPrefix(Rewritten(SubSeq(b, 1, Reached - 1)), now)
                         /\ IsSuffix(SubSeq(b, Reached + 1, Len(b)), now)
  BY <1>1 DEF GrowsByTheRules
<1>2. PICK k \in 0 .. Len(b) : GrownTo(rules, max, b, now, i, k)
  BY DEF GrowInv, GrowAt, Growing
<1>3. ~(i <= Len(now) /\ i - 1 < max /\ Len(now) < max)
  BY DEF GrowInv, GrowAt, InLoop
<1>4. /\ GrowthRules(rules) /\ max \in Nat /\ b \in Seq(Genes) /\ now \in Seq(Genes)
      /\ i \in Nat /\ Len(b) \in Nat
  <2>1. /\ GrowthRules(rules) /\ max \in Nat /\ b \in Seq(Genes) /\ now \in Seq(Genes)
        /\ i \in 1 .. Len(now) + 1
    BY <1>1, SMTT(60) DEF TypeOK, Strings, Uints, GrowthRules
  <2>2. Len(b) \in Nat /\ Len(now) \in Nat
    BY <2>1, LenProperties
  <2>3. i \in Nat
    BY <2>1, <2>2
  <2> QED BY <2>1, <2>2, <2>3
<1>5. \A genes : Rewritten(genes) = RewrittenBy(rules, genes)
  BY Zenon DEF Rewritten, RewrittenBy, RuleOf
<1>6. \A m : RewrittenUpTo(m) = UpTo(rules, b, m)
  BY <1>5, Zenon DEF RewrittenUpTo, UpTo
<1> DEFINE T == {m \in 0 .. Len(b) : RoomUpTo(rules, max, b, m)}
<1>7. Reached = Max(T)
  BY <1>6, Zenon DEF Reached, RoomUpTo
<1> HIDE DEF rules, max, b, now
<1>8. Reached = k
  <2>1. k \in T
    BY <1>2 DEF GrownTo
  <2>2. \A m \in 0 .. Len(b) : RoomUpTo(rules, max, b, m) => m <= k
    BY <1>2, <1>3, <1>4, GrowthEnds
  <2>3. T \in SUBSET Nat /\ \A m \in T : m <= k
    BY <1>4, <2>2
  <2> HIDE DEF T
  <2> QED BY <1>7, <2>1, <2>3, GreatestIsMax
<1>9. CASE Whole(rules, max, b, now, i, k)
  <2>1. now = RewrittenUpTo(k) /\ (k = 0 \/ Len(RewrittenUpTo(k)) <= max)
    BY <1>4, <1>6, <1>9 DEF Whole
  <2> QED BY <1>8, <2>1
<1>10. CASE Cut(rules, max, b, now, k)
  <2>1. /\ k # 0 /\ Len(RewrittenUpTo(k)) > max /\ Len(now) = max
        /\ IsPrefix(Rewritten(SubSeq(b, 1, k - 1)), now)
        /\ IsSuffix(SubSeq(b, k + 1, Len(b)), now)
    BY <1>5, <1>6, <1>10 DEF Cut
  <2>2. ~(Len(RewrittenUpTo(k)) <= max)
    <3>1. UpTo(rules, b, k) \in Seq(Genes)
      <4>1. SubSeq(b, 1, k) \in Seq(Genes) /\ SubSeq(b, k + 1, Len(b)) \in Seq(Genes)
        BY <1>4, Piece
      <4>2. RewrittenBy(rules, SubSeq(b, 1, k)) \in Seq(Genes)
        BY <1>4, <4>1, RewrittenType
      <4> QED BY <4>1, <4>2, ConcatProperties DEF UpTo
    <3>2. Len(RewrittenUpTo(k)) \in Nat
      BY <1>6, <3>1, LenProperties
    <3> QED BY <1>4, <2>1, <3>2
  <2> QED BY <1>8, <2>1, <2>2, Zenon
<1> QED BY <1>2, <1>9, <1>10 DEF GrownTo

(* grow() rewrites all the genes there were at once and none that came     *)
(* from a rule, up to the one that fills the system; that one becomes what *)
(* there is room for, and the loop never leaves the string it changes.     *)
THEOREM GrowthFollowsRules == Spec => []GrowsByTheRules
<1>1. Init => GrowInv
  <2> SUFFICES ASSUME Init PROVE GrowInv
    OBVIOUS
  <2>1. pc = "idle"
    BY DEF Init
  <2> QED BY <2>1, SystemInvInit DEF GrowInv, GrowAt
<1>2. GrowInv /\ [Next]_vars => GrowInv'
  BY GrowInvNext
<1>3. GrowInv => GrowsByTheRules
  BY GrownByTheRules
<1> QED BY <1>1, <1>2, <1>3, PTL DEF Spec

=============================================================================
