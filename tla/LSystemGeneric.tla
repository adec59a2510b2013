--------------------------- MODULE LSystemGeneric ---------------------------
(***************************************************************************)
(* LSystemGeneric: a string of genes that is mutated at random, grown by   *)
(* its rules and crossed with another, under a least and a greatest size.  *)
(*                                                                         *)
(* One call is made at a time: the handlers hold the mutexes of the        *)
(* systems concerned.  grow and cross are loops, and go one iteration a    *)
(* step; every other method is a step.  Statistics and ids are left out.   *)
(***************************************************************************)
EXTENDS Integers, SequencesExt

CONSTANTS
    Systems,        \* the objects
    Genes,          \* the words a string is made of
    Inputs,         \* what initialize may read: records of the members below
    Seeds,          \* the strings setSystem is given
    Productions,    \* the right sides setGrowthRule is given
    Sizes,          \* the limits that are set: integers
    CrossMaps,      \* what cross is given: a sequence of entries per stage
    UintMax,        \* the greatest unsigned int
    MaxCalls        \* bound: calls made

Types == {"1", "2", "3", "4"}
Random == "random"
Malformed == "malformed"    \* a key without a colon
AnyIndex == -1              \* "random", among indices
NoIndex == -2               \* no colon, or no number

ASSUME LSystemAssumption ==
    /\ Systems # {}
    /\ Genes \cap {Random, Malformed} = {}
    /\ Seeds \subseteq Seq(Genes) /\ Productions \subseteq Seq(Genes)
    /\ Sizes \subseteq Int /\ \A n \in Sizes : n <= UintMax
    /\ UintMax \in Nat /\ MaxCalls \in Nat

(* What the types say of what is read from a file or sent by a client.     *)
ASSUME InputAssumption ==
    /\ \A in \in Inputs :
          /\ in.system \in Seq(Genes) /\ in.options \in Seq(Genes)
          /\ DOMAIN in.rules \subseteq Genes
          /\ \A g \in DOMAIN in.rules : in.rules[g] \in Seq(Genes)
          /\ \A k \in DOMAIN in.probabilities : in.probabilities[k] \in Int
          /\ in.minSize \in Int /\ in.maxSize \in Int /\ in.currentGene \in Nat
    /\ \A m \in CrossMaps :
          m # <<>> /\ \A st \in 1 .. 4 : m[st] \in Seq(ToSet(m[st]))

VARIABLES
    system,                 \* the string
    options,                \* what a gene may be toggled to
    mutationProbabilities,  \* a map from the types
    growthRules,            \* a map from genes to strings
    currentGene,            \* where the next mutation is, from 0
    minSize, maxSize,       \* unsigned
    isInitialized,
    pc, this, other,        \* the call in progress, its object and argument
    i,                      \* grow: the gene it is at, from 1
    stage, todo, maps,      \* cross: the container, its entries left, all entries
    before,                 \* the strings when the call began
    calls

geneVars == <<system, options, mutationProbabilities, growthRules>>
limitVars == <<minSize, maxSize, isInitialized>>
callVars == <<pc, this, other, i, stage, todo, maps, before>>
vars == <<geneVars, currentGene, limitVars, callVars, calls>>

Unsigned(n) == n % (UintMax + 1)
Empty == [x \in {} |-> x]

(* The map f, and what g has for other keys; f with the value v for k *)
Over(f, g) == [k \in DOMAIN f \cup DOMAIN g |-> IF k \in DOMAIN f THEN f[k] ELSE g[k]]
With(f, k, v) == Over([x \in {k} |-> v], f)

(* Operators named Faulty... are what a plausible bug would make of the    *)
(* definition they precede; each breaks a property of the runs.            *)

Fresh == [system |-> <<>>, options |-> <<>>, rules |-> Empty, probabilities |-> Empty,
          minSize |-> 0, maxSize |-> 0, currentGene |-> 0]

(* Systems as constructed, or initialized once. *)
Init ==
    \E source \in [Systems -> Inputs \cup {Fresh}] :
        /\ system = [s \in Systems |-> source[s].system]
        /\ options = [s \in Systems |-> source[s].options]
        /\ mutationProbabilities = [s \in Systems |-> source[s].probabilities]
        /\ growthRules = [s \in Systems |-> source[s].rules]
        /\ currentGene = [s \in Systems |-> source[s].currentGene]
        /\ minSize = [s \in Systems |-> Unsigned(source[s].minSize)]
        /\ maxSize = [s \in Systems |-> Unsigned(source[s].maxSize)]
        /\ isInitialized = [s \in Systems |-> source[s] # Fresh]
        /\ pc = "idle" /\ this \in Systems /\ other = this
        /\ i = 1 /\ stage = 1 /\ todo = <<>> /\ maps = <<>>
        /\ before = system
        /\ calls = 0

Called == pc = "idle" /\ calls < MaxCalls /\ calls' = calls + 1
Quietly == UNCHANGED callVars

-----------------------------------------------------------------------------
(* initialize, the setters, getCopy *)

(* Options are added to those there are, rules replace those of their gene. *)
Initialize(s, in) ==
    /\ Called /\ Quietly
    /\ system' = [system EXCEPT ![s] = in.system]
    /\ options' = [options EXCEPT ![s] = @ \o in.options]
    /\ mutationProbabilities' = [mutationProbabilities EXCEPT ![s] = in.probabilities]
    /\ growthRules' = [growthRules EXCEPT ![s] = Over(in.rules, @)]
    /\ currentGene' = [currentGene EXCEPT ![s] = in.currentGene]
    /\ minSize' = [minSize EXCEPT ![s] = Unsigned(in.minSize)]
    /\ maxSize' = [maxSize EXCEPT ![s] = Unsigned(in.maxSize)]
    /\ isInitialized' = [isInitialized EXCEPT ![s] = TRUE]

SetMinSize(s, n) ==
    /\ Called /\ Quietly
    /\ minSize' = [minSize EXCEPT ![s] = IF n < 0 THEN 0 ELSE n]
    /\ UNCHANGED <<geneVars, currentGene, maxSize, isInitialized>>

SetMaxSize(s, n) ==
    /\ Called /\ Quietly
    /\ maxSize' = [maxSize EXCEPT ![s] = Unsigned(n)]
    /\ UNCHANGED <<geneVars, currentGene, minSize, isInitialized>>

SetSystem(s, genes) ==
    /\ Called /\ Quietly
    /\ system' = [system EXCEPT ![s] = genes]
    /\ UNCHANGED <<options, mutationProbabilities, growthRules, currentGene, limitVars>>

SetGrowthRule(s, start, end) ==
    /\ Called /\ Quietly
    /\ growthRules' = [growthRules EXCEPT ![s] = With(@, start, end)]
    /\ UNCHANGED <<system, options, mutationProbabilities, currentGene, limitVars>>

DeleteGrowthRule(s, start) ==
    /\ Called /\ Quietly
    /\ growthRules' = [growthRules EXCEPT ![s] = [g \in DOMAIN @ \ {start} |-> @[g]]]
    /\ UNCHANGED <<system, options, mutationProbabilities, currentGene, limitVars>>

SetMutationProbability(s, type, p) ==
    /\ Called /\ Quietly
    /\ mutationProbabilities' = [mutationProbabilities EXCEPT ![s] = With(@, type, p)]
    /\ UNCHANGED <<system, options, growthRules, currentGene, limitVars>>

AddOption(s, g) ==
    /\ Called /\ Quietly
    /\ options' = [options EXCEPT ![s] = Append(@, g)]
    /\ UNCHANGED <<system, mutationProbabilities, growthRules, currentGene, limitVars>>

DeleteOption(s, g) ==
    /\ Called /\ Quietly
    /\ options' = [options EXCEPT ![s] = RemoveFirst(@, g)]
    /\ UNCHANGED <<system, mutationProbabilities, growthRules, currentGene, limitVars>>

GetCopy(s, t) ==
    /\ Called /\ Quietly
    /\ system' = [system EXCEPT ![t] = system[s]]
    /\ options' = [options EXCEPT ![t] = options[s]]
    /\ mutationProbabilities' = [mutationProbabilities EXCEPT ![t] = mutationProbabilities[s]]
    /\ growthRules' = [growthRules EXCEPT ![t] = growthRules[s]]
    /\ currentGene' = [currentGene EXCEPT ![t] = currentGene[s]]
    /\ minSize' = [minSize EXCEPT ![t] = minSize[s]]
    /\ maxSize' = [maxSize EXCEPT ![t] = maxSize[s]]
    /\ isInitialized' = [isInitialized EXCEPT ![t] = isInitialized[s]]

-----------------------------------------------------------------------------
(* mutate: what may become of the genes at j when the type is drawn *)

Neighbors(genes, j) == {j - 1, j + 1} \cap 1 .. Len(genes)

Mutated(s, type, j) ==
    LET genes == system[s] IN
    CASE type = "1" /\ Len(genes) > 1 ->
             {[genes EXCEPT ![j] = genes[n], ![n] = genes[j]] : n \in Neighbors(genes, j)}
      [] type = "2" /\ Len(genes) > 0 ->
             {[genes EXCEPT ![j] = o] : o \in ToSet(options[s])}
      [] type = "3" /\ Len(genes) > 0 /\ Len(genes) > minSize[s] -> {RemoveAt(genes, j)}
      [] type = "4" /\ Len(genes) > 0 /\ Len(genes) < maxSize[s] ->
             {InsertAt(genes, j, genes[j])}
      [] OTHER -> {genes}

Cursor(s) == IF currentGene[s] >= Len(system[s]) THEN 0 ELSE currentGene[s]

(* The threshold is one of 1 .. 10000. *)
MayHit(p) == p > 1
MayMiss(p) == p <= 10000

Mutate(s) ==
    /\ Called /\ Quietly
    /\ isInitialized[s]
    /\ \E type \in DOMAIN mutationProbabilities[s] :
          LET p == mutationProbabilities[s][type] IN
          \/ MayMiss(p) /\ UNCHANGED system
          \/ /\ MayHit(p)
             /\ \E genes \in Mutated(s, type, Cursor(s) + 1) :
                   system' = [system EXCEPT ![s] = genes]
    /\ currentGene' = [currentGene EXCEPT ![s] = Cursor(s) + 1]
    /\ UNCHANGED <<options, mutationProbabilities, growthRules, limitVars>>

(* An index modulo the number of options, of which there are none *)
MutateNoOptions(s) ==
    /\ Called
    /\ isInitialized[s] /\ system[s] # <<>> /\ options[s] = <<>>
    /\ "2" \in DOMAIN mutationProbabilities[s] /\ MayHit(mutationProbabilities[s]["2"])
    /\ pc' = "crashed"
    /\ UNCHANGED <<geneVars, currentGene, limitVars, this, other, i, stage, todo, maps, before>>

-----------------------------------------------------------------------------
(* grow: one iteration of its loop a step *)

Grow(s) ==
    /\ Called
    /\ pc' = "grow" /\ this' = s /\ i' = 1 /\ before' = system
    /\ UNCHANGED <<geneVars, currentGene, limitVars, other, stage, todo, maps>>

(* i is from 1 here, and from 0 in the code. *)
InLoop ==
    /\ i <= Len(system[this])
    /\ i - 1 < maxSize[this]
    /\ Len(system[this]) < maxSize[this]

HasRule == system[this][i] \in DOMAIN growthRules[this]
Production == growthRules[this][system[this][i]]

(* All tokens but the last go before the gene, from the last one back and  *)
(* while there is room; then the gene becomes the token with their number. *)
Inserted(end, room) == Min({Len(end) - 1, room})

Replacement(end, room) ==
    LET n == Inserted(end, room) IN
    Append(SubSeq(end, Len(end) - n, Len(end) - 1), end[n + 1])

Room == maxSize[this] - Len(system[this])

End == IF HasRule THEN Production ELSE <<system[this][i]>>

GrowBy(tokens, skipped) ==
    /\ pc = "grow" /\ InLoop /\ (HasRule => Production # <<>>)
    /\ system' = [system EXCEPT ![this] =
                     SubSeq(@, 1, i - 1) \o tokens \o SubSeq(@, i + 1, Len(@))]
    /\ i' = i + skipped
    /\ UNCHANGED <<options, mutationProbabilities, growthRules, currentGene, limitVars,
                   pc, this, other, stage, todo, maps, before, calls>>

FaultyGrowGene == GrowBy(Replacement(End, Room), 1)           \* grows what it put in
FaultyRoom == GrowBy(End, Len(End))                           \* ignores maxSize
FaultyStep == GrowBy(Replacement(End, Room),                  \* stays where no rule is
                     IF HasRule THEN 1 + Inserted(End, Room) ELSE 0)

GrowGene == GrowBy(Replacement(End, Room), 1 + Inserted(End, Room))

(* The first of no tokens: there is no string behind the reference. *)
GrowEmptyProduction ==
    /\ pc = "grow" /\ InLoop /\ HasRule /\ Production = <<>>
    /\ pc' = "crashed"
    /\ UNCHANGED <<geneVars, currentGene, limitVars, this, other, i, stage, todo, maps, before, calls>>

GrowReturn ==
    /\ pc = "grow" /\ ~InLoop
    /\ pc' = "grown"
    /\ UNCHANGED <<geneVars, currentGene, limitVars, this, other, i, stage, todo, maps, before, calls>>

-----------------------------------------------------------------------------
(* cross: four containers in turn, each an entry a step.  Stages 1 and 2   *)
(* are vectors (system, options), 3 and 4 maps (probabilities, rules).     *)

Skipped(st) ==
    \E s \in {this', other'} :
        CASE st = 1 -> system[s] = <<>>
          [] st = 2 -> options[s] = <<>>
          [] st = 3 -> DOMAIN mutationProbabilities[s] = {}
          [] st = 4 -> DOMAIN growthRules[s] = {}

Cross(s, t, m) ==
    /\ Called
    /\ pc' = "cross" /\ this' = s /\ other' = t /\ maps' = m /\ before' = system
    /\ stage' = 1
    /\ todo' = IF Skipped(1) THEN <<>> ELSE m[1]
    /\ UNCHANGED <<geneVars, currentGene, limitVars, i>>

FaultyExchange(f, k1, k2, op) ==
    CASE op = "1" -> [f EXCEPT ![other][k2] = f[this][k1]]
      [] op = "2" -> [f EXCEPT ![this][k1] = f[other][k2]]
      [] op = "3" -> [f EXCEPT ![other][k2] = f[this][k1]]  \* no temporary
      [] OTHER -> f

(* The other gets mine (1), I get the other's (2), or both (3). *)
Exchange(f, k1, k2, op) ==
    CASE op = "1" -> [f EXCEPT ![other][k2] = f[this][k1]]
      [] op = "2" -> [f EXCEPT ![this][k1] = f[other][k2]]
      [] op = "3" -> [f EXCEPT ![this][k1] = f[other][k2], ![other][k2] = f[this][k1]]
      [] OTHER -> f

(* Indices are from 0.  A negative one is a huge unsigned one. *)
Indices(k, vector) ==
    IF k = AnyIndex THEN DOMAIN vector ELSE {k + 1} \cap DOMAIN vector

CrossVectors ==
    /\ pc = "cross" /\ stage \in {1, 2} /\ todo # <<>>
    /\ LET e == Head(todo)
           vectors == IF stage = 1 THEN system ELSE options
       IN \/ \E k1 \in Indices(e.left, vectors[this]), k2 \in Indices(e.right, vectors[other]) :
                LET crossed == Exchange(vectors, k1, k2, e.op) IN
                /\ system' = IF stage = 1 THEN crossed ELSE system
                /\ options' = IF stage = 2 THEN crossed ELSE options
                /\ todo' = Tail(todo)
                /\ UNCHANGED pc
          \/ /\ {} \in {Indices(e.left, vectors[this]), Indices(e.right, vectors[other])}
             /\ pc' = "crossed"
             /\ UNCHANGED <<system, options, todo>>
    /\ UNCHANGED <<mutationProbabilities, growthRules, currentGene, limitVars,
                   this, other, i, stage, maps, before, calls>>

Keys(k, map) == IF k = Random THEN DOMAIN map ELSE {k}

(* getRandomKey looks what it chose up among this system's mutation        *)
(* probabilities, with [], whatever map the key is from: it is there then. *)
Looked(probabilities, keys) == Over(probabilities, [k \in keys |-> 0])

CrossMap ==
    /\ pc = "cross" /\ stage \in {3, 4} /\ todo # <<>>
    /\ LET e == Head(todo)
           maps3 == IF stage = 3 THEN mutationProbabilities ELSE growthRules
       IN \/ /\ Malformed \notin {e.left, e.right}
             /\ \E k1 \in Keys(e.left, maps3[this]), k2 \in Keys(e.right, maps3[other]) :
                   LET looked == [mutationProbabilities EXCEPT ![this] = Looked(@,
                                     {k \in {k1, k2} : \/ e.left = Random /\ k = k1
                                                       \/ e.right = Random /\ k = k2})]
                       now == IF stage = 3 THEN looked ELSE growthRules
                       crossed == IF k1 \in DOMAIN now[this] /\ k2 \in DOMAIN now[other]
                                  THEN Exchange(now, k1, k2, e.op) ELSE now
                   IN /\ mutationProbabilities' = IF stage = 3 THEN crossed ELSE looked
                      /\ growthRules' = IF stage = 4 THEN crossed ELSE growthRules
             /\ todo' = Tail(todo)
             /\ UNCHANGED pc
          \/ /\ Malformed \in {e.left, e.right}
             /\ pc' = "crossed"
             /\ UNCHANGED <<mutationProbabilities, growthRules, todo>>
    /\ UNCHANGED <<system, options, currentGene, limitVars, this, other, i, stage, maps, before, calls>>

CrossNext ==
    /\ pc = "cross" /\ todo = <<>>
    /\ \/ /\ stage < 4
          /\ stage' = stage + 1
          /\ UNCHANGED <<this, other, pc>>
          /\ todo' = IF Skipped(stage + 1) THEN <<>> ELSE maps[stage + 1]
       \/ /\ stage = 4
          /\ pc' = "crossed"
          /\ UNCHANGED <<stage, todo, this, other>>
    /\ UNCHANGED <<geneVars, currentGene, limitVars, i, maps, before, calls>>

(* What the call kept is forgotten. *)
Return ==
    /\ pc \in {"grown", "crossed"}
    /\ pc' = "idle"
    /\ i' = 1 /\ stage' = 1 /\ todo' = <<>> /\ maps' = <<>>
    /\ before' = system /\ other' = this
    /\ UNCHANGED <<geneVars, currentGene, limitVars, this, calls>>

-----------------------------------------------------------------------------
Continue == \/ GrowGene \/ GrowEmptyProduction \/ GrowReturn
            \/ CrossVectors \/ CrossMap \/ CrossNext \/ Return

Setter(s) ==
    \/ \E in \in Inputs : Initialize(s, in)
    \/ \E n \in Sizes : SetMinSize(s, n) \/ SetMaxSize(s, n)
    \/ \E genes \in Seeds : SetSystem(s, genes)
    \/ \E g \in Genes, end \in Productions : SetGrowthRule(s, g, end)
    \/ \E g \in Genes : DeleteGrowthRule(s, g) \/ AddOption(s, g) \/ DeleteOption(s, g)
    \/ \E type \in Types, p \in {0, 5000} : SetMutationProbability(s, type, p)

Next ==
    \/ \E s \in Systems : Setter(s) \/ Mutate(s) \/ MutateNoOptions(s) \/ Grow(s)
    \/ \E s \in Systems, t \in Systems : GetCopy(s, t) \/ \E m \in CrossMaps : Cross(s, t, m)
    \/ Continue

Spec == Init /\ [][Next]_vars

(* A call that was made goes on; nothing makes anybody call. *)
FairSpec == Spec /\ WF_vars(Continue)

-----------------------------------------------------------------------------
(* Properties *)

Strings == Seq(Genes)
Uints == 0 .. UintMax

(* Every variable has the type the code gives it, and the loop of grow     *)
(* never is more than one past the end of the string it changes.           *)
TypeOK ==
    /\ system \in [Systems -> Strings] /\ options \in [Systems -> Strings]
    /\ DOMAIN mutationProbabilities = Systems /\ DOMAIN growthRules = Systems
    /\ \A s \in Systems :
          /\ \A k \in DOMAIN mutationProbabilities[s] : mutationProbabilities[s][k] \in Int
          /\ DOMAIN growthRules[s] \subseteq Genes
          /\ \A g \in DOMAIN growthRules[s] : growthRules[s][g] \in Strings
    /\ currentGene \in [Systems -> Nat]
    /\ minSize \in [Systems -> Uints] /\ maxSize \in [Systems -> Uints]
    /\ isInitialized \in [Systems -> BOOLEAN]
    /\ pc \in {"idle", "grow", "grown", "cross", "crossed", "crashed"}
    /\ this \in Systems /\ other \in Systems
    /\ i \in 1 .. Len(system[this]) + 1
    /\ stage \in 1 .. 4
    /\ before \in [Systems -> Strings]
    /\ calls \in 0 .. MaxCalls

(* maxSize and minSize: what mutates or grows a system never makes it      *)
(* longer than the one or shorter than the other, wherever the setters put *)
(* the limits and the string in between.                                   *)
SizeStep(s) ==
    /\ Len(system'[s]) > Len(system[s]) => Len(system'[s]) <= maxSize[s]
    /\ Len(system'[s]) < Len(system[s]) => Len(system'[s]) >= minSize[s]
LimitsRespected ==
    [][(pc # "idle" \/ \E s \in Systems : Mutate(s)) => \A s \in Systems : SizeStep(s)]_vars

(* "every A will be replaced with BA every turn": all the genes there were *)
(* are rewritten at once, none that came from a rule is, and ...           *)
Rewritten(genes) ==
    FlattenSeq([k \in DOMAIN genes |->
        IF genes[k] \in DOMAIN growthRules[this] THEN growthRules[this][genes[k]]
        ELSE <<genes[k]>>])
RewrittenUpTo(k) ==
    Rewritten(SubSeq(before[this], 1, k)) \o SubSeq(before[this], k + 1, Len(before[this]))
(* ... from the first gene to the one that fills the system up.            *)
Reached ==
    Max({k \in 0 .. Len(before[this]) :
            \A j \in 0 .. k - 1 : Len(RewrittenUpTo(j)) < maxSize[this]})

(* grow() rewrites like that.  The gene that would take the system past    *)
(* maxSize becomes what there is room for; those behind it stay.  And the  *)
(* loop never leaves the string it changes.                                *)
GrowsByTheRules ==
    /\ TypeOK
    /\ pc = "grown" =>
          LET k == Reached
              grown == system[this]
          IN IF k = 0 \/ Len(RewrittenUpTo(k)) <= maxSize[this]
             THEN grown = RewrittenUpTo(k)
             ELSE /\ Len(grown) = maxSize[this]
                  /\ IsPrefix(Rewritten(SubSeq(before[this], 1, k - 1)), grown)
                  /\ IsSuffix(SubSeq(before[this], k + 1, Len(before[this])), grown)

(* How often a gene is in the strings of a set of systems *)
Count(strings, ss, g) ==
    Cardinality({p \in UNION {{s} \X DOMAIN strings[s] : s \in ss} : strings[p[1]][p[2]] = g})

(* "move the element at the index in this system to the index in the other *)
(* system", "swap elements": however far a cross gets, before it fails or  *)
(* succeeds and a system with itself, it brings in no gene from elsewhere, *)
(* changes no length, and loses none while it only swaps.                  *)
CrossExchanges ==
    pc \in {"cross", "crossed"} =>
        LET parents == {this, other}
            entries == IF maps = <<>> THEN <<>> ELSE maps[1]
        IN /\ \A s \in Systems : Len(system[s]) = Len(before[s])
           /\ \A s \in Systems \ parents : system[s] = before[s]
           /\ \A g \in Genes :
                 Count(before, parents, g) = 0 => Count(system, parents, g) = 0
           /\ (\A e \in ToSet(entries) : e.op = "3") =>
                 \A g \in Genes : Count(system, parents, g) = Count(before, parents, g)

(* "a set of 4 pairs of integers, [...] with a key for each type listed    *)
(* below": every mutation that may be drawn is of one of the four types.   *)
MutationTypesKnown ==
    \A s \in Systems : DOMAIN mutationProbabilities[s] \subseteq Types

(* run() and cross() return, or end the program, whatever the rules are.   *)
CallsReturn == pc \notin {"idle", "crashed"} ~> pc \in {"idle", "crashed"}
=============================================================================
