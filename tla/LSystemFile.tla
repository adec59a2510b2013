----------------------------- MODULE LSystemFile -----------------------------
(***************************************************************************)
(* What LSystemGeneric writes to a file and makes of one.  A file has      *)
(* sections, of a keyword and a value each; people write such files too,   *)
(* with comments, and a section goes over several lines if they like.      *)
(*                                                                         *)
(* A keyword is one atom, as is a number; statistics are left out.         *)
(***************************************************************************)
EXTENDS Utility

CONSTANTS
    Newline     \* the other white atom

Sections == {"maxSize", "minSize", "options", "system", "mutationRules", "growthRules",
             "currentGene"}

ASSUME FileAssumption ==
    /\ Space # Newline
    /\ (Numbers \cup Sections \cup {"#", ",", ".", ":", "(", ")"}) \cap {Space, Newline} = {}
    /\ Numbers \cap (Sections \cup {"#", ",", ".", ":", "(", ")"}) = {}
    /\ \A atom \in Numbers : Value(atom) # Bad

(* A system as it is constructed *)
Nothing == [x \in {} |-> <<>>]
Fresh == [system |-> <<>>, options |-> <<>>, growthRules |-> Nothing,
          mutationProbabilities |-> Nothing, minSize |-> 0, maxSize |-> 0, currentGene |-> 0]

(* checkWord says that a word is none of the keywords. *)
checkWord(word) == ~(Len(word) = 1 /\ word[1] \in Sections)

-----------------------------------------------------------------------------
(* Reading *)

(* The end of the line goes with the comment. *)
InComment(text, n) ==
    \E m \in 1 .. n : text[m] = "#" /\ \A j \in m .. n - 1 : text[j] # Newline

stripComments(text) ==
    FlattenSeq([n \in DOMAIN text |-> IF InComment(text, n) THEN <<>> ELSE <<text[n]>>])

Tokens(text) ==
    LET spaced == [n \in DOMAIN text |-> IF text[n] = Newline THEN Space ELSE text[n]]
    IN Filled(Parts(spaced, Space))

(* A section that comes again begins again; what no section is before is   *)
(* skipped.                                                                *)
ReadToken(s, token) ==
    IF ~checkWord(token)
    THEN [section |-> token[1],
          pairs |-> [k \in {token[1]} \cup DOMAIN s.pairs |->
                        IF k = token[1] THEN <<>> ELSE s.pairs[k]]]
    ELSE IF s.section = "" THEN s
    ELSE [s EXCEPT !.pairs[s.section] = @ \o token]

keyValuePairs(text) ==
    FoldLeft(ReadToken, [section |-> "", pairs |-> Nothing], Tokens(stripComments(text))).pairs

FaultyRule(rules, rule) ==      \* skips a rule that produces nothing
    LET colonIndex == Upto(rule, 1, ":") IN
    IF colonIndex >= Len(rule) THEN rules
    ELSE LET startSymbol == SubSeq(rule, 1, colonIndex - 1) IN
         [k \in {startSymbol} \cup DOMAIN rules |->
             IF k = startSymbol THEN SubSeq(rule, colonIndex + 1, Len(rule)) ELSE rules[k]]

(* The last rule of a gene is the one that counts. *)
Rule(rules, rule) ==
    LET colonIndex == Upto(rule, 1, ":") IN
    IF colonIndex > Len(rule) THEN rules
    ELSE LET startSymbol == SubSeq(rule, 1, colonIndex - 1) IN
         [k \in {startSymbol} \cup DOMAIN rules |->
             IF k = startSymbol THEN SubSeq(rule, colonIndex + 1, Len(rule)) ELSE rules[k]]

IntOf(text) == IF IsInt(text) THEN stringTo(text) ELSE 0

(* Options and rules come to those there are; the rest is replaced.  The   *)
(* limits are unsigned, and read as int.                                   *)
initialize(o, text) ==
    LET pairs == keyValuePairs(text)
        input(section) == IF section \in DOMAIN pairs THEN pairs[section] ELSE <<>>
        chances == parseMap(input("mutationRules"), "int").map
    IN [o EXCEPT
          !.options = @ \o parseVector(input("options")),
          !.system = parseVector(input("system")),
          !.growthRules = FoldLeft(Rule, @, Parts(input("growthRules"), ".")),
          !.mutationProbabilities = [type \in DOMAIN chances |-> IntOf(chances[type])],
          !.minSize = IntOf(input("minSize")) % UintSize,
          !.maxSize = IntOf(input("maxSize")) % UintSize,
          !.currentGene = Default(stringTo(input("currentGene"))) % UintSize]

-----------------------------------------------------------------------------
(* Writing *)

Written(n) == <<CHOOSE atom \in Numbers : Value(atom) = n>>

ChancesOf(chances) ==
    mapToString([type \in DOMAIN chances |-> Written(chances[type])], SetToSeq(DOMAIN chances))

Order == <<"maxSize", "minSize", "options", "system", "mutationRules", "growthRules",
           "currentGene">>
Line(section, value) == <<section, Space>> \o value \o <<Newline>>

(* A std::map is written in the order of its keys; none of what reads it   *)
(* tells orders apart.                                                     *)
RulesOf(rules) ==
    vectorToString([n \in 1 .. Cardinality(DOMAIN rules) |->
                       LET start == SetToSeq(DOMAIN rules)[n] IN start \o <<":">> \o rules[start]],
                   <<".">>).text

Output(o) ==
    [section \in Sections |->
        CASE section \in {"maxSize", "minSize", "currentGene"} -> Written(o[section])
          [] section \in {"options", "system"} -> vectorToString(o[section], <<",">>).text
          [] section = "mutationRules" -> ChancesOf(o.mutationProbabilities)
          [] section = "growthRules" -> RulesOf(o.growthRules)]

save(o) ==
    FlattenSeq([n \in DOMAIN Order |-> Line(Order[n], Output(o)[Order[n]])])

-----------------------------------------------------------------------------
(* What a file can hold: no delimiters in what they delimit, nothing that  *)
(* looks like a keyword, no empty gene at the end, no limit an int has not *)

Without(text, atoms) == ToSet(text) \cap atoms = {}

ListReadable(list) ==
    /\ \A n \in DOMAIN list : Without(list[n], {Space, Newline, "#", ","})
    /\ list # <<>> => Last(list) # <<>>
    /\ checkWord(vectorToString(list, <<",">>).text)

Readable(o) ==
    /\ o.minSize <= IntMax /\ o.maxSize <= IntMax
    /\ ListReadable(o.system) /\ ListReadable(o.options)
    /\ \A type \in DOMAIN o.mutationProbabilities : Without(type, {Space, Newline, "#", ","})
    /\ \A start \in DOMAIN o.growthRules :
          /\ Without(start, {Space, Newline, "#", ":", "."})
          /\ Without(o.growthRules[start], {Space, Newline, "#", "."})

(* What the members of a system are; each number has a text. *)
Numeric(n) == \E atom \in Numbers : Value(atom) = n
IsMap(f) ==
    /\ IsFiniteSet(DOMAIN f) /\ DOMAIN f \subseteq Seq(STRING)
    /\ f = [k \in DOMAIN f |-> f[k]]
IsSystem(o) ==
    /\ o = [system |-> o.system, options |-> o.options, growthRules |-> o.growthRules,
            mutationProbabilities |-> o.mutationProbabilities, minSize |-> o.minSize,
            maxSize |-> o.maxSize, currentGene |-> o.currentGene]
    /\ {o.system, o.options} \subseteq Seq(Seq(STRING))
    /\ IsMap(o.growthRules) /\ \A start \in DOMAIN o.growthRules : o.growthRules[start] \in Seq(STRING)
    /\ IsMap(o.mutationProbabilities)
    /\ \A type \in DOMAIN o.mutationProbabilities :
          LET n == o.mutationProbabilities[type] IN n \in -IntMax - 1 .. IntMax /\ Numeric(n)
    /\ {o.minSize, o.maxSize, o.currentGene} \subseteq 0 .. UintSize - 1
    /\ \A n \in {o.minSize, o.maxSize, o.currentGene} : Numeric(n)
=============================================================================
