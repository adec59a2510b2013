------------------------------ MODULE SmokeTest ------------------------------
(***************************************************************************)
(* What becomes of a string of genes between the servers and a program     *)
(* that draws it, as smokeTest.cc does it: the interpreter, whose          *)
(* attributes were set or loaded, makes points and brackets of the string; *)
(* the program sorts them by depth, and asks Physics how much of each      *)
(* branch there is room for.  Before, it has systems loaded and crossed,   *)
(* and says with maps in what way.                                         *)
(*                                                                         *)
(* The incremental interpreter is there to compare: it reads the same      *)
(* string, a gene at a call.                                               *)
(***************************************************************************)
EXTENDS LSystemGenericInterpreter, LSystemFile, PhysicsPlacement

CONSTANTS
    Systems,    \* the strings that are interpreted: sequences of words
    AllWords,   \* the words they, and the strings that are loaded, consist of
    Strangers,  \* what else may come where an interpreted system is awaited
    Maps,       \* the maps that are sent
    MapKeys,    \* their keys, in the order of std::map
    Stored,     \* the systems that are saved to a file
    Settings,   \* the attributes that are set, all at once
    Values,     \* and one by one: pairs
    Saves,      \* what is in the file of attributes
    Lists,      \* points with radii that are placed by themselves
    Pointed,    \* branches by level that may have pointers
    MaxPoints,  \* what the incremental interpreter has indices for
    MaxCalls    \* bound: calls made before a string is interpreted

ASSUME SmokeTestAssumption ==
    /\ MaxCalls \in Nat /\ MaxPoints \in Nat
    /\ \A atom \in Numbers : Value(atom) \in Int
    /\ Bad \notin [1 .. 3 -> Int]
    /\ \A n \in DOMAIN Keys : Keys[n] \in Seq(STRING)
    /\ \A attributes \in Settings \cup Saves :
          \A k \in DOMAIN attributes : attributes[k] \in Seq(STRING)
    /\ \A pair \in Values : pair[2] \in Seq(STRING)
    /\ Systems \subseteq Seq(AllWords) /\ \A word \in AllWords : IsSequence(word)
    /\ \A items \in Strangers : IsSequence(items) /\ \A n \in DOMAIN items :
          /\ IsSequence(items[n])
          /\ Len(items[n]) = 3 => \A c \in 1 .. 3 : items[n][c] \in Int
    /\ IsSequence(MapKeys)
    /\ \A m \in Maps : /\ IsMap(m) /\ DOMAIN m \subseteq ToSet(MapKeys)
                       /\ \A k \in DOMAIN m : m[k] \in Seq(STRING)
    /\ \A o \in Stored : IsSystem(o)
    /\ \A list \in Lists :
          /\ list.points \in Seq(Seq(Int)) /\ list.radii \in Seq(Int)
          /\ Len(list.points) = Len(list.radii)
    /\ \A levels \in Pointed : /\ HasFirst(DOMAIN levels)
                               /\ levels \in [DOMAIN levels -> Seq(Seq(Int))]

VARIABLES
    pc,         \* "set up", "interpreted" or "sorted"
    sent, received,     \* a map, with what came of it
    stored, loaded,     \* a system, with what came of it
    genes,              \* the string that was interpreted
    interpretedSystem,  \* what came of it
    calls

talkVars == <<sent, received, stored, loaded>>
stringVars == <<genes, interpretedSystem>>
vars == <<interpreterVars, placementVars, pc, talkVars, stringVars, calls>>

Loaded(o) == initialize(Fresh, save(o))
ASSUME LoadedAssumption == \A o \in Stored : Loaded(o).system \in Seq(AllWords)

Init ==
    /\ \E earlier \in Saves : InterpreterInit(earlier)
    /\ PlacementInit
    /\ pc = "set up"
    /\ sent = [k \in {} |-> <<>>] /\ received = sent
    /\ stored = Fresh /\ loaded = Fresh
    /\ genes = <<>> /\ interpretedSystem = <<>>
    /\ calls = 0

SetUp == pc = "set up" /\ ~placing /\ calls < MaxCalls /\ calls' = calls + 1

-----------------------------------------------------------------------------
(* Before *)

(* mapToString where it is sent, parseMap, to strings, where it is awaited *)
SendMap(m) ==
    /\ SetUp
    /\ sent' = m
    /\ received' = parseMap(mapToString(m, MapKeys), "string").map
    /\ UNCHANGED <<interpreterVars, placementVars, pc, stringVars, stored, loaded>>

(* save, and initialize of a new system *)
StoreSystem(o) ==
    /\ SetUp
    /\ stored' = o /\ loaded' = Loaded(o)
    /\ UNCHANGED <<interpreterVars, placementVars, pc, stringVars, sent, received>>

Attributes(action) ==
    /\ SetUp /\ action
    /\ UNCHANGED <<placementVars, pc, talkVars, stringVars>>

SetAll(attributes) == Attributes(setAttributes(attributes))
SetOne(key, value) == Attributes(setAttribute(key, value))
GetOne(key) == Attributes(getAttributeValue(key))
Save == Attributes(saveAttributes)
Load == Attributes(loadAttributes)

PlaceList(list) ==
    /\ SetUp
    /\ AddList(list.points, list.radii)
    /\ UNCHANGED <<interpreterVars, pc, talkVars, stringVars>>

(* The size of an element is asked of the interpreter, and divided by 2.3: *)
(* ten 23rds of it.                                                        *)
Radius ==
    LET size == stringTo(Attribute(<<"AtomicSize">>)) IN 10 * (IF size = Bad THEN 5 ELSE size)

PlacePointed(levels) ==
    /\ SetUp
    /\ AddSystem(levels, Radius)
    /\ UNCHANGED <<interpreterVars, pc, talkVars, stringVars>>

-----------------------------------------------------------------------------
(* From a string to spheres *)

SystemText(words) == vectorToString(words, <<",">>).text

Interpret(words) ==
    /\ pc = "set up" /\ ~placing
    /\ genes' = words
    /\ getSystem(SystemText(words), interpretedSystem')
    /\ pc' = "interpreted"
    /\ UNCHANGED <<placementVars, talkVars, calls>>

(* "we could be parsing anything in the client/server arrangement" *)
Strange(items) ==
    /\ pc = "set up" /\ ~placing
    /\ interpretedSystem' = items
    /\ pc' = "interpreted"
    /\ UNCHANGED <<interpreterVars, placementVars, talkVars, genes, calls>>

(* getPoints, and addSystem of what it returns *)
Sort ==
    /\ pc = "interpreted"
    /\ AddSystem(getPoints(interpretedSystem), Radius)
    /\ getAttributeValue(<<"AtomicSize">>)
    /\ pc' = "sorted"
    /\ UNCHANGED <<talkVars, stringVars, calls>>

PlaceOne ==
    /\ Placing
    /\ UNCHANGED <<interpreterVars, pc, talkVars, stringVars, calls>>

Next ==
    \/ \E m \in Maps : SendMap(m)
    \/ \E o \in Stored : StoreSystem(o)
    \/ \E attributes \in Settings : SetAll(attributes)
    \/ \E pair \in Values : SetOne(pair[1], pair[2]) \/ GetOne(pair[1])
    \/ Save \/ Load
    \/ \E list \in Lists : PlaceList(list)
    \/ \E levels \in Pointed : PlacePointed(levels)
    \/ \E words \in Systems \cup {loaded.system} : Interpret(words)
    \/ \E items \in Strangers : Strange(items)
    \/ Sort \/ PlaceOne

Spec == Init /\ [][Next]_vars

-----------------------------------------------------------------------------
(* Properties *)

(* Every variable has the type the code gives it, and the brackets of an   *)
(* interpreted system are never closed before they are opened.             *)
IsClose(item) == item = CloseBracket
IsOpen(item) == item = OpenBracket
Count(items, n, is(_)) == Cardinality({j \in 1 .. n : is(items[j])})
Depth(items, n) == Count(items, n, IsOpen) - Count(items, n, IsClose)
OpenedFirst ==
    genes # <<>> => \A n \in DOMAIN interpretedSystem : Depth(interpretedSystem, n) >= 0
TypeOK ==
    /\ \A k \in DOMAIN systemAttributes : systemAttributes[k] \in Seq(STRING)
    /\ pc \in {"set up", "interpreted", "sorted"} /\ calls \in 0 .. MaxCalls
    /\ stu_physics_collided \in BOOLEAN /\ placing \in BOOLEAN
    /\ \A n \in DOMAIN space : space[n].at \in Seq(Int) /\ Len(space[n].at) >= 3
    /\ \A k \in DOMAIN ret : ret[k] \in 0 .. Len(system[k])
    /\ OpenedFirst

(* "requires a map in the default form generated by Utility::mapToString": *)
(* a map is received as it was sent, unless a key has a comma or a value   *)
(* has a closing bracket in it, the delimiters it is read up to.           *)
Legible(m) ==
    /\ \A k \in DOMAIN m : "," \notin ToSet(k) /\ ")" \notin ToSet(m[k])
MapsArrive == Legible(sent) => received = sent

(* "saves the system to a simple key space value format": a new system     *)
(* that is initialized with the file is the one that was saved, its limits *)
(* and rules too, if it has nothing in it that the format cannot hold.     *)
SystemsArrive == Readable(stored) => loaded = stored

(* Both are read by other code than writes them.                           *)
ArrivesAsSent == MapsArrive /\ SystemsArrive

(* What is loaded into an interpreter is what was saved, whatever it had   *)
(* before, as long as each name is one of Keys, and each value one word.   *)
OneWord(attributes) ==
    \A k \in DOMAIN attributes : k \in ToSet(Keys) /\ Words(attributes[k]) = <<attributes[k]>>
LoadedAsSaved ==
    [][Load /\ OneWord(saved) => \A k \in DOMAIN saved : systemAttributes'[k] = saved[k]]_vars

(* The incremental interpreter, its turtle with the same attributes.  A    *)
(* bracket is a word by itself to it, and an "S" a first letter.           *)
Turns == {"L", "R", "U", "D"}
OtherKind(word) ==
    IF word # <<>> /\ word[1] \in Turns \cup {"S"} THEN word[1]
    ELSE IF word \in {OpenBracket, CloseBracket} THEN word[1] ELSE "other"
Incremental == INSTANCE LSystemIncrementalInterpreter WITH
    Genes <- AllWords, Kind <- [word \in AllWords |-> OtherKind(word)]
Parsed(key) == stringTo(Attribute(key))
Turtle ==
    Incremental!NewTurtle(0, [startPoint |-> StartPointAttribute, startDirection |-> Bad,
                              angles |-> [a \in Turns |-> Parsed(AngleKey(a))],
                              atomicSize |-> Parsed(<<"AtomicSize">>)])

(* What it makes of the words, a call of grow for each *)
ItemOf(r) ==
    IF ~r.ok THEN <<>>
    ELSE IF r.index = Incremental!OpenIndex THEN <<OpenBracket>>
    ELSE IF r.index = Incremental!CloseIndex THEN <<CloseBracket>> ELSE <<r.point>>
GrownOnce(turtle, items, words) ==
    LET r == CHOOSE r \in Incremental!Grow(turtle, words) : TRUE
    IN [turtle |-> r.turtle, items |-> items \o ItemOf(r)]
ReadBy(turtle, words) ==
    LET called(so, word) == GrownOnce(so.turtle, so.items, words)
    IN FoldLeft(called, [turtle |-> turtle, items |-> <<turtle.attributes.startPoint>>], words).items

(* The two interpreters agree on the shape of a system of words both know, *)
(* as one reads them, spaces and all, and the other, without:              *)
(* which brackets are ignored and where its points come, however           *)
(* unbalanced it is; and on the places of points if it does not turn.  And *)
(* every variable keeps its type.                                          *)
Numbered == \A a \in Turns : Bad \notin {Parsed(AngleKey(a)), Parsed(<<"AtomicSize">>)}
Known(text) ==
    /\ Len(split(text)) < MaxPoints
    /\ \A word \in ToSet(parseVector(text)) :
          word # <<>> => trim(word) \in AllWords /\ KindOf(word) = OtherKind(trim(word))
Straight(text) == \A word \in ToSet(parseVector(text)) : KindOf(word) \notin Turns
SameItems(items, others, exact) ==
    /\ Len(others) = Len(items)
    /\ \A n \in DOMAIN others :
          \/ Len(others[n]) = 3 /\ Len(items[n]) = 3
          \/ others[n] = items[n]
    /\ exact => others = items
ShapesAgree ==
    LET text == SystemText(genes) IN
    pc = "interpreted" /\ genes # <<>> /\ Numbered /\ Known(text) =>
        SameItems(interpretedSystem, ReadBy(Turtle, split(text)), Straight(text))
SameShape == TypeOK /\ ShapesAgree

(* What getPoints returns is the points at each depth of the brackets, in  *)
(* the order they come; a depth below 0 is a level too.                    *)
AtDepth(d) ==
    FlattenSeq([n \in DOMAIN interpretedSystem |->
                   IF Len(interpretedSystem[n]) = 3 /\ Depth(interpretedSystem, n) = d
                   THEN <<interpretedSystem[n]>> ELSE <<>>])
Moderate ==
    \A n \in DOMAIN interpretedSystem :
        /\ Depth(interpretedSystem, n) \in -(UintSize \div 2) .. UintSize \div 2 - 1
        /\ Len(interpretedSystem[n]) = 3 => \A c \in 1 .. 3 : Abs(interpretedSystem[n][c]) < Million
SortedByDepth ==
    pc = "sorted" /\ Moderate =>
        \A d \in DOMAIN system \cup {Depth(interpretedSystem, n) : n \in DOMAIN interpretedSystem} :
            AtDepth(d) = IF d \in DOMAIN system THEN system[d] ELSE <<>>

-----------------------------------------------------------------------------
(* What does not hold, each with a configuration of its own *)

(* All maps arrive, also the growth rules of a system that has elements of *)
(* a size of their own, "S(u)".                                            *)
EveryMapArrives == received = sent

(* A system is loaded as it was saved, also one without a limit, or with   *)
(* the rule that testLSystem gives it before it saves it.                  *)
EverySystemLoads == loaded = stored

(* Attributes are loaded as they were saved, also those that were looked   *)
(* for and not there: operator[] made them, empty.                         *)
EmptyLoadedAsSaved ==
    [][Load => \A k \in DOMAIN saved : systemAttributes'[k] = saved[k]]_vars

(* Points are where the interpreter put them, also a million away.         *)
PlacesArrive ==
    pc = "sorted" =>
        \A d \in DOMAIN system : system[d] = AtDepth(d)

(* "as long as the parent of that branch exists": of the branches that     *)
(* getPoints returns, too                                                  *)
Before(n) == {m \in 1 .. n - 1 : Len(interpretedSystem[m]) = 3
                                 /\ Depth(interpretedSystem, m) = Depth(interpretedSystem, n) - 1}
BranchesHaveParents ==
    pc = "sorted" /\ Returned => \A n \in DOMAIN interpretedSystem :
        LET item == interpretedSystem[n]
            parent == CHOOSE m \in Before(n) : \A o \in Before(n) : o <= m
        IN Len(item) = 3 /\ Before(n) # {} /\ (\E s \in New : s.at = item)
               => \E s \in New : s.at = interpretedSystem[parent]
=============================================================================
