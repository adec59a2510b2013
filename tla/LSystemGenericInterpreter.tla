--------------------- MODULE LSystemGenericInterpreter ---------------------
(***************************************************************************)
(* LSystemGenericInterpreter: the interpreter of the servers.  It makes    *)
(* points and brackets of a whole string of genes at a call; who gets them *)
(* sorts the points by the depth of their brackets.  It keeps attributes,  *)
(* by name, that are saved to and loaded from a file of words.             *)
(***************************************************************************)
EXTENDS Geometry, Utility

CONSTANTS
    Keys,       \* the names of attributes, in the order of std::map: texts
    Million,    \* what is printed with an exponent from there on
    Exponent(_) \* and that exponent

ASSUME GenericAssumption ==
    /\ {<<"LeftAngle">>, <<"RightAngle">>, <<"UpAngle">>, <<"DownAngle">>, <<"AtomicSize">>,
        <<"StartPoint">>} \subseteq ToSet(Keys)
    /\ IsSequence(Keys) /\ Million \in Nat /\ UintSize \in Nat \ {0}

VARIABLES
    systemAttributes,   \* from names to values
    file,               \* the words of the file of attributes
    saved               \* history: the attributes that were saved there

interpreterVars == <<systemAttributes, file, saved>>

Attribute(key) == IF key \in DOMAIN systemAttributes THEN systemAttributes[key] ELSE <<>>
NumberOf(key) == Default(stringTo(Attribute(key)))

(* What operator[] does to a std::map *)
Looked(keys) == [k \in DOMAIN systemAttributes \cup keys |-> Attribute(k)]

(* Operators named Faulty... are what a plausible bug would make of the    *)
(* definition they precede; each breaks a property of the runs.            *)

(* A line of the file has a name and a value; a reader sees words.  Keys   *)
(* are the names that are set: one that reading a shifted file makes of a  *)
(* value is not written a second time.                                     *)
Words(text) == Filled(Parts(text, Space))
FileOf(attributes) ==
    FlattenSeq([n \in DOMAIN Keys |->
                   IF Keys[n] \in DOMAIN attributes
                   THEN <<Keys[n]>> \o Words(attributes[Keys[n]]) ELSE <<>>])

(* An interpreter is constructed; there may be a file from an earlier one. *)
InterpreterInit(earlier) ==
    /\ systemAttributes = [k \in {} |-> <<>>]
    /\ file = FileOf(earlier) /\ saved = earlier

-----------------------------------------------------------------------------
(* Attributes *)

setAttributes(attributes) ==
    /\ systemAttributes' = attributes
    /\ UNCHANGED <<file, saved>>

setAttribute(key, value) ==
    /\ systemAttributes' = [Looked({key}) EXCEPT ![key] = value]
    /\ UNCHANGED <<file, saved>>

getAttributeValue(key) ==
    /\ systemAttributes' = Looked({key})
    /\ UNCHANGED <<file, saved>>

saveAttributes ==
    /\ file' = FileOf(systemAttributes) /\ saved' = systemAttributes
    /\ UNCHANGED systemAttributes

FaultyLoadAttributes ==     \* keeps the value of a name it has
    /\ LET names == {n \in DOMAIN file : n % 2 = 1} IN
       systemAttributes' =
           [k \in DOMAIN systemAttributes \cup {file[n] : n \in names} |->
               IF k \in DOMAIN systemAttributes THEN systemAttributes[k]
               ELSE LET n == CHOOSE n \in names : file[n] = k IN
                    IF n < Len(file) THEN file[n + 1] ELSE <<>>]
    /\ UNCHANGED <<file, saved>>

(* Word by word, a name and a value, the last of a name; what was there    *)
(* stays.  Behind the last value there still is the end of its line, and   *)
(* an empty name with an empty value comes of that.                        *)
loadAttributes ==
    /\ LET names == {n \in DOMAIN file : n % 2 = 1}
           last(k) == CHOOSE n \in names : file[n] = k /\ \A m \in names : file[m] = k => m <= n
           newline == file # <<>> /\ Len(file) % 2 = 0
       IN systemAttributes' =
             [k \in DOMAIN systemAttributes \cup {file[n] : n \in names}
                     \cup (IF newline THEN {<<>>} ELSE {}) |->
                 IF \E n \in names : file[n] = k
                 THEN IF last(k) < Len(file) THEN file[last(k) + 1] ELSE <<>>
                 ELSE IF k = <<>> /\ newline THEN <<>> ELSE systemAttributes[k]]
    /\ UNCHANGED <<file, saved>>

-----------------------------------------------------------------------------
(* getSystem *)

AngleKey(letter) ==
    CASE letter = "L" -> <<"LeftAngle">> [] letter = "R" -> <<"RightAngle">>
      [] letter = "U" -> <<"UpAngle">> [] letter = "D" -> <<"DownAngle">>

(* A word is known by its first letter, an "S" by itself. *)
KindOf(word) ==
    IF word = <<"S">> THEN "S"
    ELSE IF word # <<>> /\ word[1] \in {"L", "R", "U", "D", "[", "]"} THEN word[1]
    ELSE "other"

StartPointAttribute ==
    LET coordinates == parseVector(Attribute(<<"StartPoint">>))
        coordinate(n) == IF n <= Len(coordinates) THEN Default(stringTo(coordinates[n])) ELSE 0
    IN <<coordinate(1), coordinate(2), coordinate(3)>>

(* What is said of a branch: a point or a bracket.  A bracket is a         *)
(* sequence too, of another length than a point.                           *)
OpenBracket == <<"[">>
CloseBracket == <<"]">>

(* The loop's variables.  (The stacks begin with an entry that is never    *)
(* popped; it is left out.)                                                *)
Beginning ==
    [turtlePoint |-> StartPointAttribute, turtleMovementAxis |-> <<0, 0, -1>>,
     turtleCrossProduct |-> <<-1, 0, 0>>, stack |-> <<>>, bracketScope |-> 0,
     coordinates |-> <<StartPointAttribute>>]

Along(t, size) ==
    LET point == matrixAdd(t.turtlePoint, Scaled(t.turtleMovementAxis, size))
    IN [t EXCEPT !.turtlePoint = point, !.coordinates = Append(@, point)]

(* TURN_BOOST_FACTOR is 1.5; sizes are even. *)
Boosted(size) == (size * 3) \div 2

FaultyOpened(t) ==      \* is not counted
    [t EXCEPT !.coordinates = Append(@, OpenBracket),
              !.stack = Append(@, <<t.turtlePoint, t.turtleMovementAxis, t.turtleCrossProduct>>)]

Opened(t) ==
    [t EXCEPT !.bracketScope = @ + 1, !.coordinates = Append(@, OpenBracket),
              !.stack = Append(@, <<t.turtlePoint, t.turtleMovementAxis, t.turtleCrossProduct>>)]

Closed(t) ==
    LET top == Last(t.stack) IN
    IF t.bracketScope = 0 THEN t
    ELSE [t EXCEPT !.bracketScope = @ - 1, !.coordinates = Append(@, CloseBracket),
                   !.stack = Front(@), !.turtlePoint = top[1],
                   !.turtleMovementAxis = top[2], !.turtleCrossProduct = top[3]]

YAxis == <<0, 1, 0>>
LeftOrRight(t, angle) ==
    LET movement == vector3RotateY(t.turtleMovementAxis, angle)
        cross == vectorCrossProduct(movement, YAxis)
    IN [t EXCEPT !.turtleMovementAxis = movement,
                 !.turtleCrossProduct = IF NoAxis(cross) THEN @ ELSE cross]

UpOrDown(t, angle) ==
    [t EXCEPT !.turtleMovementAxis = vector3Rotate(@, t.turtleCrossProduct, angle)]

ReadWord(t, word) ==
    LET kind == KindOf(word)
        size == NumberOf(<<"AtomicSize">>)
    IN CASE kind = "S" -> Along(t, size)
         [] kind = "[" -> Opened(t)
         [] kind = "]" -> Closed(t)
         [] kind \in {"L", "R"} ->
                Along(LeftOrRight(t, NumberOf(AngleKey(kind))), Boosted(size))
         [] kind \in {"U", "D"} ->
                Along(UpOrDown(t, NumberOf(AngleKey(kind))), Boosted(size))
         [] OTHER -> t

Interpretation(text) == FoldLeft(ReadWord, Beginning, parseVector(text)).coordinates

(* Looking for what is not there puts it there. *)
Consulted(text) ==
    LET kinds == {KindOf(word) : word \in ToSet(parseVector(text))} \ {"[", "]", "other"}
    IN {AngleKey(kind) : kind \in kinds \ {"S"}}
         \cup IF kinds = {} THEN {} ELSE {<<"AtomicSize">>}

getSystem(text, interpretedSystem) ==
    /\ interpretedSystem = Interpretation(text)
    /\ systemAttributes' = Looked(Consulted(text))
    /\ UNCHANGED <<file, saved>>

-----------------------------------------------------------------------------
(* getPoints *)

(* A "+" is not part of a number: of 1e+06 it is 06 that is read. *)
Abs(n) == IF n < 0 THEN -n ELSE n
ReadBack(n) == IF Abs(n) < Million THEN n ELSE Exponent(Abs(n))

(* stack_cursor is unsigned; as a key of the map it is an int. *)
Key(cursor) == IF cursor < UintSize \div 2 THEN cursor ELSE cursor - UintSize

Branches(branches, key, points) ==
    [k \in {key} \cup DOMAIN branches |->
        IF k # key THEN branches[k]
        ELSE (IF k \in DOMAIN branches THEN branches[k] ELSE <<>>) \o points]

FaultyFlushed(g, step) ==       \* keeps the points it has put away
    [g EXCEPT !.branches = Branches(@, Key(g.stack_cursor), g.points),
              !.stack_cursor = (@ + step) % UintSize]

Flushed(g, step) ==
    [g EXCEPT !.branches = Branches(@, Key(g.stack_cursor), g.points), !.points = <<>>,
              !.stack_cursor = (@ + step) % UintSize]

(* Of what is no bracket, only three numbers are a point. *)
Sorted(g, item) ==
    CASE item = OpenBracket -> Flushed(g, 1)
      [] item = CloseBracket -> Flushed(g, UintSize - 1)
      [] Len(item) = 3 ->
           [g EXCEPT !.points = Append(@, <<ReadBack(item[1]), ReadBack(item[2]), ReadBack(item[3])>>)]
      [] OTHER -> g

getPoints(interpretedSystem) ==
    LET g == FoldLeft(Sorted, [stack_cursor |-> 0, branches |-> [k \in {} |-> <<>>], points |-> <<>>],
                      interpretedSystem)
    IN IF g.points = <<>> THEN g.branches ELSE Flushed(g, 0).branches
=============================================================================
