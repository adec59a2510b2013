------------------- MODULE LSystemIncrementalInterpreter -------------------
(***************************************************************************)
(* LSystemIncrementalInterpreter: a turtle that reads a string of genes,   *)
(* one at a call, and may be told in between that its points have moved.   *)
(*                                                                         *)
(* A turtle is a record of what the object keeps; the methods are          *)
(* functions of it and of the genes its system has when it is called,      *)
(* which others change.  A point's index is one less than its place in a   *)
(* sequence.  Its user, LSystemWorldObject, keeps the turtles.             *)
(***************************************************************************)
EXTENDS Geometry

CONSTANTS
    Genes,      \* the words a string of genes is made of
    Kind,       \* of each: its first letter if that is one of Turns and "S",
                \* the word itself if it is a bracket, "other" else
    MaxPoints,  \* 0xFFFFFFFD
    Bad         \* an attribute that is not there or not a number

Turns == {"L", "R", "U", "D"}
Kinds == Turns \cup {"S", "[", "]", "other"}

ASSUME InterpreterAssumption ==
    /\ Kind \in [Genes -> Kinds]
    /\ MaxPoints \in Nat \ {0}

OpenIndex == MaxPoints + 1      \* 0xFFFFFFFE: what "[" has for an index
CloseIndex == MaxPoints + 2     \* 0xFFFFFFFF: what "]" has
NoPoint == <<>>

Top(stack) == stack[Len(stack)]
Pushed(stack) == Append(stack, Top(stack))
Popped(stack) == SubSeq(stack, 1, Len(stack) - 1)
WithTop(stack, x) == [stack EXCEPT ![Len(stack)] = x]

(* Operators named Faulty... are what a plausible bug would make of the    *)
(* definition they precede; each breaks a property of the runs.            *)

(* What a turtle is constructed as.  attributes: the angles of the turns,  *)
(* StartPoint, StartDirection and AtomicSize; sizes: those of elements.    *)
NewTurtle(system, attributes) ==
    [system |-> system, attributes |-> attributes, sizes |-> [g \in {} |-> 0],
     points |-> <<Zero>>, elements |-> <<>>,
     pointStack |-> << <<0, Zero>> >>,
     movementStack |-> << <<0, 0, -1>> >>,
     verticalStack |-> << <<-1, 0, 0>> >>,
     horizontalStack |-> << <<0, 1, 0>> >>,
     currentSystemIndex |-> 0, bracketCount |-> 0]

-----------------------------------------------------------------------------
(* prev, updatePoint *)

Prev(t) == [index |-> Top(t.pointStack)[1], point |-> Top(t.pointStack)[2]]

FaultyUpdatePoint(t, index, point) ==   \* a branch goes on from where it was
    IF index < Len(t.points)
    THEN [t EXCEPT !.points[index + 1] = point,
                   !.pointStack = IF Top(@)[1] = index THEN WithTop(@, <<index, point>>) ELSE @]
    ELSE t

UpdatePoint(t, index, point) ==
    IF index < Len(t.points)
    THEN [t EXCEPT !.points[index + 1] = point,
                   !.pointStack = [k \in DOMAIN @ |->
                        IF @[k][1] = index THEN <<index, point>> ELSE @[k]]]
    ELSE t

-----------------------------------------------------------------------------
(* grow *)

IsFirst(t) ==
    /\ t.currentSystemIndex = 0 /\ Len(t.points) = 1
    /\ Len(t.pointStack) = 1 /\ Len(t.movementStack) = 1

(* Only the direction of an axis matters: 0.7 is 1 here. *)
Jiggled(v) == [v EXCEPT ![1] = @ + 1]

AtStartPoint(t, p) == [t EXCEPT !.points[1] = p, !.pointStack[1] = <<0, p>>]

InStartDirection(t, d) ==
    LET vertical == vectorCrossProduct(d, Jiggled(d)) IN
    [t EXCEPT !.movementStack[1] = d,
              !.verticalStack[1] = vertical,
              !.horizontalStack[1] = vectorCrossProduct(d, vertical)]

(* The first call heeds the attributes that were set since. *)
Started(t) ==
    LET p == t.attributes.startPoint
        d == t.attributes.startDirection
        placed == IF IsFirst(t) /\ p # Bad THEN AtStartPoint(t, p) ELSE t
    IN IF IsFirst(t) /\ d # Bad THEN InStartDirection(placed, d) ELSE placed

StepOf(t, g) == IF g \in DOMAIN t.sizes THEN t.sizes[g] ELSE t.attributes.atomicSize

(* About the horizontal axis; the vertical one is where they meet ... *)
TurnedLeftRight(t, q) ==
    LET axis == Top(t.horizontalStack)
        movement == vector3Rotate(Top(t.movementStack), axis, q)
    IN IF NoAxis(axis) THEN t
       ELSE [t EXCEPT !.movementStack = WithTop(@, movement),
                      !.verticalStack = WithTop(@, vectorCrossProduct(movement, axis))]

(* ... and the other way about. *)
TurnedUpDown(t, q) ==
    LET axis == Top(t.verticalStack)
        movement == vector3Rotate(Top(t.movementStack), axis, q)
    IN IF NoAxis(axis) THEN t
       ELSE [t EXCEPT !.movementStack = WithTop(@, movement),
                      !.horizontalStack = WithTop(@, vectorCrossProduct(movement, axis))]

Turned(t, kind) ==
    IF kind \in {"L", "R"} THEN TurnedLeftRight(t, t.attributes.angles[kind])
    ELSE TurnedUpDown(t, t.attributes.angles[kind])

(* A step along the movement, and a new point there. *)
Ahead(t, step) == matrixAdd(Top(t.pointStack)[2], Scaled(Top(t.movementStack), step))

Moved(t, g, step) ==
    [t EXCEPT !.points = Append(@, Ahead(t, step)),
              !.pointStack = WithTop(@, <<Len(t.points), Ahead(t, step)>>),
              !.elements = Append(@, g)]

Branched(t) ==
    [t EXCEPT !.bracketCount = @ + 1,
              !.pointStack = Pushed(@), !.movementStack = Pushed(@),
              !.verticalStack = Pushed(@), !.horizontalStack = Pushed(@)]

FaultyRejoined(t) ==        \* keeps an axis of the branch
    [t EXCEPT !.bracketCount = @ - 1,
              !.pointStack = Popped(@), !.movementStack = Popped(@),
              !.horizontalStack = Popped(@)]

Rejoined(t) ==
    [t EXCEPT !.bracketCount = @ - 1,
              !.pointStack = Popped(@), !.movementStack = Popped(@),
              !.verticalStack = Popped(@), !.horizontalStack = Popped(@)]

(* What grow returns, with the turtle it leaves behind.  It is the only    *)
(* member of a set: TLC works out a bound variable once, and an argument   *)
(* wherever it is used.                                                    *)
Result(ok, t, point, index) == [ok |-> ok, turtle |-> t, point |-> point, index |-> index]
Failed(t) == {Result(FALSE, t, NoPoint, 0)}
Grown(t, g, step) == Result(TRUE, Moved(t, g, step), Ahead(t, step), Len(t.points))
Unmoved(t, index) == {Result(TRUE, t, NoPoint, index)}

AllStacked(t) ==
    <<>> \notin {t.pointStack, t.movementStack, t.verticalStack, t.horizontalStack}

Interpreted(t, g) ==
    LET kind == Kind[g]
        step == StepOf(t, g)
        sized == AllStacked(t) /\ step # Bad
    IN CASE sized /\ kind = "S" -> {Grown(t, g, step)}
         [] sized /\ kind \in Turns /\ t.attributes.angles[kind] # Bad ->
                {Grown(u, g, step) : u \in {Turned(t, kind)}}
         [] sized /\ kind = "[" -> Unmoved(Branched(t), OpenIndex)
         [] sized /\ kind = "]" /\ t.bracketCount # 0 ->
                Unmoved(Rejoined(t), CloseIndex)
         [] OTHER -> Failed(t)

HasGene(t, genes) == t.currentSystemIndex < Len(genes) /\ Len(t.points) < MaxPoints

(* The gene is behind the turtle whether anything comes of it or not.      *)
Begun(t) == [Started(t) EXCEPT !.currentSystemIndex = @ + 1]

Grow(t, genes) ==
    IF ~HasGene(t, genes) THEN Failed(t)
    ELSE UNION {Interpreted(u, genes[t.currentSystemIndex + 1]) : u \in {Begun(t)}}
=============================================================================
