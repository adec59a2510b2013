---------------------- MODULE LSystemWorldObjectProofs ----------------------
(***************************************************************************)
(* Serpents that grow, for any number of them, any genes, files and        *)
(* positions, and whatever mutation, growth and physics make of them.      *)
(*                                                                         *)
(* TurtleInv is what a turtle keeps by itself: each of its methods has a   *)
(* lemma.  WorldInv adds what the serpents are to each other and where the *)
(* render thread is; it is inductive, with one lemma per action.  Four     *)
(* theorems follow from it.  Two more invariants are inductive with it:    *)
(* JointsInv, that relates what was read to the stacks, the elements and   *)
(* the joints; TypesInv, the types.                                        *)
(***************************************************************************)
EXTENDS LSystemWorldObject, SequenceTheorems, FiniteSetTheorems, WellFoundedInduction, TLAPS

(* Sequences, of anything.  Change is an EXCEPT with a name, so that       *)
(* lemmas can be about it.                                                 *)
IsSeq(s) == s \in Seq({s[n] : n \in DOMAIN s})
Change(s, m, x) == [s EXCEPT ![m] = x]

LEMMA SeqIsSeq == ASSUME NEW S, NEW s \in Seq(S) PROVE IsSeq(s) /\ Len(s) \in Nat /\ DOMAIN s = 1 .. Len(s)
  BY DEF IsSeq

LEMMA IsSeqShape == ASSUME NEW s, IsSeq(s) PROVE Len(s) \in Nat /\ DOMAIN s = 1 .. Len(s)
  BY DEF IsSeq

LEMMA Appended ==
  ASSUME NEW s, IsSeq(s), NEW x
  PROVE  /\ IsSeq(Append(s, x)) /\ Len(Append(s, x)) = Len(s) + 1
         /\ DOMAIN Append(s, x) = 1 .. Len(s) + 1
         /\ \A n \in 1 .. Len(s) : Append(s, x)[n] = s[n]
         /\ Append(s, x)[Len(s) + 1] = x
<1> DEFINE S == {s[n] : n \in DOMAIN s} \cup {x}
<1>1. s \in Seq(S) /\ x \in S
  BY DEF IsSeq
<1> HIDE DEF S
<1>2. /\ Append(s, x) \in Seq(S) /\ Len(Append(s, x)) = Len(s) + 1
      /\ \A n \in 1 .. Len(s) : Append(s, x)[n] = s[n]
      /\ Append(s, x)[Len(s) + 1] = x
  BY <1>1, AppendProperties
<1>3. IsSeq(Append(s, x)) /\ DOMAIN Append(s, x) = 1 .. Len(Append(s, x))
  BY <1>2, SeqIsSeq
<1> QED BY <1>2, <1>3

LEMMA Changed ==
  ASSUME NEW s, IsSeq(s), NEW m \in 1 .. Len(s), NEW x
  PROVE  /\ IsSeq(Change(s, m, x)) /\ Len(Change(s, m, x)) = Len(s)
         /\ DOMAIN Change(s, m, x) = 1 .. Len(s)
         /\ \A n \in 1 .. Len(s) : Change(s, m, x)[n] = IF n = m THEN x ELSE s[n]
<1> DEFINE S == {s[n] : n \in DOMAIN s} \cup {x}
           w == Change(s, m, x)
<1>1. s \in Seq(S) /\ x \in S
  BY DEF IsSeq
<1> HIDE DEF S
<1>2. /\ w \in Seq(S) /\ Len(w) = Len(s)
      /\ \A n \in 1 .. Len(s) : w[n] = IF n = m THEN x ELSE s[n]
  BY <1>1, ExceptSeq DEF Change
<1> HIDE DEF w
<1>3. IsSeq(w) /\ DOMAIN w = 1 .. Len(w)
  BY <1>2, SeqIsSeq
<1> QED BY <1>2, <1>3 DEF w

LEMMA WithTopOf ==
  ASSUME NEW s, IsSeq(s), Len(s) >= 1, NEW x
  PROVE  /\ IsSeq(WithTop(s, x)) /\ Len(WithTop(s, x)) = Len(s)
         /\ DOMAIN WithTop(s, x) = 1 .. Len(s)
         /\ \A n \in 1 .. Len(s) : WithTop(s, x)[n] = IF n = Len(s) THEN x ELSE s[n]
<1>1. Len(s) \in 1 .. Len(s) /\ WithTop(s, x) = Change(s, Len(s), x)
  BY IsSeqShape DEF WithTop, Change
<1> QED BY <1>1, Changed

LEMMA PoppedOf ==
  ASSUME NEW s, IsSeq(s), Len(s) >= 1
  PROVE  /\ IsSeq(Popped(s)) /\ Len(Popped(s)) = Len(s) - 1
         /\ DOMAIN Popped(s) = 1 .. Len(s) - 1
         /\ \A n \in 1 .. Len(s) - 1 : Popped(s)[n] = s[n]
<1> DEFINE S == {s[n] : n \in DOMAIN s}
           m == Len(s) - 1
           p == SubSeq(s, 1, m)
<1>1. Len(s) \in Nat /\ m \in Int /\ m >= 0 /\ \A n \in 1 .. m : s[n] \in S
  BY DEF IsSeq
<1> HIDE DEF S, m
<1>2. /\ p \in Seq(S) /\ Len(p) = IF 1 <= m THEN m - 1 + 1 ELSE 0
      /\ \A n \in 1 .. m - 1 + 1 : p[n] = s[1 + n - 1]
  BY <1>1, SubSeqProperties
<1>3. Len(p) = m /\ \A n \in 1 .. m : p[n] = s[n]
  BY <1>1, <1>2
<1>4. IsSeq(p) /\ DOMAIN p = 1 .. Len(p)
  BY <1>2, SeqIsSeq
<1> QED BY <1>3, <1>4 DEF m, Popped

-----------------------------------------------------------------------------
(* A turtle: the four stacks have a level for the trunk and one for every  *)
(* open bracket, and what the point stack remembers of a point is where    *)
(* the point is.                                                           *)
Fields == {"system", "attributes", "sizes", "points", "elements", "pointStack",
           "movementStack", "verticalStack", "horizontalStack",
           "currentSystemIndex", "bracketCount"}

StackCurrent(t) ==
    \A level \in DOMAIN t.pointStack :
        LET place == t.pointStack[level] IN
        place[1] \in 0 .. Len(t.points) - 1 /\ place[2] = t.points[place[1] + 1]

TurtleInv(t) ==
    /\ DOMAIN t = Fields
    /\ IsSeq(t.points) /\ Len(t.points) >= 1
    /\ IsSeq(t.pointStack) /\ IsSeq(t.movementStack)
    /\ IsSeq(t.verticalStack) /\ IsSeq(t.horizontalStack)
    /\ t.bracketCount \in Nat
    /\ Together(t) /\ StackCurrent(t)

LEMMA NewTurtleInv ==
  ASSUME NEW s, NEW a
  PROVE  TurtleInv(NewTurtle(s, a)) /\ NewTurtle(s, a).system = s
<1> DEFINE t == NewTurtle(s, a)
<1>1. DOMAIN t = Fields /\ t.system = s /\ t.bracketCount = 0
  BY DEF NewTurtle, Fields
<1>2. \A x : IsSeq(<<x>>) /\ Len(<<x>>) = 1 /\ DOMAIN <<x>> = 1 .. 1 /\ <<x>>[1] = x
  BY DEF IsSeq
<1>3. /\ t.points = <<Zero>> /\ t.pointStack = << <<0, Zero>> >>
      /\ \E x : t.movementStack = <<x>>
      /\ \E x : t.verticalStack = <<x>>
      /\ \E x : t.horizontalStack = <<x>>
  BY DEF NewTurtle
<1>4. Together(t)
  BY <1>1, <1>2, <1>3 DEF Together
<1>5. StackCurrent(t)
  BY <1>2, <1>3 DEF StackCurrent
<1> HIDE DEF t
<1>6. IsSeq(t.points) /\ Len(t.points) = 1
  BY <1>2, <1>3
<1>7. /\ IsSeq(t.pointStack) /\ IsSeq(t.movementStack)
      /\ IsSeq(t.verticalStack) /\ IsSeq(t.horizontalStack)
  BY <1>2, <1>3
<1>8. TurtleInv(t) /\ t.system = s
  BY <1>1, <1>4, <1>5, <1>6, <1>7 DEF TurtleInv
<1> QED BY <1>8 DEF t

(* Attributes and sizes do not matter to it. *)
LEMMA ConfiguredKeeps ==
  ASSUME NEW t, TurtleInv(t), NEW pos
  PROVE  TurtleInv(Configured(t, pos)) /\ Configured(t, pos).system = t.system
         /\ Configured(t, pos).points = t.points
<1> DEFINE u == Configured(t, pos)
<1>1. /\ DOMAIN u = Fields
      /\ \A f \in Fields \ {"attributes", "sizes"} : u[f] = t[f]
  BY DEF Configured, TurtleInv, Fields
<1>2. /\ u.points = t.points /\ u.pointStack = t.pointStack
      /\ u.movementStack = t.movementStack /\ u.verticalStack = t.verticalStack
      /\ u.horizontalStack = t.horizontalStack /\ u.bracketCount = t.bracketCount
      /\ u.system = t.system
  BY <1>1 DEF Fields
<1> HIDE DEF u
<1>3. TurtleInv(u) /\ u.system = t.system /\ u.points = t.points
  BY <1>1, <1>2 DEF TurtleInv, Together, StackCurrent
<1> QED BY <1>3 DEF u

LEMMA StartPointKeeps ==
  ASSUME NEW t, TurtleInv(t), NEW pos
  PROVE  LET u == [t EXCEPT !.attributes.startPoint = pos] IN
         TurtleInv(u) /\ u.system = t.system /\ u.points = t.points
<1> DEFINE u == [t EXCEPT !.attributes.startPoint = pos]
<1>1. /\ DOMAIN u = Fields
      /\ \A f \in Fields \ {"attributes"} : u[f] = t[f]
  BY DEF TurtleInv, Fields
<1>2. /\ u.points = t.points /\ u.pointStack = t.pointStack
      /\ u.movementStack = t.movementStack /\ u.verticalStack = t.verticalStack
      /\ u.horizontalStack = t.horizontalStack /\ u.bracketCount = t.bracketCount
      /\ u.system = t.system
  BY <1>1 DEF Fields
<1> HIDE DEF u
<1>3. TurtleInv(u) /\ u.system = t.system /\ u.points = t.points
  BY <1>1, <1>2 DEF TurtleInv, Together, StackCurrent
<1> QED BY <1>3 DEF u

(* A point that has moved has moved on every level of the stack. *)
LEMMA UpdatePointKeeps ==
  ASSUME NEW t, TurtleInv(t), NEW index \in Nat, NEW point
  PROVE  LET u == UpdatePoint(t, index, point) IN
         TurtleInv(u) /\ u.system = t.system /\ Len(u.points) = Len(t.points)
<1> DEFINE u == UpdatePoint(t, index, point)
           moved == [n \in DOMAIN t.pointStack |->
                        IF t.pointStack[n][1] = index THEN <<index, point>> ELSE t.pointStack[n]]
<1> SUFFICES ASSUME index < Len(t.points)
             PROVE  TurtleInv(u) /\ u.system = t.system /\ Len(u.points) = Len(t.points)
  BY DEF UpdatePoint
<1>1. /\ DOMAIN u = Fields
      /\ u.points = Change(t.points, index + 1, point)
      /\ u.pointStack = moved
      /\ u.movementStack = t.movementStack /\ u.verticalStack = t.verticalStack
      /\ u.horizontalStack = t.horizontalStack /\ u.bracketCount = t.bracketCount
      /\ u.system = t.system
  BY DEF UpdatePoint, TurtleInv, Fields, Change
<1>2. IsSeq(t.points) /\ Len(t.points) \in Nat /\ index + 1 \in 1 .. Len(t.points)
  BY IsSeqShape DEF TurtleInv
<1>3. /\ IsSeq(u.points) /\ Len(u.points) = Len(t.points)
      /\ \A n \in 1 .. Len(t.points) : u.points[n] = IF n = index + 1 THEN point ELSE t.points[n]
  BY <1>1, <1>2, Changed
<1>4. Len(t.pointStack) \in Nat /\ DOMAIN t.pointStack = 1 .. Len(t.pointStack)
  BY IsSeqShape DEF TurtleInv
<1>5. IsSeq(moved) /\ Len(moved) = Len(t.pointStack)
  BY <1>4 DEF IsSeq
<1> HIDE DEF u, moved
<1>6. Together(u)
  BY <1>1, <1>5 DEF TurtleInv, Together
<1>7. ASSUME NEW level \in DOMAIN moved
      PROVE  /\ moved[level][1] \in 0 .. Len(t.points) - 1
             /\ moved[level][2] = u.points[moved[level][1] + 1]
  <2>1. /\ level \in DOMAIN t.pointStack
        /\ moved[level] = IF t.pointStack[level][1] = index THEN <<index, point>> ELSE t.pointStack[level]
    BY DEF moved
  <2>2. /\ t.pointStack[level][1] \in 0 .. Len(t.points) - 1
        /\ t.pointStack[level][2] = t.points[t.pointStack[level][1] + 1]
    BY <2>1 DEF TurtleInv, StackCurrent
  <2> DEFINE p == t.pointStack[level][1]
  <2>3. p + 1 \in 1 .. Len(t.points) /\ u.points[p + 1] = IF p = index THEN point ELSE t.points[p + 1]
    <3>1. p \in 0 .. Len(t.points) - 1
      BY <2>2
    <3> HIDE DEF p
    <3>2. p + 1 \in 1 .. Len(t.points) /\ (p + 1 = index + 1 <=> p = index)
      BY <1>2, <3>1
    <3> QED BY <1>3, <3>2
  <2>4. CASE p = index
    <3>1. moved[level] = <<index, point>>
      BY <2>1, <2>4
    <3>2. moved[level][1] = index /\ moved[level][2] = point
      BY <3>1
    <3> QED BY <2>2, <2>3, <2>4, <3>2
  <2>5. CASE p # index
    BY <2>1, <2>2, <2>3, <2>5
  <2> QED BY <2>4, <2>5
<1>8. u.pointStack = moved /\ Len(u.points) = Len(t.points)
  BY <1>1, <1>3
<1>9. StackCurrent(u)
  BY ONLY <1>7, <1>8 DEF StackCurrent
<1> QED BY <1>1, <1>3, <1>5, <1>6, <1>9 DEF TurtleInv

(* Nor do the directions, as long as there are as many. *)
LEMMA OtherAxes ==
  ASSUME NEW t, TurtleInv(t), NEW u, DOMAIN u = Fields,
         u.points = t.points, u.pointStack = t.pointStack, u.bracketCount = t.bracketCount,
         IsSeq(u.movementStack), Len(u.movementStack) = Len(t.movementStack),
         IsSeq(u.verticalStack), Len(u.verticalStack) = Len(t.verticalStack),
         IsSeq(u.horizontalStack), Len(u.horizontalStack) = Len(t.horizontalStack)
  PROVE  TurtleInv(u)
BY DEF TurtleInv, Together, StackCurrent

LEMMA StartedKeeps ==
  ASSUME NEW t, TurtleInv(t)
  PROVE  /\ TurtleInv(Started(t)) /\ Started(t).system = t.system
         /\ Len(Started(t).points) = Len(t.points)
<1>1. ASSUME NEW s, TurtleInv(s), Len(s.pointStack) = 1, NEW d
      PROVE  LET u == InStartDirection(s, d) IN
             TurtleInv(u) /\ u.system = s.system /\ u.points = s.points
  <2> DEFINE u == InStartDirection(s, d)
  <2> DEFINE v == vectorCrossProduct(d, Jiggled(d))
             h == vectorCrossProduct(d, v)
  <2> HIDE DEF v, h
  <2>1. /\ DOMAIN u = Fields
        /\ u.points = s.points /\ u.pointStack = s.pointStack
        /\ u.movementStack = Change(s.movementStack, 1, d)
        /\ u.verticalStack = Change(s.verticalStack, 1, v)
        /\ u.horizontalStack = Change(s.horizontalStack, 1, h)
        /\ u.bracketCount = s.bracketCount /\ u.system = s.system
    BY <1>1 DEF InStartDirection, TurtleInv, Fields, Change, v, h
  <2> HIDE DEF u
  <2>2. /\ IsSeq(s.movementStack) /\ 1 \in 1 .. Len(s.movementStack)
        /\ IsSeq(s.verticalStack) /\ 1 \in 1 .. Len(s.verticalStack)
        /\ IsSeq(s.horizontalStack) /\ 1 \in 1 .. Len(s.horizontalStack)
    BY <1>1 DEF TurtleInv, Together
  <2>3. /\ IsSeq(u.movementStack) /\ Len(u.movementStack) = Len(s.movementStack)
        /\ IsSeq(u.verticalStack) /\ Len(u.verticalStack) = Len(s.verticalStack)
        /\ IsSeq(u.horizontalStack) /\ Len(u.horizontalStack) = Len(s.horizontalStack)
    BY <2>1, <2>2, Changed
  <2>4. TurtleInv(u) /\ u.system = s.system /\ u.points = s.points
    BY <1>1, <2>1, <2>3, OtherAxes
  <2> QED BY <2>4 DEF u
<1>2. ASSUME Len(t.points) = 1, Len(t.pointStack) = 1, NEW p
      PROVE  LET u == AtStartPoint(t, p) IN
             /\ TurtleInv(u) /\ u.system = t.system
             /\ Len(u.points) = 1 /\ Len(u.pointStack) = 1
  <2> DEFINE u == AtStartPoint(t, p)
  <2>1. /\ DOMAIN u = Fields
        /\ u.points = Change(t.points, 1, p)
        /\ u.pointStack = Change(t.pointStack, 1, <<0, p>>)
        /\ u.movementStack = t.movementStack /\ u.verticalStack = t.verticalStack
        /\ u.horizontalStack = t.horizontalStack
        /\ u.bracketCount = t.bracketCount /\ u.system = t.system
    BY DEF AtStartPoint, TurtleInv, Fields, Change
  <2> HIDE DEF u
  <2>2. /\ IsSeq(t.points) /\ 1 \in 1 .. Len(t.points)
        /\ IsSeq(t.pointStack) /\ 1 \in 1 .. Len(t.pointStack)
    BY <1>2 DEF TurtleInv
  <2>3. /\ IsSeq(u.points) /\ Len(u.points) = 1 /\ u.points[1] = p
        /\ IsSeq(u.pointStack) /\ Len(u.pointStack) = 1
        /\ DOMAIN u.pointStack = 1 .. 1 /\ u.pointStack[1] = <<0, p>>
    <3>1. IsSeq(u.points) /\ Len(u.points) = 1 /\ u.points[1] = p
      <4>1. /\ IsSeq(u.points) /\ Len(u.points) = Len(t.points)
            /\ \A n \in 1 .. Len(t.points) : u.points[n] = IF n = 1 THEN p ELSE t.points[n]
        BY <2>1, <2>2, Changed
      <4> QED BY <1>2, <2>2, <4>1
    <3>2. /\ IsSeq(u.pointStack) /\ Len(u.pointStack) = 1
          /\ DOMAIN u.pointStack = 1 .. 1 /\ u.pointStack[1] = <<0, p>>
      BY <1>2, <2>1, <2>2, Changed
    <3> QED BY <3>1, <3>2
  <2>4. StackCurrent(u)
    BY <2>3 DEF StackCurrent
  <2>5. TurtleInv(u) /\ u.system = t.system
    BY <1>2, <2>1, <2>3, <2>4 DEF TurtleInv, Together
  <2> QED BY <2>3, <2>5 DEF u
<1> DEFINE p == t.attributes.startPoint
           d == t.attributes.startDirection
           placed == IF IsFirst(t) /\ p # Bad THEN AtStartPoint(t, p) ELSE t
<1>3. /\ TurtleInv(placed) /\ placed.system = t.system
      /\ Len(placed.points) = Len(t.points)
      /\ IsFirst(t) => Len(placed.pointStack) = 1
  BY <1>2 DEF IsFirst
<1>4. Started(t) = IF IsFirst(t) /\ d # Bad THEN InStartDirection(placed, d) ELSE placed
  BY DEF Started
<1> HIDE DEF placed
<1> QED BY <1>1, <1>3, <1>4

LEMMA BegunKeeps ==
  ASSUME NEW t, TurtleInv(t)
  PROVE  /\ TurtleInv(Begun(t)) /\ Begun(t).system = t.system
         /\ Len(Begun(t).points) = Len(t.points)
<1> DEFINE s == Started(t)
           u == Begun(t)
<1>1. TurtleInv(s) /\ s.system = t.system /\ Len(s.points) = Len(t.points)
  BY StartedKeeps
<1>2. /\ DOMAIN u = Fields
      /\ u.points = s.points /\ u.pointStack = s.pointStack
      /\ u.movementStack = s.movementStack /\ u.verticalStack = s.verticalStack
      /\ u.horizontalStack = s.horizontalStack /\ u.bracketCount = s.bracketCount
      /\ u.system = s.system
  BY <1>1 DEF Begun, TurtleInv, Fields
<1> HIDE DEF s, u
<1>3. TurtleInv(u)
  BY <1>1, <1>2, OtherAxes DEF TurtleInv
<1>4. TurtleInv(u) /\ u.system = t.system /\ Len(u.points) = Len(t.points)
  BY <1>1, <1>2, <1>3
<1> QED BY <1>4 DEF u

LEMMA TurnedKeeps ==
  ASSUME NEW t, TurtleInv(t), NEW kind
  PROVE  LET u == Turned(t, kind) IN
         TurtleInv(u) /\ u.system = t.system /\ u.points = t.points
<1> DEFINE q == t.attributes.angles[kind]
<1>1. /\ IsSeq(t.movementStack) /\ Len(t.movementStack) >= 1
      /\ IsSeq(t.verticalStack) /\ Len(t.verticalStack) >= 1
      /\ IsSeq(t.horizontalStack) /\ Len(t.horizontalStack) >= 1
  BY DEF TurtleInv, Together
<1>3. LET u == TurnedLeftRight(t, q) IN
      TurtleInv(u) /\ u.system = t.system /\ u.points = t.points
  <2> DEFINE u == TurnedLeftRight(t, q)
             movement == vector3Rotate(Top(t.movementStack), Top(t.horizontalStack), q)
             vertical == vectorCrossProduct(movement, Top(t.horizontalStack))
  <2> SUFFICES ASSUME ~NoAxis(Top(t.horizontalStack))
               PROVE  TurtleInv(u) /\ u.system = t.system /\ u.points = t.points
    BY DEF TurnedLeftRight
  <2> HIDE DEF movement, vertical
  <2>1. /\ DOMAIN u = Fields /\ u.points = t.points /\ u.pointStack = t.pointStack
        /\ u.bracketCount = t.bracketCount /\ u.system = t.system
        /\ u.movementStack = WithTop(t.movementStack, movement)
        /\ u.verticalStack = WithTop(t.verticalStack, vertical)
        /\ u.horizontalStack = t.horizontalStack
    BY DEF TurnedLeftRight, TurtleInv, Fields, movement, vertical
  <2> HIDE DEF u
  <2>2. /\ IsSeq(u.movementStack) /\ Len(u.movementStack) = Len(t.movementStack)
        /\ IsSeq(u.verticalStack) /\ Len(u.verticalStack) = Len(t.verticalStack)
    BY <1>1, <2>1, WithTopOf
  <2> QED BY <1>1, <2>1, <2>2, OtherAxes
<1>4. LET u == TurnedUpDown(t, q) IN
      TurtleInv(u) /\ u.system = t.system /\ u.points = t.points
  <2> DEFINE u == TurnedUpDown(t, q)
             movement == vector3Rotate(Top(t.movementStack), Top(t.verticalStack), q)
             horizontal == vectorCrossProduct(movement, Top(t.verticalStack))
  <2> SUFFICES ASSUME ~NoAxis(Top(t.verticalStack))
               PROVE  TurtleInv(u) /\ u.system = t.system /\ u.points = t.points
    BY DEF TurnedUpDown
  <2> HIDE DEF movement, horizontal
  <2>1. /\ DOMAIN u = Fields /\ u.points = t.points /\ u.pointStack = t.pointStack
        /\ u.bracketCount = t.bracketCount /\ u.system = t.system
        /\ u.movementStack = WithTop(t.movementStack, movement)
        /\ u.verticalStack = t.verticalStack
        /\ u.horizontalStack = WithTop(t.horizontalStack, horizontal)
    BY DEF TurnedUpDown, TurtleInv, Fields, movement, horizontal
  <2> HIDE DEF u
  <2>2. /\ IsSeq(u.movementStack) /\ Len(u.movementStack) = Len(t.movementStack)
        /\ IsSeq(u.horizontalStack) /\ Len(u.horizontalStack) = Len(t.horizontalStack)
    BY <1>1, <2>1, WithTopOf
  <2> QED BY <1>1, <2>1, <2>2, OtherAxes
<1> QED BY <1>3, <1>4 DEF Turned

LEMMA MovedKeeps ==
  ASSUME NEW t, TurtleInv(t), NEW g, NEW step
  PROVE  LET u == Moved(t, g, step) IN
         TurtleInv(u) /\ u.system = t.system /\ Len(u.points) = Len(t.points) + 1
<1> DEFINE u == Moved(t, g, step)
           p == Ahead(t, step)
           n == Len(t.points)
           m == Len(t.pointStack)
<1> HIDE DEF p
<1>1. /\ DOMAIN u = Fields
      /\ u.points = Append(t.points, p)
      /\ u.pointStack = WithTop(t.pointStack, <<n, p>>)
      /\ u.movementStack = t.movementStack /\ u.verticalStack = t.verticalStack
      /\ u.horizontalStack = t.horizontalStack
      /\ u.bracketCount = t.bracketCount /\ u.system = t.system
  BY DEF Moved, TurtleInv, Fields, p
<1> HIDE DEF u
<1>2. /\ IsSeq(t.points) /\ n \in Nat /\ n >= 1 /\ IsSeq(t.pointStack) /\ m \in 1 .. m
      /\ Len(t.points) = n /\ Len(t.pointStack) = m /\ m = t.bracketCount + 1 /\ DOMAIN t.pointStack = 1 .. m
  BY IsSeqShape DEF TurtleInv, Together
<1> HIDE DEF n, m
<1>3. /\ IsSeq(u.points) /\ Len(u.points) = n + 1 /\ u.points[n + 1] = p
      /\ \A i \in 1 .. n : u.points[i] = t.points[i]
  BY <1>1, <1>2, Appended
<1>4. /\ IsSeq(u.pointStack) /\ Len(u.pointStack) = m /\ DOMAIN u.pointStack = 1 .. m
      /\ \A i \in 1 .. m : u.pointStack[i] = IF i = m THEN <<n, p>> ELSE t.pointStack[i]
  BY <1>1, <1>2, WithTopOf
<1>5. ASSUME NEW i \in DOMAIN u.pointStack
      PROVE  /\ u.pointStack[i][1] \in 0 .. Len(u.points) - 1
             /\ u.pointStack[i][2] = u.points[u.pointStack[i][1] + 1]
  <2>1. CASE i = m
    <3>1. u.pointStack[i] = <<n, p>>
      BY <1>4, <2>1
    <3>2. u.pointStack[i][1] = n /\ u.pointStack[i][2] = p
      BY <3>1
    <3> QED BY <1>2, <1>3, <3>2
  <2>2. CASE i # m
    <3>1. u.pointStack[i] = t.pointStack[i] /\ i \in DOMAIN t.pointStack
      BY <1>2, <1>4, <2>2
    <3> DEFINE j == t.pointStack[i][1]
    <3>2. j \in 0 .. n - 1 /\ t.pointStack[i][2] = t.points[j + 1]
      BY <1>2, <3>1 DEF TurtleInv, StackCurrent
    <3>3. u.pointStack[i][1] = j /\ u.pointStack[i][2] = t.points[j + 1]
      BY <3>1, <3>2
    <3> HIDE DEF j
    <3>4. j \in 0 .. n /\ j + 1 \in 1 .. n
      BY <1>2, <3>2
    <3> QED BY <1>2, <1>3, <3>3, <3>4
  <2> QED BY <2>1, <2>2
<1>6. StackCurrent(u)
  BY <1>5 DEF StackCurrent
<1>7. TurtleInv(u)
  BY <1>1, <1>2, <1>3, <1>4, <1>6 DEF TurtleInv, Together
<1> QED BY <1>1, <1>3, <1>7 DEF u

LEMMA BranchedKeeps ==
  ASSUME NEW t, TurtleInv(t)
  PROVE  LET u == Branched(t) IN
         TurtleInv(u) /\ u.system = t.system /\ u.points = t.points
<1> DEFINE u == Branched(t)
<1>1. /\ DOMAIN u = Fields /\ u.points = t.points /\ u.system = t.system
      /\ u.pointStack = Pushed(t.pointStack) /\ u.movementStack = Pushed(t.movementStack)
      /\ u.verticalStack = Pushed(t.verticalStack)
      /\ u.horizontalStack = Pushed(t.horizontalStack)
      /\ u.bracketCount = t.bracketCount + 1
  BY DEF Branched, TurtleInv, Fields
<1> HIDE DEF u
<1>2. ASSUME NEW s, IsSeq(s)
      PROVE  /\ IsSeq(Pushed(s)) /\ Len(Pushed(s)) = Len(s) + 1
             /\ DOMAIN Pushed(s) = 1 .. Len(s) + 1
             /\ \A n \in 1 .. Len(s) : Pushed(s)[n] = s[n]
             /\ Pushed(s)[Len(s) + 1] = s[Len(s)]
  BY <1>2, Appended DEF Pushed, Top
<1> DEFINE n == t.bracketCount
<1>8. /\ n \in Nat
      /\ IsSeq(t.pointStack) /\ Len(t.pointStack) = n + 1
      /\ IsSeq(t.movementStack) /\ Len(t.movementStack) = n + 1
      /\ IsSeq(t.verticalStack) /\ Len(t.verticalStack) = n + 1
      /\ IsSeq(t.horizontalStack) /\ Len(t.horizontalStack) = n + 1
  BY DEF TurtleInv, Together
<1>3. /\ IsSeq(u.pointStack) /\ Len(u.pointStack) = n + 2
      /\ IsSeq(u.movementStack) /\ Len(u.movementStack) = n + 2
      /\ IsSeq(u.verticalStack) /\ Len(u.verticalStack) = n + 2
      /\ IsSeq(u.horizontalStack) /\ Len(u.horizontalStack) = n + 2
  <2> HIDE DEF n
  <2>1. \A s : IsSeq(s) /\ Len(s) = n + 1 => IsSeq(Pushed(s)) /\ Len(Pushed(s)) = n + 2
    BY <1>2, <1>8
  <2> QED BY <1>1, <1>8, <2>1
<1>4. Together(u) /\ u.bracketCount \in Nat
  BY <1>1, <1>8, <1>3 DEF Together
<1>5. ASSUME NEW i \in DOMAIN u.pointStack
      PROVE  \E x \in DOMAIN t.pointStack : u.pointStack[i] = t.pointStack[x]
  <2> DEFINE m == Len(t.pointStack)
  <2>1. /\ m \in Nat /\ m >= 1 /\ DOMAIN t.pointStack = 1 .. m /\ i \in 1 .. m + 1
        /\ \A x \in 1 .. m : u.pointStack[x] = t.pointStack[x]
        /\ u.pointStack[m + 1] = t.pointStack[m]
    <3>1. m \in Nat /\ m >= 1 /\ DOMAIN t.pointStack = 1 .. m
      BY <1>8, IsSeqShape
    <3> HIDE DEF m
    <3>2. /\ DOMAIN u.pointStack = 1 .. m + 1
          /\ \A x \in 1 .. m : u.pointStack[x] = t.pointStack[x]
          /\ u.pointStack[m + 1] = t.pointStack[m]
      BY <1>1, <1>2, <1>8 DEF m
    <3> QED BY <1>5, <3>1, <3>2
  <2> HIDE DEF m
  <2>2. CASE i = m + 1
    BY <2>1, <2>2
  <2>3. CASE i \in 1 .. m
    BY <2>1, <2>3
  <2> QED BY <2>1, <2>2, <2>3
<1>6. StackCurrent(u)
  BY <1>1, <1>5 DEF TurtleInv, StackCurrent
<1>7. TurtleInv(u)
  BY <1>1, <1>3, <1>4, <1>6 DEF TurtleInv
<1> QED BY <1>1, <1>7 DEF u

(* With a bracket open there is a level to take off each stack. *)
LEMMA RejoinedKeeps ==
  ASSUME NEW t, TurtleInv(t), t.bracketCount # 0
  PROVE  LET u == Rejoined(t) IN
         TurtleInv(u) /\ u.system = t.system /\ u.points = t.points
<1> DEFINE u == Rejoined(t)
<1>1. /\ DOMAIN u = Fields /\ u.points = t.points /\ u.system = t.system
      /\ u.pointStack = Popped(t.pointStack) /\ u.movementStack = Popped(t.movementStack)
      /\ u.verticalStack = Popped(t.verticalStack)
      /\ u.horizontalStack = Popped(t.horizontalStack)
      /\ u.bracketCount = t.bracketCount - 1
  BY DEF Rejoined, TurtleInv, Fields
<1> HIDE DEF u
<1>2. /\ t.bracketCount \in Nat /\ t.bracketCount >= 1
      /\ IsSeq(t.pointStack) /\ Len(t.pointStack) = t.bracketCount + 1
      /\ IsSeq(t.movementStack) /\ Len(t.movementStack) = t.bracketCount + 1
      /\ IsSeq(t.verticalStack) /\ Len(t.verticalStack) = t.bracketCount + 1
      /\ IsSeq(t.horizontalStack) /\ Len(t.horizontalStack) = t.bracketCount + 1
  BY DEF TurtleInv, Together
<1>3. /\ IsSeq(u.pointStack) /\ Len(u.pointStack) = t.bracketCount
      /\ IsSeq(u.movementStack) /\ Len(u.movementStack) = t.bracketCount
      /\ IsSeq(u.verticalStack) /\ Len(u.verticalStack) = t.bracketCount
      /\ IsSeq(u.horizontalStack) /\ Len(u.horizontalStack) = t.bracketCount
  <2> DEFINE n == t.bracketCount
  <2> HIDE DEF n
  <2>1. \A s : IsSeq(s) /\ Len(s) = n + 1 => IsSeq(Popped(s)) /\ Len(Popped(s)) = n
    BY <1>2, PoppedOf DEF n
  <2> QED BY <1>1, <1>2, <2>1 DEF n
<1>4. Together(u) /\ u.bracketCount \in Nat
  BY <1>1, <1>2, <1>3 DEF Together
<1>5. ASSUME NEW i \in DOMAIN u.pointStack
      PROVE  i \in DOMAIN t.pointStack /\ u.pointStack[i] = t.pointStack[i]
  <2> DEFINE m == Len(t.pointStack)
  <2>1. /\ m \in Nat /\ DOMAIN t.pointStack = 1 .. m /\ i \in 1 .. m - 1
        /\ \A n \in 1 .. m - 1 : u.pointStack[n] = t.pointStack[n]
    <3>1. m \in Nat /\ m >= 1 /\ DOMAIN t.pointStack = 1 .. m
      BY <1>2, IsSeqShape
    <3>2. /\ DOMAIN u.pointStack = 1 .. m - 1
          /\ \A n \in 1 .. m - 1 : u.pointStack[n] = t.pointStack[n]
      BY <1>1, <1>2, <3>1, PoppedOf
    <3> HIDE DEF m
    <3> QED BY <1>5, <3>1, <3>2
  <2> HIDE DEF m
  <2> QED BY <2>1
<1>6. StackCurrent(u)
  BY <1>1, <1>5 DEF TurtleInv, StackCurrent
<1>7. TurtleInv(u)
  BY <1>1, <1>3, <1>4, <1>6 DEF TurtleInv
<1> QED BY <1>1, <1>7 DEF u

(* What one call of grow does to a turtle *)
GrewTo(t, r) ==
    /\ TurtleInv(r.turtle) /\ r.turtle.system = t.system
    /\ r.index \in Nat
    /\ \/ Len(r.turtle.points) = Len(t.points) /\ (~r.ok \/ r.point = NoPoint)
       \/ Len(r.turtle.points) = Len(t.points) + 1 /\ r.index = Len(t.points)

LEMMA GrowKeeps ==
  ASSUME NEW t, TurtleInv(t), NEW gs, NEW r \in Grow(t, gs)
  PROVE  GrewTo(t, r)
<1> USE InterpreterAssumption
<1>1. ASSUME NEW u, TurtleInv(u), u.system = t.system, Len(u.points) = Len(t.points)
      PROVE  \A x \in Failed(u) : GrewTo(t, x)
  BY <1>1 DEF Failed, Result, GrewTo
<1>2. ASSUME NEW u, TurtleInv(u), u.system = t.system, Len(u.points) = Len(t.points),
             NEW g, NEW step
      PROVE  GrewTo(t, Grown(u, g, step))
  <2>1. Len(u.points) \in Nat
    BY <1>2, IsSeqShape DEF TurtleInv
  <2> QED BY <1>2, <2>1, MovedKeeps DEF Grown, Result, GrewTo
<1>3. ASSUME NEW u, TurtleInv(u), u.system = t.system, Len(u.points) = Len(t.points),
             NEW index \in Nat
      PROVE  \A x \in Unmoved(u, index) : GrewTo(t, x)
  BY <1>3 DEF Unmoved, Result, GrewTo
<1>4. ASSUME NEW u, TurtleInv(u), u.system = t.system, Len(u.points) = Len(t.points), NEW g
      PROVE  \A x \in Interpreted(u, g) : GrewTo(t, x)
  <2> DEFINE kind == Kind[g]
             step == StepOf(u, g)
  <2> HIDE DEF kind, step
  <2>1. OpenIndex \in Nat /\ CloseIndex \in Nat
    BY DEF OpenIndex, CloseIndex
  <2>2. \/ Interpreted(u, g) = {Grown(u, g, step)}
        \/ Interpreted(u, g) = {Grown(v, g, step) : v \in {Turned(u, kind)}}
        \/ Interpreted(u, g) = Unmoved(Branched(u), OpenIndex)
        \/ u.bracketCount # 0 /\ Interpreted(u, g) = Unmoved(Rejoined(u), CloseIndex)
        \/ Interpreted(u, g) = Failed(u)
    BY DEF Interpreted, kind, step
  <2>3. CASE Interpreted(u, g) = {Grown(u, g, step)}
    BY <1>2, <1>4, <2>3
  <2>4. CASE Interpreted(u, g) = {Grown(v, g, step) : v \in {Turned(u, kind)}}
    BY <1>2, <1>4, <2>4, TurnedKeeps
  <2>5. CASE Interpreted(u, g) = Unmoved(Branched(u), OpenIndex)
    BY <1>3, <1>4, <2>1, <2>5, BranchedKeeps
  <2>6. CASE u.bracketCount # 0 /\ Interpreted(u, g) = Unmoved(Rejoined(u), CloseIndex)
    BY <1>3, <1>4, <2>1, <2>6, RejoinedKeeps
  <2>7. CASE Interpreted(u, g) = Failed(u)
    BY <1>1, <1>4, <2>7
  <2> QED BY <2>2, <2>3, <2>4, <2>5, <2>6, <2>7
<1>5. CASE ~HasGene(t, gs)
  BY <1>1, <1>5 DEF Grow
<1>6. CASE HasGene(t, gs)
  <2>1. PICK g : r \in Interpreted(Begun(t), g)
    BY <1>6 DEF Grow
  <2> QED BY <1>4, <2>1, BegunKeeps
<1> QED BY <1>5, <1>6

-----------------------------------------------------------------------------
(* The world.  Every pointer points at what there is; an id is given once; *)
(* elements have ids that were given, and of those of a serpent's present  *)
(* id, indices of points its turtle has made: the one that is being made   *)
(* is beyond them all.                                                     *)
HeapInv ==
    /\ IsSeq(genes) /\ IsSeq(turtles)
    /\ \A n \in DOMAIN turtles : TurtleInv(turtles[n])

ObjectsInv ==
    /\ objectCounter \in Nat
    /\ objectId \in [Objects -> 0 .. objectCounter]
    /\ system \in [Objects -> 0 .. Len(genes)]
    /\ interpreter \in [Objects -> 0 .. Len(turtles)]
    /\ \A o \in Objects : /\ objectId[o] = 0 => system[o] = Null
                          /\ system[o] = Null => interpreter[o] = Null
    /\ \A o, p \in Objects : o # p /\ objectId[o] # 0 => objectId[o] # objectId[p]

NamesInv ==
    /\ DOMAIN bodies \subseteq entities
    /\ \A x \in entities : x[1] \in 1 .. objectCounter
    /\ \A x \in entities : \A o \in Objects : x[1] = objectId[o] =>
          /\ interpreter[o] # Null
          /\ x[2] \in 0 .. Len(turtles[interpreter[o]].points) - 1

GrowerInv ==
    /\ self \in Objects /\ todo \subseteq Objects
    /\ k \in Nat /\ k >= 1
    /\ DOMAIN objectNames = Objects
    /\ \A o \in Objects : /\ IsSeq(objectNames[o])
                          /\ \A n \in DOMAIN objectNames[o] : objectNames[o][n][2] \in Nat
    /\ pc \in {"idle", "frame"} \/ interpreter[self] # Null
    /\ pc \in {"grown", "element"} =>
          /\ currentIndex \in 0 .. Len(Turtle.points) - 1
          /\ \A x \in entities : x[1] = objectId[self] => x[2] \in 0 .. currentIndex - 1

WorldInv == HeapInv /\ ObjectsInv /\ OwnGenome /\ NamesInv /\ GrowerInv

LEMMA InitHolds == Init => WorldInv
<1> SUFFICES ASSUME Init PROVE WorldInv
  OBVIOUS
<1>1. IsSeq(<<>>) /\ Len(<<>>) = 0 /\ DOMAIN <<>> = {}
  BY DEF IsSeq
<1>2. HeapInv
  BY <1>1 DEF Init, HeapInv
<1>3. ObjectsInv
  <2>1. objectCounter = 0 /\ Len(genes) = 0 /\ Len(turtles) = 0
    BY <1>1 DEF Init
  <2>2. /\ objectId = [o \in Objects |-> 0] /\ system = [o \in Objects |-> 0]
        /\ interpreter = [o \in Objects |-> 0]
    BY DEF Init, Null
  <2>3. 0 \in 0 .. objectCounter /\ 0 \in 0 .. Len(genes) /\ 0 \in 0 .. Len(turtles)
    BY <2>1
  <2>4. /\ objectId \in [Objects -> 0 .. objectCounter]
        /\ system \in [Objects -> 0 .. Len(genes)]
        /\ interpreter \in [Objects -> 0 .. Len(turtles)]
    BY <2>2, <2>3
  <2> QED BY <2>1, <2>2, <2>4 DEF ObjectsInv, Null
<1>4. OwnGenome
  BY DEF Init, OwnGenome, Null
<1>5. NamesInv
  BY DEF Init, NamesInv
<1>6. GrowerInv
  <2>1. /\ self \in Objects /\ todo = {} /\ k = 1 /\ pc = "idle"
        /\ objectNames = [o \in Objects |-> <<>>]
    BY DEF Init
  <2> QED BY <1>1, <2>1 DEF GrowerInv
<1> QED BY <1>2, <1>3, <1>4, <1>5, <1>6 DEF WorldInv

(* A turtle that goes on, or is told something *)
LEMMA TurtleSet ==
  ASSUME HeapInv, ObjectsInv, OwnGenome, NamesInv,
         NEW o \in Objects, interpreter[o] # Null,
         NEW u, TurtleInv(u), u.system = turtles[interpreter[o]].system,
         Len(u.points) >= Len(turtles[interpreter[o]].points),
         turtles' = Change(turtles, interpreter[o], u),
         UNCHANGED <<genes, objectCounter, objectId, system, interpreter, entities>>,
         DOMAIN bodies' \subseteq DOMAIN bodies
  PROVE  /\ HeapInv' /\ ObjectsInv' /\ OwnGenome' /\ NamesInv'
         /\ turtles'[interpreter[o]] = u
<1> DEFINE i == interpreter[o]
<1>1. i \in 1 .. Len(turtles) /\ DOMAIN turtles = 1 .. Len(turtles) /\ Len(turtles) \in Nat
  BY IsSeqShape DEF ObjectsInv, HeapInv, Null
<1> HIDE DEF i
<1>2. /\ IsSeq(turtles') /\ Len(turtles') = Len(turtles) /\ DOMAIN turtles' = 1 .. Len(turtles)
      /\ \A n \in 1 .. Len(turtles) : turtles'[n] = IF n = i THEN u ELSE turtles[n]
  BY <1>1, Changed DEF HeapInv, i
<1>3. HeapInv'
  BY <1>1, <1>2 DEF HeapInv
<1>4. ObjectsInv'
  BY <1>2 DEF ObjectsInv
<1>5. \A p \in Objects : interpreter[p] # Null =>
          /\ interpreter[p] \in 1 .. Len(turtles)
          /\ turtles'[interpreter[p]].system = turtles[interpreter[p]].system
          /\ Len(turtles'[interpreter[p]].points) \in Nat
          /\ Len(turtles[interpreter[p]].points) \in Nat
          /\ Len(turtles'[interpreter[p]].points) >= Len(turtles[interpreter[p]].points)
  <2> SUFFICES ASSUME NEW p \in Objects, interpreter[p] # Null
               PROVE  /\ interpreter[p] \in 1 .. Len(turtles)
                      /\ turtles'[interpreter[p]].system = turtles[interpreter[p]].system
                      /\ Len(turtles'[interpreter[p]].points) \in Nat
                      /\ Len(turtles[interpreter[p]].points) \in Nat
                      /\ Len(turtles'[interpreter[p]].points) >= Len(turtles[interpreter[p]].points)
    OBVIOUS
  <2>1. interpreter[p] \in 1 .. Len(turtles)
    BY <1>1 DEF ObjectsInv, Null
  <2>2. TurtleInv(turtles[interpreter[p]]) /\ TurtleInv(turtles'[interpreter[p]])
    BY <1>1, <1>2, <2>1 DEF HeapInv
  <2>3. Len(turtles[interpreter[p]].points) \in Nat /\ Len(turtles'[interpreter[p]].points) \in Nat
    BY <2>2, IsSeqShape DEF TurtleInv
  <2>4. turtles'[interpreter[p]] = IF interpreter[p] = i THEN u ELSE turtles[interpreter[p]]
    BY <1>2, <2>1
  <2> QED BY <2>1, <2>3, <2>4 DEF i
<1>6. OwnGenome'
  BY <1>5 DEF OwnGenome
<1>7. NamesInv'
  <2> SUFFICES ASSUME NEW x \in entities, NEW p \in Objects, x[1] = objectId[p]
               PROVE  /\ interpreter[p] # Null
                      /\ x[2] \in 0 .. Len(turtles'[interpreter[p]].points) - 1
    <3>1. DOMAIN bodies' \subseteq entities' /\ \A x \in entities' : x[1] \in 1 .. objectCounter'
      BY DEF NamesInv
    <3> QED BY <3>1 DEF NamesInv
  <2> DEFINE old == Len(turtles[interpreter[p]].points)
             new == Len(turtles'[interpreter[p]].points)
  <2>1. interpreter[p] # Null /\ x[2] \in 0 .. old - 1
    BY DEF NamesInv
  <2>2. old \in Nat /\ new \in Nat /\ new >= old
    BY <1>5, <2>1
  <2> HIDE DEF old, new
  <2>3. x[2] \in 0 .. new - 1
    BY <2>1, <2>2
  <2> QED BY <2>1, <2>3 DEF new
<1>8. turtles'[i] = u
  BY <1>1, <1>2
<1> QED BY <1>3, <1>4, <1>6, <1>7, <1>8 DEF i

(* What Begin and a new system leave of the bookkeeping of names: an id    *)
(* nobody has.                                                             *)
LEMMA BeginKeeps ==
  ASSUME HeapInv, ObjectsInv, NEW o \in Objects, Begin(o),
         Len(genes') \in Nat, Len(genes') >= Len(genes),
         system' \in [Objects -> 0 .. Len(genes')], system'[o] # Null,
         \A p \in Objects \ {o} : system'[p] = system[p],
         Len(turtles') \in Nat, Len(turtles') >= Len(turtles),
         interpreter' \in [Objects -> 0 .. Len(turtles')],
         \A p \in Objects \ {o} : interpreter'[p] = interpreter[p]
  PROVE  ObjectsInv'
<1>1. /\ objectCounter \in Nat /\ objectCounter' = objectCounter + 1
      /\ objectId \in [Objects -> 0 .. objectCounter]
      /\ objectId' = [objectId EXCEPT ![o] = objectCounter + 1]
  BY DEF ObjectsInv, Begin
<1>2. \A p \in Objects : /\ objectId[p] \in 0 .. objectCounter
                         /\ objectId'[p] = IF p = o THEN objectCounter + 1 ELSE objectId[p]
  BY <1>1
<1>3. objectCounter' \in Nat /\ objectId' \in [Objects -> 0 .. objectCounter']
  BY <1>1
<1>4. \A p \in Objects : /\ objectId'[p] = 0 => system'[p] = Null
                         /\ system'[p] = Null => interpreter'[p] = Null
  <2>1. objectId'[o] # 0 /\ system'[o] # Null
    BY <1>1, <1>2
  <2>2. ASSUME NEW p \in Objects, p # o
        PROVE  objectId'[p] = objectId[p] /\ system'[p] = system[p] /\ interpreter'[p] = interpreter[p]
    BY <1>2, <2>2
  <2>3. \A p \in Objects : /\ objectId[p] = 0 => system[p] = Null
                           /\ system[p] = Null => interpreter[p] = Null
    BY DEF ObjectsInv
  <2> QED BY <2>1, <2>2, <2>3
<1>5. ASSUME NEW p \in Objects, NEW q \in Objects, p # q, objectId'[p] # 0
      PROVE  objectId'[p] # objectId'[q]
  <2>1. objectId[p] \in 0 .. objectCounter /\ objectId[q] \in 0 .. objectCounter
    BY <1>2
  <2>2. CASE p = o \/ q = o
    <3>1. \A n \in 0 .. objectCounter : n # objectCounter + 1
      BY <1>1
    <3>2. /\ objectId'[p] = IF p = o THEN objectCounter + 1 ELSE objectId[p]
          /\ objectId'[q] = IF q = o THEN objectCounter + 1 ELSE objectId[q]
      BY <1>2
    <3> QED BY <1>5, <2>1, <2>2, <3>1, <3>2
  <2>3. CASE p # o /\ q # o
    BY <1>2, <1>5, <2>3 DEF ObjectsInv
  <2> QED BY <2>2, <2>3
<1> QED BY <1>3, <1>4, <1>5 DEF ObjectsInv

LEMMA ConfigureKeeps ==
  ASSUME HeapInv, ObjectsInv, OwnGenome, NamesInv,
         NEW o \in Objects, NEW s, NEW pos, NEW flag,
         Begin(o), Configure(o, s, interpreter[o], pos, flag),
         IsSeq(genes'), Len(genes') >= Len(genes),
         s \in 1 .. Len(genes'), system' = [system EXCEPT ![o] = s],
         interpreter[o] # Null => s = system[o],
         \A p \in Objects \ {o} : s # system[p],
         entities' = entities, bodies' = bodies
  PROVE  HeapInv' /\ ObjectsInv' /\ OwnGenome' /\ NamesInv'
<1> DEFINE i == interpreter'[o]
<1>1. /\ IsSeq(turtles') /\ DOMAIN turtles' = 1 .. Len(turtles')
      /\ i \in 1 .. Len(turtles') /\ 1 .. Len(turtles) \subseteq 1 .. Len(turtles')
      /\ interpreter' = [interpreter EXCEPT ![o] = i]
      /\ TurtleInv(turtles'[i]) /\ turtles'[i].system = s
      /\ \A n \in 1 .. Len(turtles') :
            n # i => n \in 1 .. Len(turtles) /\ turtles'[n] = turtles[n]
      /\ interpreter[o] = Null => i \notin 1 .. Len(turtles)
      /\ interpreter[o] # Null => i = interpreter[o]
  <2>1. /\ IsSeq(turtles) /\ Len(turtles) \in Nat /\ DOMAIN turtles = 1 .. Len(turtles)
        /\ interpreter \in [Objects -> 0 .. Len(turtles)]
    BY IsSeqShape DEF HeapInv, ObjectsInv
  <2>2. CASE interpreter[o] = Null
    <3> DEFINE t == Configured(NewTurtle(s, <<>>), pos)
    <3>1. TurtleInv(t) /\ t.system = s
      BY NewTurtleInv, ConfiguredKeeps
    <3> HIDE DEF t
    <3>2. /\ turtles' = Append(turtles, t)
          /\ interpreter' = [interpreter EXCEPT ![o] = Len(turtles')]
      BY <2>2 DEF Configure, t
    <3>3. /\ IsSeq(turtles') /\ Len(turtles') = Len(turtles) + 1
          /\ DOMAIN turtles' = 1 .. Len(turtles) + 1
          /\ \A n \in 1 .. Len(turtles) : turtles'[n] = turtles[n]
          /\ turtles'[Len(turtles) + 1] = t
      BY <2>1, <3>2, Appended
    <3>4. i = Len(turtles) + 1 /\ interpreter' = [interpreter EXCEPT ![o] = i]
      BY <2>1, <3>2, <3>3
    <3> DEFINE n == Len(turtles)
    <3>5. n \in Nat /\ Len(turtles') = n + 1 /\ i = n + 1
      BY <2>1, <3>3, <3>4
    <3> HIDE DEF n, i
    <3>6. /\ 1 .. n \subseteq 1 .. n + 1 /\ n + 1 \in 1 .. n + 1 /\ n + 1 \notin 1 .. n
          /\ \A x \in 1 .. n + 1 : x # n + 1 => x \in 1 .. n
      BY <3>5
    <3>7. /\ DOMAIN turtles' = 1 .. n + 1 /\ turtles'[n + 1] = t
          /\ \A x \in 1 .. n : turtles'[x] = turtles[x]
      BY <3>3 DEF n
    <3> QED BY <2>2, <3>1, <3>3, <3>4, <3>5, <3>6, <3>7 DEF n
  <2>3. CASE interpreter[o] # Null
    <3> DEFINE j == interpreter[o]
               t == Configured(turtles[j], pos)
    <3>1. j \in 1 .. Len(turtles) /\ TurtleInv(turtles[j]) /\ turtles[j].system = s
      BY <2>1, <2>3 DEF HeapInv, OwnGenome, Null
    <3>2. TurtleInv(t) /\ t.system = s /\ t.points = turtles[j].points
      BY <3>1, ConfiguredKeeps
    <3> HIDE DEF t
    <3>3. /\ turtles' = Change(turtles, j, t)
          /\ interpreter' = [interpreter EXCEPT ![o] = j]
      BY <2>3 DEF Configure, t, Change
    <3>4. interpreter' = interpreter /\ i = j
      BY <2>1, <3>3
    <3> HIDE DEF j
    <3>5. /\ IsSeq(turtles') /\ Len(turtles') = Len(turtles)
          /\ DOMAIN turtles' = 1 .. Len(turtles)
          /\ \A n \in 1 .. Len(turtles) : turtles'[n] = IF n = j THEN t ELSE turtles[n]
      BY <2>1, <3>1, <3>3, Changed
    <3>6. interpreter' = [interpreter EXCEPT ![o] = i] /\ i = j /\ j = interpreter[o]
      BY <2>1, <3>4 DEF j
    <3> HIDE DEF i
    <3>7. TurtleInv(turtles'[j]) /\ turtles'[j].system = s
      BY <3>1, <3>2, <3>5
    <3> QED BY <2>3, <3>1, <3>5, <3>6, <3>7
  <2> QED BY <2>2, <2>3
<1>2. Len(turtles) \in Nat /\ DOMAIN turtles = 1 .. Len(turtles)
      /\ interpreter \in [Objects -> 0 .. Len(turtles)] /\ system \in [Objects -> 0 .. Len(genes)]
      /\ Len(genes') \in Nat /\ Len(genes) \in Nat
  BY IsSeqShape DEF HeapInv, ObjectsInv
<1> HIDE DEF i
<1>3. HeapInv'
  BY <1>1, <1>2 DEF HeapInv
<1>4. /\ \A p \in Objects : system'[p] = IF p = o THEN s ELSE system[p]
      /\ \A p \in Objects : interpreter'[p] = IF p = o THEN i ELSE interpreter[p]
  BY <1>1, <1>2
<1>5. ObjectsInv'
  <2>1. system' \in [Objects -> 0 .. Len(genes')]
    BY <1>2
  <2>2. Len(turtles') \in Nat /\ Len(turtles') >= Len(turtles)
    <3>1. Len(turtles') \in Nat
      BY <1>1, IsSeqShape
    <3>2. CASE Len(turtles) = 0
      BY <3>1, <3>2
    <3>3. CASE Len(turtles) # 0
      <4>1. Len(turtles) \in 1 .. Len(turtles)
        BY <1>2, <3>3
      <4>2. Len(turtles) \in 1 .. Len(turtles')
        BY <1>1, <4>1
      <4> QED BY <3>1, <4>2
    <3> QED BY <3>2, <3>3
  <2>3. interpreter' \in [Objects -> 0 .. Len(turtles')]
    <3>1. \A p \in Objects : interpreter'[p] \in 0 .. Len(turtles')
      <4>1. i \in 0 .. Len(turtles')
        BY <1>1, <2>2
      <4>2. \A p \in Objects : interpreter[p] \in 0 .. Len(turtles')
        BY <1>2, <2>2
      <4> QED BY <1>4, <4>1, <4>2
    <3> QED BY <1>1, <1>2, <3>1
  <2>4. system'[o] # Null
    BY <1>2, <1>4 DEF Null
  <2> QED BY <1>1, <1>2, <1>4, <2>1, <2>2, <2>3, <2>4, BeginKeeps
<1>6. ASSUME NEW p \in Objects, p # o, interpreter[p] # Null
      PROVE  interpreter[p] \in 1 .. Len(turtles) /\ interpreter[p] # i
  <2>1. interpreter[p] \in 1 .. Len(turtles)
    BY <1>2, <1>6 DEF Null
  <2>2. CASE interpreter[o] = Null
    BY <1>1, <2>1, <2>2
  <2>3. CASE interpreter[o] # Null
    <3>1. o \in Objects \ {p}
      BY <1>6
    <3>2. interpreter[p] # interpreter[o]
      BY <1>6, <3>1 DEF OwnGenome
    <3> QED BY <1>1, <2>1, <2>3, <3>2
  <2> QED BY <2>1, <2>2, <2>3
<1>7. OwnGenome'
  <2>1. ASSUME NEW p \in Objects, interpreter'[p] # Null
        PROVE  turtles'[interpreter'[p]].system = system'[p]
    <3>1. CASE p = o
      BY <1>1, <1>4, <3>1
    <3>2. CASE p # o
      <4>1. interpreter'[p] = interpreter[p] /\ interpreter[p] \in 1 .. Len(turtles)
            /\ interpreter[p] # i
        BY <1>4, <1>6, <2>1, <3>2
      <4>2. turtles'[interpreter[p]] = turtles[interpreter[p]]
        BY <1>1, <4>1
      <4> QED BY <1>4, <2>1, <3>2, <4>1, <4>2 DEF OwnGenome
    <3> QED BY <3>1, <3>2
  <2>2. ASSUME NEW p \in Objects, NEW q \in Objects, p # q, system'[p] # Null
        PROVE  system'[p] # system'[q]
    BY <1>4, <2>2 DEF OwnGenome
  <2>3. ASSUME NEW p \in Objects, NEW q \in Objects, p # q, interpreter'[p] # Null
        PROVE  interpreter'[p] # interpreter'[q]
    BY <1>1, <1>2, <1>4, <1>6, <2>3 DEF OwnGenome, Null
  <2> QED BY <2>1, <2>2, <2>3 DEF OwnGenome
<1>8. NamesInv'
  <2>1. /\ objectCounter \in Nat /\ objectCounter' = objectCounter + 1
        /\ \A p \in Objects : objectId'[p] = IF p = o THEN objectCounter + 1 ELSE objectId[p]
    BY DEF ObjectsInv, Begin
  <2>2. \A x \in entities' : x[1] \in 1 .. objectCounter' /\ x[1] # objectCounter + 1
    BY <2>1 DEF NamesInv
  <2>3. ASSUME NEW x \in entities, NEW p \in Objects, x[1] = objectId'[p]
        PROVE  /\ interpreter'[p] # Null
               /\ x[2] \in 0 .. Len(turtles'[interpreter'[p]].points) - 1
    <3>1. p # o /\ x[1] = objectId[p]
      BY <2>1, <2>2, <2>3
    <3>2. interpreter[p] # Null /\ x[2] \in 0 .. Len(turtles[interpreter[p]].points) - 1
      BY <3>1 DEF NamesInv
    <3>3. interpreter'[p] = interpreter[p] /\ turtles'[interpreter[p]] = turtles[interpreter[p]]
      BY <1>1, <1>4, <1>6, <3>1, <3>2
    <3> QED BY <3>2, <3>3
  <2> QED BY <2>2, <2>3 DEF NamesInv
<1> QED BY <1>3, <1>5, <1>7, <1>8

-----------------------------------------------------------------------------
(* Each action keeps the invariant. *)

LEMMA CreateAgainKeeps ==
  ASSUME WorldInv, NEW o \in Objects, NEW pos \in Positions, CreateAgain(o, pos)
  PROVE  WorldInv'
<1> USE DEF WorldInv
<1>1. /\ system' = system /\ genes' = genes /\ entities' = entities /\ bodies' = bodies
      /\ system[o] # Null /\ Begin(o) /\ Configure(o, system[o], interpreter[o], pos, physics[o])
  BY DEF CreateAgain, elementVars, engineVars, Quietly
<1>2. IsSeq(genes') /\ Len(genes) \in Nat /\ Len(genes') >= Len(genes)
  BY <1>1, IsSeqShape DEF HeapInv
<1>3. /\ system[o] \in 1 .. Len(genes') /\ system' = [system EXCEPT ![o] = system[o]]
      /\ \A p \in Objects \ {o} : system[o] # system[p]
  BY <1>1, <1>2 DEF ObjectsInv, OwnGenome, Null
<1>4. HeapInv' /\ ObjectsInv' /\ OwnGenome' /\ NamesInv'
  BY <1>1, <1>2, <1>3, ConfigureKeeps
<1>5. GrowerInv'
  BY DEF CreateAgain, Called, Quietly, elementVars, growVars, GrowerInv
<1> QED BY <1>4, <1>5

LEMMA CreateKeeps ==
  ASSUME WorldInv, NEW o \in Objects, NEW pos \in Positions, Create(o, pos)
  PROVE  WorldInv'
<1> USE DEF WorldInv
<1> DEFINE s == Len(genes) + 1
<1>1. PICK gs : /\ genes' = Append(genes, gs)
                /\ \/ Configure(o, Len(genes'), Null, pos, physics[o])
                   \/ UNCHANGED <<turtles, interpreter>>
  BY DEF Create
<1>2. /\ system' = [system EXCEPT ![o] = s] /\ system[o] = Null /\ Begin(o)
      /\ entities' = entities /\ bodies' = bodies
  BY DEF Create, elementVars, engineVars, Quietly
<1>3. /\ IsSeq(genes') /\ Len(genes') = s /\ Len(genes) \in Nat /\ Len(genes') >= Len(genes)
      /\ s \in 1 .. Len(genes')
  BY <1>1, IsSeqShape, Appended DEF HeapInv
<1> HIDE DEF s
<1>4. interpreter[o] = Null
  BY <1>2 DEF ObjectsInv
<1>5. \A p \in Objects : s # system[p]
  BY <1>3 DEF ObjectsInv, s
<1>6. ASSUME Configure(o, Len(genes'), Null, pos, physics[o])
      PROVE  HeapInv' /\ ObjectsInv' /\ OwnGenome' /\ NamesInv'
  <2>1. Configure(o, s, interpreter[o], pos, physics[o])
    BY <1>3, <1>4, <1>6
  <2> QED BY <1>2, <1>3, <1>4, <1>5, <2>1, ConfigureKeeps
<1>7. ASSUME UNCHANGED <<turtles, interpreter>>
      PROVE  HeapInv' /\ ObjectsInv' /\ OwnGenome' /\ NamesInv'
  <2>1. HeapInv'
    BY <1>3, <1>7 DEF HeapInv
  <2>2. /\ Len(turtles') \in Nat /\ Len(turtles') >= Len(turtles)
        /\ interpreter' \in [Objects -> 0 .. Len(turtles')]
    BY <1>7, IsSeqShape DEF HeapInv, ObjectsInv
  <2>3. /\ \A p \in Objects : system'[p] = IF p = o THEN s ELSE system[p]
        /\ system' \in [Objects -> 0 .. Len(genes')] /\ s # Null
    BY <1>2, <1>3 DEF ObjectsInv, Null, s
  <2>4. ObjectsInv'
    BY <1>2, <1>3, <1>7, <2>2, <2>3, BeginKeeps
  <2>5. OwnGenome'
    BY <1>4, <1>5, <1>7, <2>3 DEF OwnGenome
  <2>6. NamesInv'
    <3>1. /\ objectCounter \in Nat /\ objectCounter' = objectCounter + 1
          /\ \A p \in Objects : objectId'[p] = IF p = o THEN objectCounter + 1 ELSE objectId[p]
      BY <1>2 DEF ObjectsInv, Begin
    <3>2. \A x \in entities' : x[1] \in 1 .. objectCounter' /\ x[1] # objectCounter + 1
      BY <1>2, <3>1 DEF NamesInv
    <3>3. ASSUME NEW x \in entities, NEW p \in Objects, x[1] = objectId'[p]
          PROVE  /\ interpreter[p] # Null
                 /\ x[2] \in 0 .. Len(turtles[interpreter[p]].points) - 1
      <4>1. x[1] = objectId[p]
        BY <1>2, <3>1, <3>2, <3>3
      <4> QED BY <4>1 DEF NamesInv
    <3> QED BY <1>2, <1>7, <3>2, <3>3 DEF NamesInv
  <2> QED BY <2>1, <2>4, <2>5, <2>6
<1>8. HeapInv' /\ ObjectsInv' /\ OwnGenome' /\ NamesInv'
  BY <1>1, <1>6, <1>7
<1>9. GrowerInv'
  BY DEF Create, Called, Quietly, elementVars, growVars, GrowerInv
<1> QED BY <1>8, <1>9

LEMMA BreedKeeps ==
  ASSUME WorldInv, NEW p \in Objects, NEW q \in Objects, NEW o \in Objects, Breed(p, q, o)
  PROVE  WorldInv'
<1> USE DEF WorldInv
<1> DEFINE s == Len(genes) + 1
<1>1. PICK gs : genes' = Append(genes, gs)
  BY DEF Breed
<1>2. /\ IsSeq(genes') /\ Len(genes') = s /\ Len(genes) \in Nat /\ Len(genes') >= Len(genes)
      /\ s \in 1 .. Len(genes')
  BY <1>1, IsSeqShape, Appended DEF HeapInv
<1>3. /\ system' = [system EXCEPT ![o] = s] /\ objectId[o] = 0 /\ Begin(o)
      /\ Configure(o, s, Null, Zero, physics[p])
      /\ entities' = entities /\ bodies' = bodies
  BY <1>2 DEF Breed, Created, elementVars, engineVars, Quietly
<1> HIDE DEF s
<1>4. interpreter[o] = Null
  BY <1>3 DEF ObjectsInv
<1>5. \A r \in Objects : s # system[r]
  BY <1>2 DEF ObjectsInv, s
<1>6. HeapInv' /\ ObjectsInv' /\ OwnGenome' /\ NamesInv'
  BY <1>2, <1>3, <1>4, <1>5, ConfigureKeeps
<1>7. GrowerInv'
  BY DEF Breed, Called, Quietly, elementVars, growVars, GrowerInv
<1> QED BY <1>6, <1>7

(* What leaves the heap, the serpents' own and the names as they are *)
LEMMA NothingTouched ==
  ASSUME WorldInv,
         UNCHANGED <<genes, turtles, objectCounter, objectId, system, interpreter, entities>>,
         DOMAIN bodies' \subseteq DOMAIN bodies
  PROVE  HeapInv' /\ ObjectsInv' /\ OwnGenome' /\ NamesInv'
<1>1. HeapInv' /\ ObjectsInv' /\ OwnGenome'
  BY DEF WorldInv, HeapInv, ObjectsInv, OwnGenome
<1>2. NamesInv'
  BY DEF WorldInv, NamesInv
<1> QED BY <1>1, <1>2

LEMMA SetPositionKeeps ==
  ASSUME WorldInv, NEW o \in Objects, NEW pos \in Positions, SetPosition(o, pos)
  PROVE  WorldInv'
<1> USE DEF WorldInv
<1> DEFINE i == interpreter[o]
           u == [turtles[i] EXCEPT !.attributes.startPoint = pos]
<1>1. i # Null /\ i \in 1 .. Len(turtles) /\ DOMAIN turtles = 1 .. Len(turtles)
  BY IsSeqShape DEF SetPosition, HeapInv, ObjectsInv, Null
<1>2. turtles' = Change(turtles, i, u)
  BY DEF SetPosition, Change
<1>3. TurtleInv(turtles[i])
  BY <1>1 DEF HeapInv
<1>4. TurtleInv(u) /\ u.system = turtles[i].system /\ u.points = turtles[i].points
  BY <1>3, StartPointKeeps
<1>5. Len(turtles[i].points) \in Nat
  BY <1>3, IsSeqShape DEF TurtleInv
<1>6. /\ UNCHANGED <<genes, objectCounter, objectId, system, interpreter, entities>>
      /\ bodies' = bodies
  BY DEF SetPosition, Quietly, objectVars, elementVars, engineVars
<1> HIDE DEF u
<1>7. Len(u.points) >= Len(turtles[i].points)
  BY <1>4, <1>5
<1>8. HeapInv' /\ ObjectsInv' /\ OwnGenome' /\ NamesInv'
  BY <1>1, <1>2, <1>4, <1>6, <1>7, TurtleSet
<1>9. GrowerInv'
  BY DEF SetPosition, Called, Quietly, objectVars, elementVars, growVars, GrowerInv
<1> QED BY <1>8, <1>9

LEMMA SettersKeep ==
  ASSUME WorldInv, NEW o \in Objects, NEW rate,
         \/ SetGrowthRate(o, rate) \/ SetJointType(o) \/ NoPhysics(o) \/ RestartPhysics(o)
  PROVE  WorldInv'
<1>1. /\ UNCHANGED <<genes, turtles, objectCounter, objectId, system, interpreter, entities>>
      /\ DOMAIN bodies' \subseteq DOMAIN bodies
      /\ pc = "idle" /\ UNCHANGED <<pc, todo, self, k, objectNames>>
  <2>1. CASE SetGrowthRate(o, rate)
    BY <2>1 DEF SetGrowthRate, Called, Quietly, heap, elementVars, engineVars, growVars
  <2>2. CASE SetJointType(o)
    BY <2>2 DEF SetJointType, Called, Quietly, heap, elementVars, engineVars, growVars
  <2>3. CASE NoPhysics(o)
    BY <2>3 DEF NoPhysics, Called, heap, elementVars, growVars
  <2>4. CASE RestartPhysics(o)
    BY <2>4 DEF RestartPhysics, Called, Quietly, heap, elementVars, engineVars, growVars
  <2> QED BY <2>1, <2>2, <2>3, <2>4
<1>2. GrowerInv'
  BY <1>1 DEF WorldInv, GrowerInv
<1> QED BY <1>1, <1>2, NothingTouched DEF WorldInv

LEMMA FrameKeeps ==
  ASSUME WorldInv, FrameStarted \/ FrameEnded \/ OnlyUpdate
  PROVE  WorldInv'
<1>1. /\ UNCHANGED <<genes, turtles, objectCounter, objectId, system, interpreter, entities>>
      /\ bodies' = bodies /\ UNCHANGED <<self, k, objectNames>>
      /\ pc' \in {"idle", "frame"} /\ todo' \subseteq todo \cup Objects
  BY DEF FrameStarted, FrameEnded, OnlyUpdate, Created, heap, objectVars, elementVars,
         engineVars, growVars
<1>2. GrowerInv'
  BY <1>1 DEF WorldInv, GrowerInv
<1> QED BY <1>1, <1>2, NothingTouched DEF WorldInv

(* The serpents are numbered: there is a first one left. *)
LEMMA FollowingLeft ==
  ASSUME todo \subseteq Objects, todo # {}
  PROVE  Following \in todo
<1>1. todo \subseteq Nat
  BY WorldAssumption
<1> DEFINE R == OpToRel(<, Nat)
<1>2. \A o, p \in Nat : <<o, p>> \in R <=> o < p
  BY DEF OpToRel
<1>3. IsWellFoundedOn(R, Nat)
  BY NatLessThanWellFounded
<1> HIDE DEF R
<1>4. \E o \in todo : \A p \in todo : ~ (<<p, o>> \in R)
  BY <1>1, <1>3, WFMin
<1>5. \E o \in todo : \A p \in todo : o <= p
  <2> PICK o \in todo : \A p \in todo : ~ (<<p, o>> \in R)
    BY <1>4
  <2>1. \A p \in todo : o \in Nat /\ p \in Nat /\ ~ (p < o)
    BY <1>1, <1>2
  <2> QED BY <2>1
<1> QED BY <1>5 DEF Following

LEMMA GrowObjectKeeps ==
  ASSUME WorldInv, GrowObject
  PROVE  WorldInv'
<1>1. /\ UNCHANGED <<genes, turtles, objectCounter, objectId, system, interpreter, entities>>
      /\ bodies' = bodies /\ UNCHANGED <<todo, objectNames>>
      /\ pc' = "refresh" /\ self' = Following /\ k' = 1
      /\ todo # {} /\ interpreter[Following] # Null
  BY DEF GrowObject, MayGrow, heap, objectVars, elementVars, engineVars
<1>2. Following \in Objects
  BY <1>1, FollowingLeft DEF WorldInv, GrowerInv
<1>3. GrowerInv'
  BY <1>1, <1>2 DEF WorldInv, GrowerInv
<1> QED BY <1>1, <1>3, NothingTouched DEF WorldInv

LEMMA RefreshKeeps ==
  ASSUME WorldInv, Refresh
  PROVE  WorldInv'
<1> USE DEF WorldInv
<1> DEFINE i == interpreter[self]
           item == objectNames[self][k][1]
           index == objectNames[self][k][2]
           u == IF item \in DOMAIN bodies THEN UpdatePoint(turtles[i], index, bodies[item])
                ELSE turtles[i]
<1>1. /\ pc = "refresh" /\ k <= Len(objectNames[self]) /\ turtles' = Change(turtles, i, u)
      /\ k' = k + 1 /\ UNCHANGED <<pc, todo, self, objectNames>>
      /\ UNCHANGED <<genes, objectCounter, objectId, system, interpreter, entities, bodies>>
  BY DEF Refresh, Refreshing, SetTurtle, Turtle, Change, objectVars, elementVars, engineVars
<1>2. self \in Objects /\ i # Null
  BY <1>1 DEF GrowerInv
<1>3. i \in 1 .. Len(turtles) /\ TurtleInv(turtles[i]) /\ Len(turtles[i].points) \in Nat
  <2>1. i \in 1 .. Len(turtles) /\ TurtleInv(turtles[i])
    BY <1>2, IsSeqShape DEF HeapInv, ObjectsInv, Null
  <2> QED BY <2>1, IsSeqShape DEF TurtleInv
<1>4. index \in Nat
  <2>1. k \in DOMAIN objectNames[self]
    BY <1>1, <1>2, IsSeqShape DEF GrowerInv
  <2> QED BY <1>2, <2>1 DEF GrowerInv
<1> HIDE DEF index, item
<1>5. /\ TurtleInv(u) /\ u.system = turtles[i].system
      /\ Len(u.points) = Len(turtles[i].points)
  BY <1>3, <1>4, UpdatePointKeeps
<1> HIDE DEF u
<1>6. Len(u.points) >= Len(turtles[i].points)
  BY <1>3, <1>5
<1>7. HeapInv' /\ ObjectsInv' /\ OwnGenome' /\ NamesInv'
  BY <1>1, <1>2, <1>5, <1>6, TurtleSet
<1>8. GrowerInv'
  BY <1>1 DEF GrowerInv
<1> QED BY <1>7, <1>8

LEMMA RefreshEndKeeps ==
  ASSUME WorldInv, RefreshEnd
  PROVE  WorldInv'
<1>1. /\ UNCHANGED <<genes, turtles, objectCounter, objectId, system, interpreter, entities>>
      /\ bodies' = bodies /\ UNCHANGED <<todo, self, k, objectNames>>
      /\ pc = "refresh" /\ pc' = "read"
  BY DEF RefreshEnd, heap, objectVars, elementVars, engineVars, growVars
<1>2. GrowerInv'
  BY <1>1 DEF WorldInv, GrowerInv
<1> QED BY <1>1, <1>2, NothingTouched DEF WorldInv

LEMMA ReadGeneKeeps ==
  ASSUME WorldInv, ReadGene
  PROVE  WorldInv'
<1> USE DEF WorldInv
<1> DEFINE i == interpreter[self]
           t == turtles[i]
<1>1. PICK r \in Grow(t, genes[t.system]) :
         /\ turtles' = Change(turtles, i, r.turtle)
         /\ currentIndex' = r.index /\ pc' = After(r)
  BY DEF ReadGene, SetTurtle, Turtle, Change
<1>2. /\ pc = "read" /\ UNCHANGED <<todo, self, k, objectNames>>
      /\ UNCHANGED <<genes, objectCounter, objectId, system, interpreter, entities, bodies>>
  BY DEF ReadGene, objectVars, elementVars, engineVars
<1>3. self \in Objects /\ i # Null
  BY <1>2 DEF GrowerInv
<1>4. TurtleInv(t)
  BY <1>3, IsSeqShape DEF HeapInv, ObjectsInv, Null
<1>5. GrewTo(t, r)
  BY <1>1, <1>4, GrowKeeps
<1>6. Len(t.points) \in Nat
  BY <1>4, IsSeqShape DEF TurtleInv
<1>7. /\ TurtleInv(r.turtle) /\ r.turtle.system = t.system
      /\ Len(r.turtle.points) >= Len(t.points)
  BY <1>5, <1>6 DEF GrewTo
<1> HIDE DEF t
<1>8. /\ HeapInv' /\ ObjectsInv' /\ OwnGenome' /\ NamesInv'
      /\ turtles'[i] = r.turtle
  BY <1>1, <1>2, <1>3, <1>7, TurtleSet DEF t
<1>9. GrowerInv'
  <2>1. pc' \in {"failed", "read", "grown"} /\ interpreter'[self'] # Null
    BY <1>1, <1>2, <1>3 DEF After
  <2>2. ASSUME pc' = "grown"
        PROVE  /\ currentIndex' \in 0 .. Len(Turtle'.points) - 1
               /\ \A x \in entities : x[1] = objectId[self] => x[2] \in 0 .. currentIndex' - 1
    <3>1. currentIndex' = Len(t.points) /\ Len(r.turtle.points) = Len(t.points) + 1
      BY <1>1, <1>5, <1>6, <2>2 DEF After, GrewTo
    <3>2. Turtle' = r.turtle
      BY <1>2, <1>8 DEF Turtle
    <3>3. \A x \in entities : x[1] = objectId[self] => x[2] \in 0 .. Len(t.points) - 1
      BY <1>3 DEF NamesInv, t
    <3> QED BY <1>6, <3>1, <3>2, <3>3
  <2> QED BY <1>2, <2>1, <2>2 DEF GrowerInv
<1> QED BY <1>8, <1>9

LEMMA MutateKeeps ==
  ASSUME WorldInv, Mutate
  PROVE  WorldInv'
<1> USE DEF WorldInv
<1>1. PICK gs : genes' = Change(genes, system[self], gs)
  BY DEF Mutate, Change
<1>2. /\ pc \in {"grown", "failed"}
      /\ UNCHANGED <<turtles, objectCounter, objectId, system, interpreter, entities, bodies>>
      /\ UNCHANGED <<objectNames, self>>
      /\ \/ pc = "grown" /\ pc' = "element" /\ UNCHANGED <<todo, k, currentIndex>>
         \/ pc' = "frame" /\ todo' \subseteq todo /\ k' = 1
  BY DEF Mutate, objectVars, elementVars, engineVars, growVars, Forget
<1>3. self \in Objects /\ interpreter[self] # Null /\ system[self] # Null
  BY <1>2 DEF GrowerInv, ObjectsInv
<1>4. system[self] \in 1 .. Len(genes)
  BY <1>3, IsSeqShape DEF HeapInv, ObjectsInv, Null
<1>5. IsSeq(genes') /\ Len(genes') = Len(genes)
  BY <1>1, <1>4, Changed DEF HeapInv
<1>6. HeapInv' /\ ObjectsInv' /\ OwnGenome' /\ NamesInv'
  BY <1>2, <1>5 DEF HeapInv, ObjectsInv, OwnGenome, NamesInv
<1>7. GrowerInv'
  BY <1>2, <1>3 DEF GrowerInv, Turtle
<1> QED BY <1>6, <1>7

LEMMA MakeElementKeeps ==
  ASSUME WorldInv, MakeElement
  PROVE  WorldInv'
<1> USE DEF WorldInv
<1> DEFINE names == objectNames[self]
<1>1. /\ pc = "element" /\ pc' = "joint"
      /\ entities' = entities \cup {<<objectId[self], currentIndex>>}
      /\ DOMAIN bodies' \subseteq DOMAIN bodies \cup {<<objectId[self], currentIndex>>}
      /\ objectNames' = [objectNames EXCEPT ![self] =
                            Append(names, << <<objectId[self], currentIndex>>, currentIndex>>)]
      /\ UNCHANGED <<genes, turtles, objectCounter, objectId, system, interpreter>>
      /\ UNCHANGED <<todo, self, k, currentIndex>>
  BY DEF MakeElement, NewItem, ItemOf, Item, heap, objectVars, growVars
<1>2. self \in Objects /\ interpreter[self] # Null /\ objectId[self] \in 1 .. objectCounter
  BY <1>1 DEF GrowerInv, ObjectsInv
<1>3. /\ currentIndex \in 0 .. Len(turtles[interpreter[self]].points) - 1
      /\ currentIndex \in Nat
  BY <1>1 DEF GrowerInv, Turtle
<1>4. HeapInv' /\ ObjectsInv' /\ OwnGenome'
  BY <1>1 DEF HeapInv, ObjectsInv, OwnGenome
<1>5. NamesInv'
  <2> DEFINE new == <<objectId[self], currentIndex>>
  <2>1. new[1] = objectId[self] /\ new[2] = currentIndex
    OBVIOUS
  <2> HIDE DEF new
  <2>2. entities' = entities \cup {new} /\ DOMAIN bodies' \subseteq DOMAIN bodies \cup {new}
    BY <1>1 DEF new
  <2>3. DOMAIN bodies' \subseteq entities' /\ \A x \in entities' : x[1] \in 1 .. objectCounter
    BY <1>2, <2>1, <2>2 DEF NamesInv
  <2>4. ASSUME NEW x \in entities', NEW o \in Objects, x[1] = objectId[o]
        PROVE  /\ interpreter[o] # Null
               /\ x[2] \in 0 .. Len(turtles[interpreter[o]].points) - 1
    <3>1. CASE x = new
      <4>1. o = self
        BY <1>2, <2>1, <2>4, <3>1 DEF ObjectsInv
      <4> QED BY <1>2, <1>3, <2>1, <3>1, <4>1
    <3>2. CASE x \in entities
      BY <2>4, <3>2 DEF NamesInv
    <3> QED BY <2>2, <3>1, <3>2
  <2> QED BY <1>1, <2>3, <2>4 DEF NamesInv
<1>6. GrowerInv'
  <2> DEFINE entry == << <<objectId[self], currentIndex>>, currentIndex>>
  <2>1. entry[2] \in Nat
    BY <1>3
  <2> HIDE DEF entry
  <2>2. objectNames' = [objectNames EXCEPT ![self] = Append(names, entry)]
    BY <1>1 DEF entry
  <2>3. /\ IsSeq(names) /\ DOMAIN names = 1 .. Len(names) /\ Len(names) \in Nat
        /\ \A n \in 1 .. Len(names) : names[n][2] \in Nat
    BY <1>2, IsSeqShape DEF GrowerInv
  <2> DEFINE m == Len(names)
             more == Append(names, entry)
  <2> HIDE DEF m, more, names
  <2>4. /\ IsSeq(more) /\ DOMAIN more = 1 .. m + 1 /\ m \in Nat
        /\ \A n \in 1 .. m : more[n] = names[n]
        /\ more[m + 1] = entry
    BY <2>3, Appended DEF m, more
  <2>5. \A n \in 1 .. m + 1 : n \in 1 .. m \/ n = m + 1
    BY <2>4
  <2>6. \A n \in DOMAIN more : more[n][2] \in Nat
    BY <2>1, <2>3, <2>4, <2>5 DEF m
  <2>7. /\ DOMAIN objectNames' = Objects
        /\ \A o \in Objects : /\ IsSeq(objectNames'[o])
                              /\ \A n \in DOMAIN objectNames'[o] : objectNames'[o][n][2] \in Nat
    BY <1>2, <2>2, <2>4, <2>6 DEF GrowerInv, more
  <2> QED BY <1>1, <1>2, <2>7 DEF GrowerInv
<1> QED BY <1>4, <1>5, <1>6

LEMMA ConnectKeeps ==
  ASSUME WorldInv, Connect
  PROVE  WorldInv'
<1>1. /\ UNCHANGED <<genes, turtles, objectCounter, objectId, system, interpreter, entities>>
      /\ bodies' = bodies /\ UNCHANGED <<self, objectNames>>
      /\ pc' = "frame" /\ todo' \subseteq todo /\ k' = 1
  BY DEF Connect, Forget, heap, objectVars, elementVars
<1>2. GrowerInv'
  BY <1>1 DEF WorldInv, GrowerInv
<1> QED BY <1>1, <1>2, NothingTouched DEF WorldInv

LEMMA MoveKeeps ==
  ASSUME WorldInv, NEW x, Move(x) \/ UNCHANGED vars
  PROVE  WorldInv'
<1>1. /\ UNCHANGED <<genes, turtles, objectCounter, objectId, system, interpreter, entities>>
      /\ DOMAIN bodies' \subseteq DOMAIN bodies
      /\ UNCHANGED <<pc, todo, self, k, currentIndex, objectNames>>
  BY DEF Move, vars, heap, objectVars, elementVars, engineVars, growVars
<1>2. GrowerInv'
  BY <1>1 DEF WorldInv, GrowerInv, Turtle
<1> QED BY <1>1, <1>2, NothingTouched DEF WorldInv

LEMMA NextKeeps == WorldInv /\ [Next]_vars => WorldInv'
<1> SUFFICES ASSUME WorldInv, [Next]_vars PROVE WorldInv'
  OBVIOUS
<1>1. ASSUME NEW o \in Objects, Call(o)
      PROVE  WorldInv'
  BY <1>1, CreateKeeps, CreateAgainKeeps, SetPositionKeeps, SettersKeep, BreedKeeps DEF Call
<1>2. ASSUME Render
      PROVE  WorldInv'
  BY <1>2, FrameKeeps, GrowObjectKeeps, RefreshKeeps, RefreshEndKeeps, ReadGeneKeeps,
     MutateKeeps, MakeElementKeeps, ConnectKeeps DEF Render
<1> QED BY <1>1, <1>2, FrameKeeps, MoveKeeps DEF Next

(* The inductive invariant holds: what create, grow, breed and the setters  *)
(* make of the heap of turtles and genes stays in order.                   *)
THEOREM WorldInvariant == Spec => []WorldInv
BY InitHolds, NextKeeps, PTL DEF Spec

(* The four stacks of grow never get out of step and never run empty,      *)
(* whatever brackets mutation leaves in the string that is being read.     *)
THEOREM StacksStayTogether == Spec => []StacksTogether
<1>1. WorldInv => StacksTogether
  BY DEF WorldInv, HeapInv, TurtleInv, StacksTogether
<1> QED BY <1>1, WorldInvariant, PTL

(* updatePoint keeps the point stack true to the points: a branch goes on  *)
(* from where physics has moved its point, on every level.                 *)
THEOREM StackPointsStayCurrent == Spec => []StackPointsCurrent
<1>1. ASSUME NEW t, TurtleInv(t)
      PROVE  \A level \in DOMAIN t.pointStack :
                /\ t.pointStack[level][1] < Len(t.points)
                /\ t.pointStack[level][2] = t.points[t.pointStack[level][1] + 1]
  <2>1. Len(t.points) \in Nat
    BY <1>1, IsSeqShape DEF TurtleInv
  <2> QED BY <1>1, <2>1 DEF TurtleInv, StackCurrent
<1>2. WorldInv => StackPointsCurrent
  BY <1>1 DEF WorldInv, HeapInv, StackPointsCurrent
<1> QED BY <1>2, WorldInvariant, PTL

(* create and breed never let two serpents share a system or a turtle, and *)
(* a turtle reads the system its serpent mutates and grows.                *)
THEOREM GenomesStayOwn == Spec => []OwnGenome
<1>1. WorldInv => OwnGenome
  BY DEF WorldInv
<1> QED BY <1>1, WorldInvariant, PTL

(* makeElement never asks Ogre or the physics engine for a name that is    *)
(* taken: objectCounter and the index of the point make it unique.         *)
THEOREM NamesStayUnique == Spec => []NamesUnique
<1>1. ASSUME WorldInv, pc = "element" PROVE NewItem \notin entities \cup DOMAIN bodies
  <2>1. NewItem[1] = objectId[self] /\ NewItem[2] = currentIndex
    BY DEF NewItem, ItemOf, Item
  <2>2. currentIndex \notin 0 .. currentIndex - 1
    BY <1>1 DEF WorldInv, GrowerInv
  <2> QED BY <1>1, <2>1, <2>2 DEF WorldInv, GrowerInv, NamesInv
<1>2. WorldInv => NamesUnique
  BY <1>1 DEF NamesUnique
<1> QED BY <1>2, WorldInvariant, PTL

-----------------------------------------------------------------------------
(* "Takes the cross product of two vectors": with the sign the code gives  *)
(* the second coordinate, the vertical axis of a turtle that is started in *)
(* a direction is at a right angle to it only if the direction has a 0 in  *)
(* y or in z.                                                              *)
THEOREM StartAxisLeans ==
  ASSUME NEW t, TurtleInv(t), NEW d \in [1 .. 3 -> Int]
  PROVE  LET u == InStartDirection(t, d) IN
         Dot(u.movementStack[1], u.verticalStack[1]) = -2 * (d[2] * d[3])
<1> DEFINE v == vectorCrossProduct(d, Jiggled(d))
<1>1. d[1] \in Int /\ d[2] \in Int /\ d[3] \in Int
  OBVIOUS
<1>2. Jiggled(d)[1] = d[1] + 1 /\ Jiggled(d)[2] = d[2] /\ Jiggled(d)[3] = d[3]
  BY DEF Jiggled
<1>3. v[1] = 0 /\ v[2] = -d[3] /\ v[3] = -d[2]
  <2>1. /\ v[1] = d[2] * d[3] - d[3] * d[2]
        /\ v[2] = d[1] * d[3] - d[3] * (d[1] + 1)
        /\ v[3] = d[1] * d[2] - d[2] * (d[1] + 1)
    BY <1>2 DEF vectorCrossProduct
  <2> HIDE DEF v
  <2> QED BY <1>1, <2>1
<1> HIDE DEF v
<1>4. Dot(d, v) = -2 * (d[2] * d[3])
  <2>1. Dot(d, v) = d[1] * 0 + d[2] * (-d[3]) + d[3] * (-d[2])
    BY <1>3 DEF Dot
  <2> QED BY <1>1, <2>1
<1>5. /\ InStartDirection(t, d).movementStack[1] = d
      /\ InStartDirection(t, d).verticalStack[1] = v
  <2>1. DOMAIN t = Fields /\ 1 \in DOMAIN t.movementStack /\ 1 \in DOMAIN t.verticalStack
    BY IsSeqShape DEF TurtleInv, Together
  <2>2. PICK h : h = vectorCrossProduct(d, v)
    OBVIOUS
  <2>3. InStartDirection(t, d) = [t EXCEPT !.movementStack[1] = d, !.verticalStack[1] = v,
                                           !.horizontalStack[1] = h]
    BY <2>2 DEF InStartDirection, v
  <2> QED BY <2>1, <2>3 DEF Fields
<1> QED BY <1>4, <1>5

-----------------------------------------------------------------------------
(* Histories of what was read: Depth, Open and Before, one element on      *)
Marks(reads, index, from, to) == {n \in from .. to : Index(reads[n]) = index}

LEMMA MarksCounted ==
  ASSUME NEW reads, NEW index, NEW from \in Nat, NEW to \in Nat, from <= to + 1
  PROVE  /\ Cardinality(Marks(reads, index, from, to)) \in Nat
         /\ Cardinality(Marks(reads, index, from, to + 1)) =
              Cardinality(Marks(reads, index, from, to))
                + IF Index(reads[to + 1]) = index THEN 1 ELSE 0
<1> DEFINE M == Marks(reads, index, from, to)
           N == Marks(reads, index, from, to + 1)
<1>1. IsFiniteSet(M)
  <2>1. IsFiniteSet(from .. to)
    BY FS_Interval
  <2> QED BY <2>1, FS_Subset DEF Marks
<1>2. Cardinality(M) \in Nat
  BY <1>1, FS_CardinalityType
<1>3. to + 1 \notin M
  BY DEF Marks
<1>4. from .. to + 1 = (from .. to) \cup {to + 1}
  OBVIOUS
<1>5. CASE Index(reads[to + 1]) = index
  <2>1. N = M \cup {to + 1}
    BY <1>4, <1>5 DEF Marks
  <2> HIDE DEF M, N
  <2>2. Cardinality(N) = Cardinality(M) + 1
    BY <1>1, <1>3, <2>1, FS_AddElement
  <2> QED BY <1>2, <1>5, <2>2 DEF M, N
<1>6. CASE Index(reads[to + 1]) # index
  <2>1. N = M
    BY <1>4, <1>6 DEF Marks
  <2> QED BY <1>2, <1>6, <2>1
<1> QED BY <1>5, <1>6

LEMMA NoMarks ==
  ASSUME NEW reads, NEW index, NEW from \in Nat, NEW to \in Nat, to < from
  PROVE  Cardinality(Marks(reads, index, from, to)) = 0
<1>1. Marks(reads, index, from, to) = {}
  BY DEF Marks
<1> QED BY <1>1, FS_EmptySet

LEMMA DepthStep ==
  ASSUME NEW reads, NEW from \in Nat, NEW to \in Nat, from <= to + 1
  PROVE  /\ Depth(reads, from, to) \in Int
         /\ Index(reads[to + 1]) = OpenIndex =>
               Depth(reads, from, to + 1) = Depth(reads, from, to) + 1
         /\ Index(reads[to + 1]) = CloseIndex =>
               Depth(reads, from, to + 1) = Depth(reads, from, to) - 1
         /\ Index(reads[to + 1]) \notin {OpenIndex, CloseIndex} =>
               Depth(reads, from, to + 1) = Depth(reads, from, to)
         /\ from = to + 1 => Depth(reads, from, to) = 0
<1> DEFINE o(x) == Cardinality(Marks(reads, OpenIndex, from, x))
           c(x) == Cardinality(Marks(reads, CloseIndex, from, x))
<1>1. \A x : Depth(reads, from, x) = o(x) - c(x)
  BY DEF Depth, Marks
<1>2. o(to) \in Nat /\ c(to) \in Nat
  BY MarksCounted
<1>3. /\ o(to + 1) = o(to) + IF Index(reads[to + 1]) = OpenIndex THEN 1 ELSE 0
      /\ c(to + 1) = c(to) + IF Index(reads[to + 1]) = CloseIndex THEN 1 ELSE 0
  BY MarksCounted
<1>4. OpenIndex # CloseIndex
  BY InterpreterAssumption DEF OpenIndex, CloseIndex
<1>5. from = to + 1 => o(to) = 0 /\ c(to) = 0
  BY NoMarks
<1> HIDE DEF o, c
<1> QED BY <1>1, <1>2, <1>3, <1>4, <1>5

(* What was read first does not depend on what is read later. *)
LEMMA SameBefore ==
  ASSUME NEW reads, NEW more, NEW m \in Nat, \A n \in 1 .. m : more[n] = reads[n]
  PROVE  /\ \A from, to \in Nat : from >= 1 /\ to <= m =>
               Depth(more, from, to) = Depth(reads, from, to)
         /\ \A at \in 1 .. m + 1 : Open(more, at) = Open(reads, at)
<1>1. ASSUME NEW from \in Nat, NEW to \in Nat, from >= 1, to <= m
      PROVE  Depth(more, from, to) = Depth(reads, from, to)
  <2>1. \A n \in from .. to : more[n] = reads[n]
    BY <1>1
  <2>2. /\ {n \in from .. to : Index(more[n]) = OpenIndex} = {n \in from .. to : Index(reads[n]) = OpenIndex}
        /\ {n \in from .. to : Index(more[n]) = CloseIndex} = {n \in from .. to : Index(reads[n]) = CloseIndex}
    BY <2>1
  <2> QED BY <2>2 DEF Depth
<1>2. ASSUME NEW at \in 1 .. m + 1 PROVE Open(more, at) = Open(reads, at)
  <2>1. \A b \in 1 .. at - 1 : /\ more[b] = reads[b]
                               /\ \A to \in b .. at - 1 : Depth(more, b, to) = Depth(reads, b, to)
    BY <1>1
  <2> QED BY <2>1 DEF Open
<1> QED BY <1>1, <1>2

LEMMA OpenType ==
  ASSUME NEW reads, NEW at
  PROVE  Open(reads, at) \subseteq 1 .. at - 1
BY DEF Open

(* A bracket that is open was open before. *)
LEMMA OpenSince ==
  ASSUME NEW reads, NEW at \in Nat, NEW b \in Open(reads, at), NEW early \in Nat, b < early, early <= at
  PROVE  b \in Open(reads, early)
BY DEF Open

(* One element on *)
LEMMA OpenStep ==
  ASSUME NEW reads, NEW m \in Nat
  PROVE  /\ Index(reads[m + 1]) \notin {OpenIndex, CloseIndex} => Open(reads, m + 2) = Open(reads, m + 1)
         /\ Index(reads[m + 1]) = OpenIndex => Open(reads, m + 2) = Open(reads, m + 1) \cup {m + 1}
         /\ Index(reads[m + 1]) = CloseIndex =>
               Open(reads, m + 2) = {b \in Open(reads, m + 1) : Depth(reads, b, m) > 1}
<1>1. /\ m + 2 - 1 = m + 1 /\ m + 1 - 1 = m
      /\ 1 .. m + 1 = (1 .. m) \cup {m + 1}
      /\ \A b \in 1 .. m : b .. m + 1 = (b .. m) \cup {m + 1} /\ m \in b .. m
      /\ m + 1 .. m + 1 = {m + 1} /\ m + 1 \notin 1 .. m
  OBVIOUS
<1>2. OpenIndex # CloseIndex
  BY InterpreterAssumption DEF OpenIndex, CloseIndex
<1> DEFINE d(b) == Depth(reads, b, m)
           e(b) == Depth(reads, b, m + 1)
<1>3. ASSUME NEW b \in 1 .. m + 1
      PROVE  /\ d(b) \in Int
             /\ Index(reads[m + 1]) = OpenIndex => e(b) = d(b) + 1
             /\ Index(reads[m + 1]) = CloseIndex => e(b) = d(b) - 1
             /\ Index(reads[m + 1]) \notin {OpenIndex, CloseIndex} => e(b) = d(b)
             /\ b = m + 1 => d(b) = 0
  BY DepthStep
<1>4. Open(reads, m + 2) = {b \in 1 .. m + 1 : /\ Index(reads[b]) = OpenIndex
                                               /\ \A to \in b .. m + 1 : Depth(reads, b, to) > 0}
  BY <1>1 DEF Open
<1>5. Open(reads, m + 1) = {b \in 1 .. m : /\ Index(reads[b]) = OpenIndex
                                           /\ \A to \in b .. m : Depth(reads, b, to) > 0}
  BY <1>1 DEF Open
<1>6. \A b \in 1 .. m : b \in Open(reads, m + 2) <=> b \in Open(reads, m + 1) /\ e(b) > 0
  BY <1>1, <1>4, <1>5
<1>7. m + 1 \in Open(reads, m + 2) <=> Index(reads[m + 1]) = OpenIndex /\ e(m + 1) > 0
  BY <1>1, <1>4
<1>8. Open(reads, m + 2) \subseteq (1 .. m) \cup {m + 1} /\ Open(reads, m + 1) \subseteq 1 .. m
  BY <1>1, <1>4, <1>5
<1>9. \A b \in Open(reads, m + 1) : d(b) > 0 /\ b \in 1 .. m /\ b \in 1 .. m + 1
  BY <1>1, <1>5
<1> HIDE DEF d, e
<1>10. CASE Index(reads[m + 1]) \notin {OpenIndex, CloseIndex}
  <2>1. \A b \in Open(reads, m + 1) : e(b) > 0
    BY <1>3, <1>9, <1>10
  <2> QED BY <1>6, <1>7, <1>8, <1>10, <2>1
<1>11. CASE Index(reads[m + 1]) = OpenIndex
  <2>1. e(m + 1) > 0
    BY <1>1, <1>3, <1>11
  <2>2. \A b \in Open(reads, m + 1) : e(b) > 0
    BY <1>3, <1>9, <1>11
  <2> QED BY <1>2, <1>6, <1>7, <1>8, <1>11, <2>1, <2>2
<1>12. CASE Index(reads[m + 1]) = CloseIndex
  <2>1. \A b \in Open(reads, m + 1) : e(b) > 0 <=> d(b) > 1
    BY <1>3, <1>9, <1>12
  <2>2. m + 1 \notin Open(reads, m + 2)
    BY <1>2, <1>7, <1>12
  <2> QED BY <1>2, <1>6, <1>8, <1>12, <2>1, <2>2 DEF d
<1> QED BY <1>10, <1>11, <1>12

(* The last point of the branch an element is in, or none *)
LastIs(reads, at, index) ==
    \/ Before(reads, at) = {} /\ index = 0
    \/ \E b \in Before(reads, at) : (\A c \in Before(reads, at) : c <= b) /\ index = Index(reads[b])

LEMMA BracketsDiffer == OpenIndex \in Nat /\ CloseIndex \in Nat /\ OpenIndex # CloseIndex
                        /\ OpenIndex > MaxPoints /\ CloseIndex > MaxPoints
BY InterpreterAssumption DEF OpenIndex, CloseIndex

(* What one more element makes of it, and what it leaves *)
OneMore(reads, x, m, more) ==
    /\ m \in Nat /\ IsSeq(more) /\ Len(more) = m + 1 /\ more[m + 1] = x
    /\ \A n \in 1 .. m : more[n] = reads[n]
    /\ Points(reads) \subseteq 1 .. m
    /\ Index(x) \in {OpenIndex, CloseIndex} => Points(more) = Points(reads)
    /\ Index(x) \notin {OpenIndex, CloseIndex} => Points(more) = Points(reads) \cup {m + 1}
    /\ \A at \in 1 .. m + 1 : /\ Open(more, at) = Open(reads, at)
                              /\ Before(more, at) = Before(reads, at)
                              /\ \A index : LastIs(reads, at, index) => LastIs(more, at, index)
                              /\ Depth(more, at, m) = Depth(reads, at, m)
                              /\ Depth(reads, at, m) \in Int
                              /\ Index(x) = OpenIndex =>
                                    Depth(more, at, m + 1) = Depth(reads, at, m) + 1
                              /\ Index(x) = CloseIndex =>
                                    Depth(more, at, m + 1) = Depth(reads, at, m) - 1
                              /\ Index(x) \notin {OpenIndex, CloseIndex} =>
                                    Depth(more, at, m + 1) = Depth(reads, at, m)
    /\ Depth(more, m + 1, m) = 0
    /\ Index(x) \notin {OpenIndex, CloseIndex} => Open(more, m + 2) = Open(more, m + 1)
    /\ Index(x) = OpenIndex => Open(more, m + 2) = Open(more, m + 1) \cup {m + 1}
    /\ Index(x) = CloseIndex =>
          Open(more, m + 2) = {b \in Open(more, m + 1) : Depth(more, b, m) > 1}

LEMMA ReadOne ==
  ASSUME NEW reads, IsSeq(reads), NEW x
  PROVE  OneMore(reads, x, Len(reads), Append(reads, x))
<1> DEFINE m == Len(reads)
           more == Append(reads, x)
<1>1. /\ m \in Nat /\ DOMAIN reads = 1 .. m
      /\ IsSeq(more) /\ Len(more) = m + 1 /\ DOMAIN more = 1 .. m + 1
      /\ more[m + 1] = x /\ \A n \in 1 .. m : more[n] = reads[n]
  BY IsSeqShape, Appended
<1> HIDE DEF m, more
<1>2. 1 .. m + 1 = (1 .. m) \cup {m + 1}
  BY <1>1
<1>3. /\ Points(reads) \subseteq 1 .. m
      /\ Index(x) \in {OpenIndex, CloseIndex} => Points(more) = Points(reads)
      /\ Index(x) \notin {OpenIndex, CloseIndex} => Points(more) = Points(reads) \cup {m + 1}
  BY <1>1, <1>2 DEF Points
<1>4. \A at \in 1 .. m + 1 : Open(more, at) = Open(reads, at)
  BY <1>1, SameBefore
<1>5. ASSUME NEW at \in 1 .. m + 1
      PROVE  Before(more, at) = Before(reads, at)
  <2>1. \A b \in 1 .. m + 1 : b < at => b \in 1 .. m /\ b # m + 1
    BY <1>1
  <2>2. Points(more) \subseteq 1 .. m + 1 /\ Points(reads) \subseteq 1 .. m + 1
    BY <1>2, <1>3
  <2>3. \A b \in 1 .. m + 1 : b < at => (b \in Points(more) <=> b \in Points(reads))
    BY <1>3, <2>1
  <2>4. Open(more, at) = Open(reads, at) /\ \A b \in 1 .. m + 1 : Open(more, b) = Open(reads, b)
    BY <1>4
  <2> QED BY <2>2, <2>3, <2>4 DEF Before
<1>6. ASSUME NEW at \in 1 .. m + 1, NEW index, LastIs(reads, at, index)
      PROVE  LastIs(more, at, index)
  <2>1. Before(reads, at) \subseteq 1 .. m
    BY <1>3 DEF Before
  <2> QED BY <1>1, <1>5, <1>6, <2>1 DEF LastIs
<1>7. \A from, to \in Nat : from >= 1 /\ to <= m => Depth(more, from, to) = Depth(reads, from, to)
  BY <1>1, SameBefore
<1>8. ASSUME NEW at \in 1 .. m + 1
      PROVE  /\ Depth(more, at, m) = Depth(reads, at, m)
             /\ Depth(reads, at, m) \in Int
             /\ Index(more[m + 1]) = OpenIndex => Depth(more, at, m + 1) = Depth(more, at, m) + 1
             /\ Index(more[m + 1]) = CloseIndex => Depth(more, at, m + 1) = Depth(more, at, m) - 1
             /\ Index(more[m + 1]) \notin {OpenIndex, CloseIndex} =>
                   Depth(more, at, m + 1) = Depth(more, at, m)
             /\ at = m + 1 => Depth(more, at, m) = 0
  <2>1. at \in Nat /\ m \in Nat /\ at >= 1 /\ m <= m /\ at <= m + 1
    BY <1>1
  <2>2. Depth(more, at, m) = Depth(reads, at, m) /\ Depth(reads, at, m) \in Int
    BY <1>7, <2>1, DepthStep
  <2> QED BY <2>1, <2>2, DepthStep
<1>9. /\ Index(more[m + 1]) \notin {OpenIndex, CloseIndex} => Open(more, m + 2) = Open(more, m + 1)
      /\ Index(more[m + 1]) = OpenIndex => Open(more, m + 2) = Open(more, m + 1) \cup {m + 1}
      /\ Index(more[m + 1]) = CloseIndex =>
            Open(more, m + 2) = {b \in Open(more, m + 1) : Depth(more, b, m) > 1}
  <2>1. m \in Nat
    BY <1>1
  <2> QED BY ONLY <2>1, OpenStep, Zenon
<1>10. m + 1 \in 1 .. m + 1
  BY <1>1
<1>11. OneMore(reads, x, m, more)
  BY <1>1, <1>3, <1>4, <1>5, <1>6, <1>8, <1>9, <1>10 DEF OneMore
<1> QED BY <1>11 DEF m, more

-----------------------------------------------------------------------------
(* What a turtle has read and what it keeps of it.  Points have an index   *)
(* each.  There is a level for each bracket that is open, which knows the  *)
(* last point before its bracket, and one that knows the last point of     *)
(* all; opens are where those brackets are.                                *)
IndicesDiffer(reads, n) ==
    /\ \A b \in Points(reads) : Index(reads[b]) \in 1 .. n - 1
    /\ \A b, c \in Points(reads) : b # c => Index(reads[b]) # Index(reads[c])

Opened(reads, heads, count, opens) ==
    /\ opens \in [1 .. count -> 1 .. Len(reads)]
    /\ Open(reads, Len(reads) + 1) = {opens[i] : i \in 1 .. count}
    /\ \A i \in 1 .. count :
          /\ Depth(reads, opens[i], Len(reads)) = count - i + 1
          /\ Open(reads, opens[i]) = {opens[j] : j \in 1 .. i - 1}
          /\ Index(reads[opens[i]]) = OpenIndex
          /\ LastIs(reads, opens[i], heads[i])
    /\ LastIs(reads, Len(reads) + 1, heads[count + 1])

Heads(t) == [i \in 1 .. t.bracketCount + 1 |-> t.pointStack[i][1]]

History(reads, n, heads, count) ==
    /\ IsSeq(reads) /\ n \in Nat /\ count \in Nat
    /\ IndicesDiffer(reads, n)
    /\ \E opens : Opened(reads, heads, count, opens)

LEMMA NothingRead ==
  ASSUME NEW n \in Nat, NEW heads, heads[1] = 0
  PROVE  History(<<>>, n, heads, 0)
<1>1. IsSeq(<<>>) /\ Len(<<>>) = 0 /\ DOMAIN <<>> = {}
  BY DEF IsSeq
<1>2. Points(<<>>) = {}
  BY <1>1 DEF Points
<1>3. Open(<<>>, 1) = {} /\ Before(<<>>, 1) = {}
  BY <1>2 DEF Open, Before
<1> DEFINE opens == [i \in 1 .. 0 |-> i]
<1>4. opens \in [1 .. 0 -> 1 .. 0] /\ {opens[i] : i \in 1 .. 0} = {}
  OBVIOUS
<1>5. Opened(<<>>, heads, 0, opens)
  BY <1>1, <1>3, <1>4 DEF Opened, LastIs
<1> QED BY <1>1, <1>2, <1>5 DEF History, IndicesDiffer

(* A point is the last one of its branch. *)
LEMMA PointRead ==
  ASSUME NEW reads, NEW n, NEW heads, NEW count, History(reads, n, heads, count),
         NEW x, Index(x) = n, n >= 1, n <= MaxPoints,
         NEW heads2, heads2[count + 1] = n, \A i \in 1 .. count : heads2[i] = heads[i]
  PROVE  History(Append(reads, x), n + 1, heads2, count)
<1> DEFINE m == Len(reads)
           more == Append(reads, x)
<1>1. PICK opens : Opened(reads, heads, count, opens)
  BY DEF History
<1>2. IsSeq(reads) /\ n \in Nat /\ count \in Nat /\ m \in Nat
  BY IsSeqShape DEF History
<1>3. Index(x) \notin {OpenIndex, CloseIndex} /\ Index(x) = n
  BY <1>2, BracketsDiffer, InterpreterAssumption
<1>0. OneMore(reads, x, m, more)
  BY <1>2, ReadOne
<1> HIDE DEF m, more
<1>4. /\ IsSeq(more) /\ Len(more) = m + 1 /\ more[m + 1] = x
      /\ \A b \in 1 .. m : more[b] = reads[b]
      /\ Points(reads) \subseteq 1 .. m
      /\ Points(more) = Points(reads) \cup {m + 1}
  BY <1>2, <1>3, <1>0 DEF OneMore
<1>5. /\ \A at \in 1 .. m + 1 : /\ Open(more, at) = Open(reads, at)
                                /\ Before(more, at) = Before(reads, at)
                                /\ \A index : LastIs(reads, at, index) => LastIs(more, at, index)
                                /\ Depth(more, at, m) = Depth(reads, at, m)
                                /\ Depth(more, at, m + 1) = Depth(reads, at, m)
      /\ Open(more, m + 2) = Open(more, m + 1)
  BY <1>2, <1>3, <1>0 DEF OneMore
<1> HIDE DEF m, more
<1>6. Open(more, m + 2) = Open(more, m + 1) /\ m + 1 \in 1 .. m + 1
  BY <1>2, <1>5
<1>7. IndicesDiffer(more, n + 1)
  <2>1. \A b \in Points(reads) : /\ Index(reads[b]) \in 1 .. n - 1 /\ more[b] = reads[b]
                                 /\ b # m + 1
    BY <1>2, <1>4 DEF History, IndicesDiffer
  <2>2. 1 .. n - 1 \subseteq 1 .. (n + 1) - 1 /\ n \in 1 .. (n + 1) - 1 /\ n \notin 1 .. n - 1
    BY <1>2
  <2>3. \A b \in Points(more) : Index(more[b]) \in 1 .. (n + 1) - 1
    BY <1>3, <1>4, <2>1, <2>2
  <2>4. ASSUME NEW b \in Points(more), NEW c \in Points(more), b # c
        PROVE  Index(more[b]) # Index(more[c])
    <3>1. CASE b = m + 1
      BY <1>3, <1>4, <2>1, <2>2, <2>4, <3>1
    <3>2. CASE c = m + 1
      BY <1>3, <1>4, <2>1, <2>2, <2>4, <3>2
    <3>3. CASE b # m + 1 /\ c # m + 1
      <4>1. b \in Points(reads) /\ c \in Points(reads)
        BY <1>4, <3>3
      <4>2. Index(reads[b]) # Index(reads[c])
        BY <2>4, <4>1 DEF History, IndicesDiffer
      <4> QED BY <2>1, <4>1, <4>2
    <3> QED BY <3>1, <3>2, <3>3
  <2>5. \A b, c \in Points(more) : b # c => Index(more[b]) # Index(more[c])
    BY <2>4
  <2> QED BY <2>3, <2>5, Zenon DEF IndicesDiffer
<1>8. Opened(more, heads2, count, opens)
  <2>1. opens \in [1 .. count -> 1 .. m] /\ 1 .. m \subseteq 1 .. m + 1
    BY <1>1, <1>2 DEF Opened, m
  <2>2. opens \in [1 .. count -> 1 .. m + 1]
    BY <2>1
  <2>3. Open(more, m + 2) = {opens[i] : i \in 1 .. count}
    BY <1>1, <1>5, <1>6 DEF Opened, m
  <2>4. ASSUME NEW i \in 1 .. count
        PROVE  /\ Depth(more, opens[i], m + 1) = count - i + 1
               /\ Open(more, opens[i]) = {opens[j] : j \in 1 .. i - 1}
               /\ Index(more[opens[i]]) = OpenIndex
               /\ LastIs(more, opens[i], heads2[i])
    <3>1. opens[i] \in 1 .. m /\ opens[i] \in 1 .. m + 1
      BY <2>1
    <3>2. /\ Depth(reads, opens[i], m) = count - i + 1
          /\ Open(reads, opens[i]) = {opens[j] : j \in 1 .. i - 1}
          /\ Index(reads[opens[i]]) = OpenIndex
          /\ LastIs(reads, opens[i], heads[i])
      BY <1>1 DEF Opened, m
    <3>3. Depth(more, opens[i], m + 1) = Depth(reads, opens[i], m)
      BY <1>5, <3>1
    <3> QED BY <1>4, <1>5, <3>1, <3>2, <3>3
  <2>5. LastIs(more, m + 2, heads2[count + 1])
    <3>1. m + 1 \in Before(more, m + 2)
      BY <1>2, <1>4, <1>6 DEF Before
    <3>2. \A c \in Before(more, m + 2) : c <= m + 1
      BY <1>2, <1>4 DEF Before
    <3>3. heads2[count + 1] = Index(more[m + 1])
      BY <1>3, <1>4
    <3> QED BY <3>1, <3>2, <3>3 DEF LastIs
  <2>6. Len(more) = m + 1 /\ m + 1 + 1 = m + 2
    BY <1>2, <1>4
  <2> QED BY <2>2, <2>3, <2>4, <2>5, <2>6 DEF Opened
<1>9. n + 1 \in Nat
  BY <1>2
<1> QED BY <1>2, <1>4, <1>7, <1>8, <1>9 DEF History, more

(* A bracket that opens adds a level that knows what the last one does. *)
LEMMA OpenRead ==
  ASSUME NEW reads, NEW n, NEW heads, NEW count, History(reads, n, heads, count),
         NEW x, Index(x) = OpenIndex,
         NEW heads2, heads2[count + 2] = heads[count + 1],
         \A i \in 1 .. count + 1 : heads2[i] = heads[i]
  PROVE  History(Append(reads, x), n, heads2, count + 1)
<1> DEFINE m == Len(reads)
           more == Append(reads, x)
<1>1. PICK opens : Opened(reads, heads, count, opens)
  BY DEF History
<1>2. IsSeq(reads) /\ n \in Nat /\ count \in Nat /\ m \in Nat
  BY IsSeqShape DEF History
<1>0. OneMore(reads, x, m, more)
  BY <1>2, ReadOne
<1> HIDE DEF m, more
<1>4. /\ IsSeq(more) /\ Len(more) = m + 1 /\ more[m + 1] = x
      /\ \A b \in 1 .. m : more[b] = reads[b]
      /\ Points(reads) \subseteq 1 .. m
      /\ Points(more) = Points(reads)
  BY <1>2, <1>0 DEF OneMore
<1>5. /\ \A at \in 1 .. m + 1 : /\ Open(more, at) = Open(reads, at)
                                /\ Before(more, at) = Before(reads, at)
                                /\ \A index : LastIs(reads, at, index) => LastIs(more, at, index)
                                /\ Depth(more, at, m) = Depth(reads, at, m)
                                /\ Depth(more, at, m + 1) = Depth(reads, at, m) + 1
      /\ Depth(more, m + 1, m + 1) = 1
      /\ Open(more, m + 2) = Open(more, m + 1) \cup {m + 1}
  BY <1>2, <1>0 DEF OneMore
<1> HIDE DEF m, more
<1>6. Open(more, m + 2) = Open(more, m + 1) \cup {m + 1} /\ m + 1 \in 1 .. m + 1
  BY <1>2, <1>5
<1>7. IndicesDiffer(more, n)
  BY <1>4 DEF History, IndicesDiffer
<1> DEFINE opens2 == [i \in 1 .. count + 1 |-> IF i = count + 1 THEN m + 1 ELSE opens[i]]
<1>8. Opened(more, heads2, count + 1, opens2)
  <2>1. opens \in [1 .. count -> 1 .. m] /\ 1 .. m \subseteq 1 .. m + 1
        /\ 1 .. count + 1 = (1 .. count) \cup {count + 1} /\ count + 1 \notin 1 .. count
    BY <1>1, <1>2 DEF Opened, m
  <2>2. opens2 \in [1 .. count + 1 -> 1 .. m + 1]
    BY <1>6, <2>1
  <2>3. opens2[count + 1] = m + 1 /\ \A i \in 1 .. count : opens2[i] = opens[i]
    BY <2>1
  <2> HIDE DEF opens2
  <2>4. Open(more, m + 1) = {opens[i] : i \in 1 .. count}
    BY <1>1, <1>5, <1>6 DEF Opened, m
  <2>5. Open(more, m + 2) = {opens2[i] : i \in 1 .. count + 1}
    BY <1>6, <2>1, <2>3, <2>4
  <2>6. ASSUME NEW i \in 1 .. count
        PROVE  /\ Depth(more, opens2[i], m + 1) = (count + 1) - i + 1
               /\ Open(more, opens2[i]) = {opens2[j] : j \in 1 .. i - 1}
               /\ Index(more[opens2[i]]) = OpenIndex
               /\ LastIs(more, opens2[i], heads2[i])
    <3>1. opens[i] \in 1 .. m /\ opens[i] \in 1 .. m + 1 /\ opens2[i] = opens[i]
          /\ \A j \in 1 .. i - 1 : opens2[j] = opens[j]
      BY <1>2, <2>1, <2>3
    <3>2. /\ Depth(reads, opens[i], m) = count - i + 1
          /\ Open(reads, opens[i]) = {opens[j] : j \in 1 .. i - 1}
          /\ Index(reads[opens[i]]) = OpenIndex
          /\ LastIs(reads, opens[i], heads[i])
      BY <1>1 DEF Opened, m
    <3>3. Depth(more, opens[i], m + 1) = count - i + 1 + 1
      BY <1>5, <3>1, <3>2
    <3>4. count - i + 1 + 1 = (count + 1) - i + 1 /\ heads2[i] = heads[i]
      BY <1>2
    <3>5. {opens2[j] : j \in 1 .. i - 1} = {opens[j] : j \in 1 .. i - 1}
      BY <3>1
    <3> QED BY <1>4, <1>5, <3>1, <3>2, <3>3, <3>4, <3>5
  <2>7. /\ Depth(more, m + 1, m + 1) = (count + 1) - (count + 1) + 1
        /\ Open(more, m + 1) = {opens2[j] : j \in 1 .. (count + 1) - 1}
        /\ Index(more[m + 1]) = OpenIndex
        /\ LastIs(more, m + 1, heads2[count + 1])
    <3>1. Depth(more, m + 1, m + 1) = 1
      BY <1>5
    <3>2. 1 .. (count + 1) - 1 = 1 .. count /\ (count + 1) - (count + 1) + 1 = 1 /\ count + 1 \in 1 .. count + 1
      BY <1>2
    <3>3. LastIs(more, m + 1, heads2[count + 1])
      BY <1>1, <1>5, <1>6, <3>2 DEF Opened, m
    <3>4. Open(more, m + 1) = {opens2[j] : j \in 1 .. count}
      BY <2>3, <2>4
    <3> QED BY <1>4, <3>1, <3>2, <3>3, <3>4
  <2>8. LastIs(more, m + 2, heads2[count + 2])
    <3>1. Before(more, m + 2) = Before(more, m + 1)
      <4>1. \A b \in Points(more) : b < m + 2 /\ b < m + 1
        BY <1>2, <1>4
      <4>2. ASSUME NEW b \in Points(more)
            PROVE  Open(more, b) \subseteq Open(more, m + 2) <=> Open(more, b) \subseteq Open(more, m + 1)
        <5>1. m + 1 \notin Open(more, b)
          BY <1>2, <1>4, <4>1, OpenType
        <5> QED BY <1>6, <5>1
      <4> QED BY <4>1, <4>2 DEF Before
    <3>2. LastIs(more, m + 1, heads[count + 1])
      BY <1>1, <1>5, <1>6 DEF Opened, m
    <3> QED BY <3>1, <3>2 DEF LastIs
  <2>9. /\ Len(more) = m + 1 /\ m + 1 + 1 = m + 2 /\ count + 1 + 1 = count + 2
    BY <1>2, <1>4
  <2>10. ASSUME NEW i \in 1 .. count + 1
         PROVE  /\ Depth(more, opens2[i], m + 1) = (count + 1) - i + 1
                /\ Open(more, opens2[i]) = {opens2[j] : j \in 1 .. i - 1}
                /\ Index(more[opens2[i]]) = OpenIndex
                /\ LastIs(more, opens2[i], heads2[i])
    <3>1. CASE i = count + 1
      BY <2>3, <2>7, <3>1, Zenon
    <3>2. CASE i \in 1 .. count
      BY <2>6, <3>2
    <3> QED BY <2>1, <3>1, <3>2
  <2>11. LastIs(more, Len(more) + 1, heads2[count + 1 + 1])
    BY <2>8, <2>9
  <2>12. Open(more, Len(more) + 1) = {opens2[i] : i \in 1 .. count + 1}
    BY <2>5, <2>9
  <2>13. /\ opens2 \in [1 .. count + 1 -> 1 .. Len(more)]
         /\ \A i \in 1 .. count + 1 :
              /\ Depth(more, opens2[i], Len(more)) = (count + 1) - i + 1
              /\ Open(more, opens2[i]) = {opens2[j] : j \in 1 .. i - 1}
              /\ Index(more[opens2[i]]) = OpenIndex
              /\ LastIs(more, opens2[i], heads2[i])
    BY <2>2, <2>9, <2>10, Zenon
  <2> QED BY <2>11, <2>12, <2>13, Zenon DEF Opened
<1> HIDE DEF opens2
<1>9. count + 1 \in Nat
  BY <1>2
<1> QED BY <1>2, <1>4, <1>7, <1>8, <1>9 DEF History, more

(* One that closes takes the last level away: the one below knows the last *)
(* point before the bracket that opened, and that is the last one again.   *)
LEMMA CloseRead ==
  ASSUME NEW reads, NEW n, NEW heads, NEW count, History(reads, n, heads, count), count # 0,
         NEW x, Index(x) = CloseIndex,
         NEW heads2, \A i \in 1 .. count : heads2[i] = heads[i]
  PROVE  History(Append(reads, x), n, heads2, count - 1)
<1> DEFINE m == Len(reads)
           more == Append(reads, x)
           less == count - 1
<1>1. PICK opens : Opened(reads, heads, count, opens)
  BY DEF History
<1>2. IsSeq(reads) /\ n \in Nat /\ count \in Nat /\ m \in Nat /\ less \in Nat
  BY IsSeqShape DEF History
<1>0. OneMore(reads, x, m, more)
  BY <1>2, ReadOne
<1> HIDE DEF m, more
<1>4. /\ IsSeq(more) /\ Len(more) = m + 1 /\ more[m + 1] = x
      /\ \A b \in 1 .. m : more[b] = reads[b]
      /\ Points(reads) \subseteq 1 .. m
      /\ Points(more) = Points(reads)
  BY <1>2, <1>0 DEF OneMore
<1>5. /\ \A at \in 1 .. m + 1 : /\ Open(more, at) = Open(reads, at)
                                /\ Before(more, at) = Before(reads, at)
                                /\ \A index : LastIs(reads, at, index) => LastIs(more, at, index)
                                /\ Depth(more, at, m) = Depth(reads, at, m)
                                /\ Depth(more, at, m + 1) = Depth(reads, at, m) - 1
      /\ Open(more, m + 2) = {b \in Open(more, m + 1) : Depth(more, b, m) > 1}
  BY <1>2, <1>0 DEF OneMore
<1>3. count = less + 1 /\ 1 .. count = (1 .. less) \cup {count} /\ count \in 1 .. count
      /\ 1 .. less \subseteq 1 .. count
  BY <1>2
<1> HIDE DEF m, more, less
<1>6. /\ Open(more, m + 2) = {b \in Open(more, m + 1) : Depth(more, b, m) > 1} /\ m + 1 \in 1 .. m + 1
  BY <1>2, <1>5
<1>7. IndicesDiffer(more, n)
  BY <1>4 DEF History, IndicesDiffer
<1>8. opens \in [1 .. count -> 1 .. m] /\ 1 .. m \subseteq 1 .. m + 1
  BY <1>1, <1>2 DEF Opened, m
<1>9. ASSUME NEW i \in 1 .. count
      PROVE  /\ opens[i] \in 1 .. m /\ opens[i] \in 1 .. m + 1
             /\ Depth(more, opens[i], m) = count - i + 1
             /\ Depth(more, opens[i], m + 1) = less - i + 1
             /\ Open(more, opens[i]) = {opens[j] : j \in 1 .. i - 1}
             /\ Index(more[opens[i]]) = OpenIndex
             /\ LastIs(more, opens[i], heads2[i])
  <2>1. opens[i] \in 1 .. m /\ opens[i] \in 1 .. m + 1
    BY <1>8
  <2>2. /\ Depth(reads, opens[i], m) = count - i + 1
        /\ Open(reads, opens[i]) = {opens[j] : j \in 1 .. i - 1}
        /\ Index(reads[opens[i]]) = OpenIndex
        /\ LastIs(reads, opens[i], heads[i])
    BY <1>1 DEF Opened, m
  <2>3. /\ Depth(more, opens[i], m) = Depth(reads, opens[i], m)
        /\ Depth(more, opens[i], m + 1) = Depth(reads, opens[i], m) - 1
    BY <1>5, <2>1
  <2>5. (count - i + 1) - 1 = less - i + 1
    BY <1>2, <1>3
  <2>6. /\ more[opens[i]] = reads[opens[i]] /\ Open(more, opens[i]) = Open(reads, opens[i])
        /\ heads2[i] = heads[i]
        /\ LastIs(more, opens[i], heads[i])
    BY <1>4, <1>5, <2>1, <2>2
  <2>7. Depth(more, opens[i], m) = count - i + 1 /\ Depth(more, opens[i], m + 1) = less - i + 1
    BY <2>2, <2>3, <2>5
  <2> QED BY <2>1, <2>2, <2>6, <2>7, Zenon
<1>10. Open(more, m + 1) = {opens[i] : i \in 1 .. count}
  BY <1>1, <1>5, <1>6 DEF Opened, m
<1>11. Open(more, m + 2) = {opens[i] : i \in 1 .. less}
  <2>1. \A i \in 1 .. less : Depth(more, opens[i], m) > 1
    BY <1>2, <1>3, <1>9
  <2>2. ~(Depth(more, opens[count], m) > 1)
    BY <1>2, <1>3, <1>9
  <2> QED BY <1>3, <1>6, <1>10, <2>1, <2>2
<1> DEFINE opens2 == [i \in 1 .. less |-> opens[i]]
<1>12. Opened(more, heads2, less, opens2)
  <2>1. opens2 \in [1 .. less -> 1 .. m + 1]
    BY <1>3, <1>9
  <2>2. \A i \in 1 .. less : opens2[i] = opens[i]
    OBVIOUS
  <2> HIDE DEF opens2
  <2>3. Open(more, m + 2) = {opens2[i] : i \in 1 .. less}
    BY <1>11, <2>2
  <2>4. ASSUME NEW i \in 1 .. less
        PROVE  /\ Depth(more, opens2[i], m + 1) = less - i + 1
               /\ Open(more, opens2[i]) = {opens2[j] : j \in 1 .. i - 1}
               /\ Index(more[opens2[i]]) = OpenIndex
               /\ LastIs(more, opens2[i], heads2[i])
    <3>1. opens2[i] = opens[i] /\ \A j \in 1 .. i - 1 : opens2[j] = opens[j]
      BY <1>2, <2>2
    <3>2. {opens2[j] : j \in 1 .. i - 1} = {opens[j] : j \in 1 .. i - 1}
      BY <3>1
    <3> QED BY <1>3, <1>9, <3>1, <3>2
  <2>5. LastIs(more, m + 2, heads2[count])
    <3> DEFINE last == opens[count]
    <3>1. /\ last \in 1 .. m /\ LastIs(more, last, heads2[count])
          /\ Index(more[last]) = OpenIndex
          /\ Open(more, last) = Open(more, m + 2) /\ last \in Open(more, m + 1)
      <4>1. 1 .. count - 1 = 1 .. less
        BY <1>2, <1>3
      <4> QED BY <1>3, <1>9, <1>10, <1>11, <4>1
    <3> HIDE DEF last
    <3>2. Before(more, m + 2) = Before(more, last)
      <4>1. ASSUME NEW b \in Points(more), Open(more, b) \subseteq Open(more, last)
            PROVE  b < last
        <5>1. b \in 1 .. m /\ b # last
          BY <1>4, <3>1, <4>1 DEF Points
        <5>2. CASE last < b
          <6>1. last \in Open(more, b)
            BY <1>2, <3>1, <5>1, <5>2, OpenSince
          <6>2. last \notin Open(more, last)
            BY <3>1, OpenType
          <6> QED BY <4>1, <6>1, <6>2
        <5> QED BY <3>1, <5>1, <5>2
      <4>2. \A b \in Points(more) : b < m + 2
        BY <1>2, <1>4
      <4> QED BY <3>1, <4>1, <4>2 DEF Before
    <3> QED BY <3>1, <3>2 DEF LastIs
  <2>6. Len(more) = m + 1 /\ m + 1 + 1 = m + 2 /\ less + 1 = count
    BY <1>2, <1>3, <1>4
  <2> QED BY <2>1, <2>3, <2>4, <2>5, <2>6 DEF Opened
<1> HIDE DEF opens2
<1> QED BY <1>2, <1>4, <1>7, <1>12 DEF History, more, less

-----------------------------------------------------------------------------
(* What a turtle remembers of what it has read, and how each method leaves *)
(* it                                                                      *)
Remembers(t, reads) == History(reads, Len(t.points), Heads(t), t.bracketCount)

LEMMA SameHeads ==
  ASSUME NEW t, TurtleInv(t), NEW reads, Remembers(t, reads),
         NEW u, Len(u.points) = Len(t.points), u.bracketCount = t.bracketCount,
         \A i \in DOMAIN t.pointStack : u.pointStack[i][1] = t.pointStack[i][1]
  PROVE  Remembers(u, reads)
<1>1. DOMAIN t.pointStack = 1 .. t.bracketCount + 1
  BY IsSeqShape DEF TurtleInv, Together
<1>2. Heads(u) = Heads(t)
  BY <1>1 DEF Heads
<1> QED BY <1>2 DEF Remembers

LEMMA NewTurtleRemembers ==
  ASSUME NEW s, NEW a
  PROVE  Remembers(NewTurtle(s, a), <<>>)
<1> DEFINE t == NewTurtle(s, a)
<1>1. t.points = <<Zero>> /\ t.pointStack = << <<0, Zero>> >> /\ t.bracketCount = 0
  BY DEF NewTurtle
<1> HIDE DEF t
<1>2. Len(t.points) = 1
  BY <1>1
<1>3. t.pointStack[1][1] = 0 /\ 1 \in 1 .. t.bracketCount + 1
  BY <1>1
<1>4. Heads(t)[1] = 0
  BY <1>3 DEF Heads
<1>5. Remembers(t, <<>>)
  BY <1>1, <1>2, <1>4, NothingRead DEF Remembers
<1> QED BY <1>5 DEF t

LEMMA ConfiguredRemembers ==
  ASSUME NEW t, TurtleInv(t), NEW reads, Remembers(t, reads), NEW pos
  PROVE  Remembers(Configured(t, pos), reads)
<1> DEFINE u == Configured(t, pos)
<1>1. u.points = t.points /\ u.pointStack = t.pointStack /\ u.bracketCount = t.bracketCount
  BY DEF Configured, TurtleInv, Fields
<1> HIDE DEF u
<1>2. Remembers(u, reads)
  BY <1>1, SameHeads
<1> QED BY <1>2 DEF u

LEMMA StartPointRemembers ==
  ASSUME NEW t, TurtleInv(t), NEW reads, Remembers(t, reads), NEW pos
  PROVE  Remembers([t EXCEPT !.attributes.startPoint = pos], reads)
<1> DEFINE u == [t EXCEPT !.attributes.startPoint = pos]
<1>1. u.points = t.points /\ u.pointStack = t.pointStack /\ u.bracketCount = t.bracketCount
  BY DEF TurtleInv, Fields
<1> HIDE DEF u
<1>2. Remembers(u, reads)
  BY <1>1, SameHeads
<1> QED BY <1>2 DEF u

(* A point that has moved keeps its index. *)
LEMMA UpdatePointRemembers ==
  ASSUME NEW t, TurtleInv(t), NEW reads, Remembers(t, reads), NEW index \in Nat, NEW point
  PROVE  Remembers(UpdatePoint(t, index, point), reads)
<1> DEFINE u == UpdatePoint(t, index, point)
           moved == [n \in DOMAIN t.pointStack |->
                        IF t.pointStack[n][1] = index THEN <<index, point>> ELSE t.pointStack[n]]
<1> SUFFICES ASSUME index < Len(t.points)
             PROVE  Remembers(u, reads)
  BY DEF UpdatePoint
<1>1. u.pointStack = moved /\ u.bracketCount = t.bracketCount
  BY DEF UpdatePoint, TurtleInv, Fields
<1>2. Len(u.points) = Len(t.points)
  BY UpdatePointKeeps
<1> HIDE DEF u
<1>3. ASSUME NEW i \in DOMAIN t.pointStack
      PROVE  moved[i][1] = t.pointStack[i][1]
  <2>1. moved[i] = IF t.pointStack[i][1] = index THEN <<index, point>> ELSE t.pointStack[i]
    OBVIOUS
  <2> HIDE DEF moved
  <2>2. CASE t.pointStack[i][1] = index
    <3>1. moved[i] = <<index, point>>
      BY <2>1, <2>2
    <3>2. moved[i][1] = index
      BY <3>1
    <3> QED BY <2>2, <3>2
  <2>3. CASE t.pointStack[i][1] # index
    BY <2>1, <2>3
  <2> QED BY <2>2, <2>3
<1> HIDE DEF moved
<1> QED BY <1>1, <1>2, <1>3, SameHeads

LEMMA StartedRemembers ==
  ASSUME NEW t, TurtleInv(t), NEW reads, Remembers(t, reads)
  PROVE  Remembers(Started(t), reads)
<1> DEFINE p == t.attributes.startPoint
           d == t.attributes.startDirection
           placed == IF IsFirst(t) /\ p # Bad THEN AtStartPoint(t, p) ELSE t
<1>1. ASSUME IsFirst(t)
      PROVE  LET u == AtStartPoint(t, p) IN
             /\ DOMAIN u = Fields /\ Len(u.points) = Len(t.points)
             /\ u.bracketCount = t.bracketCount
             /\ \A i \in DOMAIN t.pointStack : u.pointStack[i][1] = t.pointStack[i][1]
  <2> DEFINE u == AtStartPoint(t, p)
  <2>1. /\ DOMAIN u = Fields /\ u.points = Change(t.points, 1, p)
        /\ u.pointStack = Change(t.pointStack, 1, <<0, p>>)
        /\ u.bracketCount = t.bracketCount
    BY DEF AtStartPoint, TurtleInv, Fields, Change
  <2> HIDE DEF u, p
  <2>0. /\ IsSeq(t.points) /\ Len(t.points) = 1
        /\ IsSeq(t.pointStack) /\ Len(t.pointStack) = 1
        /\ StackCurrent(t)
    BY <1>1 DEF TurtleInv, IsFirst
  <2>7. DOMAIN t.pointStack = 1 .. Len(t.pointStack)
    BY <2>0, IsSeqShape
  <2>2. /\ IsSeq(t.points) /\ 1 \in 1 .. Len(t.points) /\ Len(t.points) = 1
        /\ IsSeq(t.pointStack) /\ 1 \in 1 .. Len(t.pointStack) /\ DOMAIN t.pointStack = 1 .. 1
    BY <2>0, <2>7
  <2>3. Len(u.points) = Len(t.points)
    <3>0. IsSeq(t.points) /\ 1 \in 1 .. Len(t.points)
      BY <2>2
    <3>1. Len(Change(t.points, 1, p)) = Len(t.points)
      BY ONLY <3>0, Changed
    <3> QED BY <2>1, <3>1
  <2>4. u.pointStack[1] = <<0, p>>
    BY <2>1, <2>2, Changed
  <2>5. u.pointStack[1][1] = 0
    BY <2>4
  <2>6. t.pointStack[1][1] = 0
    <3>1. 1 \in DOMAIN t.pointStack
      BY <2>2
    <3>2. t.pointStack[1][1] \in 0 .. Len(t.points) - 1
      BY <2>0, <3>1 DEF StackCurrent
    <3> QED BY <2>2, <3>2
  <2>8. \A i \in DOMAIN t.pointStack : u.pointStack[i][1] = t.pointStack[i][1]
    <3>1. \A i \in DOMAIN t.pointStack : i = 1
      BY <2>2
    <3> QED BY <2>5, <2>6, <3>1
  <2> QED BY <2>1, <2>3, <2>8 DEF u
<1>2. /\ DOMAIN placed = Fields /\ Len(placed.points) = Len(t.points)
      /\ placed.bracketCount = t.bracketCount
      /\ \A i \in DOMAIN t.pointStack : placed.pointStack[i][1] = t.pointStack[i][1]
  BY <1>1 DEF TurtleInv
<1>3. Started(t) = IF IsFirst(t) /\ d # Bad THEN InStartDirection(placed, d) ELSE placed
  BY DEF Started
<1> HIDE DEF placed
<1>4. LET u == InStartDirection(placed, d) IN
      /\ u.points = placed.points /\ u.pointStack = placed.pointStack
      /\ u.bracketCount = placed.bracketCount
  BY <1>2 DEF InStartDirection, Fields
<1>5. LET u == Started(t) IN
      /\ u.points = placed.points /\ u.pointStack = placed.pointStack
      /\ u.bracketCount = placed.bracketCount
  BY <1>3, <1>4
<1> QED BY <1>2, <1>5, SameHeads

LEMMA BegunRemembers ==
  ASSUME NEW t, TurtleInv(t), NEW reads, Remembers(t, reads)
  PROVE  Remembers(Begun(t), reads)
<1> DEFINE s == Started(t)
           u == Begun(t)
<1>1. TurtleInv(s) /\ Remembers(s, reads)
  BY StartedKeeps, StartedRemembers
<1>2. u.points = s.points /\ u.pointStack = s.pointStack /\ u.bracketCount = s.bracketCount
  BY <1>1 DEF Begun, TurtleInv, Fields
<1> HIDE DEF s, u
<1>3. Remembers(u, reads)
  BY <1>1, <1>2, SameHeads
<1> QED BY <1>3 DEF u

LEMMA TurnedRemembers ==
  ASSUME NEW t, TurtleInv(t), NEW reads, Remembers(t, reads), NEW kind
  PROVE  Remembers(Turned(t, kind), reads)
<1> DEFINE u == Turned(t, kind)
<1>1. u.points = t.points /\ u.pointStack = t.pointStack /\ u.bracketCount = t.bracketCount
  BY DEF Turned, TurnedLeftRight, TurnedUpDown, TurtleInv, Fields
<1> HIDE DEF u
<1>2. Remembers(u, reads)
  BY <1>1, SameHeads
<1> QED BY <1>2 DEF u

(* The new point is the last of the level it is on. *)
LEMMA MovedRemembers ==
  ASSUME NEW t, TurtleInv(t), NEW reads, Remembers(t, reads), Len(t.points) < MaxPoints,
         NEW g, NEW step, NEW x, Index(x) = Len(t.points)
  PROVE  Remembers(Moved(t, g, step), Append(reads, x))
<1> DEFINE u == Moved(t, g, step)
           p == Ahead(t, step)
           n == Len(t.points)
           count == t.bracketCount
<1> HIDE DEF p
<1>1. /\ u.points = Append(t.points, p)
      /\ u.pointStack = WithTop(t.pointStack, <<n, p>>)
      /\ u.bracketCount = count
  BY DEF Moved, TurtleInv, Fields, p
<1> HIDE DEF u
<1>2. /\ IsSeq(t.points) /\ n \in Nat /\ n >= 1 /\ count \in Nat
      /\ IsSeq(t.pointStack) /\ Len(t.pointStack) = count + 1 /\ Len(t.pointStack) >= 1
  BY IsSeqShape DEF TurtleInv, Together
<1>3. Len(u.points) = n + 1
  BY <1>1, <1>2, Appended
<1>4. \A i \in 1 .. count + 1 :
         u.pointStack[i] = IF i = count + 1 THEN <<n, p>> ELSE t.pointStack[i]
  BY <1>1, <1>2, WithTopOf
<1>5. <<n, p>>[1] = n
  OBVIOUS
<1> HIDE DEF n, count
<1>6. /\ Heads(u)[count + 1] = n
      /\ \A i \in 1 .. count : Heads(u)[i] = Heads(t)[i]
  <2>1. /\ count + 1 \in 1 .. count + 1
        /\ \A i \in 1 .. count : i \in 1 .. count + 1 /\ i # count + 1
    BY <1>2
  <2>2. /\ \A i \in 1 .. count + 1 : Heads(u)[i] = u.pointStack[i][1]
        /\ \A i \in 1 .. count + 1 : Heads(t)[i] = t.pointStack[i][1]
    BY <1>1 DEF Heads, count
  <2> QED BY <1>4, <1>5, <2>1, <2>2
<1>7. History(reads, n, Heads(t), count) /\ Index(x) = n /\ n <= MaxPoints
  BY <1>2, InterpreterAssumption DEF Remembers, n, count
<1>8. History(Append(reads, x), n + 1, Heads(u), count)
  <2> DEFINE h == Heads(t)
             h2 == Heads(u)
  <2> HIDE DEF h, h2
  <2>1. History(reads, n, h, count) /\ h2[count + 1] = n /\ \A i \in 1 .. count : h2[i] = h[i]
    BY <1>6, <1>7 DEF h, h2
  <2>2. History(Append(reads, x), n + 1, h2, count)
    BY <1>2, <1>7, <2>1, PointRead
  <2> QED BY <2>2 DEF h2
<1>9. Remembers(u, Append(reads, x))
  BY <1>1, <1>3, <1>8 DEF Remembers
<1> QED BY <1>9 DEF u

LEMMA BranchedRemembers ==
  ASSUME NEW t, TurtleInv(t), NEW reads, Remembers(t, reads), NEW x, Index(x) = OpenIndex
  PROVE  Remembers(Branched(t), Append(reads, x))
<1> DEFINE u == Branched(t)
           count == t.bracketCount
<1>1. /\ u.points = t.points /\ u.pointStack = Pushed(t.pointStack)
      /\ u.bracketCount = count + 1
  BY DEF Branched, TurtleInv, Fields
<1> HIDE DEF u
<1>2. count \in Nat /\ IsSeq(t.pointStack) /\ Len(t.pointStack) = count + 1
  BY DEF TurtleInv, Together
<1>3. /\ \A i \in 1 .. count + 1 : Pushed(t.pointStack)[i] = t.pointStack[i]
      /\ Pushed(t.pointStack)[(count + 1) + 1] = t.pointStack[count + 1]
  BY <1>2, Appended DEF Pushed, Top
<1>4. /\ \A i \in 1 .. count + 2 : Heads(u)[i] = u.pointStack[i][1]
      /\ \A i \in 1 .. count + 1 : Heads(t)[i] = t.pointStack[i][1]
  <2>1. (count + 1) + 1 = count + 2
    BY <1>2
  <2> QED BY <1>1, <2>1 DEF Heads
<1> HIDE DEF count
<1>5. /\ Heads(u)[count + 2] = Heads(t)[count + 1]
      /\ \A i \in 1 .. count + 1 : Heads(u)[i] = Heads(t)[i]
  <2>1. /\ count + 2 \in 1 .. count + 2 /\ count + 1 \in 1 .. count + 1 /\ (count + 1) + 1 = count + 2
        /\ \A i \in 1 .. count + 1 : i \in 1 .. count + 2
    BY <1>2
  <2> QED BY <1>1, <1>3, <1>4, <2>1
<1>6. History(Append(reads, x), Len(t.points), Heads(u), count + 1)
  <2> DEFINE h == Heads(t)
             h2 == Heads(u)
             n == Len(t.points)
  <2>1. History(reads, n, h, count)
    BY DEF Remembers, count
  <2> HIDE DEF h, h2, n
  <2>2. h2[count + 2] = h[count + 1] /\ \A i \in 1 .. count + 1 : h2[i] = h[i]
    BY <1>5 DEF h, h2
  <2>3. History(Append(reads, x), n, h2, count + 1)
    BY <2>1, <2>2, OpenRead
  <2> QED BY <2>3 DEF h2, n
<1>7. Remembers(u, Append(reads, x))
  BY <1>1, <1>6 DEF Remembers
<1> QED BY <1>7 DEF u

LEMMA RejoinedRemembers ==
  ASSUME NEW t, TurtleInv(t), NEW reads, Remembers(t, reads), t.bracketCount # 0,
         NEW x, Index(x) = CloseIndex
  PROVE  Remembers(Rejoined(t), Append(reads, x))
<1> DEFINE u == Rejoined(t)
           count == t.bracketCount
<1>1. /\ u.points = t.points /\ u.pointStack = Popped(t.pointStack)
      /\ u.bracketCount = count - 1
  BY DEF Rejoined, TurtleInv, Fields
<1> HIDE DEF u
<1>2. count \in Nat /\ count # 0 /\ IsSeq(t.pointStack) /\ Len(t.pointStack) = count + 1
  BY DEF TurtleInv, Together
<1>3. \A i \in 1 .. count : Popped(t.pointStack)[i] = t.pointStack[i]
  <2>1. Len(t.pointStack) >= 1 /\ Len(t.pointStack) - 1 = count
    BY <1>2
  <2> QED BY <1>2, <2>1, PoppedOf
<1>4. \A i \in 1 .. count : Heads(u)[i] = Heads(t)[i]
  <2>1. (count - 1) + 1 = count /\ \A i \in 1 .. count : i \in 1 .. count + 1
    BY <1>2
  <2>2. \A i \in 1 .. count : Heads(u)[i] = u.pointStack[i][1] /\ Heads(t)[i] = t.pointStack[i][1]
    BY <1>1, <2>1 DEF Heads
  <2> QED BY <1>1, <1>3, <2>2
<1> HIDE DEF count
<1>5. History(Append(reads, x), Len(t.points), Heads(u), count - 1)
  <2> DEFINE h == Heads(t)
             h2 == Heads(u)
             n == Len(t.points)
  <2>1. History(reads, n, h, count)
    BY DEF Remembers, count
  <2> HIDE DEF h, h2, n
  <2>2. \A i \in 1 .. count : h2[i] = h[i]
    BY <1>4 DEF h, h2
  <2>3. History(Append(reads, x), n, h2, count - 1)
    BY <1>2, <2>1, <2>2, CloseRead
  <2> QED BY <2>3 DEF h2, n
<1>6. Remembers(u, Append(reads, x))
  BY <1>1, <1>5 DEF Remembers
<1> QED BY <1>6 DEF u

(* What one call of grow makes of it *)
Recalls(t, reads, id, r) ==
    /\ r.ok => Remembers(r.turtle, Append(reads, Item(id, r.index)))
    /\ ~r.ok => Remembers(r.turtle, reads)
    /\ r.ok => \/ r.index \in {OpenIndex, CloseIndex} /\ r.point = NoPoint
               \/ r.index = Len(t.points) /\ r.index \notin {OpenIndex, CloseIndex}

LEMMA GrowRemembers ==
  ASSUME NEW t, TurtleInv(t), NEW reads, Remembers(t, reads), NEW gs, NEW r \in Grow(t, gs), NEW id
  PROVE  Recalls(t, reads, id, r)
<1>0. \A i : Index(Item(id, i)) = i
  BY DEF Index, Item
<1>1. ASSUME NEW u, Remembers(u, reads)
      PROVE  \A x \in Failed(u) : Recalls(t, reads, id, x)
  BY <1>1 DEF Failed, Result, Recalls
<1>2. ASSUME NEW u, TurtleInv(u), Remembers(u, reads), Len(u.points) = Len(t.points),
             Len(t.points) < MaxPoints, NEW g, NEW step
      PROVE  Recalls(t, reads, id, Grown(u, g, step))
  <2> DEFINE n == Len(t.points)
             x == Item(id, n)
             v == Moved(u, g, step)
  <2>1. Remembers(v, Append(reads, x))
    <3>1. Index(x) = Len(u.points) /\ Len(u.points) < MaxPoints
      BY <1>0, <1>2
    <3> HIDE DEF x
    <3> QED BY <1>2, <3>1, MovedRemembers
  <2>2. n \in Nat /\ n \notin {OpenIndex, CloseIndex}
    <3>1. n \in Nat
      BY IsSeqShape DEF TurtleInv
    <3> HIDE DEF n
    <3>2. n < MaxPoints
      BY <1>2 DEF n
    <3> QED BY <3>1, <3>2, BracketsDiffer, InterpreterAssumption
  <2> HIDE DEF n, v
  <2>3. Grown(u, g, step) = [ok |-> TRUE, turtle |-> v, point |-> Ahead(u, step), index |-> n]
    BY <1>2 DEF Grown, Result, n, v
  <2> QED BY <2>1, <2>2, <2>3 DEF Recalls, n
<1>3. ASSUME NEW u, NEW index \in {OpenIndex, CloseIndex},
             Remembers(u, Append(reads, Item(id, index)))
      PROVE  \A x \in Unmoved(u, index) : Recalls(t, reads, id, x)
  BY <1>3 DEF Unmoved, Result, Recalls
<1>4. ASSUME NEW u, TurtleInv(u), Remembers(u, reads), Len(u.points) = Len(t.points),
             Len(t.points) < MaxPoints, NEW g, NEW x \in Interpreted(u, g)
      PROVE  Recalls(t, reads, id, x)
  <2> DEFINE kind == Kind[g]
             step == StepOf(u, g)
  <2> HIDE DEF kind, step
  <2>1. \/ x = Grown(u, g, step)
        \/ x = Grown(Turned(u, kind), g, step)
        \/ x \in Unmoved(Branched(u), OpenIndex)
        \/ u.bracketCount # 0 /\ x \in Unmoved(Rejoined(u), CloseIndex)
        \/ x \in Failed(u)
    BY <1>4 DEF Interpreted, kind, step
  <2>2. CASE x = Grown(u, g, step)
    BY <1>2, <1>4, <2>2
  <2>3. CASE x = Grown(Turned(u, kind), g, step)
    <3> DEFINE v == Turned(u, kind)
    <3>1. TurtleInv(v) /\ v.points = u.points /\ Remembers(v, reads)
      BY <1>4, TurnedKeeps, TurnedRemembers
    <3> HIDE DEF v
    <3>2. Recalls(t, reads, id, Grown(v, g, step))
      BY <1>2, <1>4, <3>1
    <3> QED BY <2>3, <3>2 DEF v
  <2>4. CASE x \in Unmoved(Branched(u), OpenIndex)
    <3>1. Remembers(Branched(u), Append(reads, Item(id, OpenIndex)))
      BY <1>0, <1>4, BranchedRemembers
    <3> QED BY <1>3, <2>4, <3>1
  <2>5. CASE u.bracketCount # 0 /\ x \in Unmoved(Rejoined(u), CloseIndex)
    <3>1. Remembers(Rejoined(u), Append(reads, Item(id, CloseIndex)))
      BY <1>0, <1>4, <2>5, RejoinedRemembers
    <3> QED BY <1>3, <2>5, <3>1
  <2>6. CASE x \in Failed(u)
    BY <1>1, <1>4, <2>6
  <2> QED BY <2>1, <2>2, <2>3, <2>4, <2>5, <2>6
<1>5. CASE ~HasGene(t, gs)
  BY <1>1, <1>5 DEF Grow
<1>6. CASE HasGene(t, gs)
  <2>1. PICK g : r \in Interpreted(Begun(t), g)
    BY <1>6 DEF Grow
  <2>2. Len(t.points) < MaxPoints
    BY <1>6 DEF HasGene
  <2> QED BY <1>4, <2>1, <2>2, BegunKeeps, BegunRemembers
<1> QED BY <1>5, <1>6

(* prev: the last point of the branch the next element is in *)
LEMMA PrevIsLast ==
  ASSUME NEW t, TurtleInv(t), NEW reads, Remembers(t, reads), NEW x
  PROVE  LastIs(Append(reads, x), Len(reads) + 1, Prev(t).index)
<1> DEFINE m == Len(reads)
           more == Append(reads, x)
<1>1. IsSeq(reads) /\ t.bracketCount \in Nat
  BY DEF Remembers, History
<1>2. PICK opens : Opened(reads, Heads(t), t.bracketCount, opens)
  BY DEF Remembers, History
<1>3. LastIs(reads, m + 1, Heads(t)[t.bracketCount + 1])
  BY <1>2 DEF Opened
<1>4. Prev(t).index = Heads(t)[t.bracketCount + 1]
  <2>1. Len(t.pointStack) = t.bracketCount + 1 /\ t.bracketCount + 1 \in 1 .. t.bracketCount + 1
    BY <1>1 DEF TurtleInv, Together
  <2> QED BY <2>1 DEF Prev, Top, Heads
<1>5. OneMore(reads, x, m, more)
  BY <1>1, ReadOne
<1> HIDE DEF m, more
<1>6. m + 1 \in 1 .. m + 1
  BY <1>5 DEF OneMore
<1>7. LastIs(more, m + 1, Prev(t).index)
  BY <1>3, <1>4, <1>5, <1>6 DEF OneMore
<1> QED BY <1>7 DEF m, more

-----------------------------------------------------------------------------
(* What each serpent's turtle has made sense of is what it remembers. *)
HistoryInv ==
    /\ trace = [o \in Objects |-> trace[o]]
    /\ \A o \in Objects :
          /\ interpreter[o] = Null => trace[o] = <<>>
          /\ interpreter[o] # Null => Remembers(turtles[interpreter[o]], trace[o])

(* One serpent's turtle, and what it has read, change. *)
LEMMA TurtleSetRemembers ==
  ASSUME WorldInv, HistoryInv, NEW o \in Objects, interpreter[o] # Null, NEW u,
         turtles' = Change(turtles, interpreter[o], u), interpreter' = interpreter,
         NEW reads, trace' = Change(trace, o, reads), Remembers(u, reads)
  PROVE  HistoryInv'
<1> DEFINE i == interpreter[o]
<1>1. IsSeq(turtles) /\ i \in 1 .. Len(turtles)
  BY IsSeqShape DEF WorldInv, HeapInv, ObjectsInv, Null
<1> HIDE DEF i
<1>2. \A n \in 1 .. Len(turtles) : turtles'[n] = IF n = i THEN u ELSE turtles[n]
  BY <1>1, Changed DEF i
<1>3. /\ trace' = [p \in Objects |-> trace'[p]]
      /\ \A p \in Objects : trace'[p] = IF p = o THEN reads ELSE trace[p]
  BY DEF HistoryInv, Change
<1>4. turtles'[i] = u
  BY <1>1, <1>2
<1>5. ASSUME NEW p \in Objects, p # o
      PROVE  /\ trace'[p] = trace[p]
             /\ interpreter[p] # Null => turtles'[interpreter[p]] = turtles[interpreter[p]]
  <2>1. interpreter[p] # Null => interpreter[p] # i /\ interpreter[p] \in 1 .. Len(turtles)
    BY <1>1, <1>5 DEF WorldInv, OwnGenome, ObjectsInv, Null, i
  <2> QED BY <1>2, <1>3, <1>5, <2>1
<1>6. ASSUME NEW p \in Objects
      PROVE  /\ interpreter'[p] = Null => trace'[p] = <<>>
             /\ interpreter'[p] # Null => Remembers(turtles'[interpreter'[p]], trace'[p])
  <2>1. CASE p = o
    BY <1>3, <1>4, <2>1 DEF i
  <2>2. CASE p # o
    BY <1>5, <2>2 DEF HistoryInv
  <2> QED BY <2>1, <2>2
<1> QED BY <1>3, <1>6 DEF HistoryInv

(* A serpent gets a turtle, or its turtle is configured. *)
Begins(o, s) == IF interpreter[o] = Null THEN NewTurtle(s, <<>>) ELSE turtles[interpreter[o]]

OthersStay(o) ==
    \A p \in Objects \ {o} :
        /\ interpreter'[p] = interpreter[p]
        /\ interpreter[p] # Null => turtles'[interpreter[p]] = turtles[interpreter[p]]

LEMMA ConfigureSets ==
  ASSUME HeapInv, ObjectsInv, OwnGenome, NEW o \in Objects, NEW s, NEW pos, NEW flag,
         Configure(o, s, interpreter[o], pos, flag)
  PROVE  /\ turtles'[interpreter'[o]] = Configured(Begins(o, s), pos)
         /\ interpreter'[o] # Null /\ TurtleInv(Begins(o, s))
         /\ OthersStay(o)
<1> USE DEF OthersStay
<1>1. /\ IsSeq(turtles) /\ Len(turtles) \in Nat /\ DOMAIN turtles = 1 .. Len(turtles)
      /\ interpreter \in [Objects -> 0 .. Len(turtles)]
  BY IsSeqShape DEF HeapInv, ObjectsInv
<1>2. \A p \in Objects \ {o} : interpreter'[p] = interpreter[p]
  BY <1>1 DEF Configure
<1>3. CASE interpreter[o] = Null
  <2> DEFINE t == NewTurtle(s, <<>>)
             u == Configured(t, pos)
  <2> HIDE DEF t, u
  <2>1. turtles' = Append(turtles, u)
    BY <1>3 DEF Configure, t, u
  <2>2. interpreter'[o] = Len(turtles')
    BY <1>1, <1>3 DEF Configure
  <2>3. /\ Len(turtles') = Len(turtles) + 1 /\ turtles'[Len(turtles) + 1] = u
        /\ \A n \in 1 .. Len(turtles) : turtles'[n] = turtles[n]
    BY <1>1, <2>1, Appended
  <2>4. turtles'[interpreter'[o]] = u /\ interpreter'[o] # Null
    BY <1>1, <2>2, <2>3 DEF Null
  <2>5. \A p \in Objects : interpreter[p] # Null => turtles'[interpreter[p]] = turtles[interpreter[p]]
    BY <1>1, <2>3 DEF Null
  <2>6. TurtleInv(t) /\ Begins(o, s) = t
    BY <1>3, NewTurtleInv DEF t, Begins
  <2> QED BY <1>2, <1>3, <2>4, <2>5, <2>6 DEF u
<1>4. CASE interpreter[o] # Null
  <2> DEFINE i == interpreter[o]
             u == Configured(turtles[i], pos)
  <2> HIDE DEF u
  <2>1. i \in 1 .. Len(turtles)
    BY <1>1, <1>4 DEF Null
  <2>2. turtles' = Change(turtles, i, u)
    BY <1>4 DEF Configure, Change, u
  <2>3. interpreter'[o] = i
    BY <1>1, <1>4 DEF Configure
  <2> HIDE DEF i
  <2>4. \A n \in 1 .. Len(turtles) : turtles'[n] = IF n = i THEN u ELSE turtles[n]
    BY <1>1, <2>1, <2>2, Changed
  <2>5. ASSUME NEW p \in Objects \ {o}, interpreter[p] # Null
        PROVE  turtles'[interpreter[p]] = turtles[interpreter[p]]
    <3>1. interpreter[p] # i /\ interpreter[p] \in 1 .. Len(turtles)
      BY <1>1, <1>4, <2>5 DEF OwnGenome, Null, i
    <3> QED BY <2>4, <3>1
  <2>6. turtles'[interpreter'[o]] = u
    BY <2>1, <2>3, <2>4
  <2>7. TurtleInv(turtles[i]) /\ Begins(o, s) = turtles[i]
    BY <1>1, <1>4, <2>1 DEF HeapInv, Begins, i
  <2> QED BY <1>2, <1>4, <2>3, <2>5, <2>6, <2>7 DEF u, i
<1> QED BY <1>3, <1>4

LEMMA ConfigureRemembers ==
  ASSUME WorldInv, HistoryInv, NEW o \in Objects, NEW s, NEW pos, NEW flag,
         Configure(o, s, interpreter[o], pos, flag), trace' = trace
  PROVE  HistoryInv'
<1> USE DEF WorldInv
<1> DEFINE t == Begins(o, s)
<1>1. /\ turtles'[interpreter'[o]] = Configured(t, pos)
      /\ interpreter'[o] # Null /\ TurtleInv(t)
      /\ OthersStay(o)
  BY ConfigureSets
<1>2. \A p \in Objects \ {o} :
         /\ interpreter'[p] = interpreter[p]
         /\ interpreter[p] # Null => turtles'[interpreter[p]] = turtles[interpreter[p]]
  BY <1>1 DEF OthersStay
<1>3. Remembers(t, trace[o])
  BY NewTurtleRemembers DEF HistoryInv, Begins
<1> HIDE DEF t
<1>4. Remembers(turtles'[interpreter'[o]], trace[o])
  BY <1>1, <1>3, ConfiguredRemembers
<1>5. ASSUME NEW p \in Objects
      PROVE  /\ interpreter'[p] = Null => trace[p] = <<>>
             /\ interpreter'[p] # Null => Remembers(turtles'[interpreter'[p]], trace[p])
  <2>1. CASE p = o
    BY <1>1, <1>4, <2>1
  <2>2. CASE p # o
    BY <1>2, <2>2 DEF HistoryInv
  <2> QED BY <2>1, <2>2
<1> QED BY <1>5 DEF HistoryInv

-----------------------------------------------------------------------------
(* The names of what was read tell serpents apart: each has ids of its     *)
(* own, the present one among them ...                                     *)
Read(reads) == {reads[n] : n \in DOMAIN reads}

IdsInv ==
    \A o \in Objects : \A x \in Read(trace[o]) :
        /\ x = Item(x[1], x[2]) /\ x[1] \in 1 .. objectCounter
        /\ \A p \in Objects \ {o} : /\ objectId[p] # x[1]
                                    /\ \A y \in Read(trace[p]) : y[1] # x[1]

(* ... and what is drawn are points that were read.                        *)
ReadInv == \A x \in entities : \E o \in Objects : \E n \in Points(trace[o]) : x = trace[o][n]

(* The point that an element is made of is the last that was read, and     *)
(* prevIndex is that of the one it follows.                                *)
PendingInv ==
    /\ pc \in {"grown", "element", "joint"} =>
          /\ Len(trace[self]) \in Points(trace[self])
          /\ trace[self][Len(trace[self])] = NewItem
          /\ LastIs(trace[self], Len(trace[self]), prevIndex)
    /\ pc = "joint" /\ NewItem \in DOMAIN bodies => physics[self]
    /\ DOMAIN jointType = Objects
    /\ files.meshMap # "bad" =>
          \A o \in Objects : interpreter[o] # Null => jointType[o] # ""

(* Joints are between what has bodies and follows each other, and all that *)
(* could be are there, but for the one of the element that was just made.  *)
JointIn(reads, known, b, at) ==
    /\ b \in Points(reads) /\ at \in Points(reads) /\ Follows(reads, b, at)
    /\ reads[b] \in known /\ reads[at] \in known
LinkIn(reads, b, at) == <<reads[b], reads[at]>>

LinksInv ==
    /\ \A l \in links : \E o \in Objects : \E b, at \in Points(trace[o]) :
          JointIn(trace[o], DOMAIN bodies, b, at) /\ l = LinkIn(trace[o], b, at)
    /\ files.meshMap # "bad" =>
          \A o \in Objects : \A b, at \in Points(trace[o]) :
             JointIn(trace[o], DOMAIN bodies, b, at) /\ SameId(LinkIn(trace[o], b, at)) =>
                \/ LinkIn(trace[o], b, at) \in links
                \/ pc = "joint" /\ o = self /\ at = Len(trace[self])

JointsInv == HistoryInv /\ IdsInv /\ ReadInv /\ PendingInv /\ LinksInv

-----------------------------------------------------------------------------
(* What leaves each of them as it is *)
LEMMA IdsStay ==
  ASSUME ObjectsInv, IdsInv, trace' = trace, NEW o \in Objects,
         Begin(o) \/ UNCHANGED <<objectCounter, objectId>>
  PROVE  IdsInv'
<1>1. CASE UNCHANGED <<objectCounter, objectId>>
  BY <1>1 DEF IdsInv
<1>2. CASE Begin(o)
  <2>1. /\ objectCounter \in Nat /\ objectCounter' = objectCounter + 1
        /\ \A p \in Objects : objectId'[p] = IF p = o THEN objectCounter + 1 ELSE objectId[p]
    BY <1>2 DEF ObjectsInv, Begin
  <2>2. \A n \in 1 .. objectCounter : n \in 1 .. objectCounter + 1 /\ n # objectCounter + 1
    BY <2>1
  <2> QED BY <2>1, <2>2 DEF IdsInv
<1> QED BY <1>1, <1>2

LEMMA LinksStay ==
  ASSUME LinksInv, UNCHANGED <<files, trace, links>>, DOMAIN bodies' = DOMAIN bodies,
         pc # "joint" \/ UNCHANGED <<pc, self>>
  PROVE  LinksInv'
BY DEF LinksInv

(* One more element: nothing jointed before is jointed otherwise. *)
LEMMA JointsKept ==
  ASSUME NEW reads, NEW x, NEW m, NEW more, OneMore(reads, x, m, more),
         NEW known, Index(x) \in {OpenIndex, CloseIndex} \/ x \notin known,
         NEW b, NEW at
  PROVE  /\ JointIn(more, known, b, at) <=> JointIn(reads, known, b, at)
         /\ JointIn(reads, known, b, at) => LinkIn(more, b, at) = LinkIn(reads, b, at)
<1>1. /\ m \in Nat /\ Points(reads) \subseteq 1 .. m /\ more[m + 1] = x
      /\ \A n \in 1 .. m : more[n] = reads[n]
      /\ Index(x) \in {OpenIndex, CloseIndex} => Points(more) = Points(reads)
      /\ Index(x) \notin {OpenIndex, CloseIndex} => Points(more) = Points(reads) \cup {m + 1}
      /\ \A n \in 1 .. m : Before(more, n) = Before(reads, n)
  BY DEF OneMore
<1>2. ASSUME b \in Points(reads), at \in Points(reads)
      PROVE  /\ JointIn(more, known, b, at) <=> JointIn(reads, known, b, at)
             /\ LinkIn(more, b, at) = LinkIn(reads, b, at)
  <2>1. b \in Points(more) /\ at \in Points(more)
    BY <1>1, <1>2
  <2>2. more[b] = reads[b] /\ more[at] = reads[at] /\ Before(more, at) = Before(reads, at)
    BY <1>1, <1>2
  <2> QED BY <1>2, <2>1, <2>2 DEF JointIn, LinkIn, Follows
<1>3. ASSUME JointIn(more, known, b, at)
      PROVE  b \in Points(reads) /\ at \in Points(reads)
  <2>1. b \in Points(more) /\ at \in Points(more) /\ more[b] \in known /\ more[at] \in known
    BY <1>3 DEF JointIn
  <2> QED BY <1>1, <2>1
<1> QED BY <1>2, <1>3 DEF JointIn

(* What is read once is somewhere once. *)
LEMMA ReadOnce ==
  ASSUME WorldInv, HistoryInv, IdsInv, NEW o \in Objects, NEW p \in Objects,
         NEW b \in Points(trace[o]), NEW c \in Points(trace[p]),
         trace[o][b] = trace[p][c]
  PROVE  o = p /\ b = c
<1>1. trace[o][b] \in Read(trace[o]) /\ trace[p][c] \in Read(trace[p])
  BY DEF Read, Points
<1>2. o = p
  BY <1>1 DEF IdsInv
<1>3. interpreter[o] # Null
  <2>1. DOMAIN <<>> = {}
    OBVIOUS
  <2> QED BY <2>1 DEF HistoryInv, Points
<1>4. IndicesDiffer(trace[o], Len(turtles[interpreter[o]].points))
  BY <1>3 DEF HistoryInv, Remembers, History
<1> QED BY <1>2, <1>4 DEF IndicesDiffer

(* The item of an index, of the serpent's present id, if it is drawn: it   *)
(* was read, as a point of that index.                                     *)
LEMMA DrawnWasRead ==
  ASSUME IdsInv, ReadInv, NEW o \in Objects, NEW index, ItemOf(o, index) \in entities
  PROVE  \E n \in Points(trace[o]) : trace[o][n] = ItemOf(o, index) /\ Index(trace[o][n]) = index
<1> DEFINE x == ItemOf(o, index)
<1>1. x[1] = objectId[o] /\ Index(x) = index
  BY DEF ItemOf, Item, Index
<1> HIDE DEF x
<1>2. PICK p \in Objects : \E n \in Points(trace[p]) : x = trace[p][n]
  BY DEF ReadInv, x
<1>3. x \in Read(trace[p])
  BY <1>2 DEF Read, Points
<1>4. p = o
  BY <1>1, <1>3 DEF IdsInv
<1> QED BY <1>1, <1>2, <1>4 DEF x

LEMMA InitJoints == Init => JointsInv
<1> SUFFICES ASSUME Init PROVE JointsInv
  OBVIOUS
<1>1. /\ trace = [o \in Objects |-> <<>>] /\ interpreter = [o \in Objects |-> Null]
      /\ jointType = [o \in Objects |-> ""] /\ entities = {} /\ links = {} /\ pc = "idle"
      /\ bodies = [x \in {} |-> Zero]
  BY DEF Init
<1>2. DOMAIN <<>> = {} /\ Points(<<>>) = {} /\ Read(<<>>) = {}
  BY DEF Points, Read
<1>3. \A o \in Objects : trace[o] = <<>> /\ interpreter[o] = Null
  BY <1>1
<1>4. HistoryInv
  BY <1>1 DEF HistoryInv
<1>5. IdsInv
  BY <1>2, <1>3 DEF IdsInv
<1>6. ReadInv /\ PendingInv
  BY <1>1, <1>3 DEF ReadInv, PendingInv
<1>7. LinksInv
  <2>1. \A o \in Objects : Points(trace[o]) = {}
    BY <1>2, <1>3
  <2> QED BY <1>1, <2>1 DEF LinksInv
<1> QED BY <1>4, <1>5, <1>6, <1>7 DEF JointsInv

(* What leaves the turtles, what was read and the joints as they are *)
LEMMA OthersJoint ==
  ASSUME WorldInv, JointsInv,
         UNCHANGED <<files, turtles, interpreter, trace, objectCounter, objectId, entities, links>>,
         DOMAIN bodies' = DOMAIN bodies, DOMAIN jointType' = Objects,
         \A o \in Objects : jointType'[o] \in {jointType[o], "ball"},
         \/ pc # "joint" /\ pc' \notin {"grown", "element", "joint"}
         \/ /\ UNCHANGED <<self, currentIndex, prevIndex, physics>>
            /\ pc' = pc \/ (pc = "grown" /\ pc' = "element")
  PROVE  JointsInv'
<1> USE DEF JointsInv
<1>1. HistoryInv' /\ ReadInv'
  BY DEF HistoryInv, ReadInv
<1>2. IdsInv'
  BY DEF IdsInv
<1>3. PendingInv'
  <2>1. files.meshMap # "bad" => \A o \in Objects : interpreter[o] # Null => jointType'[o] # ""
    BY DEF PendingInv
  <2>2. CASE pc' \notin {"grown", "element", "joint"}
    BY <2>1, <2>2 DEF PendingInv
  <2>3. CASE /\ UNCHANGED <<self, currentIndex, prevIndex, physics>>
             /\ pc' = pc \/ (pc = "grown" /\ pc' = "element")
    <3>1. NewItem' = NewItem
      BY <2>3 DEF NewItem, ItemOf
    <3> QED BY <2>1, <2>3, <3>1 DEF PendingInv
  <2> QED BY <2>2, <2>3
<1>4. LinksInv'
  BY LinksStay DEF LinksInv
<1> QED BY <1>1, <1>2, <1>3, <1>4

(* A serpent is created or bred. *)
LEMMA ConfigureJoints ==
  ASSUME WorldInv, JointsInv, NEW o \in Objects, NEW s, NEW pos, NEW flag,
         Begin(o), Configure(o, s, interpreter[o], pos, flag), pc = "idle",
         UNCHANGED <<files, trace, entities, bodies, links, pc>>
  PROVE  JointsInv'
<1> USE DEF WorldInv, JointsInv
<1>1. HistoryInv'
  BY ConfigureRemembers
<1>2. IdsInv' /\ ReadInv'
  BY IdsStay DEF ReadInv
<1>3. LinksInv'
  BY LinksStay
<1>4. PendingInv'
  <2>1. OthersStay(o)
    BY ConfigureSets
  <2>2. /\ DOMAIN jointType = Objects
        /\ jointType' = [jointType EXCEPT ![o] = IF files.meshMap = "bad" THEN @ ELSE "ball"]
    BY DEF Configure, PendingInv
  <2> QED BY <2>1, <2>2 DEF OthersStay, PendingInv
<1> QED BY <1>1, <1>2, <1>3, <1>4

LEMMA CreateJoints ==
  ASSUME WorldInv, JointsInv, NEW o \in Objects, NEW pos \in Positions,
         Create(o, pos) \/ CreateAgain(o, pos)
  PROVE  JointsInv'
<1>1. /\ pc = "idle" /\ Begin(o)
      /\ UNCHANGED <<files, trace, entities, bodies, links, pc>>
  BY DEF Create, CreateAgain, Called, Quietly, elementVars, engineVars
<1>2. \/ \E s : Configure(o, s, interpreter[o], pos, physics[o])
      \/ UNCHANGED <<turtles, interpreter, jointType>>
  <2>1. CASE CreateAgain(o, pos)
    BY <2>1 DEF CreateAgain
  <2>2. CASE Create(o, pos)
    <3>1. interpreter[o] = Null
      BY <2>2 DEF Create, WorldInv, ObjectsInv
    <3> QED BY <2>2, <3>1 DEF Create
  <2> QED BY <2>1, <2>2
<1>3. CASE UNCHANGED <<turtles, interpreter, jointType>>
  <2>1. HistoryInv' /\ ReadInv' /\ PendingInv'
    <3>1. HistoryInv'
      <4>1. HistoryInv /\ UNCHANGED <<turtles, interpreter, trace>>
        BY <1>1, <1>3 DEF JointsInv
      <4> QED BY <4>1 DEF HistoryInv
    <3>2. ReadInv'
      BY <1>1 DEF JointsInv, ReadInv
    <3>3. PendingInv'
      BY <1>1, <1>3 DEF JointsInv, PendingInv
    <3> QED BY <3>1, <3>2, <3>3
  <2>2. IdsInv' /\ LinksInv'
    BY <1>1, IdsStay, LinksStay DEF WorldInv, JointsInv
  <2> QED BY <2>1, <2>2 DEF JointsInv
<1> QED BY <1>1, <1>2, <1>3, ConfigureJoints

LEMMA BreedJoints ==
  ASSUME WorldInv, JointsInv, NEW p \in Objects, NEW q \in Objects, NEW o \in Objects,
         Breed(p, q, o)
  PROVE  JointsInv'
<1>1. /\ pc = "idle" /\ Begin(o)
      /\ UNCHANGED <<files, trace, entities, bodies, links, pc>>
  BY DEF Breed, Called, Quietly, elementVars, engineVars
<1>2. interpreter[o] = Null
  BY DEF Breed, Created, WorldInv, ObjectsInv
<1>3. \E s : Configure(o, s, interpreter[o], Zero, physics[p])
  BY <1>2 DEF Breed
<1> QED BY <1>1, <1>3, ConfigureJoints

(* One turtle is told something: it remembers the same. *)
LEMMA ToldJoints ==
  ASSUME WorldInv, JointsInv, NEW o \in Objects, interpreter[o] # Null, NEW u,
         turtles' = Change(turtles, interpreter[o], u), Remembers(u, trace[o]),
         UNCHANGED <<files, interpreter, trace, objectCounter, objectId, entities, bodies, links,
                     pc, jointType>>,
         pc \notin {"grown", "element", "joint"}
  PROVE  JointsInv'
<1> USE DEF JointsInv
<1>1. HistoryInv'
  <2>1. trace' = Change(trace, o, trace[o])
    BY DEF Change, HistoryInv
  <2> QED BY <2>1, TurtleSetRemembers
<1>2. IdsInv' /\ ReadInv' /\ PendingInv'
  <2>1. IdsInv'
    BY DEF IdsInv
  <2>2. ReadInv'
    BY DEF ReadInv
  <2>3. PendingInv'
    BY DEF PendingInv
  <2> QED BY <2>1, <2>2, <2>3
<1>3. LinksInv'
  BY LinksStay
<1> QED BY <1>1, <1>2, <1>3

LEMMA SetPositionJoints ==
  ASSUME WorldInv, JointsInv, NEW o \in Objects, NEW pos \in Positions, SetPosition(o, pos)
  PROVE  JointsInv'
<1> DEFINE i == interpreter[o]
           u == [turtles[i] EXCEPT !.attributes.startPoint = pos]
<1>1. i # Null /\ TurtleInv(turtles[i])
  BY IsSeqShape DEF SetPosition, WorldInv, HeapInv, ObjectsInv, Null
<1>2. Remembers(u, trace[o])
  BY <1>1, StartPointRemembers DEF JointsInv, HistoryInv
<1>3. turtles' = Change(turtles, i, u)
  BY DEF SetPosition, Change
<1>4. /\ UNCHANGED <<files, interpreter, trace, objectCounter, objectId, entities, bodies, links,
                     pc, jointType>>
      /\ pc \notin {"grown", "element", "joint"}
  BY DEF SetPosition, Called, Quietly, objectVars, elementVars, engineVars
<1> HIDE DEF u
<1> QED BY <1>1, <1>2, <1>3, <1>4, ToldJoints

LEMMA RefreshJoints ==
  ASSUME WorldInv, JointsInv, Refresh
  PROVE  JointsInv'
<1> DEFINE i == interpreter[self]
           item == objectNames[self][k][1]
           index == objectNames[self][k][2]
           u == IF item \in DOMAIN bodies THEN UpdatePoint(turtles[i], index, bodies[item])
                ELSE turtles[i]
<1>1. /\ pc = "refresh" /\ k <= Len(objectNames[self]) /\ turtles' = Change(turtles, i, u)
      /\ UNCHANGED <<files, interpreter, trace, objectCounter, objectId, entities, bodies, links,
                     pc, jointType>>
  BY DEF Refresh, Refreshing, SetTurtle, Turtle, Change, objectVars, elementVars, engineVars
<1>2. self \in Objects /\ i # Null
  BY <1>1 DEF WorldInv, GrowerInv
<1>3. TurtleInv(turtles[i])
  BY <1>2, IsSeqShape DEF WorldInv, HeapInv, ObjectsInv, Null
<1>4. index \in Nat
  <2>1. k \in DOMAIN objectNames[self]
    BY <1>1, <1>2, IsSeqShape DEF WorldInv, GrowerInv
  <2> QED BY <1>2, <2>1 DEF WorldInv, GrowerInv
<1>5. Remembers(turtles[i], trace[self])
  BY <1>2 DEF JointsInv, HistoryInv
<1> HIDE DEF index, item
<1>6. Remembers(u, trace[self])
  BY <1>3, <1>4, <1>5, UpdatePointRemembers
<1> HIDE DEF u
<1> QED BY <1>1, <1>2, <1>6, ToldJoints

LEMMA SettersJoint ==
  ASSUME WorldInv, JointsInv, NEW o \in Objects, NEW rate,
         SetGrowthRate(o, rate) \/ SetJointType(o) \/ RestartPhysics(o)
  PROVE  JointsInv'
<1>1. /\ UNCHANGED <<files, turtles, interpreter, trace, objectCounter, objectId, entities, links>>
      /\ bodies' = bodies /\ jointType' \in {jointType, [jointType EXCEPT ![o] = "ball"]}
      /\ pc = "idle" /\ pc' = "idle"
  BY DEF SetGrowthRate, SetJointType, RestartPhysics, Called, Quietly, heap, elementVars, engineVars
<1>2. /\ DOMAIN jointType' = Objects
      /\ \A p \in Objects : jointType'[p] \in {jointType[p], "ball"}
  BY <1>1 DEF JointsInv, PendingInv
<1> QED BY <1>1, <1>2, OthersJoint

(* With a body go the joints it has. *)
LEMMA NoPhysicsJoints ==
  ASSUME WorldInv, JointsInv, NEW o \in Objects, NoPhysics(o)
  PROVE  JointsInv'
<1> USE DEF JointsInv
<1>1. /\ UNCHANGED <<files, turtles, interpreter, trace, objectCounter, objectId, entities, jointType>>
      /\ pc = "idle" /\ pc' = "idle"
      /\ DOMAIN bodies' = DOMAIN bodies \ sceneNodes[o]
      /\ links' = {l \in links : sceneNodes[o] \cap {l[1], l[2]} = {}}
  BY DEF NoPhysics, Called, heap, elementVars
<1>2. HistoryInv'
  BY <1>1 DEF HistoryInv
<1>3. IdsInv'
  BY <1>1 DEF IdsInv
<1>4. ReadInv'
  BY <1>1 DEF ReadInv
<1>5. PendingInv'
  BY <1>1 DEF PendingInv
<1>6. \A p \in Objects : \A b, at \in Points(trace[p]) :
         /\ LinkIn(trace[p], b, at)[1] = trace[p][b] /\ LinkIn(trace[p], b, at)[2] = trace[p][at]
         /\ JointIn(trace[p], DOMAIN bodies', b, at) <=>
               /\ JointIn(trace[p], DOMAIN bodies, b, at)
               /\ trace[p][b] \notin sceneNodes[o] /\ trace[p][at] \notin sceneNodes[o]
  BY <1>1 DEF JointIn, LinkIn
<1>7. ASSUME NEW l \in links'
      PROVE  \E p \in Objects : \E b, at \in Points(trace[p]) :
                JointIn(trace[p], DOMAIN bodies', b, at) /\ l = LinkIn(trace[p], b, at)
  <2>1. PICK p \in Objects : \E b, at \in Points(trace[p]) :
           JointIn(trace[p], DOMAIN bodies, b, at) /\ l = LinkIn(trace[p], b, at)
    BY <1>1 DEF LinksInv
  <2>2. PICK b \in Points(trace[p]), at \in Points(trace[p]) :
           JointIn(trace[p], DOMAIN bodies, b, at) /\ l = LinkIn(trace[p], b, at)
    BY <2>1
  <2>3. l[1] \notin sceneNodes[o] /\ l[2] \notin sceneNodes[o]
    BY <1>1
  <2>4. JointIn(trace[p], DOMAIN bodies', b, at)
    BY <1>6, <2>2, <2>3
  <2> QED BY <2>2, <2>4
<1>8. ASSUME files.meshMap # "bad", NEW p \in Objects,
             NEW b \in Points(trace[p]), NEW at \in Points(trace[p]),
             JointIn(trace[p], DOMAIN bodies', b, at), SameId(LinkIn(trace[p], b, at))
      PROVE  LinkIn(trace[p], b, at) \in links'
  <2> DEFINE l == LinkIn(trace[p], b, at)
  <2>1. /\ JointIn(trace[p], DOMAIN bodies, b, at)
        /\ l[1] \notin sceneNodes[o] /\ l[2] \notin sceneNodes[o]
    BY <1>6, <1>8
  <2>2. l \in links
    BY <1>1, <1>8, <2>1 DEF LinksInv
  <2> QED BY <1>1, <2>1, <2>2
<1>9. LinksInv'
  <2> DEFINE known == DOMAIN bodies'
  <2>1. \A l \in links' : \E p \in Objects : \E b, at \in Points(trace'[p]) :
           JointIn(trace'[p], known, b, at) /\ l = LinkIn(trace'[p], b, at)
    <3>1. trace' = trace
      BY <1>1
    <3> HIDE DEF known
    <3>2. \A l \in links' : \E p \in Objects : \E b, at \in Points(trace[p]) :
             JointIn(trace[p], known, b, at) /\ l = LinkIn(trace[p], b, at)
      BY <1>7 DEF known
    <3> QED BY <3>1, <3>2, Zenon
  <2>2. files'.meshMap # "bad" =>
           \A p \in Objects : \A b, at \in Points(trace'[p]) :
              JointIn(trace'[p], known, b, at) /\ SameId(LinkIn(trace'[p], b, at)) =>
                 LinkIn(trace'[p], b, at) \in links'
    BY <1>1, <1>8
  <2> QED BY <2>1, <2>2 DEF LinksInv
<1> QED BY <1>2, <1>3, <1>4, <1>5, <1>9

LEMMA FrameJoints ==
  ASSUME WorldInv, JointsInv,
         \/ FrameStarted \/ FrameEnded \/ OnlyUpdate \/ GrowObject \/ RefreshEnd \/ Mutate
         \/ (\E x \in DOMAIN bodies : Move(x)) \/ UNCHANGED vars
  PROVE  JointsInv'
<1>1. /\ UNCHANGED <<files, turtles, interpreter, trace, objectCounter, objectId, entities, links,
                     jointType>>
      /\ DOMAIN bodies' = DOMAIN bodies
      /\ \/ pc # "joint" /\ pc' \notin {"grown", "element", "joint"}
         \/ /\ UNCHANGED <<self, currentIndex, prevIndex, physics>>
            /\ pc' = pc \/ (pc = "grown" /\ pc' = "element")
  <2>1. CASE FrameStarted \/ FrameEnded \/ OnlyUpdate \/ GrowObject \/ RefreshEnd
    BY <2>1 DEF FrameStarted, FrameEnded, OnlyUpdate, GrowObject, RefreshEnd, heap, objectVars,
                elementVars, engineVars
  <2>2. CASE Mutate
    BY <2>2 DEF Mutate, objectVars, elementVars, engineVars, growVars
  <2>3. CASE (\E x \in DOMAIN bodies : Move(x)) \/ UNCHANGED vars
    BY <2>3 DEF Move, vars, heap, objectVars, elementVars, engineVars, growVars
  <2> QED BY <2>1, <2>2, <2>3
<1>2. DOMAIN jointType' = Objects /\ \A o \in Objects : jointType'[o] \in {jointType[o], "ball"}
  BY <1>1 DEF JointsInv, PendingInv
<1> QED BY <1>1, <1>2, OthersJoint

(* One more element is read: what a serpent's turtle made sense of *)
ReadOneMore(x) ==
    /\ IsSeq(trace[self])
    /\ trace' = Change(trace, self, Append(trace[self], x))
    /\ x = ItemOf(self, x[2])
    /\ x[2] \in {OpenIndex, CloseIndex} \/ x \notin entities
    /\ self \in Objects /\ objectId[self] \in 1 .. objectCounter
    /\ UNCHANGED <<files, objectCounter, objectId, entities, bodies, links>>

LEMMA ReadKeepsIds ==
  ASSUME WorldInv, HistoryInv, IdsInv, NEW x, ReadOneMore(x)
  PROVE  IdsInv'
<1> DEFINE reads == trace[self]
           more == Append(reads, x)
           id == objectId[self]
<1>1. /\ DOMAIN more = 1 .. Len(reads) + 1 /\ DOMAIN reads = 1 .. Len(reads) /\ Len(reads) \in Nat
      /\ more[Len(reads) + 1] = x /\ \A n \in 1 .. Len(reads) : more[n] = reads[n]
  BY Appended, IsSeqShape DEF ReadOneMore
<1>2. Read(more) \subseteq Read(reads) \cup {x}
  <2>1. \A n \in DOMAIN more : n \in DOMAIN reads \/ n = Len(reads) + 1
    BY <1>1
  <2> HIDE DEF more, reads
  <2> QED BY <1>1, <2>1 DEF Read
<1>3. x = Item(id, x[2]) /\ x[1] = id
  <2>1. x = Item(id, x[2]) /\ Item(id, x[2])[1] = id
    BY DEF ReadOneMore, ItemOf, Item
  <2> QED BY <2>1
<1>4. \A o \in Objects : trace'[o] = IF o = self THEN more ELSE trace[o]
  BY DEF ReadOneMore, HistoryInv, Change
<1> HIDE DEF more
<1>5. \A o \in Objects : \A y \in Read(trace'[o]) : y \in Read(trace[o]) \/ (o = self /\ y = x)
  BY <1>2, <1>4
<1>6. self \in Objects /\ id \in 1 .. objectCounter
  BY DEF ReadOneMore
<1>7. ASSUME NEW o \in Objects, NEW y \in Read(trace'[o])
      PROVE  /\ y = Item(y[1], y[2]) /\ y[1] \in 1 .. objectCounter
             /\ \A p \in Objects \ {o} : /\ objectId[p] # y[1]
                                         /\ \A z \in Read(trace'[p]) : z[1] # y[1]
  <2>1. CASE y \in Read(trace[o])
    <3>1. /\ y = Item(y[1], y[2]) /\ y[1] \in 1 .. objectCounter
          /\ \A p \in Objects \ {o} : /\ objectId[p] # y[1]
                                      /\ \A z \in Read(trace[p]) : z[1] # y[1]
      BY <2>1 DEF IdsInv
    <3>2. ASSUME NEW p \in Objects \ {o}, NEW z \in Read(trace'[p]) PROVE z[1] # y[1]
      BY <1>3, <1>5, <3>1
    <3> QED BY <3>1, <3>2
  <2>2. CASE o = self /\ y = x
    <3>1. ASSUME NEW p \in Objects \ {o}
          PROVE  /\ objectId[p] # id
                 /\ \A z \in Read(trace'[p]) : z[1] # id
      <4>1. objectId[p] # id
        BY <1>6, <2>2, <3>1 DEF WorldInv, ObjectsInv
      <4>2. \A z \in Read(trace[p]) : z[1] # id
        BY <2>2, <3>1 DEF IdsInv
      <4> QED BY <1>5, <2>2, <4>1, <4>2
    <3> QED BY <1>3, <1>6, <2>2, <3>1
  <2> QED BY <1>5, <2>1, <2>2
<1>8. UNCHANGED <<objectCounter, objectId>>
  BY DEF ReadOneMore
<1> QED BY <1>7, <1>8 DEF IdsInv

LEMMA ReadKeepsLinks ==
  ASSUME WorldInv, HistoryInv, ReadInv, LinksInv, NEW x, ReadOneMore(x), pc # "joint"
  PROVE  ReadInv' /\ LinksInv'
<1> DEFINE reads == trace[self]
           more == Append(reads, x)
           known == DOMAIN bodies
<1>1. OneMore(reads, x, Len(reads), more)
  BY ReadOne DEF ReadOneMore
<1>2. /\ \A n \in Points(reads) : n \in Points(more) /\ more[n] = reads[n]
  BY <1>1 DEF OneMore
<1>3. Index(x) \in {OpenIndex, CloseIndex} \/ x \notin known
  BY DEF ReadOneMore, Index, WorldInv, NamesInv
<1>4. \A o \in Objects : trace'[o] = IF o = self THEN more ELSE trace[o]
  BY DEF ReadOneMore, HistoryInv, Change
<1>5. UNCHANGED <<files, entities, links>> /\ bodies' = bodies /\ self \in Objects
  BY DEF ReadOneMore
<1> HIDE DEF more, known
<1>6. \A b, at : /\ JointIn(more, known, b, at) <=> JointIn(reads, known, b, at)
                 /\ JointIn(reads, known, b, at) => LinkIn(more, b, at) = LinkIn(reads, b, at)
  BY <1>1, <1>3, JointsKept
<1>7. \A o \in Objects :
         /\ \A n \in Points(trace[o]) : n \in Points(trace'[o]) /\ trace'[o][n] = trace[o][n]
         /\ \A b, at :
               /\ JointIn(trace'[o], known, b, at) <=> JointIn(trace[o], known, b, at)
               /\ JointIn(trace[o], known, b, at) => LinkIn(trace'[o], b, at) = LinkIn(trace[o], b, at)
  BY <1>2, <1>4, <1>6
<1>8. ReadInv'
  BY <1>5, <1>7 DEF ReadInv
<1>9. ASSUME NEW l \in links
      PROVE  \E o \in Objects : \E b, at \in Points(trace'[o]) :
                JointIn(trace'[o], known, b, at) /\ l = LinkIn(trace'[o], b, at)
  <2>1. PICK o \in Objects : \E b, at \in Points(trace[o]) :
           JointIn(trace[o], known, b, at) /\ l = LinkIn(trace[o], b, at)
    BY DEF LinksInv, known
  <2>2. PICK b \in Points(trace[o]), at \in Points(trace[o]) :
           JointIn(trace[o], known, b, at) /\ l = LinkIn(trace[o], b, at)
    BY <2>1
  <2> QED BY <1>7, <2>2
<1>10. ASSUME files.meshMap # "bad", NEW o \in Objects,
              NEW b \in Points(trace'[o]), NEW at \in Points(trace'[o]),
              JointIn(trace'[o], known, b, at), SameId(LinkIn(trace'[o], b, at))
       PROVE  LinkIn(trace'[o], b, at) \in links
  <2>1. JointIn(trace[o], known, b, at) /\ LinkIn(trace'[o], b, at) = LinkIn(trace[o], b, at)
    BY <1>7, <1>10
  <2>2. b \in Points(trace[o]) /\ at \in Points(trace[o])
    BY <2>1 DEF JointIn
  <2> QED BY <1>10, <2>1, <2>2 DEF LinksInv, known
<1>11. LinksInv'
  <2>1. /\ files' = files /\ links' = links /\ DOMAIN bodies' = known
    BY <1>5 DEF known
  <2>2. \A l \in links' : \E o \in Objects : \E b, at \in Points(trace'[o]) :
           JointIn(trace'[o], DOMAIN bodies', b, at) /\ l = LinkIn(trace'[o], b, at)
    BY <1>9, <2>1
  <2>3. files'.meshMap # "bad" =>
           \A o \in Objects : \A b, at \in Points(trace'[o]) :
              JointIn(trace'[o], DOMAIN bodies', b, at) /\ SameId(LinkIn(trace'[o], b, at)) =>
                 LinkIn(trace'[o], b, at) \in links'
    BY <1>10, <2>1
  <2> QED BY <2>2, <2>3 DEF LinksInv
<1> QED BY <1>8, <1>11

LEMMA ReadGeneJoints ==
  ASSUME WorldInv, JointsInv, ReadGene
  PROVE  JointsInv'
<1> USE DEF WorldInv, JointsInv
<1> DEFINE i == interpreter[self]
           t == turtles[i]
           reads == trace[self]
           id == objectId[self]
<1>1. PICK r \in Grow(t, genes[t.system]) :
         /\ turtles' = Change(turtles, i, r.turtle)
         /\ currentIndex' = r.index /\ pc' = After(r)
         /\ trace' = Change(trace, self, Traced(r))
  BY DEF ReadGene, SetTurtle, Turtle, Change
<1>2. /\ pc = "read" /\ prevIndex' = Prev(t).index
      /\ UNCHANGED <<files, self, objectCounter, objectId, interpreter, entities, bodies, links,
                     jointType>>
  BY DEF ReadGene, Turtle, objectVars, elementVars, engineVars
<1>3. self \in Objects /\ i # Null /\ id \in 1 .. objectCounter
  BY <1>2 DEF GrowerInv, ObjectsInv
<1>4. TurtleInv(t) /\ Remembers(t, reads) /\ IsSeq(reads)
  <2>1. TurtleInv(t)
    BY <1>3, IsSeqShape DEF HeapInv, ObjectsInv, Null
  <2>2. Remembers(t, reads)
    BY <1>3 DEF HistoryInv
  <2> QED BY <2>1, <2>2 DEF Remembers, History
<1> DEFINE x == Item(id, r.index)
<1>5. Recalls(t, reads, id, r)
  <2> HIDE DEF t, reads, id
  <2> QED BY <1>1, <1>4, GrowRemembers
<1>6. x[2] = r.index /\ x = ItemOf(self, x[2]) /\ x[1] = id
  BY DEF Item, ItemOf
<1>7. CASE ~r.ok
  <2>1. trace' = Change(trace, self, reads) /\ trace' = trace /\ pc' = "failed"
    BY <1>1, <1>7 DEF Traced, After, Change, HistoryInv
  <2>2. Remembers(r.turtle, reads)
    BY <1>5, <1>7 DEF Recalls
  <2>3. HistoryInv'
    BY <1>1, <1>2, <1>3, <2>1, <2>2, TurtleSetRemembers
  <2>4. IdsInv'
    BY <1>2, <2>1 DEF IdsInv
  <2>5. ReadInv'
    BY <1>2, <2>1 DEF ReadInv
  <2>6. PendingInv'
    BY <1>2, <2>1 DEF PendingInv
  <2>7. LinksInv'
    BY <1>2, <2>1, LinksStay
  <2> QED BY <2>3, <2>4, <2>5, <2>6, <2>7
<1>8. CASE r.ok
  <2> DEFINE more == Append(reads, x)
  <2>1. trace' = Change(trace, self, more)
    BY <1>1, <1>8 DEF Traced, ItemOf
  <2>2. /\ \/ r.index \in {OpenIndex, CloseIndex} /\ r.point = NoPoint
           \/ r.index = Len(t.points) /\ r.index \notin {OpenIndex, CloseIndex}
        /\ Remembers(r.turtle, more)
    BY <1>5, <1>8 DEF Recalls
  <2>3. x \notin entities \/ x[2] \in {OpenIndex, CloseIndex}
    <3>1. ASSUME x \in entities, r.index = Len(t.points) PROVE FALSE
      <4>1. x[2] \in 0 .. Len(t.points) - 1
        BY <1>3, <1>6, <3>1 DEF NamesInv
      <4>2. Len(t.points) \in Nat
        BY <1>4, IsSeqShape DEF TurtleInv
      <4> DEFINE n == Len(t.points)
      <4> HIDE DEF n
      <4>3. n \in 0 .. n - 1 /\ n \in Nat
        BY <1>6, <3>1, <4>1, <4>2 DEF n
      <4> QED BY <4>3
    <3> QED BY <1>6, <2>2, <3>1
  <2>4. ReadOneMore(x)
    BY <1>2, <1>3, <1>4, <1>6, <2>1, <2>3 DEF ReadOneMore
  <2>5. HistoryInv'
    <3> HIDE DEF more
    <3> QED BY <1>1, <1>2, <1>3, <2>1, <2>2, TurtleSetRemembers
  <2>6. IdsInv'
    BY <2>4, ReadKeepsIds
  <2>7. ReadInv' /\ LinksInv'
    BY <1>2, <2>4, ReadKeepsLinks
  <2>8. OneMore(reads, x, Len(reads), more)
    BY <1>4, ReadOne
  <2>9. LastIs(more, Len(reads) + 1, Prev(t).index)
    <3> HIDE DEF t, reads, x
    <3> QED BY <1>4, PrevIsLast
  <2> HIDE DEF more
  <2>10. trace'[self] = more
    BY <1>3, <2>1 DEF HistoryInv, Change
  <2>11. ASSUME pc' = "grown"
         PROVE  /\ Len(trace'[self]) \in Points(trace'[self])
                /\ trace'[self][Len(trace'[self])] = NewItem'
                /\ LastIs(trace'[self], Len(trace'[self]), prevIndex')
    <3>1. Index(x) \notin {OpenIndex, CloseIndex}
      BY <1>1, <1>6, <1>8, <2>2, <2>11 DEF After, Index
    <3>2. Len(more) = Len(reads) + 1 /\ Len(reads) + 1 \in Points(more) /\ more[Len(reads) + 1] = x
      BY <2>8, <3>1 DEF OneMore
    <3>3. NewItem' = x
      BY <1>1, <1>2 DEF NewItem, ItemOf
    <3> QED BY <1>2, <2>9, <2>10, <3>2, <3>3
  <2>12. PendingInv'
    <3>1. pc' \notin {"element", "joint"}
      BY <1>1 DEF After
    <3>2. /\ DOMAIN jointType' = Objects
          /\ files'.meshMap # "bad" => \A o \in Objects : interpreter'[o] # Null => jointType'[o] # ""
      BY <1>2 DEF PendingInv
    <3> QED BY <1>2, <2>11, <3>1, <3>2 DEF PendingInv
  <2> QED BY <2>5, <2>6, <2>7, <2>12
<1> QED BY <1>7, <1>8

(* The element that is made may follow another: its joint is still to be.  *)
LEMMA MakeElementJoints ==
  ASSUME WorldInv, JointsInv, MakeElement
  PROVE  JointsInv'
<1> USE DEF WorldInv, JointsInv
<1> DEFINE reads == trace[self]
           last == Len(reads)
<1>1. /\ pc = "element" /\ pc' = "joint" /\ NewItem \notin entities
      /\ entities' = entities \cup {NewItem}
      /\ DOMAIN bodies' = DOMAIN bodies \cup IF physics[self] THEN {NewItem} ELSE {}
      /\ UNCHANGED <<files, turtles, interpreter, physics, jointType, trace, objectCounter,
                     objectId, links, self, currentIndex, prevIndex>>
  BY DEF MakeElement, heap, objectVars, growVars
<1>2. NewItem' = NewItem
  BY <1>1 DEF NewItem, ItemOf
<1>3. /\ self \in Objects /\ last \in Points(reads) /\ reads[last] = NewItem
      /\ LastIs(reads, last, prevIndex)
  BY <1>1 DEF PendingInv, GrowerInv
<1>4. DOMAIN bodies \subseteq entities
  BY DEF NamesInv
<1>5. HistoryInv'
  BY <1>1 DEF HistoryInv
<1>6. IdsInv'
  BY <1>1 DEF IdsInv
<1>7. ReadInv'
  BY <1>1, <1>3 DEF ReadInv
<1>8. PendingInv'
  <2>1. NewItem \in DOMAIN bodies' => physics[self]
    BY <1>1, <1>4
  <2>2. /\ DOMAIN jointType = Objects
        /\ files.meshMap # "bad" => \A o \in Objects : interpreter[o] # Null => jointType[o] # ""
    BY DEF PendingInv
  <2> QED BY <1>1, <1>2, <1>3, <2>1, <2>2 DEF PendingInv
<1>9. ASSUME NEW o \in Objects, NEW b \in Points(trace[o]), NEW at \in Points(trace[o])
      PROVE  /\ JointIn(trace[o], DOMAIN bodies, b, at) => JointIn(trace[o], DOMAIN bodies', b, at)
             /\ JointIn(trace[o], DOMAIN bodies', b, at) =>
                   \/ JointIn(trace[o], DOMAIN bodies, b, at)
                   \/ o = self /\ at = last
  <2>1. JointIn(trace[o], DOMAIN bodies, b, at) => JointIn(trace[o], DOMAIN bodies', b, at)
    BY <1>1 DEF JointIn
  <2>2. ASSUME JointIn(trace[o], DOMAIN bodies', b, at), ~JointIn(trace[o], DOMAIN bodies, b, at)
        PROVE  o = self /\ at = last
    <3>1. trace[o][b] = NewItem \/ trace[o][at] = NewItem
      BY <1>1, <2>2 DEF JointIn
    <3>2. CASE trace[o][at] = NewItem
      BY <1>3, <3>2, ReadOnce
    <3>3. CASE trace[o][b] = NewItem
      <4>1. o = self /\ b = last
        BY <1>3, <3>3, ReadOnce
      <4>2. at \in 1 .. last /\ last \in Nat
        <5>1. IsSeq(reads)
          BY <1>1, <1>3 DEF GrowerInv, HistoryInv, Remembers, History
        <5> QED BY <4>1, <5>1, IsSeqShape DEF Points
      <4>3. b < at
        BY <2>2 DEF JointIn, Follows, Before
      <4> QED BY <4>1, <4>2, <4>3
    <3> QED BY <3>1, <3>2, <3>3
  <2> QED BY <2>1, <2>2
<1>10. LinksInv'
  <2>1. \A l \in links : \E o \in Objects : \E b, at \in Points(trace[o]) :
           JointIn(trace[o], DOMAIN bodies', b, at) /\ l = LinkIn(trace[o], b, at)
    <3> TAKE l \in links
    <3>1. PICK o \in Objects : \E b, at \in Points(trace[o]) :
             JointIn(trace[o], DOMAIN bodies, b, at) /\ l = LinkIn(trace[o], b, at)
      BY DEF LinksInv
    <3>2. PICK b \in Points(trace[o]), at \in Points(trace[o]) :
             JointIn(trace[o], DOMAIN bodies, b, at) /\ l = LinkIn(trace[o], b, at)
      BY <3>1
    <3>3. JointIn(trace[o], DOMAIN bodies', b, at)
      BY <1>9, <3>2
    <3> QED BY <3>1, <3>2, <3>3
  <2>2. ASSUME files.meshMap # "bad", NEW o \in Objects,
               NEW b \in Points(trace[o]), NEW at \in Points(trace[o]),
               JointIn(trace[o], DOMAIN bodies', b, at), SameId(LinkIn(trace[o], b, at))
        PROVE  LinkIn(trace[o], b, at) \in links \/ (o = self /\ at = last)
    <3>1. JointIn(trace[o], DOMAIN bodies, b, at) \/ (o = self /\ at = last)
      BY <1>9, <2>2
    <3>2. ASSUME JointIn(trace[o], DOMAIN bodies, b, at)
          PROVE  LinkIn(trace[o], b, at) \in links
      <4>1. LinksInv /\ pc # "joint"
        BY <1>1
      <4> QED BY ONLY <2>2, <3>2, <4>1 DEF LinksInv
    <3> QED BY <3>1, <3>2
  <2> DEFINE known == DOMAIN bodies'
  <2>3. \A l \in links : \E o \in Objects : \E b, at \in Points(trace[o]) :
           JointIn(trace[o], known, b, at) /\ l = LinkIn(trace[o], b, at)
    BY <2>1
  <2>4. files.meshMap # "bad" =>
           \A o \in Objects : \A b, at \in Points(trace[o]) :
              JointIn(trace[o], known, b, at) /\ SameId(LinkIn(trace[o], b, at)) =>
                 \/ LinkIn(trace[o], b, at) \in links
                 \/ o = self /\ at = Len(trace[self])
    BY <2>2
  <2>5. UNCHANGED <<files, links, self, trace>> /\ pc' = "joint"
    BY <1>1
  <2> QED BY <2>3, <2>4, <2>5 DEF LinksInv
<1> QED BY <1>5, <1>6, <1>7, <1>8, <1>10

(* It gets the joint, to the one that it follows. *)
LEMMA ConnectJoints ==
  ASSUME WorldInv, JointsInv, Connect
  PROVE  JointsInv'
<1> USE DEF WorldInv, JointsInv
<1> DEFINE reads == trace[self]
           last == Len(reads)
           prev == ItemOf(self, prevIndex)
           known == DOMAIN bodies
<1>1. /\ pc = "joint" /\ pc' = "frame"
      /\ links' = IF physics[self] /\ Connectable(prev, NewItem)
                  THEN links \cup {<<prev, NewItem>>} ELSE links
      /\ UNCHANGED <<files, turtles, interpreter, jointType, trace, objectCounter, objectId,
                     entities, bodies, self>>
  BY DEF Connect, heap, objectVars, elementVars
<1>2. /\ self \in Objects /\ last \in Points(reads) /\ reads[last] = NewItem
      /\ LastIs(reads, last, prevIndex)
      /\ NewItem \in known => physics[self]
      /\ files.meshMap # "bad" => jointType[self] # ""
  <2>1. self \in Objects /\ interpreter[self] # Null
    BY <1>1 DEF GrowerInv
  <2> QED BY <1>1, <2>1 DEF PendingInv
<1>3. HistoryInv'
  BY <1>1 DEF HistoryInv
<1>4. IdsInv'
  BY <1>1 DEF IdsInv
<1>5. ReadInv'
  BY <1>1 DEF ReadInv
<1>6. PendingInv'
  BY <1>1 DEF PendingInv
<1>7. /\ \A b \in Points(reads) : Index(reads[b]) # 0
      /\ \A b, c \in Points(reads) : b # c => Index(reads[b]) # Index(reads[c])
  <2>1. interpreter[self] # Null
    BY <1>1 DEF GrowerInv
  <2>2. IndicesDiffer(reads, Len(turtles[interpreter[self]].points))
    BY <1>2, <2>1 DEF HistoryInv, Remembers, History
  <2> QED BY <2>2 DEF IndicesDiffer
<1>8. ASSUME Connectable(prev, NewItem)
      PROVE  \E b \in Points(reads) : JointIn(reads, known, b, last) /\ <<prev, NewItem>> = LinkIn(reads, b, last)
  <2>1. prev \in known /\ NewItem \in known
    BY <1>8 DEF Connectable
  <2>2. PICK n \in Points(reads) : reads[n] = prev /\ Index(reads[n]) = prevIndex
    BY <1>2, <2>1, DrawnWasRead DEF NamesInv
  <2>3. PICK b \in Before(reads, last) :
           (\A c \in Before(reads, last) : c <= b) /\ prevIndex = Index(reads[b])
    BY <1>2, <1>7, <2>2 DEF LastIs
  <2>4. b \in Points(reads) /\ Follows(reads, b, last)
    BY <2>3 DEF Before, Follows
  <2>5. n = b
    BY <1>7, <2>2, <2>3, <2>4
  <2> QED BY <1>2, <2>1, <2>2, <2>4, <2>5 DEF JointIn, LinkIn
<1>9. ASSUME files.meshMap # "bad", NEW b \in Points(reads),
             JointIn(reads, known, b, last), SameId(LinkIn(reads, b, last))
      PROVE  LinkIn(reads, b, last) \in links'
  <2>1. /\ b \in Before(reads, last) /\ \A c \in Before(reads, last) : c <= b
        /\ reads[b] \in known /\ reads[last] \in known
    BY <1>9 DEF JointIn, Follows
  <2>2. prevIndex = Index(reads[b])
    <3>1. PICK c \in Before(reads, last) :
             (\A d \in Before(reads, last) : d <= c) /\ prevIndex = Index(reads[c])
      BY <1>2, <2>1 DEF LastIs
    <3>2. b <= c /\ c <= b /\ b \in Int /\ c \in Int
      <4>1. IsSeq(reads)
        <5>1. interpreter[self] # Null
          BY <1>1 DEF GrowerInv
        <5> QED BY <1>2, <5>1 DEF HistoryInv, Remembers, History
      <4>2. Points(reads) \subseteq 1 .. last
        BY <4>1, IsSeqShape DEF Points
      <4> HIDE DEF last
      <4> QED BY <2>1, <3>1, <4>2 DEF Before
    <3> QED BY <3>1, <3>2
  <2>3. reads[b][1] = NewItem[1] /\ NewItem[1] = objectId[self]
    <3>1. LinkIn(reads, b, last)[1] = reads[b] /\ LinkIn(reads, b, last)[2] = reads[last]
      BY DEF LinkIn
    <3> QED BY <1>2, <1>9, <3>1 DEF SameId, NewItem, ItemOf, Item
  <2>4. reads[b] = prev
    <3>1. reads[b] \in Read(trace[self])
      BY DEF Read, Points
    <3>2. reads[b] = Item(reads[b][1], reads[b][2])
      BY <1>2, <3>1 DEF IdsInv
    <3> QED BY <2>2, <2>3, <3>2 DEF ItemOf, Index
  <2>5. Connectable(prev, NewItem) /\ physics[self]
    BY <1>2, <1>9, <2>1, <2>4 DEF Connectable
  <2> QED BY <1>1, <1>2, <2>4, <2>5 DEF LinkIn
<1>10. \A l \in links' : \E o \in Objects : \E b, at \in Points(trace[o]) :
          JointIn(trace[o], known, b, at) /\ l = LinkIn(trace[o], b, at)
  <2> TAKE l \in links'
  <2>1. CASE l \in links
    BY <2>1 DEF LinksInv
  <2>2. CASE l = <<prev, NewItem>> /\ Connectable(prev, NewItem)
    BY <1>2, <1>8, <2>2
  <2> QED BY <1>1, <2>1, <2>2
<1>11. ASSUME files.meshMap # "bad", NEW o \in Objects,
              NEW b \in Points(trace[o]), NEW at \in Points(trace[o]),
              JointIn(trace[o], known, b, at), SameId(LinkIn(trace[o], b, at))
       PROVE  LinkIn(trace[o], b, at) \in links'
  <2>1. CASE o = self /\ at = last
    BY <1>9, <1>11, <2>1
  <2>2. CASE ~(o = self /\ at = last)
    <3>1. LinkIn(trace[o], b, at) \in links
      BY <1>11, <2>2 DEF LinksInv
    <3> QED BY <1>1, <3>1
  <2> QED BY <2>1, <2>2
<1>12. LinksInv'
  <2>1. UNCHANGED <<files, trace>> /\ DOMAIN bodies' = known
    BY <1>1
  <2> HIDE DEF known
  <2>2. files.meshMap # "bad" =>
           \A o \in Objects : \A b, at \in Points(trace[o]) :
              JointIn(trace[o], known, b, at) /\ SameId(LinkIn(trace[o], b, at)) =>
                 LinkIn(trace[o], b, at) \in links'
    BY <1>11
  <2> QED BY <1>10, <2>1, <2>2 DEF LinksInv
<1> QED BY <1>3, <1>4, <1>5, <1>6, <1>12

LEMMA NextJoints == WorldInv /\ JointsInv /\ [Next]_vars => JointsInv'
<1> SUFFICES ASSUME WorldInv, JointsInv, [Next]_vars PROVE JointsInv'
  OBVIOUS
<1>1. ASSUME NEW o \in Objects, Call(o)
      PROVE  JointsInv'
  BY <1>1, CreateJoints, BreedJoints, SetPositionJoints, SettersJoint, NoPhysicsJoints DEF Call
<1>2. ASSUME Render
      PROVE  JointsInv'
  BY <1>2, FrameJoints, RefreshJoints, ReadGeneJoints, MakeElementJoints, ConnectJoints
     DEF Render
<1> QED BY <1>1, <1>2, FrameJoints DEF Next

(* The joints, as the property has them *)
LEMMA JointsOfBranches ==
  ASSUME JointsInv, pc \in {"idle", "frame"}
  PROVE  LET joints == UNION {JointsOf(o) : o \in Objects} IN
         /\ links \subseteq joints
         /\ files.meshMap # "bad" => {l \in joints : SameId(l)} \subseteq links
<1> DEFINE joints == UNION {JointsOf(o) : o \in Objects}
           known == DOMAIN bodies
<1>1. ASSUME NEW o \in Objects, NEW l
      PROVE  l \in JointsOf(o) <=>
                \E b \in Points(trace[o]), at \in Points(trace[o]) :
                   JointIn(trace[o], known, b, at) /\ l = LinkIn(trace[o], b, at)
  <2> DEFINE reads == trace[o]
             P == Points(reads)
  <2> HIDE DEF reads, known, P
  <2>1. l \in JointsOf(o) <=>
          \E e \in P \X P : /\ Follows(reads, e[1], e[2]) /\ {reads[e[1]], reads[e[2]]} \subseteq known
                            /\ l = <<reads[e[1]], reads[e[2]]>>
    BY Zenon DEF JointsOf, reads, known, P
  <2>2. l \in JointsOf(o) <=>
          \E b \in P, at \in P : /\ Follows(reads, b, at) /\ reads[b] \in known /\ reads[at] \in known
                                 /\ l = <<reads[b], reads[at]>>
    <3>1. ASSUME l \in JointsOf(o)
          PROVE  \E b \in P, at \in P : /\ Follows(reads, b, at) /\ reads[b] \in known
                                        /\ reads[at] \in known /\ l = <<reads[b], reads[at]>>
      <4>1. PICK e \in P \X P : /\ Follows(reads, e[1], e[2])
                                /\ {reads[e[1]], reads[e[2]]} \subseteq known
                                /\ l = <<reads[e[1]], reads[e[2]]>>
        BY <2>1, <3>1
      <4>2. e[1] \in P /\ e[2] \in P
        OBVIOUS
      <4> QED BY <4>1, <4>2
    <3>2. ASSUME NEW b \in P, NEW at \in P, Follows(reads, b, at), reads[b] \in known,
                 reads[at] \in known, l = <<reads[b], reads[at]>>
          PROVE  l \in JointsOf(o)
      <4> DEFINE e == <<b, at>>
      <4>1. e \in P \X P /\ e[1] = b /\ e[2] = at
        OBVIOUS
      <4> HIDE DEF e
      <4> QED BY Zenon, <2>1, <3>2, <4>1
    <3> QED BY <3>1, <3>2
  <2>3. \A b, at \in P : JointIn(reads, known, b, at) <=>
            Follows(reads, b, at) /\ reads[b] \in known /\ reads[at] \in known
    BY DEF JointIn, P
  <2>4. l \in JointsOf(o) <=> \E b \in P, at \in P : JointIn(reads, known, b, at) /\ l = LinkIn(reads, b, at)
    BY <2>2, <2>3 DEF LinkIn
  <2> QED BY Zenon, <2>4 DEF reads, P, known
<1>2. LinksInv
  BY DEF JointsInv
<1>3. links \subseteq joints
  <2> SUFFICES ASSUME NEW l \in links PROVE l \in joints
    OBVIOUS
  <2>1. PICK o \in Objects : \E b, at \in Points(trace[o]) :
           JointIn(trace[o], known, b, at) /\ l = LinkIn(trace[o], b, at)
    BY <1>2 DEF LinksInv
  <2> QED BY <1>1, <2>1
<1>4. ASSUME files.meshMap # "bad", NEW l \in joints, SameId(l)
      PROVE  l \in links
  <2>1. PICK o \in Objects : l \in JointsOf(o)
    BY <1>4
  <2>2. PICK b \in Points(trace[o]), at \in Points(trace[o]) :
           JointIn(trace[o], known, b, at) /\ l = LinkIn(trace[o], b, at)
    BY <1>1, <2>1
  <2>3. pc # "joint"
    OBVIOUS
  <2> QED BY ONLY <1>2, <1>4, <2>1, <2>2, <2>3 DEF LinksInv
<1> QED BY <1>3, <1>4

-----------------------------------------------------------------------------
(* What a turtle keeps has the types of the code: the points are vectors,  *)
(* the point stack has places of them, every point but the first has the   *)
(* gene it was made of, and what the turtle was told is Bad or a number.   *)
Vectors == [1 .. 3 -> Int]
AllIn(s, S) == \A n \in DOMAIN s : s[n] \in S

Told(t) ==
    /\ DOMAIN t.attributes = {"startPoint", "startDirection", "angles", "atomicSize"}
    /\ t.attributes.startPoint \in Vectors \cup {Bad}
    /\ t.attributes.startDirection \in Vectors \cup {Bad}
    /\ t.attributes.atomicSize \in Int
    /\ AllIn(t.sizes, Int \cup {Bad})

Shaped(t) ==
    /\ AllIn(t.points, Vectors) /\ Len(t.points) <= MaxPoints
    /\ AllIn(t.pointStack, Nat \X Vectors)
    /\ AllIn(t.movementStack, Vectors)
    /\ t.elements \in Seq(Genes) /\ Len(t.elements) = Len(t.points) - 1
    /\ t.currentSystemIndex \in Nat

Typed(t) == Shaped(t) /\ Told(t)

(* Sequences of vectors stay so. *)
LEMMA AllInKeeps ==
  ASSUME NEW s, IsSeq(s), NEW S, AllIn(s, S)
  PROVE  /\ \A x \in S : AllIn(Append(s, x), S)
         /\ \A m \in 1 .. Len(s) : \A x \in S : AllIn(Change(s, m, x), S)
         /\ Len(s) >= 1 => \A x \in S : AllIn(WithTop(s, x), S)
         /\ Len(s) >= 1 => AllIn(Popped(s), S) /\ AllIn(Pushed(s), S) /\ Top(s) \in S
<1>1. Len(s) \in Nat /\ DOMAIN s = 1 .. Len(s) /\ \A n \in 1 .. Len(s) : s[n] \in S
  BY IsSeqShape DEF AllIn
<1>2. ASSUME NEW x \in S PROVE AllIn(Append(s, x), S)
  <2>1. /\ DOMAIN Append(s, x) = 1 .. Len(s) + 1 /\ Append(s, x)[Len(s) + 1] = x
        /\ \A n \in 1 .. Len(s) : Append(s, x)[n] = s[n]
    BY Appended
  <2>2. \A n \in 1 .. Len(s) + 1 : n \in 1 .. Len(s) \/ n = Len(s) + 1
    BY <1>1
  <2> QED BY <1>1, <2>1, <2>2 DEF AllIn
<1>3. ASSUME NEW m \in 1 .. Len(s), NEW x \in S PROVE AllIn(Change(s, m, x), S)
  BY <1>1, Changed DEF AllIn
<1>4. ASSUME Len(s) >= 1, NEW x \in S PROVE AllIn(WithTop(s, x), S)
  BY <1>1, <1>4, WithTopOf DEF AllIn
<1>5. ASSUME Len(s) >= 1 PROVE AllIn(Popped(s), S) /\ Top(s) \in S
  <2>1. /\ DOMAIN Popped(s) = 1 .. Len(s) - 1
        /\ \A n \in 1 .. Len(s) - 1 : Popped(s)[n] = s[n]
    BY <1>5, PoppedOf
  <2>2. Len(s) \in 1 .. Len(s) /\ \A n \in 1 .. Len(s) - 1 : n \in 1 .. Len(s)
    BY <1>1, <1>5
  <2> QED BY <1>1, <2>1, <2>2 DEF AllIn, Top
<1>6. Len(s) >= 1 => AllIn(Pushed(s), S)
  BY <1>2, <1>5 DEF Pushed
<1> QED BY <1>2, <1>3, <1>4, <1>5, <1>6

(* Vectors, of whole numbers *)
LEMMA VectorShape ==
  /\ \A a, b, c \in Int : <<a, b, c>> \in Vectors
  /\ \A v \in Vectors : v[1] \in Int /\ v[2] \in Int /\ v[3] \in Int
BY DEF Vectors

LEMMA Sums ==
  ASSUME NEW v \in Vectors, NEW w \in Vectors, NEW n \in Int
  PROVE  matrixAdd(v, w) \in Vectors /\ Minus(v, w) \in Vectors /\ Scaled(v, n) \in Vectors
<1>1. v[1] \in Int /\ v[2] \in Int /\ v[3] \in Int /\ w[1] \in Int /\ w[2] \in Int /\ w[3] \in Int
  BY VectorShape
<1>2. /\ v[1] + w[1] \in Int /\ v[2] + w[2] \in Int /\ v[3] + w[3] \in Int
      /\ v[1] - w[1] \in Int /\ v[2] - w[2] \in Int /\ v[3] - w[3] \in Int
  BY <1>1
<1>3. v[1] * n \in Int /\ v[2] * n \in Int /\ v[3] * n \in Int
  BY <1>1
<1> QED BY <1>2, <1>3, VectorShape DEF matrixAdd, Minus, Scaled

LEMMA RotatedVector ==
  ASSUME NEW v \in Vectors, NEW w, NEW q
  PROVE  vector3Rotate(v, w, q) \in Vectors
<1> DEFINE n1 == Sign(w[1])
           n2 == Sign(w[2])
           n3 == Sign(w[3])
           c == Cos(q)
           s == Sin(q)
           a == n1 * v[1] + n2 * v[2] + n3 * v[3]
           r1 == c * v[1] + s * (n2 * v[3] - n3 * v[2]) + (1 - c) * a * n1
           r2 == c * v[2] + s * (n3 * v[1] - n1 * v[3]) + (1 - c) * a * n2
           r3 == c * v[3] + s * (n1 * v[2] - n2 * v[1]) + (1 - c) * a * n3
<1>1. n1 \in Int /\ n2 \in Int /\ n3 \in Int
  BY DEF Sign
<1>2. c \in Int /\ s \in Int
  BY DEF Cos, Sin
<1>3. v[1] \in Int /\ v[2] \in Int /\ v[3] \in Int
  BY VectorShape
<1>4. vector3Rotate(v, w, q) = IF NoAxis(w) THEN v ELSE <<r1, r2, r3>>
  BY DEF vector3Rotate
<1> HIDE DEF n1, n2, n3, c, s
<1>5. a \in Int
  BY <1>1, <1>3
<1> HIDE DEF a
<1>6. \A x, y, z, m, n, b, d \in Int : c * x + s * (m * y - n * z) + (1 - c) * b * d \in Int
  BY <1>2
<1>7. r1 \in Int /\ r2 \in Int /\ r3 \in Int
  BY <1>1, <1>3, <1>5, <1>6
<1> HIDE DEF r1, r2, r3
<1> QED BY <1>4, <1>7, VectorShape

LEMMA NewTurtleShaped ==
  ASSUME NEW s, NEW a
  PROVE  Shaped(NewTurtle(s, a))
<1> DEFINE t == NewTurtle(s, a)
<1>1. /\ t.points = <<Zero>> /\ t.pointStack = << <<0, Zero>> >>
      /\ t.movementStack = << <<0, 0, -1>> >> /\ t.elements = <<>> /\ t.currentSystemIndex = 0
  BY DEF NewTurtle
<1>2. Zero \in Vectors /\ <<0, 0, -1>> \in Vectors /\ <<0, Zero>> \in Nat \X Vectors
  BY VectorShape DEF Zero
<1>3. ASSUME NEW S, NEW x \in S PROVE AllIn(<<x>>, S) /\ Len(<<x>>) = 1
  BY DEF AllIn
<1>4. <<>> \in Seq(Genes) /\ Len(<<>>) = 0
  OBVIOUS
<1> HIDE DEF t
<1>5. 1 <= MaxPoints
  BY InterpreterAssumption
<1>6. AllIn(t.points, Vectors) /\ Len(t.points) = 1
  BY <1>1, <1>2, <1>3
<1>7. AllIn(t.pointStack, Nat \X Vectors) /\ AllIn(t.movementStack, Vectors)
  BY <1>1, <1>2, <1>3
<1>8. Shaped(t)
  BY <1>1, <1>4, <1>5, <1>6, <1>7 DEF Shaped
<1> QED BY <1>8 DEF t

LEMMA SameTypes ==
  ASSUME NEW t, NEW u, Shaped(t), u.points = t.points, u.pointStack = t.pointStack,
         u.movementStack = t.movementStack, u.elements = t.elements,
         u.currentSystemIndex = t.currentSystemIndex
  PROVE  Shaped(u)
BY DEF Shaped

(* A position, and what becomes of it; a size for every number of digits   *)
(* that PowerAbove knows                                                   *)
Place(pos) == pos \in Vectors /\ pos[1] < 10000

LEMMA StartPointTyped == ASSUME NEW pos, Place(pos) PROVE StartPoint(pos) \in Vectors \cup {Bad}
<1> DEFINE P == {10, 100, 1000, 10000}
           n == pos[1]
<1>1. n \in Int /\ n < 10000
  BY VectorShape DEF Place
<1>2. \E p \in P : n < p /\ \A q \in P : n < q => p <= q
  <2> HIDE DEF n
  <2> QED BY <1>1
<1>3. PowerAbove(n) \in P
  BY <1>2 DEF PowerAbove
<1>4. Concatenated(MeshSize, n) \in Int
  <2>1. MeshSize \in Int /\ PowerAbove(n) \in Int
    BY <1>3, WorldAssumption
  <2> HIDE DEF n
  <2> QED BY <1>1, <2>1 DEF Concatenated
<1>5. StartPoint(pos) = Bad \/ StartPoint(pos) = [pos EXCEPT ![1] = Concatenated(MeshSize, n)]
  BY DEF StartPoint
<1> QED BY <1>4, <1>5 DEF Place, Vectors

LEMMA ConfiguredTyped ==
  ASSUME NEW t, TurtleInv(t), Shaped(t), NEW pos, Place(pos),
         files.startDirection \in Vectors \cup {Bad}, AllIn(files.sizes, Int \cup {Bad})
  PROVE  Typed(Configured(t, pos))
<1> DEFINE u == Configured(t, pos)
<1>1. /\ u.points = t.points /\ u.pointStack = t.pointStack
      /\ u.movementStack = t.movementStack /\ u.elements = t.elements
      /\ u.currentSystemIndex = t.currentSystemIndex
      /\ DOMAIN u.attributes = {"startPoint", "startDirection", "angles", "atomicSize"}
      /\ u.attributes.startPoint = StartPoint(pos)
      /\ u.attributes.startDirection = files.startDirection
      /\ u.attributes.atomicSize = MeshSize
      /\ u.sizes = files.sizes
  BY DEF Configured, TurtleInv, Fields
<1> HIDE DEF u
<1>2. Shaped(u)
  BY <1>1, SameTypes
<1>3. MeshSize \in Int
  BY WorldAssumption
<1>4. Told(u)
  BY <1>1, <1>3, StartPointTyped DEF Told
<1>5. Typed(u)
  BY <1>2, <1>4 DEF Typed
<1> QED BY <1>5 DEF u

LEMMA StartPointSetTyped ==
  ASSUME NEW t, TurtleInv(t), Typed(t), NEW pos \in Vectors
  PROVE  Typed([t EXCEPT !.attributes.startPoint = pos])
<1> DEFINE u == [t EXCEPT !.attributes.startPoint = pos]
<1>1. /\ u.points = t.points /\ u.pointStack = t.pointStack
      /\ u.movementStack = t.movementStack /\ u.elements = t.elements
      /\ u.currentSystemIndex = t.currentSystemIndex /\ u.sizes = t.sizes
      /\ u.attributes = [t.attributes EXCEPT !.startPoint = pos]
  BY DEF TurtleInv, Fields
<1> HIDE DEF u
<1>2. Shaped(u)
  BY <1>1, SameTypes DEF Typed
<1>3. /\ DOMAIN u.attributes = DOMAIN t.attributes /\ u.attributes.startPoint = pos
      /\ u.attributes.startDirection = t.attributes.startDirection
      /\ u.attributes.atomicSize = t.attributes.atomicSize
  BY <1>1 DEF Typed, Told
<1>4. Told(u)
  BY <1>1, <1>3 DEF Told, Typed
<1>5. Typed(u)
  BY <1>2, <1>4 DEF Typed
<1> QED BY <1>5 DEF u

LEMMA UpdatePointTyped ==
  ASSUME NEW t, TurtleInv(t), Typed(t), NEW index \in Nat, NEW point \in Vectors
  PROVE  Typed(UpdatePoint(t, index, point))
<1> DEFINE u == UpdatePoint(t, index, point)
           moved == [n \in DOMAIN t.pointStack |->
                        IF t.pointStack[n][1] = index THEN <<index, point>> ELSE t.pointStack[n]]
<1> SUFFICES ASSUME index < Len(t.points) PROVE Typed(u)
  BY DEF UpdatePoint
<1>1. /\ u.points = Change(t.points, index + 1, point) /\ u.pointStack = moved
      /\ u.movementStack = t.movementStack /\ u.elements = t.elements
      /\ u.currentSystemIndex = t.currentSystemIndex /\ u.sizes = t.sizes
      /\ u.attributes = t.attributes
  BY DEF UpdatePoint, TurtleInv, Fields, Change
<1>2. IsSeq(t.points) /\ Len(t.points) \in Nat /\ index + 1 \in 1 .. Len(t.points)
  BY IsSeqShape DEF TurtleInv
<1>3. AllIn(t.points, Vectors) /\ AllIn(t.pointStack, Nat \X Vectors)
  BY DEF Typed, Shaped
<1>4. AllIn(moved, Nat \X Vectors)
  <2>1. <<index, point>> \in Nat \X Vectors
    OBVIOUS
  <2> QED BY <1>3, <2>1 DEF AllIn
<1> HIDE DEF u, moved
<1>5. AllIn(u.points, Vectors) /\ Len(u.points) = Len(t.points)
  BY <1>1, <1>2, <1>3, AllInKeeps, Changed
<1>6. Typed(u)
  BY <1>1, <1>4, <1>5 DEF Typed, Shaped, Told
<1> QED BY <1>6 DEF u

LEMMA StartedTyped ==
  ASSUME NEW t, TurtleInv(t), Typed(t)
  PROVE  Typed(Started(t))
<1> DEFINE p == t.attributes.startPoint
           d == t.attributes.startDirection
           s == IF IsFirst(t) /\ p # Bad THEN AtStartPoint(t, p) ELSE t
<1>1. DOMAIN s = Fields /\ Typed(s) /\ s.movementStack = t.movementStack /\ s.attributes = t.attributes
  <2>1. ASSUME IsFirst(t), p # Bad
        PROVE  /\ DOMAIN AtStartPoint(t, p) = Fields /\ Typed(AtStartPoint(t, p))
               /\ AtStartPoint(t, p).movementStack = t.movementStack
               /\ AtStartPoint(t, p).attributes = t.attributes
    <3> DEFINE u == AtStartPoint(t, p)
    <3>1. /\ DOMAIN u = Fields /\ u.points = Change(t.points, 1, p)
          /\ u.pointStack = Change(t.pointStack, 1, <<0, p>>)
          /\ u.movementStack = t.movementStack /\ u.elements = t.elements
          /\ u.currentSystemIndex = t.currentSystemIndex /\ u.sizes = t.sizes
          /\ u.attributes = t.attributes
      BY DEF AtStartPoint, TurtleInv, Fields, Change
    <3>2. p \in Vectors /\ <<0, p>> \in Nat \X Vectors
      BY <2>1 DEF Typed, Told
    <3> HIDE DEF u, p
    <3>3. /\ IsSeq(t.points) /\ 1 \in 1 .. Len(t.points) /\ AllIn(t.points, Vectors)
          /\ IsSeq(t.pointStack) /\ 1 \in 1 .. Len(t.pointStack) /\ AllIn(t.pointStack, Nat \X Vectors)
      BY <2>1 DEF TurtleInv, IsFirst, Typed, Shaped
    <3>4. AllIn(u.points, Vectors) /\ Len(u.points) = Len(t.points)
      BY <3>1, <3>2, <3>3, AllInKeeps, Changed
    <3>5. AllIn(u.pointStack, Nat \X Vectors)
      BY <3>1, <3>2, <3>3, AllInKeeps
    <3>6. Typed(u)
      BY <3>1, <3>4, <3>5 DEF Typed, Shaped, Told
    <3> QED BY <3>1, <3>6 DEF u
  <2> QED BY <2>1 DEF TurtleInv
<1>2. Started(t) = IF IsFirst(t) /\ d # Bad THEN InStartDirection(s, d) ELSE s
  BY DEF Started
<1> HIDE DEF s
<1>3. ASSUME IsFirst(t), d # Bad PROVE Typed(InStartDirection(s, d))
  <2> DEFINE u == InStartDirection(s, d)
  <2>1. /\ u.points = s.points /\ u.pointStack = s.pointStack
        /\ u.movementStack = Change(s.movementStack, 1, d) /\ u.elements = s.elements
        /\ u.currentSystemIndex = s.currentSystemIndex /\ u.sizes = s.sizes
        /\ u.attributes = s.attributes
    BY <1>1 DEF InStartDirection, Fields, Change
  <2>2. d \in Vectors
    BY <1>3 DEF Typed, Told
  <2> HIDE DEF u, d
  <2>3. IsSeq(s.movementStack) /\ 1 \in 1 .. Len(s.movementStack) /\ AllIn(s.movementStack, Vectors)
    BY <1>1, <1>3 DEF TurtleInv, IsFirst, Typed, Shaped
  <2>4. AllIn(u.movementStack, Vectors)
    BY <2>1, <2>2, <2>3, AllInKeeps
  <2>5. Typed(u)
    BY <1>1, <2>1, <2>4 DEF Typed, Shaped, Told
  <2> QED BY <2>5 DEF u
<1> QED BY <1>1, <1>2, <1>3

LEMMA BegunTyped ==
  ASSUME NEW t, TurtleInv(t), Typed(t)
  PROVE  Typed(Begun(t))
<1> DEFINE s == Started(t)
           u == Begun(t)
<1>1. TurtleInv(s) /\ Typed(s)
  BY StartedKeeps, StartedTyped
<1>2. /\ u.points = s.points /\ u.pointStack = s.pointStack
      /\ u.movementStack = s.movementStack /\ u.elements = s.elements
      /\ u.currentSystemIndex = s.currentSystemIndex + 1 /\ u.sizes = s.sizes
      /\ u.attributes = s.attributes
  BY <1>1 DEF Begun, TurtleInv, Fields
<1> HIDE DEF s, u
<1>3. Typed(u)
  BY <1>1, <1>2 DEF Typed, Shaped, Told
<1> QED BY <1>3 DEF u

LEMMA TurnedTyped ==
  ASSUME NEW t, TurtleInv(t), Typed(t), NEW kind
  PROVE  Typed(Turned(t, kind))
<1> DEFINE q == t.attributes.angles[kind]
<1>1. ASSUME NEW axis
      PROVE  LET x == vector3Rotate(Top(t.movementStack), axis, q) IN
             AllIn(WithTop(t.movementStack, x), Vectors)
  <2> DEFINE x == vector3Rotate(Top(t.movementStack), axis, q)
  <2>1. /\ IsSeq(t.movementStack) /\ Len(t.movementStack) >= 1
        /\ AllIn(t.movementStack, Vectors)
    BY DEF TurtleInv, Together, Typed, Shaped
  <2>2. Top(t.movementStack) \in Vectors
    BY <2>1, AllInKeeps
  <2>3. x \in Vectors
    BY <2>2, RotatedVector
  <2> HIDE DEF x
  <2>4. AllIn(WithTop(t.movementStack, x), Vectors)
    BY <2>1, <2>3, AllInKeeps
  <2> QED BY <2>4 DEF x
<1>2. ASSUME NEW axis, NEW u,
             u.points = t.points, u.pointStack = t.pointStack,
             u.movementStack = WithTop(t.movementStack,
                                       vector3Rotate(Top(t.movementStack), axis, q)),
             u.elements = t.elements, u.currentSystemIndex = t.currentSystemIndex,
             u.sizes = t.sizes, u.attributes = t.attributes
      PROVE  Typed(u)
  <2>1. AllIn(u.movementStack, Vectors)
    BY <1>1, <1>2
  <2> QED BY <1>2, <2>1 DEF Typed, Shaped, Told
<1>3. Typed(TurnedLeftRight(t, q))
  <2> DEFINE u == TurnedLeftRight(t, q)
             axis == Top(t.horizontalStack)
  <2> SUFFICES ASSUME ~NoAxis(axis) PROVE Typed(u)
    BY DEF TurnedLeftRight
  <2>1. /\ u.points = t.points /\ u.pointStack = t.pointStack
        /\ u.movementStack = WithTop(t.movementStack,
                                     vector3Rotate(Top(t.movementStack), axis, q))
        /\ u.elements = t.elements /\ u.currentSystemIndex = t.currentSystemIndex
        /\ u.sizes = t.sizes /\ u.attributes = t.attributes
    BY DEF TurnedLeftRight, TurtleInv, Fields
  <2> HIDE DEF u, axis
  <2> QED BY <1>2, <2>1
<1>4. Typed(TurnedUpDown(t, q))
  <2> DEFINE u == TurnedUpDown(t, q)
             axis == Top(t.verticalStack)
  <2> SUFFICES ASSUME ~NoAxis(axis) PROVE Typed(u)
    BY DEF TurnedUpDown
  <2>1. /\ u.points = t.points /\ u.pointStack = t.pointStack
        /\ u.movementStack = WithTop(t.movementStack,
                                     vector3Rotate(Top(t.movementStack), axis, q))
        /\ u.elements = t.elements /\ u.currentSystemIndex = t.currentSystemIndex
        /\ u.sizes = t.sizes /\ u.attributes = t.attributes
    BY DEF TurnedUpDown, TurtleInv, Fields
  <2> HIDE DEF u, axis
  <2> QED BY <1>2, <2>1
<1> QED BY <1>3, <1>4 DEF Turned

LEMMA AheadTyped ==
  ASSUME NEW t, TurtleInv(t), Typed(t), NEW step \in Int
  PROVE  Ahead(t, step) \in Vectors
<1>1. /\ IsSeq(t.pointStack) /\ Len(t.pointStack) >= 1 /\ AllIn(t.pointStack, Nat \X Vectors)
      /\ IsSeq(t.movementStack) /\ Len(t.movementStack) >= 1 /\ AllIn(t.movementStack, Vectors)
  BY DEF TurtleInv, Together, Typed, Shaped
<1>2. Top(t.pointStack) \in Nat \X Vectors /\ Top(t.movementStack) \in Vectors
  BY <1>1, AllInKeeps
<1> QED BY <1>2, Sums DEF Ahead

LEMMA MovedTyped ==
  ASSUME NEW t, TurtleInv(t), Typed(t), NEW g \in Genes, NEW step \in Int,
         Len(t.points) < MaxPoints
  PROVE  Typed(Moved(t, g, step))
<1> DEFINE u == Moved(t, g, step)
           p == Ahead(t, step)
           n == Len(t.points)
<1>1. p \in Vectors
  BY AheadTyped
<1> HIDE DEF p
<1>2. /\ u.points = Append(t.points, p)
      /\ u.pointStack = WithTop(t.pointStack, <<n, p>>)
      /\ u.movementStack = t.movementStack /\ u.elements = Append(t.elements, g)
      /\ u.currentSystemIndex = t.currentSystemIndex /\ u.sizes = t.sizes
      /\ u.attributes = t.attributes
  BY DEF Moved, TurtleInv, Fields, p
<1> HIDE DEF u
<1>3. /\ IsSeq(t.points) /\ n \in Nat /\ AllIn(t.points, Vectors)
      /\ IsSeq(t.pointStack) /\ Len(t.pointStack) >= 1 /\ AllIn(t.pointStack, Nat \X Vectors)
      /\ t.elements \in Seq(Genes) /\ Len(t.elements) = n - 1
  BY IsSeqShape DEF TurtleInv, Together, Typed, Shaped
<1>4. AllIn(u.points, Vectors) /\ Len(u.points) = n + 1
  BY <1>1, <1>2, <1>3, AllInKeeps, Appended
<1>5. AllIn(u.pointStack, Nat \X Vectors)
  <2>1. <<n, p>> \in Nat \X Vectors
    BY <1>1, <1>3
  <2> QED BY <1>2, <1>3, <2>1, AllInKeeps
<1>6. u.elements \in Seq(Genes) /\ Len(u.elements) = Len(t.elements) + 1
  BY <1>2, <1>3, AppendProperties
<1>7. Len(u.points) <= MaxPoints /\ Len(u.elements) = Len(u.points) - 1
  BY <1>3, <1>4, <1>6, InterpreterAssumption
<1>8. AllIn(u.movementStack, Vectors) /\ u.currentSystemIndex \in Nat /\ Told(u)
  BY <1>2 DEF Typed, Shaped, Told
<1>9. Typed(u)
  BY <1>4, <1>5, <1>6, <1>7, <1>8 DEF Typed, Shaped
<1> QED BY <1>9 DEF u

LEMMA BranchedTyped ==
  ASSUME NEW t, TurtleInv(t), Typed(t)
  PROVE  Typed(Branched(t))
<1> DEFINE u == Branched(t)
<1>1. /\ u.points = t.points /\ u.pointStack = Pushed(t.pointStack)
      /\ u.movementStack = Pushed(t.movementStack) /\ u.elements = t.elements
      /\ u.currentSystemIndex = t.currentSystemIndex /\ u.sizes = t.sizes
      /\ u.attributes = t.attributes
  BY DEF Branched, TurtleInv, Fields
<1> HIDE DEF u
<1>2. /\ IsSeq(t.pointStack) /\ Len(t.pointStack) >= 1 /\ AllIn(t.pointStack, Nat \X Vectors)
      /\ IsSeq(t.movementStack) /\ Len(t.movementStack) >= 1 /\ AllIn(t.movementStack, Vectors)
  BY DEF TurtleInv, Together, Typed, Shaped
<1>3. AllIn(u.pointStack, Nat \X Vectors) /\ AllIn(u.movementStack, Vectors)
  BY <1>1, <1>2, AllInKeeps
<1>4. Typed(u)
  BY <1>1, <1>3 DEF Typed, Shaped, Told
<1> QED BY <1>4 DEF u

LEMMA RejoinedTyped ==
  ASSUME NEW t, TurtleInv(t), Typed(t)
  PROVE  Typed(Rejoined(t))
<1> DEFINE u == Rejoined(t)
<1>1. /\ u.points = t.points /\ u.pointStack = Popped(t.pointStack)
      /\ u.movementStack = Popped(t.movementStack) /\ u.elements = t.elements
      /\ u.currentSystemIndex = t.currentSystemIndex /\ u.sizes = t.sizes
      /\ u.attributes = t.attributes
  BY DEF Rejoined, TurtleInv, Fields
<1> HIDE DEF u
<1>2. /\ IsSeq(t.pointStack) /\ Len(t.pointStack) >= 1 /\ AllIn(t.pointStack, Nat \X Vectors)
      /\ IsSeq(t.movementStack) /\ Len(t.movementStack) >= 1 /\ AllIn(t.movementStack, Vectors)
  BY DEF TurtleInv, Together, Typed, Shaped
<1>3. AllIn(u.pointStack, Nat \X Vectors) /\ AllIn(u.movementStack, Vectors)
  BY <1>1, <1>2, AllInKeeps
<1>4. Typed(u)
  BY <1>1, <1>3 DEF Typed, Shaped, Told
<1> QED BY <1>4 DEF u

(* What grow leaves behind, and the point that it returns *)
LEMMA GrowTyped ==
  ASSUME NEW t, TurtleInv(t), Typed(t), NEW gs \in Seq(Genes), NEW r \in Grow(t, gs)
  PROVE  Typed(r.turtle) /\ r.point \in Vectors \cup {NoPoint}
<1>1. ASSUME NEW u, TurtleInv(u), Typed(u), Len(u.points) < MaxPoints, NEW g \in Genes,
             NEW x \in Interpreted(u, g)
      PROVE  Typed(x.turtle) /\ x.point \in Vectors \cup {NoPoint}
  <2> DEFINE kind == Kind[g]
             step == StepOf(u, g)
  <2>1. step \in Int \cup {Bad}
    BY <1>1 DEF StepOf, Typed, Told, AllIn
  <2> HIDE DEF kind, step
  <2>2. \/ step # Bad /\ x = Grown(u, g, step)
        \/ step # Bad /\ x = Grown(Turned(u, kind), g, step)
        \/ x \in Unmoved(Branched(u), OpenIndex)
        \/ x \in Unmoved(Rejoined(u), CloseIndex)
        \/ x \in Failed(u)
    BY <1>1 DEF Interpreted, kind, step
  <2>3. ASSUME NEW w, TurtleInv(w), Typed(w), Len(w.points) < MaxPoints,
               step # Bad, x = Grown(w, g, step)
        PROVE  Typed(x.turtle) /\ x.point \in Vectors \cup {NoPoint}
    <3>1. step \in Int /\ x.turtle = Moved(w, g, step) /\ x.point = Ahead(w, step)
      BY <2>1, <2>3 DEF Grown, Result
    <3> QED BY <1>1, <2>3, <3>1, MovedTyped, AheadTyped
  <2>4. CASE step # Bad /\ x = Grown(u, g, step)
    BY <1>1, <2>3, <2>4
  <2>5. CASE step # Bad /\ x = Grown(Turned(u, kind), g, step)
    BY <1>1, <2>3, <2>5, TurnedKeeps, TurnedTyped
  <2>6. CASE x \in Unmoved(Branched(u), OpenIndex)
    BY <1>1, <2>6, BranchedTyped DEF Unmoved, Result
  <2>7. CASE x \in Unmoved(Rejoined(u), CloseIndex)
    BY <1>1, <2>7, RejoinedTyped DEF Unmoved, Result
  <2>8. CASE x \in Failed(u)
    BY <1>1, <2>8 DEF Failed, Result
  <2> QED BY <2>2, <2>4, <2>5, <2>6, <2>7, <2>8
<1>2. CASE ~HasGene(t, gs)
  BY <1>2 DEF Grow, Failed, Result
<1>3. CASE HasGene(t, gs)
  <2>1. /\ t.currentSystemIndex + 1 \in 1 .. Len(gs) /\ Len(t.points) < MaxPoints
    BY <1>3 DEF HasGene, Typed, Shaped
  <2>2. PICK g \in Genes : r \in Interpreted(Begun(t), g)
    BY <1>3, <2>1 DEF Grow
  <2> QED BY <1>1, <2>1, <2>2, BegunKeeps, BegunTyped
<1> QED BY <1>2, <1>3

-----------------------------------------------------------------------------
(* The types of the world, if what the files have is Bad or what the code  *)
(* asks for, mutation and growth make genes of genes, and a position has   *)
(* as many digits as PowerAbove knows.                                     *)
FileTyped(f) ==
    /\ f.system \in Seq(Genes) \cup {Bad}
    /\ f.startDirection \in Vectors \cup {Bad}
    /\ AllIn(f.sizes, Int \cup {Bad})
    /\ f.physics \in BOOLEAN
WellTyped ==
    /\ \A f \in Files : FileTyped(f)
    /\ \A gs \in Seq(Genes) : SystemMutated(gs) \subseteq Seq(Genes) /\ SystemGrown(gs) \in Seq(Genes)
    /\ \A pos \in Positions : pos[1] < 10000

GenesTyped == genes \in Seq(Seq(Genes)) /\ \A o \in Created : system[o] # Null
TurtlesTyped ==
    \A n \in DOMAIN turtles : Typed(turtles[n]) /\ turtles[n].system \in 1 .. Len(genes)
TraitsTyped ==
    /\ physics \in [Objects -> BOOLEAN] /\ jointType \in [Objects -> {"", "ball"}]
    /\ growthRate \in [Objects -> {0, 1}]
ElementsTyped ==
    /\ DOMAIN sceneNodes = Objects
    /\ \A o \in Objects : /\ sceneNodes[o] \subseteq entities
                          /\ \A n \in DOMAIN objectNames[o] : objectNames[o][n][1] \in sceneNodes[o]
BodiesTyped ==
    /\ AllIn(bodies, Vectors)
    /\ pc \in {"grown", "element"} => newPoint \in Vectors
FramesTyped ==
    /\ files \in Files /\ elapsed \in [Objects -> BOOLEAN]
    /\ pc \in {"idle", "frame", "refresh", "read", "grown", "failed", "element", "joint"}
    /\ todo \subseteq Created

TypesInv ==
    /\ GenesTyped /\ TurtlesTyped /\ TraitsTyped
    /\ ElementsTyped /\ BodiesTyped /\ FramesTyped

LEMMA InitTypes == Init => TypesInv
<1> SUFFICES ASSUME Init PROVE TypesInv
  OBVIOUS
<1>1. DOMAIN <<>> = {} /\ <<>> \in Seq(Seq(Genes))
  OBVIOUS
<1>2. GenesTyped
  BY <1>1 DEF Init, GenesTyped, Created
<1>3. TurtlesTyped
  BY <1>1 DEF Init, TurtlesTyped
<1>4. TraitsTyped
  BY DEF Init, TraitsTyped
<1>5. ElementsTyped
  BY <1>1 DEF Init, ElementsTyped
<1>6. BodiesTyped
  BY DEF Init, BodiesTyped, AllIn
<1>7. FramesTyped
  BY DEF Init, FramesTyped
<1> QED BY <1>2, <1>3, <1>4, <1>5, <1>6, <1>7 DEF TypesInv

LEMMA PlacesTyped == WellTyped => Place(Zero) /\ \A pos \in Positions : Place(pos)
<1>1. Zero \in Vectors /\ Zero[1] < 10000
  BY VectorShape DEF Zero
<1>2. Positions \subseteq Vectors
  BY WorldAssumption DEF Vectors
<1> QED BY <1>1, <1>2 DEF WellTyped, Place

LEMMA ConfigureTyped ==
  ASSUME WellTyped, WorldInv, TypesInv, NEW o \in Objects, NEW s, NEW i, NEW pos,
         NEW flag \in BOOLEAN, i = Null \/ i = interpreter[o], Place(pos),
         Configure(o, s, i, pos, flag),
         Len(genes') \in Nat, Len(genes) \in Nat, Len(genes') >= Len(genes), s \in 1 .. Len(genes')
  PROVE  TurtlesTyped' /\ TraitsTyped'
<1>1. files.startDirection \in Vectors \cup {Bad} /\ AllIn(files.sizes, Int \cup {Bad})
      /\ files.physics \in BOOLEAN
  <2>1. FileTyped(files)
    BY DEF WellTyped, TypesInv, FramesTyped
  <2> QED BY Zenon, <2>1 DEF FileTyped
<1>2. IsSeq(turtles) /\ Len(turtles) \in Nat /\ DOMAIN turtles = 1 .. Len(turtles)
  BY IsSeqShape DEF WorldInv, HeapInv
<1>3. \A n \in DOMAIN turtles : /\ TurtleInv(turtles[n]) /\ Typed(turtles[n])
                                /\ turtles[n].system \in 1 .. Len(genes)
  BY DEF WorldInv, HeapInv, TypesInv, TurtlesTyped
<1>4. 1 .. Len(genes) \subseteq 1 .. Len(genes')
  OBVIOUS
<1>5. TurtlesTyped'
  <2>1. CASE i = Null
    <3> DEFINE t == Configured(NewTurtle(s, <<>>), pos)
    <3>1. Typed(t) /\ t.system = s
      <4> DEFINE new == NewTurtle(s, <<>>)
      <4>1. TurtleInv(new) /\ new.system = s /\ Shaped(new)
        BY NewTurtleInv, NewTurtleShaped
      <4> HIDE DEF new
      <4>2. Typed(Configured(new, pos))
        BY <1>1, <4>1, ConfiguredTyped
      <4>3. Configured(new, pos).system = new.system
        BY <4>1, ConfiguredKeeps
      <4> QED BY <4>1, <4>2, <4>3 DEF new
    <3>2. turtles' = Append(turtles, t)
      BY <2>1 DEF Configure
    <3> HIDE DEF t
    <3>3. /\ DOMAIN turtles' = 1 .. Len(turtles) + 1 /\ turtles'[Len(turtles) + 1] = t
          /\ \A n \in 1 .. Len(turtles) : turtles'[n] = turtles[n]
      BY <1>2, <3>2, Appended
    <3>4. \A n \in 1 .. Len(turtles) + 1 : n \in 1 .. Len(turtles) \/ n = Len(turtles) + 1
      BY <1>2
    <3> QED BY <1>2, <1>3, <1>4, <3>1, <3>3, <3>4 DEF TurtlesTyped
  <2>2. CASE i # Null
    <3> DEFINE t == Configured(turtles[i], pos)
    <3>1. i \in 1 .. Len(turtles)
      BY <1>2, <2>2 DEF WorldInv, ObjectsInv, Null
    <3>2. Typed(t) /\ t.system = turtles[i].system
      BY <1>1, <1>2, <1>3, <3>1, ConfiguredTyped, ConfiguredKeeps DEF Typed
    <3>3. turtles' = Change(turtles, i, t)
      BY <2>2 DEF Configure, Change
    <3> HIDE DEF t
    <3>4. /\ DOMAIN turtles' = 1 .. Len(turtles)
          /\ \A n \in 1 .. Len(turtles) : turtles'[n] = IF n = i THEN t ELSE turtles[n]
      BY <1>2, <3>1, <3>3, Changed
    <3> QED BY <1>2, <1>3, <1>4, <3>1, <3>2, <3>4 DEF TurtlesTyped
  <2> QED BY <2>1, <2>2
<1>6. TraitsTyped'
  <2>1. TraitsTyped
    BY DEF TypesInv
  <2>2. ReadRate \in {0, 1}
    BY DEF ReadRate, Rate, DefaultRate
  <2>3. physics' \in [Objects -> BOOLEAN]
    <3>1. (flag /\ files.physics) \in BOOLEAN
      BY <1>1
    <3> QED BY <2>1, <3>1 DEF Configure, TraitsTyped
  <2>4. jointType' \in [Objects -> {"", "ball"}]
    BY <2>1 DEF Configure, TraitsTyped
  <2>5. growthRate' \in [Objects -> {0, 1}]
    BY <2>1, <2>2 DEF Configure, TraitsTyped
  <2> QED BY <2>3, <2>4, <2>5 DEF TraitsTyped
<1> QED BY <1>5, <1>6

LEMMA CreatedMore ==
  ASSUME WorldInv, TypesInv, NEW o \in Objects, Begin(o), UNCHANGED <<files, pc, todo>>
  PROVE  FramesTyped' /\ Created' = Created \cup {o}
<1>1. /\ objectCounter \in Nat /\ objectCounter' = objectCounter + 1
      /\ objectId' = [objectId EXCEPT ![o] = objectCounter'] /\ DOMAIN objectId = Objects
      /\ elapsed' = [elapsed EXCEPT ![o] = TRUE]
  BY DEF WorldInv, ObjectsInv, Begin
<1>2. \A p \in Objects : objectId'[p] = IF p = o THEN objectCounter + 1 ELSE objectId[p]
  BY <1>1
<1>3. Created' = Created \cup {o}
  BY <1>1, <1>2 DEF Created
<1>4. elapsed' \in [Objects -> BOOLEAN]
  BY <1>1 DEF TypesInv, FramesTyped
<1> QED BY <1>3, <1>4 DEF TypesInv, FramesTyped

LEMMA ElementsStay ==
  ASSUME TypesInv, UNCHANGED <<objectNames, sceneNodes, entities>>
  PROVE  ElementsTyped'
BY DEF TypesInv, ElementsTyped

LEMMA BodiesStay ==
  ASSUME TypesInv, UNCHANGED <<bodies, newPoint>>, pc' = pc \/ pc' \notin {"grown", "element"}
  PROVE  BodiesTyped'
BY DEF TypesInv, BodiesTyped

LEMMA CreateAgainTypes ==
  ASSUME WellTyped, WorldInv, TypesInv, NEW o \in Objects, NEW pos \in Positions,
         CreateAgain(o, pos)
  PROVE  TypesInv'
<1>1. /\ Begin(o) /\ Configure(o, system[o], interpreter[o], pos, physics[o])
      /\ system[o] # Null
      /\ UNCHANGED <<files, genes, system, objectNames, sceneNodes, entities, bodies, newPoint,
                     pc, todo>>
  BY DEF CreateAgain, Quietly, engineVars, growVars, elementVars
<1>2. FramesTyped' /\ Created' = Created \cup {o}
  BY <1>1, CreatedMore
<1>3. GenesTyped'
  BY <1>1, <1>2 DEF TypesInv, GenesTyped
<1>4. TurtlesTyped' /\ TraitsTyped'
  <2>1. physics[o] \in BOOLEAN
    BY DEF TypesInv, TraitsTyped
  <2>2. Place(pos)
    BY PlacesTyped
  <2>3. Len(genes) \in Nat /\ Len(genes') = Len(genes) /\ system[o] \in 1 .. Len(genes)
    BY <1>1, IsSeqShape DEF WorldInv, HeapInv, ObjectsInv, Null
  <2>4. Len(genes') \in Nat /\ Len(genes') >= Len(genes) /\ system[o] \in 1 .. Len(genes')
    BY <2>3
  <2> QED BY <1>1, <2>1, <2>2, <2>3, <2>4, ConfigureTyped
<1>5. ElementsTyped' /\ BodiesTyped'
  BY <1>1, ElementsStay, BodiesStay
<1> QED BY <1>2, <1>3, <1>4, <1>5 DEF TypesInv

(* One more system, that is the serpent's *)
LEMMA SystemMore ==
  ASSUME WorldInv, TypesInv, NEW o \in Objects, NEW gs \in Seq(Genes),
         genes' = Append(genes, gs), system' = [system EXCEPT ![o] = Len(genes) + 1],
         Created' = Created \cup {o}
  PROVE  /\ GenesTyped' /\ Len(genes) \in Nat /\ Len(genes') = Len(genes) + 1
         /\ Len(genes') >= Len(genes) /\ Len(genes') \in 1 .. Len(genes')
<1>1. genes \in Seq(Seq(Genes)) /\ \A p \in Created : system[p] # Null
  BY DEF TypesInv, GenesTyped
<1>2. genes' \in Seq(Seq(Genes)) /\ Len(genes') = Len(genes) + 1 /\ Len(genes) \in Nat
  BY <1>1, AppendProperties
<1>3. \A p \in Objects : system'[p] = IF p = o THEN Len(genes) + 1 ELSE system[p]
  BY DEF WorldInv, ObjectsInv
<1>4. \A p \in Created' : system'[p] # Null
  <2>1. Created \subseteq Objects
    BY DEF Created
  <2> QED BY <1>1, <1>2, <1>3, <2>1 DEF Null
<1>5. GenesTyped'
  BY <1>2, <1>4 DEF GenesTyped
<1> QED BY <1>2, <1>5

LEMMA CreateTypes ==
  ASSUME WellTyped, WorldInv, TypesInv, NEW o \in Objects, NEW pos \in Positions, Create(o, pos)
  PROVE  TypesInv'
<1>1. /\ Begin(o) /\ system' = [system EXCEPT ![o] = Len(genes) + 1]
      /\ UNCHANGED <<files, objectNames, sceneNodes, entities, bodies, newPoint, pc, todo>>
  BY DEF Create, Quietly, engineVars, growVars, elementVars
<1>2. FramesTyped' /\ Created' = Created \cup {o}
  BY <1>1, CreatedMore
<1>3. ElementsTyped' /\ BodiesTyped'
  BY <1>1, ElementsStay, BodiesStay
<1>4. CASE files.system # Bad
  <2>1. /\ genes' = Append(genes, files.system)
        /\ Configure(o, Len(genes'), Null, pos, physics[o])
    BY <1>4 DEF Create
  <2>2. files.system \in Seq(Genes)
    BY <1>4 DEF WellTyped, FileTyped, TypesInv, FramesTyped
  <2>3. /\ GenesTyped' /\ Len(genes) \in Nat /\ Len(genes') = Len(genes) + 1
        /\ Len(genes') >= Len(genes) /\ Len(genes') \in 1 .. Len(genes')
    BY <1>1, <1>2, <2>1, <2>2, SystemMore
  <2>4. physics[o] \in BOOLEAN /\ Place(pos)
    BY PlacesTyped DEF TypesInv, TraitsTyped
  <2>5. Len(genes') \in Nat
    BY <2>3
  <2>6. TurtlesTyped' /\ TraitsTyped'
    BY <2>1, <2>3, <2>4, <2>5, ConfigureTyped
  <2> QED BY <1>2, <1>3, <2>3, <2>6 DEF TypesInv
<1>5. CASE files.system = Bad
  <2>1. /\ genes' = Append(genes, <<>>)
        /\ growthRate' = [growthRate EXCEPT ![o] = DefaultRate]
        /\ UNCHANGED <<turtles, physics, jointType>>
    BY <1>5 DEF Create
  <2>2. <<>> \in Seq(Genes)
    OBVIOUS
  <2>3. GenesTyped' /\ Len(genes) \in Nat /\ Len(genes') >= Len(genes) /\ Len(genes') = Len(genes) + 1
    BY <1>1, <1>2, <2>1, <2>2, SystemMore
  <2>4. 1 .. Len(genes) \subseteq 1 .. Len(genes')
    BY <2>3
  <2>5. TurtlesTyped'
    BY <2>1, <2>4 DEF TypesInv, TurtlesTyped
  <2>6. TraitsTyped'
    BY <2>1 DEF TypesInv, TraitsTyped, DefaultRate
  <2> QED BY <1>2, <1>3, <2>3, <2>5, <2>6 DEF TypesInv
<1> QED BY <1>4, <1>5

LEMMA BreedTypes ==
  ASSUME WellTyped, WorldInv, TypesInv, NEW p \in Objects, NEW q \in Objects, NEW o \in Objects,
         Breed(p, q, o)
  PROVE  TypesInv'
<1>1. /\ Begin(o) /\ genes' = Append(genes, genes[system[p]]) /\ p \in Created
      /\ system' = [system EXCEPT ![o] = Len(genes')]
      /\ Configure(o, Len(genes'), Null, Zero, physics[p])
      /\ UNCHANGED <<files, objectNames, sceneNodes, entities, bodies, newPoint, pc, todo>>
  BY DEF Breed, Quietly, engineVars, growVars, elementVars
<1>2. FramesTyped' /\ Created' = Created \cup {o}
  BY <1>1, CreatedMore
<1>3. ElementsTyped' /\ BodiesTyped'
  BY <1>1, ElementsStay, BodiesStay
<1>4. genes[system[p]] \in Seq(Genes)
  <2>1. genes \in Seq(Seq(Genes)) /\ system[p] # Null
    BY <1>1 DEF TypesInv, GenesTyped
  <2>2. system[p] \in 1 .. Len(genes)
    <3>1. Len(genes) \in Nat /\ system[p] \in 0 .. Len(genes)
      BY <2>1 DEF WorldInv, ObjectsInv
    <3> QED BY <2>1, <3>1 DEF Null
  <2> QED BY <2>1, <2>2, ElementOfSeq
<1>5. system' = [system EXCEPT ![o] = Len(genes) + 1]
  <2>1. Len(genes') = Len(genes) + 1
    BY <1>1, <1>4, AppendProperties DEF TypesInv, GenesTyped
  <2> QED BY <1>1, <2>1
<1>6. /\ GenesTyped' /\ Len(genes) \in Nat /\ Len(genes') = Len(genes) + 1
      /\ Len(genes') >= Len(genes) /\ Len(genes') \in 1 .. Len(genes')
  BY <1>1, <1>2, <1>4, <1>5, SystemMore
<1>7. TurtlesTyped' /\ TraitsTyped'
  <2>1. physics[p] \in BOOLEAN /\ Place(Zero) /\ Len(genes') \in Nat
    <3>1. physics[p] \in BOOLEAN
      BY DEF TypesInv, TraitsTyped
    <3> QED BY <1>6, <3>1, PlacesTyped
  <2>2. Configure(o, Len(genes'), Null, Zero, physics[p])
    BY <1>1
  <2> QED BY <1>6, <2>1, <2>2, ConfigureTyped
<1> QED BY <1>2, <1>3, <1>6, <1>7 DEF TypesInv

LEMMA GenesStay ==
  ASSUME TypesInv, UNCHANGED <<genes, system, objectId>>
  PROVE  GenesTyped' /\ Created' = Created
BY DEF TypesInv, GenesTyped, Created

LEMMA TurtlesStay ==
  ASSUME TypesInv, UNCHANGED <<genes, turtles>>
  PROVE  TurtlesTyped'
BY DEF TypesInv, TurtlesTyped

LEMMA TraitsStay ==
  ASSUME TypesInv, UNCHANGED <<physics, jointType, growthRate>>
  PROVE  TraitsTyped'
BY DEF TypesInv, TraitsTyped

LEMMA FramesStay ==
  ASSUME TypesInv, UNCHANGED <<files, elapsed, objectId>>,
         pc' \in {"idle", "frame", "refresh", "read", "grown", "failed", "element", "joint"},
         todo' \subseteq todo
  PROVE  FramesTyped'
BY DEF TypesInv, FramesTyped, Created

(* A turtle that goes on, or is told something *)
LEMMA TurtleSetTyped ==
  ASSUME WorldInv, TypesInv, NEW o \in Objects, interpreter[o] # Null, NEW u,
         LET t == turtles[interpreter[o]] IN
             TurtleInv(t) /\ Typed(t) => Typed(u) /\ u.system = t.system,
         turtles' = Change(turtles, interpreter[o], u), UNCHANGED genes
  PROVE  TurtlesTyped'
<1> DEFINE i == interpreter[o]
<1>1. IsSeq(turtles) /\ Len(turtles) \in Nat /\ DOMAIN turtles = 1 .. Len(turtles)
  BY IsSeqShape DEF WorldInv, HeapInv
<1>2. i \in 1 .. Len(turtles)
  BY <1>1 DEF WorldInv, ObjectsInv, Null
<1>3. \A n \in DOMAIN turtles : /\ TurtleInv(turtles[n]) /\ Typed(turtles[n])
                                /\ turtles[n].system \in 1 .. Len(genes)
  BY DEF WorldInv, HeapInv, TypesInv, TurtlesTyped
<1>4. Typed(u) /\ u.system \in 1 .. Len(genes)
  BY <1>1, <1>2, <1>3
<1> HIDE DEF i
<1>5. /\ DOMAIN turtles' = 1 .. Len(turtles)
      /\ \A n \in 1 .. Len(turtles) : turtles'[n] = IF n = i THEN u ELSE turtles[n]
  BY <1>1, <1>2, Changed DEF i
<1> QED BY <1>1, <1>3, <1>4, <1>5 DEF TurtlesTyped

LEMMA SettersTyped ==
  ASSUME WellTyped, WorldInv, TypesInv, NEW o \in Objects,
         \/ \E pos \in Positions : SetPosition(o, pos)
         \/ \E rate \in Rates : SetGrowthRate(o, rate)
         \/ SetJointType(o) \/ RestartPhysics(o) \/ NoPhysics(o)
  PROVE  TypesInv'
<1>1. UNCHANGED <<files, elapsed, objectId, genes, system, objectNames, sceneNodes, entities,
                  newPoint, pc, todo>>
  BY DEF SetPosition, SetGrowthRate, SetJointType, RestartPhysics, NoPhysics, Quietly, Called,
         heap, objectVars, elementVars, engineVars, growVars
<1>2. pc \in {"idle", "frame", "refresh", "read", "grown", "failed", "element", "joint"}
  BY DEF TypesInv, FramesTyped
<1>3. GenesTyped' /\ ElementsTyped' /\ FramesTyped'
  BY <1>1, <1>2, GenesStay, ElementsStay, FramesStay
<1>4. TurtlesTyped'
  <2>1. CASE UNCHANGED turtles
    BY <1>1, <2>1, TurtlesStay
  <2>2. CASE \E pos \in Positions : SetPosition(o, pos)
    <3> PICK pos \in Positions : SetPosition(o, pos)
      BY <2>2
    <3> DEFINE i == interpreter[o]
               u == [turtles[i] EXCEPT !.attributes.startPoint = pos]
    <3>1. i # Null /\ turtles' = Change(turtles, i, u)
      BY DEF SetPosition, Change
    <3>2. pos \in Vectors
      BY WorldAssumption DEF Vectors
    <3>3. TurtleInv(turtles[i]) /\ Typed(turtles[i]) => Typed(u) /\ u.system = turtles[i].system
      BY <3>2, StartPointSetTyped, StartPointKeeps
    <3> HIDE DEF u
    <3> QED BY <1>1, <3>1, <3>3, TurtleSetTyped
  <2> QED BY <2>1, <2>2 DEF SetGrowthRate, SetJointType, RestartPhysics, NoPhysics, heap
<1>5. TraitsTyped'
  <2>1. TraitsTyped
    BY DEF TypesInv
  <2>2. ASSUME NEW rate, SetGrowthRate(o, rate) PROVE TraitsTyped'
    <3>1. growthRate' = [growthRate EXCEPT ![o] = Rate(rate, @)] /\ UNCHANGED <<physics, jointType>>
      BY <2>2 DEF SetGrowthRate
    <3>2. Rate(rate, growthRate[o]) \in {0, 1}
      BY <2>1 DEF TraitsTyped, Rate
    <3> QED BY <2>1, <3>1, <3>2 DEF TraitsTyped
  <2>3. ASSUME SetJointType(o) PROVE TraitsTyped'
    BY <2>1, <2>3 DEF SetJointType, TraitsTyped
  <2>4. ASSUME RestartPhysics(o) \/ NoPhysics(o) PROVE TraitsTyped'
    BY <2>1, <2>4 DEF RestartPhysics, NoPhysics, TraitsTyped
  <2>5. ASSUME NEW pos, SetPosition(o, pos) PROVE TraitsTyped'
    BY <2>5, TraitsStay DEF SetPosition, objectVars
  <2> QED BY <2>2, <2>3, <2>4, <2>5
<1>6. BodiesTyped'
  <2>1. CASE UNCHANGED bodies
    BY <1>1, <2>1, BodiesStay
  <2>2. CASE NoPhysics(o)
    <3>1. bodies' = [x \in DOMAIN bodies \ sceneNodes[o] |-> bodies[x]]
      BY <2>2 DEF NoPhysics
    <3> QED BY <1>1, <3>1 DEF TypesInv, BodiesTyped, AllIn
  <2> QED BY <2>1, <2>2 DEF SetPosition, SetGrowthRate, SetJointType, RestartPhysics, Quietly, engineVars
<1> QED BY <1>3, <1>4, <1>5, <1>6 DEF TypesInv

LEMMA FramesKeepTypes ==
  ASSUME WorldInv, TypesInv,
         FrameStarted \/ FrameEnded \/ OnlyUpdate \/ GrowObject \/ RefreshEnd \/ UNCHANGED vars
  PROVE  TypesInv'
<1>1. UNCHANGED <<files, objectId, genes, system, turtles, physics, jointType, growthRate,
                  objectNames, sceneNodes, entities, bodies, newPoint>>
  BY DEF FrameStarted, FrameEnded, OnlyUpdate, GrowObject, RefreshEnd, vars,
         heap, objectVars, elementVars, engineVars, growVars
<1>2. pc' = pc \/ pc' \in {"idle", "frame", "refresh", "read"}
  BY DEF FrameStarted, FrameEnded, OnlyUpdate, GrowObject, RefreshEnd, vars
<1>3. GenesTyped' /\ TurtlesTyped' /\ TraitsTyped' /\ ElementsTyped'
  BY <1>1, GenesStay, TurtlesStay, TraitsStay, ElementsStay
<1>4. BodiesTyped'
  BY <1>1, <1>2, BodiesStay
<1>5. FramesTyped'
  <2>1. CASE FrameStarted
    <3>1. /\ pc' = "frame" /\ todo' = Created /\ Created' = Created
          /\ \E late \in SUBSET Created : elapsed' = [p \in Objects |-> elapsed[p] \/ p \in late]
      BY <1>1, <2>1 DEF FrameStarted, Created
    <3>2. elapsed' \in [Objects -> BOOLEAN]
      BY <3>1
    <3> QED BY <1>1, <3>1, <3>2 DEF TypesInv, FramesTyped
  <2>2. CASE FrameEnded \/ OnlyUpdate \/ GrowObject \/ RefreshEnd \/ UNCHANGED vars
    <3>1. UNCHANGED elapsed /\ todo' \subseteq todo
      BY <2>2 DEF FrameEnded, OnlyUpdate, GrowObject, RefreshEnd, vars
    <3>2. pc' \in {"idle", "frame", "refresh", "read", "grown", "failed", "element", "joint"}
      BY <1>2 DEF TypesInv, FramesTyped
    <3> QED BY <1>1, <3>1, <3>2, FramesStay
  <2> QED BY <2>1, <2>2
<1> QED BY <1>3, <1>4, <1>5 DEF TypesInv

LEMMA RefreshTypes ==
  ASSUME WorldInv, TypesInv, Refresh
  PROVE  TypesInv'
<1> DEFINE i == interpreter[self]
           item == objectNames[self][k][1]
           index == objectNames[self][k][2]
           u == IF item \in DOMAIN bodies THEN UpdatePoint(turtles[i], index, bodies[item])
                ELSE turtles[i]
<1>1. /\ turtles' = Change(turtles, i, u) /\ pc = "refresh" /\ Refreshing
      /\ UNCHANGED <<files, elapsed, objectId, genes, system, physics, jointType, growthRate,
                     objectNames, sceneNodes, entities, bodies, newPoint, pc, todo>>
  BY DEF Refresh, SetTurtle, Turtle, Change, objectVars, elementVars, engineVars
<1>2. self \in Objects /\ i # Null
  BY <1>1 DEF WorldInv, GrowerInv
<1>3. index \in Nat
  <2>1. IsSeq(objectNames[self]) /\ k \in Nat /\ k >= 1 /\ k <= Len(objectNames[self])
    BY <1>1, <1>2 DEF WorldInv, GrowerInv, Refreshing
  <2>2. k \in DOMAIN objectNames[self]
    BY <2>1, IsSeqShape
  <2> QED BY <1>2, <2>2 DEF WorldInv, GrowerInv
<1>4. item \in DOMAIN bodies => bodies[item] \in Vectors
  BY DEF TypesInv, BodiesTyped, AllIn
<1> HIDE DEF item, index
<1>5. TurtleInv(turtles[i]) /\ Typed(turtles[i]) => Typed(u) /\ u.system = turtles[i].system
  BY <1>3, <1>4, UpdatePointTyped, UpdatePointKeeps
<1> HIDE DEF u
<1>6. TurtlesTyped'
  BY <1>1, <1>2, <1>5, TurtleSetTyped
<1>7. GenesTyped' /\ TraitsTyped' /\ ElementsTyped' /\ BodiesTyped'
  BY <1>1, GenesStay, TraitsStay, ElementsStay, BodiesStay
<1>8. FramesTyped'
  BY <1>1, FramesStay
<1> QED BY <1>6, <1>7, <1>8 DEF TypesInv

LEMMA ReadGeneTypes ==
  ASSUME WorldInv, TypesInv, ReadGene
  PROVE  TypesInv'
<1> DEFINE i == interpreter[self]
           t == turtles[i]
<1>1. PICK r \in Grow(t, genes[t.system]) :
         turtles' = Change(turtles, i, r.turtle) /\ newPoint' = r.point /\ pc' = After(r)
  BY DEF ReadGene, SetTurtle, Turtle, Change
<1>2. /\ pc = "read"
      /\ UNCHANGED <<files, elapsed, objectId, genes, system, physics, jointType, growthRate,
                     objectNames, sceneNodes, entities, bodies, todo>>
  BY DEF ReadGene, objectVars, elementVars, engineVars
<1>3. self \in Objects /\ i # Null
  BY <1>2 DEF WorldInv, GrowerInv
<1>4. TurtleInv(t) /\ Typed(t) /\ genes[t.system] \in Seq(Genes)
  <2>1. i \in DOMAIN turtles
    <3>1. DOMAIN turtles = 1 .. Len(turtles) /\ Len(turtles) \in Nat
      BY IsSeqShape DEF WorldInv, HeapInv
    <3> QED BY <1>3, <3>1 DEF WorldInv, ObjectsInv, Null
  <2>2. TurtleInv(t) /\ Typed(t) /\ t.system \in 1 .. Len(genes)
    BY <2>1 DEF WorldInv, HeapInv, TypesInv, TurtlesTyped
  <2>3. genes \in Seq(Seq(Genes))
    BY DEF TypesInv, GenesTyped
  <2> QED BY <2>2, <2>3, ElementOfSeq
<1>5. Typed(r.turtle) /\ r.turtle.system = t.system /\ r.point \in Vectors \cup {NoPoint}
  <2>1. Typed(r.turtle) /\ r.point \in Vectors \cup {NoPoint}
    BY <1>4, GrowTyped
  <2>2. GrewTo(t, r)
    BY <1>4, GrowKeeps
  <2> QED BY <2>1, <2>2 DEF GrewTo
<1>6. TurtlesTyped'
  BY <1>1, <1>2, <1>3, <1>5, TurtleSetTyped
<1>7. GenesTyped' /\ TraitsTyped' /\ ElementsTyped'
  BY <1>2, GenesStay, TraitsStay, ElementsStay
<1>8. pc' \in {"failed", "read", "grown"} /\ (pc' \in {"grown", "element"} => newPoint' \in Vectors)
  BY <1>1, <1>5 DEF After
<1>9. BodiesTyped'
  BY <1>2, <1>8 DEF TypesInv, BodiesTyped
<1>10. FramesTyped'
  BY <1>2, <1>8, FramesStay
<1> QED BY <1>6, <1>7, <1>9, <1>10 DEF TypesInv

LEMMA MutateTypes ==
  ASSUME WellTyped, WorldInv, TypesInv, Mutate
  PROVE  TypesInv'
<1> DEFINE s == system[self]
<1>1. /\ pc \in {"grown", "failed"}
      /\ UNCHANGED <<files, elapsed, objectId, system, turtles, physics, jointType, growthRate,
                     objectNames, sceneNodes, entities, bodies>>
      /\ \/ pc = "grown" /\ pc' = "element" /\ UNCHANGED <<todo, newPoint>>
         \/ pc' = "frame" /\ todo' = todo \ {self}
  BY DEF Mutate, objectVars, elementVars, engineVars, growVars
<1>2. PICK mutated \in MayBecome :
         genes' = [genes EXCEPT ![s] = IF pc = "failed" THEN SystemGrown(mutated) ELSE mutated]
  BY DEF Mutate
<1>3. s \in 1 .. Len(genes) /\ Len(genes) \in Nat
  <2>1. self \in Objects /\ interpreter[self] # Null
    BY <1>1 DEF WorldInv, GrowerInv
  <2>2. s \in 0 .. Len(genes) /\ s # Null
    BY <2>1 DEF WorldInv, ObjectsInv
  <2>3. Len(genes) \in Nat
    BY IsSeqShape DEF WorldInv, HeapInv
  <2> QED BY <2>2, <2>3 DEF Null
<1>4. genes \in Seq(Seq(Genes))
  BY DEF TypesInv, GenesTyped
<1>5. mutated \in Seq(Genes)
  <2>1. Own \in Seq(Genes)
    BY <1>3, <1>4, ElementOfSeq DEF Own
  <2>2. SystemMutated(Own) \subseteq Seq(Genes)
    BY <2>1 DEF WellTyped
  <2> QED BY <2>1, <2>2 DEF MayBecome
<1> HIDE DEF s
<1>6. /\ genes' \in Seq(Seq(Genes)) /\ Len(genes') = Len(genes)
  <2> DEFINE gs == IF pc = "failed" THEN SystemGrown(mutated) ELSE mutated
  <2>1. gs \in Seq(Genes)
    BY <1>5 DEF WellTyped
  <2>2. genes' = [genes EXCEPT ![s] = gs]
    BY <1>2
  <2> HIDE DEF gs
  <2> QED BY <1>3, <1>4, <2>1, <2>2, ExceptSeq
<1>7. GenesTyped' /\ TurtlesTyped'
  <2>1. Created' = Created
    BY <1>1 DEF Created
  <2> QED BY <1>1, <1>6, <2>1 DEF TypesInv, GenesTyped, TurtlesTyped
<1>8. TraitsTyped' /\ ElementsTyped'
  BY <1>1, TraitsStay, ElementsStay
<1>9. BodiesTyped'
  BY <1>1 DEF TypesInv, BodiesTyped
<1>10. FramesTyped'
  BY <1>1, FramesStay
<1> QED BY <1>7, <1>8, <1>9, <1>10 DEF TypesInv

LEMMA MakeElementTypes ==
  ASSUME WorldInv, TypesInv, MakeElement
  PROVE  TypesInv'
<1>1. /\ pc = "element" /\ pc' = "joint"
      /\ UNCHANGED <<files, elapsed, objectId, genes, system, turtles, physics, jointType,
                     growthRate, newPoint, todo>>
      /\ entities' = entities \cup {NewItem}
      /\ bodies' = [x \in DOMAIN bodies \cup IF physics[self] THEN {NewItem} ELSE {} |->
                       IF x \in DOMAIN bodies THEN bodies[x] ELSE newPoint]
      /\ sceneNodes' = [sceneNodes EXCEPT ![self] = @ \cup {NewItem}]
      /\ objectNames' = [objectNames EXCEPT ![self] = Append(@, <<NewItem, currentIndex>>)]
  BY DEF MakeElement, heap, objectVars, growVars
<1>2. GenesTyped' /\ TurtlesTyped' /\ TraitsTyped'
  BY <1>1, GenesStay, TurtlesStay, TraitsStay
<1>3. FramesTyped'
  BY <1>1, FramesStay
<1>4. BodiesTyped'
  BY <1>1 DEF TypesInv, BodiesTyped, AllIn
<1>5. ElementsTyped'
  <2>1. /\ DOMAIN sceneNodes = Objects /\ DOMAIN objectNames = Objects /\ self \in Objects
        /\ \A o \in Objects : /\ sceneNodes[o] \subseteq entities
                              /\ \A n \in DOMAIN objectNames[o] : objectNames[o][n][1] \in sceneNodes[o]
        /\ IsSeq(objectNames[self])
    BY DEF WorldInv, GrowerInv, TypesInv, ElementsTyped
  <2>2. \A o \in Objects : sceneNodes'[o] = IF o = self THEN sceneNodes[o] \cup {NewItem} ELSE sceneNodes[o]
    BY <1>1, <2>1
  <2>3. \A o \in Objects \ {self} : objectNames'[o] = objectNames[o]
    BY <1>1, <2>1
  <2>4. \A n \in DOMAIN objectNames'[self] : objectNames'[self][n][1] \in sceneNodes'[self]
    <3> DEFINE names == objectNames[self]
               x == <<NewItem, currentIndex>>
    <3>1. objectNames'[self] = Append(names, x)
      BY <1>1, <2>1
    <3>2. x[1] = NewItem
      OBVIOUS
    <3>3. IsSeq(names) /\ Len(names) \in Nat /\ DOMAIN names = 1 .. Len(names)
      BY <2>1, IsSeqShape
    <3>4. \A n \in DOMAIN names : names[n][1] \in sceneNodes[self]
      BY <2>1
    <3> HIDE DEF names, x
    <3>5. /\ DOMAIN Append(names, x) = 1 .. Len(names) + 1 /\ Append(names, x)[Len(names) + 1] = x
          /\ \A n \in 1 .. Len(names) : Append(names, x)[n] = names[n]
      BY <3>3, Appended
    <3>6. \A n \in 1 .. Len(names) + 1 : n \in 1 .. Len(names) \/ n = Len(names) + 1
      BY <3>3
    <3>7. \A n \in DOMAIN Append(names, x) : Append(names, x)[n][1] \in sceneNodes[self] \cup {NewItem}
      BY <3>2, <3>3, <3>4, <3>5, <3>6
    <3>8. sceneNodes'[self] = sceneNodes[self] \cup {NewItem}
      BY <2>1, <2>2
    <3> QED BY <3>1, <3>7, <3>8
  <2>5. DOMAIN sceneNodes' = Objects
    BY <1>1, <2>1
  <2>6. \A o \in Objects : sceneNodes'[o] \subseteq entities'
    BY <1>1, <2>1, <2>2
  <2>7. \A o \in Objects \ {self} : \A n \in DOMAIN objectNames'[o] : objectNames'[o][n][1] \in sceneNodes'[o]
    BY <2>1, <2>2, <2>3
  <2> QED BY <2>4, <2>5, <2>6, <2>7 DEF ElementsTyped
<1> QED BY <1>2, <1>3, <1>4, <1>5 DEF TypesInv

LEMMA ConnectTypes ==
  ASSUME WorldInv, TypesInv, Connect
  PROVE  TypesInv'
<1>1. /\ pc' = "frame" /\ todo' = todo \ {self}
      /\ UNCHANGED <<files, objectId, genes, system, turtles, physics, jointType, growthRate,
                     objectNames, sceneNodes, entities, bodies>>
      /\ elapsed' = [elapsed EXCEPT ![self] = FALSE]
  BY DEF Connect, heap, objectVars, elementVars
<1>2. GenesTyped' /\ TurtlesTyped' /\ TraitsTyped' /\ ElementsTyped'
  BY <1>1, GenesStay, TurtlesStay, TraitsStay, ElementsStay
<1>3. BodiesTyped'
  BY <1>1 DEF TypesInv, BodiesTyped
<1>4. FramesTyped'
  BY <1>1 DEF TypesInv, FramesTyped, Created
<1> QED BY <1>2, <1>3, <1>4 DEF TypesInv

LEMMA MoveTypes ==
  ASSUME WorldInv, TypesInv, NEW x \in DOMAIN bodies, Move(x)
  PROVE  TypesInv'
<1>1. /\ UNCHANGED <<files, elapsed, objectId, genes, system, turtles, physics, jointType,
                     growthRate, objectNames, sceneNodes, entities, newPoint, pc, todo>>
      /\ bodies' = [bodies EXCEPT ![x] = Minus(@, <<0, 1, 0>>)]
  BY DEF Move, heap, objectVars, elementVars, growVars
<1>2. GenesTyped' /\ TurtlesTyped' /\ TraitsTyped' /\ ElementsTyped'
  BY <1>1, GenesStay, TurtlesStay, TraitsStay, ElementsStay
<1>3. FramesTyped'
  BY <1>1 DEF TypesInv, FramesTyped, Created
<1>4. BodiesTyped'
  <2>1. AllIn(bodies, Vectors)
    BY DEF TypesInv, BodiesTyped
  <2>2. Minus(bodies[x], <<0, 1, 0>>) \in Vectors
    <3>1. bodies[x] \in Vectors /\ <<0, 1, 0>> \in Vectors
      BY <2>1, VectorShape DEF AllIn
    <3> QED BY <3>1, Sums
  <2>3. AllIn(bodies', Vectors)
    BY <1>1, <2>1, <2>2 DEF AllIn
  <2> QED BY <1>1, <2>3 DEF TypesInv, BodiesTyped
<1> QED BY <1>2, <1>3, <1>4 DEF TypesInv

LEMMA NextTypes ==
  ASSUME WellTyped
  PROVE  WorldInv /\ TypesInv /\ [Next]_vars => TypesInv'
<1> SUFFICES ASSUME WorldInv, TypesInv, [Next]_vars PROVE TypesInv'
  OBVIOUS
<1>1. ASSUME NEW o \in Objects, Call(o)
      PROVE  TypesInv'
  BY <1>1, CreateTypes, CreateAgainTypes, SettersTyped, BreedTypes DEF Call
<1>2. ASSUME Render
      PROVE  TypesInv'
  BY <1>2, FramesKeepTypes, RefreshTypes, ReadGeneTypes, MutateTypes, MakeElementTypes,
     ConnectTypes DEF Render
<1> QED BY <1>1, <1>2, FramesKeepTypes, MoveTypes DEF Next

LEMMA TypesAreOK ==
  ASSUME WorldInv, JointsInv, TypesInv
  PROVE  TypeOK
<1>1. ASSUME NEW n \in DOMAIN turtles
      PROVE  TurtleOK(turtles[n])
  <2> DEFINE t == turtles[n]
  <2>1. TurtleInv(t) /\ Typed(t) /\ t.system \in 1 .. Len(genes)
    BY DEF WorldInv, HeapInv, TypesInv, TurtlesTyped
  <2> HIDE DEF t
  <2>2. /\ IsSeq(t.points) /\ Len(t.points) >= 1 /\ IsSeq(t.pointStack)
        /\ t.bracketCount \in Nat /\ StackCurrent(t)
    BY <2>1 DEF TurtleInv
  <2>3. /\ AllIn(t.points, Vectors) /\ Len(t.points) <= MaxPoints
        /\ AllIn(t.pointStack, Nat \X Vectors)
        /\ t.elements \in Seq(Genes) /\ Len(t.elements) = Len(t.points) - 1
        /\ t.currentSystemIndex \in Nat
    BY <2>1 DEF Typed, Shaped
  <2>4. ASSUME NEW s, IsSeq(s), NEW S, AllIn(s, S) PROVE s \in Seq(S)
    <3>1. Len(s) \in Nat /\ DOMAIN s = 1 .. Len(s) /\ s \in Seq({s[i] : i \in DOMAIN s})
      BY <2>4 DEF IsSeq
    <3>2. \A i \in DOMAIN s : s[i] \in S
      BY <2>4 DEF AllIn
    <3>3. s = [i \in DOMAIN s |-> s[i]]
      BY <3>1
    <3>4. s \in [1 .. Len(s) -> S]
      BY <3>1, <3>2, <3>3
    <3> QED BY <3>1, <3>4
  <2>5. t.points \in Seq([1 .. 3 -> Int]) /\ Len(t.points) \in 1 .. MaxPoints
    <3>1. Len(t.points) \in Nat
      BY <2>2, IsSeqShape
    <3>2. Len(t.points) \in 1 .. MaxPoints
      BY <2>2, <2>3, <3>1, InterpreterAssumption
    <3>3. t.points \in Seq(Vectors)
      BY <2>2, <2>3, <2>4
    <3> QED BY <3>2, <3>3 DEF Vectors
  <2>6. t.pointStack \in Seq((0 .. MaxPoints) \X [1 .. 3 -> Int])
    <3>1. ASSUME NEW i \in DOMAIN t.pointStack
          PROVE  t.pointStack[i] \in (0 .. MaxPoints) \X Vectors
      <4> DEFINE place == t.pointStack[i]
      <4>1. place \in Nat \X Vectors
        BY <2>3 DEF AllIn
      <4>2. place[1] \in 0 .. Len(t.points) - 1
        BY <2>2 DEF StackCurrent
      <4> HIDE DEF place
      <4>3. place[1] \in 0 .. MaxPoints
        BY <2>5, <4>2, InterpreterAssumption
      <4>4. place \in (0 .. MaxPoints) \X Vectors
        BY <4>1, <4>3
      <4> QED BY <4>4 DEF place
    <3>2. AllIn(t.pointStack, (0 .. MaxPoints) \X Vectors)
      BY <3>1 DEF AllIn
    <3>3. t.pointStack \in Seq((0 .. MaxPoints) \X Vectors)
      BY <2>2, <2>4, <3>2
    <3> QED BY <3>3 DEF Vectors
  <2>7. TurtleOK(t)
    BY <2>1, <2>2, <2>3, <2>5, <2>6 DEF TurtleOK
  <2> QED BY <2>7 DEF t
<1>2. files \in Files /\ genes \in Seq(Seq(Genes))
  BY DEF TypesInv, FramesTyped, GenesTyped
<1>3. /\ objectCounter \in Nat /\ objectId \in [Objects -> 0 .. objectCounter]
      /\ system \in [Objects -> 0 .. Len(genes)]
      /\ interpreter \in [Objects -> 0 .. Len(turtles)]
  BY DEF WorldInv, ObjectsInv
<1>4. /\ physics \in [Objects -> BOOLEAN] /\ jointType \in [Objects -> {"", "ball"}]
      /\ growthRate \in [Objects -> {0, 1}]
  BY DEF TypesInv, TraitsTyped
<1>5. /\ elapsed \in [Objects -> BOOLEAN] /\ todo \subseteq Created
      /\ pc \in {"idle", "frame", "refresh", "read", "grown", "failed", "element", "joint"}
  BY DEF TypesInv, FramesTyped
<1>6. \A o \in Objects :
          /\ sceneNodes[o] \subseteq entities
          /\ \A n \in DOMAIN objectNames[o] : objectNames[o][n][1] \in sceneNodes[o]
  BY DEF TypesInv, ElementsTyped
<1>7. DOMAIN bodies \subseteq entities /\ self \in Objects
  BY DEF WorldInv, NamesInv, GrowerInv
<1>8. links \subseteq (DOMAIN bodies) \X (DOMAIN bodies)
  <2> SUFFICES ASSUME NEW l \in links PROVE l \in (DOMAIN bodies) \X (DOMAIN bodies)
    OBVIOUS
  <2>1. PICK o \in Objects : \E b, at \in Points(trace[o]) :
           JointIn(trace[o], DOMAIN bodies, b, at) /\ l = LinkIn(trace[o], b, at)
    BY DEF JointsInv, LinksInv
  <2> QED BY <2>1 DEF JointIn, LinkIn
<1> QED BY <1>1, <1>2, <1>3, <1>4, <1>5, <1>6, <1>7, <1>8 DEF TypeOK

(* The history of what the turtles made sense of agrees with their stacks, *)
(* the elements that are drawn are points of it, and the joints are those  *)
(* of its branches, but for the one that Connect is about to make.         *)
THEOREM HistoryExplainsJoints == Spec => []JointsInv
BY InitHolds, InitJoints, NextKeeps, NextJoints, PTL DEF Spec

(* "returns the last point created for the current branch.  Note this      *)
(* means if you have p1, [ p2, p3, p4 ], it will return p1": whatever      *)
(* mutates and moves between two frames, the joints of the physics engine  *)
(* are between elements that follow each other in a branch, and all of     *)
(* those are jointed; and every variable keeps its type.                   *)
THEOREM JointsStayOnBranches ==
  ASSUME WellTyped
  PROVE  Spec => []JointsFollowBranches
<1>1. Init => WorldInv /\ JointsInv /\ TypesInv
  BY InitHolds, InitJoints, InitTypes
<1>2. WorldInv /\ JointsInv /\ TypesInv /\ [Next]_vars => WorldInv' /\ JointsInv' /\ TypesInv'
  BY NextKeeps, NextJoints, NextTypes
<1>3. WorldInv /\ JointsInv /\ TypesInv => JointsFollowBranches
  BY TypesAreOK, JointsOfBranches DEF JointsFollowBranches
<1> QED BY <1>1, <1>2, <1>3, PTL DEF Spec
=============================================================================
