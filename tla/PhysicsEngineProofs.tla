------------------------- MODULE PhysicsEngineProofs -------------------------
(***************************************************************************)
(* The physics engine for any items and any number of handles.             *)
(*                                                                         *)
(* EngineInv is inductive.  It says of the maps and the ODE world what     *)
(* HandlesLive and JointsReachable say, and what they rest on: a handle is *)
(* never given out twice, and no two names have one handle; where a call   *)
(* is tells what its item has; and a joint is recorded where its first     *)
(* body is.  With it, every step is one of PhysicsScene or none.           *)
(***************************************************************************)
EXTENDS PhysicsEngine, SequenceTheorems, TLAPS

Recorded(n) == {joints[n][k] : k \in DOMAIN joints[n]}

(* Recorded still, but destroyed: the vector is cleared after its last. *)
Gone == IF pc = "destroyJoint" THEN {joints[item][k] : k \in 1 .. gone} ELSE {}

(* Handles are numbered as they are created. *)
HandlesUsed ==
    /\ \A b \in odeBodies : b < next
    /\ \A g \in DOMAIN odeGeoms : g < next
    /\ \A j \in DOMAIN odeJoints : j < next

(* What has a name exists, and has one name. *)
BodiesNamed ==
    /\ \A n \in Items : bodies[n] # Null => bodies[n] \in odeBodies
    /\ \A m, n \in Items : bodies[m] = bodies[n] /\ bodies[m] # Null => m = n
GeometriesNamed ==
    /\ \A n \in Items : geometries[n] # Null => geometries[n] \in DOMAIN odeGeoms
    /\ \A m, n \in Items : geometries[m] = geometries[n] /\ geometries[m] # Null => m = n
JointsNamed ==
    /\ \A n \in Items : Recorded(n) \ Gone \subseteq DOMAIN odeJoints
    /\ \A m, n \in Items : \A k \in DOMAIN joints[m] : \A l \in DOMAIN joints[n] :
          joints[m][k] = joints[n][l] => m = n /\ k = l

(* A joint is attached to the body of the item it is recorded under, or to *)
(* nothing; an item has joints as long as it has a body, or they are being *)
(* destroyed; no joint is without an item, but one about to be attached.   *)
JointsWithItem ==
    /\ \A n \in Items : \A j \in Recorded(n) \ Gone :
          odeJoints[j] = <<>> \/ odeJoints[j][1] = bodies[n]
    /\ \A n \in Items : joints[n] # <<>> =>
          bodies[n] # Null \/ (pc = "destroyJoint" /\ item = n)
    /\ \A j \in DOMAIN odeJoints :
          (pc = "attach" /\ j = joint) \/ \E n \in Items : j \in Recorded(n)

(* Where a call is. *)
CallAt ==
    /\ pc = "attach" =>
          /\ item # other /\ bodies[item] # Null /\ bodies[other] # Null
          /\ joint # Null => /\ joint \in DOMAIN odeJoints /\ odeJoints[joint] = <<>>
                             /\ \A n \in Items : joint \notin Recorded(n)
    /\ pc = "destroyBody" => bodies[item] # Null
    /\ pc = "destroyJoint" => bodies[item] = Null /\ gone < Len(joints[item])
    /\ pc # "destroyJoint" => gone = 0
    /\ Gone \cap DOMAIN odeJoints = {}
    /\ pc = "destroyGeom" => geometries[item] # Null
    /\ read \in Seq(Nat)

EngineInv == /\ TypeOK /\ HandlesUsed /\ BodiesNamed /\ GeometriesNamed
             /\ JointsNamed /\ JointsWithItem /\ CallAt

USE DEF odeVars, mapVars, callVars, lifeVars, Null, Orphaned, Handles

LEMMA EngineInit == Init => EngineInv
<1> SUFFICES ASSUME Init PROVE EngineInv
  OBVIOUS
<1> USE DEF Init
<1>1. /\ DOMAIN odeGeoms = {} /\ DOMAIN odeJoints = {}
      /\ \A n \in Items : joints[n] = <<>> /\ Recorded(n) = {}
  BY DEF Recorded
<1>2. joints \in [Items -> Seq(Handles)] /\ Len(read) = 0
  BY EmptySeq
<1>3. next \in 1 .. MaxHandles + 1 /\ steps \in 0 .. MaxSteps
  BY PhysicsAssumption
<1>4. {world, running, threaded} \subseteq BOOLEAN
  OBVIOUS
<1>5. TypeOK
  BY <1>1, <1>2, <1>3, <1>4 DEF TypeOK
<1>6. read \in Seq(Nat)
  BY EmptySeq
<1> QED BY <1>1, <1>5, <1>6 DEF EngineInv, HandlesUsed, BodiesNamed, GeometriesNamed, JointsNamed,
           JointsWithItem, CallAt, Gone

-----------------------------------------------------------------------------
(* Steps that touch neither the maps nor what they name. *)

LEMMA NothingTouched ==
  ASSUME EngineInv, TypeOK', CallAt', UNCHANGED <<odeVars, mapVars>>,
         pc = "attach" /\ joint # Null => pc' = "attach" /\ joint' = joint,
         pc = "destroyJoint" <=> pc' = "destroyJoint",
         pc = "destroyJoint" => item' = item /\ gone' = gone
  PROVE  EngineInv'
<1> USE DEF EngineInv
<1>1. Gone' = Gone /\ \A n \in Items : Recorded(n)' = Recorded(n)
  BY DEF Recorded, Gone
<1>2. HandlesUsed' /\ BodiesNamed' /\ GeometriesNamed' /\ JointsNamed'
  BY <1>1 DEF HandlesUsed, BodiesNamed, GeometriesNamed, JointsNamed
<1>3. \A j \in DOMAIN odeJoints : j # Null
  BY DEF TypeOK
<1>4. JointsWithItem'
  BY <1>1, <1>3 DEF JointsWithItem
<1> QED BY <1>2, <1>4

LEMMA ReadingKeeps ==
  ASSUME EngineInv, NEW n \in Items,
         Remove(n) \/ LookUp(n) \/ CopyCoordinate \/ ReturnPosition
  PROVE  EngineInv'
<1> USE DEF EngineInv
<1>1. TypeOK' /\ CallAt'
  <2>1. CASE Remove(n)
    <3>1. TypeOK'
      BY <2>1 DEF Remove, TypeOK
    <3>2. CallAt'
      BY <2>1 DEF Remove, CallAt, Gone
    <3> QED BY <3>1, <3>2
  <2>2. CASE LookUp(n)
    <3>1. TypeOK'
      BY <2>2 DEF LookUp, TypeOK
    <3> QED BY <2>2, <3>1 DEF LookUp, CallAt, Gone
  <2>3. CASE CopyCoordinate
    <3>1. /\ read \in Seq(Nat) /\ Len(read) < 3 /\ Len(read) \in Nat /\ steps \in Nat
          /\ read' = Append(read, steps)
      BY <2>3, LenProperties DEF CopyCoordinate, CallAt, TypeOK
    <3>2. read' \in Seq(Nat) /\ Len(read') = Len(read) + 1
      BY <3>1, AppendProperties
    <3>3. UNCHANGED <<odeVars, mapVars, item, other, joint, gone, lifeVars, steps, thread, pc>>
      BY <2>3 DEF CopyCoordinate
    <3>4. Len(read') \in 0 .. 3
      BY <3>1, <3>2
    <3>5. TypeOK'
      BY <3>3, <3>4 DEF TypeOK
    <3>6. CallAt'
      BY <2>3, <3>2, <3>3 DEF CallAt, CopyCoordinate, Gone, Recorded
    <3> QED BY <3>5, <3>6
  <2>4. CASE ReturnPosition
    <3>1. read' = <<>> /\ read' \in Seq(Nat) /\ Len(read') = 0
      BY <2>4 DEF ReturnPosition
    <3>2. TypeOK'
      BY <2>4, <3>1 DEF ReturnPosition, TypeOK
    <3> QED BY <2>4, <3>1, <3>2 DEF ReturnPosition, CallAt, Gone
  <2> QED BY <2>1, <2>2, <2>3, <2>4
<1> QED BY <1>1, NothingTouched DEF Remove, LookUp, CopyCoordinate, ReturnPosition

LEMMA PhysicsKeeps ==
  ASSUME EngineInv,
         \/ DoPhysics \/ StartPhysics \/ Delete \/ DestroyWorld \/ AttachNull
         \/ CheckRunning \/ Collide \/ QuickStep
  PROVE  EngineInv'
<1> USE DEF EngineInv
<1>1. UNCHANGED <<odeVars, mapVars, callVars>>
  BY DEF DoPhysics, StartPhysics, Delete, DestroyWorld, AttachNull, CheckRunning, Collide, QuickStep
<1>2. pc' = pc \/ (pc' \in {"destroyWorld", "deleted", "crashed"}
                   /\ (pc \in {"idle", "destroyWorld"} \/ (pc = "attach" /\ joint = Null)))
  BY DEF DoPhysics, StartPhysics, Delete, DestroyWorld, AttachNull, CheckRunning, Collide, QuickStep
<1>3. TypeOK'
  <2>1. steps' \in 0 .. MaxSteps
    BY PhysicsAssumption DEF DoPhysics, StartPhysics, Delete, DestroyWorld, AttachNull, CheckRunning,
       Collide, QuickStep, StepWorld, TypeOK
  <2>2. thread' \in {"none", "check", "collide", "step", "gone"}
    BY DEF DoPhysics, StartPhysics, Delete, DestroyWorld, AttachNull, CheckRunning, Collide,
       QuickStep, TypeOK
  <2>3. {world', running', threaded'} \subseteq BOOLEAN
    BY DEF DoPhysics, StartPhysics, Delete, DestroyWorld, AttachNull, CheckRunning, Collide,
       QuickStep, TypeOK
  <2> QED BY <1>1, <1>2, <2>1, <2>2, <2>3 DEF TypeOK
<1>4. CallAt'
  BY <1>1, <1>2 DEF CallAt, Recorded, Gone
<1> QED BY <1>1, <1>2, <1>3, <1>4, NothingTouched

-----------------------------------------------------------------------------
(* Steps that add *)

LEMMA AddItemKeeps ==
  ASSUME EngineInv, NEW n \in Items, AddItem(n)
  PROVE  EngineInv'
<1> USE DEF EngineInv
<1>1. /\ next \in Nat /\ next + 1 \in Handles /\ next \in Handles /\ next # Null
      /\ next \notin odeBodies /\ next + 1 \notin DOMAIN odeGeoms
      /\ \A m \in Items : bodies[m] # next
  BY PhysicsAssumption DEF AddItem, TypeOK, HandlesUsed, BodiesNamed
<1>2. /\ odeBodies' = odeBodies \cup {next} /\ next' = next + 2
      /\ \A m \in Items : bodies'[m] = IF m = n THEN next ELSE bodies[m]
      /\ bodies' \in [Items -> Handles \cup {Null}]
      /\ UNCHANGED <<odeJoints, geometries, joints, callVars, lifeVars, steps, thread, pc>>
      /\ pc = "idle" /\ bodies[n] = Null
  BY <1>1 DEF AddItem, TypeOK
<1>3. /\ DOMAIN odeGeoms' = DOMAIN odeGeoms \cup {next + 1} /\ odeGeoms'[next + 1] = next
      /\ \A g \in DOMAIN odeGeoms : odeGeoms'[g] = odeGeoms[g]
  BY <1>1 DEF AddItem, With
<1>4. \A m \in Items : Recorded(m)' = Recorded(m)
  BY <1>2 DEF Recorded
<1>5. TypeOK'
  <2>1. \A j \in DOMAIN odeJoints : odeJoints'[j] \in {<<>>} \cup (odeBodies' \X odeBodies')
    BY <1>2 DEF TypeOK
  <2>2. odeBodies' \subseteq Handles /\ DOMAIN odeGeoms' \subseteq Handles
    BY <1>1, <1>2, <1>3 DEF TypeOK
  <2>3. \A g \in DOMAIN odeGeoms' : odeGeoms'[g] \in odeBodies' \cup {Null, Orphaned}
    BY <1>2, <1>3 DEF TypeOK
  <2>4. next' \in 1 .. MaxHandles + 1
    BY <1>1, <1>2, PhysicsAssumption
  <2> QED BY <1>2, <2>1, <2>2, <2>3, <2>4 DEF TypeOK
<1>6. HandlesUsed'
  <2>1. odeBodies \subseteq Nat /\ DOMAIN odeGeoms \subseteq Nat /\ DOMAIN odeJoints \subseteq Nat
    BY DEF TypeOK
  <2> QED BY <1>1, <1>2, <1>3, <2>1 DEF HandlesUsed
<1>7. BodiesNamed' /\ GeometriesNamed'
  BY <1>1, <1>2, <1>3 DEF BodiesNamed, GeometriesNamed
<1>8. JointsNamed'
  BY <1>2, <1>4 DEF JointsNamed, Gone
<1>9. JointsWithItem' /\ CallAt'
  <2>1. joints[n] = <<>> /\ Recorded(n) = {}
    BY <1>2 DEF JointsWithItem, Recorded
  <2> QED BY <1>1, <1>2, <1>4, <2>1 DEF JointsWithItem, CallAt, Gone
<1> QED BY <1>5, <1>6, <1>7, <1>8, <1>9

LEMMA AddStaticItemKeeps ==
  ASSUME EngineInv, NEW n \in Items, AddStaticItem(n)
  PROVE  EngineInv'
<1> USE DEF EngineInv
<1>1. /\ next \in Handles /\ next # Null /\ next \notin DOMAIN odeGeoms
      /\ \A m \in Items : geometries[m] # next
  <2>1. next \in Handles /\ next \in Nat
    BY PhysicsAssumption DEF AddStaticItem, TypeOK
  <2>2. next \notin DOMAIN odeGeoms
    BY <2>1 DEF HandlesUsed
  <2> QED BY <2>1, <2>2 DEF GeometriesNamed
<1>2. /\ next' = next + 1
      /\ \A m \in Items : geometries'[m] = IF m = n THEN next ELSE geometries[m]
      /\ geometries' \in [Items -> Handles \cup {Null}]
      /\ UNCHANGED <<odeBodies, odeJoints, bodies, joints, callVars, lifeVars, steps, thread, pc>>
      /\ pc = "idle"
  BY <1>1 DEF AddStaticItem, TypeOK
<1>3. /\ DOMAIN odeGeoms' = DOMAIN odeGeoms \cup {next} /\ odeGeoms'[next] = Null
      /\ \A g \in DOMAIN odeGeoms : odeGeoms'[g] = odeGeoms[g]
  BY <1>1 DEF AddStaticItem, With
<1>4. \A m \in Items : Recorded(m)' = Recorded(m)
  BY <1>2 DEF Recorded
<1>5. TypeOK'
  <2>1. \A g \in DOMAIN odeGeoms' : odeGeoms'[g] \in odeBodies' \cup {Null, Orphaned}
    BY <1>2, <1>3 DEF TypeOK
  <2>2. DOMAIN odeGeoms' \subseteq Handles /\ next' \in 1 .. MaxHandles + 1
    BY <1>1, <1>2, <1>3, PhysicsAssumption DEF TypeOK
  <2> QED BY <1>2, <2>1, <2>2 DEF TypeOK
<1>6. HandlesUsed'
  <2>1. odeBodies \subseteq Nat /\ DOMAIN odeGeoms \subseteq Nat /\ DOMAIN odeJoints \subseteq Nat
    BY DEF TypeOK
  <2> QED BY <1>1, <1>2, <1>3, <2>1 DEF HandlesUsed
<1>7. BodiesNamed' /\ GeometriesNamed'
  BY <1>1, <1>2, <1>3 DEF BodiesNamed, GeometriesNamed
<1>8. JointsNamed' /\ JointsWithItem'
  BY <1>2, <1>4 DEF JointsNamed, JointsWithItem, Gone
<1>9. CallAt'
  BY <1>2 DEF CallAt, Gone
<1> QED BY <1>5, <1>6, <1>7, <1>8, <1>9

LEMMA CreateJointKeeps ==
  ASSUME EngineInv, NEW m \in Items, NEW n \in Items, CreateJoint(m, n)
  PROVE  EngineInv'
<1> USE DEF EngineInv
<1>1. /\ item' = m /\ other' = n /\ m # n /\ bodies[m] # Null /\ bodies[n] # Null
      /\ pc = "idle" /\ pc' = "attach"
      /\ UNCHANGED <<odeBodies, odeGeoms, mapVars, gone, read, lifeVars, steps, thread>>
  BY DEF CreateJoint
<1>2. \A k \in Items : Recorded(k)' = Recorded(k)
  BY <1>1 DEF Recorded
<1>3. BodiesNamed' /\ GeometriesNamed'
  BY <1>1 DEF BodiesNamed, GeometriesNamed
<1>4. CASE joint' = Null /\ UNCHANGED <<odeJoints, next>>
  <2>1. TypeOK' /\ HandlesUsed' /\ JointsNamed' /\ JointsWithItem' /\ CallAt'
    BY <1>1, <1>2, <1>4 DEF TypeOK, HandlesUsed, JointsNamed, JointsWithItem, CallAt, Gone
  <2> QED BY <1>3, <2>1
<1>5. CASE /\ next <= MaxHandles /\ joint' = next /\ next' = next + 1
           /\ odeJoints' = With(odeJoints, next, <<>>)
  <2>1. /\ next \in Handles /\ next # Null /\ next \notin DOMAIN odeJoints
        /\ \A k \in Items : next \notin Recorded(k)
    <3>1. next \in Handles /\ next \in Nat
      BY <1>5, PhysicsAssumption DEF TypeOK
    <3>2. next \notin DOMAIN odeJoints
      BY <3>1 DEF HandlesUsed
    <3> QED BY <1>1, <3>1, <3>2 DEF JointsNamed, Gone
  <2>2. /\ DOMAIN odeJoints' = DOMAIN odeJoints \cup {next} /\ odeJoints'[next] = <<>>
        /\ \A j \in DOMAIN odeJoints : odeJoints'[j] = odeJoints[j]
    BY <1>5, <2>1 DEF With
  <2>3. TypeOK'
    <3>1. \A j \in DOMAIN odeJoints' : odeJoints'[j] \in {<<>>} \cup (odeBodies' \X odeBodies')
      BY <1>1, <2>2 DEF TypeOK
    <3>2. DOMAIN odeJoints' \subseteq Handles /\ next' \in 1 .. MaxHandles + 1
      <4>1. next' = next + 1 /\ next <= MaxHandles
        BY <1>5
      <4> QED BY <2>1, <2>2, <4>1, PhysicsAssumption DEF TypeOK
    <3>3. joint' \in Handles
      BY <1>5, <2>1
    <3> QED BY <1>1, <3>1, <3>2, <3>3 DEF TypeOK
  <2>4. HandlesUsed'
    <3>1. odeBodies \subseteq Nat /\ DOMAIN odeGeoms \subseteq Nat /\ DOMAIN odeJoints \subseteq Nat
      BY DEF TypeOK
    <3> QED BY <1>1, <1>5, <2>1, <2>2, <3>1 DEF HandlesUsed
  <2>5. JointsNamed' /\ JointsWithItem'
    BY <1>1, <1>2, <1>5, <2>1, <2>2 DEF JointsNamed, JointsWithItem, Gone
  <2>6. CallAt'
    BY <1>1, <1>2, <1>5, <2>1, <2>2 DEF CallAt, Gone
  <2> QED BY <1>3, <2>3, <2>4, <2>5, <2>6
<1> QED BY <1>4, <1>5 DEF CreateJoint

(* The joint is recorded where none has it. *)
LEMMA AttachKeeps ==
  ASSUME EngineInv, Attach
  PROVE  EngineInv'
<1> USE DEF EngineInv
<1>1. /\ pc = "attach" /\ joint # Null /\ joint \in DOMAIN odeJoints /\ joint \in Handles
      /\ item # other /\ item \in Items /\ other \in Items
      /\ bodies[item] # Null /\ bodies[other] # Null
      /\ \A n \in Items : joint \notin Recorded(n)
  BY DEF Attach, CallAt, TypeOK
<1>2. /\ pc' = "idle" /\ joint' = Null /\ other' = item
      /\ UNCHANGED <<odeBodies, odeGeoms, next, bodies, geometries, item, gone, read, lifeVars, steps, thread>>
  BY DEF Attach
<1>3. /\ DOMAIN odeJoints' = DOMAIN odeJoints
      /\ odeJoints'[joint] = <<bodies[item], bodies[other]>>
      /\ \A j \in DOMAIN odeJoints \ {joint} : odeJoints'[j] = odeJoints[j]
  BY <1>1 DEF Attach, With
<1>4. /\ joints' = [joints EXCEPT ![item] = Append(@, joint)]
      /\ joints \in [Items -> Seq(Handles)]
  BY DEF Attach, TypeOK
<1>5. /\ \A n \in Items : joints'[n] \in Seq(Handles)
      /\ \A n \in Items \ {item} : joints'[n] = joints[n]
      /\ joints' \in [Items -> Seq(Handles)]
      /\ DOMAIN joints'[item] = DOMAIN joints[item] \cup {Len(joints[item]) + 1}
      /\ \A k \in DOMAIN joints[item] : joints'[item][k] = joints[item][k]
      /\ joints'[item][Len(joints[item]) + 1] = joint
      /\ Len(joints[item]) + 1 \notin DOMAIN joints[item]
      /\ joints'[item] # <<>>
  <2>1. joints[item] \in Seq(Handles) /\ joints'[item] = Append(joints[item], joint)
    BY <1>1, <1>4
  <2>2. /\ joints'[item] \in Seq(Handles) /\ joints'[item] # <<>>
        /\ Len(joints'[item]) = Len(joints[item]) + 1
        /\ \A k \in 1 .. Len(joints[item]) : joints'[item][k] = joints[item][k]
        /\ joints'[item][Len(joints[item]) + 1] = joint
    BY <1>1, <2>1, AppendProperties
  <2>3. /\ DOMAIN joints[item] = 1 .. Len(joints[item]) /\ Len(joints[item]) \in Nat
        /\ DOMAIN joints'[item] = 1 .. Len(joints[item]) + 1
    BY <2>1, <2>2, LenProperties
  <2>4. \A n \in Items \ {item} : joints'[n] = joints[n]
    BY <1>4
  <2>5. \A n \in Items : joints'[n] \in Seq(Handles)
    BY <1>4, <2>2, <2>4
  <2>6. joints' \in [Items -> Seq(Handles)]
    BY <1>4, <2>1, <2>2
  <2> QED BY <2>2, <2>3, <2>4, <2>5, <2>6
<1>6. /\ Recorded(item)' = Recorded(item) \cup {joint}
      /\ \A n \in Items \ {item} : Recorded(n)' = Recorded(n)
  BY <1>2, <1>5 DEF Recorded
<1>7. TypeOK' /\ Gone = {} /\ Gone' = {}
  <2>1. odeJoints'[joint] \in odeBodies' \X odeBodies'
    BY <1>1, <1>2, <1>3 DEF BodiesNamed
  <2>2. \A j \in DOMAIN odeJoints' : odeJoints'[j] \in {<<>>} \cup (odeBodies' \X odeBodies')
    BY <1>2, <1>3, <2>1 DEF TypeOK
  <2> QED BY <1>1, <1>2, <1>3, <1>5, <2>2 DEF TypeOK, Gone
<1>8. HandlesUsed' /\ BodiesNamed' /\ GeometriesNamed'
  BY <1>2, <1>3 DEF HandlesUsed, BodiesNamed, GeometriesNamed
<1>9. JointsNamed'
  <2>1. \A n \in Items : Recorded(n)' \subseteq DOMAIN odeJoints'
    <3>1. Recorded(item) \cup {joint} \subseteq DOMAIN odeJoints'
      BY <1>1, <1>3, <1>7 DEF JointsNamed
    <3>2. \A n \in Items \ {item} : Recorded(n) \subseteq DOMAIN odeJoints'
      BY <1>3, <1>7 DEF JointsNamed
    <3> QED BY <1>2, <1>6, <3>1, <3>2
  <2>2. ASSUME NEW m \in Items, NEW n \in Items,
               NEW k \in DOMAIN joints'[m], NEW l \in DOMAIN joints'[n],
               joints'[m][k] = joints'[n][l]
        PROVE  m = n /\ k = l
    <3>1. \A o \in Items : \A i \in DOMAIN joints[o] : joints[o][i] # joint
      BY <1>1 DEF Recorded
    <3>2. \A o \in Items : \A i \in DOMAIN joints'[o] :
             \/ i \in DOMAIN joints[o] /\ joints'[o][i] = joints[o][i]
             \/ o = item /\ i = Len(joints[item]) + 1 /\ joints'[o][i] = joint
      BY <1>5
    <3>3. CASE k \in DOMAIN joints[m] /\ joints'[m][k] = joints[m][k]
      <4>1. l \in DOMAIN joints[n] /\ joints'[n][l] = joints[n][l]
        BY <2>2, <3>1, <3>2, <3>3
      <4>2. joints[m][k] = joints[n][l]
        BY <2>2, <3>3, <4>1
      <4> QED BY <3>3, <4>1, <4>2 DEF JointsNamed
    <3>4. CASE m = item /\ k = Len(joints[item]) + 1 /\ joints'[m][k] = joint
      BY <2>2, <3>1, <3>2, <3>4
    <3> QED BY <3>2, <3>3, <3>4
  <2> QED BY <1>7, <2>1, <2>2 DEF JointsNamed
<1>10. JointsWithItem'
  <2>1. \A n \in Items : \A j \in Recorded(n)' :
           odeJoints'[j] = <<>> \/ odeJoints'[j][1] = bodies'[n]
    BY <1>1, <1>2, <1>3, <1>6, <1>7 DEF JointsWithItem, JointsNamed
  <2>2. \A n \in Items : joints'[n] # <<>> => bodies'[n] # Null
    BY <1>1, <1>2, <1>5 DEF JointsWithItem
  <2>3. \A j \in DOMAIN odeJoints' : \E n \in Items : j \in Recorded(n)'
    <3>1. \A j \in DOMAIN odeJoints \ {joint} : \E n \in Items : j \in Recorded(n)
      BY DEF JointsWithItem
    <3>2. \A n \in Items : Recorded(n) \subseteq Recorded(n)'
      BY <1>2, <1>6
    <3>3. joint \in Recorded(item)'
      BY <1>2, <1>6
    <3> QED BY <1>1, <1>2, <1>3, <3>1, <3>2, <3>3
  <2> QED BY <1>7, <2>1, <2>2, <2>3 DEF JointsWithItem
<1>11. CallAt'
  BY <1>1, <1>2, <1>7 DEF CallAt
<1> QED BY <1>7, <1>8, <1>9, <1>10, <1>11

-----------------------------------------------------------------------------
(* Steps that destroy *)

(* A joint attached to a body, or to two. *)
LEMMA PairIs ==
  ASSUME NEW S, NEW p \in S \X S
  PROVE  /\ DOMAIN p = 1 .. 2 /\ p[1] \in S /\ p[2] \in S
         /\ p = <<p[1], p[2]>> /\ p # <<>>
  OBVIOUS

(* dBodyDestroy, and the name's body forgotten. *)
BodyGone(b) ==
    /\ odeBodies' = odeBodies \ {b}
    /\ DOMAIN odeGeoms' = DOMAIN odeGeoms
    /\ \A g \in DOMAIN odeGeoms :
          odeGeoms'[g] = IF odeGeoms[g] = b THEN Orphaned ELSE odeGeoms[g]
    /\ DOMAIN odeJoints' = DOMAIN odeJoints
    /\ \A j \in DOMAIN odeJoints :
          odeJoints'[j] = IF odeJoints[j] # <<>> /\ b \in {odeJoints[j][1], odeJoints[j][2]}
                          THEN <<>> ELSE odeJoints[j]
    /\ \A n \in Items : bodies'[n] = IF n = item THEN Null ELSE bodies[n]
    /\ bodies' \in [Items -> Handles \cup {Null}]

LEMMA DestroyBodyIs ==
  ASSUME EngineInv, DestroyBody
  PROVE  BodyGone(bodies[item])
<1> USE DEF EngineInv, BodyGone
<1> DEFINE b == bodies[item]
           Touched(j) == \E k \in DOMAIN odeJoints[j] : odeJoints[j][k] = b
<1>1. /\ odeBodies' = odeBodies \ {b} /\ bodies' = [bodies EXCEPT ![item] = Null]
      /\ odeGeoms' = [g \in DOMAIN odeGeoms |-> IF odeGeoms[g] = b THEN Orphaned ELSE odeGeoms[g]]
      /\ odeJoints' = [j \in DOMAIN odeJoints |-> IF Touched(j) THEN <<>> ELSE odeJoints[j]]
  BY DEF DestroyBody
<1>2. ASSUME NEW j \in DOMAIN odeJoints
      PROVE  Touched(j) <=> odeJoints[j] # <<>> /\ b \in {odeJoints[j][1], odeJoints[j][2]}
  <2>1. CASE odeJoints[j] = <<>>
    BY <2>1
  <2>2. CASE odeJoints[j] \in odeBodies \X odeBodies
    <3>1. DOMAIN odeJoints[j] = 1 .. 2 /\ odeJoints[j] # <<>>
      BY <2>2, PairIs
    <3>2. \A k : k \in 1 .. 2 <=> k = 1 \/ k = 2
      OBVIOUS
    <3> QED BY <3>1, <3>2
  <2> QED BY <2>1, <2>2 DEF TypeOK
<1> HIDE DEF Touched
<1>3. /\ DOMAIN odeJoints' = DOMAIN odeJoints
      /\ \A j \in DOMAIN odeJoints : odeJoints'[j] = IF Touched(j) THEN <<>> ELSE odeJoints[j]
  BY <1>1
<1> QED BY <1>1, <1>2, <1>3 DEF TypeOK

LEMMA DestroyBodyKeeps ==
  ASSUME EngineInv, DestroyBody
  PROVE  EngineInv'
<1> USE DEF EngineInv
<1> DEFINE b == bodies[item]
<1>1. BodyGone(b)
  BY DestroyBodyIs
<1>2. /\ pc = "destroyBody" /\ b # Null /\ b \in odeBodies /\ item \in Items
      /\ \A n \in Items : bodies[n] = b => n = item
  BY DEF DestroyBody, CallAt, BodiesNamed, TypeOK
<1>3. /\ pc' = IF joints[item] = <<>> THEN AfterJoints ELSE "destroyJoint"
      /\ UNCHANGED <<next, geometries, joints, callVars, lifeVars, steps, thread>>
  BY DEF DestroyBody
<1> HIDE DEF b
<1>4. gone = 0 /\ gone' = 0 /\ Gone = {} /\ Gone' = {} /\ \A n \in Items : Recorded(n)' = Recorded(n)
  <2>1. gone = 0 /\ gone' = 0
    BY <1>2, <1>3 DEF CallAt
  <2> QED BY <1>2, <1>3, <2>1 DEF Recorded, Gone
<1>5. TypeOK'
  <2>1. \A g \in DOMAIN odeGeoms' : odeGeoms'[g] \in odeBodies' \cup {Null, Orphaned}
    BY <1>1 DEF BodyGone, TypeOK
  <2>2. \A j \in DOMAIN odeJoints' : odeJoints'[j] \in {<<>>} \cup (odeBodies' \X odeBodies')
    <3> TAKE j \in DOMAIN odeJoints'
    <3>1. CASE odeJoints'[j] = <<>>
      BY <3>1
    <3>2. CASE odeJoints'[j] # <<>>
      <4>1. /\ odeJoints'[j] = odeJoints[j] /\ j \in DOMAIN odeJoints
            /\ b \notin {odeJoints[j][1], odeJoints[j][2]}
        BY <1>1, <3>2 DEF BodyGone
      <4>2. odeJoints[j] \in odeBodies \X odeBodies
        BY <3>2, <4>1 DEF TypeOK
      <4>3. odeJoints[j] = <<odeJoints[j][1], odeJoints[j][2]>>
            /\ {odeJoints[j][1], odeJoints[j][2]} \subseteq odeBodies'
        BY <1>1, <4>1, <4>2 DEF BodyGone
      <4> QED BY <4>1, <4>3
    <3> QED BY <3>1, <3>2
  <2>3. odeBodies' \subseteq Handles
    BY <1>1 DEF BodyGone, TypeOK
  <2> QED BY <1>1, <1>3, <2>1, <2>2, <2>3 DEF BodyGone, TypeOK, AfterJoints
<1>6. HandlesUsed' /\ BodiesNamed' /\ GeometriesNamed'
  BY <1>1, <1>2, <1>3 DEF BodyGone, HandlesUsed, BodiesNamed, GeometriesNamed
<1>7. JointsNamed'
  BY <1>1, <1>3, <1>4 DEF BodyGone, JointsNamed
<1>8. JointsWithItem'
  <2>1. \A n \in Items : \A j \in Recorded(n) : odeJoints'[j] = <<>> \/ odeJoints'[j][1] = bodies'[n]
    <3> TAKE n \in Items
    <3> TAKE j \in Recorded(n)
    <3>1. j \in DOMAIN odeJoints /\ (odeJoints[j] = <<>> \/ odeJoints[j][1] = bodies[n])
      BY <1>4 DEF JointsNamed, JointsWithItem
    <3>2. CASE n = item
      BY <1>1, <3>1, <3>2 DEF BodyGone, b
    <3>3. CASE n # item
      BY <1>1, <3>1, <3>3 DEF BodyGone
    <3> QED BY <3>2, <3>3
  <2>2. \A n \in Items : joints[n] # <<>> => bodies'[n] # Null \/ (pc' = "destroyJoint" /\ item = n)
    BY <1>1, <1>2, <1>3 DEF BodyGone, JointsWithItem
  <2>3. \A j \in DOMAIN odeJoints : \E n \in Items : j \in Recorded(n)
    BY <1>2 DEF JointsWithItem
  <2> QED BY <1>1, <1>3, <1>4, <2>1, <2>2, <2>3 DEF BodyGone, JointsWithItem
<1>9. CallAt'
  <2>1. joints[item] # <<>> => 0 < Len(joints[item])
    <3>1. joints[item] \in Seq(Handles)
      BY <1>2 DEF TypeOK
    <3> QED BY <3>1, LenProperties, EmptySeq
  <2>2. item' = item /\ joints' = joints /\ geometries' = geometries /\ read' = read
    BY <1>3
  <2>3. pc' = "destroyJoint" => bodies'[item'] = Null /\ gone' < Len(joints'[item'])
    BY <1>1, <1>2, <1>3, <1>4, <2>1, <2>2 DEF BodyGone, AfterJoints
  <2>4. pc' = "destroyGeom" => geometries'[item'] # Null
    BY <1>3, <2>2 DEF AfterJoints
  <2>5. pc' \in {"idle", "destroyGeom", "destroyJoint"}
    BY <1>3 DEF AfterJoints
  <2> QED BY <1>4, <2>2, <2>3, <2>4, <2>5 DEF CallAt
<1> QED BY <1>5, <1>6, <1>7, <1>8, <1>9

(* removeItem is inside the vector of its item. *)
LEMMA VectorIs ==
  ASSUME EngineInv, pc = "destroyJoint"
  PROVE  /\ item \in Items /\ joints[item] \in Seq(Handles) /\ gone \in Nat
         /\ Len(joints[item]) \in Nat /\ DOMAIN joints[item] = 1 .. Len(joints[item])
         /\ gone + 1 \in DOMAIN joints[item] /\ 1 .. gone \subseteq DOMAIN joints[item]
         /\ gone < Len(joints[item])
<1>1. /\ item \in Items /\ joints[item] \in Seq(Handles) /\ gone \in Nat
      /\ gone < Len(joints[item])
  BY DEF EngineInv, TypeOK, CallAt
<1>2. Len(joints[item]) \in Nat /\ DOMAIN joints[item] = 1 .. Len(joints[item])
  BY <1>1, LenProperties
<1> QED BY <1>1, <1>2

(* The joint that is destroyed is one the item has, and no other has. *)
LEMMA NextJointIs ==
  ASSUME EngineInv, pc = "destroyJoint"
  PROVE  LET h == joints[item][gone + 1] IN
            /\ h \in Recorded(item) \ Gone
            /\ \A n \in Items \ {item} : Recorded(n) \cap (Gone \cup {h}) = {}
            /\ \A j \in Recorded(item) : gone + 1 = Len(joints[item]) => j \in Gone \cup {h}
<1> DEFINE s == joints[item]
           h == s[gone + 1]
<1>1. /\ item \in Items /\ gone \in Nat /\ Len(s) \in Nat /\ DOMAIN s = 1 .. Len(s)
      /\ gone + 1 \in DOMAIN s /\ 1 .. gone \subseteq DOMAIN s
  BY VectorIs
<1>2. Gone = {s[k] : k \in 1 .. gone} /\ Gone \subseteq Recorded(item)
  BY <1>1 DEF Gone, Recorded
<1>3. h \in Recorded(item)
  BY <1>1 DEF Recorded
<1>4. h \notin Gone
  <2> SUFFICES ASSUME NEW k \in 1 .. gone, s[k] = s[gone + 1] PROVE FALSE
    BY <1>2
  <2>1. k = gone + 1
    BY <1>1 DEF EngineInv, JointsNamed
  <2> QED BY <1>1, <2>1
<1>5. \A n \in Items \ {item} : Recorded(n) \cap Recorded(item) = {}
  <2> SUFFICES ASSUME NEW n \in Items, n # item,
                      NEW k \in DOMAIN joints[n], NEW l \in DOMAIN joints[item],
                      joints[n][k] = joints[item][l]
               PROVE  FALSE
    BY DEF Recorded
  <2> QED BY <1>1 DEF EngineInv, JointsNamed
<1>6. ASSUME NEW k \in DOMAIN s, gone + 1 = Len(s) PROVE s[k] \in Gone \cup {h}
  <2>1. k \in 1 .. gone \/ k = gone + 1
    BY <1>1, <1>6
  <2> QED BY <1>2, <2>1
<1>7. \A j \in Recorded(item) : \E k \in DOMAIN s : j = s[k]
  BY DEF Recorded
<1> HIDE DEF h
<1>8. \A j \in Recorded(item) : gone + 1 = Len(s) => j \in Gone \cup {h}
  BY <1>6, <1>7
<1>9. \A n \in Items \ {item} : Recorded(n) \cap (Gone \cup {h}) = {}
  BY <1>2, <1>3, <1>5
<1> QED BY <1>3, <1>4, <1>8, <1>9 DEF h

(* A joint of the item is gone from the world, and with the last of them   *)
(* all are gone from the map.                                              *)
LEMMA DestroyJointKeeps ==
  ASSUME EngineInv, DestroyJoint
  PROVE  EngineInv'
<1> USE DEF EngineInv
<1> DEFINE s == joints[item]
           h == s[gone + 1]
<1>1. /\ pc = "destroyJoint" /\ item \in Items /\ bodies[item] = Null /\ s \in Seq(Handles)
      /\ gone \in Nat /\ Len(s) \in Nat /\ gone < Len(s) /\ DOMAIN s = 1 .. Len(s)
  BY VectorIs DEF DestroyJoint, CallAt
<1>2. /\ UNCHANGED <<odeBodies, odeGeoms, next, bodies, geometries, item, other, joint, read,
                     lifeVars, steps, thread>>
      /\ DOMAIN odeJoints' = DOMAIN odeJoints \ {h}
      /\ \A j \in DOMAIN odeJoints \ {h} : odeJoints'[j] = odeJoints[j]
  BY DEF DestroyJoint, Without
<1>3. /\ h \in Recorded(item) \ Gone
      /\ \A n \in Items \ {item} : Recorded(n) \cap (Gone \cup {h}) = {}
      /\ \A j \in Recorded(item) : gone + 1 = Len(s) => j \in Gone \cup {h}
  BY <1>1, NextJointIs
<1>4. Gone = {s[k] : k \in 1 .. gone}
  BY <1>1 DEF Gone
<1>5. HandlesUsed' /\ BodiesNamed' /\ GeometriesNamed'
  BY <1>2 DEF HandlesUsed, BodiesNamed, GeometriesNamed
<1>6. \A j \in DOMAIN odeJoints' : odeJoints'[j] \in {<<>>} \cup (odeBodies' \X odeBodies')
  BY <1>2 DEF TypeOK
<1>7. CASE gone + 1 # Len(s)
  <2>1. gone' = gone + 1 /\ joints' = joints /\ pc' = pc
    BY <1>7 DEF DestroyJoint, LastJoint
  <2>2. \A n \in Items : Recorded(n)' = Recorded(n)
    BY <2>1 DEF Recorded
  <2>3. Gone' = Gone \cup {h}
    <3>1. Gone' = {s[k] : k \in 1 .. gone + 1}
      BY <1>1, <1>2, <2>1 DEF Gone
    <3>2. 1 .. gone + 1 = (1 .. gone) \cup {gone + 1}
      BY <1>1
    <3> QED BY <1>4, <3>1, <3>2
  <2> HIDE DEF h
  <2>4. TypeOK'
    BY <1>1, <1>2, <1>6, <2>1 DEF TypeOK
  <2>5. JointsNamed'
    BY <1>2, <2>1, <2>2, <2>3 DEF JointsNamed
  <2>6. JointsWithItem'
    <3>1. \A n \in Items : \A j \in Recorded(n)' \ Gone' : odeJoints'[j] = <<>> \/ odeJoints'[j][1] = bodies'[n]
      <4>1. \A n \in Items : \A j \in Recorded(n)' \ Gone' : j \in Recorded(n) \ Gone /\ j \in DOMAIN odeJoints \ {h}
        BY <2>2, <2>3 DEF JointsNamed
      <4> QED BY <1>2, <4>1 DEF JointsWithItem
    <3>2. \A n \in Items : joints'[n] # <<>> => bodies'[n] # Null \/ (pc' = "destroyJoint" /\ item' = n)
      BY <1>2, <2>1 DEF JointsWithItem
    <3>3. \A j \in DOMAIN odeJoints' : \E n \in Items : j \in Recorded(n)'
      BY <1>1, <1>2, <2>2 DEF JointsWithItem
    <3> QED BY <3>1, <3>2, <3>3 DEF JointsWithItem
  <2>7. CallAt'
    <3>1. gone' < Len(joints'[item'])
      BY <1>1, <1>2, <1>7, <2>1
    <3>2. Gone' \cap DOMAIN odeJoints' = {}
      BY <1>2, <2>3 DEF CallAt
    <3> QED BY <1>1, <1>2, <2>1, <3>1, <3>2 DEF CallAt
  <2> QED BY <1>5, <2>4, <2>5, <2>6, <2>7
<1>8. CASE gone + 1 = Len(s)
  <2>1. gone' = 0 /\ joints' = [joints EXCEPT ![item] = <<>>] /\ pc' = AfterJoints
    BY <1>8 DEF DestroyJoint, LastJoint
  <2>2. /\ joints' \in [Items -> Seq(Handles)] /\ joints'[item] = <<>>
        /\ \A n \in Items \ {item} : joints'[n] = joints[n]
    BY <1>1, <2>1, EmptySeq DEF TypeOK
  <2>3. pc' \in {"idle", "destroyGeom"} /\ (pc' = "destroyGeom" => geometries[item] # Null)
    BY <2>1 DEF AfterJoints
  <2>4. /\ Gone' = {} /\ Recorded(item)' = {}
        /\ \A n \in Items \ {item} : Recorded(n)' = Recorded(n)
    BY <1>2, <2>2, <2>3 DEF Gone, Recorded
  <2> HIDE DEF h
  <2>5. TypeOK'
    BY <1>2, <1>6, <2>1, <2>2, <2>3 DEF TypeOK
  <2>6. JointsNamed'
    <3>1. \A n \in Items : Recorded(n)' \ Gone' \subseteq DOMAIN odeJoints'
      <4> SUFFICES ASSUME NEW n \in Items, NEW j \in Recorded(n)' PROVE j \in DOMAIN odeJoints'
        OBVIOUS
      <4>1. n # item /\ j \in Recorded(n)
        BY <1>2, <2>4
      <4>2. j \notin Gone /\ j # h
        BY <1>3, <4>1
      <4> QED BY <1>2, <4>1, <4>2 DEF JointsNamed
    <3>2. \A n \in Items : \A k \in DOMAIN joints'[n] : k \in DOMAIN joints[n] /\ joints'[n][k] = joints[n][k]
      BY <2>2
    <3> QED BY <3>1, <3>2 DEF JointsNamed
  <2>7. JointsWithItem'
    <3>1. \A n \in Items : \A j \in Recorded(n)' \ Gone' : odeJoints'[j] = <<>> \/ odeJoints'[j][1] = bodies'[n]
      <4> SUFFICES ASSUME NEW n \in Items, NEW j \in Recorded(n)'
                   PROVE  odeJoints'[j] = <<>> \/ odeJoints'[j][1] = bodies'[n]
        OBVIOUS
      <4>1. n # item /\ j \in Recorded(n)
        BY <1>2, <2>4
      <4>2. j \notin Gone /\ j # h
        BY <1>3, <4>1
      <4>3. j \in DOMAIN odeJoints \ {h}
        BY <4>1, <4>2 DEF JointsNamed
      <4> QED BY <1>2, <4>1, <4>2, <4>3 DEF JointsWithItem
    <3>2. \A n \in Items : joints'[n] # <<>> => bodies'[n] # Null
      BY <1>2, <2>2 DEF JointsWithItem
    <3>3. ASSUME NEW j \in DOMAIN odeJoints' PROVE \E n \in Items : j \in Recorded(n)'
      <4>1. PICK n \in Items : j \in Recorded(n)
        BY <1>1, <1>2, <3>3 DEF JointsWithItem
      <4>2. j \notin Gone /\ j # h
        BY <1>2, <3>3 DEF CallAt
      <4>3. n # item
        BY <1>3, <1>8, <4>1, <4>2
      <4> QED BY <2>4, <4>1, <4>3
    <3> QED BY <3>1, <3>2, <3>3 DEF JointsWithItem
  <2>8. CallAt'
    BY <1>2, <2>1, <2>3, <2>4 DEF CallAt
  <2> QED BY <1>5, <2>5, <2>6, <2>7, <2>8
<1> QED BY <1>7, <1>8

LEMMA DestroyGeomKeeps ==
  ASSUME EngineInv, DestroyGeom
  PROVE  EngineInv'
<1> USE DEF EngineInv
<1>1. /\ pc = "destroyGeom" /\ item \in Items /\ geometries[item] # Null /\ pc' = "idle"
      /\ geometries' = [geometries EXCEPT ![item] = Null]
      /\ UNCHANGED <<odeBodies, odeJoints, next, bodies, joints, callVars, lifeVars, steps, thread>>
  BY DEF DestroyGeom, CallAt, TypeOK
<1>2. /\ DOMAIN odeGeoms' = DOMAIN odeGeoms \ {geometries[item]}
      /\ \A g \in DOMAIN odeGeoms' : odeGeoms'[g] = odeGeoms[g]
  BY DEF DestroyGeom, Without
<1>3. /\ \A n \in Items : geometries'[n] = IF n = item THEN Null ELSE geometries[n]
      /\ geometries' \in [Items -> Handles \cup {Null}]
  BY <1>1 DEF TypeOK
<1>4. \A n \in Items : Recorded(n)' = Recorded(n)
  BY <1>1 DEF Recorded
<1>5. TypeOK'
  <2>1. \A g \in DOMAIN odeGeoms' : odeGeoms'[g] \in odeBodies' \cup {Null, Orphaned}
    BY <1>1, <1>2 DEF TypeOK
  <2> QED BY <1>1, <1>2, <1>3, <2>1 DEF TypeOK
<1>6. HandlesUsed' /\ BodiesNamed' /\ JointsNamed' /\ JointsWithItem' /\ CallAt'
  BY <1>1, <1>2, <1>4 DEF HandlesUsed, BodiesNamed, JointsNamed, JointsWithItem, CallAt, Gone
<1>7. GeometriesNamed'
  BY <1>1, <1>2, <1>3 DEF GeometriesNamed
<1> QED BY <1>5, <1>6, <1>7

-----------------------------------------------------------------------------
(* EngineInv holds *)

LEMMA EngineNext == EngineInv /\ [Next]_vars => EngineInv'
<1> SUFFICES ASSUME EngineInv, [Next]_vars PROVE EngineInv'
  OBVIOUS
<1>1. CASE UNCHANGED vars
  <2>1. TypeOK' /\ CallAt'
    BY <1>1 DEF vars, EngineInv, TypeOK, CallAt, Recorded, Gone
  <2> QED BY <1>1, <2>1, NothingTouched DEF vars
<1>2. CASE Call
  <2>1. ASSUME NEW n \in Items, AddItem(n) \/ AddStaticItem(n) \/ Remove(n) \/ LookUp(n)
        PROVE  EngineInv'
    BY <2>1, AddItemKeeps, AddStaticItemKeeps, ReadingKeeps
  <2>2. ASSUME NEW m \in Items, NEW n \in Items, CreateJoint(m, n) PROVE EngineInv'
    BY <2>2, CreateJointKeeps
  <2>3. CASE DoPhysics \/ StartPhysics \/ Delete
    BY <2>3, PhysicsKeeps
  <2> QED BY <1>2, <2>1, <2>2, <2>3 DEF Call
<1>3. CASE Continue
  <2>1. item \in Items
    BY DEF EngineInv, TypeOK
  <2>2. CASE CopyCoordinate \/ ReturnPosition
    BY <2>1, <2>2, ReadingKeeps
  <2>3. CASE AttachNull \/ DestroyWorld
    BY <2>3, PhysicsKeeps
  <2> QED BY <1>3, <2>2, <2>3, AttachKeeps, DestroyBodyKeeps, DestroyJointKeeps, DestroyGeomKeeps
          DEF Continue
<1>4. CASE PhysicsThread
  BY <1>4, PhysicsKeeps DEF PhysicsThread
<1> QED BY <1>1, <1>2, <1>3, <1>4 DEF Next

THEOREM EngineInvariant == Spec => []EngineInv
<1> QED BY EngineInit, EngineNext, PTL DEF Spec

(* Every record is a place in the joints of an item. *)
LEMMA RecordsAre ==
  /\ \A r \in Records : r[1] \in Items /\ r[2] \in DOMAIN joints[r[1]] /\ r = <<r[1], r[2]>>
  /\ \A n \in Items : \A k \in DOMAIN joints[n] : <<n, k>> \in Records
<1>1. ASSUME NEW r \in Records
      PROVE  r[1] \in Items /\ r[2] \in DOMAIN joints[r[1]] /\ r = <<r[1], r[2]>>
  <2>1. PICK n \in Items : r \in {n} \X DOMAIN joints[n]
    BY DEF Records
  <2> QED BY <2>1
<1>2. ASSUME NEW n \in Items, NEW k \in DOMAIN joints[n]
      PROVE  <<n, k>> \in Records
  <2>1. <<n, k>> \in {n} \X DOMAIN joints[n]
    OBVIOUS
  <2> QED BY <2>1 DEF Records
<1> QED BY <1>1, <1>2

(* What the maps name exists in the ODE world, whatever was removed before *)
(* and in whatever order, and no joint is recorded twice (removeItem).     *)
THEOREM HandlesStayLive == Spec => []HandlesLive
<1>1. EngineInv => HandlesLive
  <2> SUFFICES ASSUME EngineInv PROVE HandlesLive
    OBVIOUS
  <2> USE DEF EngineInv
  <2>1. ASSUME NEW r \in Records PROVE joints[r[1]][r[2]] \in DOMAIN odeJoints \/ Destroyed(r)
    <3>1. r[1] \in Items /\ r[2] \in DOMAIN joints[r[1]] /\ joints[r[1]][r[2]] \in Recorded(r[1])
      BY RecordsAre DEF Recorded
    <3>2. CASE joints[r[1]][r[2]] \notin Gone
      BY <3>1, <3>2 DEF JointsNamed
    <3>3. CASE joints[r[1]][r[2]] \in Gone
      <4>1. PICK k \in 1 .. gone : pc = "destroyJoint" /\ joints[r[1]][r[2]] = joints[item][k]
        BY <3>3 DEF Gone
      <4>2. item \in Items /\ k \in DOMAIN joints[item]
        BY <4>1, VectorIs
      <4>3. r[1] = item /\ r[2] = k
        BY <3>1, <4>1, <4>2 DEF JointsNamed
      <4> QED BY <4>1, <4>3 DEF Destroyed
    <3> QED BY <3>2, <3>3
  <2>2. ASSUME NEW r \in Records, NEW t \in Records, joints[r[1]][r[2]] = joints[t[1]][t[2]]
        PROVE  r = t
    <3>1. r[1] = t[1] /\ r[2] = t[2]
      BY <2>2, RecordsAre DEF JointsNamed
    <3>2. r = <<r[1], r[2]>> /\ t = <<t[1], t[2]>>
      BY RecordsAre
    <3> QED BY <3>1, <3>2
  <2>3. /\ \A n \in Items : bodies[n] # Null => bodies[n] \in odeBodies
        /\ \A n \in Items : geometries[n] # Null => geometries[n] \in DOMAIN odeGeoms
    BY DEF BodiesNamed, GeometriesNamed
  <2> QED BY <2>1, <2>2, <2>3 DEF HandlesLive
<1> QED BY <1>1, EngineInvariant, PTL

(* No joint outlives the record it can be destroyed by, nor the item the   *)
(* record belongs to by more than the call that removes it.                *)
THEOREM JointsStayReachable == Spec => []JointsReachable
<1>1. EngineInv => JointsReachable
  <2> SUFFICES ASSUME EngineInv, NEW j \in DOMAIN odeJoints, ~(pc = "attach" /\ j = joint)
               PROVE  \E r \in Records :
                         /\ joints[r[1]][r[2]] = j
                         /\ bodies[r[1]] # Null \/ (pc = "destroyJoint" /\ item = r[1])
    BY DEF JointsReachable
  <2>1. PICK n \in Items : j \in Recorded(n)
    BY DEF EngineInv, JointsWithItem
  <2>2. PICK k \in DOMAIN joints[n] : joints[n][k] = j
    BY <2>1 DEF Recorded
  <2>3. joints[n] # <<>>
    BY <2>2
  <2>4. bodies[n] # Null \/ (pc = "destroyJoint" /\ item = n)
    BY <2>3 DEF EngineInv, JointsWithItem
  <2>5. <<n, k>> \in Records /\ <<n, k>>[1] = n /\ <<n, k>>[2] = k
    BY RecordsAre
  <2> QED BY <2>2, <2>4, <2>5
<1> QED BY <1>1, EngineInvariant, PTL

-----------------------------------------------------------------------------
(* The engine is a scene *)

Static == {n \in Items : geometries[n] # Null}

Linked(m, n) == \E j \in DOMAIN odeJoints : odeJoints[j] = <<bodies[m], bodies[n]>>

Links == {l \in Dynamic \X Dynamic :
             \E j \in DOMAIN odeJoints : odeJoints[j] = <<bodies[l[1]], bodies[l[2]]>>}

LEMMA LinksAre == Links = {l \in Dynamic \X Dynamic : Linked(l[1], l[2])}
BY DEF Links, Linked

(* Links that are the same between the same items are the same links. *)
LEMMA LinksStay ==
  ASSUME NEW D, Dynamic' = Dynamic \cup D,
         \A m, n \in Dynamic : Linked(m, n)' <=> Linked(m, n),
         \A m, n \in Dynamic' : m \in D \/ n \in D => ~Linked(m, n)' \/ {m, n} \subseteq Dynamic
  PROVE  Links' = Links
<1>1. Links' = {l \in Dynamic' \X Dynamic' : Linked(l[1], l[2])'}
  BY DEF Links, Linked
<1> QED BY <1>1, LinksAre

LEMMA SameScene ==
  ASSUME UNCHANGED <<odeJoints, bodies, geometries>>
  PROVE  Dynamic' = Dynamic /\ Static' = Static /\ Links' = Links
BY DEF Dynamic, Static, Links

LEMMA AddItemAdds ==
  ASSUME EngineInv, NEW n \in Items, AddItem(n)
  PROVE  n \notin Dynamic /\ Dynamic' = Dynamic \cup {n} /\ Static' = Static /\ Links' = Links
<1> USE DEF EngineInv
<1>1. /\ next \in Nat /\ next \in Handles /\ next # Null /\ next \notin odeBodies /\ bodies[n] = Null
      /\ UNCHANGED <<odeJoints, geometries>>
      /\ \A m \in Items : bodies'[m] = IF m = n THEN next ELSE bodies[m]
  BY PhysicsAssumption DEF AddItem, TypeOK, HandlesUsed
<1>2. n \notin Dynamic /\ Dynamic' = Dynamic \cup {n} /\ Static' = Static
  BY <1>1 DEF Dynamic, Static
<1>3. \A m, l \in Dynamic : Linked(m, l)' <=> Linked(m, l)
  BY <1>1, <1>2 DEF Linked, Dynamic
<1>4. ASSUME NEW m \in Dynamic', NEW l \in Dynamic', m = n \/ l = n
      PROVE  ~Linked(m, l)'
  <2>1. m \in Items /\ l \in Items /\ (bodies'[m] = next \/ bodies'[l] = next)
    BY <1>1, <1>4 DEF Dynamic
  <2>2. ASSUME NEW j \in DOMAIN odeJoints, odeJoints[j] = <<bodies'[m], bodies'[l]>>
        PROVE  FALSE
    <3>1. odeJoints[j] # <<>>
      BY <2>2
    <3>2. odeJoints[j] \in odeBodies \X odeBodies
      BY <3>1 DEF TypeOK
    <3>3. odeJoints[j][1] = bodies'[m] /\ odeJoints[j][2] = bodies'[l]
      BY <2>2
    <3>4. bodies'[m] \in odeBodies /\ bodies'[l] \in odeBodies
      BY <3>2, <3>3, PairIs
    <3> QED BY <1>1, <2>1, <3>4
  <2>3. Linked(m, l)' => \E j \in DOMAIN odeJoints : odeJoints[j] = <<bodies'[m], bodies'[l]>>
    BY <1>1 DEF Linked
  <2> HIDE DEF EngineInv
  <2> QED BY <2>2, <2>3
<1> QED BY <1>2, <1>3, <1>4, LinksStay

LEMMA AddStaticItemAdds ==
  ASSUME EngineInv, NEW n \in Items, AddStaticItem(n)
  PROVE  n \notin Dynamic /\ Dynamic' = Dynamic /\ Static' = Static \cup {n} /\ Links' = Links
<1> USE DEF EngineInv
<1>1. /\ next \in Handles /\ next # Null /\ bodies[n] = Null /\ UNCHANGED <<odeJoints, bodies>>
      /\ \A m \in Items : geometries'[m] = IF m = n THEN next ELSE geometries[m]
  BY PhysicsAssumption DEF AddStaticItem, TypeOK
<1> QED BY <1>1 DEF Dynamic, Static, Links

LEMMA CreateJointStutters ==
  ASSUME EngineInv, NEW m \in Items, NEW n \in Items, CreateJoint(m, n)
  PROVE  Dynamic' = Dynamic /\ Static' = Static /\ Links' = Links
<1> USE DEF EngineInv
<1>1. UNCHANGED <<bodies, geometries>> /\ Dynamic' = Dynamic /\ Static' = Static
  BY DEF CreateJoint, Dynamic, Static
<1>2. ASSUME NEW k \in Dynamic, NEW l \in Dynamic
      PROVE  Linked(k, l)' <=> Linked(k, l)
  <2>1. CASE UNCHANGED odeJoints
    BY <1>1, <2>1 DEF Linked
  <2>2. CASE odeJoints' = With(odeJoints, next, <<>>)
    <3>1. next \notin DOMAIN odeJoints
      BY DEF HandlesUsed, TypeOK
    <3>2. /\ DOMAIN odeJoints' = DOMAIN odeJoints \cup {next} /\ odeJoints'[next] = <<>>
          /\ \A j \in DOMAIN odeJoints : odeJoints'[j] = odeJoints[j]
      BY <2>2, <3>1 DEF With
    <3> DEFINE p == <<bodies[k], bodies[l]>>
    <3>3. p # <<>>
      OBVIOUS
    <3>4. /\ Linked(k, l) <=> \E j \in DOMAIN odeJoints : odeJoints[j] = p
          /\ Linked(k, l)' <=> \E j \in DOMAIN odeJoints' : odeJoints'[j] = p
      BY <1>1 DEF Linked
    <3> HIDE DEF EngineInv, p
    <3> QED BY <3>2, <3>3, <3>4
  <2> QED BY <2>1, <2>2 DEF CreateJoint
<1> QED BY <1>1, <1>2, LinksStay

LEMMA AttachConnects ==
  ASSUME EngineInv, Attach
  PROVE  /\ item # other /\ {item, other} \subseteq Dynamic
         /\ Dynamic' = Dynamic /\ Static' = Static /\ Links' = Links \cup {<<item, other>>}
<1> USE DEF EngineInv
<1>1. /\ joint \in DOMAIN odeJoints /\ odeJoints[joint] = <<>> /\ item # other
      /\ item \in Dynamic /\ other \in Dynamic
  BY DEF Attach, CallAt, TypeOK, Dynamic
<1>2. /\ UNCHANGED <<bodies, geometries>> /\ Dynamic' = Dynamic /\ Static' = Static
      /\ odeJoints' = With(odeJoints, joint, <<bodies[item], bodies[other]>>)
  BY DEF Attach, Dynamic, Static
<1>3. /\ DOMAIN odeJoints' = DOMAIN odeJoints
      /\ odeJoints'[joint] = <<bodies[item], bodies[other]>>
      /\ \A j \in DOMAIN odeJoints \ {joint} : odeJoints'[j] = odeJoints[j]
  BY <1>1, <1>2 DEF With
<1>4. ASSUME NEW m \in Dynamic, NEW n \in Dynamic
      PROVE  Linked(m, n)' <=> Linked(m, n) \/ (m = item /\ n = other)
  <2>1. <<bodies[m], bodies[n]>> = <<bodies[item], bodies[other]>> <=> m = item /\ n = other
    BY <1>1 DEF BodiesNamed, Dynamic
  <2>2. <<bodies[m], bodies[n]>> # <<>>
    OBVIOUS
  <2>3. Linked(m, n)' <=> \E j \in DOMAIN odeJoints : odeJoints'[j] = <<bodies[m], bodies[n]>>
    BY <1>2, <1>3 DEF Linked
  <2> HIDE DEF EngineInv
  <2>4. Linked(m, n) => Linked(m, n)'
    BY <1>1, <1>3, <2>2, <2>3 DEF Linked
  <2>5. (m = item /\ n = other) => Linked(m, n)'
    BY <1>1, <1>3, <2>3
  <2>6. Linked(m, n)' => Linked(m, n) \/ (m = item /\ n = other)
    BY <1>3, <2>1, <2>3 DEF Linked
  <2> QED BY <2>4, <2>5, <2>6
<1>5. Links' = {l \in Dynamic \X Dynamic : Linked(l[1], l[2]) \/ (l[1] = item /\ l[2] = other)}
  <2>1. Links' = {l \in Dynamic' \X Dynamic' : Linked(l[1], l[2])'}
    BY DEF Links, Linked
  <2> QED BY <1>2, <1>4, <2>1
<1>6. \A l \in Dynamic \X Dynamic : l[1] = item /\ l[2] = other <=> l = <<item, other>>
  OBVIOUS
<1> QED BY <1>1, <1>2, <1>5, <1>6, LinksAre

LEMMA DestroyBodyRemoves ==
  ASSUME EngineInv, DestroyBody
  PROVE  /\ Dynamic' = Dynamic \ {item} /\ Static' = Static
         /\ Links' = {l \in Links : item \notin {l[1], l[2]}}
<1> USE DEF EngineInv
<1> DEFINE b == bodies[item]
<1>1. BodyGone(b) /\ UNCHANGED geometries
  BY DestroyBodyIs DEF DestroyBody
<1>2. item \in Items /\ b # Null /\ (\A n \in Items : bodies[n] = b => n = item)
  BY DEF DestroyBody, CallAt, BodiesNamed, TypeOK
<1> HIDE DEF b
<1>3. Dynamic' = Dynamic \ {item} /\ Static' = Static
  BY <1>1 DEF BodyGone, Dynamic, Static
<1>4. ASSUME NEW m \in Dynamic', NEW n \in Dynamic'
      PROVE  Linked(m, n)' <=> Linked(m, n)
  <2>1. /\ m \in Items /\ n \in Items /\ bodies'[m] = bodies[m] /\ bodies'[n] = bodies[n]
        /\ b # bodies[m] /\ b # bodies[n]
    BY <1>1, <1>2, <1>3 DEF BodyGone, Dynamic
  <2>2. ASSUME NEW j \in DOMAIN odeJoints
        PROVE  odeJoints'[j] = <<bodies[m], bodies[n]>> <=> odeJoints[j] = <<bodies[m], bodies[n]>>
    <3>1. CASE odeJoints[j] = <<bodies[m], bodies[n]>>
      <4>1. odeJoints[j] # <<>> /\ odeJoints[j][1] = bodies[m] /\ odeJoints[j][2] = bodies[n]
        BY <3>1
      <4> QED BY <1>1, <2>1, <3>1, <4>1 DEF BodyGone
    <3>2. CASE odeJoints[j] # <<bodies[m], bodies[n]>>
      <4>1. <<bodies[m], bodies[n]>> # <<>>
        OBVIOUS
      <4> QED BY <1>1, <3>2, <4>1 DEF BodyGone
    <3> QED BY <3>1, <3>2
  <2>3. DOMAIN odeJoints' = DOMAIN odeJoints
    BY <1>1 DEF BodyGone
  <2> HIDE DEF EngineInv
  <2> QED BY <2>1, <2>2, <2>3 DEF Linked
<1>5. Links' = {l \in Dynamic' \X Dynamic' : Linked(l[1], l[2])}
  <2>1. Links' = {l \in Dynamic' \X Dynamic' : Linked(l[1], l[2])'}
    BY DEF Links, Linked
  <2> QED BY <1>4, <2>1
<1>6. \A l : l \in Dynamic' \X Dynamic' <=> l \in Dynamic \X Dynamic /\ item \notin {l[1], l[2]}
  BY <1>3
<1> QED BY <1>3, <1>5, <1>6, LinksAre

(* A joint that is destroyed connects nothing any more. *)
LEMMA DestroyJointStutters ==
  ASSUME EngineInv, DestroyJoint
  PROVE  Dynamic' = Dynamic /\ Static' = Static /\ Links' = Links
<1> USE DEF EngineInv
<1> DEFINE h == joints[item][gone + 1]
<1>1. /\ UNCHANGED <<bodies, geometries>> /\ Dynamic' = Dynamic /\ Static' = Static
      /\ odeJoints' = Without(odeJoints, h)
  BY DEF DestroyJoint, Dynamic, Static
<1>2. h \in DOMAIN odeJoints /\ odeJoints[h] = <<>>
  <2>1. item \in Items /\ bodies[item] = Null /\ h \in Recorded(item) \ Gone
    BY NextJointIs DEF DestroyJoint, CallAt, TypeOK
  <2>2. h \in DOMAIN odeJoints /\ (odeJoints[h] = <<>> \/ odeJoints[h][1] = Null)
    BY <2>1 DEF JointsNamed, JointsWithItem
  <2>3. odeJoints[h] \in odeBodies \X odeBodies => odeJoints[h][1] # Null
    BY DEF TypeOK
  <2> QED BY <2>2, <2>3 DEF TypeOK
<1> HIDE DEF h
<1>3. /\ DOMAIN odeJoints' = DOMAIN odeJoints \ {h}
      /\ \A j \in DOMAIN odeJoints \ {h} : odeJoints'[j] = odeJoints[j]
  BY <1>1 DEF Without
<1>4. ASSUME NEW k \in Dynamic, NEW l \in Dynamic
      PROVE  Linked(k, l)' <=> Linked(k, l)
  <2> DEFINE p == <<bodies[k], bodies[l]>>
  <2>1. p # <<>>
    OBVIOUS
  <2>2. /\ Linked(k, l) <=> \E j \in DOMAIN odeJoints : odeJoints[j] = p
        /\ Linked(k, l)' <=> \E j \in DOMAIN odeJoints' : odeJoints'[j] = p
    BY <1>1 DEF Linked
  <2> HIDE DEF EngineInv, p
  <2> QED BY <1>2, <1>3, <2>1, <2>2
<1> QED BY <1>1, <1>4, LinksStay

LEMMA DestroyGeomRemoves ==
  ASSUME EngineInv, DestroyGeom
  PROVE  Dynamic' = Dynamic /\ Static' = Static \ {item} /\ Links' = Links
<1>1. item \in Items /\ UNCHANGED <<odeJoints, bodies>> /\ geometries' = [geometries EXCEPT ![item] = Null]
      /\ geometries \in [Items -> Handles \cup {Null}]
  BY DEF EngineInv, DestroyGeom, TypeOK
<1> QED BY <1>1 DEF Dynamic, Static, Links

-----------------------------------------------------------------------------
(* The users of the engine may take it for a scene: items appear and go,   *)
(* and an item that goes takes its links along, though its joints are      *)
(* destroyed one by one, each under a lock of its own.                     *)
THEOREM EngineIsScene == Spec => ImplementsScene
<1> USE DEF Scene!Add, Scene!Connect, Scene!RemoveDynamic, Scene!RemoveStatic, Scene!Next
<1>1. Init => Scene!Init
  BY DEF Init, Scene!Init, Dynamic
<1>2. EngineInv /\ [Next]_vars => [Scene!Next]_Scene!vars
  <2> SUFFICES ASSUME EngineInv, [Next]_vars
               PROVE  \/ Scene!Next
                      \/ Dynamic' = Dynamic /\ Static' = Static /\ Links' = Links
    BY DEF Scene!vars, Static, Links
  <2>1. item \in Items /\ other \in Items
    BY DEF EngineInv, TypeOK
  <2>2. CASE UNCHANGED <<odeJoints, bodies, geometries>>
    BY <2>2, SameScene
  <2>3. ASSUME NEW n \in Items, AddItem(n) PROVE Scene!Next
    BY <2>3, AddItemAdds DEF Static, Links
  <2>4. ASSUME NEW n \in Items, AddStaticItem(n) PROVE Scene!Next
    BY <2>4, AddStaticItemAdds DEF Static, Links
  <2>5. CASE Attach
    BY <2>1, <2>5, AttachConnects DEF Static, Links
  <2>6. CASE DestroyBody
    BY <2>1, <2>6, DestroyBodyRemoves DEF Static, Links
  <2>7. CASE DestroyGeom
    BY <2>1, <2>7, DestroyGeomRemoves DEF Static, Links
  <2>8. CASE Call
    <3>1. CASE \E n \in Items : AddItem(n) \/ AddStaticItem(n)
      BY <2>3, <2>4, <3>1
    <3>2. CASE \E m, n \in Items : CreateJoint(m, n)
      BY <3>2, CreateJointStutters
    <3>3. CASE \/ \E n \in Items : Remove(n) \/ LookUp(n)
               \/ DoPhysics \/ StartPhysics \/ Delete
      BY <2>2, <3>3 DEF Remove, LookUp, DoPhysics, StartPhysics, Delete
    <3> QED BY <2>8, <3>1, <3>2, <3>3 DEF Call
  <2>9. CASE Continue
    <3>1. CASE AttachNull \/ CopyCoordinate \/ ReturnPosition \/ DestroyWorld
      BY <2>2, <3>1 DEF AttachNull, CopyCoordinate, ReturnPosition, DestroyWorld
    <3> QED BY <2>5, <2>6, <2>7, <2>9, <3>1, DestroyJointStutters DEF Continue
  <2>10. CASE PhysicsThread
    BY <2>2, <2>10 DEF PhysicsThread, CheckRunning, Collide, QuickStep
  <2> QED BY <2>2, <2>8, <2>9, <2>10 DEF Next, vars
<1> QED BY <1>1, <1>2, EngineInvariant, PTL DEF Spec, ImplementsScene, Scene!Spec
=============================================================================
