--------------------------- MODULE PhysicsEngine ---------------------------
(***************************************************************************)
(* PhysicsEngine: the program adds, connects, reads and removes items      *)
(* while the physics thread collides and steps the same ODE world.         *)
(*                                                                         *)
(* What is done between engineLock.writeLock() and unlock() is one step:   *)
(* the two threads exclude each other there.  The program's maps (bodies,  *)
(* geometries, joints) are its own; they go with the step that changes the *)
(* world.  What is read after an unlock is a step of its own.              *)
(*                                                                         *)
(* ODE: dBodyDestroy leaves the body's geometry in the space, without a    *)
(* body, and its joints in the world, attached to nothing.                 *)
(***************************************************************************)
EXTENDS Integers, Sequences

CONSTANTS
    Items,          \* the names
    JointTypes,     \* the joint types that are asked for
    MaxHandles,     \* bound: ODE objects ever created
    MaxSteps        \* bound: how many steps of the world are told apart

ASSUME PhysicsAssumption ==
    /\ JointTypes \subseteq {"ball", "slider", "fixed", "hinge", "universal", "motor"}
    /\ MaxHandles \in Nat /\ MaxSteps \in Nat

VARIABLES
    world,      \* does the ODE world exist?
    odeBodies,  \* the bodies in it
    odeGeoms,   \* the geometries in its space: the body each belongs to
    odeJoints,  \* the joints in it: the bodies each is attached to
    next,       \* the next ODE object created
    steps,      \* how often the world was stepped: where the bodies are
    bodies,     \* map<string,dBodyID>
    geometries, \* map<string,dGeomID>
    joints,     \* map<string,vector<dJointID>>
    running,    \* is the engine not being deleted?
    threaded,   \* was the physics thread started?
    thread,     \* where the physics thread is
    pc,         \* where the program is
    item,       \* the item a call is about
    other,      \* the second one of connectItems
    joint,      \* its jointId
    gone,       \* removeItem: how many of the item's joints it has destroyed
    read        \* getPosition: the coordinates copied so far

odeVars == <<odeBodies, odeGeoms, odeJoints, next>>
mapVars == <<bodies, geometries, joints>>
callVars == <<item, other, joint, gone, read>>
lifeVars == <<world, running, threaded>>
vars == <<odeVars, mapVars, callVars, lifeVars, steps, thread, pc>>

Null == 0       \* no handle
Orphaned == -1  \* no body any more (0 in ODE, too)

(* Operators named Faulty..., Self..., Stuck... or Hasty... are what a plausible   *)
(* bug would make of the definition they precede; each breaks a property   *)
(* of the runs.                                                            *)

Init ==
    /\ world = TRUE /\ running = TRUE /\ threaded = FALSE
    /\ odeBodies = {} /\ odeGeoms = <<>> /\ odeJoints = <<>> /\ next = 1
    /\ steps = 0
    /\ bodies = [n \in Items |-> Null]
    /\ geometries = [n \in Items |-> Null]
    /\ joints = [n \in Items |-> <<>>]
    /\ thread = "none" /\ pc = "idle"
    /\ item \in Items /\ other = item
    /\ joint = Null /\ gone = 0 /\ read = <<>>

With(f, x, y) == [z \in DOMAIN f \cup {x} |-> IF z = x THEN y ELSE f[z]]
Without(f, x) == [z \in DOMAIN f \ {x} |-> f[z]]

-----------------------------------------------------------------------------
(* addItem, addStaticItem: only bodies are checked for the name. *)

AddItem(n) ==
    /\ pc = "idle" /\ bodies[n] = Null /\ next + 1 <= MaxHandles
    /\ odeBodies' = odeBodies \cup {next}
    /\ odeGeoms' = With(odeGeoms, next + 1, next)
    /\ next' = next + 2
    /\ bodies' = [bodies EXCEPT ![n] = next]
    /\ UNCHANGED <<odeJoints, geometries, joints, callVars, lifeVars, steps, thread, pc>>

AddStaticItem(n) ==
    /\ pc = "idle" /\ bodies[n] = Null /\ next <= MaxHandles
    /\ odeGeoms' = With(odeGeoms, next, Null)
    /\ next' = next + 1
    /\ geometries' = [geometries EXCEPT ![n] = next]
    /\ UNCHANGED <<odeBodies, odeJoints, bodies, joints, callVars, lifeVars, steps, thread, pc>>

-----------------------------------------------------------------------------
(* connectItems: the joint is created under one write lock and attached    *)
(* under the next.                                                         *)

CreateJoint(m, n) ==
    /\ pc = "idle" /\ m # n /\ bodies[m] # Null /\ bodies[n] # Null
    /\ item' = m /\ other' = n
    /\ \/ /\ JointTypes \ {"motor"} # {} /\ next <= MaxHandles
          /\ joint' = next
          /\ odeJoints' = With(odeJoints, next, <<>>)
          /\ next' = next + 1
       \/ /\ "motor" \in JointTypes     \* accepted, but nothing is created
          /\ joint' = Null
          /\ UNCHANGED <<odeJoints, next>>
    /\ pc' = "attach"
    /\ UNCHANGED <<odeBodies, odeGeoms, mapVars, gone, read, lifeVars, steps, thread>>

FaultyAttach ==
    /\ pc = "attach" /\ joint # Null
    /\ odeJoints' = With(odeJoints, joint, <<bodies[item], bodies[other]>>)
    /\ joints' = [joints EXCEPT ![item] = Append(@, joint), ![other] = Append(@, joint)]
    /\ pc' = "idle" /\ joint' = Null /\ other' = item
    /\ UNCHANGED <<odeBodies, odeGeoms, next, bodies, geometries, item, gone, read, lifeVars, steps, thread>>

SelfAttach ==
    /\ pc = "attach" /\ joint # Null
    /\ odeJoints' = With(odeJoints, joint, <<bodies[item], bodies[item]>>)
    /\ joints' = [joints EXCEPT ![item] = Append(@, joint)]
    /\ pc' = "idle" /\ joint' = Null /\ other' = item
    /\ UNCHANGED <<odeBodies, odeGeoms, next, bodies, geometries, item, gone, read, lifeVars, steps, thread>>

(* The joint is recorded under the first item only. *)
Attach ==
    /\ pc = "attach" /\ joint # Null
    /\ odeJoints' = With(odeJoints, joint, <<bodies[item], bodies[other]>>)
    /\ joints' = [joints EXCEPT ![item] = Append(@, joint)]
    /\ pc' = "idle" /\ joint' = Null /\ other' = item
    /\ UNCHANGED <<odeBodies, odeGeoms, next, bodies, geometries, item, gone, read, lifeVars, steps, thread>>

(* dJointAttach follows the pointer it is given. *)
AttachNull ==
    /\ pc = "attach" /\ joint = Null
    /\ pc' = "crashed"
    /\ UNCHANGED <<odeVars, mapVars, callVars, lifeVars, steps, thread>>

-----------------------------------------------------------------------------
(* removeItem: the body, then its joints one by one, then the geometry *)

Remove(n) ==
    /\ pc = "idle"
    /\ item' = n
    /\ \/ bodies[n] # Null /\ pc' = "destroyBody"
       \/ bodies[n] = Null /\ geometries[n] # Null /\ pc' = "destroyGeom"
    /\ UNCHANGED <<odeVars, mapVars, other, joint, gone, read, lifeVars, steps, thread>>

AfterJoints == IF geometries[item] # Null THEN "destroyGeom" ELSE "idle"

DestroyBody ==
    /\ pc = "destroyBody"
    /\ LET b == bodies[item] IN
          /\ odeBodies' = odeBodies \ {b}
          /\ odeGeoms' = [g \in DOMAIN odeGeoms |->
                             IF odeGeoms[g] = b THEN Orphaned ELSE odeGeoms[g]]
          /\ odeJoints' = [j \in DOMAIN odeJoints |->
                             IF \E k \in DOMAIN odeJoints[j] : odeJoints[j][k] = b
                             THEN <<>> ELSE odeJoints[j]]
    /\ bodies' = [bodies EXCEPT ![item] = Null]
    /\ pc' = IF joints[item] = <<>> THEN AfterJoints ELSE "destroyJoint"
    /\ UNCHANGED <<next, geometries, joints, callVars, lifeVars, steps, thread>>

LastJoint == gone + 1 = Len(joints[item])

StuckDestroyJoint ==            \* waits for the lock, which was not given back
    pc = "destroyJoint" /\ UNCHANGED vars

HastyDestroyJoint ==            \* clears the vector after the first
    /\ pc = "destroyJoint"
    /\ odeJoints' = Without(odeJoints, joints[item][gone + 1])
    /\ joints' = [joints EXCEPT ![item] = <<>>]
    /\ pc' = AfterJoints
    /\ UNCHANGED <<odeBodies, odeGeoms, next, bodies, geometries, callVars, lifeVars, steps, thread>>

(* The vector is cleared after the last. *)
DestroyJoint ==
    /\ pc = "destroyJoint"
    /\ odeJoints' = Without(odeJoints, joints[item][gone + 1])
    /\ IF ~LastJoint THEN gone' = gone + 1 /\ UNCHANGED <<joints, pc>>
       ELSE gone' = 0 /\ joints' = [joints EXCEPT ![item] = <<>>] /\ pc' = AfterJoints
    /\ UNCHANGED <<odeBodies, odeGeoms, next, bodies, geometries, item, other, joint, read,
                   lifeVars, steps, thread>>

DestroyGeom ==
    /\ pc = "destroyGeom"
    /\ odeGeoms' = Without(odeGeoms, geometries[item])
    /\ geometries' = [geometries EXCEPT ![item] = Null]
    /\ pc' = "idle"
    /\ UNCHANGED <<odeBodies, odeJoints, next, bodies, joints, callVars, lifeVars, steps, thread>>

-----------------------------------------------------------------------------
(* getPosition: the read lock covers the pointer, not what it points to. *)

LookUp(n) ==
    /\ pc = "idle" /\ bodies[n] # Null
    /\ item' = n
    /\ pc' = "copy"
    /\ UNCHANGED <<odeVars, mapVars, other, joint, gone, read, lifeVars, steps, thread>>

CopyCoordinate ==
    /\ pc = "copy" /\ Len(read) < 3
    /\ read' = Append(read, steps)
    /\ UNCHANGED <<odeVars, mapVars, item, other, joint, gone, lifeVars, steps, thread, pc>>

ReturnPosition ==
    /\ pc = "copy" /\ Len(read) = 3
    /\ read' = <<>>
    /\ pc' = "idle"
    /\ UNCHANGED <<odeVars, mapVars, item, other, joint, gone, lifeVars, steps, thread>>

-----------------------------------------------------------------------------
(* doPhysics, startPhysics, the physics thread, the destructor *)

StepWorld == steps' = IF steps < MaxSteps THEN steps + 1 ELSE steps

DoPhysics ==
    /\ pc = "idle" /\ ~threaded
    /\ StepWorld
    /\ UNCHANGED <<odeVars, mapVars, callVars, lifeVars, thread, pc>>

(* When pthread_create fails threaded is as it was. *)
StartPhysics ==
    /\ pc = "idle" /\ running /\ ~threaded
    /\ threaded' = TRUE
    /\ thread' = "check"
    /\ UNCHANGED <<odeVars, mapVars, callVars, world, running, steps, pc>>

(* running is a member of the engine: it may hold anything once it is freed. *)
CheckRunning ==
    /\ thread = "check"
    /\ \E r \in IF pc = "deleted" THEN BOOLEAN ELSE {running} :
          thread' = IF r THEN "collide" ELSE "gone"
    /\ UNCHANGED <<odeVars, mapVars, callVars, lifeVars, steps, pc>>

(* What dSpaceCollide finds becomes contact joints, gone by the next check. *)
Collide ==
    /\ thread = "collide"
    /\ thread' = "step"
    /\ UNCHANGED <<odeVars, mapVars, callVars, lifeVars, steps, pc>>

QuickStep ==
    /\ thread = "step"
    /\ StepWorld
    /\ thread' = "check"
    /\ UNCHANGED <<odeVars, mapVars, callVars, lifeVars, pc>>

Delete ==
    /\ pc = "idle"
    /\ running' = FALSE
    /\ pc' = "destroyWorld"
    /\ UNCHANGED <<odeVars, mapVars, callVars, world, threaded, steps, thread>>

DestroyWorld ==
    /\ pc = "destroyWorld"
    /\ world' = FALSE
    /\ pc' = "deleted"
    /\ UNCHANGED <<odeVars, mapVars, callVars, running, threaded, steps, thread>>

-----------------------------------------------------------------------------
PhysicsThread == pc # "crashed" /\ (CheckRunning \/ Collide \/ QuickStep)

Continue == \/ Attach \/ AttachNull \/ DestroyBody \/ DestroyJoint \/ DestroyGeom
            \/ CopyCoordinate \/ ReturnPosition \/ DestroyWorld

Call == \/ \E n \in Items : AddItem(n) \/ AddStaticItem(n) \/ Remove(n) \/ LookUp(n)
        \/ \E m, n \in Items : CreateJoint(m, n)
        \/ DoPhysics \/ StartPhysics \/ Delete

Next == Call \/ Continue \/ PhysicsThread

(* Both threads go on when they can: the sections under the lock end, and  *)
(* the physics thread sleeps between them.  Nothing makes the program call.*)
Spec == Init /\ [][Next]_vars
FairSpec == Spec /\ WF_vars(PhysicsThread) /\ WF_vars(Continue)

-----------------------------------------------------------------------------
(* Properties *)

Handles == 1 .. MaxHandles
Resting == {"idle", "deleted", "crashed"}

(* Every variable has the type the code gives it. *)
TypeOK ==
    /\ {world, running, threaded} \subseteq BOOLEAN
    /\ odeBodies \subseteq Handles
    /\ DOMAIN odeGeoms \subseteq Handles
    /\ \A g \in DOMAIN odeGeoms : odeGeoms[g] \in odeBodies \cup {Null, Orphaned}
    /\ DOMAIN odeJoints \subseteq Handles
    /\ \A j \in DOMAIN odeJoints : odeJoints[j] \in {<<>>} \cup (odeBodies \X odeBodies)
    /\ next \in 1 .. MaxHandles + 1
    /\ steps \in 0 .. MaxSteps
    /\ bodies \in [Items -> Handles \cup {Null}]
    /\ geometries \in [Items -> Handles \cup {Null}]
    /\ joints \in [Items -> Seq(Handles)]
    /\ thread \in {"none", "check", "collide", "step", "gone"}
    /\ pc \in {"idle", "attach", "destroyBody", "destroyJoint", "destroyGeom", "copy",
               "destroyWorld", "deleted", "crashed"}
    /\ item \in Items /\ other \in Items
    /\ joint \in Handles \cup {Null}
    /\ gone \in Nat
    /\ Len(read) \in 0 .. 3

(* Every place a joint is recorded at: the item and the index. *)
Records == UNION {{n} \X DOMAIN joints[n] : n \in Items}

(* What removeItem is done with of the vector it will clear *)
Destroyed(r) == pc = "destroyJoint" /\ r[1] = item /\ r[2] <= gone

(* "only add the joint id to one of the joints, so we don't try to delete  *)
(* it twice later": what the maps name exists in ODE, whatever was removed *)
(* before and in whatever order, and no joint is named twice - but for the *)
(* joints a removeItem that is under way has destroyed.  Every variable    *)
(* keeps its type.                                                         *)
HandlesLive ==
    /\ TypeOK
    /\ \A n \in Items : bodies[n] # Null => bodies[n] \in odeBodies
    /\ \A n \in Items : geometries[n] # Null => geometries[n] \in DOMAIN odeGeoms
    /\ \A r \in Records : joints[r[1]][r[2]] \in DOMAIN odeJoints \/ Destroyed(r)
    /\ \A r, s \in Records : joints[r[1]][r[2]] = joints[s[1]][s[2]] => r = s

(* "Yes, some joints will persist a little longer then the should": but no *)
(* longer than the item they are recorded under.                           *)
JointsReachable ==
    \A j \in DOMAIN odeJoints :
        \/ pc = "attach" /\ j = joint
        \/ \E r \in Records :
              /\ joints[r[1]][r[2]] = j
              /\ bodies[r[1]] # Null \/ (pc = "destroyJoint" /\ item = r[1])

(* "these are stored just so we can remove them later": a dynamic item     *)
(* that was removed is gone, its geometry with it.                         *)
RemovedItemsAreGone ==
    pc = "idle" => \A g \in DOMAIN odeGeoms : odeGeoms[g] # Orphaned

(* ... and a static one can be removed by its name. *)
StaticItemsReachable ==
    \A g \in DOMAIN odeGeoms : odeGeoms[g] = Null => \E n \in Items : geometries[n] = g

(* "Connect two items together, with the give joint type": no NULL joint   *)
(* is attached, or recorded to be destroyed later.                         *)
NoNullJoint == pc = "attach" => joint # Null

(* "we don't care greatly about reading behind or ahead": a position may   *)
(* be an old one, but is one the item was at.                              *)
PositionOfOneMoment ==
    \A j, k \in 1 .. Len(read) : read[j] = read[k]

(* "we only lock when we do write operations (i.e. call into ODE with some *)
(* state change)": the physics thread makes no such call once the world is *)
(* destroyed.                                                              *)
NoStepAfterDestroy == thread \in {"collide", "step"} => world

(* Every call returns, or ends the program: removeItem comes to the end of *)
(* the joints of its item, whatever the physics thread does meanwhile.     *)
CallsReturn == pc \notin Resting ~> pc \in Resting

Dynamic == {n \in Items : bodies[n] # Null}

(* The engine is the scene its users think of. *)
Scene == INSTANCE PhysicsScene WITH
    dynamic <- Dynamic,
    static <- {n \in Items : geometries[n] # Null},
    links <- {l \in Dynamic \X Dynamic :
                 \E j \in DOMAIN odeJoints : odeJoints[j] = <<bodies[l[1]], bodies[l[2]]>>}

ImplementsScene == Scene!Spec
=============================================================================
