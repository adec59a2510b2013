--------------------------- MODULE PhysicsPlacement ---------------------------
(***************************************************************************)
(* Physics: how much of a system there is room for.  Its points are made   *)
(* spheres of, one at a time, in a space with those of the systems before; *)
(* where one collides, its branch ends.                                    *)
(*                                                                         *)
(* The systems come from getPoints; a branch may also begin with a pointer *)
(* to what it grows from, a level and an index there.                      *)
(***************************************************************************)
EXTENDS Integers, Sequences, FiniteSets

VARIABLES
    space,          \* the spheres there are, in the order they were made
    stu_physics_collided,
    placing,        \* is a method being executed?
    system, radii,  \* its arguments: branches by level, and their radii
    level, i,       \* the branch and the point it has come to
    collisionIndex, \* the points it placed of that branch
    ret,            \* what it returns: where collisions occurred, by level
    before          \* history: how many spheres there were when it was called

placementVars == <<space, stu_physics_collided, placing, system, radii, level, i,
                   collisionIndex, ret, before>>

Sphere(point, r) == [at |-> point, radius |-> r]

PlacementInit ==
    /\ space = <<>> /\ stu_physics_collided = FALSE /\ placing = FALSE
    /\ system = [k \in {} |-> <<>>] /\ radii = system
    /\ level = 0 /\ i = 0 /\ collisionIndex = 0 /\ ret = [k \in {} |-> 0] /\ before = 0

(* Spheres touch when their centres are not further apart than both radii, *)
(* which are given in 23rds of the coordinates' unit.                      *)
Square(n) == n * n
Distance2(p, q) == Square(p[1] - q[1]) + Square(p[2] - q[2]) + Square(p[3] - q[3])
Touch(a, b) == Square(23) * Distance2(a.at, b.at) <= Square(a.radius + b.radius)

(* dSpaceCollide goes through all pairs. *)
Collided(spheres) ==
    \E m, n \in DOMAIN spheres : m < n /\ Touch(spheres[m], spheres[n])

(* Operators named Faulty... are what a plausible bug would make of the    *)
(* definition they precede; each breaks a property of the runs.            *)

-----------------------------------------------------------------------------
(* addSystem *)

(* Of a map of levels, in their order: they are ints, and unless there are *)
(* none, one is the first.                                                 *)
HasFirst(levels) ==
    levels \subseteq Int /\ (levels # {} => \E k \in levels : \A n \in levels : k <= n)
First(levels) == CHOOSE k \in levels : \A n \in levels : k <= n
Above == {k \in DOMAIN system : k > level}

Called(levels, rs) ==
    /\ ~placing
    /\ system' = levels /\ radii' = rs /\ ret' = [k \in {} |-> 0] /\ before' = Len(space)
    /\ IF levels = [k \in {} |-> <<>>] THEN UNCHANGED <<placing, level>>
       ELSE placing' = TRUE /\ level' = First(DOMAIN levels)
    /\ i' = 1 /\ collisionIndex' = 0
    /\ UNCHANGED space

AddSystem(levels, r) ==
    /\ Called(levels, [k \in DOMAIN levels |-> [n \in DOMAIN levels[k] |-> r]])
    /\ stu_physics_collided' = FALSE

(* Of a list, that is one branch: these methods return where it ends, and  *)
(* rely on the flag as it is.  They refuse a list with less or more radii. *)
AddList(points, rs) ==
    /\ Len(points) = Len(rs)
    /\ Called([k \in {0} |-> points], [k \in {0} |-> rs])
    /\ UNCHANGED stu_physics_collided

More == placing /\ ~stu_physics_collided /\ i <= Len(system[level])
Point == system[level][i]
Pointer == i = 1 /\ Len(Point) = 2

FaultyParentFound == Point[1] \in DOMAIN ret      \* of the branch, any point

ParentFound == Point[1] \in DOMAIN ret /\ Point[2] < ret[Point[1]]

(* What a branch grows from is not there. *)
PointerCut ==
    /\ More /\ Pointer /\ ~ParentFound
    /\ stu_physics_collided' = TRUE
    /\ UNCHANGED <<space, placing, system, radii, level, i, collisionIndex, ret, before>>

Skip ==
    /\ More /\ Len(Point) < 3
    /\ Pointer => ParentFound
    /\ i' = i + 1
    /\ UNCHANGED <<space, stu_physics_collided, placing, system, radii, level,
                   collisionIndex, ret, before>>

(* The sphere that collides is taken from the space. *)
Place ==
    /\ More /\ Len(Point) >= 3
    /\ LET with == Append(space, Sphere(Point, radii[level][i])) IN
       IF Collided(with)
       THEN stu_physics_collided' = TRUE /\ UNCHANGED <<space, i, collisionIndex>>
       ELSE /\ space' = with /\ i' = i + 1 /\ collisionIndex' = collisionIndex + 1
            /\ UNCHANGED stu_physics_collided
    /\ UNCHANGED <<placing, system, radii, level, ret, before>>

FaultyBranchEnd ==      \* the flag stays set for the next branch
    /\ placing /\ (stu_physics_collided \/ i > Len(system[level]))
    /\ ret' = [k \in DOMAIN ret \cup {level} |->
                 IF k # level THEN ret[k]
                 ELSE IF stu_physics_collided THEN collisionIndex ELSE Len(system[level])]
    /\ IF Above = {} THEN placing' = FALSE /\ UNCHANGED level
       ELSE level' = First(Above) /\ UNCHANGED placing
    /\ i' = 1 /\ collisionIndex' = 0
    /\ UNCHANGED <<space, stu_physics_collided, system, radii, before>>

BranchEnd ==
    /\ placing /\ (stu_physics_collided \/ i > Len(system[level]))
    /\ ret' = [k \in DOMAIN ret \cup {level} |->
                 IF k # level THEN ret[k]
                 ELSE IF stu_physics_collided THEN collisionIndex ELSE Len(system[level])]
    /\ stu_physics_collided' = FALSE
    /\ IF Above = {} THEN placing' = FALSE /\ UNCHANGED level
       ELSE level' = First(Above) /\ UNCHANGED placing
    /\ i' = 1 /\ collisionIndex' = 0
    /\ UNCHANGED <<space, system, radii, before>>

Placing == PointerCut \/ Skip \/ Place \/ BranchEnd

-----------------------------------------------------------------------------
(* Properties *)

Returned == ~placing

(* The spheres of a system that was placed *)
New == {space[n] : n \in before + 1 .. Len(space)}

(* "any previous additions would have triggered a collision when they were *)
(* added": whatever systems come one after the other, none of the spheres  *)
(* that are kept touch, so that a collision is always that of the one that *)
(* was added.  "A map of where collisions occurred, indexed by level":     *)
(* what is placed is the beginning of each branch, and the next point of a *)
(* branch that was cut touches something that is there.                    *)
Plain(k) == \A n \in DOMAIN system[k] : Len(system[k][n]) = 3
StopsAtCollisions ==
    /\ ~Collided(space)
    /\ Returned /\ (\A k \in DOMAIN system : Plain(k)) =>
          /\ DOMAIN ret = DOMAIN system
          /\ New = UNION {{Sphere(system[k][n], radii[k][n]) : n \in 1 .. ret[k]} : k \in DOMAIN system}
          /\ \A k \in DOMAIN system :
                ret[k] < Len(system[k]) =>
                    \E n \in DOMAIN space : Touch(space[n], Sphere(system[k][ret[k] + 1], radii[k][ret[k] + 1]))

(* "you don't want to grow branches from non-existent parents": of a       *)
(* branch that has a pointer, nothing is placed unless what it points at   *)
(* is.                                                                     *)
(* A pointer to a level before its own has an index of a point or of a     *)
(* pointer, or one beyond the end; and no other branch has a point of one  *)
(* that has a pointer, so that a sphere tells whose it is.                 *)
Pointing(levels) ==
    \A k \in DOMAIN levels : levels[k] # <<>> /\ Len(levels[k][1]) = 2 =>
        LET parent == levels[k][1] IN
        /\ parent[1] \in DOMAIN levels /\ parent[1] < k =>
              /\ parent[2] \in Nat
              /\ parent[2] + 1 \in DOMAIN levels[parent[1]] =>
                    Len(levels[parent[1]][parent[2] + 1]) >= 2
        /\ \A j \in DOMAIN levels : \A m \in DOMAIN levels[j], n \in DOMAIN levels[k] :
              Len(levels[k][n]) >= 3 /\ levels[j][m] = levels[k][n] => j = k

HasPointer(k) == system[k] # <<>> /\ Len(system[k][1]) = 2
Placed(k, n) == \E s \in New : s.at = system[k][n]
ParentsPlaced ==
    Returned => \A k \in DOMAIN system : HasPointer(k) =>
        LET parent == system[k][1] IN
        (\E n \in DOMAIN system[k] : Len(system[k][n]) = 3 /\ Placed(k, n)) =>
            /\ parent[1] \in DOMAIN system
            /\ parent[2] + 1 \in DOMAIN system[parent[1]]
            /\ \/ Len(system[parent[1]][parent[2] + 1]) = 2
               \/ Placed(parent[1], parent[2] + 1)
=============================================================================
