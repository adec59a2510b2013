------------------------- MODULE LSystemWorldObject -------------------------
(***************************************************************************)
(* LSystemWorldObject: serpents, that grow while they are drawn and while  *)
(* physics moves them.  Every frame the renderer has each of them grow: it *)
(* tells its turtle where the bodies of its elements are, has it read its  *)
(* genes until there is a point, has the genes mutate, and makes an        *)
(* element of the point, jointed to the one before it in its branch.       *)
(*                                                                         *)
(* The physics thread goes on meanwhile; a call of the physics engine is a *)
(* step, as its lock makes it.  Between frames the program creates, breeds *)
(* and changes serpents.  All of them have the same name: only their ids   *)
(* tell their elements apart.  Where things are drawn is left out.         *)
(***************************************************************************)
EXTENDS LSystemIncrementalInterpreter, FiniteSets

CONSTANTS
    Objects,        \* the serpents, in the order of std::map: 1 .. n
    Files,          \* what <name>.sys and <name>.attr may say: records
    Positions,      \* where serpents are put
    Rates,          \* the growth rates that are set
    MeshSize,       \* the height of the mesh of an element
    SystemMutated(_),  \* run("mutate"): what may become of some genes
    SystemGrown(_),    \* run("grow"): what becomes of them
    MaxMutations,   \* bound: how often genes mutate
    MaxMoves,       \* bound: how often physics moves a body
    MaxFrames,      \* bound: frames rendered
    MaxCalls        \* bound: calls made between frames

ASSUME WorldAssumption ==
    /\ \E n \in 1 .. 9 : Objects = 1 .. n
    /\ Positions \subseteq [1 .. 3 -> Int]
    /\ MeshSize \in Nat
    /\ {MaxMutations, MaxMoves, MaxFrames, MaxCalls} \subseteq Nat

VARIABLES
    files,          \* what is in the files
    genes,          \* the systems there are: System* is a place in here
    turtles,        \* the interpreters there are, likewise
    objectCounter,  \* how many elements' names were begun
    objectId, system, interpreter, physics, jointType, growthRate,
    elapsed,        \* has enough time passed since lastUpdateTime?
    objectNames,    \* the elements physics knows of, with their points
    sceneNodes,     \* the elements that are drawn
    entities,       \* the names Ogre knows
    bodies,         \* where the items of the physics engine are
    links,          \* the joints between them
    pc, todo,       \* where the render thread is; the serpents left this frame
    self, k,        \* the serpent that grows; the element it looks at
    prevIndex,      \* grow's variables
    newPoint, currentIndex,
    trace,          \* history: what each serpent's turtle made sense of
    mutations, moves, frames, calls

heap == <<genes, turtles>>
objectVars == <<objectId, system, interpreter, physics, jointType, growthRate>>
elementVars == <<objectNames, sceneNodes, entities>>
engineVars == <<bodies, links>>
growVars == <<self, k, prevIndex, newPoint, currentIndex>>
bounds == <<mutations, moves, frames, calls>>
vars == <<files, heap, objectCounter, objectVars, elapsed, elementVars, engineVars,
          pc, todo, growVars, trace, bounds>>

Null == 0
Created == {o \in Objects : objectId[o] # 0}

Item(id, index) == <<id, index>>        \* name:index:id
ItemOf(o, index) == Item(objectId[o], index)

(* As constructed, or as space for children that will be *)
Init ==
    /\ files \in Files
    /\ genes = <<>> /\ turtles = <<>>
    /\ objectCounter = 0
    /\ objectId = [o \in Objects |-> 0]
    /\ system = [o \in Objects |-> Null] /\ interpreter = [o \in Objects |-> Null]
    /\ physics = [o \in Objects |-> TRUE]
    /\ jointType = [o \in Objects |-> ""]
    /\ growthRate = [o \in Objects |-> 0]
    /\ elapsed = [o \in Objects |-> FALSE]
    /\ objectNames = [o \in Objects |-> <<>>] /\ sceneNodes = [o \in Objects |-> {}]
    /\ entities = {}
    /\ bodies = [x \in {} |-> Zero] /\ links = {}
    /\ pc = "idle" /\ todo = {}
    /\ self \in Objects /\ k = 1 /\ prevIndex = 0 /\ newPoint = NoPoint /\ currentIndex = 0
    /\ trace = [o \in Objects |-> <<>>]
    /\ mutations = 0 /\ moves = 0 /\ frames = 0 /\ calls = 0

Called == pc = "idle" /\ calls < MaxCalls /\ calls' = calls + 1
Quietly == UNCHANGED <<files, engineVars, todo, growVars, mutations, moves, frames>>

-----------------------------------------------------------------------------
(* create *)

(* tmpostr.clear() does not empty the stream: the size of the mesh stays   *)
(* in front of the position.  A minus in the middle is not part of a number.*)
PowerAbove(n) == CHOOSE p \in {10, 100, 1000, 10000} :
                     n < p /\ \A q \in {10, 100, 1000, 10000} : n < q => p <= q
Concatenated(a, b) == a * PowerAbove(b) + b
StartPoint(pos) ==
    IF pos[1] >= 0 THEN [pos EXCEPT ![1] = Concatenated(MeshSize, @)] ELSE Bad

(* MeshMap gives one element a mesh of its own, and a size. *)
Configured(t, pos) ==
    [t EXCEPT !.attributes = [startPoint |-> StartPoint(pos),
                              startDirection |-> files.startDirection,
                              angles |-> files.angles,
                              atomicSize |-> MeshSize],
              !.sizes = files.sizes]

(* A rate that is out of range leaves the one there is: 0 is never, and 1, *)
(* which stands for all others, as often as there is time for.             *)
Rate(rate, old) == IF rate \in {0, 1} THEN rate ELSE old
DefaultRate == 1

(* A GrowthRate that is no number is warned of, and read as 0.  (One that  *)
(* is not in the file is out of range here.)                               *)
ReadRate == Rate(IF files.growthRate = Bad THEN 0 ELSE files.growthRate, DefaultRate)

(* Operators named Faulty..., Shared... or Stuck... are what a plausible   *)
(* bug would make of the definition they precede; each breaks a property   *)
(* of the runs.                                                            *)

(* From the interpreter on: with one there is, or a new one of system s.   *)
(* A bad MeshMap makes create return before it sets a joint type.          *)
Configure(o, s, i, pos, physicsFlag) ==
    LET t == IF i = Null THEN NewTurtle(s, <<>>) ELSE turtles[i] IN
    /\ turtles' = IF i = Null THEN Append(turtles, Configured(t, pos))
                  ELSE [turtles EXCEPT ![i] = Configured(t, pos)]
    /\ interpreter' = [interpreter EXCEPT ![o] = IF i = Null THEN Len(turtles') ELSE i]
    /\ physics' = [physics EXCEPT ![o] = physicsFlag /\ files.physics]
    /\ growthRate' = [growthRate EXCEPT ![o] = ReadRate]
    /\ jointType' = [jointType EXCEPT ![o] = IF files.meshMap = "bad" THEN @ ELSE "ball"]

(* lastUpdateTime is 0: long ago. *)
Begin(o) ==
    /\ objectCounter' = objectCounter + 1
    /\ objectId' = [objectId EXCEPT ![o] = objectCounter']
    /\ elapsed' = [elapsed EXCEPT ![o] = TRUE]

(* A name that was given before: the elements it has keep their names. *)
CreateAgain(o, pos) ==
    /\ Called /\ Quietly
    /\ system[o] # Null
    /\ Begin(o)
    /\ Configure(o, system[o], interpreter[o], pos, physics[o])
    /\ UNCHANGED <<genes, system, elementVars, pc, trace>>

(* A system that was not read stays behind, with no genes.  files.system   *)
(* has grown a hundred times already.  The renderer gave all of them its   *)
(* scene manager, so create does not end for want of one.                  *)
Create(o, pos) ==
    /\ Called /\ Quietly
    /\ system[o] = Null
    /\ Begin(o)
    /\ system' = [system EXCEPT ![o] = Len(genes) + 1]
    /\ IF files.system # Bad
       THEN /\ genes' = Append(genes, files.system)
            /\ Configure(o, Len(genes'), Null, pos, physics[o])
       ELSE /\ genes' = Append(genes, <<>>)
            /\ growthRate' = [growthRate EXCEPT ![o] = DefaultRate]
            /\ UNCHANGED <<turtles, interpreter, physics, jointType>>
    /\ UNCHANGED <<elementVars, pc, trace>>

SharedSystemBreed(p, q, c) ==       \* the child's genes are its parent's
    /\ Called /\ Quietly
    /\ {p, q} \subseteq Created /\ c \notin Created
    /\ Begin(c)
    /\ system' = [system EXCEPT ![c] = system[p]]
    /\ Configure(c, system[p], Null, Zero, physics[p])
    /\ UNCHANGED <<genes, elementVars, pc, trace>>

FaultyBreed(p, q, c) ==             \* the child has no name of its own
    /\ Called /\ Quietly
    /\ {p, q} \subseteq Created /\ c \notin Created
    /\ objectId' = [objectId EXCEPT ![c] = objectId[p]]
    /\ elapsed' = [elapsed EXCEPT ![c] = TRUE]
    /\ genes' = Append(genes, genes[system[p]])
    /\ system' = [system EXCEPT ![c] = Len(genes')]
    /\ Configure(c, Len(genes'), Null, Zero, physics[p])
    /\ UNCHANGED <<objectCounter, elementVars, pc, trace>>

(* breed: the child is made of a copy of the parent, of which only the     *)
(* members of WorldObject are copied, and gets a copy of its genes.  The   *)
(* cross with the other parent changes nothing: its operation is the       *)
(* character 3 where cross knows "1", "2" and "3".                         *)
Breed(p, q, c) ==
    /\ Called /\ Quietly
    /\ {p, q} \subseteq Created /\ c \notin Created
    /\ Begin(c)
    /\ genes' = Append(genes, genes[system[p]])
    /\ system' = [system EXCEPT ![c] = Len(genes')]
    /\ Configure(c, Len(genes'), Null, Zero, physics[p])
    /\ UNCHANGED <<elementVars, pc, trace>>

-----------------------------------------------------------------------------
(* The setters *)

SetPosition(o, pos) ==
    /\ Called /\ Quietly
    /\ interpreter[o] # Null
    /\ turtles' = [turtles EXCEPT ![interpreter[o]].attributes.startPoint = pos]
    /\ UNCHANGED <<genes, objectCounter, objectVars, elapsed, elementVars, pc, trace>>

SetGrowthRate(o, rate) ==
    /\ Called /\ Quietly
    /\ growthRate' = [growthRate EXCEPT ![o] = Rate(rate, @)]
    /\ UNCHANGED <<heap, objectCounter, objectId, system, interpreter, physics, jointType,
                   elapsed, elementVars, pc, trace>>

(* All types there are are "ball" here; others are refused. *)
SetJointType(o) ==
    /\ Called /\ Quietly
    /\ jointType' = [jointType EXCEPT ![o] = "ball"]
    /\ UNCHANGED <<heap, objectCounter, objectId, system, interpreter, physics, growthRate,
                   elapsed, elementVars, pc, trace>>

(* The physics engine takes the joints of what it removes along. *)
NoPhysics(o) ==
    /\ Called
    /\ bodies' = [x \in DOMAIN bodies \ sceneNodes[o] |-> bodies[x]]
    /\ links' = {l \in links : sceneNodes[o] \cap {l[1], l[2]} = {}}
    /\ physics' = [physics EXCEPT ![o] = FALSE]
    /\ UNCHANGED <<files, heap, objectCounter, objectId, system, interpreter, jointType,
                   growthRate, elapsed, elementVars, pc, todo, growVars, trace,
                   mutations, moves, frames>>

RestartPhysics(o) ==
    /\ Called /\ Quietly
    /\ physics' = [physics EXCEPT ![o] = TRUE]
    /\ UNCHANGED <<heap, objectCounter, objectId, system, interpreter, jointType, growthRate,
                   elapsed, elementVars, pc, trace>>

-----------------------------------------------------------------------------
(* The renderer's frames *)

(* For some serpents enough time has passed since they last grew. *)
FrameStarted ==
    /\ pc = "idle" /\ frames < MaxFrames /\ Created # {}
    /\ pc' = "frame" /\ todo' = Created
    /\ \E late \in SUBSET Created :
          elapsed' = [o \in Objects |-> elapsed[o] \/ o \in late]
    /\ frames' = frames + 1
    /\ UNCHANGED <<files, heap, objectCounter, objectVars, elementVars, engineVars, growVars,
                   trace, mutations, moves, calls>>

FrameEnded ==
    /\ pc = "frame" /\ todo = {}
    /\ pc' = "idle"
    /\ UNCHANGED <<files, heap, objectCounter, objectVars, elapsed, elementVars, engineVars,
                   todo, growVars, trace, bounds>>

Following == CHOOSE o \in todo : \A p \in todo : o <= p
MayGrow(o) == elapsed[o] /\ growthRate[o] # 0 /\ interpreter[o] # Null

(* It is updated only: not due, or without an interpreter. *)
OnlyUpdate ==
    /\ pc = "frame" /\ todo # {} /\ ~MayGrow(Following)
    /\ todo' = todo \ {Following}
    /\ UNCHANGED <<files, heap, objectCounter, objectVars, elapsed, elementVars, engineVars,
                   pc, growVars, trace, bounds>>

GrowObject ==
    /\ pc = "frame" /\ todo # {} /\ MayGrow(Following)
    /\ pc' = "refresh" /\ self' = Following /\ k' = 1
    /\ UNCHANGED <<files, heap, objectCounter, objectVars, elapsed, elementVars, engineVars,
                   todo, prevIndex, newPoint, currentIndex, trace, bounds>>

-----------------------------------------------------------------------------
(* grow *)

Refreshing == physics[self] /\ k <= Len(objectNames[self])
Turtle == turtles[interpreter[self]]
SetTurtle(t) == turtles' = [turtles EXCEPT ![interpreter[self]] = t]

(* An item physics does not know is passed over. *)
Refresh ==
    /\ pc = "refresh" /\ Refreshing
    /\ LET item == objectNames[self][k][1]
           index == objectNames[self][k][2]
       IN SetTurtle(IF item \in DOMAIN bodies THEN UpdatePoint(Turtle, index, bodies[item])
                    ELSE Turtle)
    /\ k' = k + 1
    /\ UNCHANGED <<files, genes, objectCounter, objectVars, elapsed, elementVars, engineVars,
                   pc, todo, self, prevIndex, newPoint, currentIndex, trace, bounds>>

RefreshEnd ==
    /\ pc = "refresh" /\ ~Refreshing
    /\ pc' = "read"
    /\ UNCHANGED <<files, heap, objectCounter, objectVars, elapsed, elementVars, engineVars,
                   todo, growVars, trace, bounds>>

FaultyAfter(r) == IF r.point = NoPoint THEN "read" ELSE "grown"  \* failed or not

After(r) == IF ~r.ok THEN "failed" ELSE IF r.point = NoPoint THEN "read" ELSE "grown"

Traced(r) == IF r.ok THEN Append(trace[self], ItemOf(self, r.index)) ELSE trace[self]

FaultyReadGene ==       \* the element before is looked up once
    /\ pc = "read"
    /\ \E r \in Grow(Turtle, genes[Turtle.system]) :
       /\ SetTurtle(r.turtle)
       /\ newPoint' = r.point /\ currentIndex' = r.index
       /\ trace' = [trace EXCEPT ![self] = Traced(r)]
       /\ pc' = After(r)
    /\ prevIndex' = IF prevIndex = 0 THEN Prev(Turtle).index ELSE prevIndex
    /\ UNCHANGED <<files, genes, objectCounter, objectVars, elapsed, elementVars, engineVars,
                   todo, self, k, bounds>>

(* prev, then grow, until there is a point or no gene *)
ReadGene ==
    /\ pc = "read"
    /\ \E r \in Grow(Turtle, genes[Turtle.system]) :
       /\ SetTurtle(r.turtle)
       /\ newPoint' = r.point /\ currentIndex' = r.index
       /\ trace' = [trace EXCEPT ![self] = Traced(r)]
       /\ pc' = After(r)
    /\ prevIndex' = Prev(Turtle).index
    /\ UNCHANGED <<files, genes, objectCounter, objectVars, elapsed, elementVars, engineVars,
                   todo, self, k, bounds>>

Own == genes[system[self]]
MayBecome == IF mutations < MaxMutations THEN SystemMutated(Own) \cup {Own} ELSE {Own}

Forget == k' = 1 /\ prevIndex' = 0 /\ newPoint' = NoPoint /\ currentIndex' = 0

(* The string the turtle is in the middle of changes, on both sides of it. *)
(* If there was nothing to read for it, the genes grow.                    *)
Mutate ==
    /\ pc \in {"grown", "failed"}
    /\ \E mutated \in MayBecome :
          /\ genes' = [genes EXCEPT ![system[self]] =
                          IF pc = "failed" THEN SystemGrown(mutated) ELSE mutated]
          /\ mutations' = mutations + IF mutated = Own THEN 0 ELSE 1
    /\ IF pc = "grown" THEN pc' = "element" /\ UNCHANGED <<todo, growVars>>
       ELSE pc' = "frame" /\ todo' = todo \ {self} /\ Forget /\ UNCHANGED self
    /\ UNCHANGED <<files, turtles, objectCounter, objectVars, elapsed, elementVars, engineVars,
                   trace, moves, frames, calls>>

NewItem == ItemOf(self, currentIndex)

(* makeElement: an entity, that Ogre makes only of a new name, an item of  *)
(* the physics engine, a node.                                             *)
MakeElement ==
    /\ pc = "element" /\ NewItem \notin entities
    /\ entities' = entities \cup {NewItem}
    /\ bodies' = [x \in DOMAIN bodies \cup IF physics[self] THEN {NewItem} ELSE {} |->
                     IF x \in DOMAIN bodies THEN bodies[x] ELSE newPoint]
    /\ sceneNodes' = [sceneNodes EXCEPT ![self] = @ \cup {NewItem}]
    /\ objectNames' = [objectNames EXCEPT ![self] = Append(@, <<NewItem, currentIndex>>)]
    /\ pc' = "joint"
    /\ UNCHANGED <<files, heap, objectCounter, objectVars, elapsed, links, todo, growVars,
                   trace, bounds>>

(* The first element has none before it: connectItems fails. *)
Connectable(x, y) == {x, y} \subseteq DOMAIN bodies /\ jointType[self] # ""

Connect ==
    /\ pc = "joint"
    /\ links' = IF physics[self] /\ Connectable(ItemOf(self, prevIndex), NewItem)
                THEN links \cup {<<ItemOf(self, prevIndex), NewItem>>} ELSE links
    /\ elapsed' = [elapsed EXCEPT ![self] = FALSE]
    /\ pc' = "frame" /\ todo' = todo \ {self} /\ Forget
    /\ UNCHANGED <<files, heap, objectCounter, objectVars, elementVars, bodies, self,
                   trace, bounds>>

-----------------------------------------------------------------------------
(* The physics thread: a body falls. *)
Move(x) ==
    /\ x \in DOMAIN bodies /\ moves < MaxMoves
    /\ bodies' = [bodies EXCEPT ![x] = Minus(@, <<0, 1, 0>>)]
    /\ moves' = moves + 1
    /\ UNCHANGED <<files, heap, objectCounter, objectVars, elapsed, elementVars, links,
                   pc, todo, growVars, trace, mutations, frames, calls>>

Call(o) ==
    \/ \E pos \in Positions : Create(o, pos) \/ CreateAgain(o, pos) \/ SetPosition(o, pos)
    \/ \E rate \in Rates : o \in Created /\ SetGrowthRate(o, rate)
    \/ o \in Created /\ (SetJointType(o) \/ NoPhysics(o) \/ RestartPhysics(o))
    \/ \E q, c \in Objects : Breed(o, q, c)

Render ==
    \/ FrameEnded \/ OnlyUpdate \/ GrowObject
    \/ Refresh \/ RefreshEnd \/ ReadGene \/ Mutate \/ MakeElement \/ Connect

Next ==
    \/ \E o \in Objects : Call(o)
    \/ FrameStarted \/ Render
    \/ \E x \in DOMAIN bodies : Move(x)

Spec == Init /\ [][Next]_vars

(* A frame that was begun goes on: the render thread is not blocked, as    *)
(* the physics engine's calls return.                                      *)
FairSpec == Spec /\ WF_vars(Render)

-----------------------------------------------------------------------------
(* Properties *)

TurtleOK(t) ==
    /\ t.system \in 1 .. Len(genes)
    /\ t.points \in Seq([1 .. 3 -> Int]) /\ Len(t.points) \in 1 .. MaxPoints
    /\ t.pointStack \in Seq((0 .. MaxPoints) \X [1 .. 3 -> Int])
    /\ t.elements \in Seq(Genes) /\ Len(t.elements) = Len(t.points) - 1
    /\ t.currentSystemIndex \in Nat /\ t.bracketCount \in Nat

(* Every variable has the type the code gives it, and a pointer is NULL or *)
(* points at what was made.                                                *)
TypeOK ==
    /\ files \in Files
    /\ genes \in Seq(Seq(Genes))
    /\ \A n \in DOMAIN turtles : TurtleOK(turtles[n])
    /\ objectCounter \in Nat /\ objectId \in [Objects -> 0 .. objectCounter]
    /\ system \in [Objects -> 0 .. Len(genes)]
    /\ interpreter \in [Objects -> 0 .. Len(turtles)]
    /\ physics \in [Objects -> BOOLEAN] /\ elapsed \in [Objects -> BOOLEAN]
    /\ jointType \in [Objects -> {"", "ball"}] /\ growthRate \in [Objects -> {0, 1}]
    /\ \A o \in Objects :
          /\ sceneNodes[o] \subseteq entities
          /\ \A n \in DOMAIN objectNames[o] : objectNames[o][n][1] \in sceneNodes[o]
    /\ DOMAIN bodies \subseteq entities /\ links \subseteq (DOMAIN bodies) \X (DOMAIN bodies)
    /\ pc \in {"idle", "frame", "refresh", "read", "grown", "failed", "element", "joint"}
    /\ todo \subseteq Created /\ self \in Objects

(* "We need to ignore this in order to prevent emptying our stacks too     *)
(* much": whatever mutation does to the brackets, the four stacks have a   *)
(* level for the trunk and one for every bracket that is open.             *)
Together(t) ==
    \A stack \in {t.pointStack, t.movementStack, t.verticalStack, t.horizontalStack} :
        Len(stack) = t.bracketCount + 1
StacksTogether == \A n \in DOMAIN turtles : Together(turtles[n])

(* "make sure we update any reference to the point in the point stack":    *)
(* where physics moves a point, there its branches go on from.             *)
StackPointsCurrent ==
    \A n \in DOMAIN turtles :
        LET t == turtles[n] IN
        \A level \in DOMAIN t.pointStack :
            /\ t.pointStack[level][1] < Len(t.points)
            /\ t.pointStack[level][2] = t.points[t.pointStack[level][1] + 1]

(* "Takes the cross product of two vectors", "the cross product of the     *)
(* movement & the horizontal axis": the movement and the two axes a turtle *)
(* turns about are at right angles on every level.                         *)
RightAngles(v, w) == Dot(v, w) = 0 /\ ~NoAxis(v) /\ ~NoAxis(w)
AxesAtRightAngles ==
    \A n \in DOMAIN turtles :
        LET t == turtles[n] IN
        \A level \in DOMAIN t.movementStack :
            /\ RightAngles(t.movementStack[level], t.verticalStack[level])
            /\ RightAngles(t.movementStack[level], t.horizontalStack[level])
            /\ RightAngles(t.verticalStack[level], t.horizontalStack[level])

(* "give the child a *new* system", "new interpreter": no two serpents     *)
(* have genes or a turtle in common, and a turtle reads the genes that     *)
(* mutate and grow with its serpent.                                       *)
OwnGenome ==
    \A o \in Objects :
        /\ interpreter[o] # Null => turtles[interpreter[o]].system = system[o]
        /\ \A p \in Objects \ {o} :
              /\ system[o] # Null => system[o] # system[p]
              /\ interpreter[o] # Null => interpreter[o] # interpreter[p]

(* "used to create unique names": Ogre and the physics engine have not     *)
(* heard the name of an element that is made, of any serpent.              *)
NamesUnique == pc = "element" => NewItem \notin entities \cup DOMAIN bodies

(* The brackets that are open where a turtle had read so many elements ... *)
Index(read) == read[2]
Depth(reads, from, to) ==
    Cardinality({n \in from .. to : Index(reads[n]) = OpenIndex})
      - Cardinality({n \in from .. to : Index(reads[n]) = CloseIndex})
Open(reads, at) ==
    {b \in 1 .. at - 1 : /\ Index(reads[b]) = OpenIndex
                         /\ \A to \in b .. at - 1 : Depth(reads, b, to) > 0}
(* ... and what an element comes after: the last point that was read       *)
(* before it in none but brackets that are still open.                     *)
Points(reads) == {n \in DOMAIN reads : Index(reads[n]) \notin {OpenIndex, CloseIndex}}
Before(reads, at) ==
    {b \in Points(reads) : b < at /\ Open(reads, b) \subseteq Open(reads, at)}
Follows(reads, b, at) == b \in Before(reads, at) /\ \A c \in Before(reads, at) : c <= b

(* "returns the last point created for the current branch.  Note this      *)
(* means if you have p1, [ p2, p3, p4 ], it will return p1": what is       *)
(* jointed are elements that have bodies and come after each other in a    *)
(* branch, for all that mutates and moves meanwhile; and all of them are,  *)
(* unless create failed on its MeshMap or gave them different names.  And  *)
(* every variable keeps its type.                                          *)
JointsOf(o) ==
    LET reads == trace[o] IN
    {<<reads[e[1]], reads[e[2]]>> : e \in
        {e \in Points(reads) \X Points(reads) :
            Follows(reads, e[1], e[2]) /\ {reads[e[1]], reads[e[2]]} \subseteq DOMAIN bodies}}
SameId(l) == l[1][1] = l[2][1]
JointsFollowBranches ==
    /\ TypeOK
    /\ pc \in {"idle", "frame"} =>
          LET joints == UNION {JointsOf(o) : o \in Objects} IN
          /\ links \subseteq joints
          /\ files.meshMap # "bad" => {l \in joints : SameId(l)} \subseteq links

(* A frame ends, whatever the genes are. *)
FrameReturns == pc # "idle" ~> pc = "idle"

(* "@param posx The default x position of this object" *)
StartsWherePut ==
    [][\A o \in Objects, pos \in Positions :
          Create(o, pos) /\ interpreter'[o] # Null =>
              turtles'[interpreter'[o]].attributes.startPoint = pos]_vars

(* "calling create() after this call will add the physics state back in":  *)
(* after noPhysics(), for a serpent whose files have physics               *)
CreateRestoresPhysics ==
    [][\A o \in Objects, pos \in Positions :
          files.physics /\ CreateAgain(o, pos) => physics'[o]]_vars
=============================================================================
