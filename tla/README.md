# Evolve: TLA+ specifications and proofs

Specifications of *evolve* (`src/evolve/src`), a set of C++ programs that grow
L-systems, interpret them as geometry, drop the geometry into a physics engine
and let clients evolve them over TCP sockets.  The modules here model the parts
of it that hold state, TLC checks them on small instances, and TLAPS proves the
central theorems for every instance.

Line numbers below are those of the files under `src/evolve/src`.

## 1. The system

| Part | State | Operations | Talks to | Here |
|---|---|---|---|---|
| `server/Server` | socket list, handler library handle, handler object | accept loop, one thread per client, reload of the handler library, dispatch | sockets, a command handler | modelled, proved |
| `server/commandHandler/CommandHandler`, `ReadWriteLock`, `Mutex` | one read-write lock, a map of mutexes, one per element | `lock(id)`, `unlock(id)`, checks, requests to the client | every handler | modelled, proved |
| `server/systemCommandHandler` | map id -> `System*` | create, getSystem, run, load, cross, makeCopy | client (requests), LSystemGeneric | modelled, proved |
| `server/interpreterCommandHandler` | map id -> `Interpreter*` | create, load, getSystem, makeCopy, set/getAttribute | client, LSystemGenericInterpreter | modelled, proved |
| `utilityFiles/socketMethods` | per-descriptor receive buffer, delimiter | write, receive, sendCommand, sendCommandSequence | TCP | partly, proved |
| `system/lSystem/LSystemGeneric` | the string of genes, growth rules, options, mutation probabilities, limits | initialize, grow, mutate, run, cross, getCopy, setters, save | - | partly, proved |
| `interpreter/lSystemInterpreter/LSystemGenericInterpreter` | attributes, their file | getSystem, getPoints, set/get/save/loadAttributes | strings of genes | partly |
| `interpreter/lSystemInterpreter/LSystemIncrementalInterpreter` | points, elements, four stacks, a bracket count | grow, prev, updatePoint | the system it reads | modelled |
| `worldObject` (`WorldObject`, `LSystemWorldObject`, `StaticWorldObject`) | an object's items in the engine, its system and interpreter | create, breed, grow, setters, noPhysics | engine, interpreter, renderer | partly, proved |
| `ogreRenderer` | the objects that are drawn; windows, keys | the frame loop | world objects | partly |
| `physicsEngine` | geoms, joints, bodies, running flag and thread | add / remove / connect items, getters, doPhysics, start / stop thread | ODE | partly, proved |
| `smokeTest` (`smokeTest`, `Physics`) | the spheres of the systems that were placed | breeding loop, addSystem | servers, ODE | partly |
| `utilityFiles/Utility.h`, `matrix` | none | numbers, lists and maps as text; rotations | all | partly |
| `utilityFiles/timer`, `logger`, `commands`, `codeGenerationScripts` | timers; output; constants | | all | no |

How they interact: a client connects and `Server` gives it a thread.  The thread
reads one framed command at a time and calls the one shared handler, which may
ask the client for more (a request, a reply, over the same socket), locks the
elements it needs, works on them, and replies.  Nothing is queued: what is
concurrent is the client threads inside one handler, and the physics thread
beside the program that adds and removes items.  The renderer, another program,
has its serpents (world objects) read their genes a few at a time, each frame,
while their genes mutate and the physics thread moves what they have grown.

### What is hard, and what makes each part correct

* **Handlers.**  Two levels of locks (container, element), checks made under one
  lock and used under another, a client that stops answering between any two
  steps, an element map and a mutex map that grow while others read them.
  Correct: elements are worked on in mutual exclusion, the container changes
  only while nobody is inside it, a command replaces no object that was there when
  it came, no lock is held while a client is awaited, every command returns.
* **Server.**  The handler object is deleted by a reload while other threads
  execute in it; two reloads race; a reload fails in three ways after the old
  handler is gone; descriptors are closed by their thread but stay in the list.
  Correct: a call is in a handler that exists unless a reload deletes it during
  that very call, a failed reload falls back to a handler that can be unloaded
  again, a descriptor has one thread.
* **Sockets.**  A stream cut anywhere; several messages in one read; a delimiter
  split between reads; buffers keyed by a descriptor that is reused.  Correct:
  messages come out once and in order, whole unless a send was cut, as long as
  nothing waits in one object's buffer while another object receives.
* **L-system.**  Grow and mutate resize the string they iterate over under
  minimum and maximum limits; cross may fail half way; systems go through files
  that another method reads than writes.  Correct: the limits, the alphabet, a
  failed operation's effect, and what comes back from a file.
* **Physics.**  A thread steps the world while items are added and removed;
  removal must leave no joint or body behind, and destroy none twice.  Correct:
  no dangling handle, no joint forgotten, calls return beside the thread.
* **Interpreters.**  Mutation leaves brackets unbalanced, so the four stacks of
  the turtle must be popped together and never emptied; the two interpreters
  each have their own way with a bracket too many.  Correct: the stacks, and the
  two of them agreeing on the shape of a string.  The axes are not: see
  `world_axes`.
* **World objects.**  Points move between the calls of an interpreter that
  remembers them on its stack; an element is connected to the one before it in
  its branch, which was looked up before the genes mutated; children get genes
  and a turtle of their own.  Correct: joints follow branches, names are unique,
  remembered points are current.
* **Placement.**  A collision is a flag that a callback sets; branches hang on
  branches that may have been cut.  Correct: nothing kept collides, a branch is
  cut at its first collision, no branch grows from a parent that is not there.

PROJECT.json lists each of these hazards at its line, with the properties that
would notice it.

## 2. Plan

Ordered so that the behaviour most programs of the system depend on comes first.
All of it is done:

1. `HandlerLocks`, `SystemCommandHandler` (+ `Inv`, `Proofs`), against the abstract
   `SystemRegistry`.
2. `InterpreterCommandHandler` (+ `Proofs`) on the same `HandlerLocks`, against the same
   `SystemRegistry`.
3. `Server` (+ `Proofs`): sessions, descriptors, reload; a handler in it is "a call
   in progress".
4. `PhysicsEngine` (+ `Proofs`): items, joints, the physics thread, against the
   abstract `PhysicsScene`.
5. `SocketMethods` (+ `Proofs`): framing over a byte stream, against the abstract `MessageChannel`.
6. `LSystemGeneric` (+ `Proofs`): grow and cross step by step, mutate, the limits.
7. `LSystemIncrementalInterpreter` on `Geometry`: a turtle with four stacks, over a
   string that changes between its calls.
8. `LSystemWorldObject` (+ `Proofs`): that turtle in a serpent that grows, beside
   the physics engine.
9. `Utility`, `LSystemFile`, `LSystemGenericInterpreter`, `PhysicsPlacement`
   and, of them all, `SmokeTest` (+ `Proofs`): from genes to spheres, over texts and files.

What would come next: `NoCircularWait` where crossers agree on an order, and the
lemmas about `HandlerLocks` that both handlers' proofs have in a module of their own.

## 3. Modules

### HandlerLocks

The locking every handler inherits (`CommandHandler.cc` 48-75, `ReadWriteLock.cc`,
`Mutex.cc`).  `readers` and `writer` are the read-write lock; `mutexes` says whose
node is linked under each id in `map<string,Mutex>`, `owner` who holds the mutex
in each node ever allocated, `ref` which node a thread was given.  `lock(id)` is
four steps (`readLock`, `find`, `insert`, `mutex`), `unlock(id)` two (`rwUnlock`,
`mutexUnlock`): every pthread call and every map access is one.  `std::map::operator[]`
under a read lock is a data race; the outcomes kept are that the second
insertion finds the first node, or (when `LostInsert`) displaces it.  Outcomes
that corrupt the tree are not modelled: nothing could be said after them.

### SystemCommandHandler

`SystemCommandHandler.cc` 37-243 and the templates of `CommandHandler.h` 48-135.
One program counter per client thread:

    idle -> check -> ask -> checkOther -> askMore -> (lock) -> work
         -> (unlock) -> writeLock -> store -> reply -> idle

`Receive` picks a command and its id; `Check` and `CheckOther` are
`checkIdExists` / `checkIdDoesNotExist`; `Ask` and `AskMore` are `getBasicType` and
`getMap` (the four maps of cross are one step: nothing shared is touched between
them); `Lock`, `Work`, `Unlock` are the critical section; `Store` is what happens
under the write lock.  `Leave` lets a client close its connection at any moment:
a later write may fail (`WriteFails`), or succeed and the reply be lost, which the
code reads as the empty string (`NoName`, and `lost` remembers it).  The systems
themselves are named by who created them; what run or cross does to one is the
subject of the L-system modules.  `makeCopy`'s reply to a failed `getCopy` is left
out: `LSystemGeneric::getCopy` returns true whatever happens.

A check and the store it is for are under two locks, and two clients may give out
one id between them: the later object then replaces the earlier.  The history
`found` (what was there when a command came) lets `ReplacedOnlyInRace` say that
nothing else is ever replaced.

### SystemRegistry

What a handler promises: a name is given only to a new element and only if it was
free when the command came (`free`, noted by `Come`), operations have their elements
to themselves, and the container changes only while no operation is under way.
`SystemCommandHandler!Registry` maps `systems` to `registry`, the threads at `work` on
an element to `busy` and what was not `found` to `free`: `Receive` is `Come`, the lock that
completes a command's locking is `Begin`, `Work` is `End`, `Store` is `Add`.

### SystemCommandHandlerInv, SystemCommandHandlerProofs, MCSystemCommandHandler

The bookkeeping invariants, their proofs (section 6) and the TLC instances.

### InterpreterCommandHandler

`InterpreterCommandHandler.cc` 44-205, on `HandlerLocks` and with the same places.
What differs is where the client is asked: `setAttribute` and `getAttribute` ask
before they lock, `makeCopy` asks for the new id (`CheckCopy`) and copies under the
element's lock, and `getCopy` may fail there (`copied` remembers it), in which case
nothing is stored.  It implements `SystemRegistry` too.

### Server

`Server.cc`: `serverMain` is `Accept`, `TurnAway` (`pthread_create` failed) and
`AcceptFails`; `handleClient` is one program counter per client.  `Command` parses
`command?id`; `Invoke`, `Enter`, `Finish` are the three moments of `invokeHandler`
(the NULL test, the second read of the pointer, the return); `Select` (the backup),
`Name` (the library to load), `Destroy`, `Delete`, `Forget` (the pointer is cleared),
`Dlclose`, `Dlopen`, `Make` and `Failed` are a reload and its fallback, one access to
`commandHandler`, `currentHandle` or `defaultHandlerLib` each, since nothing locks
them.  `Delete` is the library's `destroyCommandHandlerObject`, which deletes an
object of its own class and refuses any other; a refusal is logged and the reload
goes on.  `dlsym` of a NULL handle (`RTLD_DEFAULT`) may find the symbol in any open
library; a NULL handler is number 0.  SIGINT ends the process (`Exit`).  Calls come
at any time; `OneAtATime` says that reloads do not overlap each other.  The history
`disturbed` has the threads whose present call overlaps a delete.

### SocketMethods, MessageChannel

One direction of a connection.  `Write`, `SendAll`, `SendPart` are `write()`: the
loop sends the whole message again after a `send()` that took a part.  `Start`,
`Recv`, `RecvFails`, `Return` are `receive()`, one `recv()` a step; `Rest` is what
stays in `sockBuffer`.  `Close` and `Connect` give the descriptor, and with it the
buffer, to the next connection.  Bytes are kept, because the property is about
where a delimiter is cut.  The delimiter is short but has the shape of the real
one.  The branch of `receive` at 198-208 needs a buffer that is empty and has a
delimiter: it is dead.  Payloads have no NUL byte, the program sends only text.
Any number of objects receive on one descriptor (the server's and the handler's do).
The history `mixed` remembers that one began to receive while bytes waited in
another's buffer, or that a connection found bytes an earlier one had left: what is
received then is not the message (`SocketReuse`, `SocketTwoReaders`).
`MessageChannel` is what a connection promises: a FIFO that starts empty.  The
connection implements it while it is `Intact` (not `mixed`, and no send was cut).

### PhysicsEngine, PhysicsScene

`world`, `odeBodies`, `odeGeoms`, `odeJoints` are ODE's objects, `bodies`,
`geometries`, `joints` the maps of names.  What happens between `writeLock()` and
`unlock()` is a step; `connectItems` is `CreateJoint` then `Attach` (or
`AttachNull`, for the type the code accepts without creating a joint),
`removeItem` is `Remove`, `DestroyBody`, one `DestroyJoint` per joint (`gone` counts
them; the vector is cleared after the last) and `DestroyGeom`; `getPosition` is
`LookUp`, three `CopyCoordinate` outside the lock, and `ReturnPosition`.  `CheckRunning`, `Collide`, `QuickStep` are the physics thread, `Delete` and
`DestroyWorld` the destructor; after it the thread reads freed memory, which is a
free choice.  Contact joints of one collision, masses and velocities are left
out, and callers connect an item to another one (`LSystemWorldObject` never
connects an item to itself).  `PhysicsScene` is the abstract engine: items that
move, items that do not, links between those that move.

### LSystemGeneric

One call at a time, because the handlers hold the mutexes of the systems
concerned.  `mutate`, `initialize`, `getCopy` and the setters are a step each;
`grow` is a step per gene (`GrowGene`), `cross` a step per entry of its four maps.
Genes are model values, random draws are choices, `unsigned` limits wrap at
`UintMax`.  `GrowEmptyProduction` and `MutateNoOptions` are the two places of
undefined behaviour; they end the program.

### LSystemFile

`save` and `initialize` of `LSystemGeneric.cc` 54-345: comments, sections of a
keyword and a value, lists, and maps of pairs.  Limits are written as the
`unsigned` they are and read as `int`; `Readable` says what the format can hold.

### Geometry

Vectors and rotations by quarter turns about a coordinate axis (`Matrix.h`).
Numbers are whole, so every turn is exact: the code has doubles, 3.14 for pi and
any angle, and what comes of rounding is out of reach.  `vectorCrossProduct` has the
sign the code gives its second coordinate (`Matrix.h` 219), which is not that of a
cross product.  No property that is claimed to hold depends on the turns being
quarters: what the sign does is shown where nothing has turned yet (`world_axes`).

### LSystemIncrementalInterpreter

A turtle is a record of what the object keeps: points, elements, the stacks of
points, movements and two axes, the bracket count, the place it has come to in
its string.  `Grow` is a whole call of `grow`, of the string the system has at
that moment: the first gene begins the turtle, `[` pushes the four stacks, `]`
pops them (and is ignored when no bracket is open), a letter turns or moves.  Its
result is a set, of what the call may return.  `Prev` and `UpdatePoint` are the
other two methods.

### LSystemWorldObject

`LSystemWorldObject.cc` with the frame loop of `OISFrame`.  `genes` and `turtles`
are the heap: `System*` and `Interpreter*` are places there.  `grow` is a step for
each call of the engine or the interpreter: `Refresh` tells the turtle where one
body is, `ReadGene` reads one gene, `Mutate` has the genes mutate (and grow, which
may fail), `MakeElement` adds the body, `Connect` joins it to the element before
it, which was looked up before.  `Move` is the physics thread: it moves any body
between any two of these.  `CreateAgain`, `Create`, `Breed`, the setters, `NoPhysics`
and `RestartPhysics` come between frames.  All serpents have one name, so that only
their ids keep their elements apart.  What mutation and growth make of a string is
a parameter (`SystemMutated`, `SystemGrown`), because `LSystemGeneric` has the
details.  `stringTo` reads a GrowthRate that is no number as 0, which passes the
test of its range in spite of the message (`ReadRate`); of the rates
only 0 (it never grows) differs from the others (it grows as often as there was
time), which 1 stands for, the default 0.2 too.  The 100 times `create` grows a new
system are in the file's string, and its return for a NULL scene manager is left
out, as the renderer hands every serpent the one it has.  `trace` is a history: what each turtle made sense of, in order.

Breeding crosses nothing: `WorldObject::cross` assigns the number 3 to a string,
which is the character 3 and not "3", and `LSystemGeneric::cross` knows no such
operation.  `Breed` therefore copies.

### Utility

`stringTo`, `trim`, `split`, `parseVector`, `parseMap`, `mapToString`, `vectorToString`
(`Utility.h` 80-420) as functions of texts.  A text is a sequence of atoms: the
delimiters these methods look for, spaces, and what they do not look into.

### LSystemGenericInterpreter

`systemAttributes`, set, looked for (which creates what is not there) and saved to
and loaded from a file of words; `getSystem`, a fold over the genes; `getPoints`,
which sorts points by the depth of their brackets with an unsigned cursor that
wraps (`UintSize`), and reads of a coordinate like 1e+06 only the 06.  The file has
the attributes in the order of `Keys`, as the map has them in the order of their
names; a run's `Keys` are all the names it ever sets.

### PhysicsPlacement

`Physics::addSystem` in both forms (`Physics.cc` 35-292): a point at a time is made
a sphere (`Place`), which `Collided` looks at as the callback would; at a collision
the branch ends (`BranchEnd`); a branch that begins with a pointer asks whether its
parent was placed (`PointerCut`, `Skip`).  Radii are in parts of a unit that make the
code's 2.3 a whole number.

### SmokeTest

The chain from genes to spheres, as `smokeTest.cc` has it: maps are sent
(`SendMap`), a system is saved and loaded (`StoreSystem`), attributes are set, saved
and loaded, a string is interpreted (`Interpret`), sorted (`Sort`) and placed
(`PlaceOne`, then the steps of `PhysicsPlacement`).  `Strange` are interpreted systems
the interpreter does not make but the text may hold.  The incremental interpreter
is an instance, to compare: `ReadBy` gives it the same text, a gene at a call, and
`SameShape` asks it of texts of words both know, fewer than its `MaxPoints`, where the
angles and the size are numbers.  As the file stands `smokeTest.cc` and `Physics.cc` are
in no Makefile (`getPoints` has another signature by now, and `DO_PHYSICS` is defined
nowhere): what is modelled is what the source says.

### The rest

`MC...` modules are the TLC instances; `...Proofs` the proofs (section 6).  Operators
whose names begin with `Faulty`, `Forgetful`, `Hasty`, `Stuck`, `Self`, `Shared` are what a plausible
bug would make of the definition they precede: each breaks one property of one
run, and PROJECT.json says which.

## 4. Runs

| Run | Asks | Bounds |
|---|---|---|
| `handler` | safety, refinement of `SystemRegistry`, liveness | 2 clients, 4 ids (2 known, 1 new, the empty one), both clients give out the new one and one that is taken each, 1 command each out of all 7, run of at most 2 iterations, client `t1` may leave, crosses in one order |
| `handler_lost_insert_exclusion` | *violation*: exclusion needs the mutex map | 2 runs on one system |
| `interpreter` | safety, refinement of `SystemRegistry`, liveness | as `handler`, the 7 commands of this handler |
| `server` | a reload leaves a handler, descriptors have one owner, a call no delete overlaps is in a handler that exists, threads end | 2 clients, 2 connections beyond the listener, 3 commands in all; any client reloads any of 5 libraries (2 sound, 1 missing, 1 without each symbol), one reload at a time, beside calls at any time |
| `server_reload_in_use` | *violation*: the handler "may be called from several threads" and "allows a library to be updated" | 1 sound library, 2 commands |
| `sockets` | messages come out once, in order, none is stuck, refinement of `MessageChannel`, whatever the cuts | 2 messages of at most 2 characters, 2 ahead, reads of 1-3 bytes, 1 partial send, 2 receiving objects in any order, the descriptor used again |
| `socket_resend` | *violation*: a message after a partial send is whole | 1 partial send |
| `physics` | handles, joints, refinement of `PhysicsScene`, calls return | 2 names, used again, as static and dynamic items; 7 ODE objects; joints `ball` and `motor` |
| `lsystem` | growth, cross, limits, calls return | 2 systems, 2 genes, 2 initial strings and 5 cross maps, strings of at most 7, 2 calls |
| `world` | stacks, remembered points, genomes, names, joints, frames end | 2 serpents, 5 kinds of files (with unbalanced brackets, sizes of their own, a bad mesh map, a bad angle, a bad growth rate, nothing), 1 mutation, 1 move by physics, 3 frames, 2 calls between frames |
| `world_axes` | *violation*: the axes a turtle starts with are at right angles | a start direction of 0,1,1; nothing turns |
| `smoke_test` | texts and files give back what they got, the interpreters agree, points are sorted, placement stops at collisions | all strings of at most 2 words out of 7, those of 3 and 4 with brackets and turns, some longer and two with commas and spaces inside a word; at most 100 points (`MaxPoints`); 12 systems saved, 11 maps, 3 sets of attributes; 2 calls before |

A module's `TypeOK` is the first conjunct of the property that needs it most
(`InterpretersStable`, `OwnDescriptor`, `MessageIsTail`, `HandlesLive`, `GrowsByTheRules`,
`JointsFollowBranches`, `SameShape`); the system handler's is checked by itself.

Two clients with one command each are enough for every pairwise race: a handler
keeps nothing between commands except the two maps, an id both give out is enough
for them to race for it, and the initial states
already contain systems and mutexes that earlier commands left behind (any
subset of the mutexes is there).  Three clients add only longer queues for the
same mutex; the theorems of section 6 have any number of them.
`CHECK_DEADLOCK FALSE` is set where the system really may stop: clients need not
send another command.

For the server: a reload is a sequence of accesses by one thread (the backup, the
name, `dlsym`, delete, clear, `dlclose`, `dlopen`, make, and again for the backup), so
the second client is enough to be anywhere in a call at each of them, and a second
connection of the same client has the descriptor of its first, whose number is
still in `socks`.  Three commands are two reloads and a call, or a reload and two
calls.  Its proofs have any number.  For the sockets: a read of 3 bytes
spans a whole delimiter, part of one, or the end of one message and the start of
the next, and the payloads include one that looks like the start of a delimiter;
2 messages ahead leave one waiting in a buffer when the other object receives or
the connection ends.  For the engine: every operation names at most two items, and
7 objects let both be added and connected, removed, and added and connected again
(a body and a geometry are given out with each item, a joint with each link).  For the L-system: 2 calls are a
setter (or a mutation, or a cross) followed by a growth, and the initial states
already have every limit, rule and string the inputs name; what one call leaves
for another is in the object's state alone.  For the serpents: three frames are
enough to read a branch, have it mutated while the turtle is inside it, and go
on; a moved body is seen by the refresh of the next frame; two serpents are
enough to share what they should not.  For the chain: what a word does depends
on the stacks and the bracket count alone, so the strings that matter are those
with a bracket too many, a branch of a branch, and turns in one; they are there.

The four violation runs are disagreements between the code and what its
comments and tests say; PROJECT.json quotes both.

### Configurations to run by hand

These are instances without the restriction a passing run needs, or of a
property the code does not have, kept as a record of why.  TLC finds each
violated.  The three `...Failing` list several properties: keep one at a time.

| Configuration (module `MC...`) | Property | What happens |
|---|---|---|
| `HandlerAnyPairs` (SystemCommandHandler) | `NoCircularWait` | crosses of (a, b) and (b, a) wait for each other for ever (`SystemCommandHandler.cc` 197-198) |
| `HandlerSharedNames` (SystemCommandHandler) | `NeverOverwritten` | both clients create one id, the second object replaces the first (86; interpreters likewise, `InterpreterCommandHandler.cc` 84): the case `ReplacedOnlyInRace` allows for |
| `HandlerDeparture` (SystemCommandHandler) | `LostReplyBailsOut` | a lost reply is the empty string, and the command goes on (`CommandHandler.h` 122) |
| `ServerReloadRace` (Server) | `ReloadLeavesHandler` | two reloads open a library twice and lose a handler (230) |
| `ServerReloadStale` (Server) | `ReallyReloaded` | a library without `createCommandHandlerObject` is never closed, and naming it again finds the old image (237) |
| `SocketReuse` (SocketMethods) | `WholeMessages` | a connection reads what its predecessor left in `sockBuffer` (`SocketMethods.cc` 251): it is `mixed` |
| `SocketTwoReaders` (SocketMethods) | `WholeMessages` | with a peer that writes ahead, one object's read-ahead is missing from the other's message (190): they are `mixed` |
| `PhysicsFailing` (PhysicsEngine) | `RemovedItemsAreGone` | the geometry of a removed dynamic item stays in the space (`PhysicsEngine.cc` 42) |
| | `StaticItemsReachable` | a second static item of a name hides the first (74) |
| | `NoNullJoint` | a NULL joint is attached (199) |
| | `PositionOfOneMoment` | coordinates of two moments (378) |
| | `NoStepAfterDestroy` | the thread steps a destroyed world (`PhysicsEngine.h` 58, `PhysicsEngine.cc` 455) |
| `LSystemTypes` (LSystemGeneric) | `MutationTypesKnown` | drawing a key of the growth rules looks it up among the mutation probabilities and so makes a mutation type of it (`LSystemGeneric.cc` 1001) |
| `WorldFailing` (LSystemWorldObject) | `StartsWherePut` | the size of the mesh stays in the stream and in front of the start point (`LSystemWorldObject.cc` 116) |
| | `CreateRestoresPhysics` | `create` does not turn physics on again (`WorldObject.h` 122) |
| `SmokeFailing` (SmokeTest) | `EverySystemLoads` | a system without a limit (-1), or with the rule "STU's GREAT!" of `testLSystem`, is not loaded as it was saved |
| | `EveryMapArrives` | a rule with an element of its own size, `S(u)`, ends at its bracket (`Utility.h` 323) |
| | `PlacesArrive` | of a coordinate like 1e+06 only the exponent is read (`LSystemGenericInterpreter.cc` 295) |
| | `BranchesHaveParents` | a branch is placed although the point it hangs on was cut: `getPoints` makes no pointers |
| | `EmptyLoadedAsSaved` | looking for a missing attribute makes an empty one, which makes the file shift (410, 469) |

## 5. Fairness

`FairSpec` of the handler gives weak fairness to each thread's `Step`: a thread that
can go on does (threads are scheduled by the operating system, round robin when
`serverMain` is asked to), and a client answers a request or leaves.  Sending a
command and leaving are not fair.  No lock is fair: pthread read-write locks
prefer readers and mutexes promise no order, so strong fairness on a lock would
be more than the code has.  `EveryCommandReturns` holds nevertheless because each
client sends at most `MaxCommands` commands; with an endless stream of commands a
writer (create, makeCopy) may wait for ever behind readers, and nothing in the
code prevents it.  `InterpreterCommandHandler` has the same fairness for the same
reasons.

`Server`: weak fairness of each client's thread (`Step`).  Clients connect, send and
leave when they like; `ThreadsGoAway` is only about those that left.

`SocketMethods`: weak fairness of `SendAll` (a `send()` that takes everything is
always possible, a partial one is at most repeated) and of the receiving thread,
which calls `receive` in a loop; the peer need not write.

`PhysicsEngine`: weak fairness of the physics thread and of a call in progress
(`Continue`).  The engine lock is not fair: `CallsReturn` holds because the thread
sleeps between its critical sections, so a caller's lock is always taken in the
end; as a call's locked part is one step, that is what weak fairness of `Continue`
says.  Starvation is so assumed away: what `CallsReturn` then checks is that the
calls that take several steps, `removeItem`'s loop over its joints above all, come
to their end whatever the thread does between them.

`LSystemGeneric`: weak fairness of a call in progress, which no other call
interrupts.

`LSystemWorldObject`: weak fairness of `Render`, the steps of a frame that was begun:
the calls of the physics engine it makes return (`PhysicsEngine!CallsReturn`), and
nothing else blocks it.  Frames need not begin.  `SmokeTest` states none.

## 6. Proofs

### SystemCommandHandlerProofs

For every number of clients, ids, commands and iterations:

* `LocksBookkept`: `LockInv` is an invariant.  It is inductive by itself: `TypeOK`;
  which command can be at which place (`OpAtPlace`); what a lock or unlock call is
  about (`TargetAtPlace`); an iteration is left to do (`LeftAtPlace`); the read-write
  lock is held as the places say (`RwLockHeld`); what a check found still exists
  (`StillExists`).  `TypeOK` alone is not inductive (a reader count could go below
  zero), hence `RwLockHeld`, and `ContainerStable` needs that in turn.
* `TypeCorrect`, `ContainerIsStable`, `NoNullDereference` follow, whatever happens to the
  mutexes map and however ids are shared.
* `SystemsExclusive`, `TalksUnlocked` under the assumption `~LostInsert`, from `MutexesHeld`:
  every mutex is held by exactly the thread whose place says so, in the node that
  is in the map.  That is the assumption the code does not establish
  (`handler_lost_insert_exclusion`).
* `NamesKept` states `ReplacedOnlyInRace`, without any hypothesis on ids: whatever
  `create` or `makeCopy` replaces was not there when its command came.  It follows
  from `FreeWhenItCame`: the id of a command that is past its check was not found then,
  because nothing is ever removed, so what a check does not find was not there before.
* `HandlerImplementsRegistry` under `~LostInsert`: every step is a step of
  `SystemRegistry` or a stutter.

Each invariant has one lemma per action (`...Keeps`, `...KeepsMutexes`, `...KeepsFree`), and
in it one step per conjunct the action can disturb.  The assumptions used are
`LockAssumption` and `HandlerAssumption`, which only say that the constants are
well-formed.

### InterpreterCommandHandlerProofs

The same argument for the other handler, for every number of clients, ids and
commands; only what its own places add is new.  `CommandInv` (types, the
operation at each place, what a lock is about, the read-write lock as the places
say, what a check found still exists) is inductive by itself and gives
`CommandsBookkept` and `InterpretersAreStable` without any hypothesis: mutexes may be
lost and ids shared.  `TalksWithoutLocks` needs `~LostInsert` and `MutexesHeld`;
`InterpretersKept` states `ReplacedOnlyInRace`, from `FreeWhenItCame` and without a
hypothesis; `InterpretersImplementRegistry` needs `~LostInsert`.  A copy that fails under its lock stores nothing, which is a stutter.

### ServerProofs

For every finite set of clients, any libraries, connections and commands.  Three
invariants, one on the other:

* `DescriptorsStayOwn`: `DescriptorInv` is `OwnDescriptor` (the open descriptors are the
  listener's and one for each thread, of its own), with `HandleOpen` and
  `AwayWithout`.  The least free number is a descriptor because there are more
  numbers than clients (`NewFdIsFree`, by pigeonhole): that is what `Clients` is
  assumed to be finite for.
* `ReloadsLeaveHandler`: `ReloadInv` says of each place of a reload what exists there:
  which handler is alive, which library is open and how often, and that the backup
  can be loaded.  It is proved under `OneAtATime` (no reload begins during another),
  which `ServerReloadRace` shows to be needed and which the code does not enforce.
* `CallsStayInLiving` states `UndisturbedCalls`, also under `OneAtATime`: calls and
  reloads overlap in any way, and a call is in a handler that exists unless a delete
  came during it.  `CallState` says the same of a call on its way in, which is what
  makes it inductive beside `ReloadInv`: a thread between the test and the call, which
  no delete has disturbed, will find a handler that is alive.  `server_reload_in_use`
  shows what happens to the others.

### SocketMethodsProofs

For any characters, delimiter, messages, buffer size and number of messages.
`BuffersStaySmall` (every type; no buffer ever holds as much as one `recv()` takes)
has no hypothesis: `BufferInv` adds what a receive and a write leave behind at each
place.  What a receiver gets depends on how the system uses the connection, which
is what the other theorems assume:

* `Framed`: a delimiter is in a framed message at its end only.  Without it no
  receiver could tell where a message ends.
* `MessagesAreTails` states `MessageIsTail` for any number of receiving objects and of
  connections on one descriptor, however far the peer writes ahead, and for sends
  that are cut and sent again, under `Unmistaken` (no message starts with an end of
  the delimiter, or the part that was sent and the message behind it could make up
  one): until a connection is `mixed`, every message is at the end of what is received
  in its place, and no more of them have something in front than sends were cut.
  `socket_resend` shows that more is not true.
* `ConnectionsImplementChannel` states `ImplementsChannel`, where no send is cut
  (`MaxParts = 0`) or under `Unmistaken`: a connection is a channel until it is `mixed` or
  a send is cut.
* `TurnsNeverMix` says when that never happens: peers that take turns (`Window = 1`, as
  `sendCommand` does) and no send that is cut.  `TurnsInv`: every buffer is empty, and
  what is in flight is a first part of the one message there is.  `SocketTwoReaders`
  and `SocketReuse` show what happens when the peer writes ahead.

`WholeMessages` alone is not inductive: it says nothing of what is on its way.
`StreamInv` says that there are frames, one for each message sent, that begin with
what a cut send left, such that what was received is the first of them and the
receiver's buffer, the message it puts together, the wire and the writer's rest
make up the others.  `MixInv` is that, unless the connection is `mixed`, this is so of
some one object and every other object's buffer is empty.

### PhysicsEngineProofs

For any items and joint types and any number of handles and steps, with
`PhysicsAssumption`.  `EngineInv` is inductive: `HandlesUsed` (a handle is given out once),
`BodiesNamed`, `GeometriesNamed`, `JointsNamed` (what has a name exists, and has one
name), `JointsWithItem` (a joint is attached to the body of the item it is recorded
under or to nothing, and an item without a body has no joints unless they are being
destroyed; the first of those may be `Gone`: destroyed, but in the vector still) and
`CallAt` (where a call is tells what its item has).  `HandlesLive` alone
is not inductive: two names for one body, or a joint recorded under an item that
was removed, would break it later.  `HandlesStayLive` and `JointsStayReachable` follow.

`EngineIsScene`: every step is a step of `PhysicsScene` or a stutter.  `DestroyJoint`
stutters because, by `JointsWithItem`, a joint that is destroyed is attached to
nothing: its links went with the body.

### LSystemGenericProofs

For any systems, strings, rules, limits, crossings and number of calls, with
`LSystemAssumption` and `InputAssumption`, which say of files and requests only what
their types do.

* `TypesStay`, `LimitsStayRespected` follow from `SystemInv`: types, and that the call in
  progress has what it was given (an iteration never is more than one past the end
  of the string it changes).
* `CrossOnlyExchanges`: `CrossExchanges` is inductive relative to it.  A swap exchanges
  two places in one or two strings; counting genes on both sides needs that the
  places that have a gene are in one-to-one correspondence with those before.
* `GrowthFollowsRules`: `GrowsByTheRules` speaks of the end of `grow` only.  `GrowInv` says
  where an iteration is: the first k genes of the string there was are rewritten
  (all of the last one's production, or as much of it as there was room for), the
  others are as they were, and there was room before each of them.

`RewrittenBy` is the community modules' `FlattenSeq`, a recursive function.  That there
is such a function for every string (`UnrolledExists`) and only one (`UnrolledOnce`) is
proved without the library's induction theorems, by contradiction: there would be
a least length, or place, at which it fails.

### LSystemWorldObjectProofs

For any number of serpents, any genes, files and positions, and whatever
`SystemMutated` and `SystemGrown` are.  `TurtleInv` is what a turtle keeps by itself,
with a lemma for each method (the four stacks have a level for the trunk and one
for each open bracket; each entry of the point stack is where its point is).
`WorldInv` adds `HeapInv`, `ObjectsInv`, `OwnGenome`, `NamesInv` (an element has an id
that was given out and an index its turtle has given) and `GrowerInv` (where the
render thread is); it is inductive, with a lemma for each action.
`StacksStayTogether`, `StackPointsStayCurrent`, `GenomesStayOwn` and `NamesStayUnique`
follow.  The proof uses `IsSeq`, a sequence of anything, because mutation may make
anything of the genes.

`StartAxisLeans` is why `world_axes` fails, for every start direction (x, y, z): with the
sign that `Matrix.h` 219 gives the second coordinate, the scalar product of the
direction and the vertical axis made for it is -2yz.  Nothing has turned yet, so no
rotation, and none of what `Geometry` makes of one, is involved.

`JointsStayOnBranches` states `JointsFollowBranches`.  What it takes is in two more
invariants beside `WorldInv`:

* `JointsInv`, by itself `HistoryExplainsJoints`, without a hypothesis.  `trace` is a
  history: what each turtle made sense of since it was made.  `HistoryInv` says that
  the stacks of a turtle are what that history explains: the brackets it has open
  are the opening ones of the history that were not closed, in order (`Opened`, where
  `Depth` counts), and each level of the point stack has the index of the last point
  before its bracket in none but brackets that are open there (`LastIs`); no two
  points have one index.  So `Prev`, which looks at a stack only, returns the point
  that the definition of `Follows`, which looks at the history only, asks for.
  `IdsInv` (no two serpents ever read under one id), `ReadInv` (what is drawn was
  read), `PendingInv` (the element in the making is the last that was read, and
  `prevIndex` what it follows) and `LinksInv` (joints are exactly those of the history,
  but for the one `Connect` is about to make) say what else a step relies on.
  `JointsFollowBranches` alone is not inductive: it is silent during a frame, and
  silent of the stack from which the next joint comes.
* `TypesInv`, under `WellTyped`: what a file has is Bad or of the type the code reads it
  as, `SystemMutated` and `SystemGrown` make genes of genes, and a position's first
  coordinate is below 10000, as `PowerAbove` knows no longer numbers.  `World` runs with
  constants of that kind.  No hypothesis is made of angles or of directions here.

### SmokeTestProofs

For strings, attributes, maps, systems, lists and branches of any size, number
formats with any numbers, any width of `unsigned` and any number of calls.
`SmokeTestAssumption`, `LoadedAssumption`, `FileAssumption` and `GenericAssumption` say
what type each constant has (keys, settings and values are texts, and what stands for
text that is no number is not a point); the run evaluates them.  Many of these proofs are about
loops of the code, which are folds and recursive functions in the model.  They need
no induction theorem: of the turns at which a claim about the loop were false there
would be a least (`LeastNatural`, which is well-foundedness of the natural numbers), and
the turn before it makes it true after all.

* `PointsAreSorted` and `BracketsOpenFirst` state `SortedByDepth` and `OpenedFirst`, from
  `StringInv`: what was interpreted consists of points and brackets of which each
  beginning opens as many as it closes, and what was sorted is what `getPoints` makes of
  it.  The loop of `getPoints` keeps, at each turn, that what it has flushed and what it
  still has to flush are together the points so far, by the depth of their brackets,
  and that its cursor is that depth, as an `unsigned`.  `Moderate` is part of the
  property: a depth that the `int` of a key has no room for is another depth to the
  code, and a coordinate from a million on is printed with an exponent
  (`PlacesArrive` in `SmokeFailing`).
* `MapsAndSystemsArrive` states `ArrivesAsSent`.  For maps, `MapParsed`: `parseMap` finds
  the pairs of `mapToString` one by one, each turn beginning where the one before
  ended.  For systems, in the order the code reads: nothing is lost with a comment
  (`LineRead`, line by line), each token is the keyword of its line or part of its
  value, and no value looks like a keyword (`FileRead`: the sections `keyValuePairs` finds
  are those that `save` wrote); then each section is turned back by its own method:
  numbers (`NumberWritten`), lists (`ListWritten`), chances (`ChancesWritten`, which is
  `MapParsed` again) and growth rules (`RulesWritten`, where a rule is split at the first
  colon only).  `SystemLoaded` puts them together.  `Legible` and `Readable` are part of
  the property and say what the formats cannot hold; `SmokeFailing` shows for some of
  it what happens otherwise.
* `SavedAttributesLoad` states the action property `LoadedAsSaved`, from `FileInv`, which
  is about the types of the attributes and of the file: of words that come in pairs,
  `loadAttributes` finds behind each name its value.  `OneWord` (part of the property)
  is that each name is in `Keys`, the list of names the model writes files in the
  order of, and each value one word; an empty one shifts all that follow.
* `CollisionsStopBranches` states `StopsAtCollisions`, with no other hypothesis: what
  `getPoints` returns is, by `StringInv`, a system of levels that have a least one,
  as `addSystem` needs it.
  `SpaceInv` is inductive: types, how far the loops have come (`Progress`: the levels
  that are done are those below the present one; the flag is FALSE between calls, on
  which the methods for lists rely), no two spheres touch, and
  `BeginningsPlaced`: of each branch the first `Done` points have a sphere, no other
  spheres are new, and where a branch was cut the next point met one.
  `StopsAtCollisions` alone is not inductive, because it is silent while a system is
  placed.  `OnlyTheLast` is the comment in the code: as no two spheres touched before,
  a collision is one of the sphere that was added.
* `ParentsComeFirst` states `ParentsPlaced`.  `ParentInv` adds that every new sphere is of
  a branch whose pointer leads to what was placed (`ComeFromGrown`), and that
  points before the present one have a sphere (`PassedAreThere`); `ret` counts
  placed points and not pointers, so it never is more than the points that were
  passed.  The hypothesis `Pointing` is that a pointer to a level before its own has
  an index, and leads to a point or a pointer if to anything; and that no two
  branches share a point, because the property knows a point's sphere by its place.
  Pointers to a later level or to none are not restricted: such a branch is cut.
  `Pointed` in the run satisfies it (`PointedPoint` in `MCSmokeTest`, which TLC evaluates);
  what `getPoints` returns has points only, so the hypothesis is about no other system.
* `TypesHold` states `TypeOK` of the whole chain, from `TypesInv`: `StringInv`, `SpaceInv`,
  `PlacedWhole` (what has a sphere is a point, never a pointer), `AttributesInv` (what is set,
  saved and in the file is text; `LoadsTexts` says that `loadAttributes` makes texts of
  a text) and `CallsInv`.  It and the next one assume that an exponent is a number:
  of a number that is printed with an exponent, `Exponent` is what is read back, and an
  `ASSUME` over all of `Int` is nothing TLC could evaluate (it is 6 in the run).
* `InterpretersAgree` states `SameShape`, by a simulation.  `Twins` relates a turn of the
  servers' loop to the turtle: as many brackets are open as each of its four stacks
  has entries above the first, the items so far are alike, and, as long as nothing turned
  (`exact`), the places on the stacks are the same.  `WordFollows` is one gene; a word that
  is empty without its spaces is no gene to either (`FilledCounts`); `ShapesSimulated`
  is the whole string.  `ShapesAgree` stays true afterwards, although looking up an
  attribute inserts it: what is inserted is empty, as what was not there, so the turtle
  would be the same (`LookedSame`, `SameTurtle`).  `Numbered` and `Known` are part of the
  property: where an angle or the size is no number, the one goes on with zero and the
  other fails, and the turtle has indices for `MaxPoints` points only.

### Only model-checked

Liveness (`EveryCommandReturns`, `ThreadsGoAway`, `EverySentArrives`, `CallsReturn`,
`FrameReturns`), because fairness and ENABLED are out of the prover's reach.
`NoCircularWait`, which holds where crossers agree on an order: a proof would have
to make a ranking of chains of waiting threads of any length.  It is in no run of
the project but one to run by hand; every safety and action property of the passing runs
is stated by a theorem.

## 7. Not modelled

* Failures of the pthread calls themselves (they are logged, not handled), and
  memory exhaustion.
* `SocketMethods`: opening and binding sockets is pure I/O; `sendCommand` and
  `sendCommandSequence` are the case `Window = 1`, without their reading of replies
  for "Error:" and "Warning:".
* `LSystemGeneric`: the statistics (swaps, toggles, steps) and the ids; no decision
  reads them.
* `LSystemGenericInterpreter`: `setId`, the descriptions of attributes, `printSystem`.
* World objects: `update` (it draws), `WorldObject`'s own create and setPosition and
  `StaticWorldObject`, each one item of the engine, whose calls `PhysicsEngine` models
  in any order.
* `PhysicsEngine`: gravity, masses, velocities and the contact joints of one
  collision; no other operation reads them.
* `smokeTest`: its windows, timing and the endless loop of `main`; what it asks of
  the servers is in the handlers' modules.
* `Utility` and `Matrix`: random numbers, file access, midpoints and helpers nothing
  modelled uses.  Rounding of doubles.
* `ogreRenderer` but its frame loop, the code generators and the generated `Commands`:
  user interface, tooling and constants.
* `Timer` (differences of clock values for printing), `Logger`, `CommonAspect`: output.
