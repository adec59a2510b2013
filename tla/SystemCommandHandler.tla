------------------------ MODULE SystemCommandHandler ------------------------
(***************************************************************************)
(* SystemCommandHandler: the commands clients send about the LSystems of   *)
(* one server, each run by the client's own thread to its end before the   *)
(* thread reads the next command.                                          *)
(*                                                                         *)
(* A handler checks its ids, asks its client for the arguments, locks the  *)
(* elements it works on, works, unlocks, and replies:                      *)
(*                                                                         *)
(*   idle -> check -> ask -> checkOther -> askMore -> (lock) -> work ->    *)
(*           (unlock) -> writeLock -> store -> reply -> idle               *)
(*                                                                         *)
(* each command skipping what it does not need; a failed check, a bad      *)
(* argument or a failed write sends it back to idle.  The string a lost    *)
(* reply leaves behind is empty: NoName.                                   *)
(***************************************************************************)
EXTENDS HandlerLocks

CONSTANTS
    Ops,            \* the commands clients send in this instance
    Names,          \* Names[t]: the new ids client t gives out
    CrossPairs,     \* the <<id, crossId>> pairs clients ask to cross
    Departing,      \* the clients that may close their connection
    NoName,         \* the id "", what a lost reply is read as
    MaxIterations,  \* bound: iterations of one run command
    MaxCommands     \* bound: commands of one client

(* What handleCommand dispatches on; "unknown" is any other command. *)
AllOps == {"create", "getSystem", "run", "load", "cross", "makeCopy", "unknown"}

ASSUME HandlerAssumption ==
    /\ Ops \subseteq AllOps
    /\ Names \in [Threads -> SUBSET Ids]
    /\ CrossPairs \subseteq Ids \X Ids
    /\ Departing \subseteq Threads
    /\ NoName \in Ids
    /\ MaxIterations \in Nat
    /\ MaxCommands \in Nat

VARIABLES
    systems,    \* map<string,System*>: the creator of the object under an id
    op,         \* the command a thread runs
    id,         \* its id
    other,      \* crossId or newId, once the client has sent it
    left,       \* run iterations still to do
    lost,       \* has recieve() failed on a reply this command has used?
    found,      \* history: the ids that were there when a thread's command came
    online,     \* the clients that have not closed their connection
    sent        \* how many commands each client has sent

argVars == <<op, id, other, left, lost, found>>
vars == <<lockVars, pc, target, systems, argVars, online, sent>>

ForgetfulTwoSystems(t) == FALSE            \* crossId never locked

TwoSystems(t) == op[t] = "cross" /\ other[t] # id[t]

(* The elements the critical section of t's command works on. *)
Touched(t) == IF op[t] = "cross" THEN {id[t], other[t]} ELSE {id[t]}

Init ==
    /\ LockInit
    /\ systems = [i \in Ids |-> IF i \in Known THEN Boot ELSE Absent]
    /\ pc = [t \in Threads |-> "idle"]
    /\ op = [t \in Threads |-> "unknown"]
    /\ target = [t \in Threads |-> NoName]
    /\ id = [t \in Threads |-> NoName]
    /\ other = [t \in Threads |-> NoName]
    /\ left = [t \in Threads |-> 0]
    /\ lost = [t \in Threads |-> FALSE]
    /\ found = [t \in Threads |-> {}]
    /\ online = Threads
    /\ sent = [t \in Threads |-> 0]

-----------------------------------------------------------------------------
(* The client's side of a connection *)

Exists(i) == systems[i] # Absent

(* handleClient reads command?id and handleCommand dispatches it; an id in *)
(* a command is never empty.                                               *)
Receive(t) ==
    /\ pc[t] = "idle" /\ t \in online /\ sent[t] < MaxCommands
    /\ \E c \in Ops : \E i \in Ids \ {NoName} :
          /\ c = "create" => i \in Names[t]
          /\ c = "cross" => \E j \in Ids : <<i, j>> \in CrossPairs
          /\ op' = [op EXCEPT ![t] = c]
          /\ id' = [id EXCEPT ![t] = i]
          /\ target' = [target EXCEPT ![t] = i]
          /\ other' = [other EXCEPT ![t] = NoName]
          /\ left' = [left EXCEPT ![t] = IF c = "run" THEN MaxIterations ELSE 1]
          /\ lost' = [lost EXCEPT ![t] = FALSE]
          /\ found' = [found EXCEPT ![t] = {j \in Ids : Exists(j)}]
          /\ Goto(t, IF c = "unknown" THEN "reply" ELSE "check")
    /\ sent' = [sent EXCEPT ![t] = @ + 1]
    /\ UNCHANGED <<lockVars, systems, online>>

Leave(t) ==
    /\ t \in online \cap Departing
    /\ online' = online \ {t}
    /\ UNCHANGED <<lockVars, pc, target, systems, argVars, sent>>

-----------------------------------------------------------------------------
(* checkIdExists / checkIdDoesNotExist: readLock, find, unlock.  Nothing   *)
(* else happens under that read lock, so the three are one step.           *)

Check(t) ==
    /\ pc[t] = "check"
    /\ CanRead
    /\ IF Exists(id[t]) = (op[t] = "create")
       THEN Goto(t, "idle")
       ELSE Goto(t, CASE op[t] = "create" -> "writeLock"
                      [] op[t] \in {"run", "cross", "makeCopy"} -> "ask"
                      [] OTHER -> "readLock")
    /\ UNCHANGED <<lockVars, target, systems, argVars, online, sent>>

FaultyCheckOther(t) ==
    /\ pc[t] = "checkOther" /\ CanRead
    /\ Goto(t, IF op[t] = "makeCopy" THEN "readLock" ELSE "askMore")
    /\ UNCHANGED <<lockVars, target, systems, argVars, online, sent>>

CheckOther(t) ==
    /\ pc[t] = "checkOther"
    /\ CanRead
    /\ IF Exists(other[t]) = (op[t] = "makeCopy")
       THEN Goto(t, "idle")
       ELSE Goto(t, IF op[t] = "makeCopy" THEN "readLock" ELSE "askMore")
    /\ UNCHANGED <<lockVars, target, systems, argVars, online, sent>>

-----------------------------------------------------------------------------
(* getBasicType / getMap: write the request, recieve the reply, convert.   *)

(* The client has gone: the write fails and the command is over. *)
WriteFails(t) ==
    /\ t \notin online
    /\ Goto(t, "idle")
    /\ UNCHANGED <<other, left, lost>>

(* The request for the number of iterations, crossId or newId. *)
Ask(t) ==
    /\ pc[t] = "ask"
    /\ \/ WriteFails(t)
       \/ /\ op[t] = "run"      \* a number, or a string that is not one
          /\ \/ /\ t \in online
                /\ \E n \in 0 .. MaxIterations : left' = [left EXCEPT ![t] = n]
                /\ Goto(t, "askMore")
             \/ Goto(t, "idle") /\ UNCHANGED left
          /\ UNCHANGED <<other, lost>>
       \/ /\ op[t] \in {"cross", "makeCopy"}
          /\ \E x \in Ids :
                /\ IF t \in online
                   THEN IF op[t] = "cross" THEN <<id[t], x>> \in CrossPairs
                                           ELSE x \in Names[t]
                   ELSE x = NoName
                /\ other' = [other EXCEPT ![t] = x]
          /\ lost' = [lost EXCEPT ![t] = t \notin online]
          /\ Goto(t, "checkOther")
          /\ UNCHANGED left
    /\ UNCHANGED <<lockVars, target, systems, op, id, found, online, sent>>

(* The request for run's mode, or the four for cross's maps (which touch   *)
(* nothing shared, so they are one step).  Any string is a mode, and the   *)
(* empty string is a map: a failed recieve() goes unnoticed.               *)
AskMore(t) ==
    /\ pc[t] = "askMore"
    /\ \/ WriteFails(t)
       \/ /\ op[t] = "cross"    \* a reply that is not a map
          /\ Goto(t, "idle")
          /\ UNCHANGED <<other, left, lost>>
       \/ /\ Goto(t, IF op[t] = "run" /\ left[t] = 0 THEN "reply" ELSE "readLock")
          /\ lost' = [lost EXCEPT ![t] = @ \/ t \notin online]
          /\ UNCHANGED <<other, left>>
    /\ UNCHANGED <<lockVars, target, systems, op, id, found, online, sent>>

-----------------------------------------------------------------------------
(* The critical section *)

(* cross locks id, then crossId when it is another system. *)
Lock(t) ==
    /\ LET next == TwoSystems(t) /\ target[t] = id[t] IN
          /\ LockMutex(t, IF next THEN "readLock" ELSE "work")
          /\ target' = [target EXCEPT ![t] = IF next THEN other[t] ELSE @]
    /\ UNCHANGED <<systems, argVars, online, sent>>

(* getSystem, run, initialize, cross or getCopy on the object(s).  A run   *)
(* fails on a mode it does not know, the empty one included; left is then  *)
(* spent, and the error is the reply.  LSystemGeneric::getCopy, the only   *)
(* one there is, always succeeds: the reply to a copy that failed is left  *)
(* out.                                                                    *)
Work(t) ==
    /\ pc[t] = "work"
    /\ \E ok \in BOOLEAN :
          /\ ok => ~(op[t] = "run" /\ lost[t])
          /\ left' = [left EXCEPT ![t] = IF ok THEN @ - 1 ELSE 0]
    /\ Goto(t, "rwUnlock")
    /\ UNCHANGED <<lockVars, target, systems, op, id, other, lost, found, online, sent>>

FaultyUnlock(t) ==
    /\ UnlockMutex(t, IF op[t] = "run" /\ left[t] > 0 THEN "readLock"
                      ELSE IF op[t] = "makeCopy" THEN "writeLock" ELSE "reply")
    /\ UNCHANGED <<target, systems, argVars, online, sent>>

(* cross unlocks crossId, then id; run locks again for its next iteration. *)
Unlock(t) ==
    /\ LET next == TwoSystems(t) /\ target[t] = other[t] IN
          /\ UnlockMutex(t, IF next THEN "rwUnlock"
                            ELSE IF op[t] = "run" /\ left[t] > 0 THEN "readLock"
                            ELSE IF op[t] = "makeCopy" THEN "writeLock"
                            ELSE "reply")
          /\ target' = [target EXCEPT ![t] = IF next THEN id[t] ELSE @]
    /\ UNCHANGED <<systems, argVars, online, sent>>

(* systems[id] = new LSystemGeneric, or systems[newId] = copy; setId;      *)
(* readWriteLock.unlock().                                                 *)
Store(t) ==
    /\ pc[t] = "store"
    /\ LET new == IF op[t] = "create" THEN id[t] ELSE other[t] IN
          systems' = [systems EXCEPT ![new] = t]
    /\ writer' = NoThread
    /\ Goto(t, "reply")
    /\ UNCHANGED <<readers, mutexes, owner, ref, target, argVars, online, sent>>

(* The last write to the client; whether it succeeds or not, the thread    *)
(* goes back to handleClient.                                              *)
Reply(t) ==
    /\ pc[t] = "reply"
    /\ Goto(t, "idle")
    /\ UNCHANGED <<lockVars, target, systems, argVars, online, sent>>

LockStep(t) ==
    /\ ReadLock(t) \/ FindMutex(t) \/ InsertMutex(t) \/ RwUnlock(t) \/ WriteLock(t)
    /\ UNCHANGED <<systems, argVars, online, sent>>

Step(t) ==
    \/ Check(t) \/ CheckOther(t) \/ Ask(t) \/ AskMore(t)
    \/ LockStep(t) \/ Lock(t) \/ Work(t) \/ Unlock(t) \/ Store(t) \/ Reply(t)

Next == \E t \in Threads : Receive(t) \/ Leave(t) \/ Step(t)

(* A thread that can go on does: the scheduler is fair to runnable threads *)
(* (SCHED_OTHER, or round robin) and a client answers a request or leaves. *)
(* Nothing makes a client send a command, and no lock promises an order    *)
(* among those who wait for it.                                            *)
Spec == Init /\ [][Next]_vars
FairSpec == Spec /\ \A t \in Threads : WF_vars(Step(t))

-----------------------------------------------------------------------------
(* Properties *)

PCs == {"idle", "check", "ask", "checkOther", "askMore", "readLock", "find",
        "insert", "mutex", "work", "rwUnlock", "mutexUnlock", "writeLock",
        "store", "reply"}

(* Every variable has the type the code gives it. *)
TypeOK ==
    /\ LockTypeOK
    /\ pc \in [Threads -> PCs]
    /\ systems \in [Ids -> Makers \cup {Absent}]
    /\ op \in [Threads -> AllOps]
    /\ id \in [Threads -> Ids]
    /\ other \in [Threads -> Ids]
    /\ left \in [Threads -> Nat]
    /\ lost \in [Threads -> BOOLEAN]
    /\ found \in [Threads -> SUBSET Ids]
    /\ online \subseteq Threads
    /\ sent \in [Threads -> 0 .. MaxCommands]

(* While a thread works on a system nobody else works on it: lock() is to  *)
(* make sure "that we're not messing with the element while they are".     *)
ElementExclusion ==
    \A t, u \in Threads :
        t # u /\ pc[t] = "work" /\ pc[u] = "work" => Touched(t) \cap Touched(u) = {}

(* A thread that works on a system, or looks for its mutex, is never there *)
(* while another one changes the container: the read lock lock() takes     *)
(* keeps the writers of handleCreate and handleMakeCopy out, and one       *)
(* writer keeps another out.                                               *)
ContainerStable ==
    \A t, u \in Threads :
        t # u /\ pc[t] = "store" => pc[u] \notin {"find", "insert", "mutex", "work",
                                                  "rwUnlock", "store"}

(* systems[id] is only ever evaluated for an id that is in the container   *)
(* (operator[] would insert a null System* under a read lock and the       *)
(* handler would call through it), although the check was made long before *)
(* under another read lock.                                                *)
NoNullSystem ==
    \A t \in Threads :
        pc[t] \in {"readLock", "find", "insert", "mutex", "work"} =>
            \A i \in Touched(t) : Exists(i)

(* A thread that waits for its client, to ask it or to reply to it, holds  *)
(* no lock: a client that is slow or gone keeps nobody else waiting.       *)
NoLockWhileTalking ==
    \A t \in Threads :
        pc[t] \in {"idle", "ask", "askMore", "reply"} =>
            /\ readers[t] = 0
            /\ writer # t
            /\ \A i \in Ids : \A m \in Makers : owner[i][m] # t

(* No set of threads waits for mutexes that only members of the set hold.  *)
NoCircularWait ==
    \A S \in SUBSET Threads \ {{}} : \E t \in S :
        ~ (pc[t] = "mutex" /\ owner[target[t]][ref[t]] \in S)

(* create and makeCopy refuse an id that "already exists", but they check  *)
(* under one lock and store under another: a command may replace an object *)
(* that came after it did, and only such an object.  What was there when a *)
(* command came survives it, whatever clients name what at the same time.  *)
ReplacedOnlyInRace ==
    [][\A i \in Ids : Exists(i) =>
            \/ systems'[i] = systems[i]
            \/ \E t \in Threads : systems'[i] = t /\ i \notin found[t]]_systems

(* An id keeps the object it was given.  Two clients that give one id at   *)
(* the same time break it.                                                 *)
NeverOverwritten ==
    [][\A i \in Ids : Exists(i) => systems'[i] = systems[i]]_systems

(* "if any of the above calls failed, bail out": a command that lost a     *)
(* reply changes no system.                                                *)
LostReplyBailsOut ==
    \A t \in Threads : pc[t] \in {"work", "store"} /\ lost[t] => op[t] = "run"

(* Every command a client sends comes to its end. *)
EveryCommandReturns ==
    \A t \in Threads : pc[t] # "idle" ~> pc[t] = "idle"

(* The handler keeps the promises of SystemRegistry. *)
Busy == [i \in Ids |-> {t \in Threads : pc[t] = "work" /\ i \in Touched(t)}]

Registry == INSTANCE SystemRegistry WITH registry <- systems, busy <- Busy,
    free <- [t \in Threads |-> Ids \ found[t]]

ImplementsRegistry == Registry!Spec
=============================================================================
