--------------------- MODULE InterpreterCommandHandler ---------------------
(***************************************************************************)
(* InterpreterCommandHandler: the commands clients send about the          *)
(* interpreters of one server.  It inherits the locks of every handler     *)
(* (HandlerLocks) and, unlike SystemCommandHandler, never works on more    *)
(* than one element, but may find out while it works that it cannot copy:  *)
(*                                                                         *)
(*   idle -> check -> ask .. ask -> checkCopy -> (lock) -> work ->         *)
(*           (unlock) -> writeLock -> store -> reply -> idle               *)
(*                                                                         *)
(* each command skipping what it does not need.                            *)
(***************************************************************************)
EXTENDS HandlerLocks

CONSTANTS
    Ops,            \* the commands clients send in this instance
    Names,          \* Names[t]: the new ids client t gives out
    Departing,      \* the clients that may close their connection
    NoName,         \* the id "", what a lost reply is read as
    MaxCommands     \* bound: commands of one client

(* What handleCommand dispatches on, and how many replies each asks for;   *)
(* "unknown" is any other command.                                         *)
Questions == [create |-> 0, load |-> 0, getSystem |-> 1, makeCopy |-> 1,
              setAttribute |-> 2, getAttribute |-> 1, unknown |-> 0]

ASSUME InterpreterAssumption ==
    /\ Ops \subseteq DOMAIN Questions
    /\ Names \in [Threads -> SUBSET Ids]
    /\ Departing \subseteq Threads
    /\ NoName \in Ids
    /\ MaxCommands \in Nat

VARIABLES
    interpreters,   \* map<string,Interpreter*>: the creator of the object under an id
    op,             \* the command a thread runs
    id,             \* its id
    copyId,         \* the id of the copy, once the client has sent it
    unasked,        \* replies still to ask for
    copied,         \* did getCopy succeed?
    found,          \* history: the ids that were there when a thread's command came
    online,         \* the clients that have not closed their connection
    sent            \* how many commands each client has sent

argVars == <<op, id, copyId, unasked, copied, found>>
vars == <<lockVars, pc, target, interpreters, argVars, online, sent>>

(* Operators named Faulty... are what a plausible bug would make of the     *)
(* definition they precede; each breaks a property of the runs.            *)

Init ==
    /\ LockInit
    /\ interpreters = [i \in Ids |-> IF i \in Known THEN Boot ELSE Absent]
    /\ pc = [t \in Threads |-> "idle"]
    /\ op = [t \in Threads |-> "unknown"]
    /\ target = [t \in Threads |-> NoName]
    /\ id = [t \in Threads |-> NoName]
    /\ copyId = [t \in Threads |-> NoName]
    /\ unasked = [t \in Threads |-> 0]
    /\ copied = [t \in Threads |-> FALSE]
    /\ found = [t \in Threads |-> {}]
    /\ online = Threads
    /\ sent = [t \in Threads |-> 0]

-----------------------------------------------------------------------------
(* The client's side of a connection *)

Exists(i) == interpreters[i] # Absent

Receive(t) ==
    /\ pc[t] = "idle" /\ t \in online /\ sent[t] < MaxCommands
    /\ \E c \in Ops : \E i \in Ids \ {NoName} :
          /\ c = "create" => i \in Names[t]
          /\ op' = [op EXCEPT ![t] = c]
          /\ id' = [id EXCEPT ![t] = i]
          /\ target' = [target EXCEPT ![t] = i]
          /\ copyId' = [copyId EXCEPT ![t] = NoName]
          /\ unasked' = [unasked EXCEPT ![t] = Questions[c]]
          /\ copied' = [copied EXCEPT ![t] = FALSE]
          /\ found' = [found EXCEPT ![t] = {j \in Ids : Exists(j)}]
          /\ Goto(t, IF c = "unknown" THEN "reply" ELSE "check")
    /\ sent' = [sent EXCEPT ![t] = @ + 1]
    /\ UNCHANGED <<lockVars, interpreters, online>>

Leave(t) ==
    /\ t \in online \cap Departing
    /\ online' = online \ {t}
    /\ UNCHANGED <<lockVars, pc, target, interpreters, argVars, sent>>

-----------------------------------------------------------------------------
(* checkIdExists, checkIdDoesNotExist and getBasicType *)

Check(t) ==
    /\ pc[t] = "check"
    /\ CanRead
    /\ IF Exists(id[t]) = (op[t] = "create")
       THEN Goto(t, "idle")
       ELSE Goto(t, CASE op[t] = "create" -> "writeLock"
                      [] op[t] = "load" -> "readLock"
                      [] OTHER -> "ask")
    /\ UNCHANGED <<lockVars, target, interpreters, argVars, online, sent>>

(* Every reply is taken as the string it is, a lost one as "".  Only the   *)
(* failed write to a client that has left ends the command.                *)
Ask(t) ==
    /\ pc[t] = "ask"
    /\ \/ /\ t \notin online
          /\ Goto(t, "idle")
          /\ UNCHANGED <<copyId, unasked>>
       \/ /\ unasked' = [unasked EXCEPT ![t] = @ - 1]
          /\ Goto(t, IF unasked[t] > 1 THEN "ask"
                     ELSE IF op[t] = "makeCopy" THEN "checkCopy" ELSE "readLock")
          /\ IF op[t] = "makeCopy"
             THEN \E i \in IF t \in online THEN Names[t] ELSE {NoName} :
                     copyId' = [copyId EXCEPT ![t] = i]
             ELSE UNCHANGED copyId
    /\ UNCHANGED <<lockVars, target, interpreters, op, id, copied, found, online, sent>>

FaultyCheckCopy(t) ==
    /\ pc[t] = "checkCopy" /\ CanRead
    /\ Goto(t, "readLock")
    /\ UNCHANGED <<lockVars, target, interpreters, argVars, online, sent>>

CheckCopy(t) ==
    /\ pc[t] = "checkCopy"
    /\ CanRead
    /\ Goto(t, IF Exists(copyId[t]) THEN "idle" ELSE "readLock")
    /\ UNCHANGED <<lockVars, target, interpreters, argVars, online, sent>>

-----------------------------------------------------------------------------
(* The critical section, and the change of the container *)

Lock(t) ==
    /\ LockMutex(t, "work")
    /\ UNCHANGED <<target, interpreters, argVars, online, sent>>

(* loadAttributes, getSystem, getCopy, setAttribute or getAttributeValue *)
Work(t) ==
    /\ pc[t] = "work"
    /\ \E ok \in BOOLEAN :
          copied' = [copied EXCEPT ![t] = ok /\ op[t] = "makeCopy"]
    /\ Goto(t, "rwUnlock")
    /\ UNCHANGED <<lockVars, target, interpreters, op, id, copyId, unasked, found, online, sent>>

(* A copy that failed is reported and not stored. *)
Unlock(t) ==
    /\ UnlockMutex(t, IF copied[t] THEN "writeLock" ELSE "reply")
    /\ UNCHANGED <<target, interpreters, argVars, online, sent>>

Store(t) ==
    /\ pc[t] = "store"
    /\ LET new == IF op[t] = "create" THEN id[t] ELSE copyId[t] IN
          interpreters' = [interpreters EXCEPT ![new] = t]
    /\ writer' = NoThread
    /\ Goto(t, "reply")
    /\ UNCHANGED <<readers, mutexes, owner, ref, target, argVars, online, sent>>

Reply(t) ==
    /\ pc[t] = "reply"
    /\ Goto(t, "idle")
    /\ UNCHANGED <<lockVars, target, interpreters, argVars, online, sent>>

LockStep(t) ==
    /\ ReadLock(t) \/ FindMutex(t) \/ InsertMutex(t) \/ RwUnlock(t) \/ WriteLock(t)
    /\ UNCHANGED <<interpreters, argVars, online, sent>>

Step(t) ==
    \/ Check(t) \/ Ask(t) \/ CheckCopy(t)
    \/ LockStep(t) \/ Lock(t) \/ Work(t) \/ Unlock(t) \/ Store(t) \/ Reply(t)

Next == \E t \in Threads : Receive(t) \/ Leave(t) \/ Step(t)

(* As in SystemCommandHandler: threads that can go on do, and a client     *)
(* answers a request or leaves.                                            *)
Spec == Init /\ [][Next]_vars
FairSpec == Spec /\ \A t \in Threads : WF_vars(Step(t))

-----------------------------------------------------------------------------
(* Properties *)

PCs == {"idle", "check", "ask", "checkCopy", "readLock", "find", "insert", "mutex",
        "work", "rwUnlock", "mutexUnlock", "writeLock", "store", "reply"}

(* Every variable has the type the code gives it. *)
TypeOK ==
    /\ LockTypeOK
    /\ pc \in [Threads -> PCs]
    /\ interpreters \in [Ids -> Makers \cup {Absent}]
    /\ op \in [Threads -> DOMAIN Questions]
    /\ id \in [Threads -> Ids] /\ copyId \in [Threads -> Ids]
    /\ unasked \in [Threads -> 0 .. 2]
    /\ copied \in [Threads -> BOOLEAN]
    /\ found \in [Threads -> SUBSET Ids]
    /\ online \subseteq Threads
    /\ sent \in [Threads -> 0 .. MaxCommands]

(* A thread that is inside the container, to find a mutex or to work on an *)
(* interpreter, is never there while another one changes it, and finds its *)
(* interpreter there, although the check was made under another lock; and  *)
(* every variable keeps its type.                                          *)
InterpretersStable ==
    /\ TypeOK
    /\ \A t, u \in Threads :
          pc[t] \in {"find", "insert", "mutex", "work", "rwUnlock"} =>
              /\ t # u => pc[u] # "store"
              /\ Exists(id[t])

(* A thread that talks to its client holds no lock: a client that is slow  *)
(* or gone keeps nobody else waiting.                                      *)
NoLockWhileTalking ==
    \A t \in Threads :
        pc[t] \in {"idle", "ask", "reply"} =>
            /\ readers[t] = 0
            /\ writer # t
            /\ \A i \in Ids : \A m \in Makers : owner[i][m] # t

(* create and makeCopy refuse an id that "already exists", but they check  *)
(* under one lock and store under another: a command may replace an object *)
(* that came after it did, and only such an object.                        *)
ReplacedOnlyInRace ==
    [][\A i \in Ids : Exists(i) =>
            \/ interpreters'[i] = interpreters[i]
            \/ \E t \in Threads : interpreters'[i] = t /\ i \notin found[t]]_interpreters

(* Every command a client sends comes to its end. *)
EveryCommandReturns ==
    \A t \in Threads : pc[t] # "idle" ~> pc[t] = "idle"

(* The handler keeps the promises of SystemRegistry: interpreters are      *)
(* worked on one thread at a time, a name that was taken when a command    *)
(* came is not given again by it.                                          *)
Busy == [i \in Ids |-> {t \in Threads : pc[t] = "work" /\ id[t] = i}]

Registry == INSTANCE SystemRegistry WITH registry <- interpreters, busy <- Busy,
    free <- [t \in Threads |-> Ids \ found[t]]

ImplementsRegistry == Registry!Spec
=============================================================================
