------------------- MODULE InterpreterCommandHandlerProofs -------------------
(***************************************************************************)
(* InterpreterCommandHandler for any number of clients, interpreters and   *)
(* commands.                                                               *)
(*                                                                         *)
(* CommandInv (types, what each place says of a command and of the         *)
(* read-write lock) is inductive as it stands.  MutexesHeld is inductive   *)
(* relative to it when no insertion into the mutexes map is lost, and      *)
(* FreeWhenItCame in every case.                                           *)
(***************************************************************************)
EXTENDS InterpreterCommandHandler, TLAPS

(* Where a thread holds the read lock, and where it holds the mutex *)
Inside == {"find", "insert", "mutex", "work", "rwUnlock"}
Holding == {"work", "rwUnlock", "mutexUnlock"}
Critical == {"readLock"} \cup Inside \cup Holding

(* Where the handlers' own conditions have sent each command; the locks    *)
(* are always about its id.                                                *)
OpAtPlace ==
    \A t \in Threads :
        /\ target[t] = id[t]
        /\ copied[t] => op[t] = "makeCopy"
        /\ pc[t] = "check" => op[t] # "unknown" /\ unasked[t] = Questions[op[t]]
        /\ pc[t] = "ask" => op[t] \notin {"create", "load", "unknown"} /\ unasked[t] > 0
        /\ pc[t] = "checkCopy" => op[t] = "makeCopy"
        /\ pc[t] \in Critical => op[t] \notin {"create", "unknown"}
        /\ pc[t] \in {"writeLock", "store"} => op[t] \in {"create", "makeCopy"}

(* The read-write lock is held as the places say. *)
ReadHolds == [t \in Threads |-> IF pc[t] \in Inside THEN 1 ELSE 0]
RwLockHeld ==
    /\ readers = ReadHolds
    /\ \A t \in Threads : pc[t] = "store" <=> writer = t
    /\ writer # NoThread => \A t \in Threads : readers[t] = 0

(* What a check found in the container is still there. *)
StillExists ==
    \A t \in Threads : pc[t] \in {"ask", "checkCopy"} \cup Critical => Exists(id[t])

CommandInv == TypeOK /\ OpAtPlace /\ RwLockHeld /\ StillExists

(* When no insertion is lost: the node a thread was given is the one in    *)
(* the map, and a node is owned by exactly the thread whose place says so. *)
MutexesHeld ==
    /\ \A t \in Threads : pc[t] = "mutex" => mutexes[id[t]] = ref[t]
    /\ \A t \in Threads : pc[t] \in Holding =>
          mutexes[id[t]] # Absent /\ owner[id[t]][mutexes[id[t]]] = t
    /\ \A i \in Ids : \A m \in Makers : owner[i][m] # NoThread =>
          /\ m = mutexes[i]
          /\ i = id[owner[i][m]] /\ pc[owner[i][m]] \in Holding

(* The id a create or makeCopy is about to add, and from where on *)
NewId(t) == IF op[t] = "create" THEN id[t] ELSE copyId[t]
Adding(t) == \/ op[t] = "create" /\ pc[t] \in {"writeLock", "store"}
             \/ op[t] = "makeCopy" /\ pc[t] \in Critical \cup {"writeLock", "store"}

(* The ids that were there when a command came are there for good, so the  *)
(* id a command was allowed to add was free when it came (others may have  *)
(* taken it since).                                                        *)
FreeWhenItCame ==
    /\ \A t \in Threads : \A i \in found[t] : Exists(i)
    /\ \A t \in Threads : Adding(t) => NewId(t) \notin found[t]

USE DEF Goto, lockVars, argVars, LockTypeOK, Makers, Inside, Holding, Critical, Exists,
        CanRead, PCs

-----------------------------------------------------------------------------
(* CommandInv is kept by every action. *)

LEMMA QuestionsType ==
  /\ DOMAIN Questions = {"create", "load", "getSystem", "makeCopy", "setAttribute",
                         "getAttribute", "unknown"}
  /\ \A c \in DOMAIN Questions : /\ Questions[c] \in 0 .. 2
                                 /\ c \notin {"create", "load", "unknown"} => Questions[c] > 0
  BY DEF Questions

LEMMA ReceiveKeeps ==
  ASSUME CommandInv, NEW t \in Threads, Receive(t)
  PROVE  CommandInv'
<1> USE LockAssumption, InterpreterAssumption, QuestionsType DEF CommandInv, TypeOK, Receive
<1>a. PICK c \in Ops, i \in Ids \ {NoName} :
          /\ op' = [op EXCEPT ![t] = c]
          /\ id' = [id EXCEPT ![t] = i]
          /\ target' = [target EXCEPT ![t] = i]
          /\ copyId' = [copyId EXCEPT ![t] = NoName]
          /\ unasked' = [unasked EXCEPT ![t] = Questions[c]]
          /\ copied' = [copied EXCEPT ![t] = FALSE]
          /\ found' = [found EXCEPT ![t] = {j \in Ids : Exists(j)}]
          /\ pc' = [pc EXCEPT ![t] = IF c = "unknown" THEN "reply" ELSE "check"]
  OBVIOUS
<1>b. pc[t] = "idle" /\ UNCHANGED <<lockVars, interpreters, online>>
  OBVIOUS
<1>1. TypeOK'
  <2> HIDE DEF PCs
  <2>1. pc' \in [Threads -> PCs]
    <3>1. (IF c = "unknown" THEN "reply" ELSE "check") \in PCs
      BY DEF PCs
    <3> QED BY <3>1, <1>a
  <2>2. op' \in [Threads -> DOMAIN Questions]
    BY <1>a
  <2>3. sent' \in [Threads -> 0 .. MaxCommands]
    OBVIOUS
  <2>4. unasked' \in [Threads -> 0 .. 2]
    <3>1. Questions[c] \in 0 .. 2
      OBVIOUS
    <3> HIDE QuestionsType DEF Receive
    <3> QED BY <3>1, <1>a
  <2>5. copied' \in [Threads -> BOOLEAN]
    BY <1>a
  <2>6. id' \in [Threads -> Ids] /\ copyId' \in [Threads -> Ids] /\ target' \in [Threads -> Ids]
    BY <1>a
  <2>7. UNCHANGED <<lockVars, interpreters, online>>
    BY <1>b
  <2>8. found' \in [Threads -> SUBSET Ids]
    <3> HIDE DEF Exists, Receive
    <3> QED BY <1>a
  <2> HIDE QuestionsType DEF Receive
  <2> QED BY <2>1, <2>2, <2>3, <2>4, <2>5, <2>6, <2>7, <2>8
<1>2. OpAtPlace'
  <2> HIDE QuestionsType DEF Receive
  <2> QED BY <1>a, <1>b DEF OpAtPlace
<1>3. RwLockHeld'
  <2>1. ReadHolds' = ReadHolds
    BY <1>a, <1>b DEF ReadHolds
  <2>2. \A u \in Threads : pc'[u] = "store" <=> pc[u] = "store"
    BY <1>a, <1>b
  <2> QED BY <1>a, <1>b, <2>1, <2>2 DEF RwLockHeld
<1>4. StillExists'
  BY <1>a, <1>b DEF StillExists, OpAtPlace
<1> QED BY <1>1, <1>2, <1>3, <1>4

LEMMA LeaveKeeps ==
  ASSUME CommandInv, NEW t \in Threads, Leave(t)
  PROVE  CommandInv'
<1> USE DEF CommandInv, TypeOK, Leave
<1>1. TypeOK'
  OBVIOUS
<1>2. OpAtPlace'
  BY DEF OpAtPlace
<1>3. RwLockHeld'
  <2>1. ReadHolds' = ReadHolds
    BY DEF ReadHolds
  <2>2. \A u \in Threads : pc'[u] = "store" <=> pc[u] = "store"
    OBVIOUS
  <2> QED BY <2>1, <2>2 DEF RwLockHeld
<1>4. StillExists'
  BY DEF StillExists
<1> QED BY <1>1, <1>2, <1>3, <1>4

LEMMA CheckKeeps ==
  ASSUME CommandInv, NEW t \in Threads, Check(t)
  PROVE  CommandInv'
<1> USE QuestionsType DEF CommandInv, TypeOK, Check
<1>a. pc[t] = "check" /\ UNCHANGED <<lockVars, target, interpreters, argVars, online, sent>>
  OBVIOUS
<1>b. \/ pc' = [pc EXCEPT ![t] = "idle"]
      \/ pc' = [pc EXCEPT ![t] = "writeLock"] /\ op[t] = "create"
      \/ pc' = [pc EXCEPT ![t] = "readLock"] /\ op[t] = "load" /\ Exists(id[t])
      \/ /\ pc' = [pc EXCEPT ![t] = "ask"] /\ op[t] \notin {"create", "load", "unknown"}
         /\ Exists(id[t]) /\ unasked[t] > 0
  <2>1. op[t] # "unknown" /\ unasked[t] = Questions[op[t]] /\ op[t] \in DOMAIN Questions
    BY DEF OpAtPlace
  <2> QED BY <2>1
<1>1. TypeOK'
  <2>1. pc' \in [Threads -> PCs]
    BY <1>b, SMTT(60)
  <2> QED BY <1>a, <2>1
<1>2. OpAtPlace'
  BY <1>a, <1>b DEF OpAtPlace
<1>3. RwLockHeld'
  <2>1. ReadHolds' = ReadHolds
    BY <1>a, <1>b DEF ReadHolds
  <2>2. \A u \in Threads : pc'[u] = "store" <=> pc[u] = "store"
    BY <1>a, <1>b
  <2> QED BY <1>a, <1>b, <2>1, <2>2 DEF RwLockHeld
<1>4. StillExists'
  BY <1>a, <1>b DEF StillExists, OpAtPlace
<1> QED BY <1>1, <1>2, <1>3, <1>4

LEMMA AskKeeps ==
  ASSUME CommandInv, NEW t \in Threads, Ask(t)
  PROVE  CommandInv'
<1> USE DEF CommandInv, TypeOK, Ask
<1>a. /\ pc[t] = "ask"
      /\ UNCHANGED <<lockVars, target, interpreters, op, id, copied, found, online, sent>>
  OBVIOUS
<1>b. \/ pc' = [pc EXCEPT ![t] = "idle"] /\ UNCHANGED <<copyId, unasked>>
      \/ /\ unasked' = [unasked EXCEPT ![t] = @ - 1]
         /\ \/ pc' = [pc EXCEPT ![t] = "ask"] /\ unasked[t] > 1
            \/ pc' = [pc EXCEPT ![t] = "checkCopy"] /\ op[t] = "makeCopy"
            \/ pc' = [pc EXCEPT ![t] = "readLock"]
         /\ \/ UNCHANGED copyId
            \/ \E i \in Ids : copyId' = [copyId EXCEPT ![t] = i]
  BY InterpreterAssumption
<1>1. TypeOK'
  <2>1. pc' \in [Threads -> PCs]
    BY <1>b
  <2>2. unasked' \in [Threads -> 0 .. 2]
    <3>1. unasked[t] \in 1 .. 2
      BY <1>a DEF OpAtPlace
    <3>2. UNCHANGED unasked \/ unasked' = [unasked EXCEPT ![t] = @ - 1]
      BY <1>b
    <3> HIDE DEF Ask
    <3> QED BY <3>1, <3>2
  <2>3. copyId' \in [Threads -> Ids]
    <3>1. UNCHANGED copyId \/ \E i \in Ids : copyId' = [copyId EXCEPT ![t] = i]
      BY <1>b
    <3> HIDE DEF Ask
    <3> QED BY <3>1
  <2> HIDE DEF Ask
  <2> QED BY <1>a, <2>1, <2>2, <2>3
<1>2. OpAtPlace'
  <2>1. unasked[t] \in 0 .. 2
    OBVIOUS
  <2> HIDE DEF Ask
  <2> QED BY <1>a, <1>b, <2>1 DEF OpAtPlace
<1>3. RwLockHeld'
  <2>1. ReadHolds' = ReadHolds
    BY <1>a, <1>b DEF ReadHolds
  <2>2. \A u \in Threads : pc'[u] = "store" <=> pc[u] = "store"
    BY <1>a, <1>b
  <2> QED BY <1>a, <2>1, <2>2 DEF RwLockHeld
<1>4. StillExists'
  BY <1>a, <1>b DEF StillExists, OpAtPlace
<1> QED BY <1>1, <1>2, <1>3, <1>4

LEMMA CheckCopyKeeps ==
  ASSUME CommandInv, NEW t \in Threads, CheckCopy(t)
  PROVE  CommandInv'
<1> USE DEF CommandInv, TypeOK, CheckCopy
<1>1. TypeOK'
  OBVIOUS
<1>2. OpAtPlace'
  BY DEF OpAtPlace
<1>3. RwLockHeld'
  <2>1. ReadHolds' = ReadHolds
    BY DEF ReadHolds
  <2>2. \A u \in Threads : pc'[u] = "store" <=> pc[u] = "store"
    OBVIOUS
  <2> QED BY <2>1, <2>2 DEF RwLockHeld
<1>4. StillExists'
  BY DEF StillExists, OpAtPlace
<1> QED BY <1>1, <1>2, <1>3, <1>4

LEMMA LockKeeps ==
  ASSUME CommandInv, NEW t \in Threads, Lock(t)
  PROVE  CommandInv'
<1> USE DEF CommandInv, TypeOK, Lock, LockMutex
<1>1. TypeOK'
  OBVIOUS
<1>2. OpAtPlace'
  BY DEF OpAtPlace
<1>3. RwLockHeld'
  <2>1. ReadHolds' = ReadHolds
    BY DEF ReadHolds
  <2>2. \A u \in Threads : pc'[u] = "store" <=> pc[u] = "store"
    OBVIOUS
  <2> QED BY <2>1, <2>2 DEF RwLockHeld
<1>4. StillExists'
  BY DEF StillExists, OpAtPlace
<1> QED BY <1>1, <1>2, <1>3, <1>4

LEMMA WorkKeeps ==
  ASSUME CommandInv, NEW t \in Threads, Work(t)
  PROVE  CommandInv'
<1> USE DEF CommandInv, TypeOK, Work
<1>1. TypeOK'
  OBVIOUS
<1>2. OpAtPlace'
  BY DEF OpAtPlace
<1>3. RwLockHeld'
  <2>1. ReadHolds' = ReadHolds
    BY DEF ReadHolds
  <2>2. \A u \in Threads : pc'[u] = "store" <=> pc[u] = "store"
    OBVIOUS
  <2> QED BY <2>1, <2>2 DEF RwLockHeld
<1>4. StillExists'
  BY DEF StillExists, OpAtPlace
<1> QED BY <1>1, <1>2, <1>3, <1>4

LEMMA UnlockKeeps ==
  ASSUME CommandInv, NEW t \in Threads, Unlock(t)
  PROVE  CommandInv'
<1> USE DEF CommandInv, TypeOK, Unlock, UnlockMutex
<1>1. TypeOK'
  OBVIOUS
<1>2. OpAtPlace'
  BY DEF OpAtPlace
<1>3. RwLockHeld'
  <2>1. ReadHolds' = ReadHolds
    BY DEF ReadHolds
  <2>2. \A u \in Threads : pc'[u] = "store" <=> pc[u] = "store"
    OBVIOUS
  <2> QED BY <2>1, <2>2 DEF RwLockHeld
<1>4. StillExists'
  BY DEF StillExists, OpAtPlace
<1> QED BY <1>1, <1>2, <1>3, <1>4

LEMMA StoreKeeps ==
  ASSUME CommandInv, NEW t \in Threads, Store(t)
  PROVE  CommandInv'
<1> USE LockAssumption DEF CommandInv, TypeOK, Store
<1>1. TypeOK'
  OBVIOUS
<1>2. OpAtPlace'
  BY DEF OpAtPlace
<1>3. RwLockHeld'
  BY DEF RwLockHeld, ReadHolds
<1>4. StillExists'
  BY DEF StillExists, OpAtPlace
<1> QED BY <1>1, <1>2, <1>3, <1>4

LEMMA ReplyKeeps ==
  ASSUME CommandInv, NEW t \in Threads, Reply(t)
  PROVE  CommandInv'
<1> USE DEF CommandInv, TypeOK, Reply
<1>1. TypeOK'
  OBVIOUS
<1>2. OpAtPlace'
  BY DEF OpAtPlace
<1>3. RwLockHeld'
  <2>1. ReadHolds' = ReadHolds
    BY DEF ReadHolds
  <2>2. \A u \in Threads : pc'[u] = "store" <=> pc[u] = "store"
    OBVIOUS
  <2> QED BY <2>1, <2>2 DEF RwLockHeld
<1>4. StillExists'
  BY DEF StillExists, OpAtPlace
<1> QED BY <1>1, <1>2, <1>3, <1>4

LEMMA ReadLockKeeps ==
  ASSUME CommandInv, NEW t \in Threads, ReadLock(t),
         UNCHANGED <<interpreters, argVars, online, sent>>
  PROVE  CommandInv'
<1> USE DEF CommandInv, TypeOK, ReadLock
<1>1. TypeOK'
  <2>1. readers' \in [Threads -> Nat]
    OBVIOUS
  <2>2. pc' \in [Threads -> PCs]
    OBVIOUS
  <2> QED BY <2>1, <2>2
<1>2. OpAtPlace'
  BY DEF OpAtPlace
<1>3. RwLockHeld'
  <2>1. ReadHolds' = [ReadHolds EXCEPT ![t] = @ + 1]
    <3>1. \A u \in Threads \ {t} : ReadHolds'[u] = ReadHolds[u]
      BY DEF ReadHolds
    <3>2. ReadHolds'[t] = ReadHolds[t] + 1
      BY DEF ReadHolds
    <3>3. /\ ReadHolds = [u \in Threads |-> ReadHolds[u]]
          /\ ReadHolds' = [u \in Threads |-> ReadHolds'[u]]
      BY DEF ReadHolds
    <3> QED BY <3>1, <3>2, <3>3
  <2>2. \A u \in Threads : pc'[u] = "store" <=> pc[u] = "store"
    OBVIOUS
  <2>3. writer = NoThread
    OBVIOUS
  <2> QED BY <2>1, <2>2, <2>3 DEF RwLockHeld
<1>4. StillExists'
  BY DEF StillExists, OpAtPlace
<1> QED BY <1>1, <1>2, <1>3, <1>4

LEMMA FindMutexKeeps ==
  ASSUME CommandInv, NEW t \in Threads, FindMutex(t),
         UNCHANGED <<interpreters, argVars, online, sent>>
  PROVE  CommandInv'
<1> USE DEF CommandInv, TypeOK, FindMutex
<1>a. pc[t] = "find" /\ UNCHANGED <<readers, writer, mutexes, owner, target>>
  OBVIOUS
<1>b. \/ pc' = [pc EXCEPT ![t] = "insert"] /\ UNCHANGED ref
      \/ /\ pc' = [pc EXCEPT ![t] = "mutex"]
         /\ ref' = [ref EXCEPT ![t] = mutexes[target[t]]]
         /\ mutexes[target[t]] # Absent
  OBVIOUS
<1>1. TypeOK'
  <2>1. pc' \in [Threads -> PCs]
    BY <1>b
  <2>2. ref' \in [Threads -> Makers]
    BY <1>b
  <2> QED BY <2>1, <2>2
<1>2. OpAtPlace'
  BY <1>a, <1>b DEF OpAtPlace
<1>3. RwLockHeld'
  <2>1. ReadHolds' = ReadHolds
    BY <1>a, <1>b DEF ReadHolds
  <2>2. \A u \in Threads : pc'[u] = "store" <=> pc[u] = "store"
    BY <1>a, <1>b
  <2> QED BY <1>a, <1>b, <2>1, <2>2 DEF RwLockHeld
<1>4. StillExists'
  BY <1>a, <1>b DEF StillExists, OpAtPlace
<1> QED BY <1>1, <1>2, <1>3, <1>4

LEMMA InsertMutexKeeps ==
  ASSUME CommandInv, NEW t \in Threads, InsertMutex(t),
         UNCHANGED <<interpreters, argVars, online, sent>>
  PROVE  CommandInv'
<1> USE DEF CommandInv, TypeOK, InsertMutex
<1>1. TypeOK'
  <2>1. pc' \in [Threads -> PCs]
    OBVIOUS
  <2>2. mutexes' \in [Ids -> Makers \cup {Absent}]
    OBVIOUS
  <2>3. ref' \in [Threads -> Makers]
    OBVIOUS
  <2> QED BY <2>1, <2>2, <2>3
<1>2. OpAtPlace'
  BY DEF OpAtPlace
<1>3. RwLockHeld'
  <2>1. ReadHolds' = ReadHolds
    BY DEF ReadHolds
  <2>2. \A u \in Threads : pc'[u] = "store" <=> pc[u] = "store"
    OBVIOUS
  <2> QED BY <2>1, <2>2 DEF RwLockHeld
<1>4. StillExists'
  BY DEF StillExists, OpAtPlace
<1> QED BY <1>1, <1>2, <1>3, <1>4

LEMMA RwUnlockKeeps ==
  ASSUME CommandInv, NEW t \in Threads, RwUnlock(t),
         UNCHANGED <<interpreters, argVars, online, sent>>
  PROVE  CommandInv'
<1> USE DEF CommandInv, TypeOK, RwUnlock
<1>1. TypeOK'
  <2>1. readers' \in [Threads -> Nat]
    <3>1. readers[t] = 1
      BY DEF RwLockHeld, ReadHolds
    <3> QED BY <3>1
  <2>2. pc' \in [Threads -> PCs]
    OBVIOUS
  <2> QED BY <2>1, <2>2
<1>2. OpAtPlace'
  BY DEF OpAtPlace
<1>3. RwLockHeld'
  <2>1. ReadHolds' = [ReadHolds EXCEPT ![t] = @ - 1]
    <3>1. \A u \in Threads \ {t} : ReadHolds'[u] = ReadHolds[u]
      BY DEF ReadHolds
    <3>2. ReadHolds'[t] = ReadHolds[t] - 1
      BY DEF ReadHolds
    <3>3. /\ ReadHolds = [u \in Threads |-> ReadHolds[u]]
          /\ ReadHolds' = [u \in Threads |-> ReadHolds'[u]]
      BY DEF ReadHolds
    <3> QED BY <3>1, <3>2, <3>3
  <2>2. \A u \in Threads : pc'[u] = "store" <=> pc[u] = "store"
    OBVIOUS
  <2>3. writer = NoThread
    <3>1. ReadHolds[t] # 0
      BY DEF ReadHolds
    <3> QED BY <3>1 DEF RwLockHeld
  <2> QED BY <2>1, <2>2, <2>3 DEF RwLockHeld
<1>4. StillExists'
  BY DEF StillExists, OpAtPlace
<1> QED BY <1>1, <1>2, <1>3, <1>4

LEMMA WriteLockKeeps ==
  ASSUME CommandInv, NEW t \in Threads, WriteLock(t),
         UNCHANGED <<interpreters, argVars, online, sent>>
  PROVE  CommandInv'
<1> USE LockAssumption DEF CommandInv, TypeOK, WriteLock, CanWrite
<1>1. TypeOK'
  OBVIOUS
<1>2. OpAtPlace'
  BY DEF OpAtPlace
<1>3. RwLockHeld'
  BY DEF RwLockHeld, ReadHolds
<1>4. StillExists'
  BY DEF StillExists, OpAtPlace
<1> QED BY <1>1, <1>2, <1>3, <1>4

LEMMA CommandInvInit == Init => CommandInv
  BY LockAssumption, InterpreterAssumption, QuestionsType
     DEF Init, LockInit, CommandInv, TypeOK, OpAtPlace, RwLockHeld, ReadHolds, StillExists

LEMMA CommandInvNext == CommandInv /\ [Next]_vars => CommandInv'
<1> SUFFICES ASSUME CommandInv, [Next]_vars PROVE CommandInv'
  OBVIOUS
<1>1. CASE UNCHANGED vars
  BY <1>1 DEF vars, CommandInv, TypeOK, OpAtPlace, RwLockHeld, ReadHolds, StillExists
<1>2. ASSUME NEW t \in Threads, LockStep(t) PROVE CommandInv'
  BY <1>2, ReadLockKeeps, FindMutexKeeps, InsertMutexKeeps, RwUnlockKeeps, WriteLockKeeps
     DEF LockStep
<1>3. ASSUME NEW t \in Threads, Receive(t) \/ Leave(t) \/ Step(t) PROVE CommandInv'
  BY <1>2, <1>3, ReceiveKeeps, LeaveKeeps, CheckKeeps, AskKeeps, CheckCopyKeeps, LockKeeps,
     WorkKeeps, UnlockKeeps, StoreKeeps, ReplyKeeps
     DEF Step
<1> QED BY <1>1, <1>3 DEF Next

(* Types and the bookkeeping of places and locks hold in every instance:   *)
(* any number of clients, ids and commands, lost insertions or not.        *)
THEOREM CommandsBookkept == Spec => []CommandInv
  BY CommandInvInit, CommandInvNext, PTL DEF Spec

(* Who works on an interpreter, or waits for its mutex, finds it there,    *)
(* and nobody changes the container of handleCommand meanwhile.            *)
THEOREM InterpretersAreStable == Spec => []InterpretersStable
<1>1. CommandInv => InterpretersStable
  <2> SUFFICES ASSUME CommandInv, NEW t \in Threads, NEW u \in Threads, pc[t] \in Inside
               PROVE  (t # u => pc[u] # "store") /\ Exists(id[t])
    BY DEF InterpretersStable, CommandInv
  <2>1. readers[t] = 1
    BY DEF CommandInv, RwLockHeld, ReadHolds
  <2>2. pc[u] # "store"
    BY <2>1, LockAssumption DEF CommandInv, RwLockHeld
  <2> QED BY <2>2 DEF CommandInv, StillExists
<1> QED BY <1>1, CommandsBookkept, PTL

-----------------------------------------------------------------------------
(* MutexesHeld is kept by every action when no insertion is lost. *)

LEMMA HeldFrame ==
  ASSUME CommandInv, MutexesHeld, UNCHANGED <<mutexes, owner>>,
         \A u \in Threads : /\ pc'[u] \in Holding <=> pc[u] \in Holding
                            /\ pc[u] \in Holding => id'[u] = id[u],
         \A u \in Threads : pc'[u] = "mutex" => mutexes[id'[u]] = ref'[u]
  PROVE  MutexesHeld'
<1>1. \A i \in Ids : \A m \in Makers : owner[i][m] # NoThread => owner[i][m] \in Threads
  BY DEF CommandInv, TypeOK
<1>2. (\A u \in Threads : pc[u] \in Holding =>
          mutexes[id[u]] # Absent /\ owner[id[u]][mutexes[id[u]]] = u)'
  BY DEF MutexesHeld
<1>3. (\A i \in Ids : \A m \in Makers : owner[i][m] # NoThread =>
          m = mutexes[i] /\ i = id[owner[i][m]] /\ pc[owner[i][m]] \in Holding)'
  <2> SUFFICES ASSUME NEW i \in Ids, NEW m \in Makers, owner[i][m] # NoThread
               PROVE  /\ m = mutexes[i] /\ i = id'[owner[i][m]]
                      /\ pc'[owner[i][m]] \in Holding
    OBVIOUS
  <2>1. m = mutexes[i] /\ i = id[owner[i][m]] /\ pc[owner[i][m]] \in Holding
    BY DEF MutexesHeld
  <2> QED BY <1>1, <2>1
<1> QED BY <1>2, <1>3 DEF MutexesHeld

(* The actions that neither lock, unlock nor insert a mutex *)
LEMMA OthersKeepMutexes ==
  ASSUME CommandInv, MutexesHeld, NEW t \in Threads,
         \/ Receive(t) \/ Leave(t) \/ Check(t) \/ Ask(t) \/ CheckCopy(t)
         \/ Work(t) \/ Store(t) \/ Reply(t)
         \/ /\ ReadLock(t) \/ FindMutex(t) \/ RwUnlock(t) \/ WriteLock(t)
            /\ UNCHANGED <<interpreters, argVars, online, sent>>
  PROVE  MutexesHeld'
<1> USE DEF CommandInv, TypeOK
<1>1. ASSUME Receive(t) PROVE MutexesHeld'
  <2>1. \A u \in Threads : /\ pc'[u] \in Holding <=> pc[u] \in Holding
                           /\ pc[u] \in Holding => id'[u] = id[u]
    BY <1>1 DEF Receive
  <2>2. \A u \in Threads : pc'[u] = "mutex" => mutexes[id'[u]] = ref'[u]
    BY <1>1 DEF Receive, MutexesHeld, OpAtPlace
  <2>3. UNCHANGED <<mutexes, owner>>
    BY <1>1 DEF Receive
  <2> QED BY <2>1, <2>2, <2>3, HeldFrame
<1>2. ASSUME Leave(t) PROVE MutexesHeld'
  <2>1. \A u \in Threads : /\ pc'[u] \in Holding <=> pc[u] \in Holding
                           /\ pc[u] \in Holding => id'[u] = id[u]
    BY <1>2 DEF Leave
  <2>2. \A u \in Threads : pc'[u] = "mutex" => mutexes[id'[u]] = ref'[u]
    BY <1>2 DEF Leave, MutexesHeld, OpAtPlace
  <2>3. UNCHANGED <<mutexes, owner>>
    BY <1>2 DEF Leave
  <2> QED BY <2>1, <2>2, <2>3, HeldFrame
<1>3. ASSUME Check(t) PROVE MutexesHeld'
  <2>1. \A u \in Threads : /\ pc'[u] \in Holding <=> pc[u] \in Holding
                           /\ pc[u] \in Holding => id'[u] = id[u]
    BY <1>3 DEF Check
  <2>2. \A u \in Threads : pc'[u] = "mutex" => mutexes[id'[u]] = ref'[u]
    BY <1>3 DEF Check, MutexesHeld, OpAtPlace
  <2>3. UNCHANGED <<mutexes, owner>>
    BY <1>3 DEF Check
  <2> QED BY <2>1, <2>2, <2>3, HeldFrame
<1>4. ASSUME Ask(t) PROVE MutexesHeld'
  <2>1. \A u \in Threads : /\ pc'[u] \in Holding <=> pc[u] \in Holding
                           /\ pc[u] \in Holding => id'[u] = id[u]
    BY <1>4 DEF Ask
  <2>2. \A u \in Threads : pc'[u] = "mutex" => mutexes[id'[u]] = ref'[u]
    BY <1>4 DEF Ask, MutexesHeld, OpAtPlace
  <2>3. UNCHANGED <<mutexes, owner>>
    BY <1>4 DEF Ask
  <2> QED BY <2>1, <2>2, <2>3, HeldFrame
<1>5. ASSUME CheckCopy(t) PROVE MutexesHeld'
  <2>1. \A u \in Threads : /\ pc'[u] \in Holding <=> pc[u] \in Holding
                           /\ pc[u] \in Holding => id'[u] = id[u]
    BY <1>5 DEF CheckCopy
  <2>2. \A u \in Threads : pc'[u] = "mutex" => mutexes[id'[u]] = ref'[u]
    BY <1>5 DEF CheckCopy, MutexesHeld, OpAtPlace
  <2>3. UNCHANGED <<mutexes, owner>>
    BY <1>5 DEF CheckCopy
  <2> QED BY <2>1, <2>2, <2>3, HeldFrame
<1>6. ASSUME Work(t) PROVE MutexesHeld'
  <2>1. \A u \in Threads : /\ pc'[u] \in Holding <=> pc[u] \in Holding
                           /\ pc[u] \in Holding => id'[u] = id[u]
    BY <1>6 DEF Work
  <2>2. \A u \in Threads : pc'[u] = "mutex" => mutexes[id'[u]] = ref'[u]
    BY <1>6 DEF Work, MutexesHeld, OpAtPlace
  <2>3. UNCHANGED <<mutexes, owner>>
    BY <1>6 DEF Work
  <2> QED BY <2>1, <2>2, <2>3, HeldFrame
<1>7. ASSUME Store(t) PROVE MutexesHeld'
  <2>1. \A u \in Threads : /\ pc'[u] \in Holding <=> pc[u] \in Holding
                           /\ pc[u] \in Holding => id'[u] = id[u]
    BY <1>7 DEF Store
  <2>2. \A u \in Threads : pc'[u] = "mutex" => mutexes[id'[u]] = ref'[u]
    BY <1>7 DEF Store, MutexesHeld, OpAtPlace
  <2>3. UNCHANGED <<mutexes, owner>>
    BY <1>7 DEF Store
  <2> QED BY <2>1, <2>2, <2>3, HeldFrame
<1>8. ASSUME Reply(t) PROVE MutexesHeld'
  <2>1. \A u \in Threads : /\ pc'[u] \in Holding <=> pc[u] \in Holding
                           /\ pc[u] \in Holding => id'[u] = id[u]
    BY <1>8 DEF Reply
  <2>2. \A u \in Threads : pc'[u] = "mutex" => mutexes[id'[u]] = ref'[u]
    BY <1>8 DEF Reply, MutexesHeld, OpAtPlace
  <2>3. UNCHANGED <<mutexes, owner>>
    BY <1>8 DEF Reply
  <2> QED BY <2>1, <2>2, <2>3, HeldFrame
<1>9. ASSUME ReadLock(t), UNCHANGED <<interpreters, argVars, online, sent>> PROVE MutexesHeld'
  <2>1. \A u \in Threads : /\ pc'[u] \in Holding <=> pc[u] \in Holding
                           /\ pc[u] \in Holding => id'[u] = id[u]
    BY <1>9 DEF ReadLock
  <2>2. \A u \in Threads : pc'[u] = "mutex" => mutexes[id'[u]] = ref'[u]
    BY <1>9 DEF ReadLock, MutexesHeld, OpAtPlace
  <2>3. UNCHANGED <<mutexes, owner>>
    BY <1>9 DEF ReadLock
  <2> QED BY <2>1, <2>2, <2>3, HeldFrame
<1>10. ASSUME FindMutex(t), UNCHANGED <<interpreters, argVars, online, sent>> PROVE MutexesHeld'
  <2>1. \A u \in Threads : /\ pc'[u] \in Holding <=> pc[u] \in Holding
                           /\ pc[u] \in Holding => id'[u] = id[u]
    BY <1>10 DEF FindMutex
  <2>2. \A u \in Threads : pc'[u] = "mutex" => mutexes[id'[u]] = ref'[u]
    BY <1>10 DEF FindMutex, MutexesHeld, OpAtPlace
  <2>3. UNCHANGED <<mutexes, owner>>
    BY <1>10 DEF FindMutex
  <2> QED BY <2>1, <2>2, <2>3, HeldFrame
<1>11. ASSUME RwUnlock(t), UNCHANGED <<interpreters, argVars, online, sent>> PROVE MutexesHeld'
  <2>1. \A u \in Threads : /\ pc'[u] \in Holding <=> pc[u] \in Holding
                           /\ pc[u] \in Holding => id'[u] = id[u]
    BY <1>11 DEF RwUnlock
  <2>2. \A u \in Threads : pc'[u] = "mutex" => mutexes[id'[u]] = ref'[u]
    BY <1>11 DEF RwUnlock, MutexesHeld, OpAtPlace
  <2>3. UNCHANGED <<mutexes, owner>>
    BY <1>11 DEF RwUnlock
  <2> QED BY <2>1, <2>2, <2>3, HeldFrame
<1>12. ASSUME WriteLock(t), UNCHANGED <<interpreters, argVars, online, sent>> PROVE MutexesHeld'
  <2>1. \A u \in Threads : /\ pc'[u] \in Holding <=> pc[u] \in Holding
                           /\ pc[u] \in Holding => id'[u] = id[u]
    BY <1>12 DEF WriteLock
  <2>2. \A u \in Threads : pc'[u] = "mutex" => mutexes[id'[u]] = ref'[u]
    BY <1>12 DEF WriteLock, MutexesHeld, OpAtPlace
  <2>3. UNCHANGED <<mutexes, owner>>
    BY <1>12 DEF WriteLock
  <2> QED BY <2>1, <2>2, <2>3, HeldFrame
<1> QED BY <1>1, <1>2, <1>3, <1>4, <1>5, <1>6, <1>7, <1>8, <1>9, <1>10, <1>11, <1>12

LEMMA InsertMutexKeepsMutexes ==
  ASSUME ~LostInsert, CommandInv, MutexesHeld, NEW t \in Threads, InsertMutex(t),
         UNCHANGED <<interpreters, argVars, online, sent>>
  PROVE  MutexesHeld'
<1> USE DEF CommandInv, TypeOK, InsertMutex
<1>0. target[t] = id[t]
  BY DEF OpAtPlace
<1>1. \A u \in Threads : /\ pc'[u] \in Holding <=> pc[u] \in Holding
                         /\ id'[u] = id[u]
  OBVIOUS
<1>2. \A i \in Ids : mutexes[i] # Absent => mutexes'[i] = mutexes[i]
  OBVIOUS
<1>3. \A i \in Ids : \A m \in Makers : owner[i][m] # NoThread => owner[i][m] \in Threads
  OBVIOUS
<1>4. (\A u \in Threads : pc[u] = "mutex" => mutexes[id[u]] = ref[u])'
  BY <1>0, LockAssumption DEF MutexesHeld
<1>5. (\A u \in Threads : pc[u] \in Holding =>
          mutexes[id[u]] # Absent /\ owner[id[u]][mutexes[id[u]]] = u)'
  BY <1>1, <1>2 DEF MutexesHeld
<1>6. (\A i \in Ids : \A m \in Makers : owner[i][m] # NoThread =>
          m = mutexes[i] /\ i = id[owner[i][m]] /\ pc[owner[i][m]] \in Holding)'
  BY <1>1, <1>2, <1>3, LockAssumption DEF MutexesHeld
<1> QED BY <1>4, <1>5, <1>6 DEF MutexesHeld

LEMMA LockKeepsMutexes ==
  ASSUME CommandInv, MutexesHeld, NEW t \in Threads, Lock(t)
  PROVE  MutexesHeld'
<1> USE DEF CommandInv, TypeOK, Lock, LockMutex
<1>1. /\ id[t] \in Ids /\ ref[t] \in Makers /\ ref[t] # Absent
      /\ mutexes[id[t]] = ref[t]
      /\ owner[id[t]][ref[t]] = NoThread
      /\ owner' = [owner EXCEPT ![id[t]][ref[t]] = t]
      /\ pc[t] \notin Holding /\ pc' = [pc EXCEPT ![t] = "work"]
      /\ UNCHANGED <<mutexes, ref, id>>
  <2>1. target[t] = id[t] /\ mutexes[id[t]] = ref[t]
    BY DEF MutexesHeld, OpAtPlace
  <2>2. ref[t] \in Makers /\ ref[t] # Absent
    BY LockAssumption
  <2>3. pc' = [pc EXCEPT ![t] = "work"] /\ pc[t] = "mutex"
    OBVIOUS
  <2>4. owner[id[t]][ref[t]] = NoThread /\ owner' = [owner EXCEPT ![id[t]][ref[t]] = t]
    BY <2>1
  <2> QED BY <2>1, <2>2, <2>3, <2>4
<1>2. \A i \in Ids : \A m \in Makers :
        owner'[i][m] = IF i = id[t] /\ m = ref[t] THEN t ELSE owner[i][m]
  BY <1>1
<1>3. \A i \in Ids : \A m \in Makers : owner[i][m] # NoThread => owner[i][m] \in Threads
  OBVIOUS
<1>4. (\A u \in Threads : pc[u] = "mutex" => mutexes[id[u]] = ref[u])'
  BY <1>1 DEF MutexesHeld
<1>5. (\A u \in Threads : pc[u] \in Holding =>
          mutexes[id[u]] # Absent /\ owner[id[u]][mutexes[id[u]]] = u)'
  <2> SUFFICES ASSUME NEW u \in Threads, pc'[u] \in Holding
               PROVE  mutexes[id[u]] # Absent /\ owner'[id[u]][mutexes[id[u]]] = u
    BY <1>1
  <2>1. CASE u = t
    BY <2>1, <1>1, <1>2
  <2>2. CASE u # t
    <3>1. mutexes[id[u]] # Absent /\ owner[id[u]][mutexes[id[u]]] = u
      BY <2>2, <1>1 DEF MutexesHeld
    <3>2. id[u] # id[t]
      BY <3>1, <1>1, LockAssumption
    <3>3. id[u] \in Ids /\ mutexes[id[u]] \in Makers
      BY <3>1
    <3> HIDE DEF CommandInv, TypeOK, Lock, LockMutex
    <3> QED BY <3>1, <3>2, <3>3, <1>2
  <2> QED BY <2>1, <2>2
<1>6. (\A i \in Ids : \A m \in Makers : owner[i][m] # NoThread =>
          m = mutexes[i] /\ i = id[owner[i][m]] /\ pc[owner[i][m]] \in Holding)'
  <2> SUFFICES ASSUME NEW i \in Ids, NEW m \in Makers, owner'[i][m] # NoThread
               PROVE  /\ m = mutexes[i] /\ i = id[owner'[i][m]]
                      /\ pc'[owner'[i][m]] \in Holding
    BY <1>1
  <2>1. CASE i = id[t] /\ m = ref[t]
    BY <2>1, <1>1, <1>2
  <2>2. CASE ~(i = id[t] /\ m = ref[t])
    <3>1. owner'[i][m] = owner[i][m] /\ owner[i][m] \in Threads
      BY <2>2, <1>2, <1>3
    <3>2. m = mutexes[i] /\ i = id[owner[i][m]] /\ pc[owner[i][m]] \in Holding
      BY <3>1 DEF MutexesHeld
    <3> QED BY <3>1, <3>2, <1>1
  <2> QED BY <2>1, <2>2
<1> QED BY <1>4, <1>5, <1>6 DEF MutexesHeld

LEMMA UnlockKeepsMutexes ==
  ASSUME CommandInv, MutexesHeld, NEW t \in Threads, Unlock(t)
  PROVE  MutexesHeld'
<1> USE DEF CommandInv, TypeOK, Unlock, UnlockMutex
<1>1. /\ id[t] \in Ids /\ mutexes[id[t]] \in Makers
      /\ owner[id[t]][mutexes[id[t]]] = t
      /\ owner' = [owner EXCEPT ![id[t]][mutexes[id[t]]] = NoThread]
      /\ pc[t] \in Holding
      /\ pc'[t] \in {"writeLock", "reply"} /\ \A u \in Threads \ {t} : pc'[u] = pc[u]
      /\ UNCHANGED <<mutexes, ref, id>>
  <2>1. target[t] = id[t]
    BY DEF OpAtPlace
  <2>2. pc[t] = "mutexUnlock" /\ id[t] \in Ids
    OBVIOUS
  <2>3. /\ pc'[t] \in {"writeLock", "reply"}
        /\ \A u \in Threads \ {t} : pc'[u] = pc[u]
        /\ UNCHANGED <<mutexes, ref, id>>
    OBVIOUS
  <2>4. mutexes[id[t]] \in Makers /\ owner[id[t]][mutexes[id[t]]] = t
    BY <2>2 DEF MutexesHeld
  <2>5. owner' = [owner EXCEPT ![id[t]][mutexes[id[t]]] = NoThread]
    BY <2>1
  <2> QED BY <2>2, <2>3, <2>4, <2>5
<1>2. \A i \in Ids : \A m \in Makers :
        owner'[i][m] = IF i = id[t] /\ m = mutexes[id[t]] THEN NoThread ELSE owner[i][m]
  BY <1>1
<1>3. \A i \in Ids : \A m \in Makers : owner[i][m] # NoThread => owner[i][m] \in Threads
  OBVIOUS
<1>4. (\A u \in Threads : pc[u] = "mutex" => mutexes[id[u]] = ref[u])'
  BY <1>1 DEF MutexesHeld
<1>5. (\A u \in Threads : pc[u] \in Holding =>
          mutexes[id[u]] # Absent /\ owner[id[u]][mutexes[id[u]]] = u)'
  <2> SUFFICES ASSUME NEW u \in Threads, pc'[u] \in Holding
               PROVE  mutexes[id[u]] # Absent /\ owner'[id[u]][mutexes[id[u]]] = u
    BY <1>1
  <2>1. u # t /\ mutexes[id[u]] # Absent /\ owner[id[u]][mutexes[id[u]]] = u
    BY <1>1 DEF MutexesHeld
  <2>2. id[u] # id[t]
    BY <2>1, <1>1
  <2>3. id[u] \in Ids /\ mutexes[id[u]] \in Makers
    BY <2>1
  <2> HIDE DEF CommandInv, TypeOK, Unlock, UnlockMutex
  <2> QED BY <2>1, <2>2, <2>3, <1>2
<1>6. (\A i \in Ids : \A m \in Makers : owner[i][m] # NoThread =>
          m = mutexes[i] /\ i = id[owner[i][m]] /\ pc[owner[i][m]] \in Holding)'
  <2> SUFFICES ASSUME NEW i \in Ids, NEW m \in Makers, owner'[i][m] # NoThread
               PROVE  /\ m = mutexes[i] /\ i = id[owner'[i][m]]
                      /\ pc'[owner'[i][m]] \in Holding
    BY <1>1
  <2>1. /\ owner'[i][m] = owner[i][m] /\ owner[i][m] \in Threads
        /\ ~(i = id[t] /\ m = mutexes[id[t]])
    BY <1>2, <1>3
  <2>2. m = mutexes[i] /\ i = id[owner[i][m]] /\ pc[owner[i][m]] \in Holding
    BY <2>1 DEF MutexesHeld
  <2>3. owner[i][m] # t
    BY <2>1, <2>2
  <2> QED BY <2>1, <2>2, <2>3, <1>1
<1> QED BY <1>4, <1>5, <1>6 DEF MutexesHeld

LEMMA MutexesHeldInit == Init => MutexesHeld
  BY DEF Init, LockInit, MutexesHeld

LEMMA MutexesHeldNext ==
  ASSUME ~LostInsert
  PROVE  CommandInv /\ MutexesHeld /\ [Next]_vars => MutexesHeld'
<1> SUFFICES ASSUME CommandInv, MutexesHeld, [Next]_vars PROVE MutexesHeld'
  OBVIOUS
<1>1. CASE UNCHANGED vars
  BY <1>1 DEF vars, MutexesHeld
<1>2. ASSUME NEW t \in Threads, LockStep(t) PROVE MutexesHeld'
  BY <1>2, OthersKeepMutexes, InsertMutexKeepsMutexes DEF LockStep
<1>3. ASSUME NEW t \in Threads, Receive(t) \/ Leave(t) \/ Step(t) PROVE MutexesHeld'
  BY <1>2, <1>3, OthersKeepMutexes, LockKeepsMutexes, UnlockKeepsMutexes DEF Step
<1> QED BY <1>1, <1>3 DEF Next

(* A handler that talks to its client (getIdentifier, replyMsg) has given  *)
(* back every lock it took, provided no insertion into the map of mutexes  *)
(* is lost: with a lost one, unlock gives back a mutex it does not hold.   *)
THEOREM TalksWithoutLocks ==
  ASSUME ~LostInsert
  PROVE  Spec => []NoLockWhileTalking
<1>1. CommandInv /\ MutexesHeld => NoLockWhileTalking
  <2> SUFFICES ASSUME CommandInv, MutexesHeld, NEW t \in Threads,
                      pc[t] \in {"idle", "ask", "reply"}
               PROVE  /\ readers[t] = 0
                      /\ writer # t
                      /\ \A i \in Ids : \A m \in Makers : owner[i][m] # t
    BY DEF NoLockWhileTalking
  <2>1. readers[t] = 0 /\ writer # t
    BY DEF CommandInv, RwLockHeld, ReadHolds
  <2>2. \A i \in Ids : \A m \in Makers : owner[i][m] # t
    BY LockAssumption DEF MutexesHeld
  <2> QED BY <2>1, <2>2
<1>2. Init => CommandInv /\ MutexesHeld
  BY CommandInvInit, MutexesHeldInit
<1>3. CommandInv /\ MutexesHeld /\ [Next]_vars => (CommandInv /\ MutexesHeld)'
  BY CommandInvNext, MutexesHeldNext
<1> QED BY <1>1, <1>2, <1>3, PTL DEF Spec

-----------------------------------------------------------------------------
(* FreeWhenItCame is kept by every action. *)

(* The actions that do not change the container *)
LEMMA OthersKeepFree ==
  ASSUME CommandInv, FreeWhenItCame, NEW t \in Threads,
         \/ Receive(t) \/ Leave(t) \/ Check(t) \/ CheckCopy(t)
         \/ Lock(t) \/ Work(t) \/ Unlock(t) \/ Reply(t) \/ LockStep(t)
  PROVE  FreeWhenItCame'
<1> USE DEF CommandInv, TypeOK, OpAtPlace, FreeWhenItCame, Adding, NewId
<1>1. ASSUME Receive(t) PROVE FreeWhenItCame'
  BY <1>1, InterpreterAssumption DEF Receive
<1>2. ASSUME Leave(t) PROVE FreeWhenItCame'
  BY <1>2 DEF Leave
<1>3. ASSUME Check(t) PROVE FreeWhenItCame'
  BY <1>3 DEF Check
<1>4. ASSUME CheckCopy(t) PROVE FreeWhenItCame'
  BY <1>4 DEF CheckCopy
<1>5. ASSUME Lock(t) PROVE FreeWhenItCame'
  BY <1>5 DEF Lock, LockMutex
<1>6. ASSUME Work(t) PROVE FreeWhenItCame'
  BY <1>6 DEF Work
<1>7. ASSUME Unlock(t) PROVE FreeWhenItCame'
  BY <1>7 DEF Unlock, UnlockMutex
<1>8. ASSUME Reply(t) PROVE FreeWhenItCame'
  BY <1>8 DEF Reply
<1>9. ASSUME LockStep(t) PROVE FreeWhenItCame'
  <2>1. UNCHANGED <<interpreters, argVars>>
    BY <1>9 DEF LockStep
  <2>2. \A u \in Threads : Adding(u)' => Adding(u)
    BY <1>9 DEF LockStep, ReadLock, FindMutex, InsertMutex, RwUnlock, WriteLock
  <2> QED BY <2>1, <2>2
<1> QED BY <1>1, <1>2, <1>3, <1>4, <1>5, <1>6, <1>7, <1>8, <1>9

LEMMA AskKeepsFree ==
  ASSUME CommandInv, FreeWhenItCame, NEW t \in Threads, Ask(t)
  PROVE  FreeWhenItCame'
<1> USE DEF CommandInv, TypeOK
<1>1. /\ \A u \in Threads \ {t} : pc'[u] = pc[u] /\ copyId'[u] = copyId[u]
      /\ UNCHANGED <<interpreters, op, id, found>>
  BY DEF Ask
<1>2. pc'[t] \in {"idle", "ask", "checkCopy"} \/ (pc'[t] = "readLock" /\ op[t] # "makeCopy")
  BY DEF Ask
<1>3. \A u \in Threads : Adding(u)' => u # t /\ Adding(u) /\ NewId(u)' = NewId(u)
  BY <1>1, <1>2 DEF Adding, NewId, OpAtPlace
<1> QED BY <1>1, <1>3 DEF FreeWhenItCame

LEMMA StoreKeepsFree ==
  ASSUME CommandInv, FreeWhenItCame, NEW t \in Threads, Store(t)
  PROVE  FreeWhenItCame'
<1> USE DEF CommandInv, TypeOK, Store
<1>1. \A i \in Ids : Exists(i) => Exists(i)'
  BY LockAssumption
<1>2. \A u \in Threads : Adding(u)' => Adding(u) /\ NewId(u)' = NewId(u)
  BY DEF Adding, NewId
<1> QED BY <1>1, <1>2 DEF FreeWhenItCame

LEMMA FreeWhenItCameInit == Init => FreeWhenItCame
  BY DEF Init, FreeWhenItCame, Adding

LEMMA FreeWhenItCameNext == CommandInv /\ FreeWhenItCame /\ [Next]_vars => FreeWhenItCame'
<1> SUFFICES ASSUME CommandInv, FreeWhenItCame, [Next]_vars PROVE FreeWhenItCame'
  OBVIOUS
<1>1. CASE UNCHANGED vars
  BY <1>1 DEF vars, FreeWhenItCame, Adding, NewId
<1>2. ASSUME NEW t \in Threads, Receive(t) \/ Leave(t) \/ Step(t) PROVE FreeWhenItCame'
  BY <1>2, OthersKeepFree, AskKeepsFree, StoreKeepsFree DEF Step
<1> QED BY <1>1, <1>2 DEF Next

LEMMA OnlyStoreAdds ==
  ASSUME [Next]_vars, interpreters' # interpreters
  PROVE  \E t \in Threads : Store(t)
<1>1. ASSUME NEW t \in Threads, Receive(t) \/ Leave(t) \/ Step(t), ~Store(t)
      PROVE  interpreters' = interpreters
  BY <1>1 DEF Receive, Leave, Step, LockStep, Check, CheckCopy, Ask, Lock, Work, Unlock, Reply
<1>2. UNCHANGED vars => interpreters' = interpreters
  BY DEF vars
<1> QED BY <1>1, <1>2 DEF Next

LEMMA StoreStores ==
  ASSUME CommandInv, FreeWhenItCame, NEW t \in Threads, Store(t)
  PROVE  /\ interpreters' = [interpreters EXCEPT ![NewId(t)] = t]
         /\ NewId(t) \in Ids \ found[t]
<1> USE DEF CommandInv, TypeOK, Store
<1>1. interpreters' = [interpreters EXCEPT ![NewId(t)] = t] /\ NewId(t) \in Ids
  BY DEF NewId
<1>2. Adding(t)
  BY DEF Adding, OpAtPlace
<1> QED BY <1>1, <1>2 DEF FreeWhenItCame

(* create and makeCopy replace an interpreter only when it came after      *)
(* their command did: what the checks saw may have changed by the time the *)
(* write lock is taken, but what was there when the command came is safe.  *)
(* For any number of clients, whatever ids they give out.                  *)
THEOREM InterpretersKept == Spec => ReplacedOnlyInRace
<1>1. CommandInv /\ FreeWhenItCame /\ [Next]_vars =>
         [\A i \in Ids : Exists(i) =>
             \/ interpreters'[i] = interpreters[i]
             \/ \E t \in Threads : interpreters'[i] = t /\ i \notin found[t]]_interpreters
  <2> SUFFICES ASSUME CommandInv, FreeWhenItCame, [Next]_vars, interpreters' # interpreters,
                      NEW i \in Ids, Exists(i), interpreters'[i] # interpreters[i]
               PROVE  \E t \in Threads : interpreters'[i] = t /\ i \notin found[t]
    OBVIOUS
  <2>1. PICK t \in Threads : Store(t)
    BY OnlyStoreAdds
  <2>2. /\ interpreters' = [interpreters EXCEPT ![NewId(t)] = t]
        /\ NewId(t) \notin found[t]
    BY <2>1, StoreStores
  <2>3. i = NewId(t) /\ interpreters'[i] = t
    BY <2>2 DEF CommandInv, TypeOK
  <2> QED BY <2>2, <2>3
<1>2. CommandInv /\ FreeWhenItCame /\ [Next]_vars => (CommandInv /\ FreeWhenItCame)'
  BY CommandInvNext, FreeWhenItCameNext
<1>3. Init => CommandInv /\ FreeWhenItCame
  BY CommandInvInit, FreeWhenItCameInit
<1> QED BY <1>1, <1>2, <1>3, PTL DEF Spec, ReplacedOnlyInRace

-----------------------------------------------------------------------------
(* Every step is a step of SystemRegistry, or changes nothing there: the   *)
(* lock of the mutex is Begin, the end of the work is End, Store is Add.   *)

LEMMA BusyFrame ==
  ASSUME \A u \in Threads : /\ pc'[u] = "work" <=> pc[u] = "work"
                            /\ pc[u] = "work" => id'[u] = id[u]
  PROVE  Busy' = Busy
  BY DEF Busy

(* The steps the registry does not see *)
LEMMA OthersRefine ==
  ASSUME CommandInv, NEW t \in Threads,
         \/ Receive(t) \/ Leave(t) \/ Check(t) \/ Ask(t) \/ CheckCopy(t)
         \/ Unlock(t) \/ Reply(t) \/ LockStep(t)
  PROVE  /\ UNCHANGED <<interpreters, Busy>>
         /\ ~Receive(t) => found' = found
<1> USE DEF CommandInv, TypeOK
<1>1. interpreters' = interpreters
  BY DEF Receive, Leave, Check, Ask, CheckCopy, Unlock, Reply, LockStep
<1>2. \A u \in Threads : /\ pc'[u] = "work" <=> pc[u] = "work"
                         /\ pc[u] = "work" => id'[u] = id[u]
  <2>1. CASE Receive(t)
    BY <2>1 DEF Receive
  <2>2. CASE Leave(t)
    BY <2>2 DEF Leave
  <2>3. CASE Check(t) \/ CheckCopy(t) \/ Reply(t)
    BY <2>3 DEF Check, CheckCopy, Reply
  <2>4. CASE Ask(t)
    BY <2>4 DEF Ask
  <2>5. CASE Unlock(t)
    BY <2>5 DEF Unlock, UnlockMutex
  <2>6. CASE LockStep(t)
    BY <2>6 DEF LockStep, ReadLock, FindMutex, InsertMutex, RwUnlock, WriteLock
  <2> QED BY <2>1, <2>2, <2>3, <2>4, <2>5, <2>6
<1>3. ~Receive(t) => found' = found
  BY DEF Leave, Check, Ask, CheckCopy, Unlock, Reply, LockStep
<1> QED BY <1>1, <1>2, <1>3, BusyFrame

(* The command's coming is Come. *)
LEMMA ReceiveRefines ==
  ASSUME CommandInv, NEW t \in Threads, Receive(t)
  PROVE  Registry!Come(t)
<1> USE DEF CommandInv, TypeOK
<1>1. UNCHANGED <<interpreters, Busy>>
  BY OthersRefine
<1>2. \A i \in Ids : t \notin Busy[i]
  BY DEF Receive, Busy
<1>3. found' = [found EXCEPT ![t] = {j \in Ids : Exists(j)}]
  BY DEF Receive
<1>4. [u \in Threads |-> Ids \ found[u]]'
         = [[u \in Threads |-> Ids \ found[u]] EXCEPT
               ![t] = {i \in Ids : interpreters[i] = Absent}]
  <2>1. \A u \in Threads \ {t} : found'[u] = found[u]
    BY <1>3
  <2>2. Ids \ found'[t] = {i \in Ids : interpreters[i] = Absent}
    BY <1>3
  <2> QED BY <2>1, <2>2
<1> QED BY <1>1, <1>2, <1>4 DEF Registry!Come

LEMMA LockRefines ==
  ASSUME CommandInv, MutexesHeld, MutexesHeld', NEW t \in Threads, Lock(t)
  PROVE  Registry!Begin(t, {id[t]})
<1> USE DEF CommandInv, TypeOK, Lock, LockMutex
<1>1. /\ pc[t] = "mutex" /\ pc'[t] = "work" /\ id[t] \in Ids
      /\ \A u \in Threads \ {t} : pc'[u] = pc[u]
      /\ UNCHANGED <<interpreters, id, found>>
  OBVIOUS
<1>2. interpreters[id[t]] # Absent
  BY <1>1 DEF StillExists
<1>3. Busy[id[t]] = {}
  <2> SUFFICES ASSUME NEW u \in Busy[id[t]] PROVE FALSE
    OBVIOUS
  <2>1. u \in Threads /\ pc[u] = "work" /\ id[u] = id[t] /\ u # t
    BY <1>1 DEF Busy
  <2>2. /\ owner'[id[t]][mutexes'[id[t]]] = t
        /\ owner'[id[t]][mutexes'[id[t]]] = u
    BY <1>1, <2>1 DEF MutexesHeld
  <2> QED BY <2>1, <2>2
<1>4. \A i \in Ids : t \notin Busy[i]
  BY <1>1 DEF Busy
<1>5. Busy' = [i \in Ids |-> IF i \in {id[t]} THEN {t} ELSE Busy[i]]
  <2>1. \A i \in Ids : Busy'[i] = IF i \in {id[t]} THEN {t} ELSE Busy[i]
    <3> SUFFICES ASSUME NEW i \in Ids
                 PROVE  Busy'[i] = IF i \in {id[t]} THEN {t} ELSE Busy[i]
      OBVIOUS
    <3>1. /\ Busy'[i] = {u \in Threads : pc'[u] = "work" /\ id[u] = i}
          /\ Busy[i] = {u \in Threads : pc[u] = "work" /\ id[u] = i}
      BY <1>1 DEF Busy
    <3> HIDE DEF CommandInv, Lock, LockMutex
    <3>2. CASE i = id[t]
      <4>1. \A u \in Threads \ {t} : u \notin Busy'[i]
        <5>1. \A u \in Threads : ~(pc[u] = "work" /\ id[u] = i)
          BY <1>3, <3>1, <3>2
        <5> QED BY <1>1, <3>1, <5>1
      <4>2. t \in Busy'[i]
        BY <1>1, <3>1, <3>2
      <4>3. Busy'[i] \subseteq Threads
        BY <3>1
      <4> QED BY <3>2, <4>1, <4>2, <4>3
    <3>3. CASE i # id[t]
      <4>1. \A u \in Threads : pc'[u] = "work" /\ id[u] = i <=> pc[u] = "work" /\ id[u] = i
        BY <1>1, <3>3
      <4> QED BY <3>1, <3>3, <4>1
    <3> QED BY <3>2, <3>3
  <2>2. Busy' = [i \in Ids |-> Busy'[i]]
    BY DEF Busy
  <2> QED BY <2>1, <2>2
<1> QED BY <1>1, <1>2, <1>3, <1>4, <1>5 DEF Registry!Begin

LEMMA WorkRefines ==
  ASSUME CommandInv, NEW t \in Threads, Work(t)
  PROVE  Registry!End(t)
<1> USE DEF CommandInv, TypeOK, Work
<1>1. /\ pc'[t] = "rwUnlock" /\ \A u \in Threads \ {t} : pc'[u] = pc[u]
      /\ UNCHANGED <<interpreters, id, found>>
  OBVIOUS
<1>2. \A i \in Ids : Busy'[i] = Busy[i] \ {t}
  BY <1>1 DEF Busy
<1>3. Busy' = [i \in Ids |-> Busy'[i]]
  BY DEF Busy
<1> QED BY <1>1, <1>2, <1>3 DEF Registry!End

LEMMA StoreRefines ==
  ASSUME CommandInv, FreeWhenItCame, NEW t \in Threads, Store(t)
  PROVE  Registry!Add(t, NewId(t)) /\ NewId(t) \in Ids
<1> USE DEF CommandInv, TypeOK, Store
<1>1. \A u \in Threads : pc[u] # "work"
  <2>1. \A u \in Threads : readers[u] = 0
    BY LockAssumption DEF RwLockHeld
  <2> QED BY <2>1 DEF RwLockHeld, ReadHolds
<1>2. \A i \in Ids : Busy[i] = {}
  BY <1>1 DEF Busy
<1>3. Busy' = Busy
  BY <1>1, BusyFrame
<1>4. found' = found
  OBVIOUS
<1> QED BY <1>2, <1>3, <1>4, StoreStores DEF Registry!Add

(* The handler keeps SystemRegistry's promises: an interpreter is worked   *)
(* on by one thread at a time, only while the container stands still, and  *)
(* a command gives a name only if it was free when the command came --     *)
(* when no insertion is lost.                                              *)
THEOREM InterpretersImplementRegistry ==
  ASSUME ~LostInsert
  PROVE  Spec => ImplementsRegistry
<1>1. Init => Registry!Init
  BY DEF Init, Registry!Init, Busy
<1>2. CommandInv /\ MutexesHeld /\ MutexesHeld' /\ FreeWhenItCame /\ [Next]_vars
        => [Registry!Next]_Registry!vars
  <2> SUFFICES ASSUME CommandInv, MutexesHeld, MutexesHeld', FreeWhenItCame, [Next]_vars
               PROVE  [Registry!Next]_Registry!vars
    OBVIOUS
  <2>1. CASE UNCHANGED vars
    BY <2>1 DEF vars, Busy, Registry!vars
  <2>2. ASSUME NEW t \in Threads, Store(t) PROVE Registry!Next
    BY <2>2, StoreRefines DEF Registry!Next
  <2>3. ASSUME NEW t \in Threads, Work(t) PROVE Registry!Next
    BY <2>3, WorkRefines DEF Registry!Next
  <2>4. ASSUME NEW t \in Threads, Lock(t) PROVE Registry!Next
    <3>1. {id[t]} \in SUBSET Ids
      BY DEF CommandInv, TypeOK
    <3> QED BY <2>4, <3>1, LockRefines DEF Registry!Next
  <2>5. ASSUME NEW t \in Threads, Receive(t) \/ Leave(t) \/ Step(t)
        PROVE  [Registry!Next]_Registry!vars
    <3>1. CASE Receive(t)
      BY <3>1, ReceiveRefines DEF Registry!Next
    <3>2. CASE ~Receive(t)
      BY <2>2, <2>3, <2>4, <2>5, <3>2, OthersRefine DEF Step, Registry!vars
    <3> QED BY <3>1, <3>2
  <2> QED BY <2>1, <2>5 DEF Next
<1>3. /\ Init => CommandInv /\ MutexesHeld /\ FreeWhenItCame
      /\ CommandInv /\ MutexesHeld /\ FreeWhenItCame /\ [Next]_vars
           => (CommandInv /\ MutexesHeld /\ FreeWhenItCame)'
  BY CommandInvInit, MutexesHeldInit, FreeWhenItCameInit, CommandInvNext, MutexesHeldNext,
     FreeWhenItCameNext
<1> QED BY <1>1, <1>2, <1>3, PTL DEF Spec, ImplementsRegistry, Registry!Spec, Registry!vars

=============================================================================
