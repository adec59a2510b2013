--------------------- MODULE SystemCommandHandlerProofs ---------------------
(***************************************************************************)
(* SystemCommandHandler's locking for any number of clients, systems and   *)
(* commands.                                                               *)
(*                                                                         *)
(* LockInv (TypeOK and the bookkeeping of SystemCommandHandlerInv) is      *)
(* inductive as it stands: one lemma per action, one step per conjunct.    *)
(* MutexesHeld is inductive relative to LockInv when no insertion into     *)
(* the mutexes map is lost, and FreeWhenItCame in every case.  The         *)
(* properties of the runs follow from the three.                           *)
(***************************************************************************)
EXTENDS SystemCommandHandlerInv, TLAPS

USE DEF Goto, lockVars, argVars, LockTypeOK, PCs, AllOps, Makers,
    Locking, Unlocking, Critical, TwoSystems, Second, Exists, CanRead

-----------------------------------------------------------------------------
(* LockInv is kept by every action. *)

LEMMA ReceiveKeeps ==
  ASSUME LockInv, NEW t \in Threads, Receive(t)
  PROVE  LockInv'
<1> USE HandlerAssumption DEF LockInv, TypeOK, Receive
<1>1. TypeOK'
  <2> PICK c \in Ops, i \in Ids \ {NoName} :
          /\ op' = [op EXCEPT ![t] = c]
          /\ id' = [id EXCEPT ![t] = i]
          /\ target' = [target EXCEPT ![t] = i]
          /\ other' = [other EXCEPT ![t] = NoName]
          /\ left' = [left EXCEPT ![t] = IF c = "run" THEN MaxIterations ELSE 1]
          /\ pc' = [pc EXCEPT ![t] = IF c = "unknown" THEN "reply" ELSE "check"]
    OBVIOUS
  <2>1. pc' \in [Threads -> PCs] /\ op' \in [Threads -> AllOps]
    OBVIOUS
  <2>2. sent' \in [Threads -> 0 .. MaxCommands]
    OBVIOUS
  <2>3. left' \in [Threads -> Nat] /\ lost' \in [Threads -> BOOLEAN]
    OBVIOUS
  <2>4. id' \in [Threads -> Ids] /\ other' \in [Threads -> Ids] /\ target' \in [Threads -> Ids]
    OBVIOUS
  <2>5. found' \in [Threads -> SUBSET Ids]
    <3>1. found' = [found EXCEPT ![t] = {j \in Ids : Exists(j)}]
      OBVIOUS
    <3> HIDE DEF Exists
    <3> QED BY <3>1
  <2> QED BY <2>1, <2>2, <2>3, <2>4, <2>5
<1>2. OpAtPlace'
  BY DEF OpAtPlace
<1>3. TargetAtPlace'
  BY DEF TargetAtPlace
<1>4. LeftAtPlace'
  BY DEF LeftAtPlace, OpAtPlace
<1>5. RwLockHeld'
  <2>1. ReadHolds' = ReadHolds
    BY DEF ReadHolds, TargetAtPlace
  <2>2. \A u \in Threads : pc'[u] = "store" <=> pc[u] = "store"
    OBVIOUS
  <2> QED BY <2>1, <2>2 DEF RwLockHeld
<1>6. StillExists'
  BY DEF StillExists, OpAtPlace, RwLockHeld
<1> QED BY <1>1, <1>2, <1>3, <1>4, <1>5, <1>6

LEMMA LeaveKeeps ==
  ASSUME LockInv, NEW t \in Threads, Leave(t)
  PROVE  LockInv'
<1> USE DEF LockInv, TypeOK, Leave
<1>1. TypeOK'
  OBVIOUS
<1>2. OpAtPlace'
  BY DEF OpAtPlace
<1>3. TargetAtPlace'
  BY DEF TargetAtPlace
<1>4. LeftAtPlace'
  BY DEF LeftAtPlace, OpAtPlace
<1>5. RwLockHeld'
  <2>1. ReadHolds' = ReadHolds
    BY DEF ReadHolds, TargetAtPlace
  <2>2. \A u \in Threads : pc'[u] = "store" <=> pc[u] = "store"
    OBVIOUS
  <2> QED BY <2>1, <2>2 DEF RwLockHeld
<1>6. StillExists'
  BY DEF StillExists, OpAtPlace, RwLockHeld
<1> QED BY <1>1, <1>2, <1>3, <1>4, <1>5, <1>6

LEMMA CheckKeeps ==
  ASSUME LockInv, NEW t \in Threads, Check(t)
  PROVE  LockInv'
<1> USE DEF LockInv, TypeOK, Check
<1>a. UNCHANGED <<lockVars, target, systems, argVars, online, sent>> /\ pc[t] = "check"
  OBVIOUS
<1>b. \/ pc' = [pc EXCEPT ![t] = "idle"]
      \/ /\ pc' = [pc EXCEPT ![t] = "writeLock"]
         /\ op[t] = "create"
      \/ /\ pc' = [pc EXCEPT ![t] = "ask"]
         /\ op[t] \in {"run", "cross", "makeCopy"} /\ Exists(id[t])
      \/ /\ pc' = [pc EXCEPT ![t] = "readLock"]
         /\ op[t] \in {"getSystem", "load"} /\ Exists(id[t])
  <2>1. op[t] \in AllOps /\ op[t] # "unknown" BY DEF OpAtPlace
  <2>2. op[t] = "create" \/ op[t] \in {"run", "cross", "makeCopy"} \/ op[t] \in {"getSystem", "load"}
    BY <2>1
  <2> QED BY <2>2
<1>1. TypeOK'
  <2>1. pc' \in [Threads -> PCs]
    BY <1>b
  <2> QED BY <2>1
<1>2. OpAtPlace'
  BY <1>a, <1>b DEF OpAtPlace
<1>3. TargetAtPlace'
  BY <1>a, <1>b DEF TargetAtPlace
<1>4. LeftAtPlace'
  BY <1>a, <1>b DEF LeftAtPlace, OpAtPlace
<1>5. RwLockHeld'
  <2>1. ReadHolds' = ReadHolds
    BY <1>a, <1>b DEF ReadHolds, TargetAtPlace
  <2>2. \A u \in Threads : pc'[u] = "store" <=> pc[u] = "store"
    BY <1>a, <1>b 
  <2> QED BY <1>a, <1>b, <2>1, <2>2 DEF RwLockHeld
<1>6. StillExists'
  BY <1>a, <1>b DEF StillExists, OpAtPlace, RwLockHeld
<1> QED BY <1>1, <1>2, <1>3, <1>4, <1>5, <1>6

LEMMA CheckOtherKeeps ==
  ASSUME LockInv, NEW t \in Threads, CheckOther(t)
  PROVE  LockInv'
<1> USE DEF LockInv, TypeOK, CheckOther
<1>a. pc[t] = "checkOther" /\ UNCHANGED <<lockVars, target, systems, argVars, online, sent>>
  OBVIOUS
<1>b. \/ pc' = [pc EXCEPT ![t] = "idle"]
      \/ pc' = [pc EXCEPT ![t] = "readLock"] /\ op[t] = "makeCopy"
      \/ pc' = [pc EXCEPT ![t] = "askMore"] /\ op[t] = "cross" /\ Exists(other[t])
  BY DEF OpAtPlace
<1>1. TypeOK'
  <2>1. pc' \in [Threads -> PCs]
    BY <1>b
  <2> QED BY <2>1
<1>2. OpAtPlace'
  BY <1>a, <1>b DEF OpAtPlace
<1>3. TargetAtPlace'
  BY <1>a, <1>b DEF TargetAtPlace
<1>4. LeftAtPlace'
  BY <1>a, <1>b DEF LeftAtPlace, OpAtPlace
<1>5. RwLockHeld'
  <2>1. ReadHolds' = ReadHolds
    BY <1>a, <1>b DEF ReadHolds, TargetAtPlace
  <2>2. \A u \in Threads : pc'[u] = "store" <=> pc[u] = "store"
    BY <1>a, <1>b 
  <2> QED BY <1>a, <1>b, <2>1, <2>2 DEF RwLockHeld
<1>6. StillExists'
  BY <1>a, <1>b DEF StillExists, OpAtPlace, RwLockHeld
<1> QED BY <1>1, <1>2, <1>3, <1>4, <1>5, <1>6

LEMMA AskKeeps ==
  ASSUME LockInv, NEW t \in Threads, Ask(t)
  PROVE  LockInv'
<1> USE DEF LockInv, TypeOK
<1>a. \/ pc' = [pc EXCEPT ![t] = "idle"] /\ UNCHANGED <<other, left, lost>>
      \/ /\ op[t] = "run"
         /\ pc' = [pc EXCEPT ![t] = "askMore"]
         /\ \E n \in 0 .. MaxIterations : left' = [left EXCEPT ![t] = n]
         /\ UNCHANGED <<other, lost>>
      \/ /\ op[t] \in {"cross", "makeCopy"}
         /\ pc' = [pc EXCEPT ![t] = "checkOther"]
         /\ \E x \in Ids : other' = [other EXCEPT ![t] = x]
         /\ lost' = [lost EXCEPT ![t] = t \notin online]
         /\ UNCHANGED left
  BY HandlerAssumption DEF Ask, WriteFails
<1>b. pc[t] = "ask" /\ UNCHANGED <<lockVars, target, systems, op, id, found, online, sent>>
  BY DEF Ask
<1>1. TypeOK'
  <2>1. pc' \in [Threads -> PCs]
    BY <1>a
  <2>2. left' \in [Threads -> Nat]
    <3>1. 0 .. MaxIterations \subseteq Nat
      BY HandlerAssumption
    <3>2. CASE UNCHANGED left
      BY <3>2
    <3>3. CASE \E n \in 0 .. MaxIterations : left' = [left EXCEPT ![t] = n]
      BY <3>1, <3>3
    <3> QED BY <1>a, <3>2, <3>3
  <2>3. other' \in [Threads -> Ids]
    BY <1>a
  <2>4. lost' \in [Threads -> BOOLEAN]
    <3>1. CASE UNCHANGED lost
      BY <3>1
    <3>2. CASE lost' = [lost EXCEPT ![t] = t \notin online]
      <4>1. (t \notin online) \in BOOLEAN
        OBVIOUS
      <4> QED BY <3>2, <4>1, Zenon
    <3> QED BY <1>a, <3>1, <3>2
  <2> QED BY <2>1, <2>2, <2>3, <2>4, <1>b
<1>2. OpAtPlace'
  BY <1>a, <1>b DEF OpAtPlace
<1>3. TargetAtPlace'
  BY <1>a, <1>b DEF TargetAtPlace
<1>4. LeftAtPlace'
  BY <1>a, <1>b DEF LeftAtPlace, OpAtPlace
<1>5. RwLockHeld'
  <2>1. \A u \in Threads : pc'[u] \in Critical <=> pc[u] \in Critical
    BY <1>a, <1>b
  <2>2. ReadHolds' = ReadHolds
    BY <1>a, <1>b DEF ReadHolds
  <2>3. \A u \in Threads : pc'[u] = "store" <=> pc[u] = "store"
    BY <1>a, <1>b
  <2> QED BY <1>b, <2>2, <2>3 DEF RwLockHeld
<1>6. StillExists'
  BY <1>a, <1>b DEF StillExists, OpAtPlace
<1> QED BY <1>1, <1>2, <1>3, <1>4, <1>5, <1>6

LEMMA AskMoreKeeps ==
  ASSUME LockInv, NEW t \in Threads, AskMore(t)
  PROVE  LockInv'
<1> USE DEF LockInv, TypeOK, AskMore, WriteFails
<1>1. TypeOK'
  OBVIOUS
<1>2. OpAtPlace'
  BY DEF OpAtPlace
<1>3. TargetAtPlace'
  BY DEF TargetAtPlace
<1>4. LeftAtPlace'
  BY DEF LeftAtPlace, OpAtPlace
<1>5. RwLockHeld'
  <2>1. ReadHolds' = ReadHolds
    BY DEF ReadHolds, TargetAtPlace
  <2>2. \A u \in Threads : pc'[u] = "store" <=> pc[u] = "store"
    OBVIOUS
  <2> QED BY <2>1, <2>2 DEF RwLockHeld
<1>6. StillExists'
  BY DEF StillExists, OpAtPlace, RwLockHeld
<1> QED BY <1>1, <1>2, <1>3, <1>4, <1>5, <1>6

LEMMA ReadLockKeeps ==
  ASSUME LockInv, NEW t \in Threads, ReadLock(t),
         UNCHANGED <<systems, argVars, online, sent>>
  PROVE  LockInv'
<1> USE DEF LockInv, TypeOK, ReadLock
<1>1. TypeOK'
  <2>1. readers' \in [Threads -> Nat]
    OBVIOUS
  <2>2. pc' \in [Threads -> PCs]
    OBVIOUS
  <2> QED BY <2>1, <2>2
<1>2. OpAtPlace'
  BY DEF OpAtPlace
<1>3. TargetAtPlace'
  BY DEF TargetAtPlace
<1>4. LeftAtPlace'
  BY DEF LeftAtPlace, OpAtPlace
<1>5. RwLockHeld'
  <2>1. ReadHolds' = [ReadHolds EXCEPT ![t] = @ + 1]
    <3>1. \A u \in Threads \ {t} : ReadHolds'[u] = ReadHolds[u]
      BY DEF ReadHolds
    <3>2. ReadHolds'[t] = ReadHolds[t] + 1
      BY DEF ReadHolds, TargetAtPlace
    <3>3. /\ ReadHolds = [u \in Threads |-> ReadHolds[u]]
          /\ ReadHolds' = [u \in Threads |-> ReadHolds'[u]]
      BY DEF ReadHolds
    <3> QED BY <3>1, <3>2, <3>3
  <2>2. \A u \in Threads : pc'[u] = "store" <=> pc[u] = "store"
    OBVIOUS
  <2>3. writer = NoThread
    OBVIOUS
  <2> QED BY <2>1, <2>2, <2>3 DEF RwLockHeld
<1>6. StillExists'
  BY DEF StillExists, OpAtPlace, RwLockHeld
<1> QED BY <1>1, <1>2, <1>3, <1>4, <1>5, <1>6

LEMMA FindMutexKeeps ==
  ASSUME LockInv, NEW t \in Threads, FindMutex(t),
         UNCHANGED <<systems, argVars, online, sent>>
  PROVE  LockInv'
<1> USE DEF LockInv, TypeOK, FindMutex
<1>a. pc[t] = "find" /\ UNCHANGED <<readers, writer, mutexes, owner, target>>
  OBVIOUS
<1>b. \/ pc' = [pc EXCEPT ![t] = "insert"] /\ UNCHANGED ref
      \/ /\ pc' = [pc EXCEPT ![t] = "mutex"]
         /\ mutexes[target[t]] # Absent
         /\ ref' = [ref EXCEPT ![t] = mutexes[target[t]]]
  OBVIOUS
<1>1. TypeOK'
  <2>1. pc' \in [Threads -> PCs]
    BY <1>b
  <2>2. ref' \in [Threads -> Makers]
    BY <1>b
  <2> QED BY <2>1, <2>2
<1>2. OpAtPlace'
  BY <1>a, <1>b DEF OpAtPlace
<1>3. TargetAtPlace'
  BY <1>a, <1>b DEF TargetAtPlace
<1>4. LeftAtPlace'
  BY <1>a, <1>b DEF LeftAtPlace, OpAtPlace
<1>5. RwLockHeld'
  <2>1. ReadHolds' = ReadHolds
    BY <1>a, <1>b DEF ReadHolds, TargetAtPlace
  <2>2. \A u \in Threads : pc'[u] = "store" <=> pc[u] = "store"
    BY <1>a, <1>b 
  <2> QED BY <1>a, <1>b, <2>1, <2>2 DEF RwLockHeld
<1>6. StillExists'
  BY <1>a, <1>b DEF StillExists, OpAtPlace, RwLockHeld
<1> QED BY <1>1, <1>2, <1>3, <1>4, <1>5, <1>6

LEMMA InsertMutexKeeps ==
  ASSUME LockInv, NEW t \in Threads, InsertMutex(t),
         UNCHANGED <<systems, argVars, online, sent>>
  PROVE  LockInv'
<1> USE DEF LockInv, TypeOK, InsertMutex
<1>1. TypeOK'
  <2>1. pc' \in [Threads -> PCs]
    OBVIOUS
  <2>2. mutexes' \in [Ids -> Makers \cup {Absent}]
    OBVIOUS
  <2>3. ref' \in [Threads -> Makers]
    OBVIOUS
  <2> QED BY <2>1, <2>2, <2>3
<1>2. OpAtPlace'
  BY DEF OpAtPlace
<1>3. TargetAtPlace'
  BY DEF TargetAtPlace
<1>4. LeftAtPlace'
  BY DEF LeftAtPlace, OpAtPlace
<1>5. RwLockHeld'
  <2>1. ReadHolds' = ReadHolds
    BY DEF ReadHolds, TargetAtPlace
  <2>2. \A u \in Threads : pc'[u] = "store" <=> pc[u] = "store"
    OBVIOUS
  <2> QED BY <2>1, <2>2 DEF RwLockHeld
<1>6. StillExists'
  BY DEF StillExists, OpAtPlace, RwLockHeld
<1> QED BY <1>1, <1>2, <1>3, <1>4, <1>5, <1>6

LEMMA LockKeeps ==
  ASSUME LockInv, NEW t \in Threads, Lock(t)
  PROVE  LockInv'
<1> USE DEF LockInv, TypeOK, Lock, LockMutex
<1>1. TypeOK'
  OBVIOUS
<1>2. OpAtPlace'
  BY DEF OpAtPlace
<1>3. TargetAtPlace'
  BY DEF TargetAtPlace
<1>4. LeftAtPlace'
  BY DEF LeftAtPlace, OpAtPlace
<1>5. RwLockHeld'
  <2>1. ReadHolds' = ReadHolds
    BY DEF ReadHolds, TargetAtPlace
  <2>2. \A u \in Threads : pc'[u] = "store" <=> pc[u] = "store"
    OBVIOUS
  <2> QED BY <2>1, <2>2 DEF RwLockHeld
<1>6. StillExists'
  BY DEF StillExists, OpAtPlace, RwLockHeld
<1> QED BY <1>1, <1>2, <1>3, <1>4, <1>5, <1>6

LEMMA WorkKeeps ==
  ASSUME LockInv, NEW t \in Threads, Work(t)
  PROVE  LockInv'
<1> USE DEF LockInv, TypeOK, Work
<1>1. TypeOK'
  <2>1. pc' \in [Threads -> PCs]
    OBVIOUS
  <2>2. left' \in [Threads -> Nat]
    BY DEF LeftAtPlace
  <2> QED BY <2>1, <2>2
<1>2. OpAtPlace'
  BY DEF OpAtPlace
<1>3. TargetAtPlace'
  BY DEF TargetAtPlace
<1>4. LeftAtPlace'
  BY DEF LeftAtPlace, OpAtPlace
<1>5. RwLockHeld'
  <2>1. ReadHolds' = ReadHolds
    BY DEF ReadHolds, TargetAtPlace
  <2>2. \A u \in Threads : pc'[u] = "store" <=> pc[u] = "store"
    OBVIOUS
  <2> QED BY <2>1, <2>2 DEF RwLockHeld
<1>6. StillExists'
  BY DEF StillExists, OpAtPlace, RwLockHeld
<1> QED BY <1>1, <1>2, <1>3, <1>4, <1>5, <1>6

LEMMA RwUnlockKeeps ==
  ASSUME LockInv, NEW t \in Threads, RwUnlock(t),
         UNCHANGED <<systems, argVars, online, sent>>
  PROVE  LockInv'
<1> USE DEF LockInv, TypeOK, RwUnlock
<1>1. TypeOK'
  <2>1. readers' \in [Threads -> Nat]
    <3>1. readers[t] = ReadHolds[t]
      BY DEF RwLockHeld
    <3>2. ReadHolds[t] \in {1, 2}
      BY DEF ReadHolds
    <3> QED BY <3>1, <3>2
  <2>2. pc' \in [Threads -> PCs]
    OBVIOUS
  <2> QED BY <2>1, <2>2
<1>2. OpAtPlace'
  BY DEF OpAtPlace
<1>3. TargetAtPlace'
  BY DEF TargetAtPlace
<1>4. LeftAtPlace'
  BY DEF LeftAtPlace, OpAtPlace
<1>5. RwLockHeld'
  <2>1. ReadHolds' = [ReadHolds EXCEPT ![t] = @ - 1]
    <3>1. \A u \in Threads \ {t} : ReadHolds'[u] = ReadHolds[u]
      BY DEF ReadHolds
    <3>2. ReadHolds'[t] = ReadHolds[t] - 1
      BY DEF ReadHolds, TargetAtPlace
    <3>3. /\ ReadHolds = [u \in Threads |-> ReadHolds[u]]
          /\ ReadHolds' = [u \in Threads |-> ReadHolds'[u]]
      BY DEF ReadHolds
    <3> QED BY <3>1, <3>2, <3>3
  <2>2. \A u \in Threads : pc'[u] = "store" <=> pc[u] = "store"
    OBVIOUS
  <2>3. writer = NoThread
    <3>1. ReadHolds[t] # 0
      BY DEF ReadHolds
    <3> QED BY <3>1 DEF RwLockHeld
  <2> QED BY <2>1, <2>2, <2>3 DEF RwLockHeld
<1>6. StillExists'
  BY DEF StillExists, OpAtPlace, RwLockHeld
<1> QED BY <1>1, <1>2, <1>3, <1>4, <1>5, <1>6

LEMMA UnlockKeeps ==
  ASSUME LockInv, NEW t \in Threads, Unlock(t)
  PROVE  LockInv'
<1> USE DEF LockInv, TypeOK, Unlock, UnlockMutex
<1>1. TypeOK'
  OBVIOUS
<1>2. OpAtPlace'
  BY DEF OpAtPlace
<1>3. TargetAtPlace'
  BY DEF TargetAtPlace
<1>4. LeftAtPlace'
  BY DEF LeftAtPlace, OpAtPlace
<1>5. RwLockHeld'
  <2>1. ReadHolds' = ReadHolds
    BY DEF ReadHolds, TargetAtPlace
  <2>2. \A u \in Threads : pc'[u] = "store" <=> pc[u] = "store"
    OBVIOUS
  <2> QED BY <2>1, <2>2 DEF RwLockHeld
<1>6. StillExists'
  BY DEF StillExists, OpAtPlace, RwLockHeld
<1> QED BY <1>1, <1>2, <1>3, <1>4, <1>5, <1>6

LEMMA WriteLockKeeps ==
  ASSUME LockInv, NEW t \in Threads, WriteLock(t),
         UNCHANGED <<systems, argVars, online, sent>>
  PROVE  LockInv'
<1> USE LockAssumption DEF LockInv, TypeOK, WriteLock, CanWrite
<1>1. TypeOK'
  OBVIOUS
<1>2. OpAtPlace'
  BY DEF OpAtPlace
<1>3. TargetAtPlace'
  BY DEF TargetAtPlace
<1>4. LeftAtPlace'
  BY DEF LeftAtPlace, OpAtPlace
<1>5. RwLockHeld'
  BY DEF RwLockHeld, ReadHolds, TargetAtPlace, OpAtPlace
<1>6. StillExists'
  BY DEF StillExists, OpAtPlace, RwLockHeld
<1> QED BY <1>1, <1>2, <1>3, <1>4, <1>5, <1>6

LEMMA StoreKeeps ==
  ASSUME LockInv, NEW t \in Threads, Store(t)
  PROVE  LockInv'
<1> USE LockAssumption DEF LockInv, TypeOK, Store
<1>1. TypeOK'
  OBVIOUS
<1>2. OpAtPlace'
  BY DEF OpAtPlace
<1>3. TargetAtPlace'
  BY DEF TargetAtPlace
<1>4. LeftAtPlace'
  BY DEF LeftAtPlace, OpAtPlace
<1>5. RwLockHeld'
  BY DEF RwLockHeld, ReadHolds, TargetAtPlace, OpAtPlace
<1>6. StillExists'
  BY DEF StillExists, OpAtPlace, RwLockHeld
<1> QED BY <1>1, <1>2, <1>3, <1>4, <1>5, <1>6

LEMMA ReplyKeeps ==
  ASSUME LockInv, NEW t \in Threads, Reply(t)
  PROVE  LockInv'
<1> USE DEF LockInv, TypeOK, Reply
<1>1. TypeOK'
  OBVIOUS
<1>2. OpAtPlace'
  BY DEF OpAtPlace
<1>3. TargetAtPlace'
  BY DEF TargetAtPlace
<1>4. LeftAtPlace'
  BY DEF LeftAtPlace, OpAtPlace
<1>5. RwLockHeld'
  <2>1. ReadHolds' = ReadHolds
    BY DEF ReadHolds, TargetAtPlace
  <2>2. \A u \in Threads : pc'[u] = "store" <=> pc[u] = "store"
    OBVIOUS
  <2> QED BY <2>1, <2>2 DEF RwLockHeld
<1>6. StillExists'
  BY DEF StillExists, OpAtPlace, RwLockHeld
<1> QED BY <1>1, <1>2, <1>3, <1>4, <1>5, <1>6

LEMMA LockInvInit == Init => LockInv
  BY LockAssumption, HandlerAssumption
     DEF Init, LockInit, LockInv, TypeOK, OpAtPlace, TargetAtPlace, LeftAtPlace,
         RwLockHeld, ReadHolds, StillExists

LEMMA LockInvNext == LockInv /\ [Next]_vars => LockInv'
<1> SUFFICES ASSUME LockInv, [Next]_vars PROVE LockInv'
  OBVIOUS
<1>1. CASE UNCHANGED vars
  <2> USE <1>1 DEF vars, LockInv
  <2>1. TypeOK' /\ OpAtPlace' /\ TargetAtPlace' /\ LeftAtPlace' /\ StillExists'
    BY DEF TypeOK, OpAtPlace, TargetAtPlace, LeftAtPlace, StillExists
  <2>2. RwLockHeld'
    BY DEF RwLockHeld, ReadHolds
  <2> QED BY <2>1, <2>2
<1>2. ASSUME NEW t \in Threads, LockStep(t) PROVE LockInv'
  BY <1>2, ReadLockKeeps, FindMutexKeeps, InsertMutexKeeps, RwUnlockKeeps,
     WriteLockKeeps DEF LockStep
<1>3. ASSUME NEW t \in Threads, Receive(t) \/ Leave(t) \/ Step(t) PROVE LockInv'
  BY <1>2, <1>3, ReceiveKeeps, LeaveKeeps, CheckKeeps, CheckOtherKeeps, AskKeeps,
     AskMoreKeeps, LockKeeps, WorkKeeps, UnlockKeeps, StoreKeeps, ReplyKeeps
     DEF Step
<1> QED BY <1>1, <1>3 DEF Next

(* The bookkeeping holds in every instance: any number of clients, ids and *)
(* commands, lost insertions or not, shared ids or not.                    *)
THEOREM LocksBookkept == Spec => []LockInv
  BY LockInvInit, LockInvNext, PTL DEF Spec

(* Every variable keeps its type; in particular no read lock is released   *)
(* that is not held, and a run never counts below zero.                    *)
THEOREM TypeCorrect == Spec => []TypeOK
<1>1. LockInv => TypeOK
  BY DEF LockInv
<1> QED BY <1>1, LocksBookkept, PTL

(* Nobody changes the container while another thread is inside it.         *)
THEOREM ContainerIsStable == Spec => []ContainerStable
<1>1. LockInv => ContainerStable
  <2> SUFFICES ASSUME LockInv, NEW t \in Threads, NEW u \in Threads,
                      t # u, pc[t] = "store", pc[u] \in {"find", "insert", "mutex", "work", "rwUnlock", "store"}
               PROVE  FALSE
    BY DEF ContainerStable
  <2>1. writer = t
    BY DEF LockInv, RwLockHeld
  <2>2. readers[u] = 0 /\ pc[u] # "store"
    BY <2>1, LockAssumption DEF LockInv, RwLockHeld
  <2>3. ReadHolds[u] \in {1, 2}
    BY <2>2 DEF ReadHolds
  <2> QED BY <2>2, <2>3 DEF LockInv, RwLockHeld
<1> QED BY <1>1, LocksBookkept, PTL

(* No handler ever dereferences systems[id] for an id that is missing.     *)
THEOREM NoNullDereference == Spec => []NoNullSystem
<1>1. LockInv => NoNullSystem
  BY DEF LockInv, StillExists, NoNullSystem, Touched
<1> QED BY <1>1, LocksBookkept, PTL

-----------------------------------------------------------------------------
(* MutexesHeld is kept by every action when no insertion is lost.          *)

LEMMA HeldFrame ==
  ASSUME MutexesHeld, Held' = Held, UNCHANGED <<mutexes, owner>>,
         \A u \in Threads : pc'[u] = "mutex" => mutexes[target'[u]] = ref'[u]
  PROVE  MutexesHeld'
  BY DEF MutexesHeld

LEMMA HeldAt ==
  ASSUME NEW t \in Threads,
         \A u \in Threads \ {t} : HoldsAtPlace(u)' = HoldsAtPlace(u),
         HoldsAtPlace(t)' = HoldsAtPlace(t)
  PROVE  Held' = Held
  BY DEF Held

LEMMA ReceiveKeepsMutexes ==
  ASSUME LockInv, MutexesHeld, NEW t \in Threads, Receive(t)
  PROVE  MutexesHeld'
<1> USE DEF LockInv, TypeOK, Receive
<1>1. \A u \in Threads \ {t} : HoldsAtPlace(u)' = HoldsAtPlace(u)
  BY DEF HoldsAtPlace, Touched
<1>2. HoldsAtPlace(t)' = HoldsAtPlace(t)
  BY DEF HoldsAtPlace, Touched, TargetAtPlace, OpAtPlace
<1>3. \A u \in Threads : pc'[u] = "mutex" => mutexes[target'[u]] = ref'[u]
  BY DEF MutexesHeld
<1>4. UNCHANGED <<mutexes, owner>>
  OBVIOUS
<1>5. Held' = Held
  BY <1>1, <1>2, HeldAt
<1> QED BY <1>3, <1>4, <1>5, HeldFrame

LEMMA LeaveKeepsMutexes ==
  ASSUME LockInv, MutexesHeld, NEW t \in Threads, Leave(t)
  PROVE  MutexesHeld'
<1> USE DEF LockInv, TypeOK, Leave
<1>1. \A u \in Threads \ {t} : HoldsAtPlace(u)' = HoldsAtPlace(u)
  BY DEF HoldsAtPlace, Touched
<1>2. HoldsAtPlace(t)' = HoldsAtPlace(t)
  BY DEF HoldsAtPlace, Touched, TargetAtPlace, OpAtPlace
<1>3. \A u \in Threads : pc'[u] = "mutex" => mutexes[target'[u]] = ref'[u]
  BY DEF MutexesHeld
<1>4. UNCHANGED <<mutexes, owner>>
  OBVIOUS
<1>5. Held' = Held
  BY <1>1, <1>2, HeldAt
<1> QED BY <1>3, <1>4, <1>5, HeldFrame

LEMMA CheckKeepsMutexes ==
  ASSUME LockInv, MutexesHeld, NEW t \in Threads, Check(t)
  PROVE  MutexesHeld'
<1> USE DEF LockInv, TypeOK, Check
<1>1. \A u \in Threads \ {t} : HoldsAtPlace(u)' = HoldsAtPlace(u)
  BY DEF HoldsAtPlace, Touched
<1>2. HoldsAtPlace(t)' = HoldsAtPlace(t)
  BY DEF HoldsAtPlace, Touched, TargetAtPlace, OpAtPlace
<1>3. \A u \in Threads : pc'[u] = "mutex" => mutexes[target'[u]] = ref'[u]
  BY DEF MutexesHeld
<1>4. UNCHANGED <<mutexes, owner>>
  OBVIOUS
<1>5. Held' = Held
  BY <1>1, <1>2, HeldAt
<1> QED BY <1>3, <1>4, <1>5, HeldFrame

LEMMA CheckOtherKeepsMutexes ==
  ASSUME LockInv, MutexesHeld, NEW t \in Threads, CheckOther(t)
  PROVE  MutexesHeld'
<1> USE DEF LockInv, TypeOK, CheckOther
<1>1. \A u \in Threads \ {t} : HoldsAtPlace(u)' = HoldsAtPlace(u)
  BY DEF HoldsAtPlace, Touched
<1>2. HoldsAtPlace(t)' = HoldsAtPlace(t)
  BY DEF HoldsAtPlace, Touched, TargetAtPlace, OpAtPlace
<1>3. \A u \in Threads : pc'[u] = "mutex" => mutexes[target'[u]] = ref'[u]
  BY DEF MutexesHeld
<1>4. UNCHANGED <<mutexes, owner>>
  OBVIOUS
<1>5. Held' = Held
  BY <1>1, <1>2, HeldAt
<1> QED BY <1>3, <1>4, <1>5, HeldFrame

LEMMA AskKeepsMutexes ==
  ASSUME LockInv, MutexesHeld, NEW t \in Threads, Ask(t)
  PROVE  MutexesHeld'
<1> USE DEF LockInv, TypeOK, Ask, WriteFails
<1>0. /\ pc[t] = "ask" /\ pc'[t] \in {"idle", "askMore", "checkOther"}
      /\ \A u \in Threads \ {t} : pc'[u] = pc[u] /\ other'[u] = other[u]
      /\ UNCHANGED <<op, id, target>>
  OBVIOUS
<1>1. \A u \in Threads \ {t} : HoldsAtPlace(u)' = HoldsAtPlace(u)
  BY <1>0 DEF HoldsAtPlace, Touched
<1>2. HoldsAtPlace(t)' = HoldsAtPlace(t)
  BY <1>0 DEF HoldsAtPlace
<1>3. \A u \in Threads : pc'[u] = "mutex" => mutexes[target'[u]] = ref'[u]
  BY DEF MutexesHeld
<1>4. UNCHANGED <<mutexes, owner>>
  OBVIOUS
<1>5. Held' = Held
  BY <1>1, <1>2, HeldAt
<1> QED BY <1>3, <1>4, <1>5, HeldFrame

LEMMA AskMoreKeepsMutexes ==
  ASSUME LockInv, MutexesHeld, NEW t \in Threads, AskMore(t)
  PROVE  MutexesHeld'
<1> USE DEF LockInv, TypeOK, AskMore, WriteFails
<1>1. \A u \in Threads \ {t} : HoldsAtPlace(u)' = HoldsAtPlace(u)
  BY DEF HoldsAtPlace, Touched
<1>2. HoldsAtPlace(t)' = HoldsAtPlace(t)
  BY DEF HoldsAtPlace, Touched, TargetAtPlace, OpAtPlace
<1>3. \A u \in Threads : pc'[u] = "mutex" => mutexes[target'[u]] = ref'[u]
  BY DEF MutexesHeld
<1>4. UNCHANGED <<mutexes, owner>>
  OBVIOUS
<1>5. Held' = Held
  BY <1>1, <1>2, HeldAt
<1> QED BY <1>3, <1>4, <1>5, HeldFrame

LEMMA ReadLockKeepsMutexes ==
  ASSUME LockInv, MutexesHeld, NEW t \in Threads, ReadLock(t),
         UNCHANGED <<systems, argVars, online, sent>>
  PROVE  MutexesHeld'
<1> USE DEF LockInv, TypeOK, ReadLock
<1>1. \A u \in Threads \ {t} : HoldsAtPlace(u)' = HoldsAtPlace(u)
  BY DEF HoldsAtPlace, Touched
<1>2. HoldsAtPlace(t)' = HoldsAtPlace(t)
  BY DEF HoldsAtPlace, Touched, TargetAtPlace, OpAtPlace
<1>3. \A u \in Threads : pc'[u] = "mutex" => mutexes[target'[u]] = ref'[u]
  BY DEF MutexesHeld
<1>4. UNCHANGED <<mutexes, owner>>
  OBVIOUS
<1>5. Held' = Held
  BY <1>1, <1>2, HeldAt
<1> QED BY <1>3, <1>4, <1>5, HeldFrame

LEMMA FindMutexKeepsMutexes ==
  ASSUME LockInv, MutexesHeld, NEW t \in Threads, FindMutex(t),
         UNCHANGED <<systems, argVars, online, sent>>
  PROVE  MutexesHeld'
<1> USE DEF LockInv, TypeOK, FindMutex
<1>1. \A u \in Threads \ {t} : HoldsAtPlace(u)' = HoldsAtPlace(u)
  BY DEF HoldsAtPlace, Touched
<1>2. HoldsAtPlace(t)' = HoldsAtPlace(t)
  BY DEF HoldsAtPlace, Touched, TargetAtPlace, OpAtPlace
<1>3. \A u \in Threads : pc'[u] = "mutex" => mutexes[target'[u]] = ref'[u]
  BY DEF MutexesHeld
<1>4. UNCHANGED <<mutexes, owner>>
  OBVIOUS
<1>5. Held' = Held
  BY <1>1, <1>2, HeldAt
<1> QED BY <1>3, <1>4, <1>5, HeldFrame

LEMMA WorkKeepsMutexes ==
  ASSUME LockInv, MutexesHeld, NEW t \in Threads, Work(t)
  PROVE  MutexesHeld'
<1> USE DEF LockInv, TypeOK, Work
<1>1. \A u \in Threads \ {t} : HoldsAtPlace(u)' = HoldsAtPlace(u)
  BY DEF HoldsAtPlace, Touched
<1>2. HoldsAtPlace(t)' = HoldsAtPlace(t)
  <2>1. CASE TwoSystems(t)
    BY <2>1 DEF HoldsAtPlace, Touched, TargetAtPlace
  <2>2. CASE ~TwoSystems(t)
    <3>1. HoldsAtPlace(t) = {id[t]}
      BY <2>2 DEF HoldsAtPlace, Touched
    <3>2. HoldsAtPlace(t)' = {id[t]}
      BY <2>2 DEF HoldsAtPlace
    <3> QED BY <3>1, <3>2
  <2> QED BY <2>1, <2>2
<1>3. \A u \in Threads : pc'[u] = "mutex" => mutexes[target'[u]] = ref'[u]
  BY DEF MutexesHeld
<1>4. UNCHANGED <<mutexes, owner>>
  OBVIOUS
<1>5. Held' = Held
  BY <1>1, <1>2, HeldAt
<1> QED BY <1>3, <1>4, <1>5, HeldFrame

LEMMA RwUnlockKeepsMutexes ==
  ASSUME LockInv, MutexesHeld, NEW t \in Threads, RwUnlock(t),
         UNCHANGED <<systems, argVars, online, sent>>
  PROVE  MutexesHeld'
<1> USE DEF LockInv, TypeOK, RwUnlock
<1>1. \A u \in Threads \ {t} : HoldsAtPlace(u)' = HoldsAtPlace(u)
  BY DEF HoldsAtPlace, Touched
<1>2. HoldsAtPlace(t)' = HoldsAtPlace(t)
  BY DEF HoldsAtPlace, Touched, TargetAtPlace, OpAtPlace
<1>3. \A u \in Threads : pc'[u] = "mutex" => mutexes[target'[u]] = ref'[u]
  BY DEF MutexesHeld
<1>4. UNCHANGED <<mutexes, owner>>
  OBVIOUS
<1>5. Held' = Held
  BY <1>1, <1>2, HeldAt
<1> QED BY <1>3, <1>4, <1>5, HeldFrame

LEMMA WriteLockKeepsMutexes ==
  ASSUME LockInv, MutexesHeld, NEW t \in Threads, WriteLock(t),
         UNCHANGED <<systems, argVars, online, sent>>
  PROVE  MutexesHeld'
<1> USE DEF LockInv, TypeOK, WriteLock, CanWrite
<1>1. \A u \in Threads \ {t} : HoldsAtPlace(u)' = HoldsAtPlace(u)
  BY DEF HoldsAtPlace, Touched
<1>2. HoldsAtPlace(t)' = HoldsAtPlace(t)
  BY DEF HoldsAtPlace, Touched, TargetAtPlace, OpAtPlace
<1>3. \A u \in Threads : pc'[u] = "mutex" => mutexes[target'[u]] = ref'[u]
  BY DEF MutexesHeld
<1>4. UNCHANGED <<mutexes, owner>>
  OBVIOUS
<1>5. Held' = Held
  BY <1>1, <1>2, HeldAt
<1> QED BY <1>3, <1>4, <1>5, HeldFrame

LEMMA StoreKeepsMutexes ==
  ASSUME LockInv, MutexesHeld, NEW t \in Threads, Store(t)
  PROVE  MutexesHeld'
<1> USE DEF LockInv, TypeOK, Store
<1>1. \A u \in Threads \ {t} : HoldsAtPlace(u)' = HoldsAtPlace(u)
  BY DEF HoldsAtPlace, Touched
<1>2. HoldsAtPlace(t)' = HoldsAtPlace(t)
  BY DEF HoldsAtPlace, Touched, TargetAtPlace, OpAtPlace
<1>3. \A u \in Threads : pc'[u] = "mutex" => mutexes[target'[u]] = ref'[u]
  BY DEF MutexesHeld
<1>4. UNCHANGED <<mutexes, owner>>
  OBVIOUS
<1>5. Held' = Held
  BY <1>1, <1>2, HeldAt
<1> QED BY <1>3, <1>4, <1>5, HeldFrame

LEMMA ReplyKeepsMutexes ==
  ASSUME LockInv, MutexesHeld, NEW t \in Threads, Reply(t)
  PROVE  MutexesHeld'
<1> USE DEF LockInv, TypeOK, Reply
<1>1. \A u \in Threads \ {t} : HoldsAtPlace(u)' = HoldsAtPlace(u)
  BY DEF HoldsAtPlace, Touched
<1>2. HoldsAtPlace(t)' = HoldsAtPlace(t)
  BY DEF HoldsAtPlace, Touched, TargetAtPlace, OpAtPlace
<1>3. \A u \in Threads : pc'[u] = "mutex" => mutexes[target'[u]] = ref'[u]
  BY DEF MutexesHeld
<1>4. UNCHANGED <<mutexes, owner>>
  OBVIOUS
<1>5. Held' = Held
  BY <1>1, <1>2, HeldAt
<1> QED BY <1>3, <1>4, <1>5, HeldFrame

LEMMA InsertMutexKeepsMutexes ==
  ASSUME ~LostInsert, LockInv, MutexesHeld, NEW t \in Threads, InsertMutex(t),
         UNCHANGED <<systems, argVars, online, sent>>
  PROVE  MutexesHeld'
<1> USE DEF LockInv, TypeOK, InsertMutex
<1>1. Held' = Held
  <2>1. \A u \in Threads \ {t} : HoldsAtPlace(u)' = HoldsAtPlace(u)
    BY DEF HoldsAtPlace, Touched
  <2>2. HoldsAtPlace(t)' = HoldsAtPlace(t)
    BY DEF HoldsAtPlace, Touched, TargetAtPlace, OpAtPlace
  <2> QED BY <2>1, <2>2, HeldAt
<1>2. \A i \in Ids : mutexes[i] # Absent => mutexes'[i] = mutexes[i]
  OBVIOUS
<1>3. (\A u \in Threads : pc[u] = "mutex" => mutexes[target[u]] = ref[u])'
  BY LockAssumption DEF MutexesHeld
<1>4. (\A u \in Threads : \A i \in Held[u] :
          mutexes[i] # Absent /\ owner[i][mutexes[i]] = u)'
  <2>1. \A u \in Threads : Held[u] \subseteq Ids
    BY DEF Held, HoldsAtPlace, Touched
  <2> QED BY <1>1, <1>2, <2>1 DEF MutexesHeld
<1>5. (\A i \in Ids : \A m \in Makers : owner[i][m] # NoThread =>
          m = mutexes[i] /\ i \in Held[owner[i][m]])'
  BY <1>1, <1>2, LockAssumption DEF MutexesHeld
<1> QED BY <1>3, <1>4, <1>5 DEF MutexesHeld

LEMMA LockKeepsMutexes ==
  ASSUME LockInv, MutexesHeld, NEW t \in Threads, Lock(t)
  PROVE  MutexesHeld'
<1> USE DEF LockInv, TypeOK, Lock, LockMutex
<1>1. Held' = [Held EXCEPT ![t] = @ \cup {target[t]}]
  <2>1. \A u \in Threads \ {t} : HoldsAtPlace(u)' = HoldsAtPlace(u)
    BY DEF HoldsAtPlace, Touched
  <2>2. HoldsAtPlace(t)' = HoldsAtPlace(t) \cup {target[t]}
    BY DEF HoldsAtPlace, Touched, TargetAtPlace, OpAtPlace
  <2> QED BY <2>1, <2>2 DEF Held
<1>h. \A u \in Threads : Held'[u] = IF u = t THEN Held[t] \cup {target[t]} ELSE Held[u]
  BY <1>1 DEF Held
<1>2. /\ target[t] \in Ids /\ ref[t] \in Makers
      /\ mutexes[target[t]] = ref[t] /\ ref[t] # Absent
      /\ owner[target[t]][ref[t]] = NoThread
      /\ owner' = [owner EXCEPT ![target[t]][ref[t]] = t]
      /\ mutexes' = mutexes
  BY LockAssumption DEF MutexesHeld
<1>3. (\A u \in Threads : pc[u] = "mutex" => mutexes[target[u]] = ref[u])'
  BY DEF MutexesHeld
<1>4. (\A u \in Threads : \A i \in Held[u] :
          mutexes[i] # Absent /\ owner[i][mutexes[i]] = u)'
  <2>1. \A u \in Threads : Held[u] \subseteq Ids
    BY DEF Held, HoldsAtPlace, Touched
  <2>2. \A u \in Threads : target[t] \notin Held[u]
    BY <1>2, LockAssumption DEF MutexesHeld
  <2> SUFFICES ASSUME NEW u \in Threads, NEW i \in Held'[u]
               PROVE  mutexes[i] # Absent /\ owner'[i][mutexes[i]] = u
    BY <1>2
  <2>3. CASE i = target[t]
    <3>1. u = t
      BY <1>h, <2>2, <2>3
    <3>2. owner'[target[t]] = [owner[target[t]] EXCEPT ![ref[t]] = t]
      BY <1>2
    <3>3. owner'[target[t]][ref[t]] = t
      BY <3>2, <1>2
    <3> QED BY <2>3, <3>1, <3>3, <1>2
  <2>4. CASE i # target[t]
    <3>1. i \in Held[u]
      BY <1>h, <2>4
    <3>2. i \in Ids
      BY <2>1, <3>1
    <3>3. mutexes[i] # Absent /\ owner[i][mutexes[i]] = u
      BY <3>1 DEF MutexesHeld
    <3> QED BY <2>4, <3>2, <3>3, <1>2
  <2> QED BY <2>3, <2>4
<1>5. (\A i \in Ids : \A m \in Makers : owner[i][m] # NoThread =>
          m = mutexes[i] /\ i \in Held[owner[i][m]])'
  <2> SUFFICES ASSUME NEW i \in Ids, NEW m \in Makers, owner'[i][m] # NoThread
               PROVE  m = mutexes[i] /\ i \in Held'[owner'[i][m]]
    BY <1>2
  <2>1. CASE i = target[t] /\ m = ref[t]
    <3>1. owner'[i][m] = t
      BY <2>1, <1>2
    <3>2. target[t] \in Held'[t]
      BY <1>1 DEF Held
    <3> QED BY <2>1, <1>2, <3>1, <3>2
  <2>2. CASE ~ (i = target[t] /\ m = ref[t])
    <3>1. owner'[i][m] = owner[i][m]
      BY <2>2, <1>2
    <3>2. m = mutexes[i] /\ i \in Held[owner[i][m]] /\ owner[i][m] \in Threads
      BY <3>1 DEF MutexesHeld
    <3>3. Held[owner[i][m]] \subseteq Held'[owner[i][m]]
      BY <1>h, <3>2
    <3> QED BY <3>1, <3>2, <3>3
  <2> QED BY <2>1, <2>2
<1> QED BY <1>3, <1>4, <1>5 DEF MutexesHeld

LEMMA UnlockKeepsMutexes ==
  ASSUME LockInv, MutexesHeld, NEW t \in Threads, Unlock(t)
  PROVE  MutexesHeld'
<1> USE DEF LockInv, TypeOK, Unlock, UnlockMutex
<1>1. Held' = [Held EXCEPT ![t] = @ \ {target[t]}]
  <2>1. \A u \in Threads \ {t} : HoldsAtPlace(u)' = HoldsAtPlace(u)
    BY DEF HoldsAtPlace, Touched
  <2>2. HoldsAtPlace(t)' = HoldsAtPlace(t) \ {target[t]}
    BY DEF HoldsAtPlace, Touched, TargetAtPlace, OpAtPlace
  <2> QED BY <2>1, <2>2 DEF Held
<1>h. \A u \in Threads : Held'[u] = IF u = t THEN Held[t] \ {target[t]} ELSE Held[u]
  BY <1>1 DEF Held
<1>2. target[t] \in Held[t]
  BY DEF Held, HoldsAtPlace, TargetAtPlace
<1>3. /\ target[t] \in Ids /\ mutexes[target[t]] \in Makers
      /\ owner[target[t]][mutexes[target[t]]] = t
      /\ owner' = [owner EXCEPT ![target[t]][mutexes[target[t]]] = NoThread]
      /\ mutexes' = mutexes
  BY <1>2 DEF MutexesHeld
<1>4. (\A u \in Threads : pc[u] = "mutex" => mutexes[target[u]] = ref[u])'
  BY DEF MutexesHeld
<1>5. (\A u \in Threads : \A i \in Held[u] :
          mutexes[i] # Absent /\ owner[i][mutexes[i]] = u)'
  <2> SUFFICES ASSUME NEW u \in Threads, NEW i \in Held'[u]
               PROVE  mutexes[i] # Absent /\ owner'[i][mutexes[i]] = u
    BY <1>3
  <2>1. i \in Held[u] /\ i \in Ids /\ ~(u = t /\ i = target[t])
    BY <1>1 DEF Held, HoldsAtPlace, Touched
  <2>2. mutexes[i] # Absent /\ owner[i][mutexes[i]] = u
    BY <2>1 DEF MutexesHeld
  <2>3. i # target[t]
    BY <2>1, <2>2, <1>3
  <2>4. mutexes[i] \in Makers
    BY <2>1, <2>2
  <2> QED BY <2>1, <2>2, <2>3, <2>4, <1>3
<1>6. (\A i \in Ids : \A m \in Makers : owner[i][m] # NoThread =>
          m = mutexes[i] /\ i \in Held[owner[i][m]])'
  <2> SUFFICES ASSUME NEW i \in Ids, NEW m \in Makers, owner'[i][m] # NoThread
               PROVE  m = mutexes[i] /\ i \in Held'[owner'[i][m]]
    BY <1>3
  <2>1. owner'[i][m] = owner[i][m] /\ ~(i = target[t] /\ m = mutexes[target[t]])
    BY <1>3
  <2>2. m = mutexes[i] /\ i \in Held[owner[i][m]] /\ owner[i][m] \in Threads
    BY <2>1 DEF MutexesHeld
  <2>3. i \in Held'[owner[i][m]]
    BY <1>h, <2>1, <2>2
  <2> QED BY <2>1, <2>2, <2>3
<1> QED BY <1>4, <1>5, <1>6 DEF MutexesHeld

LEMMA MutexesHeldInit == Init => MutexesHeld
<1> SUFFICES ASSUME Init PROVE MutexesHeld
  OBVIOUS
<1>1. \A t \in Threads : Held[t] = {} /\ pc[t] = "idle"
  BY DEF Init, Held, HoldsAtPlace
<1>2. \A i \in Ids : \A m \in Makers : owner[i][m] = NoThread
  BY DEF Init, LockInit
<1> QED BY <1>1, <1>2 DEF MutexesHeld

LEMMA MutexesHeldNext ==
  ASSUME ~LostInsert
  PROVE  LockInv /\ MutexesHeld /\ [Next]_vars => MutexesHeld'
<1> SUFFICES ASSUME LockInv, MutexesHeld, [Next]_vars PROVE MutexesHeld'
  OBVIOUS
<1>1. CASE UNCHANGED vars
  <2>1. Held' = Held
    BY <1>1 DEF vars, Held, HoldsAtPlace, Touched
  <2> QED BY <1>1, <2>1 DEF vars, MutexesHeld
<1>2. ASSUME NEW t \in Threads, LockStep(t) PROVE MutexesHeld'
  BY <1>2, ReadLockKeepsMutexes, FindMutexKeepsMutexes, InsertMutexKeepsMutexes,
     RwUnlockKeepsMutexes, WriteLockKeepsMutexes DEF LockStep
<1>3. ASSUME NEW t \in Threads, Receive(t) \/ Leave(t) \/ Step(t) PROVE MutexesHeld'
  BY <1>2, <1>3, ReceiveKeepsMutexes, LeaveKeepsMutexes, CheckKeepsMutexes,
     CheckOtherKeepsMutexes, AskKeepsMutexes, AskMoreKeepsMutexes, LockKeepsMutexes,
     WorkKeepsMutexes, UnlockKeepsMutexes, StoreKeepsMutexes, ReplyKeepsMutexes
     DEF Step
<1> QED BY <1>1, <1>3 DEF Next

(* No two threads are at work on the same system, as long as no racing     *)
(* insertion into the mutexes map is lost.                                 *)
THEOREM SystemsExclusive ==
  ASSUME ~LostInsert
  PROVE  Spec => []ElementExclusion
<1>1. LockInv /\ MutexesHeld => ElementExclusion
  <2> SUFFICES ASSUME LockInv, MutexesHeld,
                      NEW t \in Threads, NEW u \in Threads, t # u,
                      pc[t] = "work", pc[u] = "work",
                      NEW i \in Touched(t) \cap Touched(u)
               PROVE  FALSE
    BY DEF ElementExclusion
  <2>1. i \in Held[t] /\ i \in Held[u]
    BY DEF Held, HoldsAtPlace
  <2>2. owner[i][mutexes[i]] = t /\ owner[i][mutexes[i]] = u
    BY <2>1 DEF MutexesHeld
  <2> QED BY <2>2
<1> QED BY <1>1, LockInvInit, LockInvNext, MutexesHeldInit, MutexesHeldNext, PTL DEF Spec

(* A thread that talks to its client holds none of the handler's locks.    *)
THEOREM TalksUnlocked ==
  ASSUME ~LostInsert
  PROVE  Spec => []NoLockWhileTalking
<1>1. LockInv /\ MutexesHeld => NoLockWhileTalking
  <2> SUFFICES ASSUME LockInv, MutexesHeld, NEW t \in Threads,
                      pc[t] \in {"idle", "ask", "askMore", "reply"}
               PROVE  /\ readers[t] = 0
                      /\ writer # t
                      /\ \A i \in Ids : \A m \in Makers : owner[i][m] # t
    BY DEF NoLockWhileTalking
  <2>1. readers[t] = 0 /\ writer # t
    BY DEF LockInv, RwLockHeld, ReadHolds
  <2>2. Held[t] = {}
    BY DEF Held, HoldsAtPlace
  <2>3. \A i \in Ids : \A m \in Makers : owner[i][m] # t
    BY <2>2, LockAssumption DEF MutexesHeld
  <2> QED BY <2>1, <2>3
<1> QED BY <1>1, LockInvInit, LockInvNext, MutexesHeldInit, MutexesHeldNext, PTL DEF Spec

-----------------------------------------------------------------------------
(* FreeWhenItCame is kept by every action.                                 *)

LEMMA FreeWhenItCameInit == Init => FreeWhenItCame
  BY DEF Init, FreeWhenItCame, Adding

LEMMA ReceiveKeepsFree ==
  ASSUME LockInv, FreeWhenItCame, NEW t \in Threads, Receive(t)
  PROVE  FreeWhenItCame'
  BY LockAssumption, HandlerAssumption
     DEF LockInv, TypeOK, OpAtPlace, Receive, FreeWhenItCame, Adding, NewId

LEMMA LeaveKeepsFree ==
  ASSUME LockInv, FreeWhenItCame, NEW t \in Threads, Leave(t)
  PROVE  FreeWhenItCame'
  BY LockAssumption, HandlerAssumption
     DEF LockInv, TypeOK, OpAtPlace, Leave, FreeWhenItCame, Adding, NewId

LEMMA CheckKeepsFree ==
  ASSUME LockInv, FreeWhenItCame, NEW t \in Threads, Check(t)
  PROVE  FreeWhenItCame'
  BY LockAssumption, HandlerAssumption
     DEF LockInv, TypeOK, OpAtPlace, Check, FreeWhenItCame, Adding, NewId

LEMMA CheckOtherKeepsFree ==
  ASSUME LockInv, FreeWhenItCame, NEW t \in Threads, CheckOther(t)
  PROVE  FreeWhenItCame'
  BY LockAssumption, HandlerAssumption
     DEF LockInv, TypeOK, OpAtPlace, CheckOther, FreeWhenItCame, Adding, NewId

LEMMA AskMoreKeepsFree ==
  ASSUME LockInv, FreeWhenItCame, NEW t \in Threads, AskMore(t)
  PROVE  FreeWhenItCame'
  BY LockAssumption, HandlerAssumption
     DEF LockInv, TypeOK, OpAtPlace, AskMore, WriteFails, FreeWhenItCame, Adding, NewId

LEMMA LockKeepsFree ==
  ASSUME LockInv, FreeWhenItCame, NEW t \in Threads, Lock(t)
  PROVE  FreeWhenItCame'
  BY LockAssumption, HandlerAssumption
     DEF LockInv, TypeOK, OpAtPlace, Lock, LockMutex, FreeWhenItCame, Adding, NewId

LEMMA WorkKeepsFree ==
  ASSUME LockInv, FreeWhenItCame, NEW t \in Threads, Work(t)
  PROVE  FreeWhenItCame'
  BY LockAssumption, HandlerAssumption
     DEF LockInv, TypeOK, OpAtPlace, Work, FreeWhenItCame, Adding, NewId

LEMMA UnlockKeepsFree ==
  ASSUME LockInv, FreeWhenItCame, NEW t \in Threads, Unlock(t)
  PROVE  FreeWhenItCame'
  BY LockAssumption, HandlerAssumption
     DEF LockInv, TypeOK, OpAtPlace, Unlock, UnlockMutex, FreeWhenItCame, Adding, NewId

LEMMA ReplyKeepsFree ==
  ASSUME LockInv, FreeWhenItCame, NEW t \in Threads, Reply(t)
  PROVE  FreeWhenItCame'
  BY LockAssumption, HandlerAssumption
     DEF LockInv, TypeOK, OpAtPlace, Reply, FreeWhenItCame, Adding, NewId

LEMMA LockStepKeepsFree ==
  ASSUME LockInv, FreeWhenItCame, NEW t \in Threads, LockStep(t)
  PROVE  FreeWhenItCame'
<1> USE DEF LockInv, TypeOK
<1>1. UNCHANGED <<systems, argVars>>
  BY DEF LockStep
<1>2. \A u \in Threads : Adding(u)' => Adding(u)
  BY DEF LockStep, ReadLock, FindMutex, InsertMutex, RwUnlock, WriteLock, Adding, OpAtPlace
<1> QED BY <1>1, <1>2 DEF FreeWhenItCame, NewId

LEMMA AskKeepsFree ==
  ASSUME LockInv, FreeWhenItCame, NEW t \in Threads, Ask(t)
  PROVE  FreeWhenItCame'
<1> USE DEF LockInv, TypeOK
<1>1. /\ UNCHANGED <<systems, op, id, found>>
      /\ \A u \in Threads \ {t} : pc'[u] = pc[u] /\ other'[u] = other[u]
      /\ pc'[t] \in {"idle", "askMore", "checkOther"}
  BY DEF Ask, WriteFails
<1>2. \A u \in Threads : Adding(u)' => u # t /\ Adding(u) /\ NewId(u)' = NewId(u)
  BY <1>1 DEF Adding, NewId
<1> QED BY <1>1, <1>2 DEF FreeWhenItCame

LEMMA StoreKeepsFree ==
  ASSUME LockInv, FreeWhenItCame, NEW t \in Threads, Store(t)
  PROVE  FreeWhenItCame'
<1> USE DEF LockInv, TypeOK, Store
<1>1. \A i \in Ids : Exists(i) => Exists(i)'
  BY LockAssumption
<1>2. \A u \in Threads : Adding(u)' => Adding(u) /\ NewId(u)' = NewId(u)
  BY DEF Adding, NewId
<1> QED BY <1>1, <1>2 DEF FreeWhenItCame

LEMMA FreeWhenItCameNext == LockInv /\ FreeWhenItCame /\ [Next]_vars => FreeWhenItCame'
<1> SUFFICES ASSUME LockInv, FreeWhenItCame, [Next]_vars PROVE FreeWhenItCame'
  OBVIOUS
<1>1. CASE UNCHANGED vars
  BY <1>1 DEF vars, FreeWhenItCame, Adding, NewId
<1>2. ASSUME NEW t \in Threads, Receive(t) \/ Leave(t) \/ Step(t) PROVE FreeWhenItCame'
  BY <1>2, LockStepKeepsFree, ReceiveKeepsFree, LeaveKeepsFree, CheckKeepsFree,
     CheckOtherKeepsFree, AskKeepsFree, AskMoreKeepsFree, LockKeepsFree, WorkKeepsFree,
     UnlockKeepsFree, StoreKeepsFree, ReplyKeepsFree
     DEF Step
<1> QED BY <1>1, <1>2 DEF Next

LEMMA OnlyStoreAdds ==
  ASSUME LockInv, [Next]_vars, systems' # systems
  PROVE  \E t \in Threads : Store(t)
<1>1. ASSUME NEW t \in Threads, LockStep(t) PROVE systems' = systems
  BY <1>1 DEF LockStep
<1>2. ASSUME NEW t \in Threads, Receive(t) \/ Leave(t) \/ Step(t), ~Store(t)
      PROVE  systems' = systems
  BY <1>1, <1>2 DEF Receive, Leave, Step, Check, CheckOther, Ask, AskMore, Lock, Work,
     Unlock, Reply
<1>3. UNCHANGED vars => systems' = systems
  BY DEF vars
<1> QED BY <1>2, <1>3 DEF Next

(* create and makeCopy replace an object only when it came after their     *)
(* command did: the two locks of a check and a store let commands that are *)
(* under way at once overwrite each other's object, and no other.  For any *)
(* number of clients, whatever ids they give out.                          *)
THEOREM NamesKept == Spec => ReplacedOnlyInRace
<1>1. LockInv /\ FreeWhenItCame /\ [Next]_vars =>
         [\A i \in Ids : Exists(i) =>
             \/ systems'[i] = systems[i]
             \/ \E t \in Threads : systems'[i] = t /\ i \notin found[t]]_systems
  <2> SUFFICES ASSUME LockInv, FreeWhenItCame, [Next]_vars, systems' # systems,
                      NEW i \in Ids, Exists(i), systems'[i] # systems[i]
               PROVE  \E t \in Threads : systems'[i] = t /\ i \notin found[t]
    OBVIOUS
  <2>1. PICK t \in Threads : Store(t)
    BY OnlyStoreAdds
  <2>2. Adding(t)
    BY <2>1 DEF Store, Adding, LockInv, OpAtPlace, TypeOK
  <2>3. systems' = [systems EXCEPT ![NewId(t)] = t]
    BY <2>1 DEF Store, NewId
  <2>4. i = NewId(t) /\ systems'[i] = t
    BY <2>3 DEF LockInv, TypeOK
  <2> QED BY <2>2, <2>4 DEF FreeWhenItCame
<1>2. LockInv /\ FreeWhenItCame /\ [Next]_vars => (LockInv /\ FreeWhenItCame)'
  BY LockInvNext, FreeWhenItCameNext
<1>3. Init => LockInv /\ FreeWhenItCame
  BY LockInvInit, FreeWhenItCameInit
<1> QED BY <1>1, <1>2, <1>3, PTL DEF Spec, ReplacedOnlyInRace

-----------------------------------------------------------------------------
(* Every step is a step of SystemRegistry, or changes nothing there: the   *)
(* lock that completes a command's locking is Begin, the work's end is     *)
(* End, and Store is Add.                                                  *)

LEMMA BusyFrame ==
  ASSUME \A u \in Threads : /\ pc'[u] = "work" <=> pc[u] = "work"
                            /\ pc[u] = "work" => Touched(u)' = Touched(u)
  PROVE  Busy' = Busy
  BY DEF Busy

LEMMA LockStepRefines ==
  ASSUME LockInv, NEW t \in Threads, LockStep(t)
  PROVE  UNCHANGED <<systems, Busy, found>>
<1> USE DEF LockInv, TypeOK
<1>1. /\ pc[t] # "work" /\ pc'[t] # "work"
      /\ \A u \in Threads \ {t} : pc'[u] = pc[u]
      /\ UNCHANGED <<systems, op, id, other, found>>
  BY DEF LockStep, ReadLock, FindMutex, InsertMutex, RwUnlock, WriteLock
<1>2. Busy' = Busy
  BY <1>1, BusyFrame DEF Touched
<1> QED BY <1>1, <1>2

LEMMA AloneRefines ==
  ASSUME LockInv, NEW t \in Threads,
         \/ Receive(t) \/ Leave(t) \/ Check(t) \/ CheckOther(t) \/ Ask(t) \/ AskMore(t)
         \/ Unlock(t) \/ Reply(t)
  PROVE  /\ UNCHANGED <<systems, Busy>>
         /\ ~Receive(t) => found' = found
<1> USE DEF LockInv, TypeOK
<1>1. systems' = systems
  BY DEF Receive, Leave, Check, CheckOther, Ask, AskMore, Unlock, Reply
<1>2. ASSUME Leave(t) PROVE Busy' = Busy
  BY <1>1, <1>2 DEF Leave, Busy, Touched
<1>3. ASSUME ~Leave(t) PROVE Busy' = Busy
  <2>1. pc[t] # "work" /\ pc'[t] # "work"
    BY <1>3 DEF Receive, Check, CheckOther, Ask, AskMore, WriteFails, Unlock, UnlockMutex,
       Reply
  <2>2. \A u \in Threads \ {t} : pc'[u] = pc[u]
    BY <1>3 DEF Receive, Check, CheckOther, Ask, AskMore, WriteFails, Unlock, UnlockMutex,
       Reply
  <2>3. \A u \in Threads \ {t} : op'[u] = op[u] /\ id'[u] = id[u] /\ other'[u] = other[u]
    <3>1. CASE Receive(t)
      BY <3>1 DEF Receive
    <3>2. CASE Check(t) \/ CheckOther(t)
      BY <3>2 DEF Check, CheckOther
    <3>3. CASE Ask(t) \/ AskMore(t)
      BY <3>3 DEF Ask, AskMore, WriteFails
    <3>4. CASE Unlock(t) \/ Reply(t)
      BY <3>4 DEF Unlock, UnlockMutex, Reply
    <3> QED BY <1>3, <3>1, <3>2, <3>3, <3>4
  <2> QED BY <2>1, <2>2, <2>3, BusyFrame DEF Touched
<1>4. ~Receive(t) => found' = found
  BY DEF Leave, Check, CheckOther, Ask, AskMore, Unlock, Reply
<1> QED BY <1>1, <1>2, <1>3, <1>4

(* The command's coming is Come. *)
LEMMA ReceiveRefines ==
  ASSUME LockInv, NEW t \in Threads, Receive(t)
  PROVE  Registry!Come(t)
<1> USE DEF LockInv, TypeOK
<1>1. UNCHANGED <<systems, Busy>>
  BY AloneRefines
<1>2. \A i \in Ids : t \notin Busy[i]
  BY DEF Receive, Busy
<1>3. found' = [found EXCEPT ![t] = {j \in Ids : Exists(j)}]
  BY DEF Receive
<1>4. [u \in Threads |-> Ids \ found[u]]'
         = [[u \in Threads |-> Ids \ found[u]] EXCEPT ![t] = {i \in Ids : systems[i] = Absent}]
  <2>1. \A u \in Threads \ {t} : found'[u] = found[u]
    BY <1>3
  <2>2. Ids \ found'[t] = {i \in Ids : systems[i] = Absent}
    BY <1>3
  <2> QED BY <2>1, <2>2
<1> QED BY <1>1, <1>2, <1>4 DEF Registry!Come

LEMMA LockRefines ==
  ASSUME LockInv, MutexesHeld, MutexesHeld', NEW t \in Threads, Lock(t)
  PROVE  \/ UNCHANGED <<systems, Busy, found>>
         \/ Registry!Begin(t, Touched(t))
<1> USE DEF LockInv, TypeOK, Lock, LockMutex
<1>0. /\ pc[t] = "mutex" /\ pc'[t] \in {"readLock", "work"}
      /\ \A u \in Threads \ {t} : pc'[u] = pc[u]
      /\ UNCHANGED <<systems, op, id, other, found>>
  OBVIOUS
<1>1. CASE pc'[t] = "readLock"
  BY <1>0, <1>1, BusyFrame DEF Touched
<1>2. CASE pc'[t] = "work"
  <2>1. \A i \in Touched(t) : systems[i] # Absent
    BY <1>0 DEF StillExists, Touched
  <2>2. \A i \in Touched(t) : Busy[i] = {}
    <3> SUFFICES ASSUME NEW i \in Touched(t), NEW u \in Busy[i] PROVE FALSE
      OBVIOUS
    <3>1. i \in Ids /\ u \in Threads /\ pc[u] = "work" /\ i \in Touched(u)
      BY DEF Busy, Touched
    <3>2. u # t /\ pc'[u] = "work"
      BY <3>1, <1>0
    <3>3. i \in Touched(u)' /\ i \in Touched(t)'
      BY <3>1, <1>0 DEF Touched
    <3>4. i \in Held'[u] /\ i \in Held'[t]
      BY <3>1, <3>2, <3>3, <1>2 DEF Held, HoldsAtPlace
    <3>5. owner'[i][mutexes'[i]] = u /\ owner'[i][mutexes'[i]] = t
      BY <3>1, <3>4 DEF MutexesHeld
    <3> QED BY <3>2, <3>5
  <2>3. \A i \in Ids : t \notin Busy[i]
    BY <1>0 DEF Busy
  <2>4. Busy' = [i \in Ids |-> IF i \in Touched(t) THEN {t} ELSE Busy[i]]
    <3>1. \A i \in Ids : Busy'[i] = IF i \in Touched(t) THEN {t} ELSE Busy[i]
      <4> SUFFICES ASSUME NEW i \in Ids
                   PROVE  Busy'[i] = IF i \in Touched(t) THEN {t} ELSE Busy[i]
        OBVIOUS
      <4>1. Busy'[i] = {u \in Threads : pc'[u] = "work" /\ i \in Touched(u)}
        BY <1>0 DEF Busy, Touched
      <4>2. \A u \in Threads \ {t} : u \in Busy'[i] <=> u \in Busy[i]
        BY <4>1, <1>0 DEF Busy
      <4>3. t \in Busy'[i] <=> i \in Touched(t)
        BY <4>1, <1>2
      <4>4. Busy'[i] \subseteq Threads /\ Busy[i] \subseteq Threads
        BY <4>1 DEF Busy
      <4>5. CASE i \in Touched(t)
        <5>1. \A u \in Threads \ {t} : u \notin Busy'[i]
          BY <2>2, <4>2, <4>5
        <5> QED BY <4>3, <4>4, <4>5, <5>1
      <4>6. CASE i \notin Touched(t)
        <5>1. t \notin Busy'[i] /\ t \notin Busy[i]
          BY <2>3, <4>3, <4>6
        <5>2. \A u \in Threads : u \in Busy'[i] <=> u \in Busy[i]
          BY <4>2, <5>1
        <5> HIDE DEF LockInv, TypeOK, Lock, LockMutex
        <5>3. Busy'[i] = Busy[i]
          BY <4>4, <5>2
        <5> QED BY <4>6, <5>3
      <4> QED BY <4>5, <4>6
    <3>2. Busy' = [i \in Ids |-> Busy'[i]]
      BY DEF Busy
    <3> QED BY <3>1, <3>2
  <2> QED BY <1>0, <2>1, <2>2, <2>3, <2>4 DEF Registry!Begin
<1> QED BY <1>0, <1>1, <1>2

LEMMA WorkRefines ==
  ASSUME LockInv, NEW t \in Threads, Work(t)
  PROVE  Registry!End(t)
<1> USE DEF LockInv, TypeOK, Work
<1>1. /\ pc'[t] = "rwUnlock" /\ \A u \in Threads \ {t} : pc'[u] = pc[u]
      /\ UNCHANGED <<systems, op, id, other, found>>
  OBVIOUS
<1>2. \A i \in Ids : Busy'[i] = Busy[i] \ {t}
  BY <1>1 DEF Busy, Touched
<1>3. Busy' = [i \in Ids |-> Busy'[i]]
  BY DEF Busy
<1> QED BY <1>1, <1>2, <1>3 DEF Registry!End

LEMMA StoreRefines ==
  ASSUME LockInv, FreeWhenItCame, NEW t \in Threads, Store(t)
  PROVE  Registry!Add(t, NewId(t)) /\ NewId(t) \in Ids
<1> USE DEF LockInv, TypeOK, Store
<1>1. systems' = [systems EXCEPT ![NewId(t)] = t]
  BY DEF NewId
<1>2. NewId(t) \in Ids \ found[t]
  BY DEF NewId, FreeWhenItCame, Adding, OpAtPlace
<1>6. UNCHANGED found
  OBVIOUS
<1>3. \A u \in Threads : pc[u] # "work"
  <2>1. \A u \in Threads : readers[u] = 0
    BY LockAssumption DEF RwLockHeld
  <2>2. \A u \in Threads : pc[u] = "work" => ReadHolds[u] # 0
    BY DEF ReadHolds
  <2> QED BY <2>1, <2>2 DEF RwLockHeld
<1>4. \A i \in Ids : Busy[i] = {}
  BY <1>3 DEF Busy
<1>5. Busy' = Busy
  BY <1>3, BusyFrame
<1> QED BY <1>1, <1>2, <1>4, <1>5, <1>6 DEF Registry!Add

(* The handler keeps SystemRegistry's promises: elements are worked on in  *)
(* mutual exclusion, only while the container stands still, and a command  *)
(* gives a name only if it was free when the command came -- when no       *)
(* insertion is lost.                                                      *)
THEOREM HandlerImplementsRegistry ==
  ASSUME ~LostInsert
  PROVE  Spec => ImplementsRegistry
<1>1. Init => Registry!Init
  BY DEF Init, Registry!Init, Busy
<1>2. LockInv /\ MutexesHeld /\ MutexesHeld' /\ FreeWhenItCame /\ [Next]_vars
        => [Registry!Next]_Registry!vars
  <2> SUFFICES ASSUME LockInv, MutexesHeld, MutexesHeld', FreeWhenItCame, [Next]_vars
               PROVE  [Registry!Next]_Registry!vars
    OBVIOUS
  <2>1. CASE UNCHANGED vars
    BY <2>1 DEF vars, Busy, Touched, Registry!vars
  <2>2. ASSUME NEW t \in Threads, Store(t) PROVE Registry!Next
    BY <2>2, StoreRefines DEF Registry!Next
  <2>3. ASSUME NEW t \in Threads, Work(t) PROVE Registry!Next
    BY <2>3, WorkRefines DEF Registry!Next
  <2>4. ASSUME NEW t \in Threads, Lock(t) PROVE [Registry!Next]_Registry!vars
    <3>1. Touched(t) \in SUBSET Ids
      BY DEF Touched, LockInv, TypeOK
    <3> QED BY <2>4, <3>1, LockRefines DEF Registry!Next, Registry!vars
  <2>5. ASSUME NEW t \in Threads, Receive(t) \/ Leave(t) \/ Step(t)
        PROVE  [Registry!Next]_Registry!vars
    <3>1. CASE Receive(t)
      BY <3>1, ReceiveRefines DEF Registry!Next
    <3>2. CASE ~Receive(t)
      BY <2>2, <2>3, <2>4, <2>5, <3>2, LockStepRefines, AloneRefines DEF Step, Registry!vars
    <3> QED BY <3>1, <3>2
  <2> QED BY <2>1, <2>5 DEF Next
<1>3. /\ Init => LockInv /\ MutexesHeld /\ FreeWhenItCame
      /\ LockInv /\ MutexesHeld /\ FreeWhenItCame /\ [Next]_vars => (LockInv /\ MutexesHeld /\ FreeWhenItCame)'
  BY LockInvInit, MutexesHeldInit, FreeWhenItCameInit, LockInvNext, MutexesHeldNext, FreeWhenItCameNext
<1> QED BY <1>1, <1>2, <1>3, PTL DEF Spec, ImplementsRegistry, Registry!Spec, Registry!vars

=============================================================================
