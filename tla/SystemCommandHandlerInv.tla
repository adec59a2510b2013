----------------------- MODULE SystemCommandHandlerInv -----------------------
(***************************************************************************)
(* Why SystemCommandHandler's locking works: the bookkeeping that relates  *)
(* the place a thread is at to the locks it holds and to what its earlier  *)
(* checks still guarantee.  Together with TypeOK they are inductive, which *)
(* SystemCommandHandlerProofs shows.                                       *)
(***************************************************************************)
EXTENDS SystemCommandHandler

Locking   == {"readLock", "find", "insert", "mutex"}
Unlocking == {"rwUnlock", "mutexUnlock"}
Critical  == Locking \cup {"work"} \cup Unlocking

(* The second half of a cross's lock or unlock: id is locked, and the call *)
(* is about the other system.                                              *)
Second(t) == TwoSystems(t) /\ target[t] = other[t]

(* The read locks a thread at a place holds. *)
ReadHolds ==
    [t \in Threads |->
        (IF pc[t] \in Critical /\ Second(t) THEN 1 ELSE 0)
        + (IF pc[t] \in Critical \ {"readLock", "mutexUnlock"} THEN 1 ELSE 0)]

(* The ids whose mutex a thread at a place holds. *)
HoldsAtPlace(t) ==
    IF pc[t] \in Locking THEN IF Second(t) THEN {id[t]} ELSE {}
    ELSE IF pc[t] = "work" THEN Touched(t)
    ELSE IF pc[t] \in Unlocking
         THEN IF Second(t) THEN {id[t], other[t]} ELSE {id[t]}
    ELSE {}

Held == [t \in Threads |-> HoldsAtPlace(t)]

(* Where the handlers' own conditions have sent each command. *)
OpAtPlace ==
    \A t \in Threads :
        /\ pc[t] = "check" => op[t] # "unknown"
        /\ pc[t] = "ask" => op[t] \in {"run", "cross", "makeCopy"}
        /\ pc[t] = "checkOther" => op[t] \in {"cross", "makeCopy"}
        /\ pc[t] = "askMore" => op[t] \in {"run", "cross"}
        /\ pc[t] \in Critical => op[t] \notin {"create", "unknown"}
        /\ pc[t] \in {"writeLock", "store"} => op[t] \in {"create", "makeCopy"}

(* A lock or unlock call is about id, or it is cross's second one; when    *)
(* the work is done every lock the command needs has been taken.           *)
TargetAtPlace ==
    \A t \in Threads :
        /\ pc[t] \in {"check", "ask", "checkOther", "askMore"} => target[t] = id[t]
        /\ pc[t] \in Critical => target[t] = id[t] \/ Second(t)
        /\ pc[t] = "work" /\ TwoSystems(t) => Second(t)

(* There is an iteration left to do. *)
LeftAtPlace ==
    \A t \in Threads :
        /\ pc[t] \in Locking \cup {"work"} => left[t] > 0
        /\ pc[t] \in {"check", "ask", "checkOther", "askMore"} /\ op[t] # "run" => left[t] = 1

(* The read-write lock is held as the places say. *)
RwLockHeld ==
    /\ readers = ReadHolds
    /\ \A t \in Threads : pc[t] = "store" <=> writer = t
    /\ writer # NoThread => \A t \in Threads : readers[t] = 0

(* What a check found in the container is still there. *)
StillExists ==
    \A t \in Threads :
        /\ pc[t] \in {"ask", "checkOther", "askMore"} \cup Critical => Exists(id[t])
        /\ pc[t] \in {"askMore"} \cup Critical /\ op[t] = "cross" => Exists(other[t])

(* When no insertion is lost: the node a thread was given is the one in    *)
(* the map, and a node is owned by exactly the thread that is at a place   *)
(* to hold it.                                                             *)
MutexesHeld ==
    /\ \A t \in Threads : pc[t] = "mutex" => mutexes[target[t]] = ref[t]
    /\ \A t \in Threads : \A i \in Held[t] :
          mutexes[i] # Absent /\ owner[i][mutexes[i]] = t
    /\ \A i \in Ids : \A m \in Makers : owner[i][m] # NoThread =>
          m = mutexes[i] /\ i \in Held[owner[i][m]]

(* The id a create or makeCopy is about to add. *)
NewId(t) == IF op[t] = "create" THEN id[t] ELSE other[t]
Adding(t) == \/ op[t] = "create" /\ pc[t] \in {"writeLock", "store"}
             \/ op[t] = "makeCopy" /\ pc[t] \in Critical \cup {"writeLock", "store"}

(* The ids that were there when a command came are there for good, so the  *)
(* id a command was allowed to add was free when it came (others may have  *)
(* taken it since).                                                        *)
FreeWhenItCame ==
    /\ \A t \in Threads : \A i \in found[t] : Exists(i)
    /\ \A t \in Threads : Adding(t) => NewId(t) \notin found[t]

(* Inductive in every instance. *)
LockInv ==
    /\ TypeOK
    /\ OpAtPlace
    /\ TargetAtPlace
    /\ LeftAtPlace
    /\ RwLockHeld
    /\ StillExists

(* The inductive invariant: what is true wherever a thread stands, and who *)
(* holds which mutex where no insertion is lost.                           *)
HandlerInv ==
    /\ LockInv
    /\ FreeWhenItCame
    /\ ~LostInsert => MutexesHeld
=============================================================================
