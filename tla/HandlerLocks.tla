---------------------------- MODULE HandlerLocks ----------------------------
(***************************************************************************)
(* The locking layer every command handler inherits from CommandHandler:   *)
(* one ReadWriteLock over the whole container, and one Mutex per element,  *)
(* kept in a map that CommandHandler::lock fills on first use.             *)
(*                                                                         *)
(* A handler thread walks through lock(id) and unlock(id) one pthread call *)
(* or map access at a time:                                                *)
(*                                                                         *)
(*   lock:    readLock -> find [-> insert] -> mutex                        *)
(*   unlock:  rwUnlock -> mutexUnlock                                      *)
(*                                                                         *)
(* std::map::operator[] finds the node and inserts it when it is missing;  *)
(* lock() does that under a READ lock only, so two threads may both find   *)
(* no node and both insert one.  The outcomes kept of that data race are   *)
(* the ones that leave the tree well formed: the second insertion finds    *)
(* the first one's node, or (when LostInsert) its node takes the other's   *)
(* place.                                                                  *)
(***************************************************************************)
EXTENDS Naturals

CONSTANTS
    Threads,    \* the client threads (Server::handleClient) of one server
    Ids,        \* the names an element of the container can have
    NoThread,   \* nobody: no writer, no owner
    Absent,     \* no node in the map / no element in the container
    Boot,       \* maker of the nodes and elements earlier commands left behind
    Known,      \* the ids of the elements earlier commands left behind
    LostInsert  \* can a racing insertion into mutexes lose the first node?

ASSUME LockAssumption ==
    /\ NoThread \notin Threads
    /\ Absent \notin Threads \cup {Boot}
    /\ Boot \notin Threads
    /\ Known \subseteq Ids
    /\ LostInsert \in BOOLEAN

VARIABLES
    readers,    \* readWriteLock: how many read locks each thread holds
    writer,     \* readWriteLock: the thread that holds the write lock
    mutexes,    \* map<string,Mutex>: which thread's node is linked under an id
    owner,      \* owner[i][m]: who holds the pthread mutex in m's node for id i
    pc,         \* where each thread is
    target,     \* the id a thread's lock or unlock call is about
    ref         \* the maker of the node mutexes[id] returned to a thread

lockVars == <<readers, writer, mutexes, owner, ref>>

Makers == Threads \cup {Boot}

(* A node of the mutexes map is known by the id it is for and by who       *)
(* allocated it.  A thread allocates at most one node per id: the map      *)
(* never loses an id.                                                      *)

(* An element left behind has a mutex if it was locked before.             *)
LockInit ==
    /\ readers = [t \in Threads |-> 0]
    /\ writer = NoThread
    /\ \E locked \in SUBSET Known :
          mutexes = [i \in Ids |-> IF i \in locked THEN Boot ELSE Absent]
    /\ owner = [i \in Ids |-> [m \in Makers |-> NoThread]]
    /\ ref = [t \in Threads |-> Boot]

Goto(t, label) == pc' = [pc EXCEPT ![t] = label]

(* Operators named Faulty... are what a plausible bug would make of the     *)
(* definition they precede; each breaks a property of the runs.            *)
FaultyCanWrite == writer = NoThread

(* pthread_rwlock_rdlock waits for a writer only; the default attributes   *)
(* prefer readers, so a waiting writer does not hold a reader up.          *)
CanRead == writer = NoThread
CanWrite == writer = NoThread /\ \A t \in Threads : readers[t] = 0

-----------------------------------------------------------------------------
(* CommandHandler::lock *)

FaultyReadLock(t) ==
    /\ pc[t] = "readLock" /\ CanRead /\ Goto(t, "find")
    /\ UNCHANGED <<lockVars, target>>

ReadLock(t) ==
    /\ pc[t] = "readLock"
    /\ CanRead
    /\ readers' = [readers EXCEPT ![t] = @ + 1]
    /\ Goto(t, "find")
    /\ UNCHANGED <<writer, mutexes, owner, ref, target>>

(* the search half of this->mutexes[id] *)
FindMutex(t) ==
    /\ pc[t] = "find"
    /\ IF mutexes[target[t]] = Absent
       THEN Goto(t, "insert") /\ UNCHANGED ref
       ELSE Goto(t, "mutex") /\ ref' = [ref EXCEPT ![t] = mutexes[target[t]]]
    /\ UNCHANGED <<readers, writer, mutexes, owner, target>>

(* the insertion half, decided on what the search saw *)
InsertMutex(t) ==
    /\ pc[t] = "insert"
    /\ \/ /\ mutexes[target[t]] # Absent
          /\ ref' = [ref EXCEPT ![t] = mutexes[target[t]]]
          /\ UNCHANGED mutexes
       \/ /\ mutexes[target[t]] = Absent \/ LostInsert
          /\ mutexes' = [mutexes EXCEPT ![target[t]] = t]
          /\ ref' = [ref EXCEPT ![t] = t]
    /\ Goto(t, "mutex")
    /\ UNCHANGED <<readers, writer, owner, target>>

(* pthread_mutex_lock on the node found; next is what lock() returns to *)
LockMutex(t, next) ==
    /\ pc[t] = "mutex"
    /\ owner[target[t]][ref[t]] = NoThread
    /\ owner' = [owner EXCEPT ![target[t]][ref[t]] = t]
    /\ Goto(t, next)
    /\ UNCHANGED <<readers, writer, mutexes, ref>>

-----------------------------------------------------------------------------
(* CommandHandler::unlock: the read lock goes first, then the mutex, which *)
(* is looked up again: the node linked NOW is unlocked, whoever holds it   *)
(* (a default pthread mutex does not check its owner).                     *)

FaultyRwUnlock(t) ==
    /\ pc[t] = "rwUnlock" /\ Goto(t, "mutexUnlock")
    /\ UNCHANGED <<lockVars, target>>

RwUnlock(t) ==
    /\ pc[t] = "rwUnlock"
    /\ readers' = [readers EXCEPT ![t] = @ - 1]
    /\ Goto(t, "mutexUnlock")
    /\ UNCHANGED <<writer, mutexes, owner, ref, target>>

UnlockMutex(t, next) ==
    /\ pc[t] = "mutexUnlock"
    /\ owner' = [owner EXCEPT ![target[t]][mutexes[target[t]]] = NoThread]
    /\ Goto(t, next)
    /\ UNCHANGED <<readers, writer, mutexes, ref>>

-----------------------------------------------------------------------------
(* readWriteLock.writeLock() around a change of the container *)

WriteLock(t) ==
    /\ pc[t] = "writeLock"
    /\ CanWrite
    /\ writer' = t
    /\ Goto(t, "store")
    /\ UNCHANGED <<readers, mutexes, owner, ref, target>>

LockTypeOK ==
    /\ readers \in [Threads -> Nat]
    /\ writer \in Threads \cup {NoThread}
    /\ mutexes \in [Ids -> Makers \cup {Absent}]
    /\ owner \in [Ids -> [Makers -> Threads \cup {NoThread}]]
    /\ target \in [Threads -> Ids]
    /\ ref \in [Threads -> Makers]
=============================================================================
