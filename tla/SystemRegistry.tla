--------------------------- MODULE SystemRegistry ---------------------------
(***************************************************************************)
(* What a command handler promises its clients, whatever locks it uses:    *)
(* a container of named elements in which                                  *)
(*   - a command gives a name to a new element only if the name was free   *)
(*     when the command came;                                              *)
(*   - an operation works on elements that exist, and has every element it *)
(*     works on to itself;                                                 *)
(*   - the container is altered only while no operation is under way.      *)
(***************************************************************************)
CONSTANTS Threads, Ids, Absent, Boot

VARIABLES
    registry,   \* the element under each id (named by who created it)
    busy,       \* the threads at work on the element under each id
    free        \* the names that were free when each thread's command came

vars == <<registry, busy, free>>

Init ==
    /\ registry \in [Ids -> {Absent, Boot}]
    /\ busy = [i \in Ids |-> {}]
    /\ free = [t \in Threads |-> Ids]

(* A command of thread t's client comes. *)
Come(t) ==
    /\ \A i \in Ids : t \notin busy[i]
    /\ free' = [free EXCEPT ![t] = {i \in Ids : registry[i] = Absent}]
    /\ UNCHANGED <<registry, busy>>

(* Thread t gives a name to a new element.  Of two commands that came      *)
(* while the name was free, the later one has it.                          *)
Add(t, i) ==
    /\ i \in free[t]
    /\ \A j \in Ids : busy[j] = {}
    /\ registry' = [registry EXCEPT ![i] = t]
    /\ UNCHANGED <<busy, free>>

(* Thread t starts an operation on the elements named in S. *)
Begin(t, S) ==
    /\ \A i \in S : registry[i] # Absent /\ busy[i] = {}
    /\ \A i \in Ids : t \notin busy[i]
    /\ busy' = [i \in Ids |-> IF i \in S THEN {t} ELSE busy[i]]
    /\ UNCHANGED <<registry, free>>

(* Thread t has finished its operation. *)
End(t) ==
    /\ busy' = [i \in Ids |-> busy[i] \ {t}]
    /\ UNCHANGED <<registry, free>>

Next == \E t \in Threads :
            \/ Come(t)
            \/ \E i \in Ids : Add(t, i)
            \/ \E S \in SUBSET Ids : Begin(t, S)
            \/ End(t)

Spec == Init /\ [][Next]_vars
=============================================================================
