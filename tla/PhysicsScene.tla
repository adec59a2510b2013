---------------------------- MODULE PhysicsScene ----------------------------
(***************************************************************************)
(* What the users of PhysicsEngine may think it is: named items, some of   *)
(* which move, and links between those that do.  An item that goes takes   *)
(* its links along.                                                        *)
(***************************************************************************)
CONSTANT Items

VARIABLES
    dynamic,    \* the items that move
    static,     \* the items that do not
    links       \* the pairs of items that are connected

vars == <<dynamic, static, links>>

Init == dynamic = {} /\ static = {} /\ links = {}

Add(n) ==
    /\ n \notin dynamic
    /\ \/ dynamic' = dynamic \cup {n} /\ UNCHANGED static
       \/ static' = static \cup {n} /\ UNCHANGED dynamic
    /\ UNCHANGED links

Connect(m, n) ==
    /\ m # n /\ {m, n} \subseteq dynamic
    /\ links' = links \cup {<<m, n>>}
    /\ UNCHANGED <<dynamic, static>>

RemoveDynamic(n) ==
    /\ dynamic' = dynamic \ {n}
    /\ links' = {l \in links : n \notin {l[1], l[2]}}
    /\ UNCHANGED static

RemoveStatic(n) ==
    /\ static' = static \ {n}
    /\ UNCHANGED <<dynamic, links>>

Next == \/ \E n \in Items : Add(n) \/ RemoveDynamic(n) \/ RemoveStatic(n)
        \/ \E m, n \in Items : Connect(m, n)

Spec == Init /\ [][Next]_vars
=============================================================================
