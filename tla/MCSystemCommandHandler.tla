----------------------- MODULE MCSystemCommandHandler -----------------------
(* Instances of SystemCommandHandler for TLC. *)
EXTENDS SystemCommandHandlerInv, TLC

CONSTANTS t1, t2, a, b, c, none

Clients == {t1, t2}
Names4 == {a, b, c, none}

\* Each client gives out an id that is taken already and one the other gives out too.
MixedNames == (t1 :> {a, c}) @@ (t2 :> {b, c})
\* Both clients may give out the same new id.
SharedNames == [t \in Clients |-> {c}]
OneName == (t1 :> {c}) @@ (t2 :> {})
NoNames == [t \in Clients |-> {}]

\* Everybody who crosses a and b names them in the same order.
OrderedPairs == {<<a, b>>, <<b, b>>}
\* Clients cross any two systems, in either order.
AnyPairs == {a, b} \X {a, b}
NoPairs == {}
=============================================================================
