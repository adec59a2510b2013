-------------------- MODULE MCInterpreterCommandHandler --------------------
(* Instances of InterpreterCommandHandler for TLC. *)
EXTENDS InterpreterCommandHandler, TLC

CONSTANTS t1, t2, a, b, c, none

Clients == {t1, t2}
Names4 == {a, b, c, none}

\* Each client gives out an id that is taken already and one the other gives out too.
MixedNames == (t1 :> {a, c}) @@ (t2 :> {b, c})
=============================================================================
