------------------------- MODULE MCLSystemGeneric -------------------------
(* Instances of LSystemGeneric for TLC. *)
EXTENDS LSystemGeneric

CONSTANTS s1, s2

Entry(l, r, o) == [left |-> l, right |-> r, op |-> o]

\* "a" grows, "b" may become something shorter or vanish; one has no limit.
MCInputs == {
    [system |-> <<"a", "b">>, options |-> <<"a">>, rules |-> [g \in {"a"} |-> <<"b", "a", "a">>],
     probabilities |-> [t \in Types |-> 5000],
     minSize |-> 1, maxSize |-> 4, currentGene |-> 0],
    [system |-> <<"b", "a", "b">>, options |-> <<>>,
     rules |-> [g \in Genes |-> IF g = "a" THEN <<"b">> ELSE <<"a", "b">>],
     probabilities |-> [t \in {"2", "4"} |-> IF t = "2" THEN 0 ELSE 20000],
     minSize |-> 3, maxSize |-> -1, currentGene |-> 5]}

MCSeeds == {<<>>, <<"b", "b", "a">>}
MCSizes == {-1, 2, 5}
MCProductions == {<<>>, <<"b", "b", "a">>}

\* In the order of std::map.  A stage each: all kinds of keys and operations,
\* and in every stage a failure behind an entry that was applied.
MCCrossMaps == {
    <<<<Entry(0, 1, "3"), Entry(AnyIndex, AnyIndex, "3")>>, <<>>, <<>>, <<>>>>,
    <<<<Entry(0, 0, "1"), Entry(1, AnyIndex, "2"), Entry(9, 0, "3")>>, <<>>, <<>>, <<>>>>,
    <<<<>>, <<Entry(0, AnyIndex, "3"), Entry(0, NoIndex, "1")>>, <<>>, <<>>>>,
    <<<<>>, <<>>, <<Entry("1", Random, "2"), Entry("3", "4", "3"), Entry(Malformed, "4", "1")>>, <<>>>>,
    <<<<>>, <<>>, <<>>, <<Entry(Random, Random, "3"), Entry("a", "b", "1")>>>>}
===========================================================================
