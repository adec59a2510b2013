------------------------ MODULE MCLSystemWorldObject ------------------------
(* Instances of LSystemWorldObject for TLC. *)
EXTENDS LSystemWorldObject

MCObjects == 1 .. 2
MCGenes == {"S", "S(u)", "L", "U", "[", "]", "x"}
MCKind == [g \in MCGenes |->
             IF g = "S(u)" THEN "S" ELSE IF g = "x" THEN "other" ELSE g]

\* Along y, as the direction it has by itself, and files with what may be bad.
Attr(read, sizes) ==
    [system |-> read, sizes |-> sizes, startDirection |-> Bad, physics |-> TRUE,
     growthRate |-> 1, meshMap |-> "none", angles |-> [a \in Turns |-> IF a = "L" THEN 1 ELSE 3]]
NoSizes == [g \in {} |-> 0]
MCFiles == {
    Attr(<<"S", "[", "L", "]", "U">>, NoSizes),
    [Attr(<<"[", "S(u)", "[", "]", "S">>, [g \in {"S(u)"} |-> 2]) EXCEPT
        !.startDirection = <<0, 1, 0>>, !.meshMap = "good"],
    [Attr(<<"]", "x", "L", "S">>, NoSizes) EXCEPT !.meshMap = "bad", !.growthRate = 2],
    [Attr(<<"S", "S">>, NoSizes) EXCEPT !.physics = FALSE, !.angles["L"] = Bad],
    [Attr(<<"S">>, NoSizes) EXCEPT !.growthRate = Bad],
    Attr(Bad, NoSizes)}

\* A start direction that lies along none of the coordinate axes.
MCSlantingFiles == {[Attr(<<"S">>, NoSizes) EXCEPT !.startDirection = <<0, 1, 1>>]}

MCPositions == {<<5, 0, -1>>}

\* Neighbours are swapped, the first gene is deleted or the last one doubled.
MCMutated(s) ==
    {[s EXCEPT ![i] = s[i + 1], ![i + 1] = s[i]] : i \in 1 .. Len(s) - 1}
    \cup IF s = <<>> THEN {} ELSE {Tail(s), Append(s, s[Len(s)])}

\* A branch is added.
MCGrown(s) == IF s = <<>> \/ Len(s) > 5 THEN s ELSE s \o <<"[", "S", "]">>
=============================================================================
