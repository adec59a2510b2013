----------------------------- MODULE MCSmokeTest -----------------------------
(* Instances of SmokeTest for TLC. *)
EXTENDS SmokeTest

MCNumbers == {"0", "1", "2", "3", "7", "15", "-1", "-2", "1000000"}
MCValue(atom) ==
    CASE atom = "0" -> 0 [] atom = "1" -> 1 [] atom = "2" -> 2 [] atom = "3" -> 3
      [] atom = "7" -> 7 [] atom = "15" -> 15 [] atom = "-1" -> -1 [] atom = "-2" -> -2
      [] atom = "1000000" -> 1000000
MCExponent(n) == 6

MCKeys == << <<"AtomicSize">>, <<"DownAngle">>, <<"LeftAngle">>, <<"RightAngle">>,
             <<"StartPoint">>, <<"UpAngle">> >>

S == <<"S">>
L == <<"L">>
O == <<"[">>
C == <<"]">>
MCWords == {S, L, <<"U">>, O, C, <<"[", "x">>, <<"S", "(", "u", ")">>}
Strings(words, n) == UNION {[1 .. m -> words] : m \in 1 .. n}
\* All short strings, those of branches that are longer, and some that are longer yet.
MCSystems ==
    Strings(MCWords, 2) \cup Strings({S, L, C}, 3) \cup Strings({S, O, C}, 4)
    \cup {<<L, <<"U">>, L, <<"U">> >>, <<L, L, L, L>>, <<O, L, O, S, C, S, C, C, S>>,
          <<<<"R">>, O, <<"D">>, S, C, <<"R">>, S>>, <<S, O, S, C, O, L, C, S, C>>,
          <<O, O, S, C, S, C, S, S>>,
          << <<"S", ",", "[">>, <<"L", " ">>, C, C>>, << <<" ", "S">>, S>>}

MCAllWords == UNION {ToSet(words) : words \in MCSystems} \cup {<<>>, <<"O">>, <<"system">>}

P(x, z) == <<x, 0, z>>
MCStrangers == {
    <<C, P(0, 0), C, P(0, 2), O, P(0, 4)>>,
    <<P(0, 0), <<0, 1>>, O, <<>>, O, P(2, 0), P(4, 0), C, P(6, 0), C, P(2, 2)>>,
    <<O, C>>}

Put(start, size) ==
    [k \in ToSet(MCKeys) |-> IF k = <<"StartPoint">> THEN start
                             ELSE IF k = <<"AtomicSize">> THEN <<size>> ELSE <<"1">>]
MCSettings == {Put(<<"2", ",", "0", ",", "-2">>, "2"),
               Put(<<"3", ",", "x", ",">>, "-2") ,
               [k \in {<<"AtomicSize">>} |-> <<"2">>]}
MCSaves == {[k \in {} |-> <<>>], Put(<<"3", ",", "1">>, "3")}
MCValues == {<< <<"UpAngle">>, <<"3">> >>, << <<"StartPoint">>, <<"0", ",", "1">> >>}
\* An empty value, and a coordinate of a million.
MCBadSettings == {[k \in {<<"AtomicSize">>, <<"StartPoint">>} |->
                     IF k = <<"AtomicSize">> THEN <<>> ELSE <<"0">>]}
MCOddSettings == MCSettings \cup {Put(<<"1000000", ",", "0", ",", "2">>, "2")}

MCMapKeys == << <<"1", ":", "1">>, <<"1", ":", "x">>, <<"2", ":", "3">> >>
MCMaps == [{<<"1", ":", "1">>, <<"2", ":", "3">>} -> {<<"3">>, <<"2", ",", "(">>, <<>>}]
          \cup {[k \in {<<"1", ":", "x">>} |-> <<"2">>], [k \in {} |-> <<>>]}
\* A production with an element of its own size.
MCGrowthRules == {[k \in {<<"1", ":", "1">>} |-> <<"S", "(", "u", ")">>]}

NL == "newline"
\* Files that people write: with comments, sections over several lines, a gene
\* with two rules, one with none, and what is no section; a comment that hides
\* the next section; and a list of chances that stops at what is no number.
MCFile1 == <<"x", NL, "maxSize", " ", "7", " ", NL, "#", "growthRules", NL,
             "system", NL, "S", ",", " ", "O", " ", NL, "options", " ", "L", ",", "R", ",", NL,
             "mutationRules", " ", "(", "1", ",", "3", ")", " ", "(", "2", ",", "-1", ")", NL,
             "growthRules", " ", "S", ":", "L", ".", "L", ":", ".", "S", ":", "S", ",", "L", NL,
             "currentGene", " ", "1">>
MCFile2 == <<"system", " ", "S", NL, "minSize", " ", "2", "#", "x", NL, "maxSize", " ", "3", NL,
             "system", " ", "L", NL, "growthRules", " ", "S", ".", ":", "S", NL,
             "mutationRules", " ", "(", "1", ",", "2", ")", "(", "2", ",", "x", ")", "(", "3", ",", "1", ")">>
MCFile3 == <<"maxSize", " ", "-1", NL, "system", " ", "[", ",", "S", ",", "]">>
\* Systems of such files, and some that were changed since, as clients may.
Read(text) == initialize(Fresh, text)
MCStored == {Fresh, Read(MCFile1), Read(MCFile2), Read(MCFile3),
             [Read(MCFile2) EXCEPT !.minSize = 15],
             [Read(MCFile1) EXCEPT !.system = <<>>, !.options = <<>>],
             [Read(MCFile1) EXCEPT !.growthRules = [start \in {S, L} |-> IF start = S THEN <<>> ELSE S]],
             [Read(MCFile1) EXCEPT !.system = << <<"system">> >>],
             [Read(MCFile1) EXCEPT !.system = << <<>>, L, O, <<>>, <<"S">> >>],
             [Read(MCFile1) EXCEPT !.options = << <<"S">>, <<>> >>],
             [Read(MCFile1) EXCEPT !.growthRules[<<"S">>] = <<"L", "#", "S">>],
             [Read(MCFile1) EXCEPT !.growthRules[<<"S">>] = <<"S", " ", "G">>]}

MCLists == {[points |-> <<P(2, -2), P(0, -2)>>, radii |-> <<10, 20>>],
            [points |-> <<P(0, 2), P(1, 2), P(9, 9)>>, radii |-> <<20, 20, 20>>]}

Level(a, b, c) == [k \in 0 .. 2 |-> CASE k = 0 -> a [] k = 1 -> b [] k = 2 -> c]
MCPointed == {
    Level(<<P(0, 0), P(0, 1), P(0, 8)>>, << <<0, 1>>, P(8, 0), P(16, 0)>>, << <<0, 0>>, P(0, 16)>>),
    Level(<<P(0, 0), P(0, 8)>>, << <<0, 1>>, P(8, 8), P(8, 8)>>,
          << <<1, 2>>, P(16, 16), <<1>>, P(24, 24)>>),
    Level(<< <<1, 0>>, P(0, 0)>>, <<P(8, 0)>>, << <<7, 0>>, P(16, 0)>>)}

\* Theorem ParentsComeFirst is about branches like these.
ASSUME PointedPoint == \A levels \in Pointed : Pointing(levels)
=============================================================================
