------------------------------- MODULE Utility -------------------------------
(***************************************************************************)
(* Utility: numbers, lists and maps as text, and back.  It is what the     *)
(* parts of the system say to each other and keep in files.                *)
(*                                                                         *)
(* A text is a sequence of atoms: the delimiters "(", "," and ")", spaces, *)
(* and anything else the code does not look into.                          *)
(***************************************************************************)
EXTENDS Integers, SequencesExt

CONSTANTS
    Space,      \* the atom that is white
    Numbers,    \* the atoms that are numbers
    Value(_),   \* the number each of them is
    UintSize,   \* 2^32, the values of an unsigned int
    Bad         \* what is not there or not a number

(* What is a text, a list or a point, whatever its elements are *)
IsSequence(s) == Len(s) \in Nat /\ s = [n \in 1 .. Len(s) |-> s[n]]

White(text) == \A i \in DOMAIN text : text[i] = Space

(* lexical_cast: neither an empty text nor one with a space is a number.   *)
stringTo(text) ==
    IF Len(text) = 1 /\ text[1] \in Numbers THEN Value(text[1]) ELSE Bad
Default(x) == IF x = Bad THEN 0 ELSE x

(* An int has less numbers, a string is any text: the type V of a value    *)
IntMax == UintSize \div 2 - 1
IsInt(text) ==
    stringTo(text) # Bad /\ stringTo(text) <= IntMax /\ stringTo(text) >= -IntMax - 1
Converts(text, V) == V = "int" => IsInt(text)

(* How far it is from i to the next delimiter, or the end *)
Upto(text, i, delim) ==
    CHOOSE j \in i .. Len(text) + 1 :
        /\ j = Len(text) + 1 \/ text[j] = delim
        /\ \A n \in i .. j - 1 : text[n] # delim

-----------------------------------------------------------------------------
(* Lists *)

(* The loop of parseVector, that getSystem has too, and initialize with    *)
(* another delimiter: nothing comes of a delimiter at the end.             *)
Parts(text, delim) ==
    LET from[i \in 1 .. Len(text) + 2] ==
          IF i > Len(text) THEN <<>>
          ELSE LET end == Upto(text, i, delim) IN
               <<SubSeq(text, i, end - 1)>> \o from[end + 1]
    IN from[1]

parseVector(text) == Parts(text, ",")

(* A list without its empty texts *)
Filled(list) == FlattenSeq([n \in DOMAIN list |-> IF list[n] = <<>> THEN <<>> ELSE <<list[n]>>])

(* A text that is all white keeps its first character. *)
trim(text) ==
    IF text = <<>> THEN text
    ELSE LET black == {i \in DOMAIN text : text[i] # Space} IN
         IF black = {} THEN <<text[1]>>
         ELSE SubSeq(text, CHOOSE i \in black : \A j \in black : i <= j,
                           CHOOSE i \in black : \A j \in black : i >= j)

(* boost's tokenizer leaves empty tokens out. *)
split(text) ==
    LET tokens == Filled(parseVector(text))
    IN [n \in DOMAIN tokens |-> trim(tokens[n])]

(* An empty list is no success. *)
vectorToString(list, delim) ==
    [success |-> list # <<>>,
     text |-> FlattenSeq([n \in DOMAIN list |-> (IF n = 1 THEN <<>> ELSE delim) \o list[n]])]

-----------------------------------------------------------------------------
(* Maps *)

(* std::map goes through its keys in an order. *)
mapToString(hash, order) ==
    FlattenSeq([n \in DOMAIN order |->
                   IF order[n] \in DOMAIN hash
                   THEN <<"(">> \o order[n] \o <<",">> \o hash[order[n]] \o <<")">> ELSE <<>>])

(* What begins at i: up to "(", up to ",", up to ")". *)
Behind(text, end) == IF end <= Len(text) THEN end + 1 ELSE end

Pair(text, i) ==
    LET key == Behind(text, Upto(text, i, "("))
        comma == Upto(text, key, ",")
        value == Behind(text, comma)
        end == Upto(text, value, ")")
    IN [key |-> SubSeq(text, key, comma - 1), value |-> SubSeq(text, value, end - 1),
        next |-> end + 1]

(* A key that comes again has its last value. *)
Entry(key, value, rest) ==
    [k \in {key} \cup DOMAIN rest |-> IF k \in DOMAIN rest THEN rest[k] ELSE value]

(* It stops at a value that does not convert, with the pairs before it.    *)
(* (A key is a string wherever the method is used.)                        *)
parseMap(text, V) ==
    LET from[i \in 1 .. Len(text) + 2] ==
          IF i > Len(text) THEN [success |-> TRUE, map |-> [k \in {} |-> <<>>]]
          ELSE LET pair == Pair(text, i) IN
               IF ~Converts(pair.value, V)
               THEN [success |-> FALSE, map |-> [k \in {} |-> <<>>]]
               ELSE LET rest == from[pair.next] IN
                    [rest EXCEPT !.map = Entry(pair.key, pair.value, @)]
    IN from[1]
=============================================================================
