------------------------ MODULE SocketMethodsProofs ------------------------
(***************************************************************************)
(* SocketMethods for any messages, any delimiter, any buffer size and any  *)
(* number of messages.                                                     *)
(*                                                                         *)
(* BufferInv (types, what a receive and a write leave behind) is inductive *)
(* in every instance.  MixInv says that, unless bytes were mixed, there is *)
(* one object that has all of what waits of the connection, and that       *)
(* StreamInv holds of it: what it has is a part of what was sent, however  *)
(* far the peer writes ahead and however often a send is cut.  TurnsInv is *)
(* why nothing is ever mixed when the peer waits for the answer to what it *)
(* wrote.                                                                  *)
(***************************************************************************)
EXTENDS SocketMethods, TLAPS, SequenceTheorems, WellFoundedInduction, FiniteSetTheorems

(* The delimiter is in a framed message at its end only. *)
Framed == \A m \in Payloads : Ends(m \o Delimiter) = {Len(m)}

(* No framed message starts with what could complete a delimiter that was  *)
(* cut: with an end of it.                                                 *)
Unmistaken ==
    \A m \in Payloads : \A j \in 2 .. Len(Delimiter) :
        ~IsPrefix(SubSeq(Delimiter, j, Len(Delimiter)), m \o Delimiter)

-----------------------------------------------------------------------------
(* Numbers and sequences *)

LEMMA LeastNatural ==
  ASSUME NEW T \in SUBSET Nat, T # {}
  PROVE  Min(T) \in T /\ \A n \in T : Min(T) <= n
<1>1. PICK x \in T : \A y \in T : ~(<<y, x>> \in OpToRel(<, Nat))
  BY NatLessThanWellFounded, WFMin
<1>2. \A y \in T : ~(y < x)
  BY <1>1 DEF OpToRel
<1>3. \A y \in T : x <= y
  BY <1>2
<1> QED BY <1>3 DEF Min

LEMMA PrefixIff ==
  ASSUME NEW S, NEW s \in Seq(S), NEW t \in Seq(S)
  PROVE  IsPrefix(s, t) <=> Len(s) <= Len(t) /\ \A i \in 1 .. Len(s) : s[i] = t[i]
<1>1. ASSUME Len(s) <= Len(t)
      PROVE  /\ SubSeq(s, 1, Len(s)) = s
             /\ SubSeq(t, 1, Len(s)) \in Seq(S) /\ Len(SubSeq(t, 1, Len(s))) = Len(s)
             /\ \A i \in 1 .. Len(s) : SubSeq(t, 1, Len(s))[i] = t[i]
  <2>1. \A i \in 1 .. Len(s) : t[i] \in S
    BY <1>1, ElementOfSeq
  <2> QED BY <1>1, <2>1, SubSeqFull, SubSeqProperties, LenProperties
<1> QED BY <1>1, SeqEqual DEF IsPrefix

LEMMA PrefixOfConcat ==
  ASSUME NEW S, NEW s \in Seq(S), NEW t \in Seq(S)
  PROVE  IsPrefix(s, s \o t)
<1>1. /\ s \o t \in Seq(S) /\ Len(s \o t) = Len(s) + Len(t)
      /\ \A i \in 1 .. Len(s) + Len(t) : (s \o t)[i] = IF i <= Len(s) THEN s[i] ELSE t[i - Len(s)]
  BY ConcatProperties
<1>2. Len(s) \in Nat /\ Len(t) \in Nat
  BY LenProperties
<1> HIDE DEF IsPrefix
<1>3. Len(s) <= Len(s \o t) /\ \A i \in 1 .. Len(s) : s[i] = (s \o t)[i]
  BY <1>1, <1>2
<1> QED BY <1>1, <1>3, PrefixIff

LEMMA PrefixIsConcat ==
  ASSUME NEW S, NEW s \in Seq(S), NEW t \in Seq(S), IsPrefix(s, t)
  PROVE  \E u \in Seq(S) : t = s \o u
<1> DEFINE u == SubSeq(t, Len(s) + 1, Len(t))
<1>1. Len(s) \in Nat /\ Len(t) \in Nat /\ Len(s) <= Len(t)
  BY LenProperties DEF IsPrefix
<1>2. u \in Seq(S)
  BY <1>1, SubSeqProperties, ElementOfSeq
<1>3. SubSeq(t, 1, Len(s)) \o u = t
  <2>1. 1 \in 1 .. Len(t) + 1 /\ Len(s) \in 1 - 1 .. Len(t) /\ Len(t) \in Len(s) .. Len(t)
    BY <1>1
  <2>2. SubSeq(t, 1, Len(s)) \o u = SubSeq(t, 1, Len(t))
    BY <2>1, ConcatAdjacentSubSeq
  <2> QED BY <2>2, SubSeqFull
<1>4. SubSeq(t, 1, Len(s)) = s
  BY SubSeqFull DEF IsPrefix
<1> QED BY <1>2, <1>3, <1>4

LEMMA PrefixTransitive ==
  ASSUME NEW S, NEW s \in Seq(S), NEW t \in Seq(S), NEW u \in Seq(S),
         IsPrefix(s, t), IsPrefix(t, u)
  PROVE  IsPrefix(s, u)
  BY PrefixIff, LenProperties

LEMMA PrefixReflexive ==
  ASSUME NEW S, NEW s \in Seq(S)
  PROVE  IsPrefix(s, s)
  BY PrefixIff, LenProperties

(* A sequence is what comes first of it and the rest. *)
LEMMA Cut ==
  ASSUME NEW S, NEW s \in Seq(S), NEW n \in 0 .. Len(s)
  PROVE  /\ SubSeq(s, 1, n) \in Seq(S) /\ SubSeq(s, n + 1, Len(s)) \in Seq(S)
         /\ s = SubSeq(s, 1, n) \o SubSeq(s, n + 1, Len(s))
         /\ Len(SubSeq(s, 1, n)) = n /\ Len(SubSeq(s, n + 1, Len(s))) = Len(s) - n
<1>1. Len(s) \in Nat /\ \A i \in 1 .. Len(s) : s[i] \in S
  BY LenProperties, ElementOfSeq
<1>2. /\ SubSeq(s, 1, n) \in Seq(S) /\ Len(SubSeq(s, 1, n)) = n
      /\ SubSeq(s, n + 1, Len(s)) \in Seq(S) /\ Len(SubSeq(s, n + 1, Len(s))) = Len(s) - n
  BY <1>1, SubSeqProperties
<1>3. SubSeq(s, 1, n) \o SubSeq(s, n + 1, Len(s)) = s
  <2>1. 1 \in 1 .. Len(s) + 1 /\ n \in 1 - 1 .. Len(s) /\ Len(s) \in n .. Len(s)
    BY <1>1
  <2>2. SubSeq(s, 1, n) \o SubSeq(s, n + 1, Len(s)) = SubSeq(s, 1, Len(s))
    BY <2>1, ConcatAdjacentSubSeq
  <2> QED BY <2>2, SubSeqFull
<1> QED BY <1>2, <1>3

LEMMA EmptyIffLen ==
  ASSUME NEW S, NEW s \in Seq(S)
  PROVE  s = <<>> <=> Len(s) = 0
  BY EmptySeq, LenProperties

-----------------------------------------------------------------------------
(* Where the delimiter ends a message *)

LEMMA CharsType ==
  /\ Delimiter \in Seq(Chars) /\ Len(Delimiter) \in Nat \ {0}
  /\ \A m \in Payloads : m \in Seq(Chars) /\ m \o Delimiter \in Seq(Chars)
<1>1. \A m \in Payloads \cup {Delimiter} : m \in Seq(Chars)
  <2> TAKE m \in Payloads \cup {Delimiter}
  <2>1. m \in Seq(Range(m)) /\ Range(m) \subseteq Chars
    BY SocketAssumption DEF Chars
  <2> QED BY <2>1, SeqMonotonic
<1>2. Len(Delimiter) \in Nat \ {0}
  BY <1>1, SocketAssumption, EmptySeq
<1> QED BY <1>1, <1>2, ConcatProperties

LEMMA EndsIff ==
  ASSUME NEW s \in Seq(Chars), NEW k
  PROVE  k \in Ends(s) <=> /\ k \in Nat /\ k + Len(Delimiter) <= Len(s)
                           /\ \A j \in 1 .. Len(Delimiter) : s[k + j] = Delimiter[j]
<1>1. Len(s) \in Nat /\ \A i \in 1 .. Len(s) : s[i] \in Chars
  BY LenProperties, ElementOfSeq
<1>2. Delimiter \in Seq(Chars) /\ Len(Delimiter) \in Nat \ {0}
  BY CharsType
<1>3. ASSUME k \in 0 .. Len(s)
      PROVE  IsPrefix(Delimiter, SubSeq(s, k + 1, Len(s))) <=>
                /\ k + Len(Delimiter) <= Len(s)
                /\ \A j \in 1 .. Len(Delimiter) : s[k + j] = Delimiter[j]
  <2> DEFINE u == SubSeq(s, k + 1, Len(s))
  <2>1. /\ u \in Seq(Chars) /\ Len(u) = Len(s) - k
        /\ \A i \in 1 .. Len(s) - k : u[i] = s[k + i]
    BY <1>1, <1>3, SubSeqProperties
  <2> HIDE DEF u
  <2>2. IsPrefix(Delimiter, u) <=>
           Len(Delimiter) <= Len(u) /\ \A j \in 1 .. Len(Delimiter) : Delimiter[j] = u[j]
    BY <1>2, <2>1, PrefixIff
  <2>3. Len(Delimiter) <= Len(u) <=> k + Len(Delimiter) <= Len(s)
    BY <1>1, <1>2, <1>3, <2>1
  <2>4. ASSUME k + Len(Delimiter) <= Len(s), NEW j \in 1 .. Len(Delimiter)
        PROVE  u[j] = s[k + j]
    <3>1. j \in 1 .. Len(s) - k
      BY <1>1, <1>2, <1>3, <2>4
    <3> QED BY <2>1, <3>1
  <2>5. IsPrefix(Delimiter, u) <=>
           /\ k + Len(Delimiter) <= Len(s)
           /\ \A j \in 1 .. Len(Delimiter) : s[k + j] = Delimiter[j]
    BY <2>2, <2>3, <2>4
  <2> QED BY <2>5 DEF u
<1> QED BY <1>1, <1>2, <1>3 DEF Ends

LEMMA EndsOfPrefix ==
  ASSUME NEW s \in Seq(Chars), NEW z \in Seq(Chars), IsPrefix(s, z), NEW k
  PROVE  k \in Ends(s) <=> k \in Ends(z) /\ k + Len(Delimiter) <= Len(s)
<1>1. Len(s) \in Nat /\ Len(z) \in Nat /\ Len(Delimiter) \in Nat
  BY LenProperties, CharsType
<1>2. Len(s) <= Len(z) /\ \A i \in 1 .. Len(s) : s[i] = z[i]
  BY PrefixIff
<1>3. \A j \in 1 .. Len(Delimiter) :
         k \in Nat /\ k + Len(Delimiter) <= Len(s) => k + j \in 1 .. Len(s)
  BY <1>1
<1>4. k \in Nat /\ k + Len(Delimiter) <= Len(s) => k + Len(Delimiter) <= Len(z)
  BY <1>1, <1>2
<1> QED BY <1>2, <1>3, <1>4, EndsIff, ZenonT(60)

LEMMA FirstEnd ==
  ASSUME NEW s \in Seq(Chars), Complete(s)
  PROVE  /\ Min(Ends(s)) \in Ends(s) /\ \A k \in Ends(s) : Min(Ends(s)) <= k
         /\ Min(Ends(s)) \in Nat /\ Min(Ends(s)) + Len(Delimiter) <= Len(s)
<1>1. Ends(s) \in SUBSET Nat /\ Ends(s) # {}
  BY EndsIff DEF Complete
<1> QED BY <1>1, LeastNatural, EndsIff

LEMMA RestType ==
  ASSUME NEW s \in Seq(Chars), Complete(s)
  PROVE  /\ Rest(s) \in Seq(Chars) /\ CurrentMessage(s) \in Seq(Chars)
         /\ Len(CurrentMessage(s)) = Min(Ends(s))
         /\ Len(Rest(s)) = Len(s) - Min(Ends(s)) - Len(Delimiter)
<1> DEFINE e == Min(Ends(s))
<1>1. e \in Nat /\ e + Len(Delimiter) <= Len(s)
  BY FirstEnd
<1>2. Len(s) \in Nat /\ Len(Delimiter) \in Nat
  BY LenProperties, CharsType
<1>3. e \in 0 .. Len(s) /\ e + Len(Delimiter) \in 0 .. Len(s)
  BY <1>1, <1>2
<1> QED BY <1>1, <1>2, <1>3, Cut DEF Rest, CurrentMessage

-----------------------------------------------------------------------------
(* What a receive and a write leave behind, in every instance *)

BufferInv ==
    /\ TypeOK
    /\ reader = NoReader => message = <<>>
    /\ reader # NoReader => sockBuffer[reader] = <<>>
    /\ Complete(message) => Len(Rest(message)) < ReadSize
    /\ conn # "open" => writing = <<>>
    /\ conn = "closed" => wire = <<>> /\ reader = NoReader
    /\ writing # <<>> => /\ sent # <<>>
                         /\ writing = sent[Len(sent)] \o Delimiter

LEMMA EmptyIncomplete == ~Complete(<<>>)
<1>1. <<>> \in Seq(Chars) /\ Len(<<>>) = 0 /\ Len(Delimiter) \in Nat \ {0}
  BY EmptySeq, CharsType
<1>2. \A k : k \in Ends(<<>>) => k \in Nat /\ k + Len(Delimiter) <= Len(<<>>)
  BY <1>1, EndsIff
<1>3. \A k \in Nat : ~(k + Len(Delimiter) <= Len(<<>>))
  BY <1>1
<1> QED BY <1>2, <1>3 DEF Complete

(* The rest of a message that was completed by its last n characters is    *)
(* shorter than that.                                                      *)
LEMMA RestIsShort ==
  ASSUME NEW s \in Seq(Chars), NEW u \in Seq(Chars), ~Complete(s), Complete(s \o u)
  PROVE  Len(Rest(s \o u)) < Len(u)
<1> DEFINE e == Min(Ends(s \o u))
<1>1. s \o u \in Seq(Chars) /\ Len(s \o u) = Len(s) + Len(u)
  BY ConcatProperties
<1>2. Len(s) \in Nat /\ Len(u) \in Nat /\ Len(Delimiter) \in Nat
  BY LenProperties, CharsType
<1>3. e \in Ends(s \o u) /\ e \in Nat
  BY <1>1, FirstEnd
<1>4. e \notin Ends(s)
  BY DEF Complete
<1>5. e + Len(Delimiter) > Len(s)
  <2>1. IsPrefix(s, s \o u)
    BY PrefixOfConcat
  <2>2. e \in Ends(s) <=> e \in Ends(s \o u) /\ e + Len(Delimiter) <= Len(s)
    BY <1>1, <2>1, EndsOfPrefix
  <2> QED BY <1>2, <1>3, <1>4, <2>2
<1>6. \A w \in Seq(Chars) : Complete(w) =>
         Len(Rest(w)) = Len(w) - Min(Ends(w)) - Len(Delimiter)
  BY RestType
<1>7. Len(Rest(s \o u)) = Len(s \o u) - e - Len(Delimiter)
  BY <1>1, <1>6, Zenon
<1> HIDE DEF e
<1> QED BY <1>1, <1>2, <1>3, <1>5, <1>7

LEMMA MinOfTwo ==
  ASSUME NEW a \in Nat, NEW b \in Nat
  PROVE  Min({a, b}) \in Nat /\ Min({a, b}) <= a /\ Min({a, b}) <= b
  BY LeastNatural

LEMMA BufferInvInit == Init => BufferInv
<1> SUFFICES ASSUME Init PROVE BufferInv
  OBVIOUS
<1>0. mixed \in BOOLEAN
  BY Zenon DEF Init
<1>1. TypeOK
  BY <1>0, SocketAssumption, EmptySeq DEF Init, TypeOK
<1> QED BY <1>1, EmptyIncomplete DEF Init, BufferInv

LEMMA WriteKeepsBuffers ==
  ASSUME BufferInv, Write
  PROVE  BufferInv'
<1> PICK m \in Payloads : sent' = Append(sent, m) /\ writing' = m \o Delimiter
  BY DEF Write
<1>1. conn = "open" /\ UNCHANGED <<parts, conn, wire, reader, message, sockBuffer, delivered, mixed>>
  BY DEF Write
<1>2. m \o Delimiter \in Seq(Chars)
  BY CharsType
<1>3. /\ sent' \in Seq(Payloads) /\ sent' # <<>> /\ Len(sent') = Len(sent) + 1 /\ sent'[Len(sent) + 1] = m
      /\ Len(sent) \in Nat
  <2>1. sent \in Seq(Payloads)
    BY DEF BufferInv, TypeOK
  <2> QED BY <2>1, AppendProperties, LenProperties
<1>4. TypeOK'
  BY <1>1, <1>2, <1>3 DEF BufferInv, TypeOK
<1>5. sent' # <<>> /\ writing' = sent'[Len(sent')] \o Delimiter
  BY <1>3
<1> QED BY <1>1, <1>4, <1>5 DEF BufferInv, Complete, Rest, Ends

(* What is sent is on the wire. *)
LEMMA SendKeepsBuffers ==
  ASSUME BufferInv, SendAll \/ SendPart \/ PeerLeaves
  PROVE  BufferInv'
<1>1. /\ conn = "open" /\ conn' \in {"open", "left"} /\ writing' \in {writing, <<>>}
      /\ conn' = "left" => writing' = <<>>
      /\ UNCHANGED <<reader, message, sockBuffer, sent, delivered, mixed>>
  BY DEF SendAll, SendPart, PeerLeaves
<1>2. parts' \in 0 .. MaxParts
  <2>1. parts \in 0 .. MaxParts /\ MaxParts \in Nat
    BY SocketAssumption DEF BufferInv, TypeOK
  <2>2. parts' = parts \/ (parts < MaxParts /\ parts' = parts + 1)
    BY DEF SendAll, SendPart, PeerLeaves
  <2> QED BY <2>1, <2>2
<1>3. writing \in Seq(Chars) /\ wire \in Seq(Chars) /\ Len(writing) \in Nat
  BY LenProperties DEF BufferInv, TypeOK
<1>4. wire' \in Seq(Chars)
  <2>1. CASE SendAll
    BY <1>3, <2>1, ConcatProperties DEF SendAll
  <2>2. CASE SendPart \/ PeerLeaves
    <3>1. 1 .. Len(writing) - 1 \subseteq 0 .. Len(writing)
      BY <1>3
    <3>2. PICK n \in 0 .. Len(writing) : wire' = wire \o SubSeq(writing, 1, n)
      BY <2>2, <3>1 DEF SendPart, PeerLeaves
    <3>3. SubSeq(writing, 1, n) \in Seq(Chars)
      BY <1>3, Cut
    <3> QED BY <1>3, <3>2, <3>3, ConcatProperties
  <2> QED BY <2>1, <2>2
<1>5. TypeOK'
  BY <1>1, <1>2, <1>3, <1>4, EmptySeq DEF BufferInv, TypeOK
<1>6. writing' # <<>> => sent # <<>> /\ writing' = sent[Len(sent)] \o Delimiter
  BY <1>1 DEF BufferInv
<1> QED BY <1>1, <1>5, <1>6 DEF BufferInv, Complete, Rest, Ends

LEMMA StartKeepsBuffers ==
  ASSUME BufferInv, NEW r \in Readers, Start(r)
  PROVE  BufferInv'
<1>1. /\ conn # "closed" /\ reader' = r /\ message' = sockBuffer[r]
      /\ sockBuffer' = [sockBuffer EXCEPT ![r] = <<>>]
      /\ UNCHANGED <<parts, conn, wire, writing, sent, delivered>>
  BY DEF Start
<1>0. mixed' \in BOOLEAN
  BY Zenon DEF Start, BufferInv, TypeOK
<1>2. sockBuffer \in [Readers -> Seq(Chars)] /\ Len(sockBuffer[r]) < ReadSize
  BY DEF BufferInv, TypeOK
<1>3. TypeOK'
  <2>1. sockBuffer' \in [Readers -> Seq(Chars)] /\ message' \in Seq(Chars)
    BY <1>1, <1>2, EmptySeq
  <2>2. \A q \in Readers : Len(sockBuffer'[q]) < ReadSize
    BY <1>1, <1>2, EmptySeq, SocketAssumption DEF BufferInv, TypeOK
  <2> QED BY <1>0, <1>1, <2>1, <2>2 DEF BufferInv, TypeOK
<1>4. Complete(message)' => Len(Rest(message))' < ReadSize
  <2> SUFFICES ASSUME Complete(sockBuffer[r]) PROVE Len(Rest(sockBuffer[r])) < ReadSize
    BY <1>1 DEF Complete, Rest, Ends
  <2> DEFINE b == sockBuffer[r]
  <2>1. Len(Rest(b)) = Len(b) - Min(Ends(b)) - Len(Delimiter) /\ Min(Ends(b)) \in Nat
    BY <1>2, RestType, FirstEnd
  <2>2. Len(b) \in Nat /\ Len(Delimiter) \in Nat /\ ReadSize \in Nat
    BY <1>2, LenProperties, CharsType, SocketAssumption
  <2>3. Len(b) < ReadSize
    BY <1>2
  <2> HIDE DEF b
  <2>4. Len(Rest(b)) < ReadSize
    BY <2>1, <2>2, <2>3
  <2> QED BY <2>4 DEF b
<1>5. sockBuffer'[r] = <<>> /\ r # NoReader
  BY <1>1, <1>2, SocketAssumption
<1> QED BY <1>1, <1>3, <1>4, <1>5 DEF BufferInv

LEMMA RecvKeepsBuffers ==
  ASSUME BufferInv, Recv
  PROVE  BufferInv'
<1>1. /\ reader # NoReader /\ ~Complete(message)
      /\ UNCHANGED <<parts, conn, writing, reader, sockBuffer, sent, delivered, mixed>>
  BY DEF Recv
<1>2. wire \in Seq(Chars) /\ message \in Seq(Chars) /\ Len(wire) \in Nat /\ ReadSize \in Nat
  BY LenProperties, SocketAssumption DEF BufferInv, TypeOK
<1>3. PICK n \in 1 .. Min({ReadSize, Len(wire)}) :
          /\ message' = message \o SubSeq(wire, 1, n)
          /\ wire' = SubSeq(wire, n + 1, Len(wire))
  BY DEF Recv
<1>4. n \in 0 .. Len(wire) /\ n <= ReadSize
  BY <1>2, MinOfTwo
<1>5. /\ SubSeq(wire, 1, n) \in Seq(Chars) /\ Len(SubSeq(wire, 1, n)) = n
      /\ wire' \in Seq(Chars)
  BY <1>2, <1>3, <1>4, Cut
<1>6. message' \in Seq(Chars)
  BY <1>2, <1>3, <1>5, ConcatProperties
<1>7. TypeOK'
  BY <1>1, <1>5, <1>6 DEF BufferInv, TypeOK
<1>8. Complete(message)' => Len(Rest(message))' < ReadSize
  <2> SUFFICES ASSUME Complete(message \o SubSeq(wire, 1, n))
               PROVE  Len(Rest(message \o SubSeq(wire, 1, n))) < ReadSize
    BY <1>3 DEF Complete, Rest, Ends
  <2>1. Len(Rest(message \o SubSeq(wire, 1, n))) < n
    BY <1>1, <1>2, <1>5, RestIsShort
  <2>2. Len(Rest(message \o SubSeq(wire, 1, n))) \in Nat
    BY <1>3, <1>6, RestType, LenProperties
  <2> QED BY <1>2, <1>4, <2>1, <2>2
<1>9. conn # "closed"
  BY <1>1 DEF BufferInv
<1> QED BY <1>1, <1>7, <1>8, <1>9 DEF BufferInv

LEMMA ReturnKeepsBuffers ==
  ASSUME BufferInv, Return
  PROVE  BufferInv'
<1>1. /\ reader # NoReader /\ Complete(message)
      /\ delivered' = Append(delivered, CurrentMessage(message))
      /\ sockBuffer' = [sockBuffer EXCEPT ![reader] = @ \o Rest(message)]
      /\ message' = <<>> /\ reader' = NoReader
      /\ UNCHANGED <<parts, conn, wire, writing, sent, mixed>>
  BY DEF Return
<1>2. /\ message \in Seq(Chars) /\ reader \in Readers /\ sockBuffer[reader] = <<>>
      /\ sockBuffer \in [Readers -> Seq(Chars)]
  BY <1>1 DEF BufferInv, TypeOK
<1>3. Rest(message) \in Seq(Chars) /\ CurrentMessage(message) \in Seq(Chars)
  BY <1>1, <1>2, RestType
<1>4. sockBuffer' = [sockBuffer EXCEPT ![reader] = Rest(message)]
  BY <1>1, <1>2, <1>3, ConcatEmptySeq
<1>5. TypeOK'
  <2>1. delivered' \in Seq(Seq(Chars))
    BY <1>1, <1>3, AppendProperties DEF BufferInv, TypeOK
  <2>2. sockBuffer' \in [Readers -> Seq(Chars)]
    BY <1>2, <1>3, <1>4
  <2>3. \A q \in Readers : Len(sockBuffer'[q]) < ReadSize
    BY <1>1, <1>2, <1>4 DEF BufferInv, TypeOK
  <2> QED BY <1>1, <2>1, <2>2, <2>3, EmptySeq DEF BufferInv, TypeOK
<1>6. ~Complete(message)'
  BY <1>1, EmptyIncomplete DEF Complete, Ends
<1> QED BY <1>1, <1>5, <1>6 DEF BufferInv

LEMMA EndKeepsBuffers ==
  ASSUME BufferInv, RecvFails \/ Close \/ Connect
  PROVE  BufferInv'
<1>1. /\ wire' = <<>> /\ message' = <<>> /\ reader' = NoReader
      /\ writing' = <<>> /\ conn' \in {"left", "closed", "open"}
      /\ sent' \in {sent, <<>>} /\ delivered' \in {delivered, <<>>}
      /\ parts' \in {parts, 0} /\ UNCHANGED sockBuffer
  BY DEF RecvFails, Close, Connect, BufferInv
<1>0. mixed' \in BOOLEAN
  BY Zenon DEF RecvFails, Close, Connect, BufferInv, TypeOK
<1>2. TypeOK'
  <2>1. \A S : <<>> \in Seq(S)
    BY EmptySeq
  <2>2. parts' \in 0 .. MaxParts
    BY <1>1, SocketAssumption DEF BufferInv, TypeOK
  <2>3. sent' \in Seq(Payloads) /\ delivered' \in Seq(Seq(Chars))
    BY <1>1, <2>1 DEF BufferInv, TypeOK
  <2> QED BY <1>0, <1>1, <2>1, <2>2, <2>3 DEF BufferInv, TypeOK
<1>3. ~Complete(message)'
  BY <1>1, EmptyIncomplete DEF Complete, Ends
<1> QED BY <1>1, <1>2, <1>3 DEF BufferInv

LEMMA BufferInvNext == BufferInv /\ [Next]_vars => BufferInv'
<1> SUFFICES ASSUME BufferInv, [Next]_vars PROVE BufferInv'
  OBVIOUS
<1>1. CASE UNCHANGED vars
  BY <1>1 DEF vars, BufferInv, TypeOK, Complete, Rest, Ends
<1>2. CASE Next
  BY <1>2, WriteKeepsBuffers, SendKeepsBuffers, StartKeepsBuffers, RecvKeepsBuffers,
     ReturnKeepsBuffers, EndKeepsBuffers DEF Next, Receive
<1> QED BY <1>1, <1>2

(* Every variable keeps its type, and no sockBuffer ever holds as much as  *)
(* one recv() takes: what was read beyond a message was read with its end. *)
THEOREM BuffersStaySmall == Spec => []TypeOK
<1>1. BufferInv => TypeOK
  BY DEF BufferInv
<1> QED BY <1>1, BufferInvInit, BufferInvNext, PTL DEF Spec

-----------------------------------------------------------------------------
(* A message in its frame *)

LEMMA Assoc ==
  \A a, b, c \in Seq(Chars) : (a \o b) \o c = a \o (b \o c)
  BY ConcatAssociative

LEMMA EmptyIsPrefix ==
  ASSUME NEW S, NEW s \in Seq(S)
  PROVE  IsPrefix(<<>>, s)
<1>1. <<>> \in Seq(S) /\ Len(<<>>) = 0 /\ Len(s) \in Nat
  BY EmptySeq, LenProperties
<1>2. Len(<<>>) <= Len(s) /\ \A i \in 1 .. Len(<<>>) : <<>>[i] = s[i]
  BY <1>1
<1> QED BY <1>1, <1>2, PrefixIff

(* What a complete receive returns when the stream starts with h and a     *)
(* delimiter that is nowhere before: h, and everything behind is kept.     *)
LEMMA FrameRead ==
  ASSUME NEW h \in Seq(Chars), Ends(h \o Delimiter) = {Len(h)},
         NEW z \in Seq(Chars), IsPrefix(h \o Delimiter, z),
         NEW x \in Seq(Chars), IsPrefix(x, z), Complete(x)
  PROVE  CurrentMessage(x) = h /\ x = (h \o Delimiter) \o Rest(x)
<1> DEFINE e == Min(Ends(x))
           F == h \o Delimiter
<1>1. /\ F \in Seq(Chars) /\ Len(F) = Len(h) + Len(Delimiter)
      /\ Len(h) \in Nat /\ Len(Delimiter) \in Nat /\ Len(x) \in Nat
  BY CharsType, ConcatProperties, LenProperties
<1>2. e \in Ends(x) /\ e \in Nat /\ e + Len(Delimiter) <= Len(x) /\ \A k \in Ends(x) : e <= k
  BY FirstEnd
<1>3. \A k : k \in Ends(F) <=> k \in Ends(z) /\ k + Len(Delimiter) <= Len(F)
  BY <1>1, EndsOfPrefix
<1>4. \A k : k \in Ends(x) <=> k \in Ends(z) /\ k + Len(Delimiter) <= Len(x)
  BY EndsOfPrefix
<1>5. Ends(F) = {Len(h)}
  OBVIOUS
<1> HIDE DEF e, F
<1>6. e = Len(h)
  <2>1. e >= Len(h)
    BY <1>1, <1>2, <1>3, <1>4, <1>5
  <2>2. Len(h) \in Ends(x)
    <3>1. Len(h) \in Ends(z)
      BY <1>3, <1>5
    <3>2. Len(h) + Len(Delimiter) <= Len(x)
      BY <1>1, <1>2, <2>1
    <3> QED BY <1>4, <3>1, <3>2
  <2> QED BY <1>1, <1>2, <2>1, <2>2
<1>7. Len(F) \in 0 .. Len(x) /\ Len(h) \in 0 .. Len(x) /\ Len(F) = e + Len(Delimiter)
  BY <1>1, <1>2, <1>6
<1>8. /\ SubSeq(x, 1, Len(F)) \in Seq(Chars) /\ Len(SubSeq(x, 1, Len(F))) = Len(F)
      /\ x = SubSeq(x, 1, Len(F)) \o SubSeq(x, Len(F) + 1, Len(x))
  <2>1. Len(F) \in 0 .. Len(x)
    BY <1>7
  <2> QED BY <2>1, Cut, ZenonT(60)
<1>9. \A i \in 1 .. Len(x) : x[i] = z[i]
  BY PrefixIff
<1>10. \A i \in 1 .. Len(F) : F[i] = z[i]
  <2>1. IsPrefix(F, z)
    BY DEF F
  <2> QED BY <1>1, <2>1, PrefixIff
<1>11. \A i \in 1 .. Len(F) : x[i] = F[i]
  BY <1>1, <1>7, <1>9, <1>10
<1>12. SubSeq(x, 1, Len(F)) = F
  <2>1. \A i \in 1 .. Len(F) : SubSeq(x, 1, Len(F))[i] = x[i]
    BY <1>1, <1>7, SubSeqProperties, ElementOfSeq
  <2> QED BY <1>1, <1>8, <1>11, <2>1, SeqEqual
<1>13. SubSeq(x, 1, Len(h)) = h
  <2>1. /\ SubSeq(x, 1, Len(h)) \in Seq(Chars) /\ Len(SubSeq(x, 1, Len(h))) = Len(h)
        /\ \A i \in 1 .. Len(h) : SubSeq(x, 1, Len(h))[i] = x[i]
    BY <1>1, <1>7, SubSeqProperties, ElementOfSeq
  <2>2. \A i \in 1 .. Len(h) : F[i] = h[i]
    BY <1>1, CharsType, ConcatProperties DEF F
  <2>3. \A i \in 1 .. Len(h) : i \in 1 .. Len(F)
    BY <1>1
  <2>4. \A i \in 1 .. Len(h) : SubSeq(x, 1, Len(h))[i] = h[i]
    BY <1>11, <2>1, <2>2, <2>3
  <2> QED BY <2>1, <2>4, SeqEqual
<1>14. CurrentMessage(x) = h
  BY <1>6, <1>13 DEF CurrentMessage, e
<1>15. Rest(x) = SubSeq(x, Len(F) + 1, Len(x))
  BY <1>7 DEF Rest, e
<1> QED BY <1>8, <1>12, <1>14, <1>15 DEF F

-----------------------------------------------------------------------------
(* Peers that take turns: nothing is written before what was written last  *)
(* has been received.  Whichever object receives it reads exactly that.    *)

InFlight == message \o (wire \o writing)

TurnsInv ==
    /\ ~mixed
    /\ \A r \in Readers : sockBuffer[r] = <<>>
    /\ \/ sent = delivered /\ InFlight = <<>>
       \/ \E m \in Payloads : /\ sent = Append(delivered, m)
                              /\ IsPrefix(InFlight, m \o Delimiter)

LEMMA InFlightType ==
  ASSUME BufferInv
  PROVE  /\ message \in Seq(Chars) /\ wire \in Seq(Chars) /\ writing \in Seq(Chars)
         /\ wire \o writing \in Seq(Chars) /\ InFlight \in Seq(Chars)
  BY ConcatProperties DEF BufferInv, TypeOK, InFlight

LEMMA InFlightNextType ==
  ASSUME BufferInv'
  PROVE  /\ message' \in Seq(Chars) /\ wire' \in Seq(Chars) /\ writing' \in Seq(Chars)
         /\ wire' \o writing' \in Seq(Chars) /\ InFlight' \in Seq(Chars)
  BY ConcatProperties DEF BufferInv, TypeOK, InFlight

(* What SendAll and Recv move stays in flight. *)
LEMMA InFlightMoves ==
  ASSUME BufferInv, SendAll \/ Recv
  PROVE  InFlight' = InFlight
<1>1. CASE SendAll
  BY <1>1, InFlightType, ConcatEmptySeq DEF SendAll, InFlight
<1>2. CASE Recv
  <2>1. PICK n \in 1 .. Min({ReadSize, Len(wire)}) :
            /\ message' = message \o SubSeq(wire, 1, n)
            /\ wire' = SubSeq(wire, n + 1, Len(wire))
    BY <1>2 DEF Recv
  <2>2. n \in 0 .. Len(wire)
    BY InFlightType, LenProperties, MinOfTwo, SocketAssumption
  <2> DEFINE p == SubSeq(wire, 1, n)
             q == SubSeq(wire, n + 1, Len(wire))
  <2>3. p \in Seq(Chars) /\ q \in Seq(Chars) /\ wire = p \o q
    BY <2>2, InFlightType, Cut
  <2>4. InFlight' = (message \o p) \o (q \o writing)
    BY <1>2, <2>1 DEF Recv, InFlight
  <2> HIDE DEF p, q
  <2>5. InFlight = message \o ((p \o q) \o writing)
    BY <2>3 DEF InFlight
  <2>6. (p \o q) \o writing = p \o (q \o writing) /\ q \o writing \in Seq(Chars)
    <3>1. writing \in Seq(Chars)
      BY InFlightType
    <3>2. q \o writing \in Seq(Chars)
      BY <2>3, <3>1, ConcatProperties
    <3> QED BY <2>3, <3>1, <3>2, Assoc
  <2>7. (message \o p) \o (q \o writing) = message \o (p \o (q \o writing))
    <3>1. message \in Seq(Chars)
      BY InFlightType
    <3> QED BY <2>3, <2>6, <3>1, Assoc
  <2> QED BY <2>4, <2>5, <2>6, <2>7
<1> QED BY <1>1, <1>2

(* A peer that leaves cuts what is in flight. *)
LEMMA InFlightCut ==
  ASSUME BufferInv, PeerLeaves
  PROVE  IsPrefix(InFlight', InFlight)
<1>1. PICK n \in 0 .. Len(writing) : wire' = wire \o SubSeq(writing, 1, n)
  BY DEF PeerLeaves
<1> DEFINE p == SubSeq(writing, 1, n)
           q == SubSeq(writing, n + 1, Len(writing))
<1>2. p \in Seq(Chars) /\ q \in Seq(Chars) /\ writing = p \o q
  BY InFlightType, Cut
<1> HIDE DEF p, q
<1>3. message \o (wire \o p) \in Seq(Chars) /\ wire \o p \in Seq(Chars)
  BY <1>2, InFlightType, ConcatProperties
<1>4. InFlight' = message \o (wire \o p)
  BY <1>1, <1>3, ConcatEmptySeq DEF PeerLeaves, InFlight, p
<1>5. InFlight = (message \o (wire \o p)) \o q
  <2>1. message \in Seq(Chars) /\ wire \in Seq(Chars)
    BY InFlightType
  <2>2. (wire \o p) \o q = wire \o (p \o q)
    BY <1>2, <2>1, Assoc
  <2>3. (message \o (wire \o p)) \o q = message \o ((wire \o p) \o q)
    <3>1. wire \o p \in Seq(Chars) /\ q \in Seq(Chars)
      BY <1>2, <1>3
    <3> QED BY <2>1, <3>1, Assoc
  <2> QED BY <1>2, <2>2, <2>3 DEF InFlight
<1> QED BY <1>2, <1>3, <1>4, <1>5, PrefixOfConcat

(* The same is in flight, or less at its end. *)
LEMMA TurnsFrame ==
  ASSUME BufferInv, BufferInv', TurnsInv, UNCHANGED <<sent, delivered>>,
         IsPrefix(InFlight', InFlight),
         \A r \in Readers : sockBuffer'[r] = <<>>, ~mixed'
  PROVE  TurnsInv'
<1>1. InFlight \in Seq(Chars) /\ InFlight' \in Seq(Chars)
  BY InFlightType, InFlightNextType
<1>2. CASE sent = delivered /\ InFlight = <<>>
  <2>1. Len(InFlight') <= Len(<<>>) /\ Len(<<>>) = 0 /\ Len(InFlight') \in Nat
    BY <1>1, <1>2, PrefixIff, LenProperties, EmptySeq
  <2>2. Len(InFlight') = 0
    BY <2>1
  <2> QED BY <1>1, <1>2, <2>2, EmptyIffLen DEF TurnsInv
<1>3. ASSUME NEW m \in Payloads, sent = Append(delivered, m), IsPrefix(InFlight, m \o Delimiter)
      PROVE  TurnsInv'
  BY <1>1, <1>3, PrefixTransitive, CharsType DEF TurnsInv
<1> QED BY <1>2, <1>3 DEF TurnsInv

LEMMA TurnsWrite ==
  ASSUME Window = 1, BufferInv, TurnsInv, Write
  PROVE  TurnsInv'
<1>1. PICK m \in Payloads : sent' = Append(sent, m) /\ writing' = m \o Delimiter
  BY DEF Write
<1>2. /\ UNCHANGED <<message, wire, sockBuffer, delivered, mixed>>
      /\ Len(sent) < Len(delivered) + 1
  BY DEF Write
<1>3. delivered \in Seq(Seq(Chars))
  BY DEF BufferInv, TypeOK
<1>4. sent = delivered /\ InFlight = <<>>
  <2>1. \A n \in Payloads : sent # Append(delivered, n)
    <3> SUFFICES ASSUME NEW n \in Payloads, sent = Append(delivered, n) PROVE FALSE
      OBVIOUS
    <3>1. Len(sent) = Len(delivered) + 1 /\ Len(delivered) \in Nat
      BY <1>3, CharsType, AppendProperties, LenProperties
    <3> QED BY <1>2, <3>1
  <2> QED BY <2>1 DEF TurnsInv
<1>5. message = <<>> /\ wire = <<>>
  BY <1>4, InFlightType, ConcatEqualIffEmpty DEF InFlight
<1>6. InFlight' = m \o Delimiter
  BY <1>1, <1>2, <1>5, CharsType, ConcatEmptySeq DEF InFlight
<1>7. IsPrefix(InFlight', m \o Delimiter)
  BY <1>6, CharsType, PrefixReflexive
<1> QED BY <1>1, <1>2, <1>4, <1>7 DEF TurnsInv

LEMMA TurnsReturn ==
  ASSUME Framed, BufferInv, BufferInv', TurnsInv, Return
  PROVE  TurnsInv'
<1>1. /\ reader # NoReader /\ Complete(message)
      /\ delivered' = Append(delivered, CurrentMessage(message))
      /\ sockBuffer' = [sockBuffer EXCEPT ![reader] = @ \o Rest(message)]
      /\ message' = <<>> /\ UNCHANGED <<wire, writing, sent, mixed>>
  BY DEF Return
<1>2. message # <<>>
  BY <1>1, EmptyIncomplete
<1>3. InFlight # <<>>
  BY <1>2, InFlightType, ConcatEqualIffEmpty DEF InFlight
<1>4. PICK m \in Payloads : sent = Append(delivered, m) /\ IsPrefix(InFlight, m \o Delimiter)
  BY <1>3 DEF TurnsInv
<1> DEFINE F == m \o Delimiter
<1>5. F \in Seq(Chars) /\ m \in Seq(Chars) /\ Ends(F) = {Len(m)}
  BY CharsType DEF Framed
<1>6. IsPrefix(message, F) /\ IsPrefix(F, F)
  <2>1. IsPrefix(message, InFlight)
    BY InFlightType, PrefixOfConcat DEF InFlight
  <2> QED BY <1>4, <1>5, <2>1, InFlightType, PrefixTransitive, PrefixReflexive
<1>7. CurrentMessage(message) = m /\ message = F \o Rest(message)
  BY <1>1, <1>5, <1>6, FrameRead, InFlightType
<1>8. Rest(message) = <<>> /\ wire \o writing = <<>>
  <2>1. Rest(message) \in Seq(Chars)
    BY <1>1, RestType, InFlightType
  <2>2. /\ Len(message) = Len(F) + Len(Rest(message))
        /\ Len(InFlight) = Len(message) + Len(wire \o writing)
        /\ Len(InFlight) <= Len(F)
    BY <1>4, <1>5, <1>7, <2>1, InFlightType, ConcatProperties, PrefixIff DEF InFlight
  <2>3. /\ Len(F) \in Nat /\ Len(Rest(message)) \in Nat /\ Len(wire \o writing) \in Nat
        /\ Len(message) \in Nat /\ Len(InFlight) \in Nat
    BY <1>5, <2>1, InFlightType, LenProperties
  <2> HIDE DEF F
  <2>4. Len(Rest(message)) = 0 /\ Len(wire \o writing) = 0
    BY <2>2, <2>3
  <2> QED BY <2>1, <2>4, InFlightType, EmptyIffLen
<1>9. InFlight' = <<>>
  <2>1. wire = <<>> /\ writing = <<>>
    BY <1>8, InFlightType, ConcatEqualIffEmpty
  <2> QED BY <1>1, <2>1, ConcatEmptySeq, EmptySeq DEF InFlight
<1>10. \A r \in Readers : sockBuffer'[r] = <<>>
  <2>1. <<>> \o <<>> = <<>>
    BY EmptySeq, ConcatEmptySeq
  <2> QED BY <1>1, <1>8, <2>1 DEF TurnsInv, BufferInv, TypeOK
<1> QED BY <1>1, <1>4, <1>7, <1>9, <1>10 DEF TurnsInv

LEMMA TurnsOther ==
  ASSUME MaxParts = 0, BufferInv, BufferInv', TurnsInv,
         SendAll \/ SendPart \/ PeerLeaves \/ (\E r \in Readers : Start(r)) \/ Recv
         \/ RecvFails \/ Close
  PROVE  TurnsInv' /\ UNCHANGED <<sent, delivered>>
<1>1. UNCHANGED <<sent, delivered>>
  BY DEF SendAll, SendPart, PeerLeaves, Start, Recv, RecvFails, Close
<1>2. \A r \in Readers : sockBuffer'[r] = <<>>
  BY DEF SendAll, SendPart, PeerLeaves, Start, Recv, RecvFails, Close, TurnsInv, BufferInv,
     TypeOK
<1>3. ~SendPart /\ ~mixed'
  <2>1. ~SendPart
    BY DEF SendPart, BufferInv, TypeOK
  <2>2. ~mixed'
    BY Zenon DEF SendAll, SendPart, PeerLeaves, Start, Recv, RecvFails, Close, TurnsInv, Waiting
  <2> QED BY <2>1, <2>2
<1>4. IsPrefix(InFlight', InFlight)
  <2>1. CASE SendAll \/ Recv
    BY <2>1, InFlightMoves, InFlightType, PrefixReflexive
  <2>2. CASE PeerLeaves
    BY <2>2, InFlightCut
  <2>3. ASSUME NEW r \in Readers, Start(r) PROVE IsPrefix(InFlight', InFlight)
    <3>1. message = <<>> /\ message' = <<>> /\ UNCHANGED <<wire, writing>>
      BY <2>3 DEF Start, TurnsInv, BufferInv
    <3>2. InFlight' = InFlight
      BY <3>1 DEF InFlight
    <3> QED BY <3>2, InFlightType, PrefixReflexive
  <2>4. CASE RecvFails \/ Close
    <3>1. message' = <<>> /\ wire' = <<>> /\ writing' = <<>>
      BY <2>4 DEF RecvFails, Close, BufferInv
    <3>2. InFlight' = <<>>
      BY <3>1, EmptySeq, ConcatEmptySeq DEF InFlight
    <3> QED BY <3>2, InFlightType, EmptyIsPrefix
  <2> QED BY <1>3, <2>1, <2>2, <2>3, <2>4
<1> QED BY <1>1, <1>2, <1>3, <1>4, TurnsFrame

LEMMA TurnsInvInit == Init => TurnsInv
  BY EmptySeq, ConcatEmptySeq DEF Init, TurnsInv, InFlight

LEMMA TurnsConnect ==
  ASSUME BufferInv, TurnsInv, Connect
  PROVE  TurnsInv'
<1>1. /\ sent' = <<>> /\ delivered' = <<>> /\ UNCHANGED <<wire, writing, message, sockBuffer>>
      /\ wire = <<>> /\ writing = <<>> /\ message = <<>>
  BY DEF Connect, BufferInv
<1>2. InFlight' = <<>>
  BY <1>1, EmptySeq, ConcatEmptySeq DEF InFlight
<1>3. ~mixed'
  BY Zenon DEF Connect, TurnsInv, Waiting
<1> QED BY <1>1, <1>2, <1>3 DEF TurnsInv

LEMMA TurnsStep ==
  ASSUME Window = 1, MaxParts = 0, Framed, BufferInv, TurnsInv, [Next]_vars
  PROVE  TurnsInv'
<1>1. BufferInv'
  BY BufferInvNext
<1>2. CASE Write
  BY <1>2, TurnsWrite
<1>3. CASE Return
  BY <1>1, <1>3, TurnsReturn
<1>4. CASE Connect
  BY <1>4, TurnsConnect
<1>5. CASE SendAll \/ SendPart \/ PeerLeaves \/ (\E r \in Readers : Start(r)) \/ Recv
           \/ RecvFails \/ Close
  BY <1>1, <1>5, TurnsOther
<1>6. CASE UNCHANGED vars
  BY <1>6 DEF vars, TurnsInv, InFlight
<1> QED BY <1>2, <1>3, <1>4, <1>5, <1>6 DEF Next, Receive

(* When the peer waits for the answer to what it wrote and no send is cut, *)
(* nothing ever waits in a sockBuffer: any number of objects receive on    *)
(* the descriptor, over any number of connections given its number, and    *)
(* none of them finds bytes that were not meant for it.                    *)
THEOREM TurnsNeverMix ==
  ASSUME Window = 1, MaxParts = 0, Framed
  PROVE  Spec => []~mixed
<1>1. BufferInv /\ TurnsInv /\ [Next]_vars => TurnsInv'
  BY TurnsStep
<1>2. TurnsInv => ~mixed
  BY DEF TurnsInv
<1> QED BY <1>1, <1>2, BufferInvInit, TurnsInvInit, BufferInvNext, PTL DEF Spec

-----------------------------------------------------------------------------
(* A send that was cut: what is in front of a message *)

LEMMA PrefixAfter ==
  ASSUME NEW a \in Seq(Chars), NEW s \in Seq(Chars), NEW t \in Seq(Chars)
  PROVE  IsPrefix(a \o s, a \o t) <=> IsPrefix(s, t)
<1>1. a \o s \in Seq(Chars) /\ a \o t \in Seq(Chars)
  BY ConcatProperties
<1>2. ASSUME IsPrefix(s, t) PROVE IsPrefix(a \o s, a \o t)
  <2>1. PICK u \in Seq(Chars) : t = s \o u
    BY <1>2, PrefixIsConcat
  <2>2. (a \o s) \o u = a \o (s \o u)
    BY Assoc
  <2>3. a \o t = (a \o s) \o u
    BY <2>1, <2>2
  <2> QED BY <1>1, <2>3, PrefixOfConcat
<1>3. ASSUME IsPrefix(a \o s, a \o t) PROVE IsPrefix(s, t)
  <2> DEFINE x == a \o s
             y == a \o t
  <2> HIDE DEF x, y
  <2>0. \E u \in Seq(Chars) : y = x \o u
    <3>1. x \in Seq(Chars) /\ y \in Seq(Chars) /\ IsPrefix(x, y)
      BY <1>1, <1>3 DEF x, y
    <3> QED BY <3>1, PrefixIsConcat
  <2>1. PICK u \in Seq(Chars) : a \o t = (a \o s) \o u
    BY <2>0 DEF x, y
  <2>2. (a \o s) \o u = a \o (s \o u) /\ s \o u \in Seq(Chars)
    BY Assoc, ConcatProperties
  <2>3. a \o t = a \o (s \o u)
    BY <2>1, <2>2
  <2>4. t = s \o u
    BY <2>2, <2>3, ConcatSimplifications
  <2> QED BY <2>4, PrefixOfConcat
<1> QED BY <1>2, <1>3

LEMMA SuffixOfConcat ==
  ASSUME NEW g \in Seq(Chars), NEW s \in Seq(Chars)
  PROVE  IsSuffix(s, g \o s)
<1> DEFINE t == g \o s
<1>1. /\ t \in Seq(Chars) /\ Len(t) = Len(g) + Len(s)
      /\ \A i \in 1 .. Len(g) + Len(s) : t[i] = IF i <= Len(g) THEN g[i] ELSE s[i - Len(g)]
      /\ Len(g) \in Nat /\ Len(s) \in Nat
  BY ConcatProperties, LenProperties
<1> HIDE DEF t
<1>2. ASSUME NEW u \in Seq(Chars)
      PROVE  /\ Reverse(u) \in Seq(Chars) /\ Len(Reverse(u)) = Len(u)
             /\ \A i \in 1 .. Len(u) : Reverse(u)[i] = u[(Len(u) - i) + 1]
  <2>1. Len(u) \in Nat /\ \A i \in 1 .. Len(u) : u[i] \in Chars
    BY LenProperties, ElementOfSeq
  <2>2. \A i \in 1 .. Len(u) : (Len(u) - i) + 1 \in 1 .. Len(u)
    BY <2>1
  <2>3. Reverse(u) \in [1 .. Len(u) -> Chars]
    BY <2>1, <2>2 DEF Reverse
  <2>4. Reverse(u) \in Seq(Chars) /\ Len(Reverse(u)) = Len(u)
    BY <2>1, <2>3, SeqDef, LenProperties
  <2> QED BY <2>4 DEF Reverse
<1>3. ASSUME NEW i \in 1 .. Len(s) PROVE Reverse(s)[i] = Reverse(t)[i]
  <2>1. /\ (Len(t) - i) + 1 \in 1 .. Len(g) + Len(s) /\ ~((Len(t) - i) + 1 <= Len(g))
        /\ ((Len(t) - i) + 1) - Len(g) = (Len(s) - i) + 1 /\ i \in 1 .. Len(t)
    BY <1>1
  <2>2. Reverse(s)[i] = s[(Len(s) - i) + 1] /\ Reverse(t)[i] = t[(Len(t) - i) + 1]
    BY <1>1, <1>2, <2>1
  <2> QED BY <1>1, <2>1, <2>2
<1>4. Len(s) <= Len(t)
  BY <1>1
<1>5. IsPrefix(Reverse(s), Reverse(t))
  BY <1>1, <1>2, <1>3, <1>4, PrefixIff
<1> QED BY <1>5 DEF IsSuffix, t

(* What is in front of a framed message holds no end of its own, and none  *)
(* comes about where the two meet.                                         *)
LEMMA EndsOfFrame ==
  ASSUME Framed, Unmistaken, NEW m \in Payloads, NEW g \in Seq(Chars), Ends(g) = {}
  PROVE  Ends(g \o (m \o Delimiter)) = {Len(g) + Len(m)}
<1> DEFINE F == m \o Delimiter
           w == g \o F
<1>1. /\ F \in Seq(Chars) /\ Ends(F) = {Len(m)} /\ Len(F) = Len(m) + Len(Delimiter)
      /\ Delimiter \in Seq(Chars) /\ Len(m) \in Nat /\ Len(g) \in Nat
      /\ Len(Delimiter) \in Nat \ {0}
  BY CharsType, ConcatProperties, LenProperties DEF Framed
<1>2. \A j \in 2 .. Len(Delimiter) : ~IsPrefix(SubSeq(Delimiter, j, Len(Delimiter)), F)
  BY DEF Unmistaken
<1> HIDE DEF F
<1>3. /\ w \in Seq(Chars) /\ Len(w) = Len(g) + Len(F)
      /\ \A i \in 1 .. Len(g) + Len(F) : w[i] = IF i <= Len(g) THEN g[i] ELSE F[i - Len(g)]
  <2>1. F \in Seq(Chars)
    BY <1>1
  <2> QED BY <2>1, ConcatProperties
<1> HIDE DEF w
<1>4. \A i \in 1 .. Len(F) : w[Len(g) + i] = F[i]
  <2> TAKE i \in 1 .. Len(F)
  <2>1. /\ Len(g) + i \in 1 .. Len(g) + Len(F) /\ ~(Len(g) + i <= Len(g))
        /\ (Len(g) + i) - Len(g) = i
    BY <1>1
  <2> QED BY <1>3, <2>1
<1>5. ASSUME NEW e \in Ends(w) PROVE e = Len(g) + Len(m)
  <2>1. /\ e \in Nat /\ e + Len(Delimiter) <= Len(w)
        /\ \A j \in 1 .. Len(Delimiter) : w[e + j] = Delimiter[j]
    BY <1>3, EndsIff
  <2>2. CASE e >= Len(g)
    <3>1. PICK k \in Nat : e = Len(g) + k
      <4>1. e - Len(g) \in Nat /\ e = Len(g) + (e - Len(g))
        BY <1>1, <2>1, <2>2
      <4> QED BY <4>1
    <3>2. k + Len(Delimiter) <= Len(F)
      BY <1>1, <1>3, <2>1, <3>1, LenProperties
    <3>3. ASSUME NEW j \in 1 .. Len(Delimiter) PROVE F[k + j] = Delimiter[j]
      <4>1. k + j \in 1 .. Len(F) /\ e + j = Len(g) + (k + j)
        BY <1>1, <3>1, <3>2, LenProperties
      <4> QED BY <1>4, <2>1, <4>1
    <3>4. k \in Ends(F)
      BY <1>1, <3>2, <3>3, EndsIff
    <3> QED BY <1>1, <3>1, <3>4
  <2>3. CASE e + Len(Delimiter) <= Len(g)
    <3>1. ASSUME NEW j \in 1 .. Len(Delimiter) PROVE g[e + j] = Delimiter[j]
      <4>1. e + j \in 1 .. Len(g) + Len(F) /\ e + j <= Len(g)
        BY <1>1, <2>1, <2>3, LenProperties
      <4> QED BY <1>3, <2>1, <4>1
    <3>2. e \in Ends(g)
      BY <2>1, <2>3, <3>1, EndsIff
    <3> QED BY <3>2
  <2>4. CASE e < Len(g) /\ e + Len(Delimiter) > Len(g)
    <3> DEFINE o == Len(g) - e
               q == SubSeq(Delimiter, o + 1, Len(Delimiter))
    <3>1. o + 1 \in 2 .. Len(Delimiter) /\ o \in 0 .. Len(Delimiter)
      BY <1>1, <2>1, <2>4
    <3>2. /\ q \in Seq(Chars) /\ Len(q) = Len(Delimiter) - o
          /\ \A i \in 1 .. Len(Delimiter) - o : q[i] = Delimiter[o + i]
      <4>1. Delimiter \in Seq(Chars) /\ \A i \in 1 .. Len(Delimiter) : Delimiter[i] \in Chars
        BY <1>1, ElementOfSeq
      <4> QED BY <1>1, <3>1, <4>1, SubSeqProperties, SMTT(60)
    <3> HIDE DEF q
    <3>3. \A i \in 1 .. Len(q) : q[i] = F[i]
      <4> TAKE i \in 1 .. Len(q)
      <4>1. /\ o + i \in 1 .. Len(Delimiter) /\ e + (o + i) = Len(g) + i
            /\ i \in 1 .. Len(F)
        BY <1>1, <2>1, <2>4, <3>1, <3>2
      <4>2. w[e + (o + i)] = Delimiter[o + i]
        BY <2>1, <4>1
      <4>3. q[i] = Delimiter[o + i]
        BY <3>2
      <4> QED BY <1>4, <4>1, <4>2, <4>3
    <3>4. Len(q) <= Len(F)
      BY <1>1, <3>1, <3>2
    <3>5. IsPrefix(q, F)
      BY <1>1, <3>2, <3>3, <3>4, PrefixIff
    <3> QED BY <1>2, <3>1, <3>5 DEF q
  <2> QED BY <1>1, <2>1, <2>2, <2>3, <2>4
<1>6. Len(g) + Len(m) \in Ends(w)
  <2>1. \A j \in 1 .. Len(Delimiter) : F[Len(m) + j] = Delimiter[j] /\ Len(m) + j \in 1 .. Len(F)
    <3>1. Len(m) \in Ends(F) /\ F \in Seq(Chars)
      BY <1>1
    <3>2. \A j \in 1 .. Len(Delimiter) : F[Len(m) + j] = Delimiter[j]
      BY <3>1, EndsIff
    <3> QED BY <1>1, <3>2
  <2>2. ASSUME NEW j \in 1 .. Len(Delimiter) PROVE w[(Len(g) + Len(m)) + j] = Delimiter[j]
    <3>1. (Len(g) + Len(m)) + j = Len(g) + (Len(m) + j)
      BY <1>1
    <3> QED BY <1>4, <2>1, <3>1
  <2>3. (Len(g) + Len(m)) + Len(Delimiter) <= Len(w) /\ Len(g) + Len(m) \in Nat
    BY <1>1, <1>3
  <2> QED BY <1>3, <2>2, <2>3, EndsIff
<1>7. Ends(w) = {Len(g) + Len(m)}
  BY <1>5, <1>6
<1> QED BY <1>7 DEF w, F

(* What was sent of a message that was cut holds no end of it. *)
LEMMA EndsOfCut ==
  ASSUME NEW m \in Payloads, NEW g \in Seq(Chars),
         Ends(g \o (m \o Delimiter)) = {Len(g) + Len(m)},
         NEW n \in 0 .. Len(m \o Delimiter) - 1
  PROVE  Ends(g \o SubSeq(m \o Delimiter, 1, n)) = {}
<1> DEFINE F == m \o Delimiter
           p == SubSeq(F, 1, n)
<1>1. /\ F \in Seq(Chars) /\ Len(F) = Len(m) + Len(Delimiter)
      /\ Len(m) \in Nat /\ Len(g) \in Nat /\ Len(Delimiter) \in Nat
  BY CharsType, ConcatProperties, LenProperties
<1>2. n \in 0 .. Len(F) /\ n < Len(F)
  BY <1>1
<1>3. p \in Seq(Chars) /\ Len(p) = n /\ F = p \o SubSeq(F, n + 1, Len(F))
      /\ SubSeq(F, n + 1, Len(F)) \in Seq(Chars)
  BY <1>1, <1>2, Cut
<1>4. IsPrefix(p, F)
  BY <1>3, PrefixOfConcat
<1> HIDE DEF F, p
<1>5. /\ g \o p \in Seq(Chars) /\ g \o F \in Seq(Chars) /\ Len(g \o p) = Len(g) + n
      /\ IsPrefix(g \o p, g \o F)
  BY <1>1, <1>3, <1>4, ConcatProperties, PrefixAfter
<1>6. ASSUME NEW e \in Ends(g \o p) PROVE FALSE
  <2> DEFINE x == g \o p
             y == g \o F
  <2> HIDE DEF x, y
  <2>0. e \in Ends(y) /\ e + Len(Delimiter) <= Len(x)
    <3>1. x \in Seq(Chars) /\ y \in Seq(Chars) /\ IsPrefix(x, y) /\ e \in Ends(x)
      BY <1>5 DEF x, y
    <3> QED BY <3>1, EndsOfPrefix
  <2>1. e \in Ends(g \o F) /\ e + Len(Delimiter) <= Len(g) + n
    BY <1>5, <2>0 DEF x, y
  <2>2. e = Len(g) + Len(m)
    BY <2>1 DEF F
  <2> QED BY <1>1, <1>2, <2>1, <2>2
<1>7. Ends(g \o p) = {}
  BY <1>6
<1> QED BY <1>7 DEF p, F

-----------------------------------------------------------------------------
(* One object that has all that waits of a connection.  f[k] is what was   *)
(* sent of the first k messages, B the messages that were cut and sent     *)
(* again.                                                                  *)

Data(r) == sockBuffer[r] \o InFlight

FrameAt(f, B, k) ==
    \E g \in Seq(Chars) :
        /\ f[k] = f[k - 1] \o (g \o (sent[k] \o Delimiter))
        /\ Ends(g \o (sent[k] \o Delimiter)) = {Len(g) + Len(sent[k])}
        /\ k \notin B => g = <<>>
        /\ k <= Len(delivered) => delivered[k] = g \o sent[k]

Frames(f, B) ==
    /\ f \in [0 .. Len(sent) -> Seq(Chars)]
    /\ \A j, k \in 0 .. Len(sent) : j <= k => IsPrefix(f[j], f[k])
    /\ B \in SUBSET (1 .. Len(sent)) /\ Cardinality(B) <= parts
    /\ \A k \in 1 .. Len(sent) : FrameAt(f, B, k)
    /\ Len(delivered) <= Len(sent)

Carried(r, f) ==
    /\ IsPrefix(f[Len(delivered)] \o Data(r), f[Len(sent)])
    /\ conn = "open" => f[Len(delivered)] \o Data(r) = f[Len(sent)]

StreamInv(r) == \E f, B : Frames(f, B) /\ Carried(r, f)

LEMMA DataType ==
  ASSUME BufferInv, NEW r \in Readers
  PROVE  sockBuffer[r] \in Seq(Chars) /\ Data(r) \in Seq(Chars)
<1>1. sockBuffer[r] \in Seq(Chars)
  BY DEF BufferInv, TypeOK
<1> QED BY <1>1, InFlightType, ConcatProperties DEF Data

LEMMA DataNextType ==
  ASSUME BufferInv', NEW r \in Readers
  PROVE  sockBuffer'[r] \in Seq(Chars) /\ Data(r)' \in Seq(Chars)
<1>1. sockBuffer'[r] \in Seq(Chars)
  BY DEF BufferInv, TypeOK
<1> QED BY <1>1, InFlightNextType, ConcatProperties DEF Data

LEMMA CountType ==
  ASSUME BufferInv
  PROVE  /\ sent \in Seq(Payloads) /\ Len(sent) \in Nat
         /\ delivered \in Seq(Seq(Chars)) /\ Len(delivered) \in Nat
         /\ parts \in Nat
         /\ \A k \in 1 .. Len(sent) : sent[k] \in Payloads
  BY LenProperties, ElementOfSeq, SocketAssumption DEF BufferInv, TypeOK

LEMMA StreamInit ==
  ASSUME NEW r \in Readers, Init
  PROVE  StreamInv(r)
<1> DEFINE f == [k \in 0 .. 0 |-> <<>>]
<1>1. /\ <<>> \in Seq(Chars) /\ <<>> \o <<>> = <<>> /\ Len(<<>>) = 0
      /\ Len(sent) = 0 /\ Len(delivered) = 0 /\ Data(r) = <<>>
  BY EmptySeq, ConcatEmptySeq DEF Init, Data, InFlight
<1>2. 0 .. Len(sent) = {0} /\ 1 .. Len(sent) = {}
  BY <1>1
<1>3. IsPrefix(<<>>, <<>>)
  BY <1>1, PrefixReflexive
<1>4. Cardinality({}) <= parts
  BY FS_EmptySet DEF Init
<1>5. Frames(f, {})
  BY <1>1, <1>2, <1>3, <1>4 DEF Frames
<1>6. Carried(r, f)
  BY <1>1, <1>3 DEF Carried
<1> QED BY <1>5, <1>6 DEF StreamInv

(* The same is on its way to the reader, or, when the connection ends,     *)
(* less at its end.                                                        *)
LEMMA StreamFrame ==
  ASSUME BufferInv, BufferInv', NEW r \in Readers, StreamInv(r),
         UNCHANGED <<sent, delivered, parts>>,
         IsPrefix(Data(r)', Data(r)),
         conn' = "open" => conn = "open" /\ Data(r)' = Data(r)
  PROVE  StreamInv(r)'
<1> PICK f, B : Frames(f, B) /\ Carried(r, f)
  BY DEF StreamInv
<1> DEFINE w == f[Len(delivered)]
           W == f[Len(sent)]
<1>1. w \in Seq(Chars) /\ W \in Seq(Chars)
  BY CountType DEF Frames
<1>2. Frames(f, B)'
  BY DEF Frames, FrameAt
<1>3. IsPrefix(w \o Data(r)', W)
  <2> DEFINE x == Data(r)
             y == Data(r)'
  <2>1. x \in Seq(Chars) /\ y \in Seq(Chars) /\ IsPrefix(y, x)
    BY DataType, DataNextType
  <2>2. IsPrefix(w \o x, W)
    BY DEF Carried
  <2> HIDE DEF x, y, w, W
  <2>3. IsPrefix(w \o y, w \o x)
    BY <1>1, <2>1, PrefixAfter
  <2>4. w \o x \in Seq(Chars) /\ w \o y \in Seq(Chars)
    BY <1>1, <2>1, ConcatProperties
  <2>5. IsPrefix(w \o y, W)
    BY <1>1, <2>2, <2>3, <2>4, PrefixTransitive
  <2> QED BY <2>5 DEF y
<1>4. conn' = "open" => w \o Data(r)' = W
  BY DEF Carried
<1>5. Carried(r, f)'
  BY <1>3, <1>4 DEF Carried
<1> QED BY <1>2, <1>5 DEF StreamInv

LEMMA StreamOther ==
  ASSUME BufferInv, BufferInv', NEW r \in Readers, StreamInv(r),
         SendAll \/ PeerLeaves \/ Start(r) \/ Recv \/ RecvFails \/ Close
  PROVE  StreamInv(r)'
<1>1. UNCHANGED <<sent, delivered, parts>>
  BY DEF SendAll, PeerLeaves, Start, Recv, RecvFails, Close
<1>2. sockBuffer[r] \in Seq(Chars) /\ Data(r) \in Seq(Chars)
  BY DataType
<1>3. CASE SendAll \/ Recv
  <2>1. Data(r)' = Data(r) /\ conn' = conn
    BY <1>3, InFlightMoves DEF Data, SendAll, Recv
  <2> QED BY <1>1, <1>2, <2>1, StreamFrame, PrefixReflexive
<1>4. CASE PeerLeaves
  <2>1. conn' = "left" /\ sockBuffer' = sockBuffer
    BY <1>4 DEF PeerLeaves
  <2>2. IsPrefix(sockBuffer[r] \o InFlight', sockBuffer[r] \o InFlight)
    BY <1>2, <1>4, InFlightCut, InFlightType, InFlightNextType, PrefixAfter
  <2> QED BY <1>1, <2>1, <2>2, StreamFrame DEF Data
<1>5. CASE Start(r)
  <2>1. /\ message' = sockBuffer[r] /\ sockBuffer'[r] = <<>> /\ message = <<>>
        /\ UNCHANGED <<conn, wire, writing>>
    BY <1>5 DEF Start, BufferInv, TypeOK
  <2>2. Data(r)' = <<>> \o (sockBuffer[r] \o (wire \o writing))
    BY <2>1 DEF Data, InFlight
  <2>3. Data(r) = sockBuffer[r] \o (<<>> \o (wire \o writing))
    BY <2>1 DEF Data, InFlight
  <2>4. sockBuffer[r] \o (wire \o writing) \in Seq(Chars) /\ wire \o writing \in Seq(Chars)
    BY <1>2, InFlightType, ConcatProperties
  <2>5. Data(r)' = Data(r)
    BY <2>2, <2>3, <2>4, ConcatEmptySeq
  <2> QED BY <1>1, <1>2, <2>1, <2>5, StreamFrame, PrefixReflexive
<1>6. CASE RecvFails \/ Close
  <2>1. message' = <<>> /\ wire' = <<>> /\ writing' = <<>> /\ conn' # "open" /\ sockBuffer' = sockBuffer
    BY <1>6 DEF RecvFails, Close, BufferInv
  <2>2. InFlight' = <<>>
    BY <2>1, EmptySeq, ConcatEmptySeq DEF InFlight
  <2>3. IsPrefix(sockBuffer[r] \o <<>>, sockBuffer[r] \o InFlight)
    BY <1>2, InFlightType, EmptyIsPrefix, EmptySeq, PrefixAfter
  <2> QED BY <1>1, <2>1, <2>2, <2>3, StreamFrame DEF Data
<1> QED BY <1>3, <1>4, <1>5, <1>6

LEMMA StreamWrite ==
  ASSUME Framed, BufferInv, BufferInv', NEW r \in Readers, StreamInv(r), Write
  PROVE  StreamInv(r)'
<1>1. PICK m \in Payloads : sent' = Append(sent, m) /\ writing' = m \o Delimiter
  BY DEF Write
<1>2. /\ conn = "open" /\ writing = <<>>
      /\ UNCHANGED <<parts, conn, wire, message, sockBuffer, delivered>>
  BY DEF Write
<1> PICK f, B : Frames(f, B) /\ Carried(r, f)
  BY DEF StreamInv
<1> DEFINE F == m \o Delimiter
<1> PICK s : s = Len(sent)
  OBVIOUS
<1> PICK h : h = [k \in 0 .. s + 1 |-> IF k <= s THEN f[k] ELSE f[s] \o (<<>> \o F)]
  OBVIOUS
<1>3. s \in Nat /\ Len(delivered) \in Nat /\ parts \in Nat /\ sent \in Seq(Payloads)
  BY CountType
<1>4. /\ Len(sent') = s + 1 /\ sent'[s + 1] = m
      /\ \A k \in 1 .. s : sent'[k] = sent[k]
  BY <1>1, <1>3, AppendProperties
<1>5. /\ F \in Seq(Chars) /\ <<>> \o F = F /\ Ends(F) = {Len(m)} /\ <<>> \in Seq(Chars)
      /\ <<>> \o m = m /\ Len(<<>>) + Len(m) = Len(m)
  BY CharsType, ConcatEmptySeq, EmptySeq, LenProperties DEF Framed
<1>6. /\ f \in [0 .. s -> Seq(Chars)] /\ f[s] \in Seq(Chars) /\ f[s] \o F \in Seq(Chars)
      /\ Len(delivered) <= s
  BY <1>3, <1>5, ConcatProperties DEF Frames
<1> HIDE DEF F
<1>7. /\ h \in [0 .. s + 1 -> Seq(Chars)] /\ h[s + 1] = f[s] \o F
      /\ \A k \in 0 .. s : h[k] = f[k]
  BY <1>3, <1>5, <1>6
<1>8. \A j, k \in 0 .. s + 1 : j <= k => IsPrefix(h[j], h[k])
  <2> SUFFICES ASSUME NEW j \in 0 .. s + 1, NEW k \in 0 .. s + 1, j <= k
               PROVE  IsPrefix(h[j], h[k])
    OBVIOUS
  <2>1. CASE k <= s
    <3>1. j \in 0 .. s /\ k \in 0 .. s
      BY <1>3, <2>1
    <3> QED BY <1>7, <3>1 DEF Frames
  <2>2. CASE j <= s /\ k = s + 1
    <3>1. j \in 0 .. s /\ s \in 0 .. s /\ j <= s
      BY <1>3, <2>2
    <3>2. IsPrefix(f[j], f[s]) /\ f[j] \in Seq(Chars)
      BY <1>6, <3>1 DEF Frames
    <3>3. IsPrefix(f[s], f[s] \o F)
      BY <1>5, <1>6, PrefixOfConcat
    <3>4. IsPrefix(f[j], f[s] \o F)
      BY <1>6, <3>2, <3>3, PrefixTransitive
    <3> QED BY <1>7, <2>2, <3>1, <3>4
  <2>3. CASE j = s + 1 /\ k = s + 1
    BY <1>6, <1>7, <2>3, PrefixReflexive
  <2> QED BY <1>3, <2>1, <2>2, <2>3
<1>9. \A k \in 1 .. s + 1 : FrameAt(h, B, k)'
  <2>1. ASSUME NEW k \in 1 .. s PROVE FrameAt(h, B, k)'
    <3>1. k \in 0 .. s /\ k - 1 \in 0 .. s
      BY <1>3
    <3>2. h[k] = f[k] /\ h[k - 1] = f[k - 1] /\ sent'[k] = sent[k] /\ delivered' = delivered
      BY <1>2, <1>4, <1>7, <3>1
    <3>3. FrameAt(f, B, k)
      BY DEF Frames
    <3> QED BY <3>2, <3>3 DEF FrameAt
  <2>2. FrameAt(h, B, s + 1)'
    <3>1. ~(s + 1 <= Len(delivered)) /\ (s + 1) - 1 = s /\ s \in 0 .. s
      BY <1>3, <1>6
    <3>2. h[s + 1] = h[(s + 1) - 1] \o (<<>> \o (sent'[s + 1] \o Delimiter))
      BY <1>4, <1>5, <1>7, <3>1 DEF F
    <3>3. Ends(<<>> \o (sent'[s + 1] \o Delimiter)) = {Len(<<>>) + Len(sent'[s + 1])}
      BY <1>4, <1>5 DEF F
    <3> QED BY <1>2, <1>5, <3>1, <3>2, <3>3 DEF FrameAt
  <2> QED BY <1>3, <2>1, <2>2
<1>10. Frames(h, B)'
  <2>1. B \in SUBSET (1 .. s + 1) /\ Cardinality(B) <= parts' /\ Len(delivered') <= s + 1
    BY <1>2, <1>3, <1>6 DEF Frames
  <2> QED BY <1>4, <1>7, <1>8, <1>9, <2>1 DEF Frames
<1>11. f[Len(delivered)] \o Data(r)' = f[s] \o F
  <2> DEFINE x == f[Len(delivered)]
             a == sockBuffer[r]
  <2>1. /\ x \in Seq(Chars) /\ a \in Seq(Chars) /\ message \in Seq(Chars) /\ wire \in Seq(Chars)
        /\ message \o wire \in Seq(Chars) /\ a \o (message \o wire) \in Seq(Chars)
    <3>1. Len(delivered) \in 0 .. s
      BY <1>3, <1>6
    <3> QED BY <1>6, <3>1, DataType, InFlightType, ConcatProperties
  <2>2. Data(r) = a \o (message \o wire)
    BY <1>2, <2>1, ConcatEmptySeq DEF Data, InFlight
  <2>3. Data(r)' = a \o (message \o (wire \o F))
    BY <1>1, <1>2 DEF Data, InFlight, F
  <2>4. x \o (a \o (message \o wire)) = f[s]
    BY <1>2, <2>2 DEF Carried
  <2> HIDE DEF x, a
  <2>5. (message \o wire) \o F = message \o (wire \o F)
    <3>1. message \in Seq(Chars) /\ wire \in Seq(Chars) /\ F \in Seq(Chars)
      BY <1>5, <2>1
    <3> QED BY <3>1, Assoc
  <2>6. (a \o (message \o wire)) \o F = a \o ((message \o wire) \o F)
    <3>1. a \in Seq(Chars) /\ message \o wire \in Seq(Chars) /\ F \in Seq(Chars)
      BY <1>5, <2>1
    <3> QED BY <3>1, Assoc
  <2>7. (x \o (a \o (message \o wire))) \o F = x \o ((a \o (message \o wire)) \o F)
    <3>1. x \in Seq(Chars) /\ a \o (message \o wire) \in Seq(Chars) /\ F \in Seq(Chars)
      BY <1>5, <2>1
    <3> QED BY <3>1, Assoc
  <2>8. x \o Data(r)' = f[s] \o F
    BY <2>3, <2>4, <2>5, <2>6, <2>7
  <2> QED BY <2>8 DEF x
<1>12. Carried(r, h)'
  <2>1. Len(delivered) \in 0 .. s /\ delivered' = delivered
    BY <1>2, <1>3, <1>6
  <2>2. h[Len(delivered')] \o Data(r)' = h[Len(sent')]
    BY <1>4, <1>7, <1>11, <2>1
  <2>3. IsPrefix(h[Len(sent')], h[Len(sent')])
    BY <1>4, <1>6, <1>7, PrefixReflexive
  <2> QED BY <2>2, <2>3 DEF Carried
<1> QED BY <1>10, <1>12 DEF StreamInv

(* With something on its way to the reader there is a message that was not *)
(* received yet.                                                           *)
LEMMA StreamPending ==
  ASSUME BufferInv, NEW r \in Readers, NEW f, NEW B, Frames(f, B), Carried(r, f),
         Data(r) # <<>>
  PROVE  Len(delivered) < Len(sent)
<1>1. /\ Len(delivered) \in Nat /\ Len(sent) \in Nat /\ Len(delivered) <= Len(sent)
  BY CountType DEF Frames
<1>2. CASE Len(delivered) = Len(sent)
  <2> DEFINE w == f[Len(sent)]
             x == Data(r)
  <2>1. w \in Seq(Chars) /\ x \in Seq(Chars) /\ x # <<>>
    BY <1>1, DataType DEF Frames
  <2>2. IsPrefix(w \o x, w)
    BY <1>2 DEF Carried
  <2> HIDE DEF w, x
  <2>3. w \o x \in Seq(Chars) /\ Len(w \o x) = Len(w) + Len(x)
    BY <2>1, ConcatProperties
  <2>4. Len(w \o x) <= Len(w)
    BY <2>2 DEF IsPrefix
  <2>5. Len(w) \in Nat /\ Len(x) \in Nat
    BY <2>1, LenProperties
  <2>6. Len(x) = 0
    BY <2>3, <2>4, <2>5
  <2> QED BY <2>1, <2>6, EmptyIffLen
<1> QED BY <1>1, <1>2

(* Concatenation and its type by names the provers do not look into. *)
Cat(s, t) == s \o t
Text == Seq(Chars)

LEMMA CatLaws ==
  /\ \A s, t \in Text : Cat(s, t) \in Text
  /\ \A s, t, u \in Text : Cat(Cat(s, t), u) = Cat(s, Cat(t, u))
  /\ \A s, t, u \in Text : Cat(s, u) = Cat(t, u) => s = t
<1>1. \A s, t \in Text : Cat(s, t) \in Text
  BY ConcatProperties DEF Cat, Text
<1>2. \A s, t, u \in Text : Cat(Cat(s, t), u) = Cat(s, Cat(t, u))
  BY Assoc DEF Cat, Text
<1>3. \A s, t, u \in Text : Cat(s, u) = Cat(t, u) => s = t
  BY ConcatSimplifications DEF Cat, Text
<1> QED BY <1>1, <1>2, <1>3

(* What comes in front of the last d goes behind what is before it. *)
LEMMA InFront ==
  ASSUME NEW x \in Text, NEW a \in Text, NEW b \in Text, NEW c \in Text
  PROVE  /\ Cat(x, Cat(a, Cat(b, c))) \in Text
         /\ \A d \in Text :
               Cat(x, Cat(a, Cat(b, Cat(c, d)))) = Cat(Cat(x, Cat(a, Cat(b, c))), d)
<1>1. Cat(b, c) \in Text
  BY CatLaws
<1>2. Cat(a, Cat(b, c)) \in Text
  BY <1>1, CatLaws
<1> QED BY <1>1, <1>2, CatLaws

LEMMA StreamSendPart ==
  ASSUME Framed, Unmistaken, BufferInv, BufferInv', NEW r \in Readers, StreamInv(r), SendPart
  PROVE  StreamInv(r)'
<1> PICK f, B : Frames(f, B) /\ Carried(r, f)
  BY DEF StreamInv
<1>1. /\ conn = "open" /\ writing # <<>> /\ parts' = parts + 1
      /\ UNCHANGED <<conn, writing, message, sockBuffer, sent, delivered>>
  BY DEF SendPart
<1>2. PICK n \in 1 .. Len(writing) - 1 : wire' = wire \o SubSeq(writing, 1, n)
  BY DEF SendPart
<1> PICK s : s = Len(sent)
  OBVIOUS
<1> PICK m : m = sent[s]
  OBVIOUS
<1> DEFINE F == m \o Delimiter
<1> PICK p : p = SubSeq(F, 1, n)
  OBVIOUS
<1>3. /\ s \in Nat /\ Len(delivered) \in Nat /\ parts \in Nat
      /\ \A k \in 1 .. s : sent[k] \in Payloads
  BY CountType
<1>4. writing = F /\ s \in 1 .. s /\ m \in Payloads
  <2>1. sent # <<>> /\ writing = F
    BY <1>1 DEF BufferInv
  <2>2. s # 0
    BY <2>1, EmptySeq, CountType
  <2> QED BY <1>3, <2>1, <2>2
<1>5. F \in Seq(Chars) /\ Len(F) \in Nat /\ n \in 0 .. Len(F) /\ n \in 0 .. Len(F) - 1
  BY <1>2, <1>4, CharsType, LenProperties
<1>6. p \in Seq(Chars)
  BY <1>5, Cut
<1>7. Len(delivered) < s
  <2>1. Data(r) # <<>>
    BY <1>1, InFlightType, DataType, ConcatEqualIffEmpty DEF Data, InFlight
  <2> QED BY <2>1, StreamPending
<1>8. PICK g \in Seq(Chars) : /\ f[s] = f[s - 1] \o (g \o F)
                              /\ Ends(g \o F) = {Len(g) + Len(m)}
  BY <1>4 DEF Frames, FrameAt
<1> PICK q : q = g \o p
  OBVIOUS
<1> PICK h : h = [f EXCEPT ![s] = f[s - 1] \o (q \o F)]
  OBVIOUS
<1>9. q \in Seq(Chars) /\ q \o F \in Seq(Chars) /\ Ends(q \o F) = {Len(q) + Len(m)}
  <2>1. Ends(g \o SubSeq(m \o Delimiter, 1, n)) = {}
    BY <1>4, <1>5, <1>8, EndsOfCut
  <2>2. q \in Seq(Chars) /\ Ends(q) = {}
    BY <1>6, <2>1, ConcatProperties
  <2> QED BY <1>4, <1>5, <2>2, EndsOfFrame, ConcatProperties
<1>10. /\ f \in [0 .. s -> Seq(Chars)] /\ s \in 0 .. s /\ s - 1 \in 0 .. s
       /\ f[s - 1] \in Seq(Chars) /\ f[s - 1] \o (q \o F) \in Seq(Chars)
       /\ \A j, k \in 0 .. s : j <= k => IsPrefix(f[j], f[k])
  <2>1. f \in [0 .. s -> Seq(Chars)] /\ \A j, k \in 0 .. s : j <= k => IsPrefix(f[j], f[k])
    BY DEF Frames
  <2>2. s \in 0 .. s /\ s - 1 \in 0 .. s
    BY <1>4
  <2>3. f[s - 1] \in Seq(Chars)
    BY <2>1, <2>2
  <2> QED BY <1>9, <2>1, <2>2, <2>3, ConcatProperties
<1> HIDE DEF F
<1>11. /\ h \in [0 .. s -> Seq(Chars)] /\ h[s] = f[s - 1] \o (q \o F)
       /\ \A k \in 0 .. s - 1 : h[k] = f[k] /\ k \in 0 .. s
  <2>1. \A k \in 0 .. s - 1 : k \in 0 .. s /\ k # s
    BY <1>3
  <2> QED BY <1>10, <2>1
<1>12. \A j, k \in 0 .. s : j <= k => IsPrefix(h[j], h[k])
  <2> SUFFICES ASSUME NEW j \in 0 .. s, NEW k \in 0 .. s, j <= k
               PROVE  IsPrefix(h[j], h[k])
    OBVIOUS
  <2>1. CASE k <= s - 1
    <3>1. j \in 0 .. s - 1 /\ k \in 0 .. s - 1
      BY <1>3, <2>1
    <3> QED BY <1>10, <1>11, <3>1
  <2>2. CASE j <= s - 1 /\ k = s
    <3>1. j \in 0 .. s - 1 /\ s - 1 \in 0 .. s /\ j <= s - 1
      BY <1>3, <1>10, <2>2
    <3>2. IsPrefix(f[j], f[s - 1]) /\ f[j] \in Seq(Chars)
      BY <1>10, <3>1
    <3>3. IsPrefix(f[s - 1], f[s - 1] \o (q \o F))
      BY <1>9, <1>10, PrefixOfConcat
    <3>4. IsPrefix(f[j], f[s - 1] \o (q \o F))
      <4> PICK u : u = f[s - 1] \o (q \o F)
        OBVIOUS
      <4>1. /\ f[j] \in Seq(Chars) /\ f[s - 1] \in Seq(Chars) /\ u \in Seq(Chars)
            /\ IsPrefix(f[j], f[s - 1]) /\ IsPrefix(f[s - 1], u)
        BY <1>10, <3>2, <3>3
      <4> QED BY <4>1, PrefixTransitive
    <3> QED BY <1>11, <2>2, <3>1, <3>4
  <2>3. CASE j = s /\ k = s
    BY <1>10, <1>11, <2>3, PrefixReflexive
  <2> QED BY <1>3, <2>1, <2>2, <2>3
<1>13. \A k \in 1 .. s : FrameAt(h, B \cup {s}, k)'
  <2>1. ASSUME NEW k \in 1 .. s - 1 PROVE FrameAt(h, B \cup {s}, k)'
    <3>1. k \in 0 .. s - 1 /\ k - 1 \in 0 .. s - 1 /\ k \in 1 .. s
      BY <1>3
    <3>2. h[k] = f[k] /\ h[k - 1] = f[k - 1] /\ sent' = sent /\ delivered' = delivered
      BY <1>1, <1>11, <3>1
    <3>3. FrameAt(f, B, k)
      BY <3>1 DEF Frames
    <3> QED BY <3>2, <3>3 DEF FrameAt
  <2>2. FrameAt(h, B \cup {s}, s)'
    <3>1. ~(s <= Len(delivered)) /\ s - 1 \in 0 .. s - 1
      BY <1>3, <1>4, <1>7
    <3>2. h[s] = h[s - 1] \o (q \o (sent'[s] \o Delimiter))
      BY <1>1, <1>11, <3>1 DEF F
    <3>3. Ends(q \o (sent'[s] \o Delimiter)) = {Len(q) + Len(sent'[s])}
      BY <1>1, <1>9 DEF F
    <3> QED BY <1>1, <1>9, <3>1, <3>2, <3>3 DEF FrameAt
  <2>3. \A k \in 1 .. s : k \in 1 .. s - 1 \/ k = s
    BY <1>3
  <2> QED BY <2>1, <2>2, <2>3
<1>14. B \cup {s} \in SUBSET (1 .. s) /\ Cardinality(B \cup {s}) <= parts + 1
  <2>1. B \in SUBSET (1 .. s) /\ Cardinality(B) <= parts
    BY DEF Frames
  <2>2. IsFiniteSet(B)
    <3>1. IsFiniteSet(1 .. s)
      BY <1>3, FS_Interval
    <3> QED BY <2>1, <3>1, FS_Subset
  <2>3. Cardinality(B \cup {s}) = IF s \in B THEN Cardinality(B) ELSE Cardinality(B) + 1
    BY <2>2, FS_AddElement
  <2>4. Cardinality(B) \in Nat
    BY <2>2, FS_CardinalityType
  <2>5. Cardinality(B \cup {s}) <= parts + 1
    BY <1>3, <2>1, <2>3, <2>4
  <2> QED BY <1>4, <2>1, <2>5
<1>15. Frames(h, B \cup {s})'
  <2>1. Len(delivered') <= s /\ Len(sent') = s
    BY <1>1, <1>3, <1>7
  <2> QED BY <1>1, <1>11, <1>12, <1>13, <1>14, <2>1 DEF Frames
<1>16. h[Len(delivered)] \o Data(r)' = h[s]
  <2> DEFINE x == f[Len(delivered)]
             y == f[s - 1]
             a == sockBuffer[r]
  <2>1. /\ a \in Seq(Chars) /\ message \in Seq(Chars) /\ wire \in Seq(Chars)
        /\ Len(delivered) \in 0 .. s /\ Len(delivered) \in 0 .. s - 1
    BY <1>3, <1>7, DataType, InFlightType
  <2>2. /\ x \in Seq(Chars) /\ y \in Seq(Chars) /\ F \in Seq(Chars) /\ g \in Seq(Chars)
    BY <1>5, <1>6, <1>10, <2>1, ConcatProperties DEF F
  <2>3. x \o (a \o (message \o (wire \o F))) = y \o (g \o F)
    BY <1>1, <1>4, <1>8 DEF Carried, Data, InFlight, F
  <2>4. Data(r)' = a \o (message \o ((wire \o p) \o F))
    BY <1>1, <1>2, <1>4 DEF Data, InFlight, F
  <2>5. h[s] = y \o ((g \o p) \o F) /\ h[Len(delivered)] = x
    BY <1>11, <2>1
  <2> HIDE DEF x, y, a
  <2>6. /\ x \in Text /\ a \in Text /\ message \in Text /\ wire \in Text
        /\ y \in Text /\ g \in Text /\ F \in Text /\ p \in Text
        /\ Cat(x, Cat(a, Cat(message, Cat(wire, F)))) = Cat(y, Cat(g, F))
    BY <1>6, <2>1, <2>2, <2>3 DEF Cat, Text
  <2>7. Cat(x, Cat(a, Cat(message, Cat(Cat(wire, p), F)))) = Cat(y, Cat(Cat(g, p), F))
    <3> DEFINE u == Cat(x, Cat(a, Cat(message, wire)))
               v == Cat(y, g)
    <3>1. u \in Text /\ \A d \in Text : Cat(x, Cat(a, Cat(message, Cat(wire, d)))) = Cat(u, d)
      <4>1. x \in Text /\ a \in Text /\ message \in Text /\ wire \in Text
        BY <2>6
      <4> QED BY <4>1, InFront
    <3>2. v \in Text /\ \A d \in Text : Cat(y, Cat(g, d)) = Cat(v, d)
      <4>1. y \in Text /\ g \in Text
        BY <2>6
      <4> QED BY <4>1, CatLaws
    <3> HIDE DEF u, v
    <3>3. u = v
      BY <2>6, <3>1, <3>2, CatLaws
    <3>4. Cat(Cat(wire, p), F) = Cat(wire, Cat(p, F)) /\ Cat(Cat(g, p), F) = Cat(g, Cat(p, F))
      BY <2>6, CatLaws
    <3>5. Cat(p, F) \in Text
      BY <2>6, CatLaws
    <3> QED BY <3>1, <3>2, <3>3, <3>4, <3>5
  <2>8. x \o (a \o (message \o ((wire \o p) \o F))) = y \o ((g \o p) \o F)
    BY <2>7 DEF Cat
  <2> QED BY <2>4, <2>5, <2>8
<1>17. Carried(r, h)'
  BY <1>1, <1>10, <1>11, <1>16, PrefixReflexive DEF Carried
<1> QED BY <1>15, <1>17 DEF StreamInv

(* A receive returns the next message, with what was sent of it before.    *)
LEMMA StreamReturn ==
  ASSUME BufferInv, BufferInv', NEW r \in Readers, reader = r, StreamInv(r), Return
  PROVE  /\ StreamInv(r)'
         /\ Len(delivered) < Len(sent)
         /\ parts = 0 => delivered' = Append(delivered, sent[Len(delivered) + 1]) /\ sent' = sent
<1>1. PICK f, B : Frames(f, B) /\ Carried(r, f)
  BY DEF StreamInv
<1>2. /\ reader = r /\ Complete(message) /\ sockBuffer[r] = <<>> /\ r \in Readers
      /\ delivered' = Append(delivered, CurrentMessage(message))
      /\ sockBuffer' = [sockBuffer EXCEPT ![r] = @ \o Rest(message)]
      /\ message' = <<>> /\ UNCHANGED <<parts, conn, wire, writing, sent>>
  BY SocketAssumption DEF Return, BufferInv, TypeOK
<1>3. PICK d : d = Len(delivered)
  OBVIOUS
<1>4. PICK s : s = Len(sent)
  OBVIOUS
<1>5. PICK m : m = sent[d + 1]
  OBVIOUS
<1>6. /\ s \in Nat /\ d \in Nat /\ parts \in Nat /\ delivered \in Seq(Seq(Chars))
      /\ \A k \in 1 .. s : sent[k] \in Payloads
  BY <1>3, <1>4, CountType
<1>7. Data(r) = InFlight /\ IsPrefix(message, Data(r)) /\ Data(r) # <<>> /\ Data(r) \in Seq(Chars)
  <2>1. Data(r) = InFlight
    BY <1>2, InFlightType, ConcatEmptySeq DEF Data
  <2>2. IsPrefix(message, InFlight)
    BY InFlightType, PrefixOfConcat DEF InFlight
  <2>3. message # <<>>
    BY <1>2, EmptyIncomplete
  <2>4. InFlight # <<>>
    BY <2>3, InFlightType, ConcatEqualIffEmpty DEF InFlight
  <2> QED BY <2>1, <2>2, <2>4, InFlightType
<1>8. d < s
  BY <1>1, <1>2, <1>3, <1>4, <1>7, StreamPending
<1>9. d \in 0 .. s /\ d + 1 \in 1 .. s /\ d + 1 \in 0 .. s /\ s \in 0 .. s /\ (d + 1) - 1 = d
      /\ d <= s /\ d + 1 <= s
  BY <1>6, <1>8
<1>10. PICK g \in Seq(Chars) : /\ f[d + 1] = f[d] \o (g \o (m \o Delimiter))
                               /\ Ends(g \o (m \o Delimiter)) = {Len(g) + Len(m)}
                               /\ d + 1 \notin B => g = <<>>
  BY <1>1, <1>4, <1>5, <1>9 DEF Frames, FrameAt
<1>11. PICK h : h = g \o m
  OBVIOUS
<1>12. PICK F : F = h \o Delimiter
  OBVIOUS
<1>13. /\ m \in Seq(Chars) /\ h \in Seq(Chars) /\ F \in Seq(Chars) /\ Delimiter \in Seq(Chars)
       /\ F = g \o (m \o Delimiter) /\ Ends(F) = {Len(h)}
  <2>1. m \in Payloads
    BY <1>5, <1>6, <1>9
  <2>2. m \in Seq(Chars) /\ Delimiter \in Seq(Chars)
    BY <2>1, CharsType
  <2>3. h \in Seq(Chars) /\ Len(h) = Len(g) + Len(m)
    BY <1>11, <2>2, ConcatProperties
  <2>4. (g \o m) \o Delimiter = g \o (m \o Delimiter)
    BY <2>2, Assoc
  <2>5. F \in Seq(Chars)
    BY <1>12, <2>2, <2>3, ConcatProperties
  <2> QED BY <1>10, <1>11, <1>12, <2>2, <2>3, <2>4, <2>5
<1>14. /\ f[d] \in Seq(Chars) /\ f[s] \in Seq(Chars) /\ f[d + 1] = f[d] \o F
       /\ IsPrefix(f[d], f[s]) /\ IsPrefix(f[d + 1], f[s])
  BY <1>1, <1>4, <1>9, <1>10, <1>13 DEF Frames
<1>15. PICK z \in Seq(Chars) : f[s] = f[d] \o z
  <2> DEFINE x == f[d]
             y == f[s]
  <2>1. x \in Seq(Chars) /\ y \in Seq(Chars) /\ IsPrefix(x, y)
    BY <1>14
  <2> HIDE DEF x, y
  <2>2. \E z \in Seq(Chars) : y = x \o z
    BY <2>1, PrefixIsConcat
  <2> QED BY <2>2 DEF x, y
<1>16. IsPrefix(F, z) /\ IsPrefix(message, z)
  <2>1. IsPrefix(f[d] \o F, f[d] \o z)
    BY <1>14, <1>15
  <2>2. IsPrefix(f[d] \o Data(r), f[d] \o z)
    BY <1>1, <1>3, <1>4, <1>15 DEF Carried
  <2>3. IsPrefix(F, z)
    BY <1>13, <1>14, <2>1, PrefixAfter
  <2>4. IsPrefix(Data(r), z)
    BY <1>7, <1>14, <2>2, PrefixAfter
  <2>5. IsPrefix(message, z)
    BY <1>7, <2>4, InFlightType, PrefixTransitive
  <2> QED BY <2>3, <2>5
<1>17. CurrentMessage(message) = h /\ message = F \o Rest(message) /\ Rest(message) \in Seq(Chars)
  <2>1. message \in Seq(Chars)
    BY InFlightType
  <2>2. /\ h \in Seq(Chars) /\ Ends(h \o Delimiter) = {Len(h)}
        /\ IsPrefix(h \o Delimiter, z) /\ IsPrefix(message, z) /\ Complete(message)
    BY <1>2, <1>12, <1>13, <1>16
  <2>3. CurrentMessage(message) = h /\ message = (h \o Delimiter) \o Rest(message)
    BY <2>1, <2>2, FrameRead
  <2> QED BY <1>2, <1>12, <2>1, <2>3, RestType
<1>18. Data(r) = F \o Data(r)' /\ Data(r)' \in Seq(Chars)
  <2>1. Data(r)' = Rest(message) \o (wire \o writing)
    <3>1. sockBuffer'[r] = <<>> \o Rest(message)
      BY <1>2 DEF BufferInv, TypeOK
    <3>2. sockBuffer'[r] = Rest(message)
      BY <1>17, <3>1, ConcatEmptySeq
    <3>3. InFlight' = wire \o writing
      BY <1>2, InFlightType, ConcatEmptySeq DEF InFlight
    <3> QED BY <3>2, <3>3 DEF Data
  <2>2. Data(r) = (F \o Rest(message)) \o (wire \o writing)
    BY <1>7, <1>17 DEF InFlight
  <2>3. wire \o writing \in Seq(Chars)
    BY InFlightType
  <2>4. (F \o Rest(message)) \o (wire \o writing) = F \o (Rest(message) \o (wire \o writing))
    <3>1. F \in Seq(Chars) /\ Rest(message) \in Seq(Chars)
      BY <1>13, <1>17
    <3> QED BY <2>3, <3>1, Assoc, SMTT(60)
  <2>5. Rest(message) \o (wire \o writing) \in Seq(Chars)
    BY <1>17, <2>3, ConcatProperties
  <2> QED BY <2>1, <2>2, <2>4, <2>5
<1>19. /\ delivered' = Append(delivered, h) /\ Len(delivered') = d + 1 /\ delivered'[d + 1] = h
       /\ \A k \in 1 .. d : delivered'[k] = delivered[k]
  BY <1>2, <1>3, <1>6, <1>13, <1>17, AppendProperties
<1>20. Frames(f, B)'
  <2>1. ASSUME NEW k \in 1 .. s PROVE FrameAt(f, B, k)'
    <3>1. FrameAt(f, B, k)
      BY <1>1, <1>4 DEF Frames
    <3>2. CASE k <= d
      <4>1. k \in 1 .. d /\ k <= Len(delivered)
        BY <1>3, <1>6, <3>2
      <4> QED BY <1>2, <1>19, <3>1, <4>1 DEF FrameAt
    <3>3. CASE k = d + 1
      BY <1>2, <1>5, <1>9, <1>10, <1>11, <1>19, <3>3 DEF FrameAt
    <3>4. CASE ~(k <= d + 1)
      <4>1. ~(k <= Len(delivered'))
        BY <1>19, <3>4
      <4> QED BY <1>2, <3>1, <4>1 DEF FrameAt
    <3> QED BY <1>6, <3>2, <3>3, <3>4
  <2>2. Len(delivered') <= s /\ Len(sent') = s /\ sent' = sent /\ parts' = parts
    BY <1>2, <1>4, <1>9, <1>19
  <2> QED BY <1>1, <1>4, <2>1, <2>2 DEF Frames
<1>21. f[d] \o Data(r) = f[d + 1] \o Data(r)'
  <2>1. f[d] \in Seq(Chars) /\ F \in Seq(Chars) /\ Data(r)' \in Seq(Chars)
    BY <1>13, <1>14, <1>18
  <2>2. (f[d] \o F) \o Data(r)' = f[d] \o (F \o Data(r)')
    BY <2>1, Assoc, ZenonT(30)
  <2> QED BY <1>14, <1>18, <2>2
<1>22. Carried(r, f)'
  BY <1>1, <1>2, <1>3, <1>19, <1>21 DEF Carried
<1>23. parts = 0 => delivered' = Append(delivered, sent[Len(delivered) + 1]) /\ sent' = sent
  <2> SUFFICES ASSUME parts = 0
               PROVE  delivered' = Append(delivered, sent[Len(delivered) + 1]) /\ sent' = sent
    OBVIOUS
  <2>1. B = {}
    <3>1. IsFiniteSet(1 .. s)
      BY <1>6, FS_Interval
    <3>2. IsFiniteSet(B) /\ Cardinality(B) <= 0
      BY <1>1, <1>4, <3>1, FS_Subset DEF Frames
    <3>3. Cardinality(B) \in Nat
      BY <3>2, FS_CardinalityType
    <3>4. Cardinality(B) = 0
      BY <3>2, <3>3
    <3> QED BY <3>2, <3>4, FS_EmptySet
  <2>2. g = <<>>
    BY <1>10, <2>1
  <2>3. h = m
    BY <1>11, <1>13, <2>2, ConcatEmptySeq
  <2> QED BY <1>2, <1>3, <1>5, <1>19, <2>3
<1> QED BY <1>3, <1>4, <1>8, <1>20, <1>22, <1>23 DEF StreamInv

(* Unless bytes were mixed, one object has all that waits, and receives.    *)
Single(r) ==
    /\ reader \in {r, NoReader}
    /\ \A q \in Readers \ {r} : sockBuffer[q] = <<>>
    /\ StreamInv(r)

MixInv == mixed \/ \E r \in Readers : Single(r)

LEMMA MixInit == Init => MixInv
<1> SUFFICES ASSUME Init PROVE MixInv
  OBVIOUS
<1>1. PICK r \in Readers : TRUE
  BY SocketAssumption
<1>2. reader = NoReader /\ \A q \in Readers : sockBuffer[q] = <<>>
  BY DEF Init
<1> QED BY <1>1, <1>2, StreamInit DEF MixInv, Single

(* Any object may begin a receive; if it is not the one that has what      *)
(* waits, nothing does.                                                    *)
LEMMA MixStart ==
  ASSUME BufferInv, BufferInv', MixInv, NEW q \in Readers, Start(q)
  PROVE  MixInv'
<1>1. CASE \E p \in Readers \ {q} : Waiting(p)
  BY <1>1, Zenon DEF Start, MixInv
<1>2. CASE ~(\E p \in Readers \ {q} : Waiting(p)) /\ ~mixed
  <2>1. \A p \in Readers \ {q} : sockBuffer[p] = <<>>
    BY <1>2 DEF Waiting
  <2>2. PICK r \in Readers : Single(r)
    BY <1>2, Zenon DEF MixInv
  <2>3. StreamInv(q)
    <3>1. CASE r = q
      BY <2>2, <3>1 DEF Single
    <3>2. CASE r # q
      <4>1. sockBuffer[q] = <<>> /\ sockBuffer[r] = <<>>
        BY <2>1, <2>2, <3>2 DEF Single
      <4>2. Data(q) = Data(r)
        BY <4>1 DEF Data
      <4>3. PICK f, B : Frames(f, B) /\ Carried(r, f)
        BY <2>2 DEF Single, StreamInv
      <4>4. Carried(q, f)
        BY <4>2, <4>3 DEF Carried
      <4> QED BY <4>3, <4>4 DEF StreamInv
    <3> QED BY <3>1, <3>2
  <2>4. StreamInv(q)'
    BY <2>3, StreamOther
  <2>5. reader' = q /\ \A p \in Readers \ {q} : sockBuffer'[p] = sockBuffer[p]
    BY DEF Start, BufferInv, TypeOK
  <2>6. Single(q)'
    BY <2>1, <2>4, <2>5 DEF Single
  <2> QED BY <2>6 DEF MixInv
<1>3. CASE mixed
  BY <1>3, Zenon DEF Start, MixInv
<1> QED BY <1>1, <1>2, <1>3

(* A connection begins as it did the first time if nothing waits.          *)
LEMMA MixConnect ==
  ASSUME BufferInv, Connect
  PROVE  MixInv'
<1>1. CASE \E p \in Readers : Waiting(p)
  BY <1>1, Zenon DEF Connect, MixInv
<1>2. CASE ~\E p \in Readers : Waiting(p)
  <2>1. PICK r \in Readers : TRUE
    BY SocketAssumption
  <2>2. \A q \in Readers : sockBuffer[q] = <<>>
    BY <1>2 DEF Waiting
  <2>3. /\ conn' = "open" /\ wire' = <<>> /\ writing' = <<>> /\ message' = <<>>
        /\ reader' = NoReader /\ sockBuffer' = sockBuffer
        /\ sent' = <<>> /\ delivered' = <<>> /\ parts' = 0
    BY DEF Connect, BufferInv
  <2>4. StreamInv(r)'
    <3> DEFINE f == [k \in 0 .. 0 |-> <<>>]
    <3>1. /\ <<>> \in Seq(Chars) /\ <<>> \o <<>> = <<>> /\ Len(<<>>) = 0
          /\ Len(sent') = 0 /\ Len(delivered') = 0 /\ Data(r)' = <<>>
      BY <2>2, <2>3, EmptySeq, ConcatEmptySeq DEF Data, InFlight
    <3>2. 0 .. Len(sent') = {0} /\ 1 .. Len(sent') = {}
      BY <3>1
    <3>3. IsPrefix(<<>>, <<>>)
      BY <3>1, PrefixReflexive
    <3>4. Cardinality({}) <= parts'
      BY <2>3, FS_EmptySet
    <3>5. Frames(f, {})'
      BY <3>1, <3>2, <3>3, <3>4 DEF Frames
    <3>6. Carried(r, f)'
      BY <3>1, <3>3 DEF Carried
    <3> QED BY <3>5, <3>6 DEF StreamInv
  <2>5. Single(r)'
    BY <2>2, <2>3, <2>4 DEF Single
  <2> QED BY <2>5 DEF MixInv
<1> QED BY <1>1, <1>2

LEMMA MixStep ==
  ASSUME Framed, MaxParts = 0 \/ Unmistaken, BufferInv, MixInv, [Next]_vars
  PROVE  MixInv'
<1>1. BufferInv'
  BY BufferInvNext
<1>2. CASE \E q \in Readers : Start(q)
  BY <1>1, <1>2, MixStart
<1>3. CASE Connect
  BY <1>3, MixConnect
<1>4. CASE Write \/ SendAll \/ SendPart \/ PeerLeaves \/ Recv \/ RecvFails \/ Return \/ Close
           \/ UNCHANGED vars
  <2>1. mixed' = mixed
    BY <1>4 DEF Write, SendAll, SendPart, PeerLeaves, Recv, RecvFails, Return, Close, vars
  <2>2. CASE mixed
    BY <2>1, <2>2, Zenon DEF MixInv
  <2>3. CASE ~mixed
    <3>1. PICK r \in Readers : Single(r)
      BY <2>3, Zenon DEF MixInv
    <3>2. reader' \in {r, NoReader} /\ \A q \in Readers \ {r} : sockBuffer'[q] = <<>>
      BY <1>4, <3>1 DEF Single, Write, SendAll, SendPart, PeerLeaves, Recv, RecvFails, Return,
         Close, vars, BufferInv, TypeOK
    <3>3. StreamInv(r)
      BY <3>1 DEF Single
    <3>4. StreamInv(r)'
      <4>1. CASE Write
        BY <1>1, <3>3, <4>1, StreamWrite
      <4>2. CASE Return
        <5>1. reader = r
          BY <3>1, <4>2 DEF Single, Return
        <5> QED BY <1>1, <3>3, <4>2, <5>1, StreamReturn
      <4>3. CASE SendPart
        <5>1. Unmistaken
          BY <4>3 DEF SendPart, BufferInv, TypeOK
        <5> QED BY <1>1, <3>3, <4>3, <5>1, StreamSendPart
      <4>4. CASE SendAll \/ PeerLeaves \/ Recv \/ RecvFails \/ Close
        BY <1>1, <3>3, <4>4, StreamOther
      <4>5. CASE UNCHANGED vars
        BY <3>3, <4>5 DEF vars, StreamInv, Frames, FrameAt, Carried, Data, InFlight
      <4> QED BY <1>4, <4>1, <4>2, <4>3, <4>4, <4>5
    <3>5. Single(r)'
      BY <3>2, <3>4 DEF Single
    <3> QED BY <3>5 DEF MixInv
  <2> QED BY <2>2, <2>3
<1> QED BY <1>2, <1>3, <1>4 DEF Next, Receive

LEMMA StreamTails ==
  ASSUME BufferInv, NEW r \in Readers, StreamInv(r)
  PROVE  MessageIsTail
<1>1. PICK f, B : Frames(f, B)
  BY DEF StreamInv
<1>2. /\ Len(sent) \in Nat /\ Len(delivered) \in Nat /\ Len(delivered) <= Len(sent)
      /\ \A k \in 1 .. Len(sent) : sent[k] \in Seq(Chars)
  BY <1>1, CountType, CharsType DEF Frames
<1>3. ASSUME NEW k \in 1 .. Len(delivered)
      PROVE  /\ k <= Len(sent) /\ IsSuffix(sent[k], delivered[k])
             /\ k \notin B => delivered[k] = sent[k]
  <2>1. k \in 1 .. Len(sent) /\ k <= Len(sent) /\ k <= Len(delivered)
    BY <1>2
  <2>2. PICK g \in Seq(Chars) : delivered[k] = g \o sent[k] /\ (k \notin B => g = <<>>)
    BY <1>1, <2>1 DEF Frames, FrameAt
  <2> QED BY <1>2, <2>1, <2>2, SuffixOfConcat, ConcatEmptySeq
<1> DEFINE T == {k \in 1 .. Len(delivered) : delivered[k] # sent[k]}
<1>4. Cardinality(T) <= parts
  <2>1. IsFiniteSet(B) /\ Cardinality(B) <= parts
    <3>1. IsFiniteSet(1 .. Len(sent))
      BY <1>2, FS_Interval
    <3> QED BY <1>1, <3>1, FS_Subset DEF Frames
  <2>2. T \subseteq B
    BY <1>3
  <2>3. IsFiniteSet(T) /\ Cardinality(T) <= Cardinality(B)
    BY <2>1, <2>2, FS_Subset
  <2>4. Cardinality(T) \in Nat /\ Cardinality(B) \in Nat /\ parts \in Nat
    BY <2>1, <2>3, FS_CardinalityType, CountType
  <2> QED BY <2>1, <2>3, <2>4
<1>5. TypeOK
  BY DEF BufferInv
<1> QED BY <1>3, <1>4, <1>5 DEF MessageIsTail

LEMMA MixTails ==
  ASSUME BufferInv, MixInv
  PROVE  MessageIsTail
<1>1. CASE mixed
  <2>1. TypeOK
    BY DEF BufferInv
  <2> QED BY <1>1, <2>1, Zenon DEF MessageIsTail
<1>2. CASE ~mixed
  BY <1>2, StreamTails DEF MixInv, Single
<1> QED BY <1>1, <1>2

LEMMA MixInductive ==
  ASSUME Framed, MaxParts = 0 \/ Unmistaken
  PROVE  /\ Init => BufferInv /\ MixInv
         /\ BufferInv /\ MixInv /\ [Next]_vars => BufferInv' /\ MixInv'
  BY BufferInvInit, BufferInvNext, MixInit, MixStep

(* "huge message tests when write() doesn't write everything": whichever   *)
(* objects receive, every message arrives at the end of what is returned   *)
(* in its place, in order, however far the peer writes ahead, however the  *)
(* stream is cut into receives, and whatever was sent in part and again;   *)
(* at most one message for each cut send has something in front - as long  *)
(* as no bytes wait in another object's sockBuffer, or from a connection   *)
(* that had the number before.                                             *)
THEOREM MessagesAreTails ==
  ASSUME Framed, Unmistaken
  PROVE  Spec => []MessageIsTail
<1>1. BufferInv /\ MixInv => MessageIsTail
  BY MixTails
<1> QED BY <1>1, MixInductive, PTL DEF Spec

LEMMA StepOfChannel ==
  ASSUME BufferInv, BufferInv', MixInv, [Next]_vars
  PROVE  [Channel!Next]_<<IF Intact THEN sent ELSE <<>>, IF Intact THEN delivered ELSE <<>> >>
<1>1. CASE ~Intact'
  BY <1>1 DEF Channel!Next, Channel!Restart
<1>2. CASE Connect
  <2>1. sent' = <<>> /\ delivered' = <<>>
    BY <1>2 DEF Connect
  <2> QED BY <2>1 DEF Channel!Next, Channel!Restart
<1>3. CASE Intact' /\ ~Connect
  <2>1. Intact
    <3>1. parts = 0
      <4>1. parts \in Nat /\ parts' = 0 /\ parts' \in {parts, parts + 1}
        BY <1>3, CountType DEF Intact, Next, Receive, Write, SendAll, SendPart, PeerLeaves, Start,
           Recv, RecvFails, Return, Close, vars
      <4> QED BY <4>1
    <3>2. ~mixed
      <4>1. \/ mixed' = mixed
            \/ mixed' = (mixed \/ \E r \in Readers : \E q \in Readers \ {r} : Waiting(q))
            \/ \E r \in Readers : mixed' = (mixed \/ \E q \in Readers \ {r} : Waiting(q))
        BY <1>3, Zenon DEF Next, Receive, Write, SendAll, SendPart, PeerLeaves, Start,
           Recv, RecvFails, Return, Close, vars
      <4> QED BY <1>3, <4>1, Zenon DEF Intact
    <3> QED BY <3>1, <3>2 DEF Intact
  <2>2. CASE Write
    BY <1>3, <2>1, <2>2 DEF Write, Channel!Next, Channel!Send
  <2>3. CASE Return
    <3>1. PICK r \in Readers : Single(r)
      BY <2>1, Zenon DEF MixInv, Intact
    <3>2. reader = r /\ StreamInv(r)
      BY <2>3, <3>1 DEF Single, Return
    <3>3. /\ Len(delivered) < Len(sent) /\ sent' = sent
          /\ delivered' = Append(delivered, sent[Len(delivered) + 1])
      BY <2>1, <2>3, <3>2, StreamReturn DEF Intact
    <3> QED BY <1>3, <2>1, <3>3 DEF Channel!Next, Channel!Deliver
  <2>4. CASE ~Write /\ ~Return
    <3>1. UNCHANGED <<sent, delivered>>
      BY <1>3, <2>4 DEF Next, Receive, SendAll, SendPart, PeerLeaves, Start, Recv, RecvFails,
         Close, vars
    <3> QED BY <1>3, <2>1, <3>1
  <2> QED BY <2>2, <2>3, <2>4
<1> QED BY <1>1, <1>2, <1>3

(* "short message tests when two messages get into one recieve buffer":    *)
(* each connection given the descriptor is a channel of messages, however  *)
(* far the peer writes ahead and whichever objects receive, until a send   *)
(* is cut or bytes wait in another object's sockBuffer.                    *)
THEOREM ConnectionsImplementChannel ==
  ASSUME Framed, MaxParts = 0 \/ Unmistaken
  PROVE  Spec => ImplementsChannel
<1>1. Init => Channel!Init
  BY DEF Init, Channel!Init
<1>2. BufferInv /\ BufferInv' /\ MixInv /\ [Next]_vars =>
         [Channel!Next]_<<IF Intact THEN sent ELSE <<>>, IF Intact THEN delivered ELSE <<>> >>
  BY StepOfChannel
<1> QED BY <1>1, <1>2, MixInductive, PTL DEF Spec, ImplementsChannel, Channel!Spec

=============================================================================
