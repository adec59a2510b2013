---------------------------- MODULE ServerProofs ----------------------------
(***************************************************************************)
(* The server for any number of clients, commands, connections and         *)
(* libraries.                                                              *)
(*                                                                         *)
(* Three invariants, each inductive: DescriptorInv, of the threads and     *)
(* their descriptors; ReloadInv, of a reload from its first step to its    *)
(* last, for reloads that come one at a time; CallState, of the threads    *)
(* on their way into the handler while such a reload goes on.              *)
(***************************************************************************)
EXTENDS Server, SequenceTheorems, FiniteSetTheorems, TLAPS

-----------------------------------------------------------------------------
(* Descriptors *)

LEMMA LeastOne ==
  ASSUME NEW S \in SUBSET Nat, S # {}
  PROVE  \E x \in S : \A y \in S : x <= y
<1> DEFINE R == OpToRel(<, Nat)
<1>1. \A x, y \in Nat : <<x, y>> \in R <=> x < y
  BY DEF OpToRel
<1>2. IsWellFoundedOn(R, Nat)
  BY NatLessThanWellFounded
<1> HIDE DEF R
<1>3. PICK x \in S : \A y \in S : ~ (<<y, x>> \in R)
  BY <1>2, WFMin
<1>4. \A y \in S : x \in Nat /\ y \in Nat /\ ~ (y < x)
  BY <1>1, <1>3
<1> QED BY <1>4

(* The threads there are besides c's have fewer descriptors than there are *)
(* in Fds, so one is free: the lowest.                                     *)
LEMMA NewFdIsFree ==
  ASSUME OwnDescriptor, NEW c \in Clients, CanAccept(c)
  PROVE  NewFd \in Fds \ open
<1> DEFINE f == [d \in Clients |-> IF d = c THEN 3 ELSE fd[d]]
           T == {f[d] : d \in Clients}
           m == Cardinality(open)
           Free == (3 .. 3 + m) \ open
<1>1. IsFiniteSet(Clients) /\ Cardinality(Clients) \in Nat
  BY ServerAssumption, FS_CardinalityType
<1>2. f \in Surjection(Clients, T)
  BY DEF Surjection
<1>3. open \subseteq T
  <2>1. open = {3} \cup {fd[d] : d \in {e \in Clients : pc[e] # "away"}}
    BY DEF OwnDescriptor, CanAccept
  <2>2. 3 = f[c]
    OBVIOUS
  <2>3. \A d \in Clients : pc[d] # "away" => fd[d] = f[d]
    BY DEF CanAccept
  <2> QED BY <2>1, <2>2, <2>3
<1>4. IsFiniteSet(T) /\ Cardinality(T) <= Cardinality(Clients)
  <2> HIDE DEF f, T
  <2> QED BY <1>1, <1>2, FS_Surjection
<1>5. IsFiniteSet(open) /\ m \in Nat /\ m <= Cardinality(Clients)
  <2> HIDE DEF T
  <2>1. IsFiniteSet(open) /\ Cardinality(open) <= Cardinality(T)
    BY <1>3, <1>4, FS_Subset
  <2> QED BY <1>1, <1>4, <2>1, FS_CardinalityType
<1> HIDE DEF f, T, m
<1>6. Free # {} /\ Free \subseteq Nat
  <2>1. SUFFICES ASSUME 3 .. 3 + m \subseteq open PROVE FALSE
    BY <1>5
  <2>2. Cardinality(3 .. 3 + m) = m + 1
    BY <1>5, FS_Interval
  <2>3. Cardinality(3 .. 3 + m) <= m
    BY <1>5, <2>1, FS_Subset DEF m
  <2> QED BY <1>5, <2>2, <2>3
<1>7. PICK x \in Free : \A y \in Free : x <= y
  <2> HIDE DEF Free
  <2> QED BY <1>6, LeastOne
<1>8. x \in 3 .. 3 + m /\ x \notin open /\ 3 .. x - 1 \subseteq open
  BY <1>5, <1>7
<1>9. NewFd \in 3 .. 3 + m /\ NewFd \notin open
  BY <1>8 DEF NewFd, m
<1> QED BY <1>1, <1>5, <1>9 DEF Fds

(* closeAndDeleteSocket leaves a list of descriptors. *)
LEMMA RemoveFirstIsSeq ==
  ASSUME NEW S, NEW s \in Seq(S), NEW e \in S
  PROVE  RemoveFirst(Append(s, e), e) \in Seq(S)
<1> DEFINE t == Append(s, e)
           I == {i \in 1 .. Len(t) : t[i] = e}
<1>1. t \in Seq(S) /\ Len(t) \in Nat /\ Len(t) \in 1 .. Len(t) /\ t[Len(t)] = e
  BY AppendProperties, LenProperties
<1> HIDE DEF t
<1>2. I # {} /\ I \subseteq Nat /\ I \subseteq 1 .. Len(t)
  BY <1>1
<1>3. PICK i \in I : \A j \in I : i <= j
  <2> HIDE DEF I
  <2> QED BY <1>2, LeastOne
<1>4. Min(I) \in I
  BY <1>3 DEF Min
<1>5. RemoveFirst(t, e) = RemoveAt(t, Min(I))
  BY <1>1, <1>2 DEF RemoveFirst, SelectInSeq
<1>6. Min(I) \in 1 .. Len(t)
  BY <1>2, <1>4
<1> HIDE DEF I
<1>7. /\ SubSeq(t, 1, Min(I) - 1) \in Seq(S)
      /\ SubSeq(t, Min(I) + 1, Len(t)) \in Seq(S)
  <2>1. \A k \in 1 .. Len(t) : t[k] \in S
    BY <1>1
  <2>2. Min(I) - 1 \in Int /\ Min(I) + 1 \in Int /\ Len(t) \in Int
    BY <1>1, <1>6
  <2>3. /\ \A k \in 1 .. Min(I) - 1 : t[k] \in S
        /\ \A k \in Min(I) + 1 .. Len(t) : t[k] \in S
    BY <1>1, <1>6, <2>1
  <2> QED BY <2>2, <2>3, SubSeqProperties
<1>8. RemoveAt(t, Min(I)) \in Seq(S)
  BY <1>7, ConcatProperties DEF RemoveAt
<1> QED BY <1>5, <1>8 DEF t

(* The current handle is open, also between two reloads that race.         *)
HandleOpen == handle # NoLib => images[handle] >= 1
AwayWithout == \A c \in Clients : pc[c] = "away" => fd[c] = NoFd
DescriptorInv == OwnDescriptor /\ HandleOpen /\ AwayWithout

USE DEF Goto, Continue, Places, connectionVars, commandVars, reloadVars, handlerVars, callVars

LEMMA DescriptorsInit == Init => DescriptorInv
<1> SUFFICES ASSUME Init PROVE DescriptorInv
  OBVIOUS
<1>1. Cardinality(Clients) \in Nat
  BY ServerAssumption, FS_CardinalityType
<1>2. 3 \in Fds
  BY <1>1 DEF Fds
<1>3. socks \in Seq(Fds) /\ open \subseteq Fds
  BY <1>2 DEF Init
<1>4. /\ StartLib \in Libs /\ made \in Seq(Libs) /\ Len(made) = 1
      /\ made[1] = StartLib
  BY ServerAssumption DEF Init
<1>5. TypeOK
  BY <1>3, <1>4, ServerAssumption DEF Init, TypeOK
<1> QED BY <1>5, <1>4 DEF Init, DescriptorInv, OwnDescriptor, HandleOpen, AwayWithout

LEMMA AcceptKeepsDescriptors ==
  ASSUME DescriptorInv, NEW c \in Clients, Accept(c)
  PROVE  DescriptorInv'
<1> USE DEF DescriptorInv, HandleOpen, AwayWithout
<1>1. NewFd \in Fds \ open
  BY NewFdIsFree DEF Accept
<1> DEFINE new == NewFd
<1>2. /\ socks' = Append(socks, new) /\ open' = open \cup {new}
      /\ fd' = [fd EXCEPT ![c] = new] /\ new \in Fds \ open
      /\ pc' = [pc EXCEPT ![c] = "receive"] /\ pc[c] = "away" /\ main = "accept"
      /\ online' = online \cup {c} /\ bye' = [bye EXCEPT ![c] = FALSE]
      /\ UNCHANGED <<main, sent, reloadVars, handlerVars, callVars>>
  BY <1>1 DEF Accept, CanAccept
<1> HIDE DEF new
<1>3. TypeOK'
  <2>1. socks \in Seq(Fds) /\ new \in Fds /\ open \subseteq Fds
    BY <1>2 DEF OwnDescriptor, TypeOK
  <2>2. socks' \in Seq(Fds)
    BY <1>2, <2>1, AppendProperties
  <2>3. /\ fd' \in [Clients -> Fds \cup {NoFd}] /\ pc' \in [Clients -> Places]
        /\ bye' \in [Clients -> BOOLEAN]
    BY <1>2, <2>1 DEF OwnDescriptor, TypeOK, Places
  <2>4. open' \subseteq Fds /\ online' \subseteq Clients
    BY <1>2, <2>1 DEF OwnDescriptor, TypeOK
  <2> QED BY <1>2, <2>2, <2>3, <2>4 DEF OwnDescriptor, TypeOK, reloadVars, handlerVars
<1>4. OwnDescriptor'
  <2>1. /\ open = {3} \cup {fd[d] : d \in {e \in Clients : pc[e] # "away"}}
        /\ \A d \in Clients : pc[d] # "away" =>
              fd[d] \in open \ {3} /\ \A e \in Clients \ {d} : fd[e] # fd[d]
    BY <1>2 DEF OwnDescriptor
  <2>2. /\ \A d \in Clients : fd'[d] = IF d = c THEN new ELSE fd[d]
        /\ \A d \in Clients : pc'[d] = IF d = c THEN "receive" ELSE pc[d]
    BY <1>2 DEF OwnDescriptor, TypeOK
  <2>3. {d \in Clients : pc'[d] # "away"} = {d \in Clients : pc[d] # "away"} \cup {c}
    BY <2>2
  <2>4. open' = {3} \cup {fd'[d] : d \in {e \in Clients : pc'[e] # "away"}}
    BY <1>2, <2>1, <2>2, <2>3
  <2>5. \A d \in Clients : fd[d] # new
    <3>1. new \in Nat
      BY <1>2 DEF Fds
    <3> QED BY <1>2, <2>1, <3>1, ServerAssumption
  <2>6. \A d \in Clients : pc'[d] # "away" =>
          fd'[d] \in open' \ {3} /\ \A e \in Clients \ {d} : fd'[e] # fd'[d]
    <3> SUFFICES ASSUME NEW d \in Clients, pc'[d] # "away"
                 PROVE  fd'[d] \in open' \ {3} /\ \A e \in Clients \ {d} : fd'[e] # fd'[d]
      OBVIOUS
    <3>1. fd'[d] \in open' \ {3}
      BY <1>2, <2>1, <2>2
    <3>2. ASSUME NEW e \in Clients \ {d} PROVE fd'[e] # fd'[d]
      BY <1>2, <2>1, <2>2, <2>5
    <3> QED BY <3>1, <3>2
  <2> QED BY <1>2, <1>3, <2>4, <2>6 DEF OwnDescriptor
<1>5. AwayWithout'
  BY <1>2 DEF OwnDescriptor, TypeOK
<1> QED BY <1>2, <1>4, <1>5

(* Most steps leave the descriptors alone. *)
LEMMA DescriptorsUntouched ==
  ASSUME DescriptorInv, TypeOK', HandleOpen',
         main' = "accept" => main = "accept" /\ UNCHANGED <<open, fd>>,
         UNCHANGED fd,
         \A c \in Clients : pc'[c] = "away" <=> pc[c] = "away"
  PROVE  DescriptorInv'
<1> USE DEF DescriptorInv, AwayWithout
<1>1. AwayWithout'
  OBVIOUS
<1>2. OwnDescriptor'
  <2>1. CASE main' # "accept"
    BY <2>1 DEF OwnDescriptor
  <2>2. CASE main' = "accept"
    <3>1. {c \in Clients : pc'[c] # "away"} = {c \in Clients : pc[c] # "away"}
      OBVIOUS
    <3> QED BY <2>2, <3>1 DEF OwnDescriptor
  <2> QED BY <2>1, <2>2
<1> QED BY <1>1, <1>2

LEMMA ConnectingKeepsDescriptors ==
  ASSUME DescriptorInv, NEW c \in Clients,
         TurnAway(c) \/ HangUp(c)
  PROVE  DescriptorInv'
<1> USE DEF DescriptorInv, HandleOpen, OwnDescriptor
<1>1. CASE TurnAway(c)
  <2>1. NewFd \in Fds
    BY <1>1, NewFdIsFree DEF TurnAway
  <2>2. socks' \in Seq(Fds)
    BY <1>1, <2>1, RemoveFirstIsSeq DEF TurnAway, TypeOK
  <2>3. TypeOK'
    BY <1>1, <2>2 DEF TurnAway, TypeOK
  <2> QED BY <1>1, <2>3, DescriptorsUntouched DEF TurnAway
<1>2. CASE HangUp(c)
  <2>1. TypeOK'
    BY <1>2 DEF HangUp, TypeOK
  <2> QED BY <1>2, <2>1, DescriptorsUntouched DEF HangUp
<1> QED BY <1>1, <1>2

LEMMA StoppingKeepsDescriptors ==
  ASSUME DescriptorInv, AcceptFails \/ Exit
  PROVE  DescriptorInv'
<1> USE DEF DescriptorInv, HandleOpen, OwnDescriptor
<1>1. CASE AcceptFails
  <2>1. TypeOK'
    BY <1>1 DEF AcceptFails, TypeOK
  <2> QED BY <1>1, <2>1, DescriptorsUntouched DEF AcceptFails
<1>2. CASE Exit
  <2>1. TypeOK'
    BY <1>2 DEF Exit, TypeOK
  <2> QED BY <1>2, <2>1, DescriptorsUntouched DEF Exit
<1> QED BY <1>1, <1>2

LEMMA CloseKeepsDescriptors ==
  ASSUME DescriptorInv, NEW c \in Clients, Close(c)
  PROVE  DescriptorInv'
<1> USE DEF DescriptorInv, HandleOpen, AwayWithout
<1>1. TypeOK'
  BY DEF Close, OwnDescriptor, TypeOK
<1>2. /\ \A d \in Clients : fd'[d] = IF d = c THEN NoFd ELSE fd[d]
      /\ \A d \in Clients : pc'[d] = IF d = c THEN "away" ELSE pc[d]
      /\ open' = open \ {fd[c]} /\ pc[c] = "closing" /\ main' = main
  BY DEF Close, OwnDescriptor, TypeOK
<1>3. ASSUME main = "accept" PROVE OwnDescriptor'
  <2>1. /\ open = {3} \cup {fd[d] : d \in {e \in Clients : pc[e] # "away"}}
        /\ \A d \in Clients : pc[d] # "away" =>
              fd[d] \in open \ {3} /\ \A e \in Clients \ {d} : fd[e] # fd[d]
    BY <1>3 DEF OwnDescriptor
  <2>2. {d \in Clients : pc'[d] # "away"} = {d \in Clients : pc[d] # "away"} \ {c}
    BY <1>2
  <2>3. open' = {3} \cup {fd'[d] : d \in {e \in Clients : pc'[e] # "away"}}
    <3> DEFINE Others == {d \in Clients : pc[d] # "away"} \ {c}
    <3>1. fd[c] # 3 /\ \A d \in Others : fd[d] # fd[c]
      BY <1>2, <2>1
    <3>2. open \ {fd[c]} = {3} \cup {fd[d] : d \in Others}
      BY <1>2, <2>1, <3>1
    <3>3. {fd'[d] : d \in Others} = {fd[d] : d \in Others}
      BY <1>2
    <3> HIDE DEF Others
    <3>4. {fd'[d] : d \in {e \in Clients : pc'[e] # "away"}} = {fd'[d] : d \in Others}
      <4>1. {e \in Clients : pc'[e] # "away"} = Others
        BY <2>2 DEF Others
      <4> QED BY <4>1
    <3> QED BY <1>2, <3>2, <3>3, <3>4
  <2>4. NoFd # 3 /\ NoFd \notin open
    <3>1. open \subseteq Nat
      <4>1. Cardinality(Clients) \in Nat
        BY ServerAssumption, FS_CardinalityType
      <4>2. 3 .. 3 + Cardinality(Clients) \subseteq Nat
        BY <4>1
      <4> QED BY <4>2 DEF OwnDescriptor, TypeOK, Fds
    <3>2. NoFd \notin Nat /\ 3 \in Nat
      BY ServerAssumption
    <3> QED BY <3>1, <3>2
  <2>5. ASSUME NEW d \in Clients, pc'[d] # "away"
        PROVE  fd'[d] \in open' \ {3} /\ \A e \in Clients \ {d} : fd'[e] # fd'[d]
    BY <1>2, <2>1, <2>4, <2>5
  <2> QED BY <1>1, <2>3, <2>5 DEF OwnDescriptor
<1>4. OwnDescriptor'
  BY <1>1, <1>2, <1>3 DEF OwnDescriptor
<1>5. HandleOpen' /\ AwayWithout'
  BY <1>2 DEF Close
<1> QED BY <1>4, <1>5

LEMMA CommandKeepsDescriptors ==
  ASSUME DescriptorInv, NEW c \in Clients,
         \/ Command(c) \/ Disconnect(c) \/ Refuse(c)
         \/ Invoke(c) \/ Enter(c) \/ Finish(c)
  PROVE  DescriptorInv'
<1> USE DEF DescriptorInv, HandleOpen, OwnDescriptor, TypeOK
<1>1. CASE Command(c)
  <2>1. bye' \in [Clients -> BOOLEAN] /\ sent' \in 0 .. MaxCommands
    BY <1>1, ServerAssumption DEF Command
  <2>2. disturbed' \subseteq Clients
    BY <1>1 DEF Command
  <2>3. /\ pc' \in [Clients -> Places]
        /\ \A d \in Clients : pc'[d] = "away" <=> pc[d] = "away"
    BY <1>1 DEF Command
  <2>4. TypeOK'
    BY <1>1, <2>1, <2>2, <2>3 DEF Command
  <2> QED BY <1>1, <2>3, <2>4, DescriptorsUntouched DEF Command
<1>2. CASE Disconnect(c)
  <2>1. /\ pc' \in [Clients -> Places]
        /\ \A d \in Clients : pc'[d] = "away" <=> pc[d] = "away"
    BY <1>2 DEF Disconnect
  <2>2. TypeOK'
    BY <1>2, <2>1 DEF Disconnect
  <2> QED BY <1>2, <2>1, <2>2, DescriptorsUntouched DEF Disconnect
<1>3. CASE Refuse(c)
  <2>1. /\ pc' \in [Clients -> Places]
        /\ \A d \in Clients : pc'[d] = "away" <=> pc[d] = "away"
    BY <1>3 DEF Refuse
  <2>2. TypeOK'
    BY <1>3, <2>1 DEF Refuse
  <2> QED BY <1>3, <2>1, <2>2, DescriptorsUntouched DEF Refuse
<1>4. CASE Invoke(c)
  <2>1. TypeOK' /\ \A d \in Clients : pc'[d] = "away" <=> pc[d] = "away"
    BY <1>4 DEF Invoke
  <2> QED BY <1>4, <2>1, DescriptorsUntouched DEF Invoke
<1>5. CASE Enter(c)
  <2>1. TypeOK' /\ \A d \in Clients : pc'[d] = "away" <=> pc[d] = "away"
    BY <1>5 DEF Enter
  <2> QED BY <1>5, <2>1, DescriptorsUntouched DEF Enter
<1>6. CASE Finish(c)
  <2>1. TypeOK' /\ \A d \in Clients : pc'[d] = "away" <=> pc[d] = "away"
    BY <1>6, LenProperties DEF Finish
  <2> QED BY <1>6, <2>1, DescriptorsUntouched DEF Finish
<1> QED BY <1>1, <1>2, <1>3, <1>4, <1>5, <1>6

(* What a reload's steps do to the thread, and to the library it names. *)
ReloadTypes ==
    /\ pc' \in [Clients -> Places]
    /\ \A d \in Clients : pc'[d] = "away" <=> pc[d] = "away"
    /\ backup' \in [Clients -> Libs] /\ lib' \in Libs
    /\ retried' \in [Clients -> BOOLEAN]

LEMMA ReloadStepTypes ==
  ASSUME TypeOK, NEW c \in Clients, pc[c] # "away",
         \/ Failed(c)
         \/ Continue(c) /\ UNCHANGED reloadVars
         \/ /\ \E label \in {"destroy", "delete", "forget", "dlclose", "dlopen", "make"} : Goto(c, label)
            /\ UNCHANGED reloadVars
  PROVE  ReloadTypes
<1> USE DEF TypeOK, ReloadTypes
<1>1. CASE Failed(c)
  <2>1. CASE retried[c]
    BY <1>1, <2>1 DEF Failed
  <2>2. CASE ~ retried[c]
    <3>1. /\ lib' = backup[c] /\ retried' = [retried EXCEPT ![c] = TRUE]
          /\ pc' = [pc EXCEPT ![c] = "destroy"] /\ backup' = backup
      BY <1>1, <2>2 DEF Failed
    <3> QED BY <3>1
  <2> QED BY <2>1, <2>2
<1>2. CASE Continue(c) /\ UNCHANGED reloadVars
  BY <1>2
<1>3. CASE (\E label \in {"destroy", "delete", "forget", "dlclose", "dlopen", "make"} : Goto(c, label))
           /\ UNCHANGED reloadVars
  BY <1>3
<1> QED BY <1>1, <1>2, <1>3

LEMMA ReloadKeepsDescriptors ==
  ASSUME DescriptorInv, NEW c \in Clients,
         \/ Select(c) \/ Name(c) \/ Destroy(c) \/ Delete(c) \/ Forget(c)
         \/ Dlclose(c) \/ Dlopen(c) \/ Make(c)
  PROVE  DescriptorInv'
<1> USE DEF DescriptorInv, HandleOpen, OwnDescriptor
<1>1. CASE Select(c) \/ Name(c)
  <2>1. /\ pc' \in [Clients -> Places] /\ \A d \in Clients : pc'[d] = "away" <=> pc[d] = "away"
        /\ UNCHANGED <<connectionVars, commandVars, handlerVars, callVars>>
    BY <1>1 DEF Select, Name, TypeOK
  <2>2. lib' \in Libs /\ backup' \in [Clients -> Libs] /\ retried' \in [Clients -> BOOLEAN]
    <3>1. CASE Select(c)
      BY <3>1 DEF Select, TypeOK
    <3>2. CASE Name(c)
      BY <3>2 DEF Name, TypeOK
    <3> QED BY <1>1, <3>1, <3>2
  <2>3. TypeOK'
    BY <2>1, <2>2 DEF TypeOK
  <2> QED BY <1>1, <2>1, <2>3, DescriptorsUntouched DEF Select, Name
<1>2. CASE Destroy(c)
  <2>1. ReloadTypes
    BY <1>2, ReloadStepTypes DEF Destroy
  <2>2. TypeOK'
    BY <1>2, <2>1 DEF Destroy, TypeOK, ReloadTypes
  <2> QED BY <1>2, <2>1, <2>2, DescriptorsUntouched DEF Destroy, ReloadTypes
<1>3. CASE Delete(c)
  <2>1. ReloadTypes
    BY <1>3, ReloadStepTypes DEF Delete
  <2>2. alive' \subseteq alive /\ disturbed' \subseteq Clients
    BY <1>3 DEF Delete, TypeOK
  <2>3. UNCHANGED <<connectionVars, commandVars, handler, handle, made, images, using>>
    BY <1>3 DEF Delete
  <2>4. TypeOK'
    BY <2>1, <2>2, <2>3 DEF TypeOK, ReloadTypes
  <2> QED BY <1>3, <2>1, <2>4, DescriptorsUntouched DEF Delete, ReloadTypes
<1>7. CASE Forget(c)
  <2>1. ReloadTypes
    BY <1>7, ReloadStepTypes DEF Forget
  <2>2. Len(made) \in Nat
    BY LenProperties DEF TypeOK
  <2>3. TypeOK'
    BY <1>7, <2>1, <2>2 DEF Forget, TypeOK, ReloadTypes
  <2> QED BY <1>7, <2>1, <2>3, DescriptorsUntouched DEF Forget, ReloadTypes
<1>4. CASE Dlclose(c)
  <2>1. ReloadTypes
    BY <1>4, ReloadStepTypes DEF Dlclose
  <2>2. images' \in [Libs -> Nat] /\ handle' \notin Libs
    BY <1>4, ServerAssumption DEF Dlclose, TypeOK
  <2>3. TypeOK'
    BY <1>4, <2>1, <2>2 DEF Dlclose, TypeOK, ReloadTypes
  <2> QED BY <1>4, <2>1, <2>3, DescriptorsUntouched DEF Dlclose, ReloadTypes
<1>5. CASE Dlopen(c)
  <2>1. ReloadTypes
    BY <1>5, ReloadStepTypes DEF Dlopen
  <2>2. images' \in [Libs -> Nat] /\ handle' \in Libs \cup {NoLib} /\ HandleOpen'
    <3>1. CASE /\ lib \in Loadable /\ handle' = lib
               /\ images' = [images EXCEPT ![lib] = @ + 1]
      BY <3>1 DEF TypeOK
    <3>2. CASE handle' = NoLib /\ UNCHANGED images
      BY <3>2 DEF TypeOK
    <3> QED BY <1>5, <3>1, <3>2 DEF Dlopen
  <2>3. TypeOK'
    BY <1>5, <2>1, <2>2 DEF Dlopen, TypeOK, ReloadTypes
  <2> QED BY <1>5, <2>1, <2>2, <2>3, DescriptorsUntouched DEF Dlopen, ReloadTypes
<1>6. CASE Make(c)
  <2>1. ReloadTypes
    BY <1>6, ReloadStepTypes DEF Make
  <2>2. /\ made' \in Seq(Libs) /\ Len(made) \in Nat /\ Len(made') \in Nat
        /\ Len(made') >= Len(made)
        /\ handler' \in 0 .. Len(made') /\ alive' \subseteq 1 .. Len(made')
    <3>1. Len(made) \in Nat
      BY LenProperties DEF TypeOK
    <3>2. CASE UNCHANGED <<made, handler, alive>>
      BY <3>1, <3>2 DEF TypeOK
    <3>3. CASE /\ \E l \in Dlsym(Creating) : made' = Append(made, l)
               /\ handler' = Len(made') /\ alive' = alive \cup {Len(made')}
      <4>1. PICK l \in Dlsym(Creating) : made' = Append(made, l)
        BY <3>3
      <4>2. l \in Libs
        <5>1. Dlsym(Creating) \subseteq Creating
          BY DEF Dlsym
        <5> QED BY <4>1, <5>1, ServerAssumption
      <4>3. made' \in Seq(Libs) /\ Len(made') = Len(made) + 1
        BY <4>1, <4>2, AppendProperties DEF TypeOK
      <4>4. Len(made') \in 1 .. Len(made') /\ 1 .. Len(made) \subseteq 1 .. Len(made')
        BY <3>1, <4>3
      <4>5. alive \subseteq 1 .. Len(made)
        BY DEF TypeOK
      <4>6. alive' \subseteq 1 .. Len(made')
        BY <3>3, <4>4, <4>5
      <4>7. Len(made') \in Nat /\ Len(made') >= Len(made) /\ handler' \in 0 .. Len(made')
        BY <3>1, <3>3, <4>3
      <4> QED BY <3>1, <4>3, <4>6, <4>7
    <3> QED BY <1>6, <3>2, <3>3 DEF Make
  <2>3. using' \in [Clients -> 0 .. Len(made')]
    <3>1. using' = using /\ using \in [Clients -> 0 .. Len(made)]
      BY <1>6 DEF Make, TypeOK
    <3>2. 0 .. Len(made) \subseteq 0 .. Len(made')
      BY <2>2
    <3> QED BY <3>1, <3>2
  <2>4. UNCHANGED <<main, connectionVars, commandVars, handle, images, disturbed>>
    BY <1>6 DEF Make
  <2>5. TypeOK'
    BY <2>1, <2>2, <2>3, <2>4 DEF TypeOK, ReloadTypes
  <2> QED BY <1>6, <2>1, <2>5, DescriptorsUntouched DEF Make, ReloadTypes
<1> QED BY <1>1, <1>2, <1>3, <1>4, <1>5, <1>6, <1>7

LEMMA DescriptorsNext == DescriptorInv /\ [Next]_vars => DescriptorInv'
<1> SUFFICES ASSUME DescriptorInv, [Next]_vars PROVE DescriptorInv'
  OBVIOUS
<1>1. CASE UNCHANGED vars
  BY <1>1 DEF vars, DescriptorInv, OwnDescriptor, TypeOK, HandleOpen, AwayWithout
<1>2. CASE Next
  <2>1. CASE \E c \in Clients : Accept(c) \/ TurnAway(c) \/ HangUp(c)
    BY <2>1, AcceptKeepsDescriptors, ConnectingKeepsDescriptors
  <2>2. CASE \E c \in Clients : Close(c)
    BY <2>2, CloseKeepsDescriptors
  <2>3. CASE \E c \in Clients : \/ Command(c) \/ Disconnect(c) \/ Refuse(c)
                               \/ Invoke(c) \/ Enter(c) \/ Finish(c)
    BY <2>3, CommandKeepsDescriptors
  <2>4. CASE \E c \in Clients : \/ Select(c) \/ Name(c) \/ Destroy(c) \/ Delete(c) \/ Forget(c)
                               \/ Dlclose(c) \/ Dlopen(c) \/ Make(c)
    BY <2>4, ReloadKeepsDescriptors
  <2>5. CASE AcceptFails \/ Exit
    BY <2>5, StoppingKeepsDescriptors
  <2> QED BY <1>2, <2>1, <2>2, <2>3, <2>4, <2>5 DEF Next, Step, FromClient
<1> QED BY <1>1, <1>2

(* Every variable keeps its type, and every thread of a server that        *)
(* accepts connections has a descriptor of its own, open until it closes   *)
(* it itself, for any number of clients.                                   *)
THEOREM DescriptorsStayOwn == Spec => []OwnDescriptor
<1>1. DescriptorInv => OwnDescriptor
  BY DEF DescriptorInv
<1> QED BY <1>1, DescriptorsInit, DescriptorsNext, PTL DEF Spec

-----------------------------------------------------------------------------
(* Reloads, one at a time *)

ReloadsAlone ==
    OneAtATime => \A c, d \in Clients : Reloading(c) /\ Reloading(d) => c = d

(* What a reload starts from and ends with: a handler of library l.        *)
Only(l) == \A k \in Creating : images[k] = IF k = l THEN 1 ELSE 0
Loaded(l) ==
    /\ l \in Loadable \cap Creating
    /\ handler # 0 /\ alive = {handler} /\ made[handler] = l
    /\ handle = l /\ Only(l)
(* ... and what it goes through: no handler, and no library of one.        *)
Unloaded == handler = 0 /\ alive = {} /\ \A k \in Creating : images[k] = 0

Busy(c) == Reloading(c) /\ pc[c] # "select"

(* Where a reload is tells what there is, and the backup can be loaded.    *)
ReloadAt(c) ==
    /\ backup[c] \in Loadable \cap Creating
    /\ retried[c] => lib = backup[c]
    /\ \/ pc[c] = "name" /\ Loaded(backup[c]) /\ lib = backup[c] /\ ~ retried[c]
       \/ pc[c] = "destroy" /\ (Loaded(backup[c]) \/ (retried[c] /\ Unloaded))
       \/ pc[c] = "delete" /\ Loaded(backup[c])
       \/ /\ pc[c] = "forget"
          /\ handler # 0 /\ alive = {} /\ handle = backup[c] /\ Only(backup[c])
       \/ /\ pc[c] = "dlclose"
          /\ handler = 0 /\ alive = {} /\ handle = backup[c] /\ Only(backup[c])
       \/ pc[c] = "dlopen" /\ Unloaded
       \/ /\ pc[c] = "make"
          /\ handler = 0 /\ alive = {} /\ handle = lib /\ lib \in Loadable /\ Only(lib)

ReloadState ==
    /\ \A c \in Clients : Busy(c) => ReloadAt(c)
    /\ (\A c \in Clients : ~ Busy(c)) => Loaded(lib)
ReloadInv == ReloadsAlone /\ ReloadState

LEMMA AloneInit == Init => ReloadsAlone
  BY DEF Init, ReloadsAlone, Reloading

LEMMA AloneNext == TypeOK /\ ReloadsAlone /\ [Next]_vars => ReloadsAlone'
<1> SUFFICES ASSUME TypeOK, ReloadsAlone, [Next]_vars, OneAtATime PROVE ReloadsAlone'
  BY DEF ReloadsAlone
<1>1. CASE \A d \in Clients : Reloading(d)' => Reloading(d)
  BY <1>1 DEF ReloadsAlone
<1>2. ASSUME NEW c \in Clients, Reloading(c)', ~ Reloading(c)
      PROVE  /\ \A d \in Clients \ {c} : pc'[d] = pc[d]
             /\ \A d \in Clients : ~ Reloading(d)
  <2>1. \A d \in Clients : Step(d) => Reloading(d) \/ ~ Reloading(d)'
    BY DEF Step, Disconnect, Refuse, Close, Invoke, Enter, Finish, Select, Name, Destroy, Delete,
       Forget, Dlclose, Dlopen, Make, Reloading, TypeOK
  <2>2. \A d \in Clients \ {c} : Step(d) => pc'[c] = pc[c]
    BY DEF Step, Disconnect, Refuse, Close, Invoke, Enter, Finish, Select, Name, Destroy, Delete,
       Forget, Dlclose, Dlopen, Make, Failed, TypeOK
  <2>3. pc'[c] # pc[c]
    BY <1>2 DEF Reloading
  <2>4. \A d \in Clients : ~ Step(d)
    BY <1>2, <2>1, <2>2, <2>3
  <2>5. \A d \in Clients : Accept(d) => pc'[c] = pc[c] \/ ~ Reloading(c)'
    BY DEF Accept, Reloading, TypeOK
  <2>6. PICK d \in Clients : Command(d)
    BY <1>2, <2>3, <2>4, <2>5 DEF Next, vars, FromClient, TurnAway, HangUp, AcceptFails, Exit
  <2>7. d = c /\ pc'[c] = "select"
    BY <1>2, <2>3, <2>6 DEF Command, Reloading, TypeOK
  <2> QED BY <2>6, <2>7 DEF Command, TypeOK
<1>3. CASE \E c \in Clients : Reloading(c)' /\ ~ Reloading(c)
  <2> PICK c \in Clients : Reloading(c)' /\ ~ Reloading(c)
    BY <1>3
  <2>1. \A d \in Clients \ {c} : ~ Reloading(d)'
    BY <1>2 DEF Reloading
  <2> QED BY <2>1 DEF ReloadsAlone
<1> QED BY <1>1, <1>3

LEMMA NoOtherReloads ==
  ASSUME OneAtATime, ReloadsAlone, NEW c \in Clients, Reloading(c)
  PROVE  \A d \in Clients \ {c} : ~ Reloading(d)
  BY DEF ReloadsAlone

LEMMA ReloadsInit == Init => ReloadState
<1> SUFFICES ASSUME Init PROVE ReloadState
  OBVIOUS
<1>1. \A c \in Clients : ~ Busy(c)
  BY DEF Init, Busy, Reloading
<1>2. Loaded(lib)
  BY ServerAssumption DEF Init, Loaded, Only
<1> QED BY <1>1, <1>2 DEF ReloadState

(* Nothing else changes what a reload works on.                            *)
LEMMA ReloadsUntouched ==
  ASSUME ReloadState, UNCHANGED <<reloadVars, handler, handle, made, alive, images>>,
         NEW c \in Clients, ~ Busy(c), ~ Busy(c)',
         \A d \in Clients \ {c} : pc'[d] = pc[d]
  PROVE  ReloadState'
<1>1. \A d \in Clients : Busy(d)' <=> Busy(d)
  BY DEF Busy, Reloading
<1>2. \A d \in Clients : Busy(d) => pc'[d] = pc[d]
  OBVIOUS
<1>3. \A l : (Loaded(l)' <=> Loaded(l)) /\ (Only(l)' <=> Only(l)) /\ (Unloaded' <=> Unloaded)
  BY DEF Loaded, Only, Unloaded
<1>4. \A d \in Clients : Busy(d) => (ReloadAt(d)' <=> ReloadAt(d))
  BY <1>2, <1>3 DEF ReloadAt
<1> QED BY <1>1, <1>3, <1>4 DEF ReloadState

LEMMA OnlyThisOne ==
  ASSUME OneAtATime, ReloadsAlone, TypeOK, NEW c \in Clients, Reloading(c),
         \A d \in Clients \ {c} : pc'[d] = pc[d],
         Busy(c)' => ReloadAt(c)',
         ~ Busy(c)' => Loaded(lib)'
  PROVE  ReloadState'
<1>1. \A d \in Clients \ {c} : ~ Busy(d)'
  <2>1. \A d \in Clients \ {c} : ~ Reloading(d)
    BY NoOtherReloads
  <2> QED BY <2>1 DEF Busy, Reloading
<1> QED BY <1>1 DEF ReloadState

LEMMA SelectKeepsReload ==
  ASSUME OneAtATime, ReloadInv, TypeOK, NEW c \in Clients, Select(c) \/ Name(c)
  PROVE  ReloadState'
<1> SUFFICES ASSUME Select(c) PROVE ReloadState'
  <2> SUFFICES ASSUME Name(c) PROVE ReloadState'
    OBVIOUS
  <2>1. Busy(c) /\ ReloadAt(c)
    BY DEF Name, Busy, Reloading, ReloadInv, ReloadState
  <2>2. /\ pc'[c] = "destroy" /\ UNCHANGED <<backup, retried>>
        /\ \A d \in Clients \ {c} : pc'[d] = pc[d]
        /\ UNCHANGED <<handler, handle, made, alive, images>>
    BY DEF Name, TypeOK
  <2>3. ReloadAt(c)' /\ Busy(c)'
    <3>1. Loaded(backup[c]) /\ ~ retried[c] /\ backup[c] \in Loadable \cap Creating
      BY <2>1 DEF Name, ReloadAt
    <3>2. Loaded(backup[c])'
      BY <2>2, <3>1 DEF Loaded, Only
    <3> QED BY <2>2, <3>1, <3>2 DEF ReloadAt, Busy, Reloading
  <2> QED BY <2>1, <2>2, <2>3, OnlyThisOne DEF ReloadInv, Busy
<1>1. Reloading(c) /\ ~ Busy(c)
  BY DEF Select, Reloading, Busy
<1>2. \A d \in Clients : ~ Busy(d)
  BY <1>1, NoOtherReloads DEF ReloadInv, Busy
<1>3. Loaded(lib)
  BY <1>2 DEF ReloadInv, ReloadState
<1>4. /\ pc'[c] = "name" /\ backup'[c] = lib /\ lib' = lib /\ ~ retried'[c]
      /\ \A d \in Clients \ {c} : pc'[d] = pc[d]
      /\ UNCHANGED <<handler, handle, made, alive, images>>
  BY DEF Select, TypeOK
<1>5. ReloadAt(c)' /\ Busy(c)'
  BY <1>3, <1>4 DEF ReloadAt, Loaded, Only, Busy, Reloading
<1> QED BY <1>1, <1>4, <1>5, OnlyThisOne DEF ReloadInv

(* A failure of the first attempt leads to the second; the second fails    *)
(* only before it has deleted the handler it was to replace.               *)
LEMMA FailedKeepsReload ==
  ASSUME OneAtATime, ReloadInv, TypeOK, NEW c \in Clients, Busy(c), Failed(c),
         backup[c] \in Loadable \cap Creating, retried[c] => lib = backup[c],
         ~ retried[c] => Loaded(backup[c])' \/ Unloaded',
         retried[c] => Loaded(backup[c])'
  PROVE  ReloadState'
<1>1. \A d \in Clients \ {c} : pc'[d] = pc[d]
  BY DEF Failed, TypeOK
<1>2. CASE retried[c]
  <2>1. ~ Busy(c)' /\ lib' = lib /\ backup' = backup
    BY <1>2 DEF Failed, TypeOK, Busy, Reloading
  <2>2. Loaded(lib)'
    BY <1>2, <2>1 DEF Loaded, Only
  <2> QED BY <1>1, <2>1, <2>2, OnlyThisOne DEF ReloadInv, Busy
<1>3. CASE ~ retried[c]
  <2>1. pc'[c] = "destroy" /\ lib' = backup[c] /\ retried'[c] /\ backup' = backup
    BY <1>3 DEF Failed, TypeOK
  <2>2. ReloadAt(c)' /\ Busy(c)'
    BY <1>3, <2>1 DEF ReloadAt, Busy, Reloading
  <2> QED BY <1>1, <2>2, OnlyThisOne DEF ReloadInv, Busy
<1> QED BY <1>2, <1>3

LEMMA DestroyKeepsReload ==
  ASSUME OneAtATime, ReloadInv, TypeOK, NEW c \in Clients, Destroy(c)
  PROVE  ReloadState'
<1>1. Busy(c) /\ ReloadAt(c)
  BY DEF Destroy, Busy, Reloading, ReloadInv, ReloadState
<1>2. /\ UNCHANGED <<handler, handle, made, alive, images>>
      /\ Loaded(backup[c]) \/ (retried[c] /\ Unloaded)
  BY <1>1 DEF Destroy, ReloadAt
<1>3. CASE handler = 0 /\ Goto(c, "dlopen") /\ UNCHANGED reloadVars
  <2>1. Unloaded
    BY <1>2, <1>3 DEF Loaded
  <2>2. pc'[c] = "dlopen" /\ \A d \in Clients \ {c} : pc'[d] = pc[d]
    BY <1>3 DEF TypeOK
  <2>3. ReloadAt(c)' /\ Busy(c)'
    BY <1>1, <1>2, <1>3, <2>1, <2>2 DEF ReloadAt, Unloaded, Busy, Reloading
  <2> QED BY <1>1, <2>2, <2>3, OnlyThisOne DEF ReloadInv, Busy
<1>4. CASE handler # 0 /\ Failed(c)
  <2>1. Loaded(backup[c])
    BY <1>2, <1>4 DEF Unloaded
  <2>2. backup' = backup
    BY <1>4 DEF Failed
  <2>3. Loaded(backup[c])'
    BY <1>2, <2>1, <2>2 DEF Loaded, Only
  <2> QED BY <1>1, <1>4, <2>3, FailedKeepsReload DEF ReloadAt
<1>5. CASE handler # 0 /\ Goto(c, "delete") /\ UNCHANGED reloadVars
  <2>1. Loaded(backup[c])
    BY <1>2, <1>5 DEF Unloaded
  <2>2. pc'[c] = "delete" /\ \A d \in Clients \ {c} : pc'[d] = pc[d]
    BY <1>5 DEF TypeOK
  <2>3. ReloadAt(c)' /\ Busy(c)'
    BY <1>1, <1>2, <1>5, <2>1, <2>2 DEF ReloadAt, Loaded, Only, Busy, Reloading
  <2> QED BY <1>1, <2>2, <2>3, OnlyThisOne DEF ReloadInv, Busy
<1> QED BY <1>3, <1>4, <1>5 DEF Destroy

LEMMA UnloadKeepsReload ==
  ASSUME OneAtATime, ReloadInv, TypeOK, NEW c \in Clients,
         Delete(c) \/ Forget(c) \/ Dlclose(c)
  PROVE  ReloadState'
<1>1. Busy(c) /\ ReloadAt(c)
  BY DEF Delete, Forget, Dlclose, Busy, Reloading, ReloadInv, ReloadState
<1>2. /\ UNCHANGED reloadVars
      /\ \A d \in Clients \ {c} : pc'[d] = pc[d]
  BY DEF Delete, Forget, Dlclose, TypeOK
<1>3. CASE Delete(c)
  <2>1. Loaded(backup[c])
    BY <1>1, <1>3 DEF Delete, ReloadAt
  <2>2. alive' = {} /\ pc'[c] = "forget" /\ UNCHANGED <<handler, handle, images>>
    BY <1>3, <2>1 DEF Delete, Loaded, TypeOK
  <2>3. ReloadAt(c)' /\ Busy(c)'
    BY <1>1, <1>2, <2>1, <2>2 DEF ReloadAt, Loaded, Only, Busy, Reloading
  <2> QED BY <1>1, <1>2, <2>3, OnlyThisOne DEF ReloadInv, Busy
<1>5. CASE Forget(c)
  <2>1. alive = {} /\ handle = backup[c] /\ Only(backup[c])
    BY <1>1, <1>5 DEF Forget, ReloadAt
  <2>2. pc'[c] = "dlclose" /\ handler' = 0 /\ UNCHANGED <<alive, handle, images>>
    BY <1>5 DEF Forget, TypeOK
  <2>3. ReloadAt(c)' /\ Busy(c)'
    BY <1>1, <1>2, <2>1, <2>2 DEF ReloadAt, Only, Busy, Reloading
  <2> QED BY <1>1, <1>2, <2>3, OnlyThisOne DEF ReloadInv, Busy
<1>4. CASE Dlclose(c)
  <2>1. handler = 0 /\ alive = {} /\ handle = backup[c] /\ Only(handle)
    BY <1>1, <1>4 DEF Dlclose, ReloadAt
  <2>2. /\ pc'[c] = "dlopen" /\ UNCHANGED <<handler, alive>>
        /\ images' = [l \in Libs |-> IF l = handle THEN images[l] - 1 ELSE images[l]]
    BY <1>4 DEF Dlclose, TypeOK
  <2>3. \A k \in Creating : images'[k] = 0
    BY <2>1, <2>2, ServerAssumption DEF Only
  <2>4. ReloadAt(c)' /\ Busy(c)'
    BY <1>1, <1>2, <2>1, <2>2, <2>3 DEF ReloadAt, Unloaded, Busy, Reloading
  <2> QED BY <1>1, <1>2, <2>4, OnlyThisOne DEF ReloadInv, Busy
<1> QED BY <1>3, <1>4, <1>5

LEMMA DlopenKeepsReload ==
  ASSUME OneAtATime, ReloadInv, TypeOK, NEW c \in Clients, Dlopen(c)
  PROVE  ReloadState'
<1>1. Busy(c) /\ ReloadAt(c)
  BY DEF Dlopen, Busy, Reloading, ReloadInv, ReloadState
<1>2. Unloaded /\ UNCHANGED <<handler, alive>>
  BY <1>1 DEF Dlopen, ReloadAt
<1>3. CASE /\ lib \in Loadable /\ handle' = lib /\ images' = [images EXCEPT ![lib] = @ + 1]
           /\ Goto(c, "make") /\ UNCHANGED reloadVars
  <2>1. pc'[c] = "make" /\ \A d \in Clients \ {c} : pc'[d] = pc[d]
    BY <1>3 DEF TypeOK
  <2>2. \A k \in Creating : images'[k] = IF k = lib THEN 1 ELSE 0
    BY <1>2, <1>3, ServerAssumption DEF Unloaded, TypeOK
  <2>3. ReloadAt(c)' /\ Busy(c)'
    BY <1>1, <1>2, <1>3, <2>1, <2>2 DEF ReloadAt, Unloaded, Only, Busy, Reloading
  <2> QED BY <1>1, <2>1, <2>3, OnlyThisOne DEF ReloadInv, Busy
<1>4. CASE lib \notin Loadable /\ Failed(c) /\ UNCHANGED images
  <2>1. ~ retried[c]
    BY <1>1, <1>4 DEF ReloadAt
  <2>2. Unloaded'
    BY <1>2, <1>4 DEF Unloaded
  <2> QED BY <1>1, <1>4, <2>1, <2>2, FailedKeepsReload DEF ReloadAt
<1> QED BY <1>3, <1>4 DEF Dlopen

LEMMA MakeKeepsReload ==
  ASSUME OneAtATime, ReloadInv, TypeOK, NEW c \in Clients, Make(c)
  PROVE  ReloadState'
<1>1. Busy(c) /\ ReloadAt(c)
  BY DEF Make, Busy, Reloading, ReloadInv, ReloadState
<1>2. /\ handler = 0 /\ alive = {} /\ handle = lib /\ lib \in Loadable /\ Only(lib)
      /\ UNCHANGED <<handle, images>>
  BY <1>1 DEF Make, ReloadAt
<1>3. Dlsym(Creating) = Creating \cap {lib}
  <2>1. lib # NoLib
    BY <1>2, ServerAssumption
  <2> QED BY <1>2, <2>1 DEF Dlsym
<1>4. CASE /\ \E l \in Dlsym(Creating) : made' = Append(made, l)
           /\ handler' = Len(made') /\ alive' = alive \cup {Len(made')}
           /\ Continue(c) /\ UNCHANGED reloadVars
  <2>1. lib \in Creating /\ made' = Append(made, lib)
    BY <1>3, <1>4
  <2>2. /\ Len(made') = Len(made) + 1 /\ Len(made) \in Nat
        /\ made'[Len(made) + 1] = lib
    <3>1. made \in Seq(Libs) /\ lib \in Libs
      BY DEF TypeOK
    <3> QED BY <2>1, <3>1, AppendProperties, LenProperties
  <2>3. Loaded(lib)'
    BY <1>2, <1>4, <2>1, <2>2 DEF Loaded, Only
  <2>4. ~ Busy(c)' /\ \A d \in Clients \ {c} : pc'[d] = pc[d]
    BY <1>4 DEF TypeOK, Busy, Reloading
  <2> QED BY <1>1, <2>3, <2>4, OnlyThisOne DEF ReloadInv, Busy
<1>5. CASE Dlsym(Creating) = {} /\ Failed(c) /\ UNCHANGED <<made, handler, alive>>
  <2>1. lib \notin Creating
    BY <1>3, <1>5
  <2>2. ~ retried[c]
    BY <1>1, <2>1 DEF ReloadAt
  <2>3. Unloaded'
    BY <1>2, <1>5, <2>1 DEF Unloaded, Only
  <2> QED BY <1>1, <1>5, <2>2, <2>3, FailedKeepsReload DEF ReloadAt
<1> QED BY <1>4, <1>5 DEF Make

LEMMA ReloadsNext ==
  ASSUME OneAtATime, ReloadInv, TypeOK, [Next]_vars
  PROVE  ReloadState'
<1>1. CASE UNCHANGED <<pc, reloadVars, handlerVars>>
  BY <1>1 DEF ReloadInv, ReloadState, ReloadAt, Loaded, Only, Unloaded, Busy, Reloading
<1>2. CASE Next
  <2>1. CASE \E c \in Clients : \/ Accept(c) \/ Command(c) \/ Disconnect(c) \/ Refuse(c)
                               \/ Close(c) \/ Invoke(c) \/ Enter(c) \/ Finish(c)
    <3> PICK c \in Clients : \/ Accept(c) \/ Command(c) \/ Disconnect(c) \/ Refuse(c)
                             \/ Close(c) \/ Invoke(c) \/ Enter(c) \/ Finish(c)
      BY <2>1
    <3>1. /\ UNCHANGED <<reloadVars, handlerVars>>
          /\ \A d \in Clients \ {c} : pc'[d] = pc[d]
      BY DEF Accept, Command, Disconnect, Refuse, Close, Invoke, Enter, Finish, TypeOK
    <3>2. pc[c] \in {"away", "receive", "refuse", "closing", "invoke", "enter", "inside"}
      BY DEF Accept, CanAccept, Command, Disconnect, Refuse, Close, Invoke, Enter, Finish
    <3>3. pc'[c] \in {"away", "receive", "refuse", "closing", "invoke", "enter", "inside", "select"}
      BY DEF Accept, Command, Disconnect, Refuse, Close, Invoke, Enter, Finish, TypeOK
    <3>4. ~ Busy(c) /\ ~ Busy(c)'
      BY <3>2, <3>3 DEF Busy, Reloading
    <3> QED BY <3>1, <3>4, ReloadsUntouched DEF ReloadInv
  <2>2. CASE \E c \in Clients : \/ Select(c) \/ Name(c) \/ Destroy(c) \/ Delete(c) \/ Forget(c)
                               \/ Dlclose(c) \/ Dlopen(c) \/ Make(c)
    BY <2>2, SelectKeepsReload, DestroyKeepsReload, UnloadKeepsReload, DlopenKeepsReload,
       MakeKeepsReload
  <2>3. CASE \E c \in Clients : TurnAway(c) \/ HangUp(c)
    BY <1>1, <2>3 DEF TurnAway, HangUp
  <2>4. CASE AcceptFails \/ Exit
    BY <1>1, <2>4 DEF AcceptFails, Exit
  <2> QED BY <1>2, <2>1, <2>2, <2>3, <2>4 DEF Next, Step, FromClient
<1> QED BY <1>1, <1>2 DEF vars

LEMMA ReloadsAreSound ==
  ASSUME OneAtATime
  PROVE  Spec => []ReloadInv
<1>1. OwnDescriptor => TypeOK
  BY DEF OwnDescriptor
<1>2. Init => ReloadInv
  BY ReloadsInit, AloneInit DEF ReloadInv
<1>3. TypeOK /\ ReloadInv /\ [Next]_vars => ReloadInv'
  BY ReloadsNext, AloneNext DEF ReloadInv
<1> QED BY <1>1, <1>2, <1>3, DescriptorsStayOwn, PTL DEF Spec

(* A reload, failed or not, ends with one handler, made by the library the *)
(* server names, and that library open once: whatever files it is given,   *)
(* as long as reloads come one at a time.                                  *)
THEOREM ReloadsLeaveHandler ==
  ASSUME OneAtATime
  PROVE  Spec => []ReloadLeavesHandler
<1>1. OwnDescriptor => TypeOK
  BY DEF OwnDescriptor
<1>2. ReloadState => ReloadLeavesHandler
  <2> SUFFICES ASSUME ReloadState,
                      \A c \in Clients : ~ Reloading(c) \/ pc[c] \in {"select", "name"}
               PROVE  /\ handler # 0 /\ alive = {handler} /\ made[handler] = lib
                      /\ handle = lib /\ images[lib] = 1
    BY DEF ReloadLeavesHandler
  <2>1. Loaded(lib)
    <3>1. CASE \E c \in Clients : pc[c] = "name"
      BY <3>1 DEF ReloadState, ReloadAt, Busy, Reloading
    <3>2. CASE \A c \in Clients : pc[c] # "name"
      BY <3>2 DEF ReloadState, Busy
    <3> QED BY <3>1, <3>2
  <2> QED BY <2>1 DEF Loaded, Only
<1> QED BY <1>1, <1>2, ReloadsAreSound, DescriptorsStayOwn, PTL DEF ReloadInv

-----------------------------------------------------------------------------
(* Calls *)

(* A thread no delete has disturbed is going to, or inside, the handler    *)
(* there is; before it looks, no deleted handler is waiting to be cleared. *)
CallState ==
    \A c \in Clients : c \notin disturbed =>
        /\ pc[c] = "invoke" => \A d \in Clients : pc[d] # "forget"
        /\ pc[c] = "enter" => handler \in alive
        /\ pc[c] = "inside" => using[c] = handler /\ handler \in alive

LEMMA CallsInit == Init => CallState
  BY DEF Init, CallState

(* A handler that is there, and no reload about to clear it, is alive.     *)
LEMMA HandlerAlive ==
  ASSUME ReloadState, handler # 0, \A d \in Clients : pc[d] # "forget"
  PROVE  handler \in alive
<1>1. CASE \A d \in Clients : ~ Busy(d)
  BY <1>1 DEF ReloadState, Loaded
<1>2. CASE \E d \in Clients : Busy(d)
  BY <1>2 DEF ReloadState, ReloadAt, Loaded, Unloaded
<1> QED BY <1>1, <1>2

LEMMA CallsUntouched ==
  ASSUME CallState, UNCHANGED <<handler, alive, callVars>>, NEW c \in Clients,
         \A d \in Clients \ {c} : pc'[d] = pc[d],
         pc'[c] = pc[c] \/ pc'[c] \notin {"invoke", "enter", "inside", "forget"}
  PROVE  CallState'
<1>1. \A d \in Clients : pc'[d] = pc[d] \/ pc'[d] \notin {"invoke", "enter", "inside", "forget"}
  OBVIOUS
<1> QED BY <1>1 DEF CallState

LEMMA ConnectionsKeepCalls ==
  ASSUME CallState, TypeOK, NEW c \in Clients,
         \/ Accept(c) \/ TurnAway(c) \/ HangUp(c) \/ Disconnect(c) \/ Refuse(c) \/ Close(c)
         \/ Select(c) \/ Name(c) \/ Destroy(c)
  PROVE  CallState'
<1>1. /\ UNCHANGED <<handler, alive, callVars>>
      /\ \A d \in Clients \ {c} : pc'[d] = pc[d]
      /\ pc'[c] = pc[c] \/ pc'[c] \notin {"invoke", "enter", "inside", "forget"}
  BY DEF Accept, TurnAway, HangUp, Disconnect, Refuse, Close, Select, Name, Destroy, Failed, TypeOK
<1> QED BY <1>1, CallsUntouched

LEMMA CallKeepsCalls ==
  ASSUME CallState, ReloadState, TypeOK, NEW c \in Clients,
         Command(c) \/ Invoke(c) \/ Enter(c) \/ Finish(c)
  PROVE  CallState'
<1>1. /\ UNCHANGED <<handler, alive>>
      /\ \A d \in Clients \ {c} : /\ pc'[d] = pc[d] /\ using'[d] = using[d]
                                  /\ d \in disturbed' <=> d \in disturbed
      /\ pc'[c] # "forget"
  BY DEF Command, Invoke, Enter, Finish, TypeOK
<1>2. c \notin disturbed' =>
        /\ pc'[c] = "invoke" => \A d \in Clients : pc'[d] # "forget"
        /\ pc'[c] = "enter" => handler' \in alive'
        /\ pc'[c] = "inside" => using'[c] = handler' /\ handler' \in alive'
  <2>1. CASE Command(c)
    BY <1>1, <2>1 DEF Command, TypeOK
  <2>2. CASE Invoke(c)
    BY <2>2, HandlerAlive DEF Invoke, CallState, TypeOK
  <2>3. CASE Enter(c)
    BY <2>3 DEF Enter, CallState, TypeOK
  <2>4. CASE Finish(c)
    BY <2>4 DEF Finish, TypeOK
  <2> QED BY <2>1, <2>2, <2>3, <2>4
<1> QED BY <1>1, <1>2 DEF CallState

(* The delete disturbs every call there is; after it no handler is alive   *)
(* until the reload has made one, and no undisturbed call on its way in.   *)
LEMMA ReloadKeepsCalls ==
  ASSUME OneAtATime, CallState, ReloadInv, TypeOK, NEW c \in Clients,
         Delete(c) \/ Forget(c) \/ Dlclose(c) \/ Dlopen(c) \/ Make(c)
  PROVE  CallState'
<1>1. /\ Busy(c) /\ ReloadAt(c)
      /\ \A d \in Clients \ {c} : pc'[d] = pc[d]
      /\ pc'[c] \notin {"invoke", "enter", "inside"} /\ using' = using
  BY DEF Delete, Forget, Dlclose, Dlopen, Make, Failed, Busy, Reloading, ReloadInv, ReloadState,
     TypeOK
<1>2. CASE Delete(c)
  BY <1>1, <1>2 DEF Delete, CallState, Calling
<1>3. CASE ~ Delete(c)
  <2>1. alive = {} /\ disturbed' = disturbed /\ pc'[c] # "forget"
    BY <1>1, <1>3 DEF Forget, Dlclose, Dlopen, Make, Failed, ReloadAt, Unloaded, TypeOK
  <2> QED BY <1>1, <2>1 DEF CallState
<1> QED BY <1>2, <1>3

LEMMA CallsNext ==
  ASSUME OneAtATime, CallState, ReloadInv, TypeOK, [Next]_vars
  PROVE  CallState'
<1>1. CASE UNCHANGED <<pc, handler, alive, callVars>>
  BY <1>1 DEF CallState
<1>2. CASE Next
  <2>1. CASE \E c \in Clients : \/ Accept(c) \/ TurnAway(c) \/ HangUp(c)
                               \/ Disconnect(c) \/ Refuse(c) \/ Close(c)
                               \/ Select(c) \/ Name(c) \/ Destroy(c)
    BY <2>1, ConnectionsKeepCalls
  <2>2. CASE \E c \in Clients : Command(c) \/ Invoke(c) \/ Enter(c) \/ Finish(c)
    BY <2>2, CallKeepsCalls DEF ReloadInv
  <2>3. CASE \E c \in Clients : \/ Delete(c) \/ Forget(c) \/ Dlclose(c) \/ Dlopen(c)
                               \/ Make(c)
    BY <2>3, ReloadKeepsCalls
  <2>4. CASE AcceptFails \/ Exit
    BY <1>1, <2>4 DEF AcceptFails, Exit
  <2> QED BY <1>2, <2>1, <2>2, <2>3, <2>4 DEF Next, Step, FromClient
<1> QED BY <1>1, <1>2 DEF vars

LEMMA CallsAreSound ==
  ASSUME CallState, ReloadState
  PROVE  UndisturbedCalls
<1>1. ASSUME handler \in alive PROVE images[made[handler]] = 1
  <2>1. PICK l \in Creating : Loaded(l)
    <3>1. CASE \A d \in Clients : ~ Busy(d)
      BY <3>1 DEF ReloadState, Loaded
    <3>2. CASE \E d \in Clients : Busy(d)
      BY <1>1, <3>2 DEF ReloadState, ReloadAt, Unloaded
    <3> QED BY <3>1, <3>2
  <2> QED BY <2>1 DEF Loaded, Only
<1>2. ASSUME NEW c \in Clients, pc[c] = "delete" PROVE handler \in alive
  BY <1>2 DEF ReloadState, ReloadAt, Loaded, Busy, Reloading
<1> QED BY <1>1, <1>2 DEF CallState, UndisturbedCalls

(* While reloads come one at a time and calls at any time, a thread in the *)
(* handler is in one that exists, of a library that is open, unless a      *)
(* reload has deleted the handler in the course of its call; and a reload  *)
(* deletes a handler that exists.                                          *)
THEOREM CallsStayInLiving ==
  ASSUME OneAtATime
  PROVE  Spec => []UndisturbedCalls
<1>1. OwnDescriptor => TypeOK
  BY DEF OwnDescriptor
<1>2. TypeOK /\ ReloadInv /\ CallState /\ [Next]_vars => CallState'
  BY CallsNext
<1>3. CallState /\ ReloadInv => UndisturbedCalls
  BY CallsAreSound DEF ReloadInv
<1> QED BY <1>1, <1>2, <1>3, CallsInit, ReloadsAreSound, DescriptorsStayOwn, PTL DEF Spec
=============================================================================
