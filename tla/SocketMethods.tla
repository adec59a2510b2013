--------------------------- MODULE SocketMethods ---------------------------
(***************************************************************************)
(* SocketMethods: messages over a TCP stream, each followed by a           *)
(* delimiter.  One direction of one connection, from the write of the peer *)
(* to the receive of the thread that owns the descriptor, which may be     *)
(* closed and given to the next connection.                                *)
(*                                                                         *)
(* The server and its command handler each have a SocketMethods object,    *)
(* and the thread receives now with the one, now with the other; what a    *)
(* receive has read beyond its message waits in that object's sockBuffer.  *)
(***************************************************************************)
EXTENDS Naturals, SequencesExt

CONSTANTS
    Readers,        \* the SocketMethods objects that receive on the descriptor
    NoReader,       \* no receive is under way
    Payloads,       \* the messages: sequences of characters
    Delimiter,      \* Commands::endMessageBlock
    ReadSize,       \* how much one recv() takes at most
    Window,         \* how many messages the peer sends ahead of its receiver
    Reconnects,     \* is the descriptor used again?
    MaxMessages,    \* bound: messages on a connection
    MaxParts        \* bound: send() calls on a connection that take a part

ASSUME SocketAssumption ==
    /\ Readers # {} /\ NoReader \notin Readers
    /\ \A m \in Payloads \cup {Delimiter} : m \in Seq(Range(m))
    /\ Delimiter # <<>>
    /\ ReadSize \in Nat \ {0} /\ Window \in Nat \ {0}
    /\ Reconnects \in BOOLEAN
    /\ MaxMessages \in Nat /\ MaxParts \in Nat

VARIABLES
    conn,       \* "open", "left" (by the peer) or "closed" (by its thread)
    wire,       \* the bytes in flight
    parts,      \* how many sends took a part only
    writing,    \* the peer's write: the message and its delimiter, or empty
    reader,     \* the object whose receive is under way
    message,    \* what that receive has read so far
    sockBuffer, \* sockBuffer[sock] of each object
    sent,       \* the messages written on this connection
    delivered,  \* the messages returned by receive on this connection
    mixed       \* history: did a receive begin here while other bytes of this
                \* connection, or any of an earlier one, were in a sockBuffer?

vars == <<conn, wire, parts, writing, reader, message, sockBuffer, sent, delivered, mixed>>

(* Operators named Faulty... are what a plausible bug would make of the     *)
(* definition they precede; each breaks a property of the runs.            *)

Init ==
    /\ conn = "open"
    /\ wire = <<>> /\ parts = 0 /\ writing = <<>>
    /\ reader = NoReader /\ message = <<>>
    /\ sockBuffer = [r \in Readers |-> <<>>]
    /\ sent = <<>> /\ delivered = <<>>
    /\ mixed = FALSE

-----------------------------------------------------------------------------
(* find, and getCurrentMessage: what precedes the first delimiter *)

Ends(s) == {k \in 0 .. Len(s) : IsPrefix(Delimiter, SubSeq(s, k + 1, Len(s)))}
Complete(s) == Ends(s) # {}
CurrentMessage(s) == SubSeq(s, 1, Min(Ends(s)))
Rest(s) == SubSeq(s, Min(Ends(s)) + Len(Delimiter) + 1, Len(s))

-----------------------------------------------------------------------------
(* The peer: write, and what can happen to it *)

Write ==
    /\ conn = "open" /\ writing = <<>>
    /\ Len(sent) < MaxMessages /\ Len(sent) < Len(delivered) + Window
    /\ \E m \in Payloads : sent' = Append(sent, m) /\ writing' = m \o Delimiter
    /\ UNCHANGED <<parts, conn, wire, reader, message, sockBuffer, delivered, mixed>>

FaultySendAll ==
    /\ conn = "open" /\ writing # <<>>
    /\ wire' = wire \o writing
    /\ UNCHANGED <<parts, conn, writing, reader, message, sockBuffer, sent, delivered, mixed>>

(* send() takes it all; the receiver still sees it in pieces. *)
SendAll ==
    /\ conn = "open" /\ writing # <<>>
    /\ wire' = wire \o writing
    /\ writing' = <<>>
    /\ UNCHANGED <<parts, conn, reader, message, sockBuffer, sent, delivered, mixed>>

(* send() takes a part; the loop sends again, from the first byte. *)
SendPart ==
    /\ conn = "open" /\ writing # <<>> /\ parts < MaxParts
    /\ parts' = parts + 1
    /\ \E n \in 1 .. Len(writing) - 1 : wire' = wire \o SubSeq(writing, 1, n)
    /\ UNCHANGED <<conn, writing, reader, message, sockBuffer, sent, delivered, mixed>>

(* The peer closes its end, perhaps in the middle of a write. *)
PeerLeaves ==
    /\ conn = "open"
    /\ conn' = "left"
    /\ \E n \in 0 .. Len(writing) : wire' = wire \o SubSeq(writing, 1, n)
    /\ writing' = <<>>
    /\ UNCHANGED <<parts, reader, message, sockBuffer, sent, delivered, mixed>>

-----------------------------------------------------------------------------
(* receive *)

Waiting(r) == sockBuffer[r] # <<>>

(* What was buffered is taken whole: the message it is searched for is     *)
(* still empty, so the branch for a buffered delimiter is never taken.     *)
Start(r) ==
    /\ conn # "closed" /\ reader = NoReader
    /\ reader' = r
    /\ message' = sockBuffer[r]
    /\ sockBuffer' = [sockBuffer EXCEPT ![r] = <<>>]
    /\ mixed' = (mixed \/ \E q \in Readers \ {r} : Waiting(q))
    /\ UNCHANGED <<parts, conn, wire, writing, sent, delivered>>

(* recv() asks for one less than the buffer is long, for the NULL. *)
Recv ==
    /\ reader # NoReader /\ ~Complete(message)
    /\ \E n \in 1 .. Min({ReadSize, Len(wire)}) :
          /\ message' = message \o SubSeq(wire, 1, n)
          /\ wire' = SubSeq(wire, n + 1, Len(wire))
    /\ UNCHANGED <<parts, conn, writing, reader, sockBuffer, sent, delivered, mixed>>

FaultyRecvFails ==      \* hands over what it had read
    /\ reader # NoReader /\ ~Complete(message)
    /\ conn = "left"
    /\ wire' = <<>>
    /\ delivered' = Append(delivered, message)
    /\ reader' = NoReader
    /\ message' = <<>>
    /\ UNCHANGED <<parts, conn, writing, sockBuffer, sent, mixed>>

(* recv() returned 0, or -1 after a reset: receive fails, and what it had  *)
(* read is lost.                                                           *)
RecvFails ==
    /\ reader # NoReader /\ ~Complete(message)
    /\ conn = "left"
    /\ wire' = <<>>
    /\ reader' = NoReader
    /\ message' = <<>>
    /\ UNCHANGED <<parts, conn, writing, sockBuffer, sent, delivered, mixed>>

FaultyReturn ==
    /\ reader # NoReader /\ Complete(message)
    /\ delivered' = Append(delivered, CurrentMessage(message))
    /\ message' = <<>>
    /\ reader' = NoReader
    /\ UNCHANGED <<parts, conn, wire, writing, sockBuffer, sent, mixed>>

Return ==
    /\ reader # NoReader /\ Complete(message)
    /\ delivered' = Append(delivered, CurrentMessage(message))
    /\ sockBuffer' = [sockBuffer EXCEPT ![reader] = @ \o Rest(message)]
    /\ message' = <<>>
    /\ reader' = NoReader
    /\ UNCHANGED <<parts, conn, wire, writing, sent, mixed>>

-----------------------------------------------------------------------------
(* The thread closes the descriptor when a receive failed or its client    *)
(* said SHUTDOWN; accept gives the number to the next client.              *)

Close ==
    /\ conn # "closed" /\ reader = NoReader
    /\ conn' = "closed"
    /\ wire' = <<>> /\ writing' = <<>>
    /\ UNCHANGED <<parts, reader, message, sockBuffer, sent, delivered, mixed>>

Connect ==
    /\ Reconnects /\ conn = "closed"
    /\ conn' = "open"
    /\ sent' = <<>> /\ delivered' = <<>> /\ parts' = 0
    /\ mixed' = (\E r \in Readers : Waiting(r))
    /\ UNCHANGED <<wire, writing, reader, message, sockBuffer>>

Receive == Recv \/ RecvFails \/ Return \/ \E r \in Readers : Start(r)
Next == Write \/ SendAll \/ SendPart \/ PeerLeaves \/ Receive \/ Close \/ Connect

(* A write that has begun goes on, a receive that can go on does, and the  *)
(* thread receives again (every command returns to handleClient's loop).   *)
Spec == Init /\ [][Next]_vars
FairSpec == Spec /\ WF_vars(SendAll) /\ WF_vars(Receive)

-----------------------------------------------------------------------------
(* Properties *)

Chars == UNION {Range(m) : m \in Payloads \cup {Delimiter}}

(* Every variable has the type the code gives it; a sockBuffer never holds *)
(* as much as one recv() takes.                                            *)
TypeOK ==
    /\ conn \in {"open", "left", "closed"}
    /\ parts \in 0 .. MaxParts
    /\ wire \in Seq(Chars) /\ writing \in Seq(Chars) /\ message \in Seq(Chars)
    /\ reader \in Readers \cup {NoReader}
    /\ sockBuffer \in [Readers -> Seq(Chars)]
    /\ \A r \in Readers : Len(sockBuffer[r]) < ReadSize
    /\ sent \in Seq(Payloads)
    /\ delivered \in Seq(Seq(Chars))
    /\ mixed \in BOOLEAN

(* "short message tests when two messages get into one recieve buffer" and *)
(* "tests when write() doesn't write everything": however the stream was   *)
(* cut, what receive returned is what was written, in order, nothing twice *)
(* and nothing missing.                                                    *)
WholeMessages == IsPrefix(delivered, sent)

(* "huge message tests when write() doesn't write everything": although    *)
(* the loop sends the message again from its start, every message written  *)
(* arrives at the end of the one received in its place, in order, and no   *)
(* more of them have something in front than there were cut sends (when no *)
(* message starts with what could complete a delimiter that was cut), as   *)
(* long as no bytes wait in another sockBuffer or from another connection; *)
(* and every variable keeps its type.                                      *)
MessageIsTail ==
    /\ TypeOK
    /\ \/ mixed
       \/ /\ \A k \in 1 .. Len(delivered) : k <= Len(sent) /\ IsSuffix(sent[k], delivered[k])
          /\ Cardinality({k \in 1 .. Len(delivered) : delivered[k] # sent[k]}) <= parts

(* "short message tests when two messages get into one recieve buffer":    *)
(* each connection is a channel of messages, whichever object receives     *)
(* them, until a send is cut or bytes wait in another sockBuffer; for the  *)
(* channel the connection has ended then.                                  *)
Intact == ~mixed /\ parts = 0
Channel == INSTANCE MessageChannel WITH
    Messages <- Payloads,
    sent <- IF Intact THEN sent ELSE <<>>,
    delivered <- IF Intact THEN delivered ELSE <<>>
ImplementsChannel == Channel!Spec

(* A message that was written is delivered, unless the connection ends or  *)
(* bytes of it wait where no receive looks: nothing waits in a buffer for  *)
(* bytes that will not come.                                               *)
EverySentArrives ==
    \A k \in 1 .. MaxMessages :
        Len(sent) >= k ~> Len(delivered) >= k \/ conn # "open" \/ mixed
=============================================================================
