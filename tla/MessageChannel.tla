--------------------------- MODULE MessageChannel ---------------------------
(***************************************************************************)
(* What SocketMethods promises about one direction of a connection: whole  *)
(* messages come out in the order they went in, each once, until the       *)
(* connection ends and the next one starts empty.                          *)
(***************************************************************************)
EXTENDS Naturals, Sequences

CONSTANT Messages

VARIABLES
    sent,       \* the messages written on this connection
    delivered   \* the messages handed to the receiver

Init == sent = <<>> /\ delivered = <<>>

Send ==
    /\ \E m \in Messages : sent' = Append(sent, m)
    /\ UNCHANGED delivered

Deliver ==
    /\ Len(delivered) < Len(sent)
    /\ delivered' = Append(delivered, sent[Len(delivered) + 1])
    /\ UNCHANGED sent

Restart == sent' = <<>> /\ delivered' = <<>>

Next == Send \/ Deliver \/ Restart

Spec == Init /\ [][Next]_<<sent, delivered>>
=============================================================================
