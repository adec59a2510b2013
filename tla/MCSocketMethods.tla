-------------------------- MODULE MCSocketMethods --------------------------
(* Instances of SocketMethods for TLC.                                     *)
EXTENDS SocketMethods

CONSTANTS server, handler

\* "_END_MESSAGE_BLOCK" in short: it starts with the "_" that a message may
\* also end with, and no end of it is a start of it.
MCDelimiter == <<"_", "E", "B">>

\* The empty message, and messages that look like the start of a delimiter.
MCPayloads == {<<>>, <<"_">>, <<"_", "E">>}
=============================================================================
