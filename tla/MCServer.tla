------------------------------ MODULE MCServer ------------------------------
(* Instances of Server for TLC. *)
EXTENDS Server

CONSTANTS c1, c2, good, other, missing, uncreating, undying

\* Libraries: two sound ones, a file that cannot be opened, and one that
\* lacks each symbol.
AllLibs == {good, other, missing, uncreating, undying}
=============================================================================
