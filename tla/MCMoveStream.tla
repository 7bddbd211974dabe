----------------------------- MODULE MCMoveStream -----------------------------
(* Small instances of MoveStream: a watcher and a player, with one or more *)
(* connections.                                                            *)
EXTENDS MoveStream

CONSTANTS w1, a1, a2, uw, ua

MCUser == {uw, ua}
MCUserOf == [c \in Conn |-> IF c = w1 THEN uw ELSE ua]

=============================================================================
