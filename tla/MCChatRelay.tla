----------------------------- MODULE MCChatRelay -----------------------------
(* Small instances of ChatRelay: a user with two connections, one of which *)
(* may supersede the other, and a user with one.                           *)
EXTENDS ChatRelay

CONSTANTS a1, a2, b1, ua, ub

MCConn == {a1, a2, b1}
MCUser == {ua, ub}
MCUserOf == [c \in MCConn |-> IF c = b1 THEN ub ELSE ua]

=============================================================================
