--------------------------- MODULE MCRoomLifecycle ---------------------------
(* Small instances of RoomLifecycle: a user with two tabs, so that one can *)
(* supersede the other, beside users with one.                             *)
EXTENDS RoomLifecycle

CONSTANTS a1, a2, b1, ua, ub

MCConn == {a1, a2, b1}
MCUser == {ua, ub}
MCUserOf == [c \in MCConn |-> IF c = b1 THEN ub ELSE ua]
MCSlowConn == {a1}

=============================================================================
