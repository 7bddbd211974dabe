-------------------------------- MODULE MCWalk --------------------------------
(* A small instance of Walk: a leader and a follower.                      *)
EXTENDS Walk, TLC

CONSTANTS u1, u2

MCUser == {u1, u2}
MCFollower == {u2}

=============================================================================
