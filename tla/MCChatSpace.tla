----------------------------- MODULE MCChatSpace -----------------------------
(* A small instance of ChatSpace.  A tile of the row holds several users, as*)
(* three tiles of the floor may be adjacent to each other.                 *)
EXTENDS ChatSpace, TLC

CONSTANTS i1, i2

MCUsers == 1..3
MCTiles == 0..4
MCIds == {i1, i2}

Interchangeable == Permutations(SessionId)

(* User 1 at 0 and user 2 at 1 are neighbours.  User 3 at 2 touches user 2 *)
(* only, hangs on the group by it, and may walk off.                       *)
MCRoam == [u \in User |-> CASE u = 1 -> {0} [] u = 2 -> {1}
                             [] OTHER -> {2, 4}]

=============================================================================
