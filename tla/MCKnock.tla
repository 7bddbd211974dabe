------------------------------- MODULE MCKnock -------------------------------
(* A small instance of Knock: a zone, a user who knocks and two occupants, *)
(* and enough requests for a knock to be repeated.                         *)
EXTENDS Knock, TLC

CONSTANTS knocker, u1, u2, r1, r2

MCUser == {knocker, u1, u2}
MCRequestId == {r1, r2}

(* Bound: the occupants do not knock.                                      *)
OneKnocks == \A u \in User \ {knocker} : task[u].at \notin Checked

Interchangeable == Permutations({u1, u2}) \cup Permutations(MCRequestId)

=============================================================================
