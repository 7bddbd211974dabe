----------------------------- MODULE MCCircleAsk -----------------------------
(* A small instance of CircleAsk: two players who may form a circle, and a *)
(* third who asks to join it.                                              *)
EXTENDS CircleAsk, TLC

CONSTANTS u1, u2, u3

MCUser == {u1, u2, u3}
MCAsker == {u3}

Interchangeable == Permutations({u1, u2})

=============================================================================
