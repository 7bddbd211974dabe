----------------------------- MODULE MCChatFanout -----------------------------
(* A small instance of ChatFanout: three users, of whom two form a session *)
(* and the third may be let in, or arrive late.                            *)
EXTENDS ChatFanout, TLC

CONSTANTS u1, u2, u3

MCUser == {u1, u2, u3}
MCGuest == {u3}

Interchangeable == Permutations({u1, u2})

=============================================================================
