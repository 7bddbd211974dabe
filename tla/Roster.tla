------------------------------- MODULE Roster -------------------------------
(* What a Room promises the users in it: they all show one roster.  A user *)
(* arrives for everybody at once, and departs for everybody at once; a tab *)
(* taking over from another is neither.  RoomLifecycle implements it with  *)
(* a snapshot, a map and two broadcasts under a lock.                      *)
CONSTANTS User, Room

VARIABLE shows     \* for each Room, the others that each user present shows

Present(r) == DOMAIN shows[r]

(* Everybody in P shows everybody else in P.                               *)
Alike(P) == [u \in P |-> P \ {u}]

Init == shows = [r \in Room |-> Alike({})]

Arrive(r, u) ==
  /\ u \notin Present(r)
  /\ shows' = [shows EXCEPT ![r] = Alike(Present(r) \cup {u})]

Depart(r, u) ==
  /\ u \in Present(r)
  /\ shows' = [shows EXCEPT ![r] = Alike(Present(r) \ {u})]

Next == \E r \in Room, u \in User : Arrive(r, u) \/ Depart(r, u)

Spec == Init /\ [][Next]_shows

=============================================================================
