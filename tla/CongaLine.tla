------------------------------ MODULE CongaLine ------------------------------
(* What the follow feature promises: the online users stand in conga lines,*)
(* each in exactly one, and a user who follows somebody goes to the end of *)
(* that line.  FollowChain implements it with two pointers per connection. *)
CONSTANTS User, NoUser

VARIABLE ahead     \* the user each online user walks behind, or NoUser for
                   \* who leads a line

Online == DOMAIN ahead

(* The users of the lines a from t on backwards: those in every set that   *)
(* has t in it, and with somebody also who walks behind.                   *)
LineFrom(a, t) ==
  {u \in DOMAIN a :
     \A S \in SUBSET DOMAIN a :
       t \in S /\ (\A x \in DOMAIN a : a[x] \in S => x \in S) => u \in S}

EndOf(a, t) == {e \in LineFrom(a, t) : \A x \in DOMAIN a : a[x] # e}

(* u steps out, and the gap closes up: who stood behind u now walks behind *)
(* who was ahead.                                                          *)
SteppedOut(a, u) ==
  [x \in DOMAIN a |-> IF x = u THEN NoUser ELSE IF a[x] = u THEN a[u] ELSE a[x]]

Nobody == [u \in {} |-> NoUser]

Init == ahead = Nobody

Join(u) ==
  /\ u \notin Online
  /\ ahead' = [x \in Online \cup {u} |-> IF x = u THEN NoUser ELSE ahead[x]]

Leave(u) ==
  /\ u \in Online
  /\ ahead' = [x \in Online \ {u} |-> SteppedOut(ahead, u)[x]]

(* u steps out of its line, alone (of its own will, or sent off by the user*)
(* directly ahead).                                                        *)
Unfollow(u) ==
  /\ u \in Online
  /\ ahead' = SteppedOut(ahead, u)

(* A leader joins another line with everybody behind it; anybody else goes *)
(* alone, and so does a leader to the end of its own line.                 *)
Follow(u, t) ==
  /\ u # t /\ {u, t} \subseteq Online
  /\ IF ahead[u] = NoUser /\ t \notin LineFrom(ahead, u)
     THEN \E e \in EndOf(ahead, t) : ahead' = [ahead EXCEPT ![u] = e]
     ELSE \E e \in EndOf(SteppedOut(ahead, u), t) :
            ahead' = [SteppedOut(ahead, u) EXCEPT ![u] = e]

(* The server restarts: nobody is connected.                               *)
Restart == ahead' = Nobody

Next ==
  \/ \E u \in User : Join(u) \/ Leave(u) \/ Unfollow(u)
  \/ \E u, t \in User : Follow(u, t)
  \/ Restart

Spec == Init /\ [][Next]_ahead

=============================================================================
