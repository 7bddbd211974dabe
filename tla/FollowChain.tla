----------------------------- MODULE FollowChain -----------------------------
(***************************************************************************)
(* Follow mode in one Room (src/internal/hub/room.go): the doubly linked   *)
(* chain of followers kept in Client.FollowTargetID and Client.FollowerID, *)
(* its mirror in Redis, and what clients are told of it.  A pointer is a   *)
(* user ID, looked up in Room.clients each time it is followed, so it may  *)
(* lead to another connection of that user, or nowhere.                    *)
(*                                                                         *)
(* Each handler holds followMu from its first read of a pointer to its last*)
(* write, so it is one action.  register and unregister hold lifecycleMu,  *)
(* and change Room.clients before they take followMu: two actions each.    *)
(* A Client object is used again once its connection is over.              *)
(***************************************************************************)
EXTENDS Naturals, FiniteSets

CONSTANTS
  User, Conn, UserOf,
  NoUser,            \* the empty pointer
  NoConn,            \* no connection
  MaxFollowChain     \* bound on a walk along the chain (256 in the code)

ASSUME FollowAssumption ==
  /\ UserOf \in [Conn -> User]
  /\ NoUser \notin User
  /\ NoConn \notin Conn
  /\ MaxFollowChain \in Nat

VARIABLES
  clients,           \* Room.clients: user -> registered connection or NoConn
  phase,             \* where a connection is in its life
  lifecycle,         \* the connection lifecycleMu is held for
  calm,              \* history: since the server started, nothing of what
                     \* Connect and Handles call disturbing has happened
  chain              \* the chain and what mirrors it, a record:
                     \*   ahead[c]  Client.FollowTargetID
                     \*   behind[c] Client.FollowerID
                     \*   key[u]    the follow key in Redis
                     \*   told[c]   whom c's own client was told to walk behind
                     \*   shown[u]  whom everybody was told u follows

vars == <<clients, phase, lifecycle, calm, chain>>

Pointer == User \cup {NoUser}

Chain ==
  [ahead : [Conn -> Pointer], behind : [Conn -> Pointer],
   key : [User -> Pointer], told : [Conn -> Pointer], shown : [User -> Pointer]]

TypeOK ==
  /\ clients \in [User -> Conn \cup {NoConn}]
  /\ phase \in [Conn -> {"new", "restoring", "in", "leaving", "dropped"}]
  /\ lifecycle \in Conn \cup {NoConn}
  /\ calm \in BOOLEAN
  /\ chain \in Chain

NoLinks == [c \in Conn |-> NoUser]

(* The server starts, over whatever follow keys its predecessors left in   *)
(* Redis.                                                                  *)
Init ==
  /\ clients = [u \in User |-> NoConn]
  /\ phase = [c \in Conn |-> "new"]
  /\ lifecycle = NoConn
  /\ calm = TRUE
  /\ \E key \in [User -> Pointer] :
       chain = [ahead |-> NoLinks, behind |-> NoLinks, key |-> key,
                told |-> NoLinks, shown |-> [u \in User |-> NoUser]]

(* getClient, and what it returns for an empty pointer: nothing.           *)
ClientOf(p) == IF p = NoUser THEN NoConn ELSE clients[p]

(***************************************************************************)
(* Walks along the chain: `link` is the field of s to follow.              *)
(***************************************************************************)

Step(link, c) ==
  IF ClientOf(link[c]) = NoConn THEN c ELSE ClientOf(link[c])

Walk(link, start) ==
  LET at[n \in 0..MaxFollowChain] ==
        IF n = 0 THEN start ELSE Step(link, at[n-1])
  IN at

WalkEnd(link, start) == Walk(link, start)[MaxFollowChain]

(* A walk clears the pointer it could not follow.                          *)
Repaired(link, start) ==
  LET end == WalkEnd(link, start) IN
  IF ClientOf(link[end]) = NoConn THEN [link EXCEPT ![end] = NoUser] ELSE link

(* resolveTail repairs the pointers behind, resolveLeader those ahead.     *)
RepairedBehind(s, start) == [s EXCEPT !.behind = Repaired(s.behind, start)]

RepairedAhead(s, start) == [s EXCEPT !.ahead = Repaired(s.ahead, start)]

(* Mutant: nobody is told.                                                 *)
NotAnnounced(s, c) == s

(* broadcastFollowChanged                                                  *)
Announced(s, c) == [s EXCEPT !.shown[UserOf[c]] = s.ahead[c]]

(***************************************************************************)
(* The operations on the chain                                             *)
(***************************************************************************)

(* Mutant: only c's own key is deleted, the one of its follower is kept.   *)
OwnKeyDeleted(key, c, a, b) == [key EXCEPT ![UserOf[c]] = NoUser]

(* Mutant: the follower's key gets the connection ahead, not its user.     *)
ConnectionPersisted(key, c, a, b) ==
  [u \in User |-> IF u = UserOf[c] THEN NoUser
                  ELSE IF u = b /\ clients[b] # NoConn THEN ClientOf(a)
                  ELSE key[u]]

(* The two calls of persistFollow in detach: the follower b gets a for its *)
(* target, c none.                                                         *)
KeysAfterDetach(key, c, a, b) ==
  [u \in User |-> IF u = UserOf[c] THEN NoUser
                  ELSE IF u = b /\ clients[b] # NoConn THEN a ELSE key[u]]

(* detach: c's two neighbours are linked to each other, and told.          *)
Detach(s, c) ==
  LET a == s.ahead[c]
      b == s.behind[c]
      A == ClientOf(a)
      B == ClientOf(b)
      linked ==
        [s EXCEPT
           !.behind = [x \in Conn |-> IF x = c THEN NoUser
                                      ELSE IF x = A THEN b ELSE s.behind[x]],
           !.ahead  = [x \in Conn |-> IF x = c THEN NoUser
                                      ELSE IF x = B THEN a ELSE s.ahead[x]],
           !.key    = KeysAfterDetach(s.key, c, a, b),
           !.told   = [x \in Conn |-> IF x = B THEN a ELSE s.told[x]]]
      healed == IF a # NoUser THEN RepairedAhead(linked, B) ELSE linked
  IN
  IF a = NoUser /\ b = NoUser THEN s
  ELSE IF B = NoConn THEN Announced(linked, c)
  ELSE Announced(Announced(healed, B), c)

(* c becomes the direct follower of d: pointers, Redis key, follow_assigned*)
(* to c (for which the chain leader is looked up).                         *)
Link(s, c, d) ==
  RepairedAhead([s EXCEPT !.ahead[c] = UserOf[d], !.behind[d] = UserOf[c],
                          !.key[UserOf[c]] = UserOf[d], !.told[c] = UserOf[d]],
                c)

(* Is u a node somewhere ahead of c?                                       *)
InChain(s, c, u) ==
  \E n \in 0..(MaxFollowChain - 1) : s.ahead[Walk(s.ahead, c)[n]] = u

(* Mutant: the old follower stays behind.                                  *)
NotReattached(s, c, old, target) == s

(* Mutant: the old follower is taken along even if detach has re-linked it.*)
AlwaysReattached(s, c, old, target) ==
  IF old \in {NoUser, target} \/ InChain(s, c, old) \/ ClientOf(old) = NoConn
  THEN s
  ELSE Announced(Link(s, ClientOf(old), c), ClientOf(old))

(* handleFollow, after c has been linked behind the tail: the follower c   *)
(* had before is taken along if c's own departure left it without a leader.*)
Reattached(s, c, old, target) ==
  LET B == ClientOf(old) IN
  IF /\ old \notin {NoUser, target}
     /\ ~InChain(s, c, old)
     /\ B # NoConn
     /\ s.ahead[B] = NoUser
  THEN Announced(Link(s, B, c), B)
  ELSE s

(* handleFollow: leave the present chain, append to the tail of the        *)
(* target's, bring the old follower along.                                 *)
Followed(s, c, target) ==
  LET left == RepairedBehind(Detach(s, c), clients[target])
      tail == WalkEnd(left.behind, clients[target])
  IN
  IF UserOf[tail] = UserOf[c] THEN left
  ELSE Reattached(Announced(Link(left, c, tail), c), c, s.behind[c], target)

(* register: append c to the tail of the saved target's line, if that user *)
(* is here, and delete the key.  welcome and joined carry the outcome.     *)
Resumed(s, c) ==
  LET u        == UserOf[c]
      target   == ClientOf(s.key[u])
      repaired == RepairedBehind(s, target)
      tail     == WalkEnd(repaired.behind, target)
      linked   == IF target = NoConn THEN s
                  ELSE IF UserOf[tail] = u THEN repaired
                  ELSE Link(repaired, c, tail)
  IN Announced([linked EXCEPT !.key[u] = NoUser], c)

(***************************************************************************)
(* Actions                                                                 *)
(***************************************************************************)

Linked(c) == c # NoConn /\ (chain.ahead[c] # NoUser \/ chain.behind[c] # NoUser)

(* register: take lifecycleMu, store the connection, over an earlier one of*)
(* the same user if there is one.  It is disturbing when that one is in a  *)
(* chain: pointers of its neighbours now lead to the new one, which has    *)
(* none.                                                                   *)
Connect(c) ==
  /\ phase[c] = "new"
  /\ lifecycle = NoConn
  /\ calm' = (calm /\ ~Linked(clients[UserOf[c]]))
  /\ clients' = [clients EXCEPT ![UserOf[c]] = c]
  /\ phase' = [phase EXCEPT ![c] = "restoring"]
  /\ lifecycle' = c
  /\ UNCHANGED chain

(* register: restore the chain, announce, unlock.                          *)
Restore(c) ==
  /\ phase[c] = "restoring"
  /\ chain' = Resumed(chain, c)
  /\ phase' = [phase EXCEPT ![c] = "in"]
  /\ lifecycle' = NoConn
  /\ UNCHANGED <<clients, calm>>

(* unregister of the registered connection: take lifecycleMu, delete.  It  *)
(* runs at the end of the connection's own ReadPump or, when its buffer is *)
(* full, on the goroutine of a sender.                                     *)
Disconnect(c) ==
  /\ phase[c] = "in"
  /\ lifecycle = NoConn
  /\ clients[UserOf[c]] = c
  /\ clients' = [clients EXCEPT ![UserOf[c]] = NoConn]
  /\ \E how \in {"leaving", "dropped"} : phase' = [phase EXCEPT ![c] = how]
  /\ lifecycle' = c
  /\ UNCHANGED <<calm, chain>>

(* The Client object of a finished connection is as good as new.           *)
Freed(s, c) == [s EXCEPT !.ahead[c] = NoUser, !.behind[c] = NoUser,
                         !.told[c] = NoUser]

(* unregister: heal the chain, unlock.  ExpireFollow finds no key any more,*)
(* detach has deleted it.  Its own goroutine is then over, one whose client*)
(* was dropped goes on reading until the socket is closed.                 *)
Heal(c) ==
  /\ \/ /\ phase[c] = "leaving"
        /\ chain' = Freed(Detach(chain, c), c)
        /\ phase' = [phase EXCEPT ![c] = "new"]
     \/ /\ phase[c] = "dropped"
        /\ chain' = Detach(chain, c)
        /\ phase' = [phase EXCEPT ![c] = "in"]
  /\ lifecycle' = NoConn
  /\ UNCHANGED <<clients, calm>>

(* unregister of a superseded or dropped connection returns early.         *)
DisconnectStale(c) ==
  /\ phase[c] = "in"
  /\ lifecycle = NoConn
  /\ clients[UserOf[c]] # c
  /\ chain' = Freed(chain, c)
  /\ phase' = [phase EXCEPT ![c] = "new"]
  /\ UNCHANGED <<clients, lifecycle, calm>>

(* A handler runs on the ReadPump of c.  It takes followMu only, so it is  *)
(* disturbing when c is not, or no longer, the registered connection of its*)
(* user, and when a register or unregister has changed Room.clients and not*)
(* yet the chain.                                                          *)
Handles(c) ==
  /\ phase[c] \in {"in", "dropped"}
  /\ calm' = (calm /\ clients[UserOf[c]] = c /\ lifecycle = NoConn)
  /\ UNCHANGED <<clients, phase, lifecycle>>

(* handleFollow, with a target.  A busy target declines: no step.          *)
Follow(c, target) ==
  /\ Handles(c)
  /\ target # UserOf[c]
  /\ clients[target] # NoConn
  /\ chain' = Followed(chain, c, target)

(* handleFollow without a target.  The client of c stops by itself.        *)
Unfollow(c) ==
  /\ Handles(c)
  /\ chain' = [Detach(chain, c) EXCEPT !.told[c] = NoUser]

(* handleStopFollower: c sends off its direct follower f, who is told.     *)
StopFollower(c, f) ==
  /\ Handles(c)
  /\ clients[f] # NoConn
  /\ chain.ahead[clients[f]] = UserOf[c]
  /\ chain' = [Detach(chain, clients[f]) EXCEPT !.told[clients[f]] = NoUser]

(* The server process dies and starts again; Redis keeps the follow keys.  *)
Restart ==
  /\ clients' = [u \in User |-> NoConn]
  /\ phase' = [c \in Conn |-> "new"]
  /\ lifecycle' = NoConn
  /\ calm' = TRUE
  /\ chain' = [chain EXCEPT !.ahead = NoLinks, !.behind = NoLinks,
                            !.told = NoLinks, !.shown = [u \in User |-> NoUser]]

Next ==
  \/ \E c \in Conn : \/ Connect(c) \/ Restore(c) \/ Disconnect(c) \/ Heal(c)
                     \/ DisconnectStale(c) \/ Unfollow(c)
                     \/ \E u \in User : Follow(c, u) \/ StopFollower(c, u)
  \/ Restart

Spec == Init /\ [][Next]_vars

(***************************************************************************)
(* Properties                                                              *)
(***************************************************************************)

Settled == lifecycle = NoConn

Online == {c \in Conn : clients[UserOf[c]] = c}

(* Nobody is, through others, ahead of itself.  room.go:1234 says that, as *)
(* handleFollow leaves the chain first, "appending below can never create a*)
(* cycle".                                                                 *)
NoCycle ==
  \A c \in Online : ClientOf(chain.ahead[c]) # NoConn =>
    \A n \in 1..MaxFollowChain : Walk(chain.ahead, c)[n] # c

(* What a server promises that has not been disturbed since it started,    *)
(* whatever the Redis keys are that an earlier, disturbed one left behind. *)
(*                                                                         *)
(* Between two registers or unregisters, c follows d exactly when d has c  *)
(* for its follower: the two pointers of a link never disagree, and none   *)
(* leads to a user who left.                                               *)
LinksSymmetric ==
  calm /\ Settled => \A c \in Online :
    /\ chain.ahead[c] # NoUser =>
         /\ clients[chain.ahead[c]] # NoConn
         /\ chain.behind[clients[chain.ahead[c]]] = UserOf[c]
    /\ chain.behind[c] # NoUser =>
         /\ clients[chain.behind[c]] # NoConn
         /\ chain.ahead[clients[chain.behind[c]]] = UserOf[c]

(* A client walks behind the user the server has it follow, and that is    *)
(* whom everybody else was told it follows: in an undisturbed server.      *)
ClientsInformed ==
  calm /\ Settled => \A c \in Online :
    chain.told[c] = chain.ahead[c] /\ chain.shown[UserOf[c]] = chain.ahead[c]

(* The Redis key of an online user, if there is one, is whom it follows:   *)
(* a restart of an undisturbed server restores no link that had been given *)
(* up.                                                                     *)
KeyIsCurrent ==
  calm /\ Settled => \A c \in Online :
    chain.key[UserOf[c]] \in {NoUser, chain.ahead[c]}

(***************************************************************************)
(* Refinement                                                              *)
(***************************************************************************)

(* Who stands for a user in a line: the registered connection or, under    *)
(* lifecycleMu, one on its way out, which the chain has not closed up      *)
(* behind yet.                                                             *)
Stands ==
  [u \in User |->
     IF lifecycle # NoConn /\ phase[lifecycle] \in {"leaving", "dropped"}
        /\ UserOf[lifecycle] = u
     THEN lifecycle ELSE clients[u]]

Leaders ==
  [u \in {v \in User : Stands[v] # NoConn} |-> chain.ahead[Stands[u]]]

Line == INSTANCE CongaLine WITH ahead <- Leaders

(* The pointers implement conga lines, up to the first disturbing step and *)
(* again after a restart: every handler moves users between lines as       *)
(* CongaLine says, and nobody else moves.                                  *)
ImplementsLines == Line!Init /\ [][calm' => Line!Next]_Leaders

=============================================================================
