------------------------------ MODULE ChatSpace ------------------------------
(***************************************************************************)
(* Proximity chat in one Room (src/internal/hub/chatspace.go): which users *)
(* form a chat session, decided by the server from where they stand.       *)
(*                                                                         *)
(* Every operation on the sessions holds chatSessionMu, so it is one       *)
(* action.  The session ticker reads the positions before it takes the     *)
(* lock: Snapshot and Recompute are two actions, and anything may happen   *)
(* in between.  Time is counted in ticks of that ticker, the only place    *)
(* where the timers are read.  The floor is one row of tiles.              *)
(***************************************************************************)
EXTENDS Integers, FiniteSets

CONSTANTS
  User,              \* user IDs, ordered as the code's strings are
  Tile,              \* the tiles of the row
  Roam,              \* where a user ever is: all tiles, and Away, in the code
  Away,              \* where a connected user is whose status is busy or away
  Leaving,           \* in unregister, out of Room.clients
  Offline,           \* not connected
  SessionId,         \* session IDs; enough for one not in use to be at hand
  NoSession,
  Nothing,           \* the ticker holds no snapshot
  EndDebounce,       \* chatEndDebounce, in ticks (1)
  LeaveGrace,        \* chatLeaveGrace, in ticks (10)
  RejoinWindow       \* chatRejoinWindow, in ticks (50)

ASSUME ChatAssumption ==
  /\ User \subseteq Nat /\ IsFiniteSet(User)
  /\ Tile \subseteq Int /\ Roam \in [User -> SUBSET (Tile \cup {Away})]
  /\ Away \notin Tile /\ Leaving \notin Tile /\ Offline \notin Tile
  /\ NoSession \notin SessionId
  /\ Nothing \notin [User -> Tile \cup {Away}]
  /\ LeaveGrace \in Nat \ {0} /\ EndDebounce \in 0..LeaveGrace
  /\ RejoinWindow \in Nat

VARIABLES
  place,             \* where a user is
  seen,              \* the ticker's snapshot of the positions
  chat               \* what chatSessionMu guards, a record:
                     \*   members[i] chatSessions: the members; {} if there is
                     \*              no session i
                     \*   of[u]      playerSession
                     \*   apart[u]   chatMemberLeaveAt: ticks since, or NotApart
                     \*   from[u]    chatRecentlyLeft: the session left
                     \*   since[u]   chatRecentlyLeft: ticks since
                     \*   avoid[u]   chatSuppress: the peers u has left

vars == <<place, seen, chat>>

NotApart == -1

Chat ==
  [members : [SessionId -> SUBSET User],
   of      : [User -> SessionId \cup {NoSession}],
   apart   : [User -> NotApart..LeaveGrace],
   from    : [User -> SessionId \cup {NoSession}],
   since   : [User -> 0..RejoinWindow],
   avoid   : [User -> SUBSET User]]

TypeOK ==
  /\ place \in [User -> Tile \cup {Away, Leaving, Offline}]
  /\ seen \in [User -> Tile \cup {Away}] \cup {Nothing}
  /\ chat \in Chat

Init ==
  /\ place = [u \in User |-> Offline]
  /\ seen = Nothing
  /\ chat = [members |-> [i \in SessionId |-> {}],
             of      |-> [u \in User |-> NoSession],
             apart   |-> [u \in User |-> NotApart],
             from    |-> [u \in User |-> NoSession],
             since   |-> [u \in User |-> 0],
             avoid   |-> [u \in User |-> {}]]

(***************************************************************************)
(* Clustering: pos maps users to tiles, or to Away                         *)
(***************************************************************************)

Adjacent(pos, u, v) ==
  pos[u] \in Tile /\ pos[v] \in Tile /\ pos[u] - pos[v] \in -1..1

(* What a breadth-first search in S has reached from u, step by step.      *)
Grown(S, edges, r) == r \cup {v \in S : \E x \in r : <<x, v>> \in edges}

Search(S, edges, u) ==
  LET reached[n \in 0..Cardinality(S)] ==
        IF n = 0 THEN {u} ELSE Grown(S, edges, reached[n - 1])
  IN  reached

Component(S, edges, u) == Search(S, edges, u)[Cardinality(S)]

(* bfsClusters                                                             *)
Clusters(S, edges) == {Component(S, edges, u) : u \in S}

Standing(S, pos) == {u \in S : pos[u] \in Tile}

Touching(S, pos) == {e \in S \X S : Adjacent(pos, e[1], e[2])}

Lowest(S) == CHOOSE u \in S : \A v \in S : u <= v

(* largestConnectedComponent: the lowest ID breaks a tie.                  *)
Largest(M, pos) ==
  LET S == Standing(M, pos)
      C == Clusters(S, Touching(S, pos))
  IN
  IF S = {} THEN {}
  ELSE CHOOSE c \in C : \A d \in C :
         \/ Cardinality(d) < Cardinality(c)
         \/ Cardinality(d) = Cardinality(c) /\ Lowest(c) <= Lowest(d)

(***************************************************************************)
(* The passes of recomputeChatSessions                                     *)
(***************************************************************************)

(* Mutant: a window is open for ever.                                      *)
WindowNeverCloses(s) ==
  LET closed(u) == s.from[u] = NoSession IN
  [s EXCEPT
     !.apart = [u \in User |-> IF s.apart[u] \in {NotApart, LeaveGrace}
                               THEN s.apart[u] ELSE s.apart[u] + 1],
     !.since = [u \in User |-> IF closed(u) THEN 0 ELSE s.since[u] + 1]]

(* A tick later: windows that have closed are deleted.                     *)
Aged(s) ==
  LET closed(u) == s.from[u] = NoSession \/ s.since[u] = RejoinWindow IN
  [s EXCEPT
     !.apart = [u \in User |-> IF s.apart[u] \in {NotApart, LeaveGrace}
                               THEN s.apart[u] ELSE s.apart[u] + 1],
     !.from  = [u \in User |-> IF closed(u) THEN NoSession ELSE s.from[u]],
     !.since = [u \in User |-> IF closed(u) THEN 0 ELSE s.since[u] + 1]]

(* Users on the floor, in no session, whose window names a living session. *)
Returning(s, pos) ==
  {u \in User : /\ pos[u] \in Tile /\ s.of[u] = NoSession
                /\ s.from[u] # NoSession /\ s.members[s.from[u]] # {}}

(* Pass 0 goes through a map, in any order, and a user who has rejoined may*)
(* make another one adjacent: these are the sets of users it may take in.  *)
Rejoins(s, pos) ==
  LET near(R, u) == {v \in R : s.from[v] = s.from[u] /\ Adjacent(pos, u, v)}
      direct == {u \in Returning(s, pos) :
                   \E v \in s.members[s.from[u]] : Adjacent(pos, u, v)}
  IN
  {R \in SUBSET Returning(s, pos) :
     /\ direct \subseteq R
     /\ \A T \in SUBSET R : direct \subseteq T /\ T # R =>
          \E u \in R \ T : near(T, u) # {}}

(* Pass 0: users with an open window who are in a session already, or whose*)
(* session is gone, lose it; those of R are back in.                       *)
Rejoined(s, pos, R) ==
  LET over(u) == /\ pos[u] \in Tile
                 /\ \/ u \in R
                    \/ s.of[u] # NoSession
                    \/ s.from[u] # NoSession /\ s.members[s.from[u]] = {}
  IN
  [s EXCEPT
     !.members = [i \in SessionId |->
                    s.members[i] \cup {u \in R : s.from[u] = i}],
     !.of    = [u \in User |-> IF u \in R THEN s.from[u] ELSE s.of[u]],
     !.apart = [u \in User |-> IF u \in R THEN NotApart ELSE s.apart[u]],
     !.from  = [u \in User |-> IF over(u) THEN NoSession ELSE s.from[u]],
     !.since = [u \in User |-> IF over(u) THEN 0 ELSE s.since[u]]]

Grace(M) == IF Cardinality(M) <= 2 THEN EndDebounce ELSE LeaveGrace

(* Members of session i who have been apart from the group long enough.    *)
Expired(s, pos, i) ==
  {u \in s.members[i] \ Largest(s.members[i], pos) :
     s.apart[u] # NotApart /\ s.apart[u] >= Grace(s.members[i])}

Collapses(s, pos, i) ==
  Cardinality(s.members[i] \ Expired(s, pos, i)) < 2

(* Mutant: the timer starts afresh on every tick.                          *)
TimerRestarted(s, pos, u) ==
  LET i == CHOOSE j \in SessionId : u \in s.members[j] IN
  IF u \in Largest(s.members[i], pos) THEN NotApart ELSE 0

(* The timer of a member who stays.                                        *)
TimerOf(s, pos, u) ==
  LET i == CHOOSE j \in SessionId : u \in s.members[j] IN
  IF u \in Largest(s.members[i], pos) THEN NotApart
  ELSE IF s.apart[u] = NotApart THEN 0 ELSE s.apart[u]

(* Pass 1: members apart from their group are removed after the grace, and *)
(* get a rejoin window; a group of fewer than two dissolves.               *)
Maintained(s, pos) ==
  LET dissolved == {i \in SessionId : Collapses(s, pos, i)}
      freed   == UNION {s.members[i] : i \in dissolved}
      removed == UNION {Expired(s, pos, i) : i \in SessionId \ dissolved}
      seated  == UNION {s.members[i] : i \in SessionId}
  IN
  [s EXCEPT
     !.members = [i \in SessionId |-> s.members[i] \ (freed \cup removed)],
     !.of    = [u \in User |-> IF u \in freed \cup removed THEN NoSession
                               ELSE s.of[u]],
     !.apart = [u \in User |-> IF u \in freed \cup removed THEN NotApart
                               ELSE IF u \in seated THEN TimerOf(s, pos, u)
                               ELSE s.apart[u]],
     !.from  = [u \in User |->
                  IF u \in freed THEN NoSession
                  ELSE IF u \in removed
                       THEN CHOOSE i \in SessionId : u \in s.members[i]
                  ELSE s.from[u]],
     !.since = [u \in User |-> IF u \in freed \cup removed THEN 0
                               ELSE s.since[u]]]

(* Pass 1b: who no longer stands next to a peer they left avoids nobody.   *)
Unsuppressed(s, pos) ==
  [s EXCEPT !.avoid = [u \in User |->
     IF \E v \in s.avoid[u] : Adjacent(pos, u, v) THEN s.avoid[u] ELSE {}]]

Avoids(s, u, v) == v \in s.avoid[u] \/ u \in s.avoid[v]

(* The free users who may start a session, and the groups of pass 2.       *)
Free(s, pos) == {u \in User : pos[u] \in Tile /\ s.of[u] = NoSession}

(* Mutant: a group must have more members than chatSessionMinSize.         *)
GroupsOfThree(s, pos) ==
  LET F == Free(s, pos)
      E == {e \in Touching(F, pos) : ~Avoids(s, e[1], e[2])}
  IN {c \in Clusters(F, E) : Cardinality(c) > 2}

(* Mutant: suppression is not looked up.                                   *)
GroupsAnyhow(s, pos) ==
  LET F == Free(s, pos)
  IN {c \in Clusters(F, Touching(F, pos)) : Cardinality(c) >= 2}

Groups(s, pos) ==
  LET F == Free(s, pos)
      E == {e \in Touching(F, pos) : ~Avoids(s, e[1], e[2])}
  IN {c \in Clusters(F, E) : Cardinality(c) >= 2}

Unused(s) == {i \in SessionId : s.members[i] = {} /\ \A u \in User : s.from[u] # i}

(* Pass 2: each group becomes a session; `name` gives it a new ID.         *)
Formed(s, name) ==
  [s EXCEPT
     !.members = [i \in SessionId |->
                    IF \E g \in DOMAIN name : name[g] = i
                    THEN CHOOSE g \in DOMAIN name : name[g] = i
                    ELSE s.members[i]],
     !.of = [u \in User |-> IF \E g \in DOMAIN name : u \in g
                            THEN name[CHOOSE g \in DOMAIN name : u \in g]
                            ELSE s.of[u]]]

(* Mutant: the last member keeps its entry in playerSession.               *)
LoneMemberKept(s, i, u) ==
  LET kept == s.members[i] \ {u} IN
  [s EXCEPT !.members[i] = IF Cardinality(kept) < 2 THEN {} ELSE kept,
            !.of[u] = NoSession]

(* removeFromSessionLocked: a session of fewer than two dissolves.         *)
Without(s, i, u) ==
  LET kept == s.members[i] \ {u}
      gone == IF Cardinality(kept) < 2 THEN {u} \cup kept ELSE {u}
  IN
  [s EXCEPT !.members[i] = kept \ gone,
            !.of = [v \in User |-> IF v \in gone THEN NoSession ELSE s.of[v]]]

(***************************************************************************)
(* Actions                                                                 *)
(***************************************************************************)

(* register stores the client; its status is not busy.                     *)
Connect(u, t) ==
  /\ place[u] = Offline
  /\ \A v \in User : place[v] # Leaving
  /\ place' = [place EXCEPT ![u] = t]
  /\ UNCHANGED <<seen, chat>>

(* A connected user walks, is moved, or changes status.                    *)
Move(u, p) ==
  /\ place[u] \in (Tile \cup {Away}) \ {p}
  /\ place' = [place EXCEPT ![u] = p]
  /\ UNCHANGED <<seen, chat>>

(* unregister, up to its removal from Room.clients; it holds lifecycleMu.  *)
Disconnect(u) ==
  /\ place[u] \in Tile \cup {Away}
  /\ \A v \in User : place[v] # Leaving
  /\ place' = [place EXCEPT ![u] = Leaving]
  /\ UNCHANGED <<seen, chat>>

(* unregister goes on: removeFromChatSession.                              *)
RemoveFromChat(u) ==
  /\ place[u] = Leaving
  /\ place' = [place EXCEPT ![u] = Offline]
  /\ chat' = IF chat.of[u] = NoSession THEN chat ELSE Without(chat, chat.of[u], u)
  /\ UNCHANGED seen

(* handleCircleLeave: u leaves its session for good, and avoids the peers. *)
Leave(u) ==
  /\ place[u] \in Tile \cup {Away}
  /\ chat.of[u] # NoSession
  /\ LET peers == chat.members[chat.of[u]] \ {u}
         left  == Without(chat, chat.of[u], u)
     IN chat' = [left EXCEPT
                   !.avoid[u] = IF peers = {} THEN chat.avoid[u] ELSE peers,
                   !.apart[u] = NotApart,
                   !.from[u] = NoSession,
                   !.since[u] = 0]
  /\ UNCHANGED <<place, seen>>

(* handleCircleJoinDecide, allowing u into session i: wherever u is by now,*)
(* even disconnected.                                                      *)
Accept(i, u) ==
  /\ chat.members[i] # {}
  /\ u \notin chat.members[i]
  /\ LET moved == IF chat.of[u] = NoSession THEN chat
                  ELSE Without(chat, chat.of[u], u)
     IN chat' = [moved EXCEPT !.members[i] = @ \cup {u}, !.of[u] = i]
  /\ UNCHANGED <<place, seen>>

(* snapshotChatPositions                                                   *)
Snapshot ==
  /\ seen = Nothing
  /\ seen' = [u \in User |-> IF place[u] \in Tile THEN place[u] ELSE Away]
  /\ UNCHANGED <<place, chat>>

(* recomputeChatSessions, from the lock to the unlock.                     *)
Recompute ==
  /\ seen # Nothing
  /\ \E aged \in {Aged(chat)} :
     \E R \in Rejoins(aged, seen) :
     \E rejoined \in {Rejoined(aged, seen, R)} :
     \E maintained \in {Maintained(rejoined, seen)} :
     \E kept \in {Unsuppressed(maintained, seen)} :
     \E name \in [Groups(kept, seen) -> Unused(kept)] :
       /\ \A g, h \in DOMAIN name : name[g] = name[h] => g = h
       /\ chat' = Formed(kept, name)
  /\ seen' = Nothing
  /\ UNCHANGED place

Next ==
  \/ \E u \in User :
       \/ \E t \in Roam[u] \cap Tile : Connect(u, t)
       \/ \E p \in Roam[u] : Move(u, p)
       \/ Disconnect(u) \/ RemoveFromChat(u) \/ Leave(u)
       \/ \E i \in SessionId : Accept(i, u)
  \/ Snapshot
  \/ Recompute

Spec == Init /\ [][Next]_vars

(***************************************************************************)
(* Properties                                                              *)
(***************************************************************************)

(* The member lists and the index playerSession agree: a user is in at most*)
(* one session, the one the index names, and a session has two members or  *)
(* more (chatSessionMinSize).                                              *)
SessionsPartition ==
  /\ \A u \in User, i \in SessionId : u \in chat.members[i] <=> chat.of[u] = i
  /\ \A i \in SessionId : Cardinality(chat.members[i]) # 1

(* A tick has gone by.                                                     *)
Tick == seen # Nothing /\ seen' = Nothing

(* A member whom the tick did not see on the floor, being busy, away or    *)
(* disconnected, leaves its session, or is one tick nearer to the end of   *)
(* its grace: nothing restarts its timer, neither the coming and going of  *)
(* others nor its own move to another session after it has left the floor. *)
AbsentMembersLeave ==
  [][Tick => \A u \in {w \in User : seen[w] = Away} :
       chat.of[u] # NoSession /\ chat'.of[u] = chat.of[u] =>
         chat.apart[u] < chat'.apart[u] /\ chat'.apart[u] < LeaveGrace]_vars

(* Two users whom the tick saw next to each other are not both left without*)
(* a session, unless one avoids the other: also those it has freed or found*)
(* freed by others after it saw them.                                      *)
FreeNeighboursMeet ==
  [][Tick => \A u, v \in Free(chat', seen) :
       u < v /\ Adjacent(seen, u, v) => Avoids(chat', u, v)]_vars

(* A tick does not put a leaver and a peer it avoids, the two alone, into a*)
(* new session.  With a third user, next to both, it does.                 *)
LeaverNotPairedAgain ==
  [][Tick => \A u \in User : \A v \in chat'.avoid[u] : \A i \in SessionId :
       chat'.members[i] = {u, v} => chat.members[i] # {}]_vars

=============================================================================
