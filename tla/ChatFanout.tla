----------------------------- MODULE ChatFanout -----------------------------
(***************************************************************************)
(* Telling every client which chat sessions there are                      *)
(* (src/internal/hub/chatspace.go: chatStateChangedLocked,                 *)
(* broadcastChatState and sendChatStateTo, with the five operations that   *)
(* change sessions under chatSessionMu and broadcast after unlocking it).  *)
(*                                                                         *)
(* A goroutine is the one that serves a user's connection, or the Ticker of*)
(* runSessionTicker.  pc[g] is where it is.  A client reads at once what it*)
(* is sent.  Which changes a tick makes is the subject of ChatSpace: here  *)
(* it makes any of those it might.                                         *)
(***************************************************************************)
EXTENDS Naturals, FiniteSets

CONSTANTS
  User,          \* users of the workspace
  Guest,         \* users who are not there yet, and may come and go
  Session,       \* session IDs, each given out once
  Ticker,        \* the goroutine of runSessionTicker
  MaxChanges     \* bound: the sessions change this often

ASSUME FanoutAssumption == Ticker \notin User /\ Guest \subseteq User /\ MaxChanges \in Nat

Goroutine == User \cup {Ticker}

(* What a client shows: the members of every session, {} for no session.   *)
State == [Session -> SUBSET User]

Empty == [i \in Session |-> {}]

VARIABLES
  clients,       \* Room.clients: the users registered
  pc,            \* where a goroutine is
  sessions,      \* Room.chatSessions (the hash last broadcast is its own)
  used,          \* session IDs that have been given out
  news,          \* the snapshot a goroutine is sending
  todo,          \* the clients its Range has yet to visit
  shown,         \* what the page of a user shows
  changes,       \* how often the sessions have changed
  told,          \* clients sent the sessions as they are since they changed
  overlapped     \* the last change was made while an older state was sent

vars == <<clients, pc, sessions, used, news, todo, shown, changes, told, overlapped>>

TypeOK ==
  /\ clients \subseteq User
  /\ pc \in [Goroutine -> {"off", "greet", "welcome", "reading", "spread",
                           "leave"}]
  /\ sessions \in State
  /\ used \subseteq Session
  /\ news \in [Goroutine -> State]
  /\ todo \in [Goroutine -> SUBSET User]
  /\ shown \in [User -> State]
  /\ told \subseteq User
  /\ changes \in 0..MaxChanges
  /\ overlapped \in BOOLEAN

Init ==
  /\ clients = User \ Guest
  /\ pc = [g \in Goroutine |-> IF g \in Guest THEN "off" ELSE "reading"]
  /\ sessions = Empty
  /\ used = {}
  /\ news = [g \in Goroutine |-> Empty]
  /\ todo = [g \in Goroutine |-> {}]
  /\ shown = [u \in User |-> Empty]
  /\ told = clients
  /\ changes = 0
  /\ overlapped = FALSE

Goto(g, label) == pc' = [pc EXCEPT ![g] = label]

Sending(g) == pc[g] \in {"welcome", "spread", "leave"}

(* lifecycleMu is free: nobody is inside register or unregister.           *)
LifecycleFree == \A u \in User : pc[u] \notin {"greet", "welcome", "leave"}

(***************************************************************************)
(* Changes                                                                 *)
(***************************************************************************)

(* Mutant: the goroutine that makes the change is among those it tells.    *)
ChangeTold(g, next, audience, label) ==
  /\ sessions' = next
  /\ IF next = sessions
     THEN UNCHANGED <<news, todo, changes, told, overlapped, pc>>
     ELSE /\ changes < MaxChanges /\ changes' = changes + 1
          /\ news' = [news EXCEPT ![g] = next]
          /\ todo' = [todo EXCEPT ![g] = audience \cup {g}]
          /\ told' = {}
          /\ overlapped' = \E h \in Goroutine : Sending(h)
          /\ Goto(g, label)

(* A critical section of chatSessionMu, by g, that leaves the sessions as  *)
(* `next`, and the `audience` that gets the snapshot when the hash differs.*)
Change(g, next, audience, label) ==
  /\ sessions' = next
  /\ IF next = sessions
     THEN UNCHANGED <<news, todo, changes, told, overlapped, pc>>
     ELSE /\ changes < MaxChanges /\ changes' = changes + 1
          /\ news' = [news EXCEPT ![g] = next]
          /\ todo' = [todo EXCEPT ![g] = audience]
          /\ told' = {}
          /\ overlapped' = \E h \in Goroutine : Sending(h)
          /\ Goto(g, label)

(* removeFromSessionLocked, for a user who may be in a session.            *)
Without(u) ==
  [i \in Session |->
     IF u \notin sessions[i] THEN sessions[i]
     ELSE IF Cardinality(sessions[i]) > 2 THEN sessions[i] \ {u} ELSE {}]

InSession(u) == \E i \in Session : u \in sessions[i]

(* leaveChatSession, for handleCircleLeave.                                *)
Leave(u) ==
  /\ pc[u] = "reading" /\ u \in clients /\ InSession(u)
  /\ Change(u, Without(u), clients, "spread")
  /\ UNCHANGED <<clients, used, shown>>

(* addToChatSession, for a member m that accepts u: also when u has left.  *)
Add(m, u, i) ==
  /\ pc[m] = "reading" /\ m \in clients /\ m # u
  /\ sessions[i] # {} /\ u \notin sessions[i]
  /\ Change(m, [Without(u) EXCEPT ![i] = @ \cup {u}], clients, "spread")
  /\ UNCHANGED <<clients, used, shown>>

(* recomputeChatSessions takes a member out.                               *)
TickRemoves(u) ==
  /\ pc[Ticker] = "reading" /\ InSession(u)
  /\ Change(Ticker, Without(u), clients, "spread")
  /\ UNCHANGED <<clients, used, shown>>

(* recomputeChatSessions makes a session of players without one.           *)
TickForms(i, S) ==
  /\ pc[Ticker] = "reading"
  /\ i \notin used /\ S \subseteq clients /\ Cardinality(S) >= 2
  /\ \A u \in S : ~InSession(u)
  /\ Change(Ticker, [sessions EXCEPT ![i] = S], clients, "spread")
  /\ used' = used \cup {i}
  /\ UNCHANGED <<clients, shown>>

(***************************************************************************)
(* Sending                                                                 *)
(***************************************************************************)

(* Client.Send of the state s.                                             *)
Receive(d, s) ==
  /\ shown' = [shown EXCEPT ![d] = s]
  /\ told' = IF s = sessions THEN told \cup {d} ELSE told

(* broadcast: Range gets to the next client, if it is still in the map.    *)
SpreadTo(g, d) ==
  /\ pc[g] \in {"spread", "leave"} /\ d \in todo[g]
  /\ todo' = [todo EXCEPT ![g] = @ \ {d}]
  /\ IF d \in clients THEN Receive(d, news[g]) ELSE UNCHANGED <<shown, told>>
  /\ UNCHANGED <<clients, pc, sessions, used, news, changes, overlapped>>

(* Mutant: the ticker stops at the first client it cannot send to.         *)
SpreadCutShort(g) ==
  /\ pc[g] \in {"spread", "leave"} /\ todo[g] \cap clients # clients
  /\ Goto(g, IF pc[g] = "leave" THEN "off" ELSE "reading")
  /\ news' = [news EXCEPT ![g] = Empty]
  /\ todo' = [todo EXCEPT ![g] = {}]
  /\ UNCHANGED <<clients, sessions, used, shown, changes, told, overlapped>>

(* broadcastChatState returns; so does unregister, for a user who left.    *)
Spread(g) ==
  /\ pc[g] \in {"spread", "leave"} /\ todo[g] = {}
  /\ Goto(g, IF pc[g] = "leave" THEN "off" ELSE "reading")
  /\ news' = [news EXCEPT ![g] = Empty]
  /\ UNCHANGED <<clients, sessions, used, todo, shown, changes, told, overlapped>>

(***************************************************************************)
(* Connections                                                             *)
(***************************************************************************)

(* register stores the client; the page is new.  A Range under way may or  *)
(* may not come across it.                                                 *)
Register(u) ==
  /\ pc[u] = "off" /\ LifecycleFree
  /\ clients' = clients \cup {u}
  /\ Goto(u, "greet")
  /\ shown' = [shown EXCEPT ![u] = Empty]
  /\ told' = told \ {u}
  /\ \E G \in SUBSET {g \in Goroutine : todo[g] # {}} :
       todo' = [g \in Goroutine |-> IF g \in G THEN todo[g] \cup {u} ELSE todo[g]]
  /\ UNCHANGED <<sessions, used, news, changes, overlapped>>

(* Mutant: only a client in a session is told of the sessions.             *)
GreetMembers(u) ==
  /\ pc[u] = "greet"
  /\ news' = [news EXCEPT ![u] = IF InSession(u) THEN sessions ELSE Empty]
  /\ Goto(u, "welcome")
  /\ UNCHANGED <<clients, sessions, used, todo, shown, changes, told, overlapped>>

(* register ends with sendChatStateTo: the snapshot, under chatSessionMu.  *)
Greet(u) ==
  /\ pc[u] = "greet"
  /\ news' = [news EXCEPT ![u] = sessions]
  /\ Goto(u, "welcome")
  /\ UNCHANGED <<clients, sessions, used, todo, shown, changes, told, overlapped>>

(* sendChatStateTo sends it after the unlock; then ReadPump starts.        *)
Welcome(u) ==
  /\ pc[u] = "welcome"
  /\ Receive(u, news[u])
  /\ news' = [news EXCEPT ![u] = Empty]
  /\ Goto(u, "reading")
  /\ UNCHANGED <<clients, sessions, used, todo, changes, overlapped>>

(* unregister: the client is out of the map; removeFromChatSession.        *)
Disconnect(u) ==
  /\ pc[u] = "reading" /\ u \in clients \cap Guest /\ LifecycleFree
  /\ clients' = clients \ {u}
  /\ IF InSession(u) THEN Change(u, Without(u), clients', "leave")
     ELSE Goto(u, "off") /\ UNCHANGED <<sessions, news, todo, changes, told, overlapped>>
  /\ UNCHANGED <<used, shown>>

Next ==
  \/ \E u \in User :
       \/ Register(u) \/ Greet(u) \/ Welcome(u) \/ Disconnect(u)
       \/ Leave(u) \/ TickRemoves(u)
       \/ \E m \in User, i \in Session : Add(m, u, i)
  \/ \E i \in Session, S \in SUBSET User : TickForms(i, S)
  \/ \E g \in Goroutine : Spread(g) \/ \E d \in User : SpreadTo(g, d)

Spec == Init /\ [][Next]_vars

(***************************************************************************)
(* Properties                                                              *)
(***************************************************************************)

Quiet == \A g \in Goroutine : ~Sending(g) /\ pc[g] # "greet"

(* Nobody misses a change of the sessions: once all broadcasts are over,   *)
(* every client has been sent the sessions as they are, although several   *)
(* goroutines change them and broadcast after the unlock, and clients come *)
(* while they do.                                                          *)
NewsReachesAll == Quiet => clients \subseteq told

(* Every viewer shows the same sessions, those of the server: always after *)
(* the broadcasts, unless the last change was made while the state before  *)
(* it was still being sent.                                                *)
ViewersAgree ==
  Quiet /\ ~overlapped => \A u \in clients : shown[u] = sessions

=============================================================================
