---------------------------- MODULE RoomLifecycle ----------------------------
(***************************************************************************)
(* The life of WebSocket connections in the Rooms of one workspace:        *)
(* Hub.Join, Room.register, Room.unregister, Client.ReadPump and the part  *)
(* of Client.Send that drops a slow client (src/internal/hub: hub.go,      *)
(* room.go, client.go).  Rooms of different workspaces share nothing, so   *)
(* one workspace is enough.                                                *)
(*                                                                         *)
(* Each connection is served by one goroutine at a time: the HTTP handler  *)
(* that runs Join and then the ReadPump it starts.  pc[c] is where that    *)
(* goroutine is.  Every critical section of lifecycleMu is cut into its    *)
(* steps, so the lock is a variable and not an assumption.                 *)
(*                                                                         *)
(* view[c] is the set of other users the client behind c would show once   *)
(* it has read what its FIFO send channel holds: the welcome sets it, a    *)
(* joined adds to it, a left takes from it.                                *)
(***************************************************************************)
EXTENDS FiniteSets

CONSTANTS
  User,          \* users of the workspace
  Conn,          \* connections (*Client objects), each used once
  UserOf,        \* the user a connection's token names
  SlowConn,      \* connections whose 256-message send buffer may fill up
  NoConn         \* no connection (and no room, and no lock holder)

ASSUME ConnAssumption ==
  /\ UserOf \in [Conn -> User]
  /\ SlowConn \subseteq Conn
  /\ NoConn \notin Conn

(* A Room is named by the connection whose Join creates it: a Join creates *)
(* at most one.                                                            *)
Room == Conn

VARIABLES
  hubRoom,       \* Hub.rooms at this workspace's ID, or NoConn
  ticking,       \* the Rooms whose three tickers run
  clients,       \* Room.clients: user -> registered connection or NoConn
  lock,          \* Room.lifecycleMu: the connection whose goroutine holds it
  pc,            \* where the goroutine serving a connection is
  room,          \* Client.room, or NoConn before Join has found it
  victim,        \* the connection the unregister in progress is about
  sock,          \* state of the socket: open, replaced (close due), closed
  full,          \* connections whose send buffer is full
  view,          \* the users a client shows, besides its own
  members        \* Redis: users with a presence hash and a member-set entry

vars == <<hubRoom, ticking, clients, lock, pc, room, victim, sock, full, view,
          members>>

Critical == {"store", "announce", "left", "remove", "shutdown", "stuck"}

TypeOK ==
  /\ hubRoom \in Room \cup {NoConn}
  /\ ticking \subseteq Room
  /\ clients \in [Room -> [User -> Conn \cup {NoConn}]]
  /\ lock \in [Room -> Conn \cup {NoConn}]
  /\ pc \in [Conn -> {"idle", "create", "register", "presence", "online",
                      "unregister", "closed"} \cup Critical]
  /\ room \in [Conn -> Room \cup {NoConn}]
  /\ victim \in [Conn -> Conn]
  /\ sock \in [Conn -> {"open", "replaced", "closed"}]
  /\ full \subseteq Conn
  /\ view \in [Conn -> SUBSET User]
  /\ members \subseteq User

Init ==
  /\ hubRoom = NoConn
  /\ ticking = {}
  /\ clients = [r \in Room |-> [u \in User |-> NoConn]]
  /\ lock = [r \in Room |-> NoConn]
  /\ pc = [c \in Conn |-> "idle"]
  /\ room = [c \in Conn |-> NoConn]
  /\ victim = [c \in Conn |-> c]
  /\ sock = [c \in Conn |-> "open"]
  /\ full = {}
  /\ view = [c \in Conn |-> {}]
  /\ members = {}

Users(r) == {u \in User : clients[r][u] # NoConn}

Registered(r) == {c \in Conn : clients[r][UserOf[c]] = c}

(* Mutant: lifecycleMu does not exclude anybody.                           *)
NeverWaits(r) == TRUE

(* lifecycleMu.Lock() does not wait.                                       *)
MayLock(r) == lock[r] = NoConn

Goto(c, label) == pc' = [pc EXCEPT ![c] = label]

(* The goroutine of c blocks for ever on a lifecycleMu it already holds:   *)
(* it sends to one of `receivers` whose buffer is full, and Send calls     *)
(* unregister.                                                             *)
Blocks(c, receivers) ==
  /\ receivers \cap full # {}
  /\ Goto(c, "stuck")

(* The views when those in D have been sent a joined, or a left, of u.     *)
WithJoined(D, u) ==
  [d \in Conn |-> IF d \in D THEN view[d] \cup {u} ELSE view[d]]

WithLeft(D, u) ==
  [d \in Conn |-> IF d \in D THEN view[d] \ {u} ELSE view[d]]

(***************************************************************************)
(* Hub.Join                                                                *)
(***************************************************************************)

(* getOrCreateRoom, the Load.  A miss is followed by LoadOrStore.          *)
Connect(c) ==
  /\ pc[c] = "idle"
  /\ room' = [room EXCEPT ![c] = hubRoom]
  /\ Goto(c, IF hubRoom = NoConn THEN "create" ELSE "register")
  /\ UNCHANGED <<hubRoom, ticking, clients, lock, victim, sock, full, view,
                 members>>

(* Mutant: the tickers are started on what Load returned, which is nothing.*)
TickersOfNothing(c) ==
  /\ pc[c] = "create"
  /\ hubRoom' = IF hubRoom = NoConn THEN c ELSE hubRoom
  /\ ticking' = ticking \cup {hubRoom}
  /\ room' = [room EXCEPT ![c] = hubRoom']
  /\ Goto(c, "register")
  /\ UNCHANGED <<clients, lock, victim, sock, full, view, members>>

(* getOrCreateRoom, the LoadOrStore: whoever stores starts the tickers.    *)
CreateRoom(c) ==
  /\ pc[c] = "create"
  /\ hubRoom' = IF hubRoom = NoConn THEN c ELSE hubRoom
  /\ ticking' = IF hubRoom = NoConn THEN ticking \cup {c} ELSE ticking
  /\ room' = [room EXCEPT ![c] = hubRoom']
  /\ Goto(c, "register")
  /\ UNCHANGED <<clients, lock, victim, sock, full, view, members>>

(* register: take lifecycleMu and snapshot the other players, the list the *)
(* welcome will carry.                                                     *)
LockRegister(c) ==
  LET r == room[c] IN
  /\ pc[c] = "register"
  /\ MayLock(r)
  /\ lock' = [lock EXCEPT ![r] = c]
  /\ view' = [view EXCEPT ![c] = Users(r) \ {UserOf[c]}]
  /\ Goto(c, "store")
  /\ UNCHANGED <<hubRoom, ticking, clients, room, victim, sock, full, members>>


(* The superseded connection is closed 200 ms later by a goroutine of its  *)
(* own.                                                                    *)
CloseLater(old) ==
  sock' = [x \in Conn |->
             IF x = old /\ sock[x] = "open" THEN "replaced" ELSE sock[x]]

(* register: store c over the user's old connection.  Unless it is the     *)
(* same tab again, the old one is sent session_replaced under the lock.    *)
Store(c) ==
  LET r   == room[c]
      old == clients[r][UserOf[c]]
  IN
  /\ pc[c] = "store"
  /\ clients' = [clients EXCEPT ![r][UserOf[c]] = c]
  /\ \E sameTab \in BOOLEAN :
       \/ (sameTab \/ old \notin full) /\ CloseLater(old) /\ Goto(c, "announce")
       \/ ~sameTab /\ Blocks(c, {old}) /\ UNCHANGED sock
  /\ UNCHANGED <<hubRoom, ticking, lock, room, victim, full, view, members>>

(* register: the welcome to c, the joined to everybody else, the chat      *)
(* sessions to c; unlock.                                                  *)
AnnounceJoin(c) ==
  LET r == room[c] IN
  /\ pc[c] = "announce"
  /\ \/ /\ Registered(r) \cap full = {}
        /\ view' = WithJoined(Registered(r) \ {c}, UserOf[c])
        /\ lock' = [lock EXCEPT ![r] = NoConn]
        /\ Goto(c, "presence")
     \/ /\ Blocks(c, Registered(r))
        /\ \E told \in SUBSET (Registered(r) \ (full \cup {c})) :
             view' = WithJoined(told, UserOf[c])
        /\ UNCHANGED lock
  /\ UNCHANGED <<hubRoom, ticking, clients, room, victim, sock, full, members>>

(* Join, after register has returned: write the presence, start the pumps. *)
SetPresence(c) ==
  /\ pc[c] = "presence"
  /\ members' = members \cup {UserOf[c]}
  /\ Goto(c, "online")
  /\ UNCHANGED <<hubRoom, ticking, clients, lock, room, victim, sock, full, view>>

(***************************************************************************)
(* A connection's ReadPump, and its end                                    *)
(***************************************************************************)

(* handleStatus writes the presence again.                                 *)
UpdateStatus(c) ==
  /\ pc[c] = "online"
  /\ members' = members \cup {UserOf[c]}
  /\ UNCHANGED <<hubRoom, ticking, clients, lock, pc, room, victim, sock, full,
                 view>>

(* The browser goes away, a deadline passes, the network fails.            *)
PeerCloses(c) ==
  /\ pc[c] \notin {"idle", "closed"}
  /\ sock[c] # "closed"
  /\ sock' = [sock EXCEPT ![c] = "closed"]
  /\ UNCHANGED <<hubRoom, ticking, clients, lock, pc, room, victim, full, view,
                 members>>

(* The delayed close of a superseded connection.                           *)
CloseReplaced(c) ==
  /\ sock[c] = "replaced"
  /\ sock' = [sock EXCEPT ![c] = "closed"]
  /\ UNCHANGED <<hubRoom, ticking, clients, lock, pc, room, victim, full, view,
                 members>>

(* ReadMessage fails: the deferred unregister(c) begins.                   *)
ReadFails(c) ==
  /\ pc[c] = "online"
  /\ sock[c] = "closed"
  /\ victim' = [victim EXCEPT ![c] = c]
  /\ Goto(c, "unregister")
  /\ UNCHANGED <<hubRoom, ticking, clients, lock, room, sock, full, view, members>>

(* The peer stops reading: the send buffer fills up, and may drain again.  *)
BufferFills(c) ==
  /\ c \in SlowConn \ full
  /\ pc[c] \in {"presence", "online"}
  /\ full' = full \cup {c}
  /\ UNCHANGED <<hubRoom, ticking, clients, lock, pc, room, victim, sock, view,
                 members>>

BufferDrains(c) ==
  /\ c \in full
  /\ full' = full \ {c}
  /\ UNCHANGED <<hubRoom, ticking, clients, lock, pc, room, victim, sock, view,
                 members>>

(* A handler of c, holding no lock, sends to the registered client d whose *)
(* buffer is full: Send calls unregister(d) on the goroutine of c.         *)
DropSlow(c, d) ==
  /\ pc[c] = "online"
  /\ d \in full \cap Registered(room[c])
  /\ victim' = [victim EXCEPT ![c] = d]
  /\ Goto(c, "unregister")
  /\ UNCHANGED <<hubRoom, ticking, clients, lock, room, sock, full, view, members>>

(***************************************************************************)
(* Room.unregister                                                         *)
(***************************************************************************)

(* unregister has returned.  After its own it is over with c; after a drop *)
(* Send closes the victim's channel, and WritePump then its socket.        *)
Return(c) ==
  /\ Goto(c, IF victim[c] = c THEN "closed" ELSE "online")
  /\ sock' = [sock EXCEPT ![victim[c]] = "closed"]

(* Mutant: Delete instead of CompareAndDelete.                             *)
MatchesAny(v, r) == clients[r][UserOf[v]] # NoConn

(* clients.CompareAndDelete(v.UserID, v) deletes.                          *)
Matches(v, r) == clients[r][UserOf[v]] = v

(* Take lifecycleMu; the victim is out of the map and its presence deleted.*)
Unregister(c) ==
  LET r == room[c]
      v == victim[c]
  IN
  /\ pc[c] = "unregister"
  /\ MayLock(r)
  /\ Matches(v, r)
  /\ clients' = [clients EXCEPT ![r][UserOf[v]] = NoConn]
  /\ members' = members \ {UserOf[v]}
  /\ lock' = [lock EXCEPT ![r] = c]
  /\ Goto(c, "left")
  /\ UNCHANGED <<hubRoom, ticking, room, victim, sock, full, view>>


(* Mutant: the presence is deleted before the guard.                       *)
StaleDeletesPresence(c) ==
  /\ pc[c] = "unregister"
  /\ MayLock(room[c])
  /\ ~Matches(victim[c], room[c])
  /\ members' = members \ {UserOf[victim[c]]}
  /\ Return(c)
  /\ UNCHANGED <<hubRoom, ticking, clients, lock, room, victim, full, view>>

(* The early return: the victim is not the registered connection (any more)*)
(* and unregister has no effect.                                           *)
UnregisterStale(c) ==
  /\ pc[c] = "unregister"
  /\ MayLock(room[c])
  /\ ~Matches(victim[c], room[c])
  /\ Return(c)
  /\ UNCHANGED <<hubRoom, ticking, clients, lock, room, victim, full, view,
                 members>>

(* Broadcast left; with nobody remaining, go on to drop the room.          *)
AnnounceLeft(c) ==
  LET r == room[c] IN
  /\ pc[c] = "left"
  /\ \/ /\ Registered(r) \cap full = {}
        /\ view' = WithLeft(Registered(r), UserOf[victim[c]])
        /\ \/ Users(r) = {} /\ Goto(c, "remove") /\ UNCHANGED <<lock, sock>>
           \/ Users(r) # {} /\ lock' = [lock EXCEPT ![r] = NoConn] /\ Return(c)
     \/ /\ Blocks(c, Registered(r))
        /\ \E told \in SUBSET (Registered(r) \ full) :
             view' = WithLeft(told, UserOf[victim[c]])
        /\ UNCHANGED <<lock, sock>>
  /\ UNCHANGED <<hubRoom, ticking, clients, room, victim, full, members>>

(* Mutant: the empty room stays in the hub.                                *)
KeepRoom(c) ==
  /\ pc[c] = "remove"
  /\ Goto(c, "shutdown")
  /\ UNCHANGED <<hubRoom, ticking, clients, lock, room, victim, sock, full, view,
                 members>>

(* hub.removeRoom deletes whatever room the workspace ID names.            *)
RemoveRoom(c) ==
  /\ pc[c] = "remove"
  /\ hubRoom' = NoConn
  /\ Goto(c, "shutdown")
  /\ UNCHANGED <<ticking, clients, lock, room, victim, sock, full, view, members>>

(* shutdown stops the tickers; unlock.                                     *)
Shutdown(c) ==
  /\ pc[c] = "shutdown"
  /\ ticking' = ticking \ {room[c]}
  /\ lock' = [lock EXCEPT ![room[c]] = NoConn]
  /\ Return(c)
  /\ UNCHANGED <<hubRoom, clients, room, victim, full, view, members>>

Next ==
  \E c \in Conn :
    \/ Connect(c) \/ CreateRoom(c) \/ LockRegister(c) \/ Store(c)
    \/ AnnounceJoin(c) \/ SetPresence(c)
    \/ UpdateStatus(c) \/ PeerCloses(c) \/ CloseReplaced(c) \/ ReadFails(c)
    \/ BufferFills(c) \/ BufferDrains(c) \/ \E d \in Conn : DropSlow(c, d)
    \/ Unregister(c) \/ UnregisterStale(c)
    \/ AnnounceLeft(c) \/ RemoveRoom(c) \/ Shutdown(c)

Spec == Init /\ [][Next]_vars

(* A goroutine that can run does, and the delayed close is a timer.  Weak  *)
(* fairness is enough even of the two lock acquisitions: a connection is   *)
(* used once, so lifecycleMu is only locked finitely often.  Nothing makes *)
(* a browser connect, leave, or drain.                                     *)
Proceeds(c) ==
  \/ CreateRoom(c) \/ LockRegister(c) \/ Store(c) \/ AnnounceJoin(c)
  \/ SetPresence(c) \/ ReadFails(c) \/ Unregister(c) \/ UnregisterStale(c)
  \/ AnnounceLeft(c) \/ RemoveRoom(c) \/ Shutdown(c)

Fairness == \A c \in Conn : WF_vars(Proceeds(c)) /\ WF_vars(CloseReplaced(c))

FairSpec == Spec /\ Fairness

(***************************************************************************)
(* Properties                                                              *)
(***************************************************************************)

(* Whenever nobody is inside register or unregister, every registered      *)
(* client shows exactly the other registered users: simultaneous joins and *)
(* leaves never leave presence asymmetric (the reason room.go gives for    *)
(* lifecycleMu).                                                           *)
PresenceAgreement ==
  \A r \in Room : lock[r] = NoConn =>
    \A c \in Registered(r) : view[c] = Users(r) \ {UserOf[c]}

(* A user with an open connection that nobody is dropping is registered:   *)
(* the late unregister of a connection it superseded does not evict the    *)
(* user (CompareAndDelete in unregister).                                  *)
NoPhantomEviction ==
  \A c \in Conn :
    /\ pc[c] = "online" /\ sock[c] = "open"
    /\ \A d \in Conn : victim[d] = c => pc[d] \notin Critical
    => UserOf[c] \in Users(room[c])

(* The room Join hands out still has its tickers: unregister takes an empty*)
(* room out of the hub before it stops them.                               *)
HubRoomTicks == hubRoom # NoConn => hubRoom \in ticking

(* A registered, fully joined connection has its user in Redis, although   *)
(* Join writes the presence after unlocking: as long as the user has not   *)
(* been in another Room of the workspace.                                  *)
PresenceRecorded ==
  \A c \in Conn :
    /\ pc[c] = "online" /\ c \in Registered(room[c])
    /\ \A d \in Conn : UserOf[d] = UserOf[c] => room[d] \in {room[c], NoConn}
    => UserOf[c] \in members

(* The goroutine of a connection of r is blocked on the lifecycleMu it     *)
(* holds, and with it everybody who needs that mutex.                      *)
StuckIn(r) == \E d \in Conn : pc[d] = "stuck" /\ room[d] = r


Departing(c) ==
  \/ sock[c] # "open"
  \/ pc[c] = "online" /\ c \notin Registered(room[c])

(* A connection whose socket is closed, and one that another connection of *)
(* its user has superseded, is eventually done with: its goroutine returns *)
(* from unregister and does not stay beside its successor.                 *)
DepartureCompletes == \A c \in Conn : Departing(c) ~> pc[c] = "closed"


(***************************************************************************)
(* Refinement                                                              *)
(***************************************************************************)

(* Who is present for the users of r: a registered user once every other   *)
(* registered client shows it, and one taken out of the map as long as     *)
(* somebody registered still does.                                         *)
Here(r) ==
  {u \in User :
     IF clients[r][u] # NoConn
     THEN \A d \in Registered(r) : UserOf[d] = u \/ u \in view[d]
     ELSE \E d \in Registered(r) : u \in view[d]}

(* The connection u is present by: the registered one, or the one whose    *)
(* unregister holds the lock.                                              *)
Seat(r, u) == IF clients[r][u] # NoConn THEN clients[r][u] ELSE victim[lock[r]]

Shows == [r \in Room |-> [u \in Here(r) |-> view[Seat(r, u)]]]

Book == INSTANCE Roster WITH shows <- Shows

NobodyStuck == \A c \in Conn : pc[c] # "stuck"

(* All that the users of a Room can tell of the steps of register and      *)
(* unregister is that one user has arrived or left, for everybody at the   *)
(* same time: a snapshot, a store, a takeover, the stale unregister of a   *)
(* superseded connection, the drop of a slow one outside the lock move     *)
(* nobody else.  Up to the first broadcast that blocks on a full buffer,   *)
(* which some have been sent and the rest never will be.                   *)
ImplementsRoster == Book!Init /\ [][NobodyStuck' => Book!Next]_Shows

=============================================================================
