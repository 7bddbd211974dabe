----------------------------- MODULE MoveStream -----------------------------
(***************************************************************************)
(* How the position of a player gets to the screen of another              *)
(* (src/internal/hub: aoi.go; the handlers of moves, sendNeighborSnapshot, *)
(* runSnapshotTicker and flushMoves of room.go; SendBin and WritePump of   *)
(* client.go).                                                             *)
(*                                                                         *)
(* The map is a line of tiles.  A walk is a destination: Walk has its path.*)
(* What one connection, the Watcher, is sent is followed to its screen,    *)
(* through its two channels, of which WritePump takes one or the other.  It*)
(* stays connected, and its tab in the foreground.                         *)
(***************************************************************************)
EXTENDS Integers, Sequences, SequencesExt

CONSTANTS
  User,          \* users of the workspace
  Conn,          \* connections (*Client objects), each used once
  UserOf,        \* the user a connection's token names
  Watcher,       \* the connection whose screen is followed
  Length,        \* tiles of the map
  WatcherTile,   \* tiles the watcher walks on
  CellSize,      \* AOICellSize (16 in the code)
  Room,          \* private rooms
  Floor,         \* RoomID when in none
  JsonBuffer,    \* bound: the watcher never has more unwritten in send
  BinBuffer,     \* capacity of sendBin
  None,          \* no connection, no entry, no avatar
  OnTheWay       \* an avatar that is walking, on a screen

Tile == 0..(Length - 1)
Cell == 0..(Length \div CellSize)

ASSUME StreamAssumption ==
  /\ UserOf \in [Conn -> User] /\ Watcher \in Conn
  /\ WatcherTile \subseteq Tile /\ 0 \in WatcherTile
  /\ Length \in Nat \ {0} /\ CellSize \in Nat \ {0}
  /\ JsonBuffer \in Nat \ {0} /\ BinBuffer \in Nat \ {0}
  /\ Floor \notin Room /\ None \notin Conn

VARIABLES
  clients,       \* Room.clients
  status,        \* "new", "open" or "gone", of a connection
  tile,          \* Client.TileX, TileY
  moving,        \* Client.IsMoving
  room,          \* Client.RoomID
  pos,           \* AOIGrid.pos: user -> cell, or None
  inCell,        \* AOIGrid.cells: the connection kept there for the user
  pendingMoves,  \* Room.pendingMoves: user -> tile and room, or None
  flushing,      \* the entry flushMoves has in hand, with its user, or None
  send,          \* Client.send of the Watcher: users and where they are
  sendBin,       \* Client.sendBin of the Watcher: the same
  shown          \* where the screen of the Watcher shows a user

grid == <<pos, inCell>>
client == <<clients, status, tile, moving, room>>
screen == <<send, sendBin, shown>>
vars == <<client, grid, pendingMoves, flushing, screen>>

Position == [tile : Tile, room : Room \cup {Floor}]

TypeOK ==
  /\ clients \in [User -> Conn \cup {None}]
  /\ status \in [Conn -> {"new", "open", "gone"}]
  /\ tile \in [Conn -> Tile]
  /\ moving \in [Conn -> BOOLEAN]
  /\ room \in [Conn -> Room \cup {Floor}]
  /\ pos \in [User -> Cell \cup {None}]
  /\ inCell \in [User -> Conn \cup {None}]
  /\ pendingMoves \in [User -> Position \cup {None}]
  /\ flushing \in (User \X Position) \cup {None}
  /\ send \in Seq(User \X (Tile \cup {None, OnTheWay})) /\ Len(send) <= JsonBuffer
  /\ sendBin \in Seq(User \X Tile) /\ Len(sendBin) <= BinBuffer
  /\ shown \in [User -> Tile \cup {None, OnTheWay}]

(* The watcher is alone at first.                                          *)
Init ==
  /\ clients = [u \in User |-> IF u = UserOf[Watcher] THEN Watcher ELSE None]
  /\ status = [c \in Conn |-> IF c = Watcher THEN "open" ELSE "new"]
  /\ tile = [c \in Conn |-> 0]
  /\ moving = [c \in Conn |-> FALSE]
  /\ room = [c \in Conn |-> Floor]
  /\ pos = [u \in User |-> IF u = UserOf[Watcher] THEN 0 ELSE None]
  /\ inCell = clients
  /\ pendingMoves = [u \in User |-> None]
  /\ flushing = None
  /\ send = <<>>
  /\ sendBin = <<>>
  /\ shown = [u \in User |-> None]

Me == UserOf[Watcher]

(***************************************************************************)
(* The grid                                                                *)
(***************************************************************************)

CellOf(t) == t \div CellSize

(* AOIGrid.Move; in the same cell the connection kept there stays.         *)
GridMove(c, t) ==
  IF pos[UserOf[c]] = CellOf(t) THEN UNCHANGED grid
  ELSE /\ pos' = [pos EXCEPT ![UserOf[c]] = CellOf(t)]
       /\ inCell' = [inCell EXCEPT ![UserOf[c]] = c]

(* Mutant: only the cell itself.                                           *)
OwnCell(t, u) ==
  {inCell[v] : v \in {w \in User \ {u} : pos[w] # None /\ CellOf(t) = pos[w]}}

(* AOIGrid.Subscribers around the tile t, without the user u.              *)
Subscribers(t, u) ==
  {inCell[v] : v \in {w \in User \ {u} : pos[w] # None /\ CellOf(t) - pos[w] \in -1..1}}

(***************************************************************************)
(* Sending to the watcher                                                  *)
(***************************************************************************)

(* Client.Send of some messages.                                           *)
Send(messages) ==
  /\ Len(send) + Len(messages) <= JsonBuffer
  /\ send' = send \o messages

(* What the watcher hears of a broadcastToRoom or broadcastExcept by c.    *)
Heard(c, where) ==
  IF c # Watcher /\ (room[c] = Floor \/ room[Watcher] = room[c])
  THEN << <<UserOf[c], where>> >> ELSE <<>>

(* The peers sendNeighborSnapshot has news of, for the watcher at t.       *)
StillNear(t) ==
  {d \in Subscribers(t, Me) : ~moving[d] /\ room[d] = room[Watcher]}

(* Mutant: nothing gives way.                                              *)
SendBinUnbounded(frame) == sendBin' = Append(sendBin, frame)

(* Client.SendBin: when the buffer is full, its oldest frame gives way.    *)
SendBin(frame) ==
  sendBin' = IF Len(sendBin) < BinBuffer THEN Append(sendBin, frame)
             ELSE Append(Tail(sendBin), frame)

(* WritePump writes a text message, and the browser shows it.              *)
WriteText ==
  /\ send # <<>>
  /\ shown' = [shown EXCEPT ![Head(send)[1]] = Head(send)[2]]
  /\ send' = Tail(send)
  /\ UNCHANGED <<client, grid, pendingMoves, flushing, sendBin>>

(* WritePump writes a binary frame; the browser does not know the user any *)
(* more, or shows it there.                                                *)
WriteBinary ==
  /\ sendBin # <<>>
  /\ shown' = [shown EXCEPT ![Head(sendBin)[1]] = IF @ = None THEN None ELSE Head(sendBin)[2]]
  /\ sendBin' = Tail(sendBin)
  /\ UNCHANGED <<client, grid, pendingMoves, flushing, send>>

(***************************************************************************)
(* Connections                                                             *)
(***************************************************************************)

(* register, also over an older connection of the user.                    *)
Register(c, t) ==
  /\ status[c] = "new" /\ UserOf[c] # Me
  /\ status' = [status EXCEPT ![c] = "open"]
  /\ clients' = [clients EXCEPT ![UserOf[c]] = c]
  /\ tile' = [tile EXCEPT ![c] = t]
  /\ GridMove(c, t)
  /\ Send(<< <<UserOf[c], t>> >>)
  /\ UNCHANGED <<moving, room, pendingMoves, flushing, sendBin, shown>>

(* ReadPump ends; unregister, unless the user has a newer connection.      *)
Unregister(c) ==
  LET u == UserOf[c] IN
  /\ status[c] = "open" /\ c # Watcher
  /\ status' = [status EXCEPT ![c] = "gone"]
  /\ IF clients[u] = c
     THEN /\ clients' = [clients EXCEPT ![u] = None]
          /\ pos' = [pos EXCEPT ![u] = None]
          /\ inCell' = [inCell EXCEPT ![u] = None]
          /\ Send(<< <<u, None>> >>)
     ELSE UNCHANGED <<clients, grid, send>>
  /\ UNCHANGED <<tile, moving, room, pendingMoves, flushing, sendBin, shown>>

(***************************************************************************)
(* Moves                                                                   *)
(***************************************************************************)

(* A change of cell brings the watcher the still players it can now see.   *)
Arrive(c, t, messages) ==
  /\ tile' = [tile EXCEPT ![c] = t]
  /\ GridMove(c, t)
  /\ IF c = Watcher /\ pos[Me] # CellOf(t)
     THEN Send(messages \o SetToSeq({<<UserOf[d], tile[d]>> : d \in StillNear(t)}))
     ELSE Send(messages)

(* handleMove, accepted: the move is buffered for the next flush, from     *)
(* which the watcher hears of others only.                                 *)
Move(c, t) ==
  /\ status[c] = "open" /\ ~moving[c] /\ t - tile[c] \in {-1, 1}
  /\ c = Watcher => t \in WatcherTile
  /\ Arrive(c, t, <<>>)
  /\ pendingMoves' = IF c = Watcher THEN pendingMoves
                     ELSE [pendingMoves EXCEPT ![UserOf[c]] = [tile |-> t, room |-> room[c]]]
  /\ UNCHANGED <<clients, status, moving, room, flushing, sendBin, shown>>

(* handleMoveTo, accepted: a walk to t, told to all.                       *)
MoveTo(c, t) ==
  /\ status[c] = "open" /\ c # Watcher /\ t # tile[c]
  /\ moving' = [moving EXCEPT ![c] = TRUE]
  /\ Arrive(c, t, Heard(c, OnTheWay))
  /\ UNCHANGED <<clients, status, room, pendingMoves, flushing, sendBin, shown>>

(* handleStop, at the tile t.                                              *)
Stop(c, t) ==
  /\ status[c] = "open" /\ moving[c]
  /\ moving' = [moving EXCEPT ![c] = FALSE]
  /\ tile' = [tile EXCEPT ![c] = t]
  /\ GridMove(c, t)
  /\ Send(Heard(c, t))
  /\ UNCHANGED <<clients, status, room, pendingMoves, flushing, sendBin, shown>>

(* handleRoomEnter.                                                        *)
RoomEnter(c, r) ==
  /\ status[c] = "open" /\ room[c] = Floor
  /\ room' = [room EXCEPT ![c] = r]
  /\ UNCHANGED <<clients, status, tile, moving, grid, pendingMoves, flushing, screen>>

(* handleRoomExit, which tells the others where the player is.             *)
RoomExit(c) ==
  /\ status[c] = "open" /\ room[c] # Floor
  /\ room' = [room EXCEPT ![c] = Floor]
  /\ Send(IF c = Watcher THEN <<>> ELSE << <<UserOf[c], tile[c]>> >>)
  /\ UNCHANGED <<clients, status, tile, moving, grid, pendingMoves, flushing, sendBin, shown>>

(***************************************************************************)
(* Tickers                                                                 *)
(***************************************************************************)

(* flushMoves: Range hands out an entry.                                   *)
FlushTake(u) ==
  /\ flushing = None /\ pendingMoves[u] # None
  /\ flushing' = <<u, pendingMoves[u]>>
  /\ UNCHANGED <<client, grid, pendingMoves, screen>>

(* It is deleted, whatever it is by now, and the one handed out is sent: in*)
(* a private room to those who are in it, else to those near the tile.     *)
FlushSend ==
  LET u == flushing[1]
      entry == flushing[2]
      reached == IF entry.room = Floor THEN Watcher \in Subscribers(entry.tile, u)
                 ELSE room[Watcher] = entry.room
  IN
  /\ flushing # None
  /\ pendingMoves' = [pendingMoves EXCEPT ![u] = None]
  /\ flushing' = None
  /\ IF reached THEN SendBin(<<u, entry.tile>>) ELSE UNCHANGED sendBin
  /\ UNCHANGED <<client, grid, send, shown>>

(* runSnapshotTicker, sendNeighborSnapshot to the watcher: still player c. *)
Heartbeat(c) ==
  /\ c \in StillNear(tile[Watcher])
  /\ Send(<< <<UserOf[c], tile[c]>> >>)
  /\ UNCHANGED <<client, grid, pendingMoves, flushing, sendBin, shown>>

Next ==
  \/ \E c \in Conn :
       \/ \E t \in Tile : Register(c, t) \/ Move(c, t) \/ MoveTo(c, t) \/ Stop(c, t)
       \/ Unregister(c) \/ RoomExit(c) \/ \E r \in Room : RoomEnter(c, r)
       \/ Heartbeat(c)
  \/ \E u \in User : FlushTake(u)
  \/ FlushSend \/ WriteText \/ WriteBinary

Spec == Init /\ [][Next]_vars

(* The flushing tick, each pass of the heartbeat comes to every neighbour, *)
(* and WritePump chooses at random between its channels.                   *)
Fairness ==
  /\ \A u \in User : SF_vars(FlushTake(u))
  /\ WF_vars(FlushSend)
  /\ \A c \in Conn : SF_vars(Heartbeat(c))
  /\ WF_vars(WriteText) /\ WF_vars(WriteBinary)

FairSpec == Spec /\ Fairness

(***************************************************************************)
(* Properties                                                              *)
(***************************************************************************)

InSight(c) ==
  /\ clients[UserOf[c]] = c /\ ~moving[c] /\ room[c] = room[Watcher]
  /\ CellOf(tile[c]) - CellOf(tile[Watcher]) \in -1..1

(* A player who stands still in sight is in the end shown where it is, for *)
(* good: whatever frames were dropped for others, whatever was lost between*)
(* the hand-out and the delete of a move, and whichever channel was written*)
(* first.                                                                  *)
Healed ==
  \A c \in Conn \ {Watcher}, t \in Tile :
    <>[](InSight(c) /\ tile[c] = t) => <>[](shown[UserOf[c]] = t)

=============================================================================
