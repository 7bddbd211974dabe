-------------------------------- MODULE Walk --------------------------------
(***************************************************************************)
(* Walking (src/internal/hub/room.go: handleMove, handleMoveTo, handleStop *)
(* and handleVisibility, the cascades that walk hidden followers, and the  *)
(* position that unregister saves).                                        *)
(*                                                                         *)
(* The map is a line of tiles, and a path leads straight from one tile to  *)
(* another.  The server's fields of a walking player name its destination; *)
(* where the player is follows from the time since the walk began, which   *)
(* progress stands for: it moves the player's own avatar, the avatar its   *)
(* peers interpolate, and currentPathTile, all at one speed.  A browser    *)
(* walks from where its avatar is, and stops a walk before it takes single *)
(* steps.  Who follows whom is the subject of FollowChain: here there is   *)
(* one line, which players join at the tail and which closes up when one   *)
(* leaves.                                                                 *)
(***************************************************************************)
EXTENDS Integers, Sequences, SequencesExt

CONSTANTS
  User,          \* users of the workspace
  Follower,      \* users who may follow, and whose tab may be hidden
  Length,        \* tiles of the map
  Tolerance      \* the distance a client may be off (3 in the code)

ASSUME WalkAssumption ==
  Follower \subseteq User /\ Length \in Nat \ {0} /\ Tolerance \in Nat

Tile == 1..Length

VARIABLES
  pc,            \* where a user's goroutine is
  tile,          \* Client.TileX, TileY, of a walk its destination; of a user
                 \* who is off, the last position in Redis
  moving,        \* Client.IsMoving
  path,          \* Client.MovePath
  start,         \* Client.MoveStartTX, MoveStartTY
  hidden,        \* Client.Hidden
  progress,      \* the waypoint of path that a player has got to by now
  line,          \* the follow chain, leader first
  at,            \* where the avatar is on its own screen
  walking,       \* the avatar is on the path
  visited,       \* tiles the avatar has been on since the user connected
  synced         \* the avatar is off a path that the server still has it on

server == <<tile, moving, path, start, hidden, progress, line>>
avatar == <<at, walking, visited, synced>>
vars == <<pc, server, avatar>>

TypeOK ==
  /\ pc \in [User -> {"off", "reading", "cascade", "stop", "halt"}]
  /\ tile \in [User -> Tile]
  /\ moving \in [User -> BOOLEAN]
  /\ path \in [User -> Seq(Tile)]
  /\ start \in [User -> Tile]
  /\ hidden \in [User -> BOOLEAN]
  /\ progress \in [User -> Nat] /\ \A u \in User : progress[u] <= Len(path[u])
  /\ line \in Seq(User)
  /\ at \in [User -> Tile]
  /\ walking \in [User -> BOOLEAN]
  /\ visited \in [User -> SUBSET Tile]
  /\ synced \in [User -> BOOLEAN]

Init ==
  /\ pc = [u \in User |-> "off"]
  /\ tile = [u \in User |-> 1]
  /\ moving = [u \in User |-> FALSE]
  /\ path = [u \in User |-> <<>>]
  /\ start = [u \in User |-> 1]
  /\ hidden = [u \in User |-> FALSE]
  /\ progress = [u \in User |-> 0]
  /\ line = <<>>
  /\ at = [u \in User |-> 1]
  /\ walking = [u \in User |-> FALSE]
  /\ visited = [u \in User |-> {}]
  /\ synced = [u \in User |-> FALSE]

Goto(u, label) == pc' = [pc EXCEPT ![u] = label]

Near(s, t, d) == s - t \in -d..d

(* The waypoints from a to b.                                              *)
Straight(a, b) ==
  IF a <= b THEN [i \in 1..(b - a + 1) |-> a + i - 1]
  ELSE [i \in 1..(a - b + 1) |-> a - i + 1]

(* The players behind u, next one first.                                   *)
Behind(u) ==
  IF \E i \in DOMAIN line : line[i] = u
  THEN SubSeq(line, (CHOOSE i \in DOMAIN line : line[i] = u) + 1, Len(line))
  ELSE <<>>

Follows(u) == \E i \in DOMAIN line : i > 1 /\ line[i] = u

(* The guard of handleMove, handleMoveTo and handleStop: a hidden follower *)
(* is walked by the server.                                                *)
Driven(u) == hidden[u] /\ Follows(u)

(* Mutant: the server takes a player to be at its destination.             *)
Destination(u) == tile[u]

(* currentPathTile, for a player on a walk; the tile it stands on if not.  *)
Here(u) == IF moving[u] /\ Len(path[u]) >= 2 THEN path[u][progress[u]] ELSE tile[u]

(* Time passes: a player on a walk gets to the next waypoint.              *)
Step(u) ==
  /\ moving[u] /\ progress[u] < Len(path[u])
  /\ progress' = [progress EXCEPT ![u] = @ + 1]
  /\ IF walking[u]
     THEN /\ at' = [at EXCEPT ![u] = path[u][progress[u] + 1]]
          /\ visited' = [visited EXCEPT ![u] = @ \cup {at'[u]}]
     ELSE UNCHANGED <<at, visited>>
  /\ UNCHANGED <<pc, tile, moving, path, start, hidden, line, walking, synced>>

(***************************************************************************)
(* Connections                                                             *)
(***************************************************************************)

(* No Client object, or a new one, at t.                                   *)
Fresh(u, t) ==
  /\ tile' = [tile EXCEPT ![u] = t]
  /\ at' = [at EXCEPT ![u] = t]
  /\ moving' = [moving EXCEPT ![u] = FALSE]
  /\ path' = [path EXCEPT ![u] = <<>>]
  /\ start' = [start EXCEPT ![u] = 1]
  /\ hidden' = [hidden EXCEPT ![u] = FALSE]
  /\ progress' = [progress EXCEPT ![u] = 0]
  /\ walking' = [walking EXCEPT ![u] = FALSE]
  /\ synced' = [synced EXCEPT ![u] = FALSE]

(* A join at the position saved.                                           *)
Join(u) ==
  /\ pc[u] = "off"
  /\ Goto(u, "reading")
  /\ Fresh(u, tile[u])
  /\ visited' = [visited EXCEPT ![u] = {tile[u]}]
  /\ UNCHANGED line

(* handleFollow, of a player who is alone: to the tail of the line.        *)
Follow(u, v) ==
  /\ pc[u] = "reading" /\ u \in Follower /\ pc[v] # "off" /\ u # v
  /\ ~Contains(line, u) /\ (line = <<>> \/ Contains(line, v))
  /\ line' = IF line = <<>> THEN <<v, u>> ELSE Append(line, u)
  /\ UNCHANGED <<pc, tile, moving, path, start, hidden, progress, avatar>>

(* The line closes up behind one who leaves it; a line of one is none.     *)
LineWithout(u) ==
  IF \E i \in DOMAIN line : line[i] = u
  THEN LET rest == RemoveAt(line, CHOOSE i \in DOMAIN line : line[i] = u)
       IN  IF Len(rest) < 2 THEN <<>> ELSE rest
  ELSE line

(* detach, for a follower who stops following or is kicked.                *)
Unfollow(u) ==
  /\ Follows(u)
  /\ line' = LineWithout(u)
  /\ UNCHANGED <<pc, tile, moving, path, start, hidden, progress, avatar>>

(* What unregister saves: not the destination of a walk, but the tile it   *)
(* began on.                                                               *)
ToSave(u) == IF moving[u] THEN start[u] ELSE tile[u]

(* unregister, at the end of the connection or because a peer's goroutine  *)
(* finds the buffer full: a handler may be under way.                      *)
Disconnect(u) ==
  /\ pc[u] # "off"
  /\ Goto(u, "off")
  /\ line' = LineWithout(u)
  /\ Fresh(u, ToSave(u))
  /\ visited' = [visited EXCEPT ![u] = {}]

(***************************************************************************)
(* A player's own moves                                                    *)
(***************************************************************************)

(* The server has u on a path, and an avatar at t is not where that leads. *)
OffPath(u, t) ==
  moving[u] /\ (progress[u] < Len(path[u]) \/ t # path[u][Len(path[u])])

(* forceSync to the tile t of u, by a server whose walk of u is as it is.  *)
ForceSync(u, t) ==
  /\ at' = [at EXCEPT ![u] = t]
  /\ visited' = [visited EXCEPT ![u] = @ \cup {t}]
  /\ walking' = [walking EXCEPT ![u] = FALSE]
  /\ synced' = [synced EXCEPT ![u] = OffPath(u, t)]

(* The browser may act.                                                    *)
Acts(u) == pc[u] = "reading" /\ ~Driven(u)

(* handleMove: a step to the next tile, if it is not blocked.  It does not *)
(* end a walk that a force_sync has taken the avatar off.                  *)
Move(u, t) ==
  /\ Acts(u) /\ ~walking[u] /\ Near(t, at[u], 1) /\ Near(t, tile[u], Tolerance)
  /\ tile' = [tile EXCEPT ![u] = t]
  /\ at' = [at EXCEPT ![u] = t]
  /\ visited' = [visited EXCEPT ![u] = @ \cup {t}]
  /\ synced' = [synced EXCEPT ![u] = OffPath(u, t)]
  /\ UNCHANGED <<pc, moving, path, start, hidden, progress, line, walking>>

(* handleMove: "teleport" or "blocked_dest".                               *)
MoveRejected(u) ==
  /\ Acts(u) /\ ~walking[u]
  /\ ForceSync(u, tile[u])
  /\ UNCHANGED <<pc, server>>

(* Mutant: the start is taken from the destination.                        *)
BeginLate(u, p) ==
  /\ start' = [start EXCEPT ![u] = p[Len(p)]]
  /\ moving' = [moving EXCEPT ![u] = TRUE]
  /\ tile' = [tile EXCEPT ![u] = p[Len(p)]]
  /\ path' = [path EXCEPT ![u] = p]
  /\ progress' = [progress EXCEPT ![u] = 1]

(* handleMoveTo: the fields of a walk along p that begins now.             *)
Begin(u, p) ==
  /\ start' = [start EXCEPT ![u] = IF moving[u] THEN @ ELSE Here(u)]
  /\ moving' = [moving EXCEPT ![u] = TRUE]
  /\ tile' = [tile EXCEPT ![u] = p[Len(p)]]
  /\ path' = [path EXCEPT ![u] = p]
  /\ progress' = [progress EXCEPT ![u] = 1]

(* handleMoveTo, accepted: "moving" tells the peers.                       *)
MoveTo(u, t) ==
  /\ Acts(u) /\ t # at[u] /\ Near(at[u], Here(u), Tolerance)
  /\ Begin(u, Straight(at[u], t))
  /\ walking' = [walking EXCEPT ![u] = TRUE]
  /\ synced' = [synced EXCEPT ![u] = FALSE]
  /\ Goto(u, "cascade")
  /\ UNCHANGED <<hidden, line, at, visited>>

(* handleMoveTo, after the position was reconciled: "desync_start", or     *)
(* "blocked_dest" or "wall_crossing", as the obstacle grid has it.         *)
MoveToRejected(u) ==
  /\ Acts(u)
  /\ tile' = [tile EXCEPT ![u] = Here(u)]
  /\ ForceSync(u, Here(u))
  /\ UNCHANGED <<pc, moving, path, start, hidden, progress, line>>

(* Mutant: the path is cleared, but not the time on it.                    *)
StopHalfReset(u) ==
  /\ Acts(u) /\ walking[u]
  /\ moving' = [moving EXCEPT ![u] = FALSE]
  /\ path' = [path EXCEPT ![u] = <<>>]
  /\ walking' = [walking EXCEPT ![u] = FALSE]
  /\ Goto(u, "stop")
  /\ UNCHANGED <<tile, start, hidden, progress, line, at, visited, synced>>

(* Mutant: only the player's own screen ends the walk.                     *)
StopWalksOn(u) ==
  /\ Acts(u) /\ walking[u]
  /\ walking' = [walking EXCEPT ![u] = FALSE]
  /\ Goto(u, "stop")
  /\ UNCHANGED <<tile, moving, path, start, hidden, progress, line, at, visited, synced>>

(* handleStop begins: the walk is over.                                    *)
Stop(u) ==
  /\ Acts(u) /\ walking[u]
  /\ moving' = [moving EXCEPT ![u] = FALSE]
  /\ path' = [path EXCEPT ![u] = <<>>]
  /\ progress' = [progress EXCEPT ![u] = 0]
  /\ walking' = [walking EXCEPT ![u] = FALSE]
  /\ Goto(u, "stop")
  /\ UNCHANGED <<tile, start, hidden, line, at, visited, synced>>

(* handleStop goes on: the tile it ended on, and "stopped" to the peers.   *)
Stopped(u) ==
  /\ pc[u] = "stop"
  /\ tile' = [tile EXCEPT ![u] = at[u]]
  /\ Goto(u, "halt")
  /\ UNCHANGED <<moving, path, start, hidden, progress, line, avatar>>

(***************************************************************************)
(* Hidden followers                                                        *)
(***************************************************************************)

(* handleVisibility; back in the foreground the client is aligned.         *)
Visibility(u) ==
  /\ pc[u] = "reading" /\ u \in Follower
  /\ hidden' = [hidden EXCEPT ![u] = ~@]
  /\ IF hidden[u] THEN ForceSync(u, tile[u]) ELSE UNCHANGED avatar
  /\ UNCHANGED <<pc, tile, moving, path, start, progress, line>>

(* driveServerFollow: the path of a follower at s behind a predecessor that*)
(* takes the path p; << >> when it is one tile behind already.             *)
Trail(s, p) ==
  LET vacated == SubSeq(p, 1, Len(p) - 1)
      dest == vacated[Len(vacated)]
  IN
  IF s = dest THEN <<>>
  ELSE IF s = vacated[1] THEN vacated
  ELSE IF Near(s, vacated[1], 1) THEN <<s>> \o vacated
  ELSE <<s, dest>>

(* The path of w, behind a predecessor that takes the path p, or none.     *)
Mirror(w, p) ==
  IF p # <<>> /\ hidden[w] THEN Trail(Here(w), p) ELSE <<>>

(* cascadeHiddenFollowers: the paths of the players behind u, as far as it *)
(* gets, with u's own as number 0.                                         *)
Trails(u) ==
  LET f == Behind(u)
      trail[k \in 0..Len(f)] == IF k = 0 THEN path[u] ELSE Mirror(f[k], trail[k - 1])
  IN  trail

(* handleMoveTo ends: the cascade, under followMu.  Reached are those that *)
(* driveServerFollow is called for, Walked those it finds a path for.      *)
Cascade(u) ==
  LET f == Behind(u)
      trail == Trails(u)
      Ahead(v) == CHOOSE k \in DOMAIN f : f[k] = v
      Reached == {f[k] : k \in {i \in DOMAIN f : trail[i - 1] # <<>> /\ hidden[f[i]]}}
      New(v) == trail[Ahead(v)]
      Walked == {v \in Reached : New(v) # <<>>}
  IN
  /\ pc[u] = "cascade"
  /\ Goto(u, "reading")
  /\ tile' = [v \in User |-> IF v \in Walked THEN Last(New(v))
                            ELSE IF v \in Reached THEN Here(v) ELSE tile[v]]
  /\ start' = [v \in User |-> IF v \in Walked /\ ~moving[v] THEN tile[v] ELSE start[v]]
  /\ moving' = [v \in User |-> moving[v] \/ v \in Walked]
  /\ path' = [v \in User |-> IF v \in Walked THEN New(v) ELSE path[v]]
  /\ progress' = [v \in User |-> IF v \in Walked THEN 1 ELSE progress[v]]
  /\ at' = [v \in User |-> IF v \in Walked THEN Here(v) ELSE at[v]]
  /\ visited' = [v \in User |-> IF v \in Walked THEN visited[v] \cup {at'[v]} ELSE visited[v]]
  /\ walking' = [v \in User |-> walking[v] \/ v \in Walked]
  /\ synced' = [v \in User |-> synced[v] /\ v \notin Walked]
  /\ UNCHANGED <<hidden, line>>

(* The followers cascadeHiddenFollowersStop reaches: hidden, all of them.  *)
Halted(u) ==
  LET f == Behind(u)
  IN  {f[k] : k \in {i \in DOMAIN f : \A j \in 1..i : hidden[f[j]]}}

(* handleStop ends: cascadeHiddenFollowersStop, under followMu.            *)
Halt(u) ==
  LET In(v) == v \in Halted(u) IN
  /\ pc[u] = "halt"
  /\ Goto(u, "reading")
  /\ tile' = [v \in User |-> IF In(v) THEN Here(v) ELSE tile[v]]
  /\ at' = [v \in User |-> IF In(v) THEN Here(v) ELSE at[v]]
  /\ moving' = [v \in User |-> moving[v] /\ ~In(v)]
  /\ path' = [v \in User |-> IF In(v) THEN <<>> ELSE path[v]]
  /\ progress' = [v \in User |-> IF In(v) THEN 0 ELSE progress[v]]
  /\ walking' = [v \in User |-> walking[v] /\ ~In(v)]
  /\ synced' = [v \in User |-> synced[v] /\ ~In(v)]
  /\ visited' = [v \in User |-> IF In(v) THEN visited[v] \cup {at'[v]} ELSE visited[v]]
  /\ UNCHANGED <<start, hidden, line>>

Next ==
  \E u \in User :
    \/ Step(u) \/ Join(u) \/ Unfollow(u) \/ Disconnect(u)
    \/ \E v \in User : Follow(u, v)
    \/ \E t \in Tile : Move(u, t) \/ MoveTo(u, t)
    \/ MoveRejected(u) \/ MoveToRejected(u)
    \/ Stop(u) \/ Stopped(u) \/ Visibility(u) \/ Cascade(u) \/ Halt(u)

Spec == Init /\ [][Next]_vars

(***************************************************************************)
(* Properties                                                              *)
(***************************************************************************)

Online(u) == pc[u] # "off"

(* Whenever a connection ends, the position saved for the user is a tile   *)
(* it has been on, never the destination of a walk it did not finish,      *)
(* whoever has walked it, also when it was force_synced on the way; except *)
(* in the middle of handleStop, which ends the walk before it has written  *)
(* the tile.                                                               *)
SavedWasVisited ==
  \A u \in User : Online(u) /\ pc[u] # "stop" => ToSave(u) \in visited[u]

(* A player who walks on from where it is, in the middle of a walk or after*)
(* the server has walked it, is not rejected for it: the server knows where*)
(* it is, unless it was force_synced off a path that the server still has  *)
(* it on.                                                                  *)
StartAccepted ==
  \A u \in User :
    Acts(u) /\ ~synced[u] => Near(at[u], Here(u), Tolerance)

(* Where the peers show u: along the path they were told of, or where it   *)
(* stopped.                                                                *)
Shown(u) == IF moving[u] THEN path[u][progress[u]] ELSE tile[u]

(* Peers see a player where it sees itself, and so does who joins later,   *)
(* whatever handler of whose connection is under way, but for the moment   *)
(* of a stop, and unless it was force_synced off a path they still show it *)
(* on.                                                                     *)
PeersAgree ==
  \A u \in User :
    Online(u) /\ pc[u] # "stop" /\ ~synced[u] => Shown(u) = at[u]

=============================================================================
