------------------------------ MODULE WalkProofs ------------------------------
(***************************************************************************)
(* What holds of Walk for any users and followers, any length of the map   *)
(* and any tolerance.                                                      *)
(*                                                                         *)
(* The inductive invariant is IndInv: a walk is on a path of two tiles or  *)
(* more (OnPaths); whoever is in the middle of its own handler is not      *)
(* walked by the server (OwnHandler), which is why a cascade does not take *)
(* the destination of a stop for a tile the player was on; and the avatar  *)
(* is where the path leads by now, or at the end of it, or on the tile     *)
(* (Located), each of them a tile it has visited (Visits).                 *)
(***************************************************************************)
EXTENDS Walk, WellFoundedInduction, TLAPS

Paths == {p \in Seq(Tile) : Len(p) >= 2}

(* The server's walk of a player.                                          *)
OnPaths ==
  \A u \in User :
    IF moving[u] THEN path[u] \in Paths /\ progress[u] \in 1..Len(path[u])
    ELSE path[u] = <<>>

OwnHandler ==
  \A u \in User : pc[u] \in {"cascade", "stop", "halt"} => ~Driven(u)

(* Where the avatar of u is, of a walk or of none.                         *)
WalksAt(u) == walking[u] => moving[u] /\ at[u] = path[u][progress[u]]

StandsAt(u) ==
  ~walking[u] /\ ~synced[u] /\ Online(u) =>
    IF moving[u] THEN progress[u] = Len(path[u]) /\ at[u] = path[u][Len(path[u])]
    ELSE pc[u] # "stop" => at[u] = tile[u]

Located == \A u \in User : WalksAt(u) /\ StandsAt(u)

Visits ==
  \A u \in User :
    Online(u) =>
      /\ at[u] \in visited[u]
      /\ moving[u] => start[u] \in visited[u]
      /\ ~moving[u] /\ pc[u] # "stop" => tile[u] \in visited[u]

IndInv == TypeOK /\ OnPaths /\ OwnHandler /\ Located /\ Visits

(***************************************************************************)
(* Sequences                                                               *)
(***************************************************************************)

(* A nonempty set of natural numbers has a least element: the form in which*)
(* induction over the players of a line is available to the provers.       *)
LEMMA LeastNumber ==
  ASSUME NEW T \in SUBSET Nat, T # {}
  PROVE  \E n \in T : \A m \in T : n <= m
<1>1. IsWellFoundedOn(OpToRel(<, Nat), Nat)
  BY NatLessThanWellFounded
<1>2. PICK n \in T : \A m \in T : ~ (<<m, n>> \in OpToRel(<, Nat))
  BY <1>1, WFMin
<1>3. \A m \in T : ~ (m < n)
  BY <1>2 DEF OpToRel
<1>4. QED
  BY <1>3

(* The way from one tile to another.                                       *)
LEMMA StraightPath ==
  ASSUME NEW a \in Tile, NEW b \in Tile, a # b
  PROVE  Straight(a, b) \in Paths /\ Straight(a, b)[1] = a
<1> USE WalkAssumption DEF Tile, Straight, Paths
<1>1. CASE a <= b
  <2>1. Straight(a, b) = [i \in 1..(b - a + 1) |-> a + i - 1]
    BY <1>1
  <2>2. Straight(a, b) \in Seq(Tile) /\ Len(Straight(a, b)) = b - a + 1
    BY <1>1, <2>1
  <2>3. QED
    BY <1>1, <2>1, <2>2
<1>2. CASE ~ (a <= b)
  <2>1. Straight(a, b) = [i \in 1..(a - b + 1) |-> a - i + 1]
    BY <1>2
  <2>2. Straight(a, b) \in Seq(Tile) /\ Len(Straight(a, b)) = a - b + 1
    BY <1>2, <2>1
  <2>3. QED
    BY <1>2, <2>1, <2>2
<1>3. QED
  BY <1>1, <1>2

(* The path of a follower begins where it is.                              *)
LEMMA TrailPath ==
  ASSUME NEW s \in Tile, NEW p \in Paths, Trail(s, p) # <<>>
  PROVE  Trail(s, p) \in Paths /\ Trail(s, p)[1] = s
<1> DEFINE vacated == SubSeq(p, 1, Len(p) - 1)
<1> DEFINE dest == vacated[Len(vacated)]
<1>1. vacated \in Seq(Tile) /\ Len(vacated) = Len(p) - 1 /\ Len(vacated) >= 1
  BY DEF Paths
<1>2. dest \in Tile
  BY <1>1
<1>3. Trail(s, p) = IF s = dest THEN <<>>
                    ELSE IF s = vacated[1] THEN vacated
                    ELSE IF Near(s, vacated[1], 1) THEN <<s>> \o vacated
                    ELSE <<s, dest>>
  BY DEF Trail
<1> HIDE DEF vacated, dest
<1>4. s # dest
  BY <1>3
<1>5. CASE s = vacated[1]
  <2>1. Len(vacated) # 1
    BY <1>4, <1>5 DEF dest
  <2>2. QED
    BY <1>1, <1>3, <1>4, <1>5, <2>1 DEF Paths
<1>6. CASE s # vacated[1] /\ Near(s, vacated[1], 1)
  BY <1>1, <1>3, <1>4, <1>6 DEF Paths
<1>7. CASE s # vacated[1] /\ ~Near(s, vacated[1], 1)
  BY <1>2, <1>3, <1>4, <1>7 DEF Paths
<1>8. QED
  BY <1>5, <1>6, <1>7

(* The players behind u are followers of the line.                         *)
LEMMA BehindFollow ==
  ASSUME line \in Seq(User), NEW u \in User
  PROVE  /\ Behind(u) \in Seq(User)
         /\ \A k \in DOMAIN Behind(u) : Follows(Behind(u)[k])
<1>1. CASE \E i \in DOMAIN line : line[i] = u
  <2> DEFINE i == CHOOSE i \in DOMAIN line : line[i] = u
  <2>1. i \in DOMAIN line
    BY <1>1
  <2>2. Behind(u) = SubSeq(line, i + 1, Len(line))
    BY <1>1 DEF Behind
  <2> HIDE DEF i
  <2>3. Behind(u) \in Seq(User) /\ Len(Behind(u)) = Len(line) - i
    BY <2>1, <2>2
  <2>4. ASSUME NEW k \in DOMAIN Behind(u) PROVE Follows(Behind(u)[k])
    <3>1. k \in 1..(Len(line) - i) /\ i \in 1..Len(line)
      BY <2>1, <2>3, <2>4
    <3>2. Behind(u)[k] = line[i + k] /\ i + k \in 1..Len(line) /\ i + k > 1
      BY <2>2, <3>1
    <3>3. QED
      BY <3>2 DEF Follows
  <2>5. QED
    BY <2>3, <2>4
<1>2. CASE ~ \E i \in DOMAIN line : line[i] = u
  BY <1>2 DEF Behind
<1>3. QED
  BY <1>1, <1>2

(* Nobody becomes a follower because somebody leaves the line.             *)
LEMMA LineShrinks ==
  ASSUME line \in Seq(User), NEW u \in User, line' = LineWithout(u)
  PROVE  line' \in Seq(User) /\ \A v \in User : Follows(v)' => Follows(v)
<1>1. CASE \E i \in DOMAIN line : line[i] = u
  <2> DEFINE i == CHOOSE i \in DOMAIN line : line[i] = u
  <2> DEFINE rest == RemoveAt(line, i)
  <2>1. i \in 1..Len(line)
    BY <1>1
  <2>2. line' = IF Len(rest) < 2 THEN <<>> ELSE rest
    BY <1>1 DEF LineWithout
  <2> HIDE DEF i
  <2> DEFINE before == SubSeq(line, 1, i - 1)
  <2> DEFINE after == SubSeq(line, i + 1, Len(line))
  <2>3. rest = before \o after
    BY DEF RemoveAt
  <2>4. /\ before \in Seq(User) /\ Len(before) = i - 1
        /\ after \in Seq(User) /\ Len(after) = Len(line) - i
        /\ \A j \in 1..(i - 1) : before[j] = line[j]
        /\ \A j \in 1..(Len(line) - i) : after[j] = line[i + j]
    BY <2>1
  <2> HIDE DEF before, after, rest
  <2>5. rest \in Seq(User) /\ Len(rest) = Len(line) - 1
    BY <2>1, <2>3, <2>4
  <2>6. ASSUME NEW j \in 1..Len(rest)
        PROVE  rest[j] = line[j] \/ rest[j] = line[j + 1]
    <3>1. CASE j <= i - 1
      <4>1. rest[j] = before[j]
        BY <2>1, <2>3, <2>4, <2>5, <3>1
      <4>2. QED
        BY <2>1, <2>4, <2>5, <3>1, <4>1
    <3>2. CASE ~ (j <= i - 1)
      <4>1. rest[j] = after[j - (i - 1)]
        BY <2>1, <2>3, <2>4, <2>5, <3>2
      <4>2. j - (i - 1) \in 1..(Len(line) - i) /\ i + (j - (i - 1)) = j + 1
        BY <2>1, <2>5, <3>2
      <4>3. QED
        BY <2>4, <4>1, <4>2
    <3>3. QED
      BY <3>1, <3>2
  <2>7. ASSUME NEW v \in User, Follows(v)' PROVE Follows(v)
    <3>1. PICK j \in DOMAIN line' : j > 1 /\ line'[j] = v
      BY <2>7 DEF Follows
    <3>2. line' = rest /\ j \in 1..Len(rest)
      BY <2>2, <2>5, <3>1
    <3>3. v = line[j] \/ v = line[j + 1]
      BY <2>6, <3>1, <3>2
    <3>4. j \in DOMAIN line /\ j + 1 \in DOMAIN line /\ j + 1 > 1
      BY <2>5, <3>1, <3>2
    <3>5. QED
      BY <3>1, <3>3, <3>4 DEF Follows
  <2>8. QED
    BY <2>2, <2>5, <2>7
<1>2. CASE ~ \E i \in DOMAIN line : line[i] = u
  BY <1>2 DEF LineWithout, Follows
<1>3. QED
  BY <1>1, <1>2

(***************************************************************************)
(* The cascade                                                             *)
(***************************************************************************)

(* Where a player is by now.                                               *)
LEMMA HereType ==
  ASSUME TypeOK, OnPaths, NEW u \in User
  PROVE  /\ Here(u) \in Tile
         /\ moving[u] => Here(u) = path[u][progress[u]]
         /\ ~moving[u] => Here(u) = tile[u]
BY DEF TypeOK, OnPaths, Here, Paths

(* The recursive function of Trails is the sequence of paths its equations *)
(* describe: the path of u, and each next one mirrors the one before.      *)
LEMMA TrailsEquations ==
  ASSUME TypeOK, NEW u \in User
  PROVE  /\ Trails(u)[0] = path[u]
         /\ \A k \in 1..Len(Behind(u)) :
              Trails(u)[k] = Mirror(Behind(u)[k], Trails(u)[k-1])
<1> DEFINE f == Behind(u)
<1> DEFINE N == Len(f)
<1> DEFINE Path(n, g) == /\ g = [k \in 0..n |-> g[k]]
                         /\ g[0] = path[u]
                         /\ \A k \in 1..n : g[k] = Mirror(f[k], g[k-1])
<1>0. N \in Nat
  BY BehindFollow DEF TypeOK
<1>1. \A n \in Nat : \E g : Path(n, g)
  <2> DEFINE T == {n \in Nat : ~ \E g : Path(n, g)}
  <2> SUFFICES ASSUME T # {} PROVE FALSE
    OBVIOUS
  <2> HIDE DEF f
  <2>1. PICK n \in T : \A m \in T : n <= m
    BY LeastNumber
  <2>2. CASE n = 0
    <3>1. Path(0, [k \in 0..0 |-> path[u]])
      OBVIOUS
    <3>2. QED
      BY <2>2, <3>1
  <2>3. CASE n # 0
    <3>1. n - 1 \in Nat /\ n - 1 \notin T
      <4> HIDE DEF Path
      <4>1. n \in Nat /\ n - 1 \in Nat /\ ~ (n <= n - 1)
        BY <2>3
      <4>2. QED
        BY <2>1, <4>1
    <3>2. PICK g : Path(n - 1, g)
      <4> HIDE DEF Path
      <4>1. QED
        BY <3>1
    <3> DEFINE h == [k \in 0..n |-> IF k < n THEN g[k] ELSE Mirror(f[n], g[n-1])]
    <3>3. h = [k \in 0..n |-> h[k]] /\ h[0] = path[u]
      BY <2>3, <3>1, <3>2
    <3>4. ASSUME NEW k \in 1..n PROVE h[k] = Mirror(f[k], h[k-1])
      <4>1. CASE k = n
        BY <2>3, <4>1
      <4>2. CASE k < n
        <5>1. h[k] = g[k] /\ h[k-1] = g[k-1]
          BY <4>2
        <5>2. g[k] = Mirror(f[k], g[k-1])
          <6>1. k \in 1..(n - 1)
            BY <4>2
          <6>2. QED
            BY <3>2, <6>1
        <5> HIDE DEF h
        <5>3. QED
          BY <5>1, <5>2
      <4>3. QED
        BY <4>1, <4>2
    <3>5. Path(n, h)
      BY <3>3, <3>4
    <3>6. QED
      BY <3>5
  <2>4. QED
    BY <2>2, <2>3
<1>2. PICK g : Path(N, g)
  BY <1>0, <1>1
<1> DEFINE Def(F) == [k \in 0..Len(f) |-> IF k = 0 THEN path[u] ELSE Mirror(f[k], F[k-1])]
<1> DEFINE t == Trails(u)
<1>3. g = Def(g)
  <2> HIDE DEF f
  <2>1. \A k \in 0..N : g[k] = (IF k = 0 THEN path[u] ELSE Mirror(f[k], g[k-1]))
    BY <1>0, <1>2
  <2>2. QED
    BY <1>2, <2>1
<1>4. t = Def(t)
  <2>1. t = CHOOSE F : F = Def(F)
    BY DEF Trails
  <2> HIDE DEF t, Def
  <2>2. QED
    BY <1>3, <2>1
<1>5. QED
  <2> HIDE DEF t, f
  <2>1. \A k \in 0..N : t[k] = (IF k = 0 THEN path[u] ELSE Mirror(f[k], t[k-1]))
    BY <1>4
  <2>2. t[0] = path[u] /\ \A k \in 1..N : t[k] = Mirror(f[k], t[k-1])
    BY <1>0, <2>1
  <2> USE DEF t, f
  <2>3. QED
    BY <2>2

(* A path of the cascade that is one begins where the follower is.         *)
LEMMA TrailsPaths ==
  ASSUME TypeOK, OnPaths, NEW u \in User
  PROVE  \A k \in 0..Len(Behind(u)) : Trails(u)[k] # <<>> =>
           /\ Trails(u)[k] \in Paths
           /\ k # 0 => Trails(u)[k][1] = Here(Behind(u)[k])
<1> DEFINE f == Behind(u)
<1> DEFINE t == Trails(u)
<1> DEFINE N == Len(f)
<1> DEFINE T == {k \in 0..N : t[k] # <<>> /\ t[k] \notin Paths}
<1>1. f \in Seq(User) /\ N \in Nat
  BY BehindFollow DEF TypeOK
<1>2. t[0] = path[u] /\ \A k \in 1..N : t[k] = Mirror(f[k], t[k-1])
  BY TrailsEquations
<1> HIDE DEF f, t
<1>3. ASSUME NEW k \in 1..N, t[k-1] = <<>> \/ t[k-1] \in Paths, t[k] # <<>>
      PROVE  t[k] \in Paths /\ t[k][1] = Here(f[k])
  <2>1. t[k] = Trail(Here(f[k]), t[k-1]) /\ t[k-1] # <<>>
    BY <1>2, <1>3 DEF Mirror
  <2>2. Here(f[k]) \in Tile
    BY <1>1, HereType
  <2>3. QED
    BY <1>3, <2>1, <2>2, TrailPath
<1>4. T = {}
  <2> SUFFICES ASSUME T # {} PROVE FALSE
    OBVIOUS
  <2>1. PICK n \in T : \A m \in T : n <= m
    <3>1. T \in SUBSET Nat
      BY <1>1
    <3>2. QED
      BY <3>1, LeastNumber
  <2>2. n # 0
    BY <1>2 DEF OnPaths
  <2>3. n - 1 \in 0..N /\ n - 1 \notin T /\ n \in 1..N
    BY <1>1, <2>1, <2>2
  <2>4. QED
    BY <1>3, <2>3
<1>5. ASSUME NEW k \in 0..N, t[k] # <<>>
      PROVE  t[k] \in Paths /\ (k # 0 => t[k][1] = Here(f[k]))
  <2>1. t[k] \in Paths
    BY <1>4, <1>5
  <2>2. CASE k # 0
    <3>1. k \in 1..N /\ k - 1 \in 0..N
      BY <1>1, <2>2
    <3>2. t[k-1] = <<>> \/ t[k-1] \in Paths
      BY <1>4, <3>1
    <3>3. QED
      BY <1>3, <1>5, <2>1, <3>1, <3>2
  <2>3. QED
    BY <2>1, <2>2
<1>6. QED
  BY <1>5 DEF f, t

(* What a cascade assigns that reaches the followers in Reached and makes  *)
(* those in Walked walk, each along a path from where it is.               *)
CascadesTo(Reached, Walked) ==
  /\ Walked \subseteq Reached
  /\ \A v \in Reached : Driven(v)
  /\ \A v \in Walked : path'[v] \in Paths /\ path'[v][1] = Here(v)
  /\ path' = [v \in User |-> IF v \in Walked THEN path'[v] ELSE path[v]]
  /\ tile' = [v \in User |-> IF v \in Walked THEN path'[v][Len(path'[v])]
                           ELSE IF v \in Reached THEN Here(v) ELSE tile[v]]
  /\ start' = [v \in User |-> IF v \in Walked /\ ~moving[v] THEN tile[v] ELSE start[v]]
  /\ moving' = [v \in User |-> moving[v] \/ v \in Walked]
  /\ progress' = [v \in User |-> IF v \in Walked THEN 1 ELSE progress[v]]
  /\ at' = [v \in User |-> IF v \in Walked THEN Here(v) ELSE at[v]]
  /\ visited' = [v \in User |-> IF v \in Walked THEN visited[v] \cup {at'[v]} ELSE visited[v]]
  /\ walking' = [v \in User |-> walking[v] \/ v \in Walked]
  /\ synced' = [v \in User |-> synced[v] /\ v \notin Walked]

(* A cascade reaches followers whom the server drives.                     *)
LEMMA CascadeEffect ==
  ASSUME TypeOK, OnPaths, NEW u \in User, Cascade(u)
  PROVE  \E Reached \in SUBSET User, Walked \in SUBSET User : CascadesTo(Reached, Walked)
<1> DEFINE f == Behind(u)
<1> DEFINE trail == Trails(u)
<1> DEFINE Ahead(v) == CHOOSE k \in DOMAIN f : f[k] = v
<1> DEFINE Reached == {f[k] : k \in {i \in DOMAIN f : trail[i - 1] # <<>> /\ hidden[f[i]]}}
<1> DEFINE Walked == {v \in Reached : trail[Ahead(v)] # <<>>}
<1>1. f \in Seq(User) /\ \A k \in DOMAIN f : Follows(f[k])
  BY BehindFollow DEF TypeOK
<1>2. Reached \in SUBSET User /\ Walked \in SUBSET Reached
  <2> HIDE DEF f, trail
  <2>1. QED
    BY <1>1
<1>3. ASSUME NEW v \in Reached PROVE Driven(v)
  <2> HIDE DEF f, trail
  <2>1. QED
    BY <1>1, <1>3 DEF Driven
<1>4. ASSUME NEW v \in Walked
      PROVE  trail[Ahead(v)] \in Paths /\ trail[Ahead(v)][1] = Here(v)
  <2>1. \A k \in 0..Len(f) : trail[k] # <<>> =>
          trail[k] \in Paths /\ (k # 0 => trail[k][1] = Here(f[k]))
    BY TrailsPaths
  <2> HIDE DEF f, trail
  <2>2. Ahead(v) \in DOMAIN f /\ f[Ahead(v)] = v
    BY <1>4
  <2> HIDE DEF Ahead
  <2>3. Ahead(v) \in 0..Len(f) /\ Ahead(v) # 0
    BY <1>1, <2>2
  <2>4. trail[Ahead(v)] # <<>>
    BY <1>4
  <2>5. QED
    BY <2>1, <2>2, <2>3, <2>4
<1>5. /\ tile' = [v \in User |-> IF v \in Walked THEN trail[Ahead(v)][Len(trail[Ahead(v)])]
                               ELSE IF v \in Reached THEN Here(v) ELSE tile[v]]
      /\ path' = [v \in User |-> IF v \in Walked THEN trail[Ahead(v)] ELSE path[v]]
  BY DEF Cascade, Last
<1>6. /\ start' = [v \in User |-> IF v \in Walked /\ ~moving[v] THEN tile[v] ELSE start[v]]
      /\ moving' = [v \in User |-> moving[v] \/ v \in Walked]
      /\ progress' = [v \in User |-> IF v \in Walked THEN 1 ELSE progress[v]]
      /\ at' = [v \in User |-> IF v \in Walked THEN Here(v) ELSE at[v]]
      /\ visited' = [v \in User |-> IF v \in Walked THEN visited[v] \cup {at'[v]}
                                  ELSE visited[v]]
      /\ walking' = [v \in User |-> walking[v] \/ v \in Walked]
      /\ synced' = [v \in User |-> synced[v] /\ v \notin Walked]
  BY DEF Cascade
<1> HIDE DEF f, trail, Ahead, Reached, Walked
<1>7. \A v \in Walked : path'[v] = trail[Ahead(v)]
  BY <1>2, <1>5
<1>8. tile' = [v \in User |-> IF v \in Walked THEN path'[v][Len(path'[v])]
                           ELSE IF v \in Reached THEN Here(v) ELSE tile[v]]
  BY <1>5, <1>7
<1>9. path' = [v \in User |-> IF v \in Walked THEN path'[v] ELSE path[v]]
  BY <1>5, <1>7
<1>10. CascadesTo(Reached, Walked)
  BY <1>2, <1>3, <1>4, <1>6, <1>7, <1>8, <1>9 DEF CascadesTo
<1>11. QED
  BY <1>2, <1>10

(* Those that cascadeHiddenFollowersStop reaches are driven by the server. *)
LEMMA HaltedDriven ==
  ASSUME TypeOK, NEW u \in User
  PROVE  Halted(u) \in SUBSET User /\ \A v \in Halted(u) : Driven(v)
<1> DEFINE f == Behind(u)
<1>1. f \in Seq(User) /\ \A k \in DOMAIN f : Follows(f[k])
  BY BehindFollow DEF TypeOK
<1>2. Halted(u) = {f[k] : k \in {i \in DOMAIN f : \A j \in 1..i : hidden[f[j]]}}
  BY DEF Halted
<1> HIDE DEF f
<1>3. ASSUME NEW v \in Halted(u) PROVE v \in User /\ Driven(v)
  <2>1. PICK k \in DOMAIN f : v = f[k] /\ \A j \in 1..k : hidden[f[j]]
    BY <1>2
  <2>2. k \in 1..k
    BY <1>1
  <2>3. QED
    BY <1>1, <2>1, <2>2 DEF Driven
<1>4. QED
  BY <1>3

(***************************************************************************)
(* Types, and the walks                                                    *)
(***************************************************************************)

LEMMA FreshTypes ==
  ASSUME TypeOK, OnPaths, NEW u \in User, NEW t \in Tile, Fresh(u, t)
  PROVE  /\ tile' \in [User -> Tile] /\ at' \in [User -> Tile]
         /\ moving' \in [User -> BOOLEAN] /\ path' \in [User -> Seq(Tile)]
         /\ start' \in [User -> Tile] /\ hidden' \in [User -> BOOLEAN]
         /\ progress' \in [User -> Nat] /\ \A v \in User : progress'[v] <= Len(path'[v])
         /\ walking' \in [User -> BOOLEAN] /\ synced' \in [User -> BOOLEAN]
         /\ OnPaths'
<1>1. 1 \in Tile
  BY WalkAssumption DEF Tile
<1>2. /\ tile' \in [User -> Tile] /\ at' \in [User -> Tile]
      /\ start' \in [User -> Tile]
  BY <1>1 DEF TypeOK, Fresh
<1>3. /\ moving' \in [User -> BOOLEAN] /\ hidden' \in [User -> BOOLEAN]
      /\ walking' \in [User -> BOOLEAN] /\ synced' \in [User -> BOOLEAN]
  BY DEF TypeOK, Fresh
<1>4. path' \in [User -> Seq(Tile)] /\ progress' \in [User -> Nat]
  BY DEF TypeOK, Fresh
<1>5. \A v \in User : progress'[v] <= Len(path'[v])
  BY DEF TypeOK, Fresh
<1>6. OnPaths'
  BY DEF TypeOK, OnPaths, Fresh
<1>7. QED
  BY <1>2, <1>3, <1>4, <1>5, <1>6

LEMMA Types ==
  ASSUME TypeOK, OnPaths, [Next]_vars
  PROVE  TypeOK' /\ OnPaths'
<1> USE DEF server, avatar
<1>1. ASSUME NEW u \in User, Step(u) PROVE TypeOK' /\ OnPaths'
  <2>1. path[u][progress[u] + 1] \in Tile /\ progress[u] + 1 \in 1..Len(path[u])
    BY <1>1 DEF TypeOK, OnPaths, Paths, Step
  <2>2. /\ moving[u] /\ progress' = [progress EXCEPT ![u] = progress[u] + 1]
        /\ UNCHANGED <<pc, tile, moving, path, start, hidden, line, walking, synced>>
    BY <1>1 DEF Step
  <2>3. at' \in [User -> Tile] /\ visited' \in [User -> SUBSET Tile]
    <3>1. CASE walking[u]
      <4>1. at' = [at EXCEPT ![u] = path[u][progress[u] + 1]]
        BY <1>1, <3>1 DEF Step
      <4>2. at' \in [User -> Tile]
        BY <2>1, <4>1 DEF TypeOK
      <4>3. visited' = [visited EXCEPT ![u] = visited[u] \cup {at'[u]}]
        BY <1>1, <3>1 DEF Step
      <4>4. QED
        BY <4>2, <4>3 DEF TypeOK
    <3>2. CASE ~walking[u]
      BY <1>1, <3>2 DEF Step, TypeOK
    <3>3. QED
      BY <3>1, <3>2
  <2>4. progress' \in [User -> Nat] /\ \A v \in User : progress'[v] <= Len(path'[v])
    BY <2>1, <2>2 DEF TypeOK
  <2>5. TypeOK'
    BY <2>2, <2>3, <2>4 DEF TypeOK
  <2>6. OnPaths'
    BY <2>1, <2>2 DEF TypeOK, OnPaths
  <2>7. QED
    BY <2>5, <2>6
<1>2. ASSUME NEW u \in User, Join(u) PROVE TypeOK' /\ OnPaths'
  <2>1. tile[u] \in Tile /\ Fresh(u, tile[u])
    BY <1>2 DEF TypeOK, Join
  <2>2. pc' \in [User -> {"off", "reading", "cascade", "stop", "halt"}]
    BY <1>2 DEF TypeOK, Join, Goto
  <2>3. visited' \in [User -> SUBSET Tile] /\ line' \in Seq(User)
    BY <1>2, <2>1 DEF TypeOK, Join
  <2>4. QED
    BY <2>1, <2>2, <2>3, FreshTypes DEF TypeOK
<1>3. ASSUME NEW u \in User, Unfollow(u) PROVE TypeOK' /\ OnPaths'
  <2>1. line' \in Seq(User)
    BY <1>3, LineShrinks DEF Unfollow, TypeOK
  <2>2. QED
    BY <1>3, <2>1 DEF TypeOK, OnPaths, Unfollow
<1>4. ASSUME NEW u \in User, Disconnect(u) PROVE TypeOK' /\ OnPaths'
  <2>1. ToSave(u) \in Tile /\ Fresh(u, ToSave(u))
    BY <1>4 DEF TypeOK, ToSave, Disconnect
  <2>2. line' \in Seq(User)
    BY <1>4, LineShrinks DEF Disconnect, TypeOK
  <2>3. pc' \in [User -> {"off", "reading", "cascade", "stop", "halt"}]
    BY <1>4 DEF TypeOK, Disconnect, Goto
  <2>4. visited' \in [User -> SUBSET Tile]
    BY <1>4 DEF TypeOK, Disconnect
  <2>5. QED
    BY <2>1, <2>2, <2>3, <2>4, FreshTypes DEF TypeOK
<1>5. ASSUME NEW u \in User, NEW v \in User, Follow(u, v) PROVE TypeOK' /\ OnPaths'
  <2>1. line' \in Seq(User)
    BY <1>5 DEF TypeOK, Follow
  <2>2. QED
    BY <1>5, <2>1 DEF TypeOK, OnPaths, Follow
<1>6. ASSUME NEW u \in User, NEW t \in Tile, Move(u, t) PROVE TypeOK' /\ OnPaths'
  <2>1. synced' \in [User -> BOOLEAN]
    BY <1>6 DEF TypeOK, Move, OffPath
  <2>2. QED
    BY <1>6, <2>1 DEF TypeOK, OnPaths, Move
<1>7. ASSUME NEW u \in User, NEW t \in Tile, MoveTo(u, t) PROVE TypeOK' /\ OnPaths'
  <2> DEFINE p == Straight(at[u], t)
  <2>1. p \in Paths
    BY <1>7, StraightPath DEF TypeOK, MoveTo
  <2>2. Here(u) \in Tile
    BY HereType
  <2> HIDE DEF p
  <2>3. /\ start' = [start EXCEPT ![u] = IF moving[u] THEN @ ELSE Here(u)]
        /\ moving' = [moving EXCEPT ![u] = TRUE]
        /\ tile' = [tile EXCEPT ![u] = p[Len(p)]]
        /\ path' = [path EXCEPT ![u] = p]
        /\ progress' = [progress EXCEPT ![u] = 1]
        /\ walking' = [walking EXCEPT ![u] = TRUE]
        /\ synced' = [synced EXCEPT ![u] = FALSE]
        /\ pc' = [pc EXCEPT ![u] = "cascade"]
        /\ UNCHANGED <<hidden, line, at, visited>>
    BY <1>7 DEF MoveTo, Begin, Goto, p
  <2>4. p \in Seq(Tile) /\ Len(p) >= 2 /\ p[Len(p)] \in Tile
    BY <2>1 DEF Paths
  <2>5. TypeOK'
    BY <2>2, <2>3, <2>4 DEF TypeOK
  <2>6. OnPaths'
    BY <2>1, <2>3, <2>4 DEF TypeOK, OnPaths
  <2>7. QED
    BY <2>5, <2>6
<1>8. ASSUME NEW u \in User, NEW t \in Tile, ForceSync(u, t)
      PROVE  /\ at' \in [User -> Tile] /\ visited' \in [User -> SUBSET Tile]
             /\ walking' \in [User -> BOOLEAN] /\ synced' \in [User -> BOOLEAN]
  BY <1>8 DEF TypeOK, ForceSync, OffPath
<1>9. ASSUME NEW u \in User, MoveRejected(u) PROVE TypeOK' /\ OnPaths'
  <2>1. tile[u] \in Tile
    BY DEF TypeOK
  <2>2. QED
    BY <1>8, <1>9, <2>1 DEF TypeOK, OnPaths, MoveRejected
<1>10. ASSUME NEW u \in User, MoveToRejected(u) PROVE TypeOK' /\ OnPaths'
  <2>1. Here(u) \in Tile
    BY HereType
  <2>2. QED
    BY <1>8, <1>10, <2>1 DEF TypeOK, OnPaths, MoveToRejected
<1>11. ASSUME NEW u \in User, Stop(u) PROVE TypeOK' /\ OnPaths'
  BY <1>11 DEF TypeOK, OnPaths, Stop, Goto, Paths
<1>12. ASSUME NEW u \in User, Stopped(u) PROVE TypeOK' /\ OnPaths'
  BY <1>12 DEF TypeOK, OnPaths, Stopped, Goto
<1>13. ASSUME NEW u \in User, Visibility(u) PROVE TypeOK' /\ OnPaths'
  <2>1. tile[u] \in Tile
    BY DEF TypeOK
  <2>2. /\ at' \in [User -> Tile] /\ visited' \in [User -> SUBSET Tile]
        /\ walking' \in [User -> BOOLEAN] /\ synced' \in [User -> BOOLEAN]
    BY <1>8, <1>13, <2>1 DEF Visibility, TypeOK
  <2>3. QED
    BY <1>13, <2>2 DEF TypeOK, OnPaths, Visibility
<1>14. ASSUME NEW u \in User, Cascade(u) PROVE TypeOK' /\ OnPaths'
  <2>1. PICK Reached \in SUBSET User, Walked \in SUBSET User : CascadesTo(Reached, Walked)
    BY <1>14, CascadeEffect
  <2> USE <2>1 DEF CascadesTo
  <2>2. \A v \in User : Here(v) \in Tile
    BY HereType
  <2>3. \A v \in Walked : /\ path'[v] \in Seq(Tile) /\ Len(path'[v]) >= 2
                          /\ path'[v][Len(path'[v])] \in Tile
    BY DEF Paths
  <2>4. tile' \in [User -> Tile] /\ start' \in [User -> Tile] /\ at' \in [User -> Tile]
    BY <2>2, <2>3 DEF TypeOK
  <2>5. visited' \in [User -> SUBSET Tile]
    BY <2>4 DEF TypeOK
  <2>6. path' \in [User -> Seq(Tile)] /\ progress' \in [User -> Nat]
    BY <2>3 DEF TypeOK
  <2>7. \A v \in User : progress'[v] <= Len(path'[v])
    BY <2>3 DEF TypeOK
  <2>8. /\ moving' \in [User -> BOOLEAN] /\ walking' \in [User -> BOOLEAN]
        /\ synced' \in [User -> BOOLEAN]
    BY DEF TypeOK
  <2>9. pc' \in [User -> {"off", "reading", "cascade", "stop", "halt"}] /\ UNCHANGED <<hidden, line>>
    BY <1>14 DEF Cascade, Goto, TypeOK
  <2>10. TypeOK'
    BY <2>4, <2>5, <2>6, <2>7, <2>8, <2>9 DEF TypeOK
  <2>11. OnPaths'
    <3> SUFFICES ASSUME NEW v \in User
                 PROVE  IF moving'[v] THEN path'[v] \in Paths /\ progress'[v] \in 1..Len(path'[v])
                        ELSE path'[v] = <<>>
      BY DEF OnPaths
    <3>1. CASE v \in Walked
      <4>1. moving'[v] /\ progress'[v] = 1 /\ path'[v] \in Paths
        BY <3>1
      <4>2. QED
        BY <2>3, <3>1, <4>1
    <3>2. CASE v \notin Walked
      <4>1. moving'[v] = moving[v] /\ progress'[v] = progress[v] /\ path'[v] = path[v]
        BY <3>2 DEF TypeOK
      <4>2. QED
        BY <4>1 DEF OnPaths
    <3>3. QED
      BY <3>1, <3>2
  <2>12. QED
    BY <2>10, <2>11
<1>15. ASSUME NEW u \in User, Halt(u) PROVE TypeOK' /\ OnPaths'
  <2>1. \A v \in User : Here(v) \in Tile
    BY HereType
  <2>2. /\ pc' = [pc EXCEPT ![u] = "reading"]
        /\ tile' = [v \in User |-> IF v \in Halted(u) THEN Here(v) ELSE tile[v]]
        /\ at' = [v \in User |-> IF v \in Halted(u) THEN Here(v) ELSE at[v]]
        /\ moving' = [v \in User |-> moving[v] /\ v \notin Halted(u)]
        /\ path' = [v \in User |-> IF v \in Halted(u) THEN <<>> ELSE path[v]]
        /\ progress' = [v \in User |-> IF v \in Halted(u) THEN 0 ELSE progress[v]]
        /\ walking' = [v \in User |-> walking[v] /\ v \notin Halted(u)]
        /\ synced' = [v \in User |-> synced[v] /\ v \notin Halted(u)]
        /\ visited' = [v \in User |-> IF v \in Halted(u) THEN visited[v] \cup {at'[v]}
                                    ELSE visited[v]]
        /\ UNCHANGED <<start, hidden, line>>
    BY <1>15 DEF Halt, Goto
  <2>3. tile' \in [User -> Tile] /\ at' \in [User -> Tile]
    BY <2>1, <2>2 DEF TypeOK
  <2>4. visited' \in [User -> SUBSET Tile]
    BY <2>2, <2>3 DEF TypeOK
  <2>5. path' \in [User -> Seq(Tile)] /\ progress' \in [User -> Nat]
    BY <2>2 DEF TypeOK
  <2>6. \A v \in User : progress'[v] <= Len(path'[v])
    BY <2>2 DEF TypeOK
  <2>7. TypeOK'
    BY <2>2, <2>3, <2>4, <2>5, <2>6 DEF TypeOK
  <2>8. OnPaths'
    BY <2>2 DEF OnPaths, TypeOK
  <2>9. QED
    BY <2>7, <2>8
<1>16. CASE UNCHANGED vars
  BY <1>16 DEF vars, TypeOK, OnPaths
<1>17. QED
  BY <1>1, <1>2, <1>3, <1>4, <1>5, <1>6, <1>7, <1>9, <1>10, <1>11, <1>12,
     <1>13, <1>14, <1>15, <1>16 DEF Next

(***************************************************************************)
(* Who walks whom                                                          *)
(***************************************************************************)

(* A player in the middle of a handler of its own is not walked by the     *)
(* server: it was not when the handler began, and only the player itself   *)
(* could change that.                                                      *)
LEMMA OwnHandlers ==
  ASSUME TypeOK, OwnHandler, [Next]_vars
  PROVE  OwnHandler'
<1> USE DEF server, avatar
<1>1. CASE UNCHANGED <<pc, hidden, line>>
  BY <1>1 DEF OwnHandler, Driven, Follows
<1>2. ASSUME NEW u \in User, Join(u) PROVE OwnHandler'
  BY <1>2 DEF TypeOK, OwnHandler, Driven, Follows, Join, Fresh, Goto
<1>3. ASSUME NEW u \in User, Unfollow(u) PROVE OwnHandler'
  <2>1. \A v \in User : Follows(v)' => Follows(v)
    BY <1>3, LineShrinks DEF TypeOK, Unfollow
  <2>2. QED
    BY <1>3, <2>1 DEF OwnHandler, Driven, Unfollow
<1>4. ASSUME NEW u \in User, Disconnect(u) PROVE OwnHandler'
  <2>1. \A v \in User : Follows(v)' => Follows(v)
    BY <1>4, LineShrinks DEF TypeOK, Disconnect
  <2>2. pc' = [pc EXCEPT ![u] = "off"] /\ hidden' = [hidden EXCEPT ![u] = FALSE]
    BY <1>4 DEF Disconnect, Fresh, Goto
  <2>3. QED
    BY <2>1, <2>2 DEF TypeOK, OwnHandler, Driven
<1>5. ASSUME NEW u \in User, NEW v \in User, Follow(u, v) PROVE OwnHandler'
  <2>1. ASSUME NEW w \in User, Follows(w)' PROVE Follows(w) \/ w = u
    <3>1. PICK i \in DOMAIN line' : i > 1 /\ line'[i] = w
      BY <2>1 DEF Follows
    <3>2. CASE line = <<>>
      <4>1. line' = <<v, u>>
        BY <1>5, <3>2 DEF Follow
      <4>2. QED
        BY <3>1, <4>1
    <3>3. CASE line # <<>>
      <4>1. line' = Append(line, u) /\ line \in Seq(User)
        BY <1>5, <3>3 DEF Follow, TypeOK
      <4>2. CASE i \in DOMAIN line
        BY <3>1, <4>1, <4>2 DEF Follows
      <4>3. CASE i \notin DOMAIN line
        <5>1. i = Len(line) + 1
          BY <3>1, <4>1, <4>3
        <5>2. QED
          BY <3>1, <4>1, <5>1
      <4>4. QED
        BY <4>2, <4>3
    <3>4. QED
      BY <3>2, <3>3
  <2>2. pc[u] = "reading" /\ UNCHANGED <<pc, hidden>>
    BY <1>5 DEF Follow
  <2>3. QED
    BY <2>1, <2>2 DEF OwnHandler, Driven
<1>6. ASSUME NEW u \in User,
             (\E t \in Tile : MoveTo(u, t)) \/ Stop(u) \/ Stopped(u) \/ Cascade(u) \/ Halt(u)
      PROVE  OwnHandler'
  <2>1. PICK l \in {"reading", "cascade", "stop", "halt"} : pc' = [pc EXCEPT ![u] = l]
    BY <1>6 DEF MoveTo, Stop, Stopped, Cascade, Halt, Goto
  <2>2. UNCHANGED <<hidden, line>>
    BY <1>6 DEF MoveTo, Stop, Stopped, Cascade, Halt
  <2>3. l = "reading" \/ ~Driven(u)
    BY <1>6, <2>1 DEF MoveTo, Stop, Stopped, Cascade, Halt, Acts, OwnHandler, Goto, TypeOK
  <2>4. QED
    BY <2>1, <2>2, <2>3 DEF TypeOK, OwnHandler, Driven, Follows
<1>7. ASSUME NEW u \in User, Visibility(u) PROVE OwnHandler'
  <2>1. pc[u] = "reading" /\ hidden' = [hidden EXCEPT ![u] = ~hidden[u]] /\ UNCHANGED <<pc, line>>
    BY <1>7 DEF Visibility
  <2>2. QED
    BY <2>1 DEF TypeOK, OwnHandler, Driven, Follows
<1>8. ASSUME NEW u \in User,
             \/ Step(u) \/ MoveRejected(u) \/ MoveToRejected(u)
             \/ \E t \in Tile : Move(u, t)
      PROVE  OwnHandler'
  BY <1>1, <1>8 DEF Step, MoveRejected, MoveToRejected, Move
<1>9. CASE UNCHANGED vars
  BY <1>1, <1>9 DEF vars
<1> HIDE DEF server, avatar
<1>10. QED
  BY <1>2, <1>3, <1>4, <1>5, <1>6, <1>7, <1>8, <1>9 DEF Next

(***************************************************************************)
(* Where the avatar is                                                     *)
(***************************************************************************)

LEMMA Locations ==
  ASSUME TypeOK, OnPaths, OwnHandler, Located, [Next]_vars
  PROVE  Located'
<1> USE DEF server, avatar
<1> DEFINE At(v) == WalksAt(v) /\ StandsAt(v)
<1>0. \A v \in User : At(v)
  BY DEF Located
<1> SUFFICES ASSUME NEW v \in User PROVE At(v)'
  BY DEF Located
<1>1. CASE UNCHANGED <<pc[v], tile[v], moving[v], path[v], progress[v], at[v], walking[v], synced[v]>>
  BY <1>0, <1>1 DEF WalksAt, StandsAt, Online
<1>2. ASSUME NEW u \in User, Step(u) PROVE At(v)'
  <2>1. CASE v # u
    BY <1>1, <1>2, <2>1 DEF Step, TypeOK
  <2>2. CASE v = u
    <3>1. progress[u] + 1 \in 1..Len(path[u]) /\ moving[u] /\ progress[u] < Len(path[u])
      BY <1>2 DEF Step, TypeOK, OnPaths
    <3>2. /\ progress' = [progress EXCEPT ![u] = progress[u] + 1]
          /\ UNCHANGED <<pc, tile, moving, path, start, hidden, line, walking, synced>>
      BY <1>2 DEF Step
    <3>3. CASE walking[u]
      <4>1. at' = [at EXCEPT ![u] = path[u][progress[u] + 1]]
        BY <1>2, <3>3 DEF Step
      <4>2. QED
        BY <2>2, <3>1, <3>2, <3>3, <4>1 DEF TypeOK, WalksAt, StandsAt
    <3>4. CASE ~walking[u]
      <4>1. at' = at
        BY <1>2, <3>4 DEF Step
      <4>2. synced[u] \/ ~Online(u)
        BY <1>0, <3>1, <3>4 DEF StandsAt, TypeOK
      <4>3. QED
        BY <2>2, <3>2, <3>4, <4>2 DEF TypeOK, WalksAt, StandsAt, Online
    <3>5. QED
      BY <3>3, <3>4
  <2>3. QED
    BY <2>1, <2>2
<1>3. ASSUME NEW u \in User, NEW t \in Tile, Fresh(u, t), pc' = [pc EXCEPT ![u] = pc'[u]]
      PROVE  At(v)'
  <2>1. CASE v # u
    BY <1>1, <1>3, <2>1 DEF Fresh, TypeOK
  <2>2. CASE v = u
    BY <1>3, <2>2 DEF Fresh, TypeOK, WalksAt, StandsAt
  <2>3. QED
    BY <2>1, <2>2
<1>4. ASSUME NEW u \in User, Join(u) PROVE At(v)'
  BY <1>3, <1>4 DEF Join, Goto, TypeOK
<1>5. ASSUME NEW u \in User, Disconnect(u) PROVE At(v)'
  <2>1. ToSave(u) \in Tile
    BY DEF ToSave, TypeOK
  <2>2. QED
    BY <1>3, <1>5, <2>1 DEF Disconnect, Goto, TypeOK
<1>6. ASSUME NEW u \in User, Unfollow(u) \/ \E w \in User : Follow(u, w) PROVE At(v)'
  BY <1>1, <1>6 DEF Unfollow, Follow
<1>7. ASSUME NEW u \in User, NEW t \in Tile, Move(u, t) PROVE At(v)'
  <2>1. CASE v # u
    BY <1>1, <1>7, <2>1 DEF Move, TypeOK
  <2>2. CASE v = u
    <3>1. /\ ~walking[u] /\ tile' = [tile EXCEPT ![u] = t] /\ at' = [at EXCEPT ![u] = t]
          /\ synced' = [synced EXCEPT ![u] = OffPath(u, t)]
          /\ UNCHANGED <<pc, moving, path, progress, walking>>
      BY <1>7 DEF Move
    <3>2. moving[u] /\ ~OffPath(u, t) => progress[u] = Len(path[u]) /\ t = path[u][Len(path[u])]
      BY DEF OffPath, OnPaths, TypeOK, Paths
    <3>3. QED
      BY <2>2, <3>1, <3>2 DEF TypeOK, WalksAt, StandsAt, Online
  <2>3. QED
    BY <2>1, <2>2
<1>8. ASSUME NEW u \in User, NEW t \in Tile, MoveTo(u, t) PROVE At(v)'
  <2>1. CASE v # u
    BY <1>1, <1>8, <2>1 DEF MoveTo, Begin, Goto, TypeOK
  <2>2. CASE v = u
    <3>1. Straight(at[u], t)[1] = at[u]
      BY <1>8, StraightPath DEF MoveTo, TypeOK
    <3>2. QED
      BY <1>8, <2>2, <3>1 DEF MoveTo, Begin, TypeOK, WalksAt, StandsAt
  <2>3. QED
    BY <2>1, <2>2
<1>9. ASSUME NEW u \in User, NEW t \in Tile, ForceSync(u, t),
             UNCHANGED <<pc, moving, path, progress>>, tile' = [tile EXCEPT ![u] = tile'[u]],
             ~moving[u] => tile'[u] = t
      PROVE  At(v)'
  <2>1. CASE v # u
    BY <1>1, <1>9, <2>1 DEF ForceSync, TypeOK
  <2>2. CASE v = u
    <3>1. moving[u] /\ ~OffPath(u, t) => progress[u] = Len(path[u]) /\ t = path[u][Len(path[u])]
      BY DEF OffPath, OnPaths, TypeOK, Paths
    <3>2. QED
      BY <1>9, <2>2, <3>1 DEF ForceSync, TypeOK, WalksAt, StandsAt, Online
  <2>3. QED
    BY <2>1, <2>2
<1>10. ASSUME NEW u \in User, MoveRejected(u) PROVE At(v)'
  <2>1. tile[u] \in Tile /\ ForceSync(u, tile[u]) /\ UNCHANGED <<pc, moving, path, progress, tile>>
    BY <1>10 DEF MoveRejected, TypeOK
  <2>2. QED
    BY <1>9, <2>1 DEF TypeOK
<1>11. ASSUME NEW u \in User, MoveToRejected(u) PROVE At(v)'
  <2>1. /\ Here(u) \in Tile /\ ForceSync(u, Here(u)) /\ UNCHANGED <<pc, moving, path, progress>>
        /\ tile' = [tile EXCEPT ![u] = Here(u)]
    BY <1>11, HereType DEF MoveToRejected
  <2>2. tile' = [tile EXCEPT ![u] = tile'[u]] /\ tile'[u] = Here(u)
    BY <2>1 DEF TypeOK
  <2>3. QED
    BY <1>9, <2>1, <2>2
<1>12. ASSUME NEW u \in User, Stop(u) PROVE At(v)'
  <2>1. CASE v # u
    BY <1>1, <1>12, <2>1 DEF Stop, Goto, TypeOK
  <2>2. CASE v = u
    BY <1>12, <2>2 DEF Stop, Goto, TypeOK, WalksAt, StandsAt
  <2>3. QED
    BY <2>1, <2>2
<1>13. ASSUME NEW u \in User, Stopped(u) PROVE At(v)'
  <2>1. CASE v # u
    BY <1>1, <1>13, <2>1 DEF Stopped, Goto, TypeOK
  <2>2. CASE v = u
    BY <1>0, <1>13, <2>2 DEF Stopped, Goto, TypeOK, WalksAt, StandsAt, Online
  <2>3. QED
    BY <2>1, <2>2
<1>14. ASSUME NEW u \in User, Visibility(u) PROVE At(v)'
  <2>1. CASE hidden[u]
    <3>1. tile[u] \in Tile /\ ForceSync(u, tile[u]) /\ UNCHANGED <<pc, moving, path, progress, tile>>
      BY <1>14, <2>1 DEF Visibility, TypeOK
    <3>2. QED
      BY <1>9, <3>1 DEF TypeOK
  <2>2. CASE ~hidden[u]
    BY <1>1, <1>14, <2>2 DEF Visibility
  <2>3. QED
    BY <2>1, <2>2
<1>15. ASSUME NEW u \in User, Cascade(u) PROVE At(v)'
  <2>1. PICK Reached \in SUBSET User, Walked \in SUBSET User : CascadesTo(Reached, Walked)
    BY <1>15, CascadeEffect
  <2>2. pc' = [pc EXCEPT ![u] = "reading"] /\ pc[u] = "cascade"
    BY <1>15 DEF Cascade, Goto
  <2>3. CASE v \in Walked
    BY <2>1, <2>3 DEF CascadesTo, WalksAt, StandsAt
  <2>4. CASE v \notin Walked
    <3>1. /\ moving'[v] = moving[v] /\ path'[v] = path[v] /\ progress'[v] = progress[v]
          /\ at'[v] = at[v] /\ walking'[v] = walking[v] /\ synced'[v] = synced[v]
      BY <2>1, <2>4 DEF CascadesTo, TypeOK
    <3>2. tile'[v] = tile[v] \/ moving[v]
      BY <2>1, <2>4, HereType DEF CascadesTo
    <3>3. pc'[v] = pc[v] \/ (pc[v] = "cascade" /\ pc'[v] = "reading")
      BY <2>2 DEF TypeOK
    <3>4. QED
      BY <1>0, <3>1, <3>2, <3>3 DEF WalksAt, StandsAt, Online
  <2>5. QED
    BY <2>3, <2>4
<1>16. ASSUME NEW u \in User, Halt(u) PROVE At(v)'
  <2>1. pc' = [pc EXCEPT ![u] = "reading"] /\ pc[u] = "halt"
    BY <1>16 DEF Halt, Goto
  <2>2. CASE v \in Halted(u)
    BY <1>16, <2>2 DEF Halt, WalksAt, StandsAt
  <2>3. CASE v \notin Halted(u)
    <3>1. /\ moving'[v] = moving[v] /\ path'[v] = path[v] /\ progress'[v] = progress[v]
          /\ at'[v] = at[v] /\ walking'[v] = walking[v] /\ synced'[v] = synced[v]
          /\ tile'[v] = tile[v]
      BY <1>16, <2>3 DEF Halt, TypeOK
    <3>2. pc'[v] = pc[v] \/ (pc[v] = "halt" /\ pc'[v] = "reading")
      BY <2>1 DEF TypeOK
    <3>3. QED
      BY <1>0, <3>1, <3>2 DEF WalksAt, StandsAt, Online
  <2>4. QED
    BY <2>2, <2>3
<1>17. CASE UNCHANGED vars
  BY <1>1, <1>17 DEF vars
<1> HIDE DEF server, avatar, At
<1>18. QED
  BY <1>2, <1>4, <1>5, <1>6, <1>7, <1>8, <1>10, <1>11, <1>12, <1>13, <1>14,
     <1>15, <1>16, <1>17 DEF Next

(***************************************************************************)
(* What the avatar has visited                                             *)
(***************************************************************************)

LEMMA Visiting ==
  ASSUME TypeOK, OnPaths, OwnHandler, Visits, [Next]_vars
  PROVE  Visits'
<1> USE DEF server, avatar
<1> DEFINE Was(v) == Online(v) =>
                       /\ at[v] \in visited[v]
                       /\ moving[v] => start[v] \in visited[v]
                       /\ ~moving[v] /\ pc[v] # "stop" => tile[v] \in visited[v]
<1>0. \A v \in User : Was(v)
  BY DEF Visits
<1> SUFFICES ASSUME NEW v \in User PROVE Was(v)'
  BY DEF Visits
<1>1. CASE UNCHANGED <<pc[v], tile[v], moving[v], start[v], at[v], visited[v]>>
  BY <1>0, <1>1 DEF Online
<1>2. ASSUME NEW u \in User, Step(u) PROVE Was(v)'
  <2>1. moving[u] /\ UNCHANGED <<pc, tile, moving, start>>
    BY <1>2 DEF Step
  <2>2. CASE walking[u]
    <3>1. /\ at' = [at EXCEPT ![u] = path[u][progress[u] + 1]]
          /\ visited' = [visited EXCEPT ![u] = visited[u] \cup {at'[u]}]
      BY <1>2, <2>2 DEF Step
    <3>2. QED
      BY <1>0, <2>1, <3>1 DEF TypeOK, Online
  <2>3. CASE ~walking[u]
    BY <1>1, <1>2, <2>3 DEF Step
  <2>4. QED
    BY <2>2, <2>3
<1>3. ASSUME NEW u \in User, Join(u) PROVE Was(v)'
  <2>1. CASE v # u
    BY <1>1, <1>3, <2>1 DEF Join, Fresh, Goto, TypeOK
  <2>2. CASE v = u
    BY <1>3, <2>2 DEF Join, Fresh, TypeOK
  <2>3. QED
    BY <2>1, <2>2
<1>4. ASSUME NEW u \in User, Disconnect(u) PROVE Was(v)'
  <2>1. CASE v # u
    BY <1>1, <1>4, <2>1 DEF Disconnect, Fresh, Goto, TypeOK
  <2>2. CASE v = u
    BY <1>4, <2>2 DEF Disconnect, Goto, TypeOK, Online
  <2>3. QED
    BY <2>1, <2>2
<1>5. ASSUME NEW u \in User, Unfollow(u) \/ \E w \in User : Follow(u, w) PROVE Was(v)'
  BY <1>1, <1>5 DEF Unfollow, Follow
<1>6. ASSUME NEW u \in User, NEW t \in Tile, Move(u, t) PROVE Was(v)'
  BY <1>0, <1>6 DEF Move, TypeOK, Online
<1>7. ASSUME NEW u \in User, NEW t \in Tile, MoveTo(u, t) PROVE Was(v)'
  <2>1. pc[u] = "reading"
    BY <1>7 DEF MoveTo, Acts
  <2>2. Was(u)
    BY <1>0
  <2>3. IF moving[u] THEN start[u] \in visited[u] ELSE Here(u) \in visited[u]
    BY <2>1, <2>2, HereType DEF Online
  <2>4. /\ start' = [start EXCEPT ![u] = IF moving[u] THEN start[u] ELSE Here(u)]
        /\ moving' = [moving EXCEPT ![u] = TRUE]
        /\ pc' = [pc EXCEPT ![u] = "cascade"]
        /\ \A w \in User : w # u => tile'[w] = tile[w]
        /\ UNCHANGED <<at, visited>>
    BY <1>7 DEF MoveTo, Begin, Goto, TypeOK
  <2>5. QED
    BY <1>0, <2>1, <2>3, <2>4 DEF TypeOK, Online
<1>8. ASSUME NEW u \in User, NEW t \in Tile, ForceSync(u, t), UNCHANGED <<pc, moving, start>>,
             \A w \in User : w # u => tile'[w] = tile[w], ~moving[u] => tile'[u] = t
      PROVE  Was(v)'
  BY <1>0, <1>8 DEF ForceSync, TypeOK, Online
<1>9. ASSUME NEW u \in User, MoveRejected(u) PROVE Was(v)'
  <2>1. tile[u] \in Tile
    BY DEF TypeOK
  <2>2. QED
    BY <1>8, <1>9, <2>1 DEF MoveRejected
<1>10. ASSUME NEW u \in User, MoveToRejected(u) PROVE Was(v)'
  <2>1. Here(u) \in Tile /\ ForceSync(u, Here(u)) /\ UNCHANGED <<pc, moving, start>>
    BY <1>10, HereType DEF MoveToRejected
  <2>2. tile'[u] = Here(u) /\ \A w \in User : w # u => tile'[w] = tile[w]
    BY <1>10 DEF MoveToRejected, TypeOK
  <2>3. QED
    BY <1>8, <2>1, <2>2
<1>11. ASSUME NEW u \in User, Stop(u) PROVE Was(v)'
  <2>1. /\ pc[u] = "reading" /\ pc' = [pc EXCEPT ![u] = "stop"]
        /\ moving' = [moving EXCEPT ![u] = FALSE] /\ UNCHANGED <<tile, start, at, visited>>
    BY <1>11 DEF Stop, Acts, Goto
  <2>2. QED
    BY <1>0, <2>1 DEF TypeOK, Online
<1>12. ASSUME NEW u \in User, Stopped(u) PROVE Was(v)'
  <2>1. pc[u] = "stop" /\ pc' = [pc EXCEPT ![u] = "halt"] /\ tile' = [tile EXCEPT ![u] = at[u]]
        /\ UNCHANGED <<moving, start, at, visited>>
    BY <1>12 DEF Stopped, Goto
  <2>2. QED
    BY <1>0, <2>1 DEF TypeOK, Online
<1>13. ASSUME NEW u \in User, Visibility(u) PROVE Was(v)'
  <2>1. CASE hidden[u]
    <3>1. tile[u] \in Tile /\ ForceSync(u, tile[u]) /\ UNCHANGED <<pc, moving, start, tile>>
      BY <1>13, <2>1 DEF Visibility, TypeOK
    <3>2. QED
      BY <1>8, <3>1
  <2>2. CASE ~hidden[u]
    BY <1>1, <1>13, <2>2 DEF Visibility
  <2>3. QED
    BY <2>1, <2>2
<1>14. ASSUME NEW u \in User, Cascade(u) PROVE Was(v)'
  <2>1. PICK Reached \in SUBSET User, Walked \in SUBSET User : CascadesTo(Reached, Walked)
    BY <1>14, CascadeEffect
  <2>2. pc' = [pc EXCEPT ![u] = "reading"] /\ pc[u] = "cascade"
    BY <1>14 DEF Cascade, Goto
  <2>3. pc'[v] = pc[v] \/ (pc[v] = "cascade" /\ pc'[v] = "reading")
    BY <2>2 DEF TypeOK
  <2>4. CASE v \in Walked
    <3>1. Driven(v) /\ pc[v] # "stop"
      BY <2>1, <2>4 DEF CascadesTo, OwnHandler
    <3>2. /\ moving'[v] /\ at'[v] \in visited'[v] /\ visited[v] \subseteq visited'[v]
          /\ start'[v] = IF moving[v] THEN start[v] ELSE tile[v]
      BY <2>1, <2>4 DEF CascadesTo
    <3>3. QED
      BY <1>0, <2>3, <3>1, <3>2 DEF Online
  <2>5. CASE v \notin Walked
    <3>1. /\ moving'[v] = moving[v] /\ start'[v] = start[v]
          /\ at'[v] = at[v] /\ visited'[v] = visited[v]
      BY <2>1, <2>5 DEF CascadesTo, TypeOK
    <3>2. tile'[v] = tile[v] \/ moving[v]
      BY <2>1, <2>5, HereType DEF CascadesTo
    <3>3. QED
      BY <1>0, <2>3, <3>1, <3>2 DEF Online
  <2>6. QED
    BY <2>4, <2>5
<1>15. ASSUME NEW u \in User, Halt(u) PROVE Was(v)'
  <2>1. pc' = [pc EXCEPT ![u] = "reading"] /\ pc[u] = "halt"
    BY <1>15 DEF Halt, Goto
  <2>2. pc'[v] = pc[v] \/ (pc[v] = "halt" /\ pc'[v] = "reading")
    BY <2>1 DEF TypeOK
  <2>3. CASE v \in Halted(u)
    <3>1. ~moving'[v] /\ tile'[v] = Here(v) /\ at'[v] = Here(v) /\ at'[v] \in visited'[v]
      BY <1>15, <2>3 DEF Halt
    <3>2. QED
      BY <3>1
  <2>4. CASE v \notin Halted(u)
    <3>1. /\ moving'[v] = moving[v] /\ start'[v] = start[v] /\ tile'[v] = tile[v]
          /\ at'[v] = at[v] /\ visited'[v] = visited[v]
      BY <1>15, <2>4 DEF Halt, TypeOK
    <3>2. QED
      BY <1>0, <2>2, <3>1 DEF Online
  <2>5. QED
    BY <2>3, <2>4
<1>16. CASE UNCHANGED vars
  BY <1>1, <1>16 DEF vars
<1> HIDE DEF server, avatar, Was
<1>17. QED
  BY <1>2, <1>3, <1>4, <1>5, <1>6, <1>7, <1>9, <1>10, <1>11, <1>12, <1>13,
     <1>14, <1>15, <1>16 DEF Next

(***************************************************************************)
(* The theorems                                                            *)
(***************************************************************************)

LEMMA Initially ==
  ASSUME Init
  PROVE  IndInv
<1> USE DEF Init
<1>1. 1 \in Tile
  BY WalkAssumption DEF Tile
<1>2. TypeOK
  BY <1>1 DEF TypeOK
<1>3. OnPaths /\ OwnHandler /\ Located /\ Visits
  BY DEF OnPaths, OwnHandler, Located, WalksAt, StandsAt, Visits, Online
<1>4. QED
  BY <1>2, <1>3 DEF IndInv

LEMMA Invariance == Spec => []IndInv
<1>1. Init => IndInv
  BY Initially
<1>2. IndInv /\ [Next]_vars => IndInv'
  BY Types, OwnHandlers, Locations, Visiting DEF IndInv
<1>3. QED
  BY <1>1, <1>2, PTL DEF Spec

(* Every variable of a walk keeps its type; of a player on a walk, progress*)
(* is a waypoint of the path.                                              *)
THEOREM TypeCorrect == Spec => []TypeOK
<1>1. IndInv => TypeOK
  BY DEF IndInv
<1>2. QED
  BY <1>1, Invariance, PTL

(* unregister saves a tile the player was on, whoever walked it and however*)
(* its walk was interrupted, for any number of followers behind each other.*)
THEOREM SavedPositionVisited == Spec => []SavedWasVisited
<1>1. IndInv => SavedWasVisited
  BY DEF IndInv, Visits, SavedWasVisited, ToSave
<1>2. QED
  BY <1>1, Invariance, PTL

(* The server knows where a player is that it has not taken off its path,  *)
(* so that with any tolerance no such player is rejected for its start.    *)
THEOREM StartsAreAccepted == Spec => []StartAccepted
<1>1. ASSUME IndInv, NEW u \in User, Acts(u), ~synced[u]
      PROVE  Near(at[u], Here(u), Tolerance)
  <2>1. at[u] = Here(u)
    BY <1>1, HereType DEF IndInv, Located, WalksAt, StandsAt, OnPaths, Acts, Online
  <2>2. at[u] \in Int
    BY <1>1 DEF IndInv, TypeOK, Tile
  <2>3. QED
    BY <2>1, <2>2, WalkAssumption DEF Near
<1>2. IndInv => StartAccepted
  BY <1>1 DEF StartAccepted
<1>3. QED
  BY <1>2, Invariance, PTL

(* Peers see a player where it sees itself, on a walk of its own or of the *)
(* server's making, but in the middle of handleStop, and unless it was     *)
(* taken off a path they still show it on.                                 *)
THEOREM PeersSeeIt == Spec => []PeersAgree
<1>1. IndInv => PeersAgree
  BY DEF IndInv, Located, WalksAt, StandsAt, PeersAgree, Shown
<1>2. QED
  BY <1>1, Invariance, PTL

=============================================================================
