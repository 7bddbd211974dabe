-------------------------- MODULE FollowChainProofs --------------------------
(***************************************************************************)
(* Proofs about FollowChain, for every set of users and connections.  The  *)
(* types are right whatever takeovers and races there are.  The properties *)
(* of the chain itself hold as long as the server has not been disturbed   *)
(* (the history variable calm; the first takeover of a linked connection   *)
(* breaks them, as the run follow_cycle shows), and are proved for a       *)
(* workspace with no more users than a walk visits.                        *)
(*                                                                         *)
(* LineInv, the invariant behind them, says that the pointers form lines:  *)
(* both ends of each link agree (Tidy), and ranks fall along the pointers  *)
(* ahead (Ranks).  It is about who stands for a user (Stands), so that it  *)
(* also holds between the two halves of an unregister.  With it the        *)
(* pointers are proved to implement CongaLine, under the mapping Leaders.  *)
(***************************************************************************)
EXTENDS FollowChain, TLAPS, FiniteSetTheorems, WellFoundedInduction

(* A nonempty set of natural numbers has a least element: the form in which*)
(* induction over the steps of a walk is available to the provers.         *)
LEMMA LeastNumber ==
  ASSUME NEW T \in SUBSET Nat, T # {}
  PROVE  \E n \in T : \A m \in T : n <= m
<1>1. IsWellFoundedOn(OpToRel(<, Nat), Nat)
  BY NatLessThanWellFounded
<1>2. PICK n \in T : \A m \in T : ~ (<<m, n>> \in OpToRel(<, Nat))
  BY <1>1, WFMin
<1>3. \A m \in T : ~ (m < n)
  BY <1>2 DEF OpToRel
<1>4. QED
  BY <1>3

(* One step along the chain leads to a connection.                         *)
LEMMA StepType ==
  ASSUME clients \in [User -> Conn \cup {NoConn}],
         NEW link \in [Conn -> Pointer], NEW c \in Conn
  PROVE  Step(link, c) \in Conn
BY FollowAssumption DEF Step, ClientOf, Pointer

(* A walk, the recursive function of FollowChain, is the sequence of       *)
(* connections its equations describe: it starts at `start` and each next  *)
(* one is a step further.                                                  *)
LEMMA WalkEquations ==
  ASSUME clients \in [User -> Conn \cup {NoConn}],
         NEW link \in [Conn -> Pointer], NEW start \in Conn
  PROVE  /\ Walk(link, start) \in [0..MaxFollowChain -> Conn]
         /\ Walk(link, start)[0] = start
         /\ \A n \in 1..MaxFollowChain :
              Walk(link, start)[n] = Step(link, Walk(link, start)[n-1])
<1> DEFINE Path(n, g) == /\ g \in [0..n -> Conn]
                         /\ g[0] = start
                         /\ \A i \in 1..n : g[i] = Step(link, g[i-1])
<1>1. \A n \in Nat : \E g : Path(n, g)
  <2> DEFINE T == {n \in Nat : ~ \E g : Path(n, g)}
  <2> SUFFICES ASSUME T # {} PROVE FALSE
    OBVIOUS
  <2>1. PICK n \in T : \A m \in T : n <= m
    BY LeastNumber
  <2>2. CASE n = 0
    <3>1. Path(0, [i \in 0..0 |-> start])
      OBVIOUS
    <3>2. QED
      BY <2>2, <3>1
  <2>3. CASE n # 0
    <3>1. n - 1 \in Nat /\ n - 1 \notin T
      <4> HIDE DEF Path
      <4>1. n \in Nat /\ n - 1 \in Nat /\ ~ (n <= n - 1)
        BY <2>3
      <4>2. QED
        BY <2>1, <4>1
    <3>2. PICK g : Path(n - 1, g)
      <4> HIDE DEF Path
      <4>1. QED
        BY <3>1
    <3> DEFINE h == [i \in 0..n |-> IF i < n THEN g[i] ELSE Step(link, g[n-1])]
    <3>3. g[n-1] \in Conn /\ Step(link, g[n-1]) \in Conn
      BY <3>1, <3>2, StepType
    <3>4. h \in [0..n -> Conn] /\ h[0] = start
      BY <2>3, <3>1, <3>2, <3>3
    <3>5. ASSUME NEW i \in 1..n PROVE h[i] = Step(link, h[i-1])
      <4>1. CASE i = n
        BY <2>3, <4>1
      <4>2. CASE i < n
        BY <3>2, <4>2
      <4>3. QED
        BY <4>1, <4>2
    <3>6. Path(n, h)
      BY <3>4, <3>5
    <3>7. QED
      BY <3>6
  <2>4. QED
    BY <2>2, <2>3
<1>2. PICK g : Path(MaxFollowChain, g)
  BY <1>1, FollowAssumption
<1> DEFINE f == Walk(link, start)
<1> DEFINE Def(F) == [n \in 0..MaxFollowChain |->
                       IF n = 0 THEN start ELSE Step(link, F[n-1])]
<1>3. g = Def(g)
  <2>1. \A n \in 0..MaxFollowChain :
          g[n] = (IF n = 0 THEN start ELSE Step(link, g[n-1]))
    BY <1>2, FollowAssumption
  <2>2. QED
    BY <1>2, <2>1
<1>4. f = Def(f)
  <2>1. f = CHOOSE F : F = Def(F)
    BY DEF Walk
  <2> HIDE DEF f, Def
  <2>2. QED
    BY <1>3, <2>1
<1>5. /\ f[0] = start
      /\ \A n \in 1..MaxFollowChain : f[n] = Step(link, f[n-1])
  <2> HIDE DEF f
  <2>1. \A n \in 0..MaxFollowChain :
          f[n] = (IF n = 0 THEN start ELSE Step(link, f[n-1]))
    BY <1>4
  <2>2. QED
    BY <2>1, FollowAssumption
<1>6. \A n \in 0..MaxFollowChain : f[n] \in Conn
  <2> HIDE DEF f
  <2> DEFINE T == {n \in 0..MaxFollowChain : f[n] \notin Conn}
  <2> SUFFICES ASSUME T # {} PROVE FALSE
    OBVIOUS
  <2>1. PICK n \in T : \A m \in T : n <= m
    <3>1. T \in SUBSET Nat
      BY FollowAssumption
    <3>2. QED
      BY <3>1, LeastNumber
  <2>2. n # 0
    BY <1>5
  <2>3. n - 1 \in 0..MaxFollowChain /\ n - 1 \notin T
    BY <2>1, <2>2, FollowAssumption
  <2>4. f[n-1] \in Conn
    BY <2>3
  <2>5. f[n] \in Conn
    BY <1>5, <2>2, <2>4, StepType, FollowAssumption
  <2>6. QED
    BY <2>5
<1>7. f \in [0..MaxFollowChain -> Conn]
  <2> HIDE DEF f
  <2>1. QED
    BY <1>4, <1>6
<1>8. QED
  BY <1>5, <1>7

(* A walk ends at a connection.                                            *)
LEMMA WalkEndType ==
  ASSUME clients \in [User -> Conn \cup {NoConn}],
         NEW link \in [Conn -> Pointer], NEW start \in Conn
  PROVE  WalkEnd(link, start) \in Conn
<1>1. Walk(link, start) \in [0..MaxFollowChain -> Conn]
  BY WalkEquations
<1>2. QED
  BY <1>1, FollowAssumption DEF WalkEnd

(***************************************************************************)
(* Types: every operation maps a chain to a chain.                         *)
(***************************************************************************)

ClientsType == clients \in [User -> Conn \cup {NoConn}]

LEMMA ClientOfType ==
  ASSUME ClientsType, NEW p \in Pointer
  PROVE  ClientOf(p) \in Conn \cup {NoConn}
BY DEF ClientsType, ClientOf, Pointer

LEMMA RepairedType ==
  ASSUME ClientsType, NEW link \in [Conn -> Pointer], NEW start \in Conn
  PROVE  Repaired(link, start) \in [Conn -> Pointer]
BY WalkEndType DEF ClientsType, Repaired, Pointer

LEMMA AnnouncedType ==
  ASSUME NEW s \in Chain, NEW c \in Conn
  PROVE  Announced(s, c) \in Chain
BY FollowAssumption DEF Announced, Chain

LEMMA RepairedAheadType ==
  ASSUME ClientsType, NEW s \in Chain, NEW c \in Conn
  PROVE  RepairedAhead(s, c) \in Chain
<1>1. Repaired(s.ahead, c) \in [Conn -> Pointer]
  BY RepairedType DEF Chain
<1>2. QED
  BY <1>1 DEF RepairedAhead, Chain

LEMMA RepairedBehindType ==
  ASSUME ClientsType, NEW s \in Chain, NEW c \in Conn
  PROVE  RepairedBehind(s, c) \in Chain
<1>1. Repaired(s.behind, c) \in [Conn -> Pointer]
  BY RepairedType DEF Chain
<1>2. QED
  BY <1>1 DEF RepairedBehind, Chain

LEMMA LinkType ==
  ASSUME ClientsType, NEW s \in Chain, NEW c \in Conn, NEW d \in Conn
  PROVE  Link(s, c, d) \in Chain
<1> DEFINE t == [s EXCEPT !.ahead[c] = UserOf[d], !.behind[d] = UserOf[c],
                          !.key[UserOf[c]] = UserOf[d], !.told[c] = UserOf[d]]
<1>1. t \in Chain
  BY FollowAssumption DEF Chain, Pointer
<1>2. RepairedAhead(t, c) \in Chain
  <2> HIDE DEF t
  <2>1. QED
    BY <1>1, RepairedAheadType
<1>3. QED
  BY <1>2 DEF Link

LEMMA DetachType ==
  ASSUME ClientsType, NEW s \in Chain, NEW c \in Conn
  PROVE  Detach(s, c) \in Chain
<1> DEFINE a == s.ahead[c]
           b == s.behind[c]
           A == ClientOf(a)
           B == ClientOf(b)
           behind == [x \in Conn |-> IF x = c THEN NoUser
                                     ELSE IF x = A THEN b ELSE s.behind[x]]
           ahead  == [x \in Conn |-> IF x = c THEN NoUser
                                     ELSE IF x = B THEN a ELSE s.ahead[x]]
           key    == KeysAfterDetach(s.key, c, a, b)
           told   == [x \in Conn |-> IF x = B THEN a ELSE s.told[x]]
           linked == [s EXCEPT !.behind = behind, !.ahead = ahead,
                               !.key = key, !.told = told]
           healed == IF a # NoUser THEN RepairedAhead(linked, B) ELSE linked
<1>1. a \in Pointer /\ b \in Pointer /\ NoUser \in Pointer
  BY DEF Chain, Pointer
<1>2. B \in Conn \cup {NoConn}
  BY <1>1, ClientOfType
<1>3. behind \in [Conn -> Pointer] /\ ahead \in [Conn -> Pointer]
      /\ told \in [Conn -> Pointer]
  <2> HIDE DEF a, b, A, B
  <2>1. QED
    BY <1>1 DEF Chain
<1>4. key \in [User -> Pointer]
  <2> HIDE DEF a, b
  <2>1. QED
    BY <1>1 DEF Chain, KeysAfterDetach
<1>5. linked \in Chain
  <2> HIDE DEF behind, ahead, key, told
  <2>1. QED
    BY <1>3, <1>4 DEF Chain
<1>6. CASE B = NoConn
  <2>1. Announced(linked, c) \in Chain
    <3> HIDE DEF linked
    <3>1. QED
      BY <1>5, AnnouncedType
  <2>2. QED
    BY <1>6, <2>1 DEF Detach
<1>7. CASE B # NoConn
  <2>1. B \in Conn
    BY <1>2, <1>7
  <2>2. healed \in Chain
    <3> HIDE DEF linked, a, B
    <3>1. QED
      BY <1>5, <2>1, RepairedAheadType
  <2>3. Announced(Announced(healed, B), c) \in Chain
    <3> HIDE DEF healed, B
    <3>1. QED
      BY <2>1, <2>2, AnnouncedType
  <2>4. QED
    BY <1>7, <2>3 DEF Detach
<1>8. QED
  BY <1>6, <1>7

LEMMA FollowedType ==
  ASSUME ClientsType, NEW s \in Chain, NEW c \in Conn, NEW target \in User,
         clients[target] # NoConn
  PROVE  Followed(s, c, target) \in Chain
<1> DEFINE start == clients[target]
           left  == RepairedBehind(Detach(s, c), start)
           tail  == WalkEnd(left.behind, start)
           link  == Announced(Link(left, c, tail), c)
           old   == s.behind[c]
           B     == ClientOf(old)
<1>1. start \in Conn
  BY DEF ClientsType
<1>2. left \in Chain
  BY <1>1, DetachType, RepairedBehindType
<1>3. tail \in Conn
  <2> HIDE DEF left, start
  <2>1. left.behind \in [Conn -> Pointer]
    BY <1>2 DEF Chain
  <2>2. QED
    BY <1>1, <2>1, WalkEndType DEF ClientsType
<1>4. link \in Chain
  <2> HIDE DEF left, tail
  <2>1. QED
    BY <1>2, <1>3, LinkType, AnnouncedType
<1>5. B \in Conn \cup {NoConn}
  BY ClientOfType DEF Chain
<1>6. Reattached(link, c, old, target) \in Chain
  <2> HIDE DEF link, old
  <2>1. B \in Conn => Announced(Link(link, B, c), B) \in Chain
    <3> HIDE DEF B
    <3>1. QED
      BY <1>4, LinkType, AnnouncedType
  <2>2. QED
    BY <1>4, <1>5, <2>1 DEF Reattached
<1>7. QED
  BY <1>2, <1>6 DEF Followed

LEMMA ResumedType ==
  ASSUME ClientsType, NEW s \in Chain, NEW c \in Conn
  PROVE  Resumed(s, c) \in Chain
<1> DEFINE u        == UserOf[c]
           target   == ClientOf(s.key[u])
           repaired == RepairedBehind(s, target)
           tail     == WalkEnd(repaired.behind, target)
           linked   == IF target = NoConn THEN s
                       ELSE IF UserOf[tail] = u THEN repaired
                       ELSE Link(repaired, c, tail)
<1>1. target \in Conn \cup {NoConn}
  BY ClientOfType, FollowAssumption DEF Chain
<1>2. linked \in Chain
  <2>1. CASE target = NoConn
    BY <2>1
  <2>2. CASE target # NoConn
    <3>1. target \in Conn
      BY <1>1, <2>2
    <3>2. repaired \in Chain
      <4> HIDE DEF target
      <4>1. QED
        BY <3>1, RepairedBehindType
    <3>3. tail \in Conn
      <4> HIDE DEF target, repaired
      <4>1. repaired.behind \in [Conn -> Pointer]
        BY <3>2 DEF Chain
      <4>2. QED
        BY <3>1, <4>1, WalkEndType DEF ClientsType
    <3>4. Link(repaired, c, tail) \in Chain
      <4> HIDE DEF repaired, tail
      <4>1. QED
        BY <3>2, <3>3, LinkType
    <3>5. QED
      BY <3>2, <3>4
  <2>3. QED
    BY <2>1, <2>2
<1> DEFINE forgotten == [linked EXCEPT !.key[u] = NoUser]
<1>3. forgotten \in Chain
  <2> HIDE DEF linked
  <2>1. QED
    BY <1>2, FollowAssumption DEF Chain, Pointer
<1>4. Announced(forgotten, c) \in Chain
  <2> HIDE DEF forgotten
  <2>1. QED
    BY <1>3, AnnouncedType
<1>5. QED
  BY <1>4 DEF Resumed

LEMMA TypesKept == TypeOK /\ [Next]_vars => TypeOK'
<1> SUFFICES ASSUME TypeOK, [Next]_vars
             PROVE  TypeOK'
  OBVIOUS
<1>t. ClientsType /\ chain \in Chain
  BY DEF TypeOK, ClientsType
<1>1. ASSUME NEW c \in Conn, Connect(c) PROVE TypeOK'
  BY <1>1, FollowAssumption DEF Connect, TypeOK
<1>2. ASSUME NEW c \in Conn, Restore(c) PROVE TypeOK'
  BY <1>t, <1>2, ResumedType DEF Restore, TypeOK
<1>3. ASSUME NEW c \in Conn, Disconnect(c) PROVE TypeOK'
  BY <1>3 DEF Disconnect, TypeOK
<1>4. ASSUME NEW c \in Conn, NEW s \in Chain PROVE Freed(s, c) \in Chain
  BY DEF Freed, Chain, Pointer
<1>5. ASSUME NEW c \in Conn, Heal(c) PROVE TypeOK'
  <2>1. chain' \in Chain
    BY <1>t, <1>4, <1>5, DetachType DEF Heal
  <2>2. QED
    BY <1>5, <2>1 DEF Heal, TypeOK
<1>6. ASSUME NEW c \in Conn, DisconnectStale(c) PROVE TypeOK'
  <2>1. chain' \in Chain
    BY <1>t, <1>4, <1>6 DEF DisconnectStale
  <2>2. QED
    BY <1>6, <2>1 DEF DisconnectStale, TypeOK
<1>7. ASSUME NEW c \in Conn, NEW s \in Chain
      PROVE  [s EXCEPT !.told[c] = NoUser] \in Chain
  BY DEF Chain, Pointer
<1>8. ASSUME NEW c \in Conn, Unfollow(c) PROVE TypeOK'
  <2>1. chain' \in Chain
    BY <1>t, <1>7, <1>8, DetachType DEF Unfollow
  <2>2. QED
    BY <1>8, <2>1 DEF Unfollow, Handles, TypeOK
<1>9. ASSUME NEW c \in Conn, NEW u \in User, Follow(c, u) PROVE TypeOK'
  <2>1. chain' \in Chain
    BY <1>t, <1>9, FollowedType DEF Follow
  <2>2. QED
    BY <1>9, <2>1 DEF Follow, Handles, TypeOK
<1>10. ASSUME NEW c \in Conn, NEW u \in User, StopFollower(c, u) PROVE TypeOK'
  <2>1. clients[u] \in Conn
    BY <1>t, <1>10 DEF StopFollower, ClientsType
  <2>2. chain' \in Chain
    BY <1>t, <1>7, <1>10, <2>1, DetachType DEF StopFollower
  <2>3. QED
    BY <1>10, <2>2 DEF StopFollower, Handles, TypeOK
<1>11. ASSUME Restart PROVE TypeOK'
  BY <1>11 DEF Restart, TypeOK, Chain, Pointer, NoLinks
<1>12. CASE UNCHANGED vars
  BY <1>12 DEF vars, TypeOK
<1>13. QED
  BY <1>1, <1>2, <1>3, <1>5, <1>6, <1>8, <1>9, <1>10, <1>11, <1>12 DEF Next

(* No links, whatever keys the predecessors left.                          *)
LEMMA InitialChain ==
  ASSUME Init
  PROVE  /\ chain \in Chain
         /\ chain.ahead = NoLinks /\ chain.behind = NoLinks
         /\ chain.told = NoLinks
<1>1. PICK key \in [User -> Pointer] :
        chain = [ahead |-> NoLinks, behind |-> NoLinks, key |-> key,
                 told |-> NoLinks, shown |-> [u \in User |-> NoUser]]
  BY DEF Init
<1>2. NoLinks \in [Conn -> Pointer] /\ [u \in User |-> NoUser] \in [User -> Pointer]
  BY DEF NoLinks, Pointer
<1>3. QED
  BY <1>1, <1>2 DEF Chain

(* The chain, its mirror in Redis and what clients were told keep their    *)
(* types through every handler, takeover, race and restart: a walk along   *)
(* the pointers always ends at a connection.                               *)
THEOREM TypeCorrect == Spec => []TypeOK
<1>1. Init => TypeOK
  BY InitialChain DEF Init, TypeOK
<1>2. QED
  BY <1>1, TypesKept, PTL DEF Spec

(***************************************************************************)
(* Lines.  cl maps users to the connections that stand for them.           *)
(***************************************************************************)

(* A walk is long enough for every chain: a workspace has no more users    *)
(* than the 256 a walk visits.                                             *)
ShortChains == IsFiniteSet(User) /\ Cardinality(User) <= MaxFollowChain

Owned(cl) ==
  /\ cl \in [User -> Conn \cup {NoConn}]
  /\ \A u \in User : cl[u] # NoConn => UserOf[cl[u]] = u

Tidy(cl, s) ==
  \A x \in Conn :
    /\ cl[UserOf[x]] # x => s.ahead[x] = NoUser /\ s.behind[x] = NoUser
    /\ s.ahead[x] # NoUser =>
         cl[s.ahead[x]] # NoConn /\ s.behind[cl[s.ahead[x]]] = UserOf[x]
    /\ s.behind[x] # NoUser =>
         cl[s.behind[x]] # NoConn /\ s.ahead[cl[s.behind[x]]] = UserOf[x]

Ranks(s, rank) ==
  \A x \in Conn : s.ahead[x] # NoUser => rank[s.ahead[x]] < rank[UserOf[x]]

Lines(cl, s) ==
  /\ s \in Chain
  /\ Owned(cl)
  /\ Tidy(cl, s)
  /\ \E rank \in [User -> Nat] : Ranks(s, rank)

(* A walk along pointers that lead to somebody, each time to a lower rank, *)
(* ends where there is no pointer: before it meets as many users as there  *)
(* are.                                                                    *)
LEMMA WalkEnds ==
  ASSUME ShortChains, Owned(clients), NEW link \in [Conn -> Pointer],
         NEW rank \in [User -> Int],
         \A x \in Conn : link[x] # NoUser =>
           clients[link[x]] # NoConn /\ rank[link[x]] < rank[UserOf[x]],
         NEW start \in Conn
  PROVE  link[WalkEnd(link, start)] = NoUser
<1> DEFINE N == MaxFollowChain
           at == Walk(link, start)
<1> SUFFICES ASSUME link[at[N]] # NoUser PROVE FALSE
  BY DEF WalkEnd
<1>0. N \in Nat
  BY FollowAssumption
<1>1. /\ at \in [0..N -> Conn]
      /\ at[0] = start
      /\ \A n \in 1..N : at[n] = Step(link, at[n-1])
  BY WalkEquations DEF Owned
<1>2. ASSUME NEW x \in Conn
      PROVE  IF link[x] = NoUser THEN Step(link, x) = x
             ELSE link[x] \in User /\ UserOf[Step(link, x)] = link[x]
  BY DEF Step, ClientOf, Owned, Pointer
<1> HIDE DEF at, N
<1>3. \A n \in 0..N : link[at[n]] # NoUser
  <2> DEFINE T == {k \in 0..N : link[at[N-k]] = NoUser}
  <2>1. T = {}
    <3> SUFFICES ASSUME T # {} PROVE FALSE
      OBVIOUS
    <3>1. PICK k \in T : \A m \in T : k <= m
      <4>1. T \in SUBSET Nat
        BY <1>0
      <4>2. QED
        BY <4>1, LeastNumber
    <3>2. k # 0
      BY <1>0
    <3>3. k \in 1..N /\ N - k \in 0..N /\ N - k + 1 \in 1..N
      BY <1>0, <3>1, <3>2
    <3>4. at[N-k+1] = Step(link, at[N-k]) /\ at[N-k] \in Conn
      <4>1. (N - k + 1) - 1 = N - k
        BY <1>0, <3>3
      <4>2. QED
        BY <1>1, <3>3, <4>1
    <3>5. at[N-k+1] = at[N-k]
      BY <1>2, <3>1, <3>4
    <3>6. N - (k - 1) = N - k + 1 /\ k - 1 \in 0..N
      BY <1>0, <3>3
    <3>7. k - 1 \in T
      BY <3>1, <3>5, <3>6
    <3>8. QED
      BY <3>1, <3>3, <3>7
  <2>2. ASSUME NEW n \in 0..N PROVE link[at[n]] # NoUser
    <3>1. N - n \in 0..N /\ N - (N - n) = n
      BY <1>0
    <3>2. QED
      BY <2>1, <3>1
  <2>3. QED
    BY <2>2
<1> DEFINE r == [n \in 0..N |-> rank[UserOf[at[n]]]]
<1>4. \A n \in 0..N : r[n] \in Int
  BY <1>1, FollowAssumption
<1>5. ASSUME NEW n \in 1..N PROVE r[n] < r[n-1]
  <2>1. n - 1 \in 0..N /\ n \in 0..N
    BY <1>0
  <2>2. at[n-1] \in Conn /\ link[at[n-1]] # NoUser
    BY <1>1, <1>3, <2>1
  <2>3. UserOf[at[n]] = link[at[n-1]]
    BY <1>1, <1>2, <2>2
  <2>4. rank[link[at[n-1]]] < rank[UserOf[at[n-1]]]
    BY <2>2
  <2>5. QED
    BY <2>1, <2>3, <2>4
<1> HIDE DEF r
<1>6. ASSUME NEW i \in 0..N, NEW j \in 0..N, i < j PROVE r[j] < r[i]
  <2> DEFINE T == {k \in (i+1)..N : ~ (r[k] < r[i])}
  <2>1. T = {}
    <3> SUFFICES ASSUME T # {} PROVE FALSE
      OBVIOUS
    <3>1. PICK k \in T : \A m \in T : k <= m
      <4>1. T \in SUBSET Nat
        BY <1>0
      <4>2. QED
        BY <4>1, LeastNumber
    <3>2. k \in 1..N /\ k - 1 \in 0..N
      BY <1>0
    <3>3. r[k] < r[k-1]
      BY <1>5, <3>2
    <3>4. k # i + 1
      BY <3>3
    <3>5. k - 1 \in (i+1)..N /\ k - 1 \notin T
      BY <1>0, <3>1, <3>2, <3>4
    <3>6. r[k-1] < r[i]
      BY <3>5
    <3>7. r[k] \in Int /\ r[k-1] \in Int /\ r[i] \in Int
      BY <1>0, <1>4, <3>2
    <3>8. QED
      BY <3>3, <3>6, <3>7
  <2>2. j \in (i+1)..N
    BY <1>0, <1>6
  <2>3. QED
    BY <2>1, <2>2
<1>7. \E x, y \in 0..N : x # y /\ UserOf[at[x]] = UserOf[at[y]]
  <2> DEFINE f == [n \in 0..N |-> UserOf[at[n]]]
  <2>1. f \in [0..N -> User]
    BY <1>1, FollowAssumption
  <2>2. IsFiniteSet(0..N) /\ Cardinality(0..N) = N + 1
    BY <1>0, FS_Interval
  <2>3. Cardinality(User) \in Nat /\ Cardinality(User) < N + 1
    BY <1>0, FS_CardinalityType DEF ShortChains, N
  <2> HIDE DEF f
  <2>4. \E x, y \in 0..N : x # y /\ f[x] = f[y]
    BY <2>1, <2>2, <2>3, FS_PigeonHole DEF ShortChains
  <2>5. QED
    BY <2>4 DEF f
<1>8. PICK x \in 0..N, y \in 0..N : x # y /\ UserOf[at[x]] = UserOf[at[y]]
  BY <1>7
<1>9. r[x] = r[y] /\ r[x] \in Int /\ r[y] \in Int
  BY <1>4, <1>8 DEF r
<1>10. x < y \/ y < x
  BY <1>0, <1>8
<1>11. QED
  BY <1>6, <1>9, <1>10

(* In tidy lines a walk has nothing to repair, and finds the end of a line.*)
LEMMA NothingToRepair ==
  ASSUME ShortChains, NEW s, Lines(clients, s), NEW x \in Conn
  PROVE  /\ RepairedAhead(s, x) = s
         /\ RepairedBehind(s, x) = s
         /\ s.ahead[WalkEnd(s.ahead, x)] = NoUser
         /\ s.behind[WalkEnd(s.behind, x)] = NoUser
<1>1. PICK rank \in [User -> Nat] : Ranks(s, rank)
  BY DEF Lines
<1>2. s \in Chain /\ Owned(clients) /\ Tidy(clients, s)
  BY DEF Lines
<1>3. s.ahead \in [Conn -> Pointer] /\ s.behind \in [Conn -> Pointer]
  BY <1>2 DEF Chain
<1>4. s.ahead[WalkEnd(s.ahead, x)] = NoUser
  <2>1. rank \in [User -> Int]
    OBVIOUS
  <2>2. \A y \in Conn : s.ahead[y] # NoUser =>
          clients[s.ahead[y]] # NoConn /\ rank[s.ahead[y]] < rank[UserOf[y]]
    BY <1>1, <1>2 DEF Tidy, Ranks
  <2>3. QED
    BY <1>2, <1>3, <2>1, <2>2, WalkEnds
<1>5. s.behind[WalkEnd(s.behind, x)] = NoUser
  <2> DEFINE neg == [u \in User |-> 0 - rank[u]]
  <2>1. neg \in [User -> Int]
    OBVIOUS
  <2>2. ASSUME NEW y \in Conn, s.behind[y] # NoUser
        PROVE  clients[s.behind[y]] # NoConn /\ neg[s.behind[y]] < neg[UserOf[y]]
    <3>1. clients[s.behind[y]] # NoConn /\ s.ahead[clients[s.behind[y]]] = UserOf[y]
      BY <1>2, <2>2 DEF Tidy
    <3>2. s.behind[y] \in User /\ UserOf[y] \in User /\ UserOf[y] # NoUser
      BY <1>3, <2>2, FollowAssumption DEF Pointer
    <3>3. clients[s.behind[y]] \in Conn /\ UserOf[clients[s.behind[y]]] = s.behind[y]
      BY <1>2, <3>1, <3>2 DEF Owned
    <3>4. rank[UserOf[y]] < rank[s.behind[y]]
      BY <1>1, <3>1, <3>2, <3>3 DEF Ranks
    <3>5. QED
      BY <3>1, <3>2, <3>4
  <2> HIDE DEF neg
  <2>3. QED
    BY <1>2, <1>3, <2>1, <2>2, WalkEnds
<1>6. ASSUME NEW link \in [Conn -> Pointer], link[WalkEnd(link, x)] = NoUser
      PROVE  Repaired(link, x) = link
  <2>1. WalkEnd(link, x) \in Conn
    BY <1>2, WalkEndType DEF Owned
  <2>2. ClientOf(link[WalkEnd(link, x)]) = NoConn
    BY <1>6 DEF ClientOf
  <2>3. QED
    BY <1>6, <2>1, <2>2 DEF Repaired
<1>7. Repaired(s.ahead, x) = s.ahead /\ Repaired(s.behind, x) = s.behind
  BY <1>3, <1>4, <1>5, <1>6
<1>8. QED
  BY <1>2, <1>4, <1>5, <1>7 DEF RepairedAhead, RepairedBehind, Chain

Registered(c) == clients[UserOf[c]] = c

(* A walk from one registered connection stays among them, never meets one *)
(* that no pointer leads to, and ahead it does not climb.                  *)
LEMMA WalkAhead ==
  ASSUME ShortChains, NEW s, Lines(clients, s), NEW rank \in [User -> Nat],
         Ranks(s, rank), NEW d \in Conn, Registered(d)
  PROVE  \A n \in 0..MaxFollowChain :
           /\ Walk(s.ahead, d)[n] \in Conn
           /\ Registered(Walk(s.ahead, d)[n])
           /\ rank[UserOf[Walk(s.ahead, d)[n]]] <= rank[UserOf[d]]
<1> DEFINE N == MaxFollowChain
           at == Walk(s.ahead, d)
           T == {n \in 0..N : ~ (/\ Registered(at[n])
                                 /\ rank[UserOf[at[n]]] <= rank[UserOf[d]])}
<1>0. N \in Nat
  BY FollowAssumption
<1>1. s.ahead \in [Conn -> Pointer] /\ Owned(clients) /\ Tidy(clients, s)
  BY DEF Lines, Chain
<1>2. /\ at \in [0..N -> Conn]
      /\ at[0] = d
      /\ \A n \in 1..N : at[n] = Step(s.ahead, at[n-1])
  BY <1>1, WalkEquations DEF Owned
<1> HIDE DEF at, N
<1>3. T = {}
  <2> SUFFICES ASSUME T # {} PROVE FALSE
    OBVIOUS
  <2>1. PICK n \in T : \A m \in T : n <= m
    <3>1. T \in SUBSET Nat
      BY <1>0
    <3>2. QED
      BY <3>1, LeastNumber
  <2>2. rank[UserOf[d]] \in Nat
    BY FollowAssumption
  <2>3. n # 0
    BY <1>2, <2>2
  <2>4. n \in 1..N /\ n - 1 \in 0..N /\ n - 1 \notin T
    BY <1>0, <2>1, <2>3
  <2> DEFINE x == at[n-1]
  <2>5. /\ x \in Conn /\ Registered(x) /\ rank[UserOf[x]] <= rank[UserOf[d]]
        /\ at[n] = Step(s.ahead, x)
    BY <1>2, <2>4
  <2> HIDE DEF x
  <2>6. CASE s.ahead[x] = NoUser
    BY <2>1, <2>5, <2>6 DEF Step, ClientOf
  <2>7. CASE s.ahead[x] # NoUser
    <3>1. s.ahead[x] \in User /\ clients[s.ahead[x]] # NoConn
      BY <1>1, <2>5, <2>7 DEF Tidy, Pointer
    <3>2. at[n] = clients[s.ahead[x]]
      BY <2>5, <2>7, <3>1 DEF Step, ClientOf
    <3>3. UserOf[at[n]] = s.ahead[x]
      BY <1>1, <3>1, <3>2 DEF Owned
    <3>4. Registered(at[n])
      BY <3>2, <3>3 DEF Registered
    <3>5. rank[s.ahead[x]] < rank[UserOf[x]]
      BY <2>5, <2>7 DEF Ranks
    <3>6. rank[s.ahead[x]] \in Nat /\ rank[UserOf[x]] \in Nat
      BY <2>5, <3>1, FollowAssumption
    <3>7. rank[UserOf[at[n]]] <= rank[UserOf[d]]
      BY <2>2, <2>5, <3>3, <3>5, <3>6
    <3>8. QED
      BY <2>1, <3>4, <3>7
  <2>8. QED
    BY <2>6, <2>7
<1>4. QED
  BY <1>2, <1>3 DEF at, N

LEMMA WalkAheadMisses ==
  ASSUME ShortChains, NEW s, Lines(clients, s), NEW d \in Conn, NEW c \in Conn,
         c # d, s.behind[c] = NoUser
  PROVE  \A n \in 0..MaxFollowChain : Walk(s.ahead, d)[n] # c
<1> DEFINE N == MaxFollowChain
           at == Walk(s.ahead, d)
           T == {n \in 0..N : at[n] = c}
<1>0. N \in Nat
  BY FollowAssumption
<1>1. s.ahead \in [Conn -> Pointer] /\ Owned(clients) /\ Tidy(clients, s)
  BY DEF Lines, Chain
<1>2. /\ at \in [0..N -> Conn]
      /\ at[0] = d
      /\ \A n \in 1..N : at[n] = Step(s.ahead, at[n-1])
  BY <1>1, WalkEquations DEF Owned
<1> HIDE DEF at, N
<1>3. T = {}
  <2> SUFFICES ASSUME T # {} PROVE FALSE
    OBVIOUS
  <2>1. PICK n \in T : \A m \in T : n <= m
    <3>1. T \in SUBSET Nat
      BY <1>0
    <3>2. QED
      BY <3>1, LeastNumber
  <2>2. n \in 1..N /\ n - 1 \in 0..N /\ n - 1 \notin T
    BY <1>0, <1>2, <2>1
  <2>3. at[n-1] \in Conn /\ at[n-1] # c /\ c = Step(s.ahead, at[n-1])
    BY <1>2, <2>1, <2>2
  <2>4. s.ahead[at[n-1]] # NoUser /\ c = clients[s.ahead[at[n-1]]]
    BY <2>3 DEF Step, ClientOf
  <2>5. s.behind[c] = UserOf[at[n-1]]
    BY <1>1, <2>3, <2>4 DEF Tidy
  <2>6. QED
    BY <2>3, <2>5, FollowAssumption
<1>4. QED
  BY <1>3 DEF at, N

(* The tail of the line of a registered connection is registered, and not  *)
(* one that follows nobody, unless the walk starts there.                  *)
LEMMA TailRegistered ==
  ASSUME ShortChains, NEW s, Lines(clients, s), NEW d \in Conn, Registered(d)
  PROVE  LET tail == WalkEnd(s.behind, d) IN
         /\ tail \in Conn /\ Registered(tail)
         /\ tail = d \/ s.ahead[tail] # NoUser
<1> DEFINE N == MaxFollowChain
           at == Walk(s.behind, d)
           T == {n \in 0..N : ~ (/\ Registered(at[n])
                                 /\ at[n] = d \/ s.ahead[at[n]] # NoUser)}
<1>0. N \in Nat
  BY FollowAssumption
<1>1. s.behind \in [Conn -> Pointer] /\ Owned(clients) /\ Tidy(clients, s)
  BY DEF Lines, Chain
<1>2. /\ at \in [0..N -> Conn]
      /\ at[0] = d
      /\ \A n \in 1..N : at[n] = Step(s.behind, at[n-1])
  BY <1>1, WalkEquations DEF Owned
<1>3. WalkEnd(s.behind, d) = at[N]
  BY DEF WalkEnd
<1> HIDE DEF at, N
<1>4. T = {}
  <2> SUFFICES ASSUME T # {} PROVE FALSE
    OBVIOUS
  <2>1. PICK n \in T : \A m \in T : n <= m
    <3>1. T \in SUBSET Nat
      BY <1>0
    <3>2. QED
      BY <3>1, LeastNumber
  <2>2. n \in 1..N /\ n - 1 \in 0..N /\ n - 1 \notin T
    BY <1>0, <1>2, <2>1
  <2> DEFINE x == at[n-1]
  <2>3. /\ x \in Conn /\ Registered(x) /\ (x = d \/ s.ahead[x] # NoUser)
        /\ at[n] = Step(s.behind, x)
    BY <1>2, <2>2
  <2> HIDE DEF x
  <2>4. CASE s.behind[x] = NoUser
    BY <2>1, <2>3, <2>4 DEF Step, ClientOf
  <2>5. CASE s.behind[x] # NoUser
    <3>1. s.behind[x] \in User /\ clients[s.behind[x]] # NoConn
          /\ s.ahead[clients[s.behind[x]]] = UserOf[x]
      BY <1>1, <2>3, <2>5 DEF Tidy, Pointer
    <3>2. at[n] = clients[s.behind[x]]
      BY <2>3, <2>5, <3>1 DEF Step, ClientOf
    <3>3. Registered(at[n])
      BY <1>1, <3>1, <3>2 DEF Owned, Registered
    <3>4. s.ahead[at[n]] # NoUser
      BY <2>3, <3>1, <3>2, FollowAssumption
    <3>5. QED
      BY <2>1, <3>3, <3>4
  <2>6. QED
    BY <2>4, <2>5
<1>5. N \in 0..N
  BY <1>0
<1>6. QED
  BY <1>2, <1>3, <1>4, <1>5

(***************************************************************************)
(* Detaching and linking                                                   *)
(***************************************************************************)

(* What x's own client, everybody's clients and Redis have is what the     *)
(* chain has.                                                              *)
InformedOf(s, x) ==
  /\ s.told[x] = s.ahead[x]
  /\ s.shown[UserOf[x]] = s.ahead[x]
  /\ s.key[UserOf[x]] \in {NoUser, s.ahead[x]}

(* detach of c, which is registered or on its way out, leaves tidy lines,  *)
(* c alone, and everybody else informed.                                   *)
LEMMA DetachLines ==
  ASSUME ShortChains, Owned(clients), NEW s, NEW c \in Conn,
         clients[UserOf[c]] \in {c, NoConn},
         Lines([clients EXCEPT ![UserOf[c]] = c], s)
  PROVE  LET t == Detach(s, c)
             b == s.behind[c]
         IN
         /\ Lines(clients, t)
         /\ t.ahead[c] = NoUser /\ t.behind[c] = NoUser
         /\ b # UserOf[c]
         /\ \A x \in Conn : b = NoUser \/ x # clients[b] => t.told[x] = s.told[x]
         /\ \A x \in Conn \ {c} :
              Registered(x) /\ InformedOf(s, x) => InformedOf(t, x)
         /\ InformedOf(s, c) =>
              t.shown[UserOf[c]] = NoUser /\ t.key[UserOf[c]] = NoUser
         /\ \A x \in Conn :
              t.ahead[x] = IF x = c THEN NoUser
                           ELSE IF s.ahead[x] = UserOf[c] THEN s.ahead[c]
                           ELSE s.ahead[x]
<1> DEFINE t == Detach(s, c)
           u == UserOf[c]
           cl == [clients EXCEPT ![u] = c]
           a == s.ahead[c]
           b == s.behind[c]
           A == ClientOf(a)
           B == ClientOf(b)
           behind == [x \in Conn |-> IF x = c THEN NoUser
                                     ELSE IF x = A THEN b ELSE s.behind[x]]
           ahead  == [x \in Conn |-> IF x = c THEN NoUser
                                     ELSE IF x = B THEN a ELSE s.ahead[x]]
           key    == KeysAfterDetach(s.key, c, a, b)
           told   == [x \in Conn |-> IF x = B THEN a ELSE s.told[x]]
           linked == [s EXCEPT !.behind = behind, !.ahead = ahead,
                               !.key = key, !.told = told]
<1>1. s \in Chain /\ Owned(cl) /\ Tidy(cl, s)
  BY DEF Lines
<1>2. PICK rank \in [User -> Nat] : Ranks(s, rank)
  BY DEF Lines
<1>3. /\ u \in User /\ u # NoUser /\ c # NoConn
      /\ a \in Pointer /\ b \in Pointer /\ NoUser \in Pointer
  BY <1>1, FollowAssumption DEF Chain, Pointer
<1>4. \A v \in User : v # u => cl[v] = clients[v]
  BY DEF Owned
<1>5. cl[u] = c
  BY <1>3 DEF Owned
<1> HIDE DEF cl
<1>6. a # NoUser => /\ a # u /\ A = clients[a] /\ A = cl[a] /\ A \in Conn
                    /\ UserOf[A] = a /\ A # c /\ s.behind[A] = u
                    /\ rank[a] < rank[u]
  <2> SUFFICES ASSUME a # NoUser
               PROVE  /\ a # u /\ A = clients[a] /\ A = cl[a] /\ A \in Conn
                      /\ UserOf[A] = a /\ A # c /\ s.behind[A] = u
                      /\ rank[a] < rank[u]
    OBVIOUS
  <2>1. rank[a] < rank[u] /\ a \in User
    BY <1>2, <1>3 DEF Ranks, Pointer
  <2>2. a # u
    BY <1>3, <2>1
  <2>3. A = clients[a] /\ A = cl[a]
    BY <1>4, <2>1, <2>2 DEF ClientOf
  <2>4. cl[a] # NoConn /\ s.behind[cl[a]] = u
    BY <1>1 DEF Tidy
  <2>5. cl[a] \in Conn /\ UserOf[cl[a]] = a
    BY <1>1, <2>1, <2>4 DEF Owned
  <2>6. QED
    BY <2>1, <2>2, <2>3, <2>4, <2>5
<1>7. b # NoUser => /\ b # u /\ B = clients[b] /\ B = cl[b] /\ B \in Conn
                    /\ UserOf[B] = b /\ B # c /\ s.ahead[B] = u
                    /\ rank[u] < rank[b]
  <2> SUFFICES ASSUME b # NoUser
               PROVE  /\ b # u /\ B = clients[b] /\ B = cl[b] /\ B \in Conn
                      /\ UserOf[B] = b /\ B # c /\ s.ahead[B] = u
                      /\ rank[u] < rank[b]
    OBVIOUS
  <2>1. b \in User /\ cl[b] # NoConn /\ s.ahead[cl[b]] = u
    BY <1>1, <1>3 DEF Tidy, Pointer
  <2>2. cl[b] \in Conn /\ UserOf[cl[b]] = b
    BY <1>1, <2>1 DEF Owned
  <2>3. rank[u] < rank[b]
    BY <1>2, <1>3, <2>1, <2>2 DEF Ranks
  <2>4. b # u
    BY <1>3, <2>3
  <2>5. B = clients[b] /\ B = cl[b]
    BY <1>4, <2>1, <2>4 DEF ClientOf
  <2>6. QED
    BY <2>1, <2>2, <2>3, <2>4, <2>5
<1>8. a = NoUser => A = NoConn
  BY DEF ClientOf
<1>9. b = NoUser => B = NoConn
  BY DEF ClientOf
<1>10. NoConn \notin Conn
  BY FollowAssumption
<1>11. /\ s.ahead \in [Conn -> Pointer] /\ s.behind \in [Conn -> Pointer]
       /\ s.told \in [Conn -> Pointer] /\ s.key \in [User -> Pointer]
       /\ s.shown \in [User -> Pointer]
  BY <1>1 DEF Chain
<1>12. linked \in Chain /\ linked.ahead = ahead /\ linked.behind = behind
       /\ linked.key = key /\ linked.told = told /\ linked.shown = s.shown
  <2> HIDE DEF a, b, A, B
  <2>1. behind \in [Conn -> Pointer] /\ ahead \in [Conn -> Pointer]
        /\ told \in [Conn -> Pointer]
    BY <1>3, <1>11
  <2>2. key \in [User -> Pointer]
    BY <1>3, <1>11 DEF KeysAfterDetach
  <2> HIDE DEF behind, ahead, key, told
  <2>3. QED
    BY <1>1, <2>1, <2>2 DEF Chain
<1> HIDE DEF a, b, A, B, u
<1>13. \A x \in Conn : UserOf[x] = u => x = c \/ cl[UserOf[x]] # x
  BY <1>5
<1>14. \A x \in Conn \ {c} : clients[UserOf[x]] # x <=> cl[UserOf[x]] # x
  <2> SUFFICES ASSUME NEW x \in Conn \ {c}
               PROVE  clients[UserOf[x]] # x <=> cl[UserOf[x]] # x
    OBVIOUS
  <2>1. UserOf[x] \in User
    BY FollowAssumption
  <2>2. UserOf[x] = u => clients[u] # x
    BY <1>10 DEF u
  <2>3. QED
    BY <1>4, <1>5, <2>1, <2>2
<1>15. Tidy(clients, linked)
  <2> SUFFICES ASSUME NEW x \in Conn
               PROVE  /\ clients[UserOf[x]] # x =>
                           ahead[x] = NoUser /\ behind[x] = NoUser
                      /\ ahead[x] # NoUser =>
                           /\ clients[ahead[x]] # NoConn
                           /\ behind[clients[ahead[x]]] = UserOf[x]
                      /\ behind[x] # NoUser =>
                           /\ clients[behind[x]] # NoConn
                           /\ ahead[clients[behind[x]]] = UserOf[x]
    <3> HIDE DEF ahead, behind, linked
    <3>1. QED
      BY <1>12 DEF Tidy
  <2>1. CASE x = c
    BY <2>1
  <2>2. CASE x # c
    <3>1. /\ cl[UserOf[x]] # x => s.ahead[x] = NoUser /\ s.behind[x] = NoUser
          /\ s.ahead[x] # NoUser =>
               cl[s.ahead[x]] # NoConn /\ s.behind[cl[s.ahead[x]]] = UserOf[x]
          /\ s.behind[x] # NoUser =>
               cl[s.behind[x]] # NoConn /\ s.ahead[cl[s.behind[x]]] = UserOf[x]
      BY <1>1 DEF Tidy
    <3>2. ASSUME clients[UserOf[x]] # x
          PROVE  ahead[x] = NoUser /\ behind[x] = NoUser
      <4>1. s.ahead[x] = NoUser /\ s.behind[x] = NoUser
        BY <1>14, <2>2, <3>1, <3>2
      <4>2. x # A
        BY <1>6, <1>8, <1>10, <3>2
      <4>3. x # B
        BY <1>7, <1>9, <1>10, <3>2
      <4>4. QED
        BY <2>2, <4>1, <4>2, <4>3
    <3>3. ASSUME ahead[x] # NoUser
          PROVE  /\ clients[ahead[x]] # NoConn
                 /\ behind[clients[ahead[x]]] = UserOf[x]
      <4>1. CASE x = B
        <5>1. b # NoUser /\ ahead[x] = a /\ a # NoUser
          BY <1>9, <1>10, <2>2, <3>3, <4>1
        <5>2. clients[a] = A /\ A \in Conn /\ A # c /\ UserOf[x] = b
          BY <1>6, <1>7, <4>1, <5>1
        <5>3. behind[A] = b
          BY <5>2
        <5>4. QED
          BY <1>10, <5>1, <5>2, <5>3
      <4>2. CASE x # B
        <5> DEFINE p == s.ahead[x]
        <5>1. ahead[x] = p /\ p # NoUser /\ p \in User
          BY <1>11, <2>2, <3>3, <4>2 DEF Pointer
        <5>2. cl[p] # NoConn /\ s.behind[cl[p]] = UserOf[x]
          BY <3>1, <5>1
        <5>3. cl[UserOf[x]] = x
          BY <3>1, <5>1
        <5>4. p # u
          <6> SUFFICES ASSUME p = u PROVE FALSE
            OBVIOUS
          <6>1. b = UserOf[x]
            BY <1>5, <5>2 DEF b
          <6>2. b # NoUser
            BY <6>1, FollowAssumption
          <6>3. QED
            BY <1>7, <4>2, <5>3, <6>1, <6>2
        <5>5. clients[p] = cl[p] /\ clients[p] \in Conn /\ UserOf[clients[p]] = p
          BY <1>1, <1>4, <5>1, <5>2, <5>4 DEF Owned
        <5>6. clients[p] # c
          BY <5>4, <5>5 DEF u
        <5>7. clients[p] # A
          <6> SUFFICES ASSUME clients[p] = A PROVE FALSE
            OBVIOUS
          <6>1. a # NoUser
            BY <1>8, <1>10, <5>5
          <6>2. UserOf[x] = u
            BY <1>6, <5>2, <5>5, <6>1
          <6>3. QED
            BY <1>5, <2>2, <5>3, <6>2
        <5>8. behind[clients[p]] = UserOf[x]
          BY <5>2, <5>5, <5>6, <5>7
        <5>9. QED
          BY <1>10, <5>1, <5>5, <5>8
      <4>3. QED
        BY <4>1, <4>2
    <3>4. ASSUME behind[x] # NoUser
          PROVE  /\ clients[behind[x]] # NoConn
                 /\ ahead[clients[behind[x]]] = UserOf[x]
      <4>1. CASE x = A
        <5>1. a # NoUser /\ behind[x] = b /\ b # NoUser
          BY <1>8, <1>10, <2>2, <3>4, <4>1
        <5>2. clients[b] = B /\ B \in Conn /\ B # c /\ UserOf[x] = a
          BY <1>6, <1>7, <4>1, <5>1
        <5>3. ahead[B] = a
          BY <5>2
        <5>4. QED
          BY <1>10, <5>1, <5>2, <5>3
      <4>2. CASE x # A
        <5> DEFINE p == s.behind[x]
        <5>1. behind[x] = p /\ p # NoUser /\ p \in User
          BY <1>11, <2>2, <3>4, <4>2 DEF Pointer
        <5>2. cl[p] # NoConn /\ s.ahead[cl[p]] = UserOf[x]
          BY <3>1, <5>1
        <5>3. cl[UserOf[x]] = x
          BY <3>1, <5>1
        <5>4. p # u
          <6> SUFFICES ASSUME p = u PROVE FALSE
            OBVIOUS
          <6>1. a = UserOf[x]
            BY <1>5, <5>2 DEF a
          <6>2. a # NoUser
            BY <6>1, FollowAssumption
          <6>3. QED
            BY <1>6, <4>2, <5>3, <6>1, <6>2
        <5>5. clients[p] = cl[p] /\ clients[p] \in Conn /\ UserOf[clients[p]] = p
          BY <1>1, <1>4, <5>1, <5>2, <5>4 DEF Owned
        <5>6. clients[p] # c
          BY <5>4, <5>5 DEF u
        <5>7. clients[p] # B
          <6> SUFFICES ASSUME clients[p] = B PROVE FALSE
            OBVIOUS
          <6>1. b # NoUser
            BY <1>9, <1>10, <5>5
          <6>2. UserOf[x] = u
            BY <1>7, <5>2, <5>5, <6>1
          <6>3. QED
            BY <1>5, <2>2, <5>3, <6>2
        <5>8. ahead[clients[p]] = UserOf[x]
          BY <5>2, <5>5, <5>6, <5>7
        <5>9. QED
          BY <1>10, <5>1, <5>5, <5>8
      <4>3. QED
        BY <4>1, <4>2
    <3>5. QED
      BY <3>2, <3>3, <3>4
  <2>3. QED
    BY <2>1, <2>2
<1>16. Ranks(linked, rank)
  <2> SUFFICES ASSUME NEW x \in Conn, ahead[x] # NoUser
               PROVE  rank[ahead[x]] < rank[UserOf[x]]
    <3> HIDE DEF ahead, linked
    <3>1. QED
      BY <1>12 DEF Ranks
  <2>1. x # c
    OBVIOUS
  <2>2. CASE x = B
    <3>1. b # NoUser /\ ahead[x] = a /\ a # NoUser
      BY <1>9, <1>10, <2>1, <2>2
    <3>2. rank[a] < rank[u] /\ rank[u] < rank[b] /\ UserOf[x] = b
      BY <1>6, <1>7, <2>2, <3>1
    <3>3. rank[a] \in Nat /\ rank[u] \in Nat /\ rank[b] \in Nat
      BY <1>3, <3>1 DEF Pointer
    <3>4. QED
      BY <3>1, <3>2, <3>3
  <2>3. CASE x # B
    BY <1>2, <2>1, <2>3 DEF Ranks
  <2>4. QED
    BY <2>2, <2>3
<1>17. Lines(clients, linked)
  <2> HIDE DEF linked
  <2>1. QED
    BY <1>12, <1>15, <1>16 DEF Lines
<1>18. b # NoUser => RepairedAhead(linked, B) = linked
  <2> HIDE DEF linked
  <2>1. QED
    BY <1>7, <1>17, NothingToRepair
<1>19. t = IF a = NoUser /\ b = NoUser THEN s
           ELSE IF b = NoUser THEN Announced(linked, c)
           ELSE Announced(Announced(linked, B), c)
  <2>1. t = IF a = NoUser /\ b = NoUser THEN s
            ELSE IF B = NoConn THEN Announced(linked, c)
            ELSE Announced(Announced(IF a # NoUser THEN RepairedAhead(linked, B)
                                     ELSE linked, B), c)
    BY DEF Detach, a, b, A, B
  <2> HIDE DEF t, linked
  <2>2. B = NoConn <=> b = NoUser
    BY <1>7, <1>9, <1>10
  <2>3. QED
    BY <1>18, <2>1, <2>2
<1>20. t.ahead = ahead /\ t.behind = behind /\ t.told = told /\ t \in Chain
  <2>1. CASE a = NoUser /\ b = NoUser
    <3>1. A = NoConn /\ B = NoConn
      BY <1>8, <1>9, <2>1
    <3>2. ahead = s.ahead /\ behind = s.behind /\ told = s.told
      BY <1>10, <1>11, <2>1, <3>1 DEF a, b
    <3>3. QED
      BY <1>1, <1>19, <2>1, <3>2
  <2>2. CASE ~ (a = NoUser /\ b = NoUser)
    <3> HIDE DEF ahead, behind, told, key, linked, t
    <3>1. b # NoUser => B \in Conn
      BY <1>7
    <3>2. t \in Chain
      BY <1>12, <1>19, <2>2, <3>1, AnnouncedType
    <3>3. QED
      BY <1>12, <1>19, <2>2, <3>2 DEF Announced
  <2>3. QED
    BY <2>1, <2>2
<1>21. Lines(clients, t)
  <2>1. Tidy(clients, t)
    <3> HIDE DEF t, linked, ahead, behind
    <3>1. QED
      BY <1>12, <1>15, <1>20 DEF Tidy
  <2>2. Ranks(t, rank)
    <3> HIDE DEF t, linked, ahead, behind
    <3>1. QED
      BY <1>12, <1>16, <1>20 DEF Ranks
  <2> HIDE DEF t
  <2>3. QED
    BY <1>20, <2>1, <2>2 DEF Lines
<1>22. t.ahead[c] = NoUser /\ t.behind[c] = NoUser
  <2> HIDE DEF t
  <2>1. QED
    BY <1>20
<1>23. b # u
  BY <1>3, <1>7
<1>24. ASSUME NEW x \in Conn, b = NoUser \/ x # clients[b]
       PROVE  t.told[x] = s.told[x]
  <2>1. x # B
    BY <1>7, <1>9, <1>10, <1>24
  <2> HIDE DEF t
  <2>2. QED
    BY <1>20, <2>1
<1>25. ~ (a = NoUser /\ b = NoUser) =>
         /\ t.key = key
         /\ \A v \in User : t.shown[v] = IF v = u THEN NoUser
                                         ELSE IF v = b THEN a ELSE s.shown[v]
  <2> SUFFICES ASSUME ~ (a = NoUser /\ b = NoUser)
               PROVE  /\ t.key = key
                      /\ \A v \in User :
                           t.shown[v] = IF v = u THEN NoUser
                                        ELSE IF v = b THEN a ELSE s.shown[v]
    OBVIOUS
  <2>1. ahead[c] = NoUser
    OBVIOUS
  <2>2. b # NoUser => ahead[B] = a /\ UserOf[B] = b
    BY <1>7
  <2> HIDE DEF t, linked, ahead, behind, told, key
  <2>3. CASE b = NoUser
    <3>1. t = [linked EXCEPT !.shown[u] = NoUser]
      BY <1>12, <1>19, <2>1, <2>3 DEF Announced, u
    <3>2. QED
      BY <1>3, <1>11, <1>12, <2>3, <3>1, FollowAssumption DEF Chain
  <2>4. CASE b # NoUser
    <3> DEFINE m == Announced(linked, B)
    <3>1. m = [linked EXCEPT !.shown[b] = a]
      BY <1>12, <2>2, <2>4 DEF Announced
    <3>2. m.ahead = ahead /\ m.key = key /\ m \in Chain
          /\ m.shown = [s.shown EXCEPT ![b] = a]
      <4>1. B \in Conn
        BY <1>7, <2>4
      <4>2. QED
        BY <1>12, <3>1, <4>1, AnnouncedType DEF Chain
    <3> HIDE DEF m
    <3>3. t = [m EXCEPT !.shown[u] = NoUser]
      <4>1. t = Announced(m, c)
        BY <1>19, <2>4 DEF m
      <4>2. QED
        BY <2>1, <3>2, <4>1 DEF Announced, u
    <3>4. t.key = key /\ t.shown = [m.shown EXCEPT ![u] = NoUser]
      BY <3>2, <3>3 DEF Chain
    <3>5. b \in User
      BY <1>3, <2>4 DEF Pointer
    <3>6. QED
      BY <1>3, <1>11, <2>4, <3>2, <3>4, <3>5
  <2>5. QED
    BY <2>3, <2>4
<1>26. ASSUME NEW x \in Conn \ {c}, Registered(x), InformedOf(s, x)
       PROVE  InformedOf(t, x)
  <2>1. CASE a = NoUser /\ b = NoUser
    BY <1>19, <1>26, <2>1
  <2>2. CASE ~ (a = NoUser /\ b = NoUser)
    <3>1. UserOf[x] # u /\ UserOf[x] \in User
      BY <1>10, <1>26, FollowAssumption DEF Registered, u
    <3>2. CASE x = B
      <4>1. b # NoUser /\ UserOf[x] = b /\ clients[b] # NoConn
        BY <1>7, <1>9, <1>10, <3>2
      <4>2. ahead[x] = a /\ told[x] = a
        BY <3>2
      <4>3. key[UserOf[x]] = a
        BY <3>1, <4>1 DEF KeysAfterDetach, u
      <4> HIDE DEF t, ahead, told, key
      <4>4. QED
        BY <1>20, <1>25, <2>2, <3>1, <4>1, <4>2, <4>3 DEF InformedOf
    <3>3. CASE x # B
      <4>1. UserOf[x] # b
        BY <1>7, <1>26, <3>1, <3>3, FollowAssumption DEF Registered
      <4>2. ahead[x] = s.ahead[x] /\ told[x] = s.told[x]
        BY <3>3
      <4>3. key[UserOf[x]] = s.key[UserOf[x]]
        BY <3>1, <4>1 DEF KeysAfterDetach, u
      <4> HIDE DEF t, ahead, told, key
      <4>4. QED
        BY <1>20, <1>25, <1>26, <2>2, <3>1, <4>1, <4>2, <4>3 DEF InformedOf
    <3>4. QED
      BY <3>2, <3>3
  <2>3. QED
    BY <2>1, <2>2
<1>27. ASSUME InformedOf(s, c) PROVE t.shown[u] = NoUser /\ t.key[u] = NoUser
  <2>1. CASE a = NoUser /\ b = NoUser
    BY <1>19, <1>27, <2>1 DEF InformedOf, a, u
  <2>2. CASE ~ (a = NoUser /\ b = NoUser)
    <3>1. key[u] = NoUser
      BY <1>3 DEF KeysAfterDetach, u
    <3> HIDE DEF t, key
    <3>2. QED
      BY <1>3, <1>25, <2>2, <3>1
  <2>3. QED
    BY <2>1, <2>2
<1>28. ASSUME NEW x \in Conn
       PROVE  t.ahead[x] = IF x = c THEN NoUser
                           ELSE IF s.ahead[x] = u THEN a ELSE s.ahead[x]
  <2>1. x = B /\ x # c => s.ahead[x] = u
    BY <1>7, <1>9, <1>10
  <2>2. s.ahead[x] = u /\ x # c => x = B
    <3> SUFFICES ASSUME s.ahead[x] = u PROVE x = B
      OBVIOUS
    <3>1. b = UserOf[x] /\ cl[UserOf[x]] = x
      BY <1>1, <1>3, <1>5 DEF Tidy, b
    <3>2. b # NoUser
      BY <3>1, FollowAssumption
    <3>3. QED
      BY <1>7, <3>1, <3>2
  <2> HIDE DEF t
  <2>3. t.ahead[x] = IF x = c THEN NoUser ELSE IF x = B THEN a ELSE s.ahead[x]
    BY <1>20
  <2>4. QED
    BY <2>1, <2>2, <2>3
<1> USE DEF a, b, u
<1>29. QED
  BY <1>21, <1>22, <1>23, <1>24, <1>26, <1>27, <1>28

(* c, which follows nobody, is linked behind the tail d of a line that c is*)
(* not in: the lines stay tidy, c is informed, and so is who was before.   *)
LEMMA LinkLines ==
  ASSUME ShortChains, NEW s, Lines(clients, s), NEW c \in Conn, NEW d \in Conn,
         Registered(c), Registered(d), c # d,
         s.ahead[c] = NoUser, s.behind[d] = NoUser,
         \A n \in 0..MaxFollowChain : Walk(s.ahead, d)[n] # c
  PROVE  LET l == Link(s, c, d)
             t == Announced(l, c)
         IN
         /\ Lines(clients, l) /\ Lines(clients, t)
         /\ t.ahead = l.ahead /\ t.told = l.told /\ l.shown = s.shown
         /\ l.ahead[c] = UserOf[d] /\ l.told[c] = UserOf[d]
         /\ \A x \in Conn \ {c} : l.ahead[x] = s.ahead[x] /\ l.told[x] = s.told[x]
         /\ \A x \in Conn \ {d} : t.behind[x] = s.behind[x]
         /\ \A w \in User \ {UserOf[c]} : l.key[w] = s.key[w]
         /\ InformedOf(t, c)
         /\ \A x \in Conn \ {c} :
              Registered(x) /\ InformedOf(s, x) => InformedOf(t, x)
<1> DEFINE u == UserOf[c]
           v == UserOf[d]
           l == [s EXCEPT !.ahead[c] = v, !.behind[d] = u,
                          !.key[u] = v, !.told[c] = v]
           ahead == [s.ahead EXCEPT ![c] = v]
           behind == [s.behind EXCEPT ![d] = u]
           N == MaxFollowChain
           at == Walk(s.ahead, d)
<1>1. s \in Chain /\ Owned(clients) /\ Tidy(clients, s)
  BY DEF Lines
<1>2. PICK rank \in [User -> Nat] : Ranks(s, rank)
  BY DEF Lines
<1>3. /\ u \in User /\ v \in User /\ u # NoUser /\ v # NoUser /\ u # v
      /\ clients[u] = c /\ clients[v] = d /\ c # NoConn /\ d # NoConn
  BY FollowAssumption DEF Registered
<1>4. /\ s.ahead \in [Conn -> Pointer] /\ s.behind \in [Conn -> Pointer]
      /\ s.told \in [Conn -> Pointer] /\ s.key \in [User -> Pointer]
      /\ s.shown \in [User -> Pointer]
  BY <1>1 DEF Chain
<1> HIDE DEF u, v
<1>5. /\ l \in Chain /\ l.ahead = ahead /\ l.behind = behind
      /\ l.key = [s.key EXCEPT ![u] = v] /\ l.told = [s.told EXCEPT ![c] = v]
      /\ l.shown = s.shown
  BY <1>1, <1>3 DEF Chain, Pointer
<1> HIDE DEF l
<1>6. Tidy(clients, l)
  <2> SUFFICES ASSUME NEW x \in Conn
               PROVE  /\ clients[UserOf[x]] # x =>
                           ahead[x] = NoUser /\ behind[x] = NoUser
                      /\ ahead[x] # NoUser =>
                           /\ clients[ahead[x]] # NoConn
                           /\ behind[clients[ahead[x]]] = UserOf[x]
                      /\ behind[x] # NoUser =>
                           /\ clients[behind[x]] # NoConn
                           /\ ahead[clients[behind[x]]] = UserOf[x]
    <3> HIDE DEF ahead, behind
    <3>1. QED
      BY <1>5 DEF Tidy
  <2>1. /\ clients[UserOf[x]] # x => s.ahead[x] = NoUser /\ s.behind[x] = NoUser
        /\ s.ahead[x] # NoUser =>
             /\ clients[s.ahead[x]] # NoConn
             /\ s.behind[clients[s.ahead[x]]] = UserOf[x]
        /\ s.behind[x] # NoUser =>
             /\ clients[s.behind[x]] # NoConn
             /\ s.ahead[clients[s.behind[x]]] = UserOf[x]
    BY <1>1 DEF Tidy
  <2>2. UserOf[x] # NoUser
    BY FollowAssumption
  <2>3. \A p \in Pointer \ {NoUser} : clients[p] \in Conn \cup {NoConn}
    BY <1>1 DEF Owned, Pointer
  <2>4. clients[UserOf[x]] # x => ahead[x] = NoUser /\ behind[x] = NoUser
    <3> SUFFICES ASSUME clients[UserOf[x]] # x
                 PROVE  ahead[x] = NoUser /\ behind[x] = NoUser
      OBVIOUS
    <3>1. x # c /\ x # d
      BY DEF Registered
    <3>2. QED
      BY <1>4, <2>1, <3>1
  <2>5. ahead[x] # NoUser => /\ clients[ahead[x]] # NoConn
                             /\ behind[clients[ahead[x]]] = UserOf[x]
    <3>1. CASE x = c
      <4>1. ahead[x] = v
        BY <1>4, <3>1
      <4>2. behind[d] = u
        BY <1>4
      <4> HIDE DEF ahead, behind
      <4>3. QED
        BY <1>3, <3>1, <4>1, <4>2 DEF u
    <3>2. CASE x # c
      <4>1. ahead[x] = s.ahead[x] /\ s.ahead[x] \in Pointer
        BY <1>4, <3>2
      <4>2. ASSUME s.ahead[x] # NoUser
            PROVE  behind[clients[s.ahead[x]]] = UserOf[x]
        <5>1. clients[s.ahead[x]] # d
          BY <2>1, <2>2, <4>2
        <5>2. clients[s.ahead[x]] \in Conn
          BY <2>1, <2>3, <4>1, <4>2
        <5>3. QED
          BY <1>4, <2>1, <4>2, <5>1, <5>2
      <4> HIDE DEF ahead, behind
      <4>3. QED
        BY <2>1, <4>1, <4>2
    <3>3. QED
      BY <3>1, <3>2
  <2>6. behind[x] # NoUser => /\ clients[behind[x]] # NoConn
                              /\ ahead[clients[behind[x]]] = UserOf[x]
    <3>1. CASE x = d
      <4>1. behind[x] = u
        BY <1>4, <3>1
      <4>2. ahead[c] = v
        BY <1>4
      <4> HIDE DEF ahead, behind
      <4>3. QED
        BY <1>3, <3>1, <4>1, <4>2 DEF v
    <3>2. CASE x # d
      <4>1. behind[x] = s.behind[x] /\ s.behind[x] \in Pointer
        BY <1>4, <3>2
      <4>2. ASSUME s.behind[x] # NoUser
            PROVE  ahead[clients[s.behind[x]]] = UserOf[x]
        <5>1. clients[s.behind[x]] # c
          BY <2>1, <2>2, <4>2
        <5>2. clients[s.behind[x]] \in Conn
          BY <2>1, <2>3, <4>1, <4>2
        <5>3. QED
          BY <1>4, <2>1, <4>2, <5>1, <5>2
      <4> HIDE DEF ahead, behind
      <4>3. QED
        BY <2>1, <4>1, <4>2
    <3>3. QED
      BY <3>1, <3>2
  <2>7. QED
    BY <2>4, <2>5, <2>6
<1>7. \E r \in [User -> Nat] : Ranks(l, r)
  <2>0. N \in Nat
    BY FollowAssumption
  <2>1. /\ at \in [0..N -> Conn]
        /\ at[0] = d
        /\ \A n \in 1..N : at[n] = Step(s.ahead, at[n-1])
    BY <1>1, <1>4, WalkEquations DEF Owned
  <2>2. s.ahead[at[N]] = NoUser
    BY NothingToRepair DEF WalkEnd
  <2>3. \A n \in 0..N : /\ at[n] \in Conn /\ Registered(at[n]) /\ at[n] # c
                        /\ rank[UserOf[at[n]]] <= rank[v]
    BY <1>2, WalkAhead DEF v
  <2> HIDE DEF at, N
  <2> DEFINE R == {UserOf[at[n]] : n \in 0..N}
             K == rank[v] + 1
             r == [w \in User |-> IF w \in R THEN rank[w] ELSE rank[w] + K]
  <2>4. K \in Nat /\ rank[v] \in Nat
    BY <1>3
  <2>5. v \in R
    BY <2>0, <2>1 DEF v
  <2>6. u \notin R
    <3> SUFFICES ASSUME NEW n \in 0..N, u = UserOf[at[n]] PROVE FALSE
      OBVIOUS
    <3>1. QED
      BY <1>3, <2>3 DEF Registered
  <2>7. \A w \in R : w \in User /\ rank[w] \in Nat /\ rank[w] <= rank[v]
    BY <2>3, FollowAssumption
  <2>8. ASSUME NEW x \in Conn, UserOf[x] \in R, s.ahead[x] # NoUser
        PROVE  s.ahead[x] \in R
    <3>1. PICK n \in 0..N : UserOf[x] = UserOf[at[n]]
      BY <2>8
    <3>2. Registered(x)
      BY <1>1, <2>8 DEF Tidy, Registered
    <3>3. x = at[n]
      BY <2>3, <3>1, <3>2 DEF Registered
    <3>4. n # N
      BY <2>2, <2>8, <3>3
    <3>5. n + 1 \in 1..N /\ n + 1 \in 0..N
      BY <2>0, <3>4
    <3>6. at[n+1] = Step(s.ahead, x)
      BY <2>1, <3>3, <3>5
    <3>7. clients[s.ahead[x]] # NoConn /\ s.ahead[x] \in User
      BY <1>1, <1>4, <2>8 DEF Tidy, Pointer
    <3>8. UserOf[at[n+1]] = s.ahead[x]
      BY <1>1, <2>8, <3>6, <3>7 DEF Step, ClientOf, Owned
    <3>9. QED
      BY <3>5, <3>8
  <2> HIDE DEF R, K
  <2>9. r \in [User -> Nat]
    BY <2>4
  <2>10. Ranks(l, r)
    <3> SUFFICES ASSUME NEW x \in Conn, ahead[x] # NoUser
                 PROVE  r[ahead[x]] < r[UserOf[x]]
      <4> HIDE DEF ahead, r
      <4>1. QED
        BY <1>5 DEF Ranks
    <3>1. CASE x = c
      <4>1. ahead[x] = v
        BY <1>4, <3>1
      <4>2. r[v] = rank[v] /\ r[u] = rank[u] + K
        BY <1>3, <2>5, <2>6
      <4>3. rank[u] \in Nat
        BY <1>3
      <4> HIDE DEF r, ahead
      <4>4. QED
        BY <2>4, <3>1, <4>1, <4>2, <4>3 DEF u, K
    <3>2. CASE x # c
      <4>1. ahead[x] = s.ahead[x] /\ s.ahead[x] \in User /\ UserOf[x] \in User
        BY <1>4, <3>2, FollowAssumption DEF Pointer
      <4>2. rank[s.ahead[x]] < rank[UserOf[x]]
        BY <1>2, <4>1, FollowAssumption DEF Ranks
      <4>3. rank[s.ahead[x]] \in Nat /\ rank[UserOf[x]] \in Nat
        BY <4>1
      <4>4. UserOf[x] \in R => s.ahead[x] \in R
        BY <2>8, <4>1, FollowAssumption
      <4>5. s.ahead[x] \in R => rank[s.ahead[x]] < K
        BY <2>4, <2>7, <4>3 DEF K
      <4>6. /\ r[s.ahead[x]] = IF s.ahead[x] \in R THEN rank[s.ahead[x]]
                               ELSE rank[s.ahead[x]] + K
            /\ r[UserOf[x]] = IF UserOf[x] \in R THEN rank[UserOf[x]]
                              ELSE rank[UserOf[x]] + K
        BY <4>1
      <4> HIDE DEF r, ahead
      <4>7. QED
        BY <2>4, <4>1, <4>2, <4>3, <4>4, <4>5, <4>6
    <3>3. QED
      BY <3>1, <3>2
  <2> HIDE DEF r
  <2>11. QED
    BY <2>9, <2>10
<1>8. Lines(clients, l)
  BY <1>1, <1>5, <1>6, <1>7 DEF Lines
<1>9. Link(s, c, d) = l
  <2>1. Link(s, c, d) = RepairedAhead(l, c)
    BY DEF Link, l, u, v
  <2>2. QED
    BY <1>8, <2>1, NothingToRepair
<1> DEFINE t == Announced(l, c)
<1>10. ahead[c] = v /\ l.told[c] = v /\ l.key[u] = v
  BY <1>3, <1>4, <1>5
<1>11. \A x \in Conn \ {c} : ahead[x] = s.ahead[x] /\ l.told[x] = s.told[x]
  BY <1>4, <1>5
<1> HIDE DEF ahead, behind
<1>12. t = [l EXCEPT !.shown[u] = v]
  BY <1>5, <1>10 DEF Announced, u
<1>13. /\ t \in Chain /\ t.ahead = ahead /\ t.behind = behind
       /\ t.key = l.key /\ t.told = l.told
       /\ t.shown = [s.shown EXCEPT ![u] = v]
  BY <1>3, <1>5, <1>12 DEF Chain, Pointer
<1> HIDE DEF t
<1>14. Lines(clients, t)
  <2>1. Tidy(clients, t)
    BY <1>5, <1>6, <1>13 DEF Tidy
  <2>2. \A r : Ranks(l, r) => Ranks(t, r)
    BY <1>5, <1>13 DEF Ranks
  <2>3. QED
    BY <1>1, <1>7, <1>13, <2>1, <2>2 DEF Lines
<1>15. InformedOf(t, c)
  BY <1>3, <1>4, <1>10, <1>13 DEF InformedOf, u
<1>16. ASSUME NEW x \in Conn \ {c}, Registered(x), InformedOf(s, x)
       PROVE  InformedOf(t, x)
  <2>1. UserOf[x] # u /\ UserOf[x] \in User
    BY <1>3, <1>16, FollowAssumption DEF Registered
  <2>2. t.shown[UserOf[x]] = s.shown[UserOf[x]]
    BY <1>4, <1>13, <2>1
  <2>3. t.key[UserOf[x]] = s.key[UserOf[x]]
    BY <1>4, <1>5, <1>13, <2>1
  <2>4. QED
    BY <1>11, <1>13, <1>16, <2>2, <2>3 DEF InformedOf
<1>17. \A x \in Conn \ {d} : behind[x] = s.behind[x]
  BY <1>4 DEF behind
<1>18. \A w \in User \ {u} : l.key[w] = s.key[w]
  BY <1>4, <1>5
<1>19. QED
  BY <1>5, <1>8, <1>9, <1>10, <1>11, <1>13, <1>14, <1>15, <1>16, <1>17, <1>18
     DEF t, u, v

(* handleFollow of a registered connection.                                *)
LEMMA FollowedParts ==
  ASSUME ShortChains, NEW s, Lines(clients, s), NEW c \in Conn, Registered(c),
         NEW target \in User, target # UserOf[c], clients[target] # NoConn
  PROVE  LET start == clients[target]
             left  == Detach(s, c)
             tail  == WalkEnd(left.behind, start)
             mid   == Announced(Link(left, c, tail), c)
             old   == s.behind[c]
             B     == ClientOf(old)
         IN
         /\ Lines(clients, left)
         /\ left.ahead[c] = NoUser
         /\ old # UserOf[c]
         /\ \A x \in Conn : old = NoUser \/ x # clients[old] =>
              left.told[x] = s.told[x]
         /\ \A x \in Conn \ {c} :
              Registered(x) /\ InformedOf(s, x) => InformedOf(left, x)
         /\ \A x \in Conn :
              left.ahead[x] = IF x = c THEN NoUser
                              ELSE IF s.ahead[x] = UserOf[c] THEN s.ahead[c]
                              ELSE s.ahead[x]
         /\ start \in Conn /\ Registered(start) /\ start # c
         /\ tail \in Conn /\ Registered(tail) /\ tail # c
         /\ Followed(s, c, target) = Reattached(mid, c, old, target)
         /\ Lines(clients, mid)
         /\ mid.behind[c] = NoUser
         /\ mid.ahead[c] = UserOf[tail]
         /\ \A x \in Conn \ {c} : mid.told[x] = left.told[x]
         /\ \A x \in Conn \ {c} : mid.ahead[x] = left.ahead[x]
         /\ InformedOf(mid, c)
         /\ \A x \in Conn \ {c} :
              Registered(x) /\ InformedOf(left, x) => InformedOf(mid, x)
         /\ old # NoUser =>
              /\ old \in User /\ B = clients[old] /\ B \in Conn
              /\ Registered(B) /\ B # c /\ UserOf[B] = old
              /\ s.ahead[B] = UserOf[c]
         /\ old # NoUser /\ ~InChain(mid, c, old) =>
              \A n \in 0..MaxFollowChain : Walk(mid.ahead, c)[n] # B
<1> DEFINE start == clients[target]
           left == Detach(s, c)
           tail == WalkEnd(left.behind, start)
           mid  == Announced(Link(left, c, tail), c)
           old  == s.behind[c]
           B    == ClientOf(old)
<1>1. s \in Chain /\ Owned(clients) /\ NoConn \notin Conn /\ NoUser \notin User
  BY FollowAssumption DEF Lines
<1>2. [clients EXCEPT ![UserOf[c]] = c] = clients
  BY <1>1 DEF Registered, Owned
<1>3. /\ Lines(clients, left)
      /\ left.ahead[c] = NoUser /\ left.behind[c] = NoUser
      /\ old # UserOf[c]
      /\ \A x \in Conn : old = NoUser \/ x # clients[old] =>
           left.told[x] = s.told[x]
      /\ \A x \in Conn \ {c} :
           Registered(x) /\ InformedOf(s, x) => InformedOf(left, x)
      /\ \A x \in Conn :
           left.ahead[x] = IF x = c THEN NoUser
                           ELSE IF s.ahead[x] = UserOf[c] THEN s.ahead[c]
                           ELSE s.ahead[x]
  BY <1>1, <1>2, DetachLines DEF Registered
<1>4. start \in Conn /\ Registered(start) /\ start # c
  BY <1>1 DEF Owned, Registered
<1> HIDE DEF left, start, old
<1>5. /\ tail \in Conn /\ Registered(tail) /\ tail # c
      /\ left.behind[tail] = NoUser
  <2>1. tail = start \/ left.ahead[tail] # NoUser
    BY <1>3, <1>4, TailRegistered
  <2>2. tail # c
    BY <1>3, <1>4, <2>1
  <2>3. QED
    BY <1>3, <1>4, <2>2, TailRegistered, NothingToRepair
<1> HIDE DEF tail
<1>6. UserOf[tail] # UserOf[c]
  BY <1>5 DEF Registered
<1>7. Followed(s, c, target) = Reattached(mid, c, old, target)
  <2> DEFINE t == Followed(s, c, target)
  <2>1. RepairedBehind(left, start) = left
    BY <1>3, <1>4, NothingToRepair
  <2>2. t = IF UserOf[tail] = UserOf[c] THEN left
            ELSE Reattached(mid, c, old, target)
    BY <2>1 DEF Followed, left, tail, start, old
  <2> HIDE DEF t, mid
  <2>3. t = Reattached(mid, c, old, target)
    BY <1>6, <2>2
  <2>4. QED
    BY <2>3 DEF t
<1>8. \A n \in 0..MaxFollowChain : Walk(left.ahead, tail)[n] # c
  BY <1>3, <1>5, WalkAheadMisses
<1>9. /\ Lines(clients, mid)
      /\ \A x \in Conn \ {tail} : mid.behind[x] = left.behind[x]
      /\ \A x \in Conn \ {c} : mid.told[x] = left.told[x]
      /\ mid.ahead[c] = UserOf[tail]
      /\ \A x \in Conn \ {c} : mid.ahead[x] = left.ahead[x]
      /\ InformedOf(mid, c)
      /\ \A x \in Conn \ {c} :
           Registered(x) /\ InformedOf(left, x) => InformedOf(mid, x)
  BY <1>3, <1>5, <1>8, LinkLines
<1> HIDE DEF mid
<1>10. left \in Chain /\ mid \in Chain
  BY <1>3, <1>9 DEF Lines
<1>11. mid.behind[c] = NoUser
  BY <1>3, <1>5, <1>9, <1>10 DEF Chain
<1>12. ASSUME old # NoUser
       PROVE  /\ old \in User /\ B = clients[old] /\ B \in Conn
              /\ Registered(B) /\ B # c /\ UserOf[B] = old
              /\ s.ahead[B] = UserOf[c]
  <2>1. old \in User
    BY <1>1, <1>12 DEF Chain, Pointer, old
  <2>2. B = clients[old]
    BY <1>12 DEF ClientOf
  <2>3. clients[old] # NoConn /\ s.ahead[clients[old]] = UserOf[c]
    BY <1>12 DEF Lines, Tidy, old
  <2>4. B \in Conn /\ UserOf[B] = old
    BY <1>1, <2>1, <2>2, <2>3 DEF Owned
  <2>5. QED
    BY <1>3, <2>1, <2>2, <2>3, <2>4 DEF Registered
<1> HIDE DEF B
<1>13. ASSUME old # NoUser, ~InChain(mid, c, old)
       PROVE  \A n \in 0..MaxFollowChain : Walk(mid.ahead, c)[n] # B
  <2> DEFINE N == MaxFollowChain
             at == Walk(mid.ahead, c)
             T == {n \in 0..N : at[n] = B}
  <2>0. N \in Nat
    BY FollowAssumption
  <2>1. mid.ahead \in [Conn -> Pointer]
    BY <1>10 DEF Chain
  <2>2. /\ at \in [0..N -> Conn]
        /\ at[0] = c
        /\ \A n \in 1..N : at[n] = Step(mid.ahead, at[n-1])
    BY <1>1, <2>1, WalkEquations DEF Owned
  <2>3. /\ \A n \in 0..(N-1) : mid.ahead[at[n]] # old
        /\ B \in Conn /\ UserOf[B] = old /\ B # c
    BY <1>12, <1>13 DEF InChain
  <2> HIDE DEF at, N
  <2>4. T = {}
    <3> SUFFICES ASSUME T # {} PROVE FALSE
      OBVIOUS
    <3>1. PICK n \in T : \A m \in T : n <= m
      <4>1. T \in SUBSET Nat
        BY <2>0
      <4>2. QED
        BY <4>1, LeastNumber
    <3>2. n # 0
      BY <2>2, <2>3
    <3>3. n \in 1..N /\ n - 1 \in 0..(N-1) /\ n - 1 \in 0..N /\ n - 1 \notin T
      BY <2>0, <3>1, <3>2
    <3>4. /\ at[n-1] \in Conn /\ at[n-1] # B
          /\ B = Step(mid.ahead, at[n-1]) /\ mid.ahead[at[n-1]] # old
      BY <2>2, <2>3, <3>1, <3>3
    <3>5. /\ mid.ahead[at[n-1]] # NoUser
          /\ B = clients[mid.ahead[at[n-1]]]
      BY <3>4 DEF Step, ClientOf
    <3>6. mid.ahead[at[n-1]] \in User
      BY <2>1, <3>4, <3>5 DEF Pointer
    <3>7. UserOf[B] = mid.ahead[at[n-1]]
      BY <1>1, <2>3, <3>5, <3>6 DEF Owned
    <3>8. QED
      BY <2>3, <3>4, <3>7
  <2>5. QED
    BY <2>4 DEF at, N
<1>14. QED
  BY <1>3, <1>4, <1>5, <1>7, <1>9, <1>11, <1>12, <1>13
     DEF start, left, tail, mid, old, B

(* handleFollow with a target leaves tidy lines, and everybody informed.   *)
LEMMA FollowedLines ==
  ASSUME ShortChains, NEW s, Lines(clients, s), NEW c \in Conn, Registered(c),
         NEW target \in User, target # UserOf[c], clients[target] # NoConn
  PROVE  LET t == Followed(s, c, target) IN
         /\ Lines(clients, t)
         /\ InformedOf(t, c)
         /\ \A x \in Conn : Registered(x) /\ InformedOf(s, x) => InformedOf(t, x)
         /\ \A x \in Conn : ~Registered(x) => t.told[x] = s.told[x]
<1> DEFINE start == clients[target]
           left == Detach(s, c)
           tail == WalkEnd(left.behind, start)
           mid  == Announced(Link(left, c, tail), c)
           old  == s.behind[c]
           B    == ClientOf(old)
           t    == Followed(s, c, target)
<1>1. s \in Chain /\ Owned(clients) /\ NoConn \notin Conn /\ NoUser \notin User
  BY FollowAssumption DEF Lines
<1>2. /\ \A x \in Conn : old = NoUser \/ x # clients[old] =>
           left.told[x] = s.told[x]
      /\ \A x \in Conn \ {c} :
           Registered(x) /\ InformedOf(s, x) => InformedOf(left, x)
      /\ left \in Chain
  BY FollowedParts DEF Lines
<1>3. /\ t = Reattached(mid, c, old, target)
      /\ Lines(clients, mid)
      /\ mid.behind[c] = NoUser
      /\ \A x \in Conn \ {c} : mid.told[x] = left.told[x]
      /\ InformedOf(mid, c)
      /\ \A x \in Conn \ {c} :
           Registered(x) /\ InformedOf(left, x) => InformedOf(mid, x)
  BY FollowedParts
<1>4. /\ old # NoUser => B \in Conn /\ Registered(B) /\ B # c
      /\ old # NoUser /\ ~InChain(mid, c, old) =>
           \A n \in 0..MaxFollowChain : Walk(mid.ahead, c)[n] # B
  BY FollowedParts
<1> HIDE DEF left, start, tail, mid, old, B, t
<1>5. mid \in Chain
  BY <1>3 DEF Lines
<1>6. \A x \in Conn : ~Registered(x) => mid.told[x] = s.told[x]
  <2> SUFFICES ASSUME NEW x \in Conn, ~Registered(x)
               PROVE  mid.told[x] = s.told[x]
    OBVIOUS
  <2>1. x # c
    OBVIOUS
  <2>2. old \in User => clients[old] = NoConn \/ UserOf[clients[old]] = old
    BY <1>1 DEF Owned
  <2>3. old \in Pointer
    BY <1>1 DEF Chain, old
  <2>4. old = NoUser \/ x # clients[old]
    BY <1>1, <2>2, <2>3 DEF Pointer, Registered
  <2>5. QED
    BY <1>2, <1>3, <2>1, <2>4
<1>7. CASE ~ (/\ old \notin {NoUser, target} /\ ~InChain(mid, c, old)
              /\ B # NoConn /\ mid.ahead[B] = NoUser)
  <2>1. t = mid
    BY <1>3, <1>7 DEF Reattached, B
  <2>2. QED
    BY <1>2, <1>3, <1>6, <2>1 DEF t
<1>8. CASE /\ old \notin {NoUser, target} /\ ~InChain(mid, c, old)
           /\ B # NoConn /\ mid.ahead[B] = NoUser
  <2>1. t = Announced(Link(mid, B, c), B)
    BY <1>3, <1>8 DEF Reattached, B
  <2>2. /\ B \in Conn /\ Registered(B) /\ B # c
        /\ \A n \in 0..MaxFollowChain : Walk(mid.ahead, c)[n] # B
    BY <1>4, <1>8
  <2>3. /\ Lines(clients, t)
        /\ \A x \in Conn \ {B} : t.told[x] = mid.told[x]
        /\ InformedOf(t, B)
        /\ \A x \in Conn \ {B} :
             Registered(x) /\ InformedOf(mid, x) => InformedOf(t, x)
    BY <1>3, <1>8, <2>1, <2>2, LinkLines
  <2>4. \A x \in Conn : ~Registered(x) => t.told[x] = s.told[x]
    BY <1>6, <2>2, <2>3
  <2>5. \A x \in Conn : Registered(x) /\ InformedOf(s, x) => InformedOf(t, x)
    BY <1>2, <1>3, <2>3
  <2>6. InformedOf(t, c)
    BY <1>3, <2>2, <2>3
  <2>7. QED
    BY <2>3, <2>4, <2>5, <2>6 DEF t
<1>9. QED
  BY <1>7, <1>8

(* register, for a connection that is in no chain yet.                     *)
LEMMA ResumedLines ==
  ASSUME ShortChains, NEW s, Lines(clients, s), NEW c \in Conn, Registered(c),
         s.ahead[c] = NoUser, s.behind[c] = NoUser, s.told[c] = NoUser
  PROVE  LET t == Resumed(s, c) IN
         /\ Lines(clients, t)
         /\ InformedOf(t, c)
         /\ \A x \in Conn \ {c} :
              Registered(x) /\ InformedOf(s, x) => InformedOf(t, x)
         /\ \A x \in Conn \ {c} : t.told[x] = s.told[x]
         /\ \A x \in Conn \ {c} : t.ahead[x] = s.ahead[x]
         /\ LET target == ClientOf(s.key[UserOf[c]])
                end    == UserOf[WalkEnd(s.behind, target)]
            IN t.ahead[c] = IF target = NoConn \/ end = UserOf[c]
                            THEN NoUser ELSE end
<1> DEFINE u        == UserOf[c]
           target   == ClientOf(s.key[u])
           repaired == RepairedBehind(s, target)
           tail     == WalkEnd(repaired.behind, target)
           linked   == IF target = NoConn THEN s
                       ELSE IF UserOf[tail] = u THEN repaired
                       ELSE Link(repaired, c, tail)
           freed    == [linked EXCEPT !.key[u] = NoUser]
           t        == Resumed(s, c)
           end      == UserOf[WalkEnd(s.behind, target)]
           new      == IF target = NoConn \/ end = u THEN NoUser ELSE end
<1>1. s \in Chain /\ Owned(clients) /\ u \in User
  BY FollowAssumption DEF Lines
<1>2. target \in Conn \cup {NoConn} /\ (target # NoConn => Registered(target))
  <2> DEFINE v == s.key[u]
  <2>1. v \in Pointer
    BY <1>1 DEF Chain
  <2>2. target = IF v = NoUser THEN NoConn ELSE clients[v]
    BY DEF ClientOf
  <2> HIDE DEF v, target
  <2>3. CASE v = NoUser
    BY <2>2, <2>3
  <2>4. CASE v # NoUser
    <3>1. v \in User /\ target = clients[v]
      BY <2>1, <2>2, <2>4 DEF Pointer
    <3>2. QED
      BY <1>1, <3>1 DEF Owned, Registered
  <2>5. QED
    BY <2>3, <2>4
<1>3. t = Announced(freed, c)
  BY DEF Resumed
<1>4. target # NoConn => repaired = s
  BY <1>2, NothingToRepair
<1>5. /\ Lines(clients, linked)
      /\ linked.told[c] = linked.ahead[c]
      /\ linked.ahead[c] = new
      /\ \A x \in Conn \ {c} :
           linked.ahead[x] = s.ahead[x] /\ linked.told[x] = s.told[x]
      /\ \A w \in User \ {u} : linked.key[w] = s.key[w]
      /\ linked.shown = s.shown
  <2>1. CASE target = NoConn \/ UserOf[tail] = u
    <3>1. linked = s
      BY <1>4, <2>1
    <3>2. new = NoUser
      BY <1>4, <2>1
    <3> HIDE DEF linked, new
    <3>3. QED
      BY <3>1, <3>2
  <2>2. CASE target # NoConn /\ UserOf[tail] # u
    <3>1. linked = Link(s, c, tail) /\ tail = WalkEnd(s.behind, target)
      BY <1>4, <2>2
    <3>2. target \in Conn /\ Registered(target)
      BY <1>2, <2>2
    <3>n. new = UserOf[tail]
      BY <1>4, <2>2
    <3> HIDE DEF linked, target, repaired, new
    <3>3. tail \in Conn /\ Registered(tail) /\ s.behind[tail] = NoUser
      BY <3>1, <3>2, TailRegistered, NothingToRepair
    <3>4. c # tail
      BY <2>2
    <3> HIDE DEF tail
    <3>5. \A n \in 0..MaxFollowChain : Walk(s.ahead, tail)[n] # c
      BY <3>3, <3>4, WalkAheadMisses
    <3>6. QED
      BY <3>1, <3>3, <3>4, <3>5, <3>n, LinkLines
  <2>3. QED
    BY <2>1, <2>2
<1> HIDE DEF linked, t, new
<1>6. linked \in Chain
  BY <1>5 DEF Lines
<1>7. /\ t \in Chain /\ t.ahead = linked.ahead /\ t.behind = linked.behind
      /\ t.told = linked.told
      /\ t.key = [linked.key EXCEPT ![u] = NoUser]
      /\ t.shown = [s.shown EXCEPT ![u] = linked.ahead[c]]
  <2>1. /\ freed \in Chain /\ freed.ahead = linked.ahead
        /\ freed.behind = linked.behind /\ freed.told = linked.told
        /\ freed.key = [linked.key EXCEPT ![u] = NoUser]
        /\ freed.shown = s.shown
    BY <1>1, <1>5, <1>6 DEF Chain, Pointer
  <2> HIDE DEF freed
  <2>2. Announced(freed, c) \in Chain
    BY <2>1, AnnouncedType
  <2>3. QED
    BY <1>3, <2>1, <2>2 DEF Announced
<1>8. Lines(clients, t)
  <2>1. Tidy(clients, t)
    BY <1>5, <1>7 DEF Lines, Tidy
  <2>2. \A r : Ranks(linked, r) => Ranks(t, r)
    BY <1>7 DEF Ranks
  <2>3. QED
    BY <1>5, <1>7, <2>1, <2>2 DEF Lines
<1>9. InformedOf(t, c)
  <2>1. t.key[u] = NoUser /\ t.shown[u] = linked.ahead[c]
    BY <1>1, <1>6, <1>7 DEF Chain
  <2>2. QED
    BY <1>5, <1>7, <2>1 DEF InformedOf
<1>10. ASSUME NEW x \in Conn \ {c}, Registered(x), InformedOf(s, x)
       PROVE  InformedOf(t, x)
  <2>1. UserOf[x] \in User \ {u}
    BY <1>10, FollowAssumption DEF Registered
  <2>2. t.key[UserOf[x]] = s.key[UserOf[x]]
        /\ t.shown[UserOf[x]] = s.shown[UserOf[x]]
    BY <1>1, <1>5, <1>6, <1>7, <2>1 DEF Chain
  <2>3. QED
    BY <1>5, <1>7, <1>10, <2>2 DEF InformedOf
<1>11. QED
  BY <1>5, <1>7, <1>8, <1>9, <1>10 DEF t, new

(***************************************************************************)
(* The lines of CongaLine.  LineFrom is the least set with the user in it  *)
(* that is closed under walking behind.                                    *)
(***************************************************************************)

LEMMA LineFromLeast ==
  ASSUME NEW a, NEW t, NEW S \in SUBSET DOMAIN a, t \in S,
         \A x \in DOMAIN a : a[x] \in S => x \in S
  PROVE  Line!LineFrom(a, t) \subseteq S
BY DEF Line!LineFrom

LEMMA LineFromClosed ==
  ASSUME NEW a, NEW t \in DOMAIN a
  PROVE  /\ t \in Line!LineFrom(a, t)
         /\ Line!LineFrom(a, t) \subseteq DOMAIN a
         /\ \A x \in DOMAIN a :
              a[x] \in Line!LineFrom(a, t) => x \in Line!LineFrom(a, t)
BY DEF Line!LineFrom

(* Whoever is in the line from t, but t, walks behind somebody in it.      *)
LEMMA LineFromMade ==
  ASSUME NEW a, NEW t \in DOMAIN a, NEW x \in Line!LineFrom(a, t), x # t
  PROVE  a[x] \in Line!LineFrom(a, t)
<1> DEFINE L == Line!LineFrom(a, t)
<1>1. L \subseteq DOMAIN a /\ t \in L /\ \A y \in DOMAIN a : a[y] \in L => y \in L
  BY LineFromClosed
<1> HIDE DEF L
<1> SUFFICES ASSUME a[x] \notin L PROVE FALSE
  BY DEF L
<1>2. L \ {x} \in SUBSET DOMAIN a /\ t \in L \ {x}
  BY <1>1
<1>3. \A y \in DOMAIN a : a[y] \in L \ {x} => y \in L \ {x}
  BY <1>1
<1>4. L \subseteq L \ {x}
  BY <1>2, <1>3, LineFromLeast DEF L
<1>5. QED
  BY <1>4 DEF L

(* A leader u steps out of its line: nobody's end of a line but that of u  *)
(* and its followers changes.                                              *)
LEMMA SameEnd ==
  ASSUME NEW D, NoUser \notin D, NEW a \in [D -> D \cup {NoUser}],
         NEW u \in D, NEW t \in D, a[u] = NoUser, u # t,
         NEW e \in Line!EndOf(Line!SteppedOut(a, u), t), e # u
  PROVE  e \in Line!EndOf(a, t)
<1> DEFINE a1 == Line!SteppedOut(a, u)
<1>1. DOMAIN a = D /\ DOMAIN a1 = D
  BY DEF Line!SteppedOut
<1>2. \A x \in D : a1[x] = IF a[x] = u THEN NoUser ELSE a[x]
  BY DEF Line!SteppedOut
<1>3. e \in Line!LineFrom(a1, t) /\ \A x \in D : a1[x] # e
  BY <1>1 DEF Line!EndOf
<1> HIDE DEF a1
<1>4. e \in Line!LineFrom(a, t)
  <2> DEFINE L == Line!LineFrom(a, t)
  <2>1. L \subseteq D /\ t \in L /\ \A x \in D : a[x] \in L => x \in L
    BY <1>1, LineFromClosed
  <2> HIDE DEF L
  <2>2. \A x \in D : a1[x] \in L => x \in L
    BY <1>2, <2>1
  <2>3. Line!LineFrom(a1, t) \subseteq L
    BY <1>1, <2>1, <2>2, LineFromLeast
  <2>4. QED
    BY <1>3, <2>3 DEF L
<1>5. \A x \in D : a[x] # e
  BY <1>2, <1>3
<1>6. QED
  BY <1>1, <1>4, <1>5 DEF Line!EndOf

(* W is u and all who are ahead: the least set closed under walking ahead. *)
AllAhead(D, a, u, W) ==
  /\ W \in SUBSET D
  /\ u \in W
  /\ \A x \in W : a[x] # NoUser => a[x] \in W
  /\ \A V \in SUBSET D :
       u \in V /\ (\A x \in V : a[x] # NoUser => a[x] \in V) => W \subseteq V

(* A leader u, with b directly behind, has moved to the end e of the line  *)
(* of t; W is u and all users ahead of it then.  One of them is b, or t is *)
(* b, exactly if t was in the line of u.                                   *)
LEMMA OwnLine ==
  ASSUME NEW D, NoUser \notin D, NEW a \in [D -> D \cup {NoUser}],
         NEW u \in D, NEW t \in D, NEW b \in D, NEW e \in D,
         a[u] = NoUser, a[b] = u, u # t, b # u, e # u,
         \A x \in D : a[x] = u => x = b,
         e \in Line!LineFrom(Line!SteppedOut(a, u), t),
         NEW W, AllAhead(D, [Line!SteppedOut(a, u) EXCEPT ![u] = e], u, W)
  PROVE  t \in Line!LineFrom(a, u) <=> b = t \/ b \in W
<1> DEFINE a1 == Line!SteppedOut(a, u)
           L == Line!LineFrom(a, u)
           M == Line!LineFrom(a1, b)
           a2 == [a1 EXCEPT ![u] = e]
<1>1. DOMAIN a = D /\ DOMAIN a1 = D
  BY DEF Line!SteppedOut
<1>2. \A x \in D : a1[x] = IF x \in {u, b} THEN NoUser ELSE a[x]
  BY DEF Line!SteppedOut
<1>3. \A x \in D : a2[x] = IF x = u THEN e ELSE a1[x]
  BY <1>1
<1>4. L \subseteq D /\ u \in L /\ \A x \in D : a[x] \in L => x \in L
  BY <1>1, LineFromClosed
<1>5. M \subseteq D /\ b \in M /\ \A x \in D : a1[x] \in M => x \in M
  BY <1>1, LineFromClosed
<1>6. \A x \in L : x # u => a[x] \in L
  BY <1>1, LineFromMade
<1>7. e \in Line!LineFrom(a1, t)
  OBVIOUS
<1>w. /\ W \in SUBSET D /\ u \in W
      /\ \A x \in W : a2[x] # NoUser => a2[x] \in W
      /\ \A V \in SUBSET D :
           u \in V /\ (\A x \in V : a2[x] # NoUser => a2[x] \in V)
           => W \subseteq V
  BY DEF AllAhead
<1> HIDE DEF a1, a2, L, M
<1>8. ASSUME t \in L, b # t, b \notin W PROVE FALSE
  <2>1. L \subseteq M \cup {u}
    <3> DEFINE S == M \cup {u}
    <3>1. \A x \in D : a[x] \in S => x \in S
      BY <1>2, <1>5
    <3>2. S \in SUBSET D /\ u \in S
      BY <1>5
    <3> HIDE DEF S
    <3>3. L \subseteq S
      BY <1>1, <3>1, <3>2, LineFromLeast DEF L
    <3>4. QED
      BY <3>3 DEF S
  <2>2. Line!LineFrom(a1, t) \subseteq M
    BY <1>1, <1>5, <1>8, <2>1, LineFromLeast
  <2>3. M \subseteq D \ W
    <3> DEFINE S == D \ W
    <3>1. \A x \in D : a1[x] \in S => x \in S
      BY <1>2, <1>3, <1>w
    <3>2. S \in SUBSET D /\ b \in S
      BY <1>8
    <3> HIDE DEF S
    <3>3. M \subseteq S
      BY <1>1, <3>1, <3>2, LineFromLeast DEF M
    <3>4. QED
      BY <3>3 DEF S
  <2>4. e \in W
    BY <1>3, <1>w
  <2>5. QED
    BY <1>7, <2>2, <2>3, <2>4
<1>9. ASSUME t \notin L, b = t \/ b \in W PROVE FALSE
  <2>1. b \in L
    BY <1>4
  <2> DEFINE S == D \ L
             V == S \cup {u}
  <2>2. \A x \in D : a1[x] \in S => x \in S
    BY <1>2, <1>6
  <2>3. e \in S
    <3>1. S \in SUBSET D /\ t \in S
      BY <1>9
    <3> HIDE DEF S
    <3>2. Line!LineFrom(a1, t) \subseteq S
      BY <1>1, <2>2, <3>1, LineFromLeast
    <3>3. QED
      BY <1>7, <3>2
  <2>4. \A x \in V : a2[x] # NoUser => a2[x] \in V
    <3> SUFFICES ASSUME NEW x \in V, a2[x] # NoUser PROVE a2[x] \in V
      OBVIOUS
    <3>1. CASE x = u
      BY <1>3, <2>3, <3>1
    <3>2. CASE x # u
      <4>1. x \in D \ L /\ a2[x] = a[x]
        BY <1>2, <1>3, <3>2
      <4>2. QED
        BY <1>4, <4>1
    <3>3. QED
      BY <3>1, <3>2
  <2>5. V \in SUBSET D /\ u \in V
    OBVIOUS
  <2> HIDE DEF V
  <2>6. W \subseteq V
    BY <1>w, <2>4, <2>5
  <2>7. QED
    BY <1>9, <2>1, <2>6 DEF V
<1>10. QED
  BY <1>8, <1>9 DEF L

(* The lines the pointers of s stand for, cl being who stands for a user.  *)
LeadOf(cl, s) == [u \in {v \in User : cl[v] # NoConn} |-> s.ahead[cl[u]]]

LEMMA LeadType ==
  ASSUME NEW cl, NEW s, Lines(cl, s)
  PROVE  LET D == {v \in User : cl[v] # NoConn} IN
         /\ LeadOf(cl, s) \in [D -> D \cup {NoUser}]
         /\ \A x \in Conn : cl[UserOf[x]] = x =>
              UserOf[x] \in D /\ LeadOf(cl, s)[UserOf[x]] = s.ahead[x]
         /\ \A v \in D : cl[v] \in Conn /\ UserOf[cl[v]] = v
<1> DEFINE D == {v \in User : cl[v] # NoConn}
<1>1. s.ahead \in [Conn -> Pointer] /\ Owned(cl) /\ Tidy(cl, s)
  BY DEF Lines, Chain
<1>2. \A v \in D : cl[v] \in Conn /\ UserOf[cl[v]] = v
  BY <1>1 DEF Owned
<1>3. \A v \in D : s.ahead[cl[v]] \in D \cup {NoUser}
  BY <1>1, <1>2 DEF Tidy, Pointer
<1>4. \A x \in Conn : UserOf[x] \in User /\ x # NoConn
  BY FollowAssumption
<1>5. QED
  BY <1>2, <1>3, <1>4 DEF LeadOf

(* One connection follows somebody else than before.                       *)
LEMMA LeadChanged ==
  ASSUME NEW s, NEW t, Lines(clients, s), Lines(clients, t),
         NEW c \in Conn, Registered(c),
         \A x \in Conn \ {c} : t.ahead[x] = s.ahead[x]
  PROVE  LeadOf(clients, t) = [LeadOf(clients, s) EXCEPT ![UserOf[c]] = t.ahead[c]]
<1> DEFINE D == {v \in User : clients[v] # NoConn}
<1>1. /\ UserOf[c] \in D /\ clients[UserOf[c]] = c
      /\ \A v \in D : clients[v] \in Conn /\ UserOf[clients[v]] = v
  BY LeadType DEF Registered
<1>2. \A v \in D : v # UserOf[c] => t.ahead[clients[v]] = s.ahead[clients[v]]
  BY <1>1
<1>3. QED
  BY <1>1, <1>2 DEF LeadOf

(* detach is stepping out of a line.                                       *)
LEMMA LeadDetached ==
  ASSUME ShortChains, Owned(clients), NEW s, NEW c \in Conn,
         clients[UserOf[c]] \in {c, NoConn},
         Lines([clients EXCEPT ![UserOf[c]] = c], s)
  PROVE  LET u == UserOf[c]
             a == LeadOf([clients EXCEPT ![u] = c], s)
             t == Detach(s, c)
         IN
         LeadOf(clients, t) =
           [x \in {v \in User : clients[v] # NoConn} |-> Line!SteppedOut(a, u)[x]]
<1> DEFINE u == UserOf[c]
           cl == [clients EXCEPT ![u] = c]
           a == LeadOf(cl, s)
           t == Detach(s, c)
           D == {v \in User : clients[v] # NoConn}
           C == {v \in User : cl[v] # NoConn}
<1>1. /\ Lines(clients, t)
      /\ \A x \in Conn : t.ahead[x] = IF x = c THEN NoUser
                                      ELSE IF s.ahead[x] = u THEN s.ahead[c]
                                      ELSE s.ahead[x]
  BY DetachLines
<1>2. /\ u \in User /\ c # NoConn /\ cl[u] = c
      /\ \A v \in User : v # u => cl[v] = clients[v]
  BY FollowAssumption DEF Owned
<1>3. /\ \A v \in D : clients[v] \in Conn /\ UserOf[clients[v]] = v
      /\ D \subseteq C /\ u \in C
      /\ \A v \in C : cl[v] \in Conn /\ UserOf[cl[v]] = v
  BY <1>2, LeadType, FollowAssumption DEF Owned
<1>4. a = [x \in C |-> s.ahead[cl[x]]]
  BY DEF LeadOf
<1>5. Line!SteppedOut(a, u) =
        [x \in C |-> IF x = u THEN NoUser ELSE IF a[x] = u THEN a[u] ELSE a[x]]
  BY <1>4 DEF Line!SteppedOut
<1> HIDE DEF a, t, cl, C, u
<1>6. ASSUME NEW x \in D
      PROVE  t.ahead[clients[x]] = Line!SteppedOut(a, u)[x]
  <2>1. Line!SteppedOut(a, u)[x] =
          IF x = u THEN NoUser ELSE IF s.ahead[cl[x]] = u THEN s.ahead[c]
          ELSE s.ahead[cl[x]]
    BY <1>2, <1>3, <1>4, <1>5
  <2>2. clients[x] \in Conn /\ UserOf[clients[x]] = x
    BY <1>3
  <2>3. CASE x = u
    <3>1. clients[x] = c
      BY <2>3 DEF u
    <3>2. QED
      BY <1>1, <2>1, <2>3, <3>1
  <2>4. CASE x # u
    <3>1. clients[x] = cl[x] /\ clients[x] # c
      BY <1>2, <2>2, <2>4 DEF u
    <3>2. QED
      BY <1>1, <2>1, <2>2, <2>4, <3>1
  <2>5. QED
    BY <2>3, <2>4
<1>7. QED
  BY <1>6 DEF LeadOf, a, t, cl, u

(* The end of the line that a walk behind finds is the end of the line.    *)
LEMMA TailEnds ==
  ASSUME ShortChains, NEW s, Lines(clients, s), NEW d \in Conn, Registered(d)
  PROVE  UserOf[WalkEnd(s.behind, d)] \in Line!EndOf(LeadOf(clients, s), UserOf[d])
<1> DEFINE N == MaxFollowChain
           at == Walk(s.behind, d)
           a == LeadOf(clients, s)
           L == Line!LineFrom(a, UserOf[d])
           T == {n \in 0..N : ~ (Registered(at[n]) /\ UserOf[at[n]] \in L)}
           D == {v \in User : clients[v] # NoConn}
<1>0. N \in Nat
  BY FollowAssumption
<1>1. s.behind \in [Conn -> Pointer] /\ Owned(clients) /\ Tidy(clients, s)
  BY DEF Lines, Chain
<1>2. /\ at \in [0..N -> Conn]
      /\ at[0] = d
      /\ \A n \in 1..N : at[n] = Step(s.behind, at[n-1])
  BY <1>1, WalkEquations DEF Owned
<1>3. WalkEnd(s.behind, d) = at[N]
  BY DEF WalkEnd
<1>4. /\ a \in [D -> D \cup {NoUser}]
      /\ \A x \in Conn : Registered(x) => UserOf[x] \in D /\ a[UserOf[x]] = s.ahead[x]
      /\ \A v \in D : clients[v] \in Conn /\ UserOf[clients[v]] = v
  BY LeadType DEF Registered
<1>5. DOMAIN a = D
  BY <1>4
<1>6. UserOf[d] \in L /\ L \subseteq D /\ \A x \in D : a[x] \in L => x \in L
  BY <1>4, <1>5, LineFromClosed
<1> HIDE DEF at, N, a, L, D
<1>7. T = {}
  <2> SUFFICES ASSUME T # {} PROVE FALSE
    OBVIOUS
  <2>1. PICK n \in T : \A m \in T : n <= m
    <3>1. T \in SUBSET Nat
      BY <1>0
    <3>2. QED
      BY <3>1, LeastNumber
  <2>2. n \in 1..N /\ n - 1 \in 0..N /\ n - 1 \notin T
    BY <1>0, <1>2, <1>6, <2>1
  <2> DEFINE x == at[n-1]
  <2>3. /\ x \in Conn /\ Registered(x) /\ UserOf[x] \in L
        /\ at[n] = Step(s.behind, x)
    BY <1>2, <2>2
  <2> HIDE DEF x
  <2>4. CASE s.behind[x] = NoUser
    BY <2>1, <2>3, <2>4 DEF Step, ClientOf
  <2>5. CASE s.behind[x] # NoUser
    <3>1. s.behind[x] \in User /\ clients[s.behind[x]] # NoConn
          /\ s.ahead[clients[s.behind[x]]] = UserOf[x]
      BY <1>1, <2>3, <2>5 DEF Tidy, Pointer
    <3>2. at[n] = clients[s.behind[x]]
      BY <2>3, <2>5, <3>1 DEF Step, ClientOf
    <3>3. at[n] \in Conn /\ Registered(at[n])
      BY <1>1, <3>1, <3>2 DEF Owned, Registered
    <3>4. UserOf[at[n]] \in D /\ a[UserOf[at[n]]] = UserOf[x]
      BY <1>4, <3>1, <3>2, <3>3
    <3>5. QED
      BY <1>6, <2>1, <2>3, <3>3, <3>4
  <2>6. QED
    BY <2>4, <2>5
<1> DEFINE tail == WalkEnd(s.behind, d)
<1>8. tail \in Conn /\ Registered(tail) /\ UserOf[tail] \in L
  <2>1. N \in 0..N
    BY <1>0
  <2>2. QED
    BY <1>2, <1>3, <1>7, <2>1
<1>9. s.behind[tail] = NoUser
  BY NothingToRepair
<1> HIDE DEF tail
<1>10. ASSUME NEW y \in D PROVE a[y] # UserOf[tail]
  <2> SUFFICES ASSUME a[y] = UserOf[tail] PROVE FALSE
    OBVIOUS
  <2>1. clients[y] \in Conn /\ UserOf[clients[y]] = y /\ s.ahead[clients[y]] = a[y]
    BY <1>4, <1>10 DEF Registered
  <2>2. s.behind[clients[UserOf[tail]]] = y
    BY <1>1, <1>8, <2>1, FollowAssumption DEF Tidy
  <2>3. s.behind[tail] = y
    BY <1>8, <2>2 DEF Registered
  <2>4. QED
    BY <1>9, <2>1, <2>3, FollowAssumption
<1>11. QED
  BY <1>5, <1>8, <1>10 DEF Line!EndOf, L, a, tail

(* A registered connection and those ahead of it, as inChain walks them:   *)
(* the least set with it that is closed under walking ahead.               *)
LEMMA AheadSet ==
  ASSUME ShortChains, NEW s, Lines(clients, s), NEW c \in Conn, Registered(c)
  PROVE  LET a == LeadOf(clients, s)
             D == {v \in User : clients[v] # NoConn}
             W == {UserOf[Walk(s.ahead, c)[n]] : n \in 0..MaxFollowChain}
         IN
         /\ AllAhead(D, a, UserOf[c], W)
         /\ \A y \in User \ {UserOf[c]} : y \in W <=> InChain(s, c, y)
<1> DEFINE N == MaxFollowChain
           at == Walk(s.ahead, c)
           a == LeadOf(clients, s)
           D == {v \in User : clients[v] # NoConn}
           W == {UserOf[at[n]] : n \in 0..N}
<1>0. N \in Nat /\ NoUser \notin User /\ NoConn \notin Conn
  BY FollowAssumption
<1>1. s.ahead \in [Conn -> Pointer] /\ Owned(clients) /\ Tidy(clients, s)
  BY DEF Lines, Chain
<1>2. /\ at \in [0..N -> Conn]
      /\ at[0] = c
      /\ \A n \in 1..N : at[n] = Step(s.ahead, at[n-1])
  BY <1>1, WalkEquations DEF Owned
<1>3. /\ a \in [D -> D \cup {NoUser}]
      /\ \A x \in Conn : Registered(x) => UserOf[x] \in D /\ a[UserOf[x]] = s.ahead[x]
      /\ \A v \in D : clients[v] \in Conn /\ UserOf[clients[v]] = v
  BY LeadType DEF Registered
<1>4. \A n \in 0..N : Registered(at[n])
  <2>1. PICK rank \in [User -> Nat] : Ranks(s, rank)
    BY DEF Lines
  <2>2. QED
    BY <2>1, WalkAhead
<1>5. s.ahead[at[N]] = NoUser
  BY NothingToRepair DEF WalkEnd
<1>c. \A y : InChain(s, c, y) <=> \E n \in 0..(N-1) : s.ahead[at[n]] = y
  BY DEF InChain
<1> HIDE DEF at, N, a, D
<1>6. ASSUME NEW n \in 0..(N-1), s.ahead[at[n]] # NoUser
      PROVE  s.ahead[at[n]] \in W
  <2>1. n \in 0..N /\ n + 1 \in 1..N /\ n + 1 \in 0..N /\ (n + 1) - 1 = n
    BY <1>0
  <2>2. at[n] \in Conn /\ at[n+1] = Step(s.ahead, at[n])
    BY <1>2, <2>1
  <2>3. s.ahead[at[n]] \in User /\ clients[s.ahead[at[n]]] # NoConn
    BY <1>1, <1>6, <2>2 DEF Tidy, Pointer
  <2>4. at[n+1] = clients[s.ahead[at[n]]]
    BY <1>6, <2>2, <2>3 DEF Step, ClientOf
  <2>5. UserOf[at[n+1]] = s.ahead[at[n]]
    BY <1>1, <2>3, <2>4 DEF Owned
  <2>6. QED
    BY <2>1, <2>5
<1>7. W \in SUBSET D
  BY <1>2, <1>3, <1>4
<1>8. UserOf[c] \in W
  BY <1>0, <1>2
<1>9. ASSUME NEW x \in W, a[x] # NoUser PROVE a[x] \in W
  <2>1. PICK n \in 0..N : x = UserOf[at[n]]
    OBVIOUS
  <2>2. a[x] = s.ahead[at[n]]
    BY <1>2, <1>3, <1>4, <2>1
  <2>3. n # N
    BY <1>5, <1>9, <2>2
  <2>4. n \in 0..(N-1)
    BY <1>0, <2>3
  <2>5. QED
    BY <1>6, <1>9, <2>2, <2>4
<1>10. ASSUME NEW V \in SUBSET D, UserOf[c] \in V,
              \A x \in V : a[x] # NoUser => a[x] \in V
       PROVE  W \subseteq V
  <2> DEFINE T == {n \in 0..N : UserOf[at[n]] \notin V}
  <2>1. T = {}
    <3> SUFFICES ASSUME T # {} PROVE FALSE
      OBVIOUS
    <3>1. PICK n \in T : \A m \in T : n <= m
      <4>1. T \in SUBSET Nat
        BY <1>0
      <4>2. QED
        BY <4>1, LeastNumber
    <3>2. n \in 1..N /\ n - 1 \in 0..N /\ n - 1 \notin T
      BY <1>0, <1>2, <1>10, <3>1
    <3> DEFINE x == at[n-1]
    <3>3. /\ x \in Conn /\ Registered(x) /\ UserOf[x] \in V
          /\ at[n] = Step(s.ahead, x)
      BY <1>2, <1>4, <3>2
    <3> HIDE DEF x
    <3>4. s.ahead[x] # NoUser
      BY <3>1, <3>3 DEF Step, ClientOf
    <3>5. s.ahead[x] \in User /\ clients[s.ahead[x]] # NoConn
      BY <1>1, <3>3, <3>4 DEF Tidy, Pointer
    <3>6. UserOf[at[n]] = s.ahead[x]
      BY <1>1, <3>3, <3>4, <3>5 DEF Step, ClientOf, Owned
    <3>7. s.ahead[x] \in V
      BY <1>3, <1>10, <3>3, <3>4
    <3>8. QED
      BY <3>1, <3>6, <3>7
  <2>2. QED
    BY <2>1
<1>11. ASSUME NEW y \in User \ {UserOf[c]}, InChain(s, c, y) PROVE y \in W
  <2>1. PICK n \in 0..(N-1) : s.ahead[at[n]] = y
    BY <1>11, <1>c
  <2>2. QED
    BY <1>0, <1>6, <2>1
<1>12. ASSUME NEW y \in User \ {UserOf[c]}, y \in W PROVE InChain(s, c, y)
  <2> DEFINE T == {n \in 0..N : UserOf[at[n]] = y}
  <2>1. PICK n \in T : \A m \in T : n <= m
    <3>1. T \in SUBSET Nat /\ T # {}
      BY <1>0, <1>12
    <3>2. QED
      BY <3>1, LeastNumber
  <2>2. n \in 1..N /\ n - 1 \in 0..(N-1) /\ n - 1 \in 0..N /\ n - 1 \notin T
    BY <1>0, <1>2, <2>1
  <2> DEFINE x == at[n-1]
  <2>3. x \in Conn /\ UserOf[x] # y /\ at[n] = Step(s.ahead, x) /\ UserOf[at[n]] = y
    BY <1>2, <2>1, <2>2
  <2> HIDE DEF x
  <2>4. s.ahead[x] # NoUser
    BY <2>3 DEF Step, ClientOf
  <2>5. s.ahead[x] \in User /\ clients[s.ahead[x]] # NoConn
    BY <1>1, <2>3, <2>4 DEF Tidy, Pointer
  <2>6. UserOf[at[n]] = s.ahead[x]
    BY <1>1, <2>3, <2>4, <2>5 DEF Step, ClientOf, Owned
  <2>7. QED
    BY <1>c, <2>2, <2>3, <2>6 DEF x
<1>13. QED
  BY <1>7, <1>8, <1>9, <1>10, <1>11, <1>12 DEF AllAhead, at, N, a, D

(* handleFollow of a registered connection is a Follow of the line.        *)
LEMMA FollowedEffect ==
  ASSUME ShortChains, NEW s, Lines(clients, s), NEW c \in Conn, Registered(c),
         NEW target \in User, target # UserOf[c], clients[target] # NoConn
  PROVE  LET u  == UserOf[c]
             a  == LeadOf(clients, s)
             a1 == Line!SteppedOut(a, u)
             t  == LeadOf(clients, Followed(s, c, target))
         IN
         IF a[u] = NoUser /\ target \notin Line!LineFrom(a, u)
         THEN \E e \in Line!EndOf(a, target) : t = [a EXCEPT ![u] = e]
         ELSE \E e \in Line!EndOf(a1, target) : t = [a1 EXCEPT ![u] = e]
<1> DEFINE u    == UserOf[c]
           a    == LeadOf(clients, s)
           a1   == Line!SteppedOut(a, u)
           t    == LeadOf(clients, Followed(s, c, target))
           D    == {v \in User : clients[v] # NoConn}
           start == clients[target]
           left == Detach(s, c)
           tail == WalkEnd(left.behind, start)
           mid  == Announced(Link(left, c, tail), c)
           old  == s.behind[c]
           B    == ClientOf(old)
           e    == UserOf[tail]
           a2   == [a1 EXCEPT ![u] = e]
           W    == {UserOf[Walk(mid.ahead, c)[n]] : n \in 0..MaxFollowChain}
<1>1. /\ Lines(clients, left)
      /\ \A x \in Conn : left.ahead[x] = IF x = c THEN NoUser
                                         ELSE IF s.ahead[x] = u THEN s.ahead[c]
                                         ELSE s.ahead[x]
      /\ start \in Conn /\ Registered(start) /\ start # c
      /\ tail \in Conn /\ Registered(tail) /\ tail # c
      /\ Followed(s, c, target) = Reattached(mid, c, old, target)
      /\ Lines(clients, mid)
      /\ mid.behind[c] = NoUser
      /\ mid.ahead[c] = e
      /\ \A x \in Conn \ {c} : mid.ahead[x] = left.ahead[x]
  BY FollowedParts
<1>2. /\ old # UserOf[c]
      /\ old # NoUser =>
           /\ old \in User /\ B = clients[old] /\ B \in Conn
           /\ Registered(B) /\ B # c /\ UserOf[B] = old
           /\ s.ahead[B] = u
      /\ old # NoUser /\ ~InChain(mid, c, old) =>
           \A n \in 0..MaxFollowChain : Walk(mid.ahead, c)[n] # B
  BY FollowedParts
<1>3. Owned(clients) /\ Tidy(clients, s) /\ [clients EXCEPT ![u] = c] = clients
  BY DEF Lines, Owned, Registered
<1>4. /\ a \in [D -> D \cup {NoUser}]
      /\ \A x \in Conn : clients[UserOf[x]] = x =>
           UserOf[x] \in D /\ a[UserOf[x]] = s.ahead[x]
      /\ \A v \in D : clients[v] \in Conn /\ UserOf[clients[v]] = v
  BY LeadType
<1>5. /\ NoUser \notin D /\ NoUser \notin User /\ NoConn \notin Conn
      /\ clients[u] = c /\ u \in D /\ a[u] = s.ahead[c] /\ target \in D
      /\ e \in D /\ e # u
  BY <1>1, <1>4, FollowAssumption DEF Registered
<1>6. a1 \in [D -> D \cup {NoUser}]
      /\ \A x \in D : a1[x] = IF x = u THEN NoUser
                              ELSE IF a[x] = u THEN a[u] ELSE a[x]
  <2>1. a1 = [x \in D |-> IF x = u THEN NoUser
                          ELSE IF a[x] = u THEN a[u] ELSE a[x]]
    BY <1>4 DEF Line!SteppedOut
  <2> HIDE DEF a1, a
  <2>2. QED
    BY <1>4, <1>5, <2>1
<1>7. LeadOf(clients, left) = a1
  <2>1. LeadOf(clients, left) = [x \in D |-> a1[x]]
    <3> DEFINE cl == [clients EXCEPT ![u] = c]
    <3>1. cl = clients /\ Lines(cl, s) /\ clients[u] \in {c, NoConn}
      BY <1>3, <1>5
    <3>2. LeadOf(clients, left) = [x \in D |-> Line!SteppedOut(LeadOf(cl, s), u)[x]]
      BY <1>3, <3>1, LeadDetached
    <3> HIDE DEF cl, left, D
    <3>3. QED
      BY <3>1, <3>2
  <2> HIDE DEF a1
  <2>2. QED
    BY <1>6, <2>1
<1>8. e \in Line!EndOf(a1, target)
  <2>1. UserOf[start] = target
    BY <1>4, <1>5
  <2>2. QED
    BY <1>1, <1>7, <2>1, TailEnds
<1>9. LeadOf(clients, mid) = a2
  BY <1>1, <1>7, LeadChanged
<1>10. \A x \in D : a[x] = u => x = old
  <2> SUFFICES ASSUME NEW x \in D, a[x] = u PROVE x = old
    OBVIOUS
  <2>1. clients[x] \in Conn /\ UserOf[clients[x]] = x /\ s.ahead[clients[x]] = u
    BY <1>4, FollowAssumption
  <2>2. s.behind[clients[u]] = x
    BY <1>3, <1>5, <2>1 DEF Tidy
  <2>3. QED
    BY <1>5, <2>2
<1> DEFINE am == LeadOf(clients, mid)
<1>w. /\ AllAhead(D, am, u, W)
      /\ \A y \in User \ {u} : y \in W <=> InChain(mid, c, y)
  BY <1>1, AheadSet
<1>m. Followed(s, c, target) =
        IF /\ old \notin {NoUser, target}
           /\ ~InChain(mid, c, old)
           /\ B # NoConn
           /\ mid.ahead[B] = NoUser
        THEN Announced(Link(mid, B, c), B)
        ELSE mid
  BY <1>1 DEF Reattached
<1> HIDE DEF a, a1, t, D, start, left, tail, mid, old, B, e, W
<1>12. a2 \in [D -> D \cup {NoUser}]
       /\ \A x \in D : a2[x] = IF x = u THEN e ELSE a1[x]
  BY <1>5, <1>6
<1> HIDE DEF a2, u
<1>11. /\ AllAhead(D, a2, u, W)
       /\ \A y \in User \ {u} : y \in W <=> InChain(mid, c, y)
  BY <1>9, <1>w
<1>13. CASE a[u] # NoUser
  <2>1. old # NoUser => mid.ahead[B] # NoUser
    BY <1>1, <1>2, <1>5, <1>13
  <2>2. t = a2
    BY <1>9, <1>m, <2>1 DEF t
  <2>3. QED
    BY <1>8, <1>13, <2>2 DEF a2, a1, a, t, u
<1>14. CASE a[u] = NoUser /\ old = NoUser
  <2>1. t = a2
    BY <1>9, <1>14, <1>m DEF t
  <2>2. a1 = a
    BY <1>4, <1>5, <1>6, <1>10, <1>14
  <2>3. target \notin Line!LineFrom(a, u)
    <3>1. {u} \in SUBSET DOMAIN a /\ \A x \in DOMAIN a : a[x] \in {u} => x \in {u}
      BY <1>4, <1>5, <1>10, <1>14
    <3>2. Line!LineFrom(a, u) \subseteq {u}
      BY <3>1, LineFromLeast
    <3>3. QED
      BY <3>2 DEF u
  <2>4. t = [a EXCEPT ![u] = e] /\ e \in Line!EndOf(a, target)
    BY <1>8, <2>1, <2>2 DEF a2
  <2>5. QED
    BY <1>14, <2>3, <2>4 DEF a, t, u
<1>15. CASE a[u] = NoUser /\ old # NoUser
  <2>1. /\ old \in D /\ old \in User \ {u} /\ a[old] = u
        /\ clients[old] = B /\ B # NoConn
    BY <1>2, <1>4, <1>5, <1>15 DEF u, Registered, D
  <2>2. mid.ahead[B] = NoUser
    BY <1>1, <1>2, <1>5, <1>15
  <2>3. e \in Line!LineFrom(a1, target)
    BY <1>8 DEF Line!EndOf
  <2>4. target # u
    BY DEF u
  <2>5. target \in Line!LineFrom(a, u) <=> old = target \/ InChain(mid, c, old)
    <3>1. target \in Line!LineFrom(a, u) <=> old = target \/ old \in W
      <4>1. /\ AllAhead(D, [Line!SteppedOut(a, u) EXCEPT ![u] = e], u, W)
            /\ e \in Line!LineFrom(Line!SteppedOut(a, u), target)
        BY <1>11, <2>3 DEF a1, a2
      <4>2. /\ NoUser \notin D /\ a \in [D -> D \cup {NoUser}]
            /\ u \in D /\ target \in D /\ old \in D /\ e \in D
            /\ a[u] = NoUser /\ a[old] = u /\ u # target /\ old # u /\ e # u
            /\ \A x \in D : a[x] = u => x = old
        BY <1>4, <1>5, <1>10, <1>15, <2>1, <2>4
      <4>3. QED
        BY <4>1, <4>2, OwnLine
    <3>2. QED
      BY <1>11, <2>1, <3>1
  <2>6. CASE target \in Line!LineFrom(a, u)
    <3>1. t = a2
      BY <1>9, <1>m, <2>5, <2>6 DEF t
    <3>2. QED
      BY <1>8, <2>6, <3>1 DEF a2, a1, a, t, u
  <2>7. CASE target \notin Line!LineFrom(a, u)
    <3> DEFINE f == Announced(Link(mid, B, c), B)
    <3>1. Followed(s, c, target) = f
      BY <1>15, <1>m, <2>1, <2>2, <2>5, <2>7
    <3>2. /\ B \in Conn /\ Registered(B) /\ B # c /\ UserOf[B] = old
          /\ \A n \in 0..MaxFollowChain : Walk(mid.ahead, c)[n] # B
      BY <1>2, <1>15, <2>5, <2>7
    <3>3. /\ Lines(clients, f)
          /\ f.ahead[B] = u
          /\ \A x \in Conn \ {B} : f.ahead[x] = mid.ahead[x]
      BY <1>1, <2>2, <3>2, LinkLines DEF u
    <3> HIDE DEF f
    <3>4. t = [a2 EXCEPT ![old] = u]
      BY <1>1, <1>9, <3>1, <3>2, <3>3, LeadChanged DEF t
    <3>5. t = [a EXCEPT ![u] = e]
      <4>1. \A x \in D : [a2 EXCEPT ![old] = u][x] = [a EXCEPT ![u] = e][x]
        <5> SUFFICES ASSUME NEW x \in D
                     PROVE  [a2 EXCEPT ![old] = u][x] = [a EXCEPT ![u] = e][x]
          OBVIOUS
        <5>1. [a2 EXCEPT ![old] = u][x] = IF x = old THEN u ELSE a2[x]
          BY <1>12, <2>1
        <5>2. [a EXCEPT ![u] = e][x] = IF x = u THEN e ELSE a[x]
          BY <1>4, <1>5
        <5>3. a2[x] = IF x = u THEN e
                      ELSE IF a[x] = u THEN a[u] ELSE a[x]
          BY <1>6, <1>12
        <5>4. QED
          BY <1>10, <2>1, <5>1, <5>2, <5>3
      <4> DEFINE f1 == [a2 EXCEPT ![old] = u]
                 f2 == [a EXCEPT ![u] = e]
      <4>2. f1 = [x \in D |-> f1[x]] /\ f2 = [x \in D |-> f2[x]]
        BY <1>4, <1>12
      <4>3. \A x \in D : f1[x] = f2[x]
        BY <4>1
      <4> HIDE DEF f1, f2
      <4>4. f1 = f2
        BY <4>2, <4>3
      <4>5. QED
        BY <3>4, <4>4 DEF f1, f2
    <3>6. e \in Line!EndOf(a, target)
      BY <1>4, <1>5, <1>8, <1>15, <2>4, SameEnd DEF a1
    <3>7. QED
      BY <1>15, <2>7, <3>5, <3>6 DEF a, t, u
  <2>8. QED
    BY <2>6, <2>7
<1>16. QED
  BY <1>13, <1>14, <1>15

(* register, for a connection that is in no chain yet: nothing, or a Follow*)
(* of one who is alone.                                                    *)
LEMMA ResumedEffect ==
  ASSUME ShortChains, NEW s, Lines(clients, s), NEW c \in Conn, Registered(c),
         s.ahead[c] = NoUser, s.behind[c] = NoUser, s.told[c] = NoUser
  PROVE  LET u == UserOf[c]
             a == LeadOf(clients, s)
             t == LeadOf(clients, Resumed(s, c))
         IN
         \/ t = a
         \/ /\ a[u] = NoUser
            /\ \E v \in User :
                 /\ v # u /\ clients[v] # NoConn /\ v \notin Line!LineFrom(a, u)
                 /\ \E e \in Line!EndOf(a, v) : t = [a EXCEPT ![u] = e]
<1> DEFINE u == UserOf[c]
           a == LeadOf(clients, s)
           r == Resumed(s, c)
           t == LeadOf(clients, r)
           D == {v \in User : clients[v] # NoConn}
           v == s.key[u]
           target == ClientOf(v)
           e == UserOf[WalkEnd(s.behind, target)]
<1>1. /\ Lines(clients, r)
      /\ \A x \in Conn \ {c} : r.ahead[x] = s.ahead[x]
      /\ r.ahead[c] = IF target = NoConn \/ e = u THEN NoUser ELSE e
  BY ResumedLines
<1>2. t = [a EXCEPT ![u] = r.ahead[c]]
  BY <1>1, LeadChanged
<1>3. /\ a \in [D -> D \cup {NoUser}]
      /\ \A x \in Conn : clients[UserOf[x]] = x =>
           UserOf[x] \in D /\ a[UserOf[x]] = s.ahead[x]
      /\ \A w \in D : clients[w] \in Conn /\ UserOf[clients[w]] = w
  BY LeadType
<1>4. u \in D /\ a[u] = NoUser /\ clients[u] = c /\ NoUser \notin User
  BY <1>3, FollowAssumption DEF Registered
<1>5. \A x \in D : a[x] # u
  <2> SUFFICES ASSUME NEW x \in D, a[x] = u PROVE FALSE
    OBVIOUS
  <2>1. clients[x] \in Conn /\ UserOf[clients[x]] = x /\ s.ahead[clients[x]] = u
    BY <1>3, FollowAssumption
  <2>2. s.behind[clients[u]] = x
    BY <1>4, <2>1 DEF Lines, Tidy
  <2>3. QED
    BY <1>4, <2>2
<1>6. Line!LineFrom(a, u) \subseteq {u}
  <2>1. {u} \in SUBSET DOMAIN a /\ \A x \in DOMAIN a : a[x] \in {u} => x \in {u}
    BY <1>3, <1>4, <1>5
  <2>2. QED
    BY <2>1, LineFromLeast
<1>7. CASE target = NoConn \/ e = u
  <2>1. t = [a EXCEPT ![u] = NoUser]
    BY <1>1, <1>2, <1>7
  <2> HIDE DEF a, t
  <2>2. t = a
    BY <1>3, <1>4, <2>1
  <2>3. QED
    BY <2>2 DEF a, t
<1>8. CASE target # NoConn /\ e # u
  <2>1. v \in User /\ target = clients[v]
    BY <1>8, FollowAssumption DEF ClientOf, Lines, Chain, Pointer
  <2>2. v \in D /\ target \in Conn /\ UserOf[target] = v /\ Registered(target)
    <3>1. v \in D
      BY <1>8, <2>1
    <3>2. clients[v] \in Conn /\ UserOf[clients[v]] = v
      BY <1>3, <3>1
    <3> HIDE DEF v, target, D
    <3>3. QED
      BY <2>1, <3>1, <3>2 DEF Registered
  <2>3. e \in Line!EndOf(a, v)
    BY <2>2, TailEnds
  <2>4. v # u
    BY <1>6, <1>8, <2>3 DEF Line!EndOf
  <2>5. v \notin Line!LineFrom(a, u)
    BY <1>6, <2>4
  <2>6. t = [a EXCEPT ![u] = e]
    BY <1>1, <1>2, <1>8
  <2> HIDE DEF a, t, e, v, u
  <2>7. QED
    BY <1>4, <2>2, <2>3, <2>4, <2>5, <2>6 DEF a, t, u
<1>9. QED
  BY <1>7, <1>8

(***************************************************************************)
(* The invariant of an undisturbed server                                  *)
(***************************************************************************)

(* The lifecycle of a connection, and what it is not part of yet.          *)
Phased ==
  \A c \in Conn :
    /\ phase[c] \in {"restoring", "leaving", "dropped"} <=> lifecycle = c
    /\ phase[c] = "restoring" => Registered(c)
    /\ phase[c] \in {"leaving", "dropped"} => clients[UserOf[c]] = NoConn
    /\ Registered(c) => phase[c] \in {"restoring", "in"}
    /\ phase[c] \in {"new", "restoring"} =>
         /\ chain.ahead[c] = NoUser /\ chain.behind[c] = NoUser
         /\ chain.told[c] = NoUser

AllInformed ==
  \A c \in Conn : Registered(c) /\ phase[c] = "in" => InformedOf(chain, c)

LineInv ==
  /\ TypeOK
  /\ Owned(clients)
  /\ Phased
  /\ Lines(Stands, chain)
  /\ AllInformed

LEMMA StandsSettled ==
  ASSUME TypeOK, \A c \in Conn : phase[c] \in {"leaving", "dropped"} => lifecycle # c
  PROVE  Stands = clients
BY FollowAssumption DEF Stands, TypeOK

LEMMA StandsLeaving ==
  ASSUME TypeOK, NEW c \in Conn, lifecycle = c, phase[c] \in {"leaving", "dropped"}
  PROVE  Stands = [clients EXCEPT ![UserOf[c]] = c]
BY FollowAssumption DEF Stands, TypeOK

LEMMA LinesFromTheStart == Init => LineInv
<1> SUFFICES ASSUME Init PROVE LineInv
  OBVIOUS
<1>1. TypeOK /\ chain.ahead = NoLinks /\ chain.behind = NoLinks
      /\ chain.told = NoLinks
  BY InitialChain DEF Init, TypeOK
<1>2. Owned(clients)
  BY DEF Init, Owned
<1>3. Phased
  BY <1>1, FollowAssumption DEF Init, Phased, Registered, NoLinks
<1>4. Lines(Stands, chain)
  <2>1. Stands = clients
    BY <1>1, StandsSettled DEF Init
  <2>2. Tidy(clients, chain)
    BY <1>1 DEF Init, Tidy, NoLinks
  <2>3. [u \in User |-> 0] \in [User -> Nat] /\ Ranks(chain, [u \in User |-> 0])
    BY <1>1 DEF Ranks, NoLinks
  <2>4. QED
    BY <1>1, <1>2, <2>1, <2>2, <2>3 DEF Lines, TypeOK
<1>5. AllInformed
  BY FollowAssumption DEF Init, AllInformed, Registered
<1>6. QED
  BY <1>1, <1>2, <1>3, <1>4, <1>5 DEF LineInv

(* A handler that has changed the chain.                                   *)
LEMMA HandlerKeeps ==
  ASSUME ShortChains, LineInv, TypeOK', lifecycle = NoConn,
         UNCHANGED <<clients, phase, lifecycle>>,
         Lines(clients, chain'),
         \A x \in Conn : Registered(x) /\ InformedOf(chain, x) =>
                           InformedOf(chain', x),
         \A x \in Conn : ~Registered(x) => chain'.told[x] = chain.told[x]
  PROVE  LineInv'
<1>1. Owned(clients') /\ Tidy(clients, chain')
  BY DEF LineInv, Lines
<1>2. Phased'
  <2> SUFFICES ASSUME NEW x \in Conn
               PROVE  /\ phase[x] \in {"restoring", "leaving", "dropped"} <=> lifecycle = x
                      /\ phase[x] = "restoring" => Registered(x)
                      /\ phase[x] \in {"leaving", "dropped"} => clients[UserOf[x]] = NoConn
                      /\ Registered(x) => phase[x] \in {"restoring", "in"}
                      /\ phase[x] \in {"new", "restoring"} =>
                           /\ chain'.ahead[x] = NoUser /\ chain'.behind[x] = NoUser
                           /\ chain'.told[x] = NoUser
    BY DEF Phased, Registered
  <2>1. lifecycle # x
    BY FollowAssumption
  <2>2. ASSUME phase[x] \in {"new", "restoring"}
        PROVE  /\ chain'.ahead[x] = NoUser /\ chain'.behind[x] = NoUser
               /\ chain'.told[x] = NoUser
    <3>1. ~Registered(x)
      BY <2>1, <2>2 DEF LineInv, Phased
    <3>2. chain.told[x] = NoUser
      BY <2>2 DEF LineInv, Phased
    <3>3. QED
      BY <1>1, <3>1, <3>2 DEF Tidy, Registered
  <2>3. QED
    BY <2>2 DEF LineInv, Phased
<1>3. Stands' = clients'
  BY DEF Stands, LineInv, TypeOK
<1>4. AllInformed'
  <2>1. \A x \in Conn : Registered(x) /\ phase[x] = "in" => InformedOf(chain', x)
    BY DEF LineInv, AllInformed
  <2>2. QED
    BY <2>1 DEF AllInformed, Registered, InformedOf
<1>5. Lines(Stands', chain')
  BY <1>3
<1>6. QED
  BY <1>1, <1>2, <1>4, <1>5 DEF LineInv, Lines, Owned, Tidy, Ranks, Chain

(* What the handlers know: the lines are those of the registered           *)
(* connections, and each of these is informed.                             *)
LEMMA SettledRoom ==
  ASSUME LineInv, lifecycle = NoConn
  PROVE  /\ Lines(clients, chain)
         /\ \A x \in Conn : Registered(x) => phase[x] = "in" /\ InformedOf(chain, x)
         /\ \A x \in Conn : Registered(x) =>
              [clients EXCEPT ![UserOf[x]] = x] = clients
<1>1. \A x \in Conn : phase[x] \notin {"restoring", "leaving", "dropped"}
  BY FollowAssumption DEF LineInv, Phased
<1>2. Stands = clients
  BY <1>1, StandsSettled DEF LineInv
<1>3. \A x \in Conn : Registered(x) => phase[x] = "in" /\ InformedOf(chain, x)
  BY <1>1 DEF LineInv, Phased, AllInformed
<1>4. QED
  BY <1>2, <1>3 DEF LineInv, Owned, Registered

(* handleFollow without a target, handleStopFollower: c leaves its chain,  *)
(* and its client walks behind nobody.                                     *)
LEMMA DetachKeeps ==
  ASSUME ShortChains, LineInv, TypeOK', lifecycle = NoConn,
         UNCHANGED <<clients, phase, lifecycle>>,
         NEW c \in Conn, Registered(c),
         chain' = [Detach(chain, c) EXCEPT !.told[c] = NoUser]
  PROVE  LineInv'
<1> DEFINE t == Detach(chain, c)
           b == chain.behind[c]
<1>1. /\ Lines(clients, chain) /\ InformedOf(chain, c) /\ clients[UserOf[c]] = c
      /\ [clients EXCEPT ![UserOf[c]] = c] = clients
  BY SettledRoom DEF Registered
<1>2. Owned(clients) /\ chain \in Chain
  BY DEF LineInv, TypeOK
<1>3. /\ Lines(clients, t)
      /\ t.ahead[c] = NoUser /\ t.behind[c] = NoUser
      /\ b # UserOf[c]
      /\ \A x \in Conn : b = NoUser \/ x # clients[b] => t.told[x] = chain.told[x]
      /\ \A x \in Conn \ {c} :
           Registered(x) /\ InformedOf(chain, x) => InformedOf(t, x)
      /\ t.shown[UserOf[c]] = NoUser /\ t.key[UserOf[c]] = NoUser
  BY <1>1, <1>2, DetachLines
<1> HIDE DEF t, b
<1>4. t \in Chain
  BY <1>3 DEF Lines
<1>5. /\ chain'.ahead = t.ahead /\ chain'.behind = t.behind
      /\ chain'.key = t.key /\ chain'.shown = t.shown
      /\ chain'.told = [t.told EXCEPT ![c] = NoUser]
      /\ chain' \in Chain
  BY <1>4 DEF Chain, Pointer, t
<1>6. Lines(clients, chain')
  <2>1. Tidy(clients, chain')
    BY <1>3, <1>5 DEF Lines, Tidy
  <2>2. \A r : Ranks(t, r) => Ranks(chain', r)
    BY <1>5 DEF Ranks
  <2>3. QED
    BY <1>3, <1>5, <2>1, <2>2 DEF Lines
<1>7. \A x \in Conn : Registered(x) /\ InformedOf(chain, x) => InformedOf(chain', x)
  <2>1. InformedOf(chain', c)
    BY <1>3, <1>4, <1>5 DEF InformedOf, Chain
  <2>2. ASSUME NEW x \in Conn \ {c}, Registered(x), InformedOf(chain, x)
        PROVE  InformedOf(chain', x)
    <3>1. InformedOf(t, x) /\ chain'.told[x] = t.told[x]
      BY <1>3, <1>4, <1>5, <2>2 DEF Chain
    <3>2. QED
      BY <1>5, <3>1 DEF InformedOf
  <2>3. QED
    BY <2>1, <2>2
<1>8. ASSUME NEW x \in Conn, ~Registered(x)
      PROVE  chain'.told[x] = chain.told[x]
  <2>1. b \in Pointer /\ x # c
    BY <1>2, <1>8 DEF Chain, b
  <2>2. b = NoUser \/ x # clients[b]
    BY <1>2, <1>8, <2>1, FollowAssumption DEF Owned, Pointer, Registered
  <2>3. QED
    BY <1>3, <1>4, <1>5, <2>1, <2>2 DEF Chain
<1>9. QED
  BY <1>6, <1>7, <1>8, HandlerKeeps

(* After a restart nobody is connected.                                    *)
LEMMA RestartLines == TypeOK /\ Restart => LineInv'
<1> SUFFICES ASSUME TypeOK, Restart PROVE LineInv'
  OBVIOUS
<1>t. TypeOK' /\ chain \in Chain /\ chain' \in Chain
  BY TypesKept DEF TypeOK, Next
<1>1. /\ clients' = [u \in User |-> NoConn]
      /\ phase' = [c \in Conn |-> "new"]
      /\ lifecycle' = NoConn
      /\ chain'.ahead = NoLinks /\ chain'.behind = NoLinks
      /\ chain'.told = NoLinks
  BY <1>t DEF Restart, Chain
<1>2. Owned(clients')
  BY <1>1 DEF Owned
<1>3. \A x \in Conn : ~ (Registered(x)')
  BY FollowAssumption, <1>1 DEF Registered
<1>4. Stands' = clients'
  BY <1>1 DEF Stands
<1>5. Lines(Stands', chain')
  <2>1. Tidy(clients', chain')
    BY <1>1 DEF Tidy, NoLinks
  <2>2. [u \in User |-> 0] \in [User -> Nat] /\ Ranks(chain', [u \in User |-> 0])
    BY <1>1 DEF Ranks, NoLinks
  <2>3. QED
    BY <1>t, <1>2, <1>4, <2>1, <2>2 DEF Lines
<1>6. Phased'
  BY FollowAssumption, <1>1, <1>3 DEF Phased, NoLinks
<1>7. AllInformed'
  BY <1>3 DEF AllInformed
<1>8. QED
  BY <1>t, <1>2, <1>5, <1>6, <1>7 DEF LineInv, Lines, Owned, Tidy, Ranks, Chain
(* A step that does not disturb an undisturbed server.                     *)
LEMMA LinesKept ==
  ShortChains /\ LineInv /\ [Next]_vars /\ calm' => LineInv'
<1> SUFFICES ASSUME ShortChains, LineInv, [Next]_vars, calm' PROVE LineInv'
  OBVIOUS
<1>t. TypeOK /\ TypeOK' /\ chain \in Chain /\ chain' \in Chain
  BY TypesKept DEF LineInv, TypeOK
<1>a. Owned(clients) /\ NoConn \notin Conn /\ NoUser \notin User
      /\ \A x \in Conn : UserOf[x] \in User
  BY FollowAssumption DEF LineInv
<1>1. ASSUME NEW c \in Conn, Connect(c) PROVE LineInv'
  <2> DEFINE u == UserOf[c]
             d == clients[u]
  <2>1. /\ phase[c] = "new" /\ lifecycle = NoConn /\ lifecycle' = c
        /\ clients' = [clients EXCEPT ![u] = c]
        /\ phase' = [phase EXCEPT ![c] = "restoring"]
        /\ chain' = chain
    BY <1>1 DEF Connect
  <2>2. d # NoConn => chain.ahead[d] = NoUser /\ chain.behind[d] = NoUser
    BY <1>1 DEF Connect, Linked
  <2>3. /\ Lines(clients, chain)
        /\ \A x \in Conn : Registered(x) => phase[x] = "in" /\ InformedOf(chain, x)
    BY <2>1, SettledRoom
  <2>4. chain.ahead[c] = NoUser /\ chain.behind[c] = NoUser
        /\ chain.told[c] = NoUser
    BY <2>1 DEF LineInv, Phased
  <2>5. Owned(clients')
    BY <1>a, <2>1 DEF Owned
  <2>6. \A v \in User : clients'[v] = IF v = u THEN c ELSE clients[v]
    BY <1>a, <2>1 DEF Owned
  <2>7. \A x \in Conn : Registered(x)' <=> x = c \/ (Registered(x) /\ UserOf[x] # u)
    BY <1>a, <2>6 DEF Registered
  <2>8. \A x \in Conn : phase'[x] = IF x = c THEN "restoring" ELSE phase[x]
    BY <1>t, <2>1 DEF TypeOK
  <2> HIDE DEF d
  <2>9. Tidy(clients', chain')
    <3> SUFFICES ASSUME NEW x \in Conn
                 PROVE  /\ clients'[UserOf[x]] # x =>
                             chain.ahead[x] = NoUser /\ chain.behind[x] = NoUser
                        /\ chain.ahead[x] # NoUser =>
                             /\ clients'[chain.ahead[x]] # NoConn
                             /\ chain.behind[clients'[chain.ahead[x]]] = UserOf[x]
                        /\ chain.behind[x] # NoUser =>
                             /\ clients'[chain.behind[x]] # NoConn
                             /\ chain.ahead[clients'[chain.behind[x]]] = UserOf[x]
      BY <2>1 DEF Tidy
    <3>1. /\ clients[UserOf[x]] # x =>
               chain.ahead[x] = NoUser /\ chain.behind[x] = NoUser
          /\ chain.ahead[x] # NoUser =>
               /\ clients[chain.ahead[x]] # NoConn
               /\ chain.behind[clients[chain.ahead[x]]] = UserOf[x]
          /\ chain.behind[x] # NoUser =>
               /\ clients[chain.behind[x]] # NoConn
               /\ chain.ahead[clients[chain.behind[x]]] = UserOf[x]
      BY <2>3 DEF Lines, Tidy
    <3>2. chain.ahead[x] \in Pointer /\ chain.behind[x] \in Pointer
          /\ UserOf[x] # NoUser
      BY <1>t, <1>a DEF Chain
    <3>3. chain.ahead[x] # NoUser => chain.ahead[x] # u
      BY <2>2, <3>1, <3>2 DEF d
    <3>4. chain.behind[x] # NoUser => chain.behind[x] # u
      BY <2>2, <3>1, <3>2 DEF d
    <3>5. clients'[UserOf[x]] # x =>
            chain.ahead[x] = NoUser /\ chain.behind[x] = NoUser
      BY <1>a, <2>2, <2>4, <2>6, <3>1 DEF d
    <3>6. QED
      BY <1>a, <2>6, <3>1, <3>2, <3>3, <3>4, <3>5 DEF Pointer
  <2>10. Stands' = clients'
    BY <1>t, <2>1, <2>8 DEF Stands, TypeOK
  <2>11. Lines(Stands', chain')
    BY <1>t, <2>1, <2>3, <2>5, <2>9, <2>10 DEF Lines
  <2>12. Phased'
    <3> SUFFICES ASSUME NEW x \in Conn
                 PROVE  /\ phase'[x] \in {"restoring", "leaving", "dropped"} <=> lifecycle' = x
                        /\ phase'[x] = "restoring" => Registered(x)'
                        /\ phase'[x] \in {"leaving", "dropped"} => clients'[UserOf[x]] = NoConn
                        /\ Registered(x)' => phase'[x] \in {"restoring", "in"}
                        /\ phase'[x] \in {"new", "restoring"} =>
                             /\ chain'.ahead[x] = NoUser /\ chain'.behind[x] = NoUser
                             /\ chain'.told[x] = NoUser
      BY DEF Phased
    <3>1. CASE x = c
      BY <2>1, <2>4, <2>7, <2>8, <3>1
    <3>2. CASE x # c
      <4>1. phase[x] \notin {"restoring", "leaving", "dropped"} /\ phase'[x] = phase[x]
        BY <1>a, <2>1, <2>8, <3>2 DEF LineInv, Phased
      <4>2. Registered(x)' => phase[x] = "in"
        BY <2>3, <2>7, <3>2
      <4>3. phase[x] = "new" => /\ chain.ahead[x] = NoUser
                                /\ chain.behind[x] = NoUser
                                /\ chain.told[x] = NoUser
        BY DEF LineInv, Phased
      <4>4. QED
        BY <2>1, <3>2, <4>1, <4>2, <4>3
    <3>3. QED
      BY <3>1, <3>2
  <2>13. AllInformed'
    <3> SUFFICES ASSUME NEW x \in Conn, Registered(x)', phase'[x] = "in"
                 PROVE  InformedOf(chain', x)
      BY DEF AllInformed, InformedOf
    <3>1. QED
      BY <2>1, <2>3, <2>7, <2>8
  <2>14. Owned(clients)'
    BY <2>5 DEF Owned
  <2>15. QED
    BY <1>t, <2>11, <2>12, <2>13, <2>14 DEF LineInv, Lines, Owned, Tidy, Ranks, Chain
<1>2. ASSUME NEW c \in Conn, Restore(c) PROVE LineInv'
  <2>1. /\ phase[c] = "restoring" /\ lifecycle' = NoConn
        /\ clients' = clients /\ chain' = Resumed(chain, c)
        /\ phase' = [phase EXCEPT ![c] = "in"]
    BY <1>2 DEF Restore
  <2>2. /\ lifecycle = c /\ Registered(c)
        /\ chain.ahead[c] = NoUser /\ chain.behind[c] = NoUser
        /\ chain.told[c] = NoUser
    BY <2>1 DEF LineInv, Phased
  <2>3. \A x \in Conn \ {c} : phase[x] \notin {"restoring", "leaving", "dropped"}
    BY <2>2 DEF LineInv, Phased
  <2>4. Stands = clients
    BY <1>t, <2>1, <2>3, StandsSettled
  <2>5. /\ Lines(clients, chain')
        /\ InformedOf(chain', c)
        /\ \A x \in Conn \ {c} :
             Registered(x) /\ InformedOf(chain, x) => InformedOf(chain', x)
        /\ \A x \in Conn \ {c} : chain'.told[x] = chain.told[x]
    <3>1. Lines(clients, chain)
      BY <2>4 DEF LineInv
    <3>2. QED
      BY <2>1, <2>2, <3>1, ResumedLines
  <2>6. \A x \in Conn : phase'[x] = IF x = c THEN "in" ELSE phase[x]
    BY <1>t, <2>1 DEF TypeOK
  <2>7. \A x \in Conn : Registered(x)' <=> Registered(x)
    BY <2>1 DEF Registered
  <2>8. Stands' = clients'
    BY <1>t, <2>1 DEF Stands, TypeOK
  <2>9. Lines(Stands', chain')
    BY <2>1, <2>5, <2>8
  <2>10. Phased'
    <3> SUFFICES ASSUME NEW x \in Conn
                 PROVE  /\ phase'[x] \in {"restoring", "leaving", "dropped"} <=> lifecycle' = x
                        /\ phase'[x] = "restoring" => Registered(x)'
                        /\ phase'[x] \in {"leaving", "dropped"} => clients'[UserOf[x]] = NoConn
                        /\ Registered(x)' => phase'[x] \in {"restoring", "in"}
                        /\ phase'[x] \in {"new", "restoring"} =>
                             /\ chain'.ahead[x] = NoUser /\ chain'.behind[x] = NoUser
                             /\ chain'.told[x] = NoUser
      BY DEF Phased
    <3>1. CASE x = c
      BY <1>a, <2>1, <2>6, <3>1
    <3>2. CASE x # c
      <4>1. phase[x] \notin {"restoring", "leaving", "dropped"} /\ phase'[x] = phase[x]
        BY <2>3, <2>6, <3>2
      <4>2. Registered(x) => phase[x] = "in"
        BY <4>1 DEF LineInv, Phased
      <4>3. phase[x] = "new" => chain'.told[x] = NoUser /\ ~Registered(x)
        BY <2>5, <3>2, <4>2 DEF LineInv, Phased
      <4>4. ~Registered(x) => chain'.ahead[x] = NoUser /\ chain'.behind[x] = NoUser
        BY <2>5 DEF Lines, Tidy, Registered
      <4>5. QED
        BY <1>a, <2>1, <2>7, <4>1, <4>2, <4>3, <4>4
    <3>3. QED
      BY <3>1, <3>2
  <2>11. AllInformed'
    <3> SUFFICES ASSUME NEW x \in Conn, Registered(x)', phase'[x] = "in"
                 PROVE  InformedOf(chain', x)
      BY DEF AllInformed, InformedOf
    <3>1. x # c => InformedOf(chain, x)
      BY <2>6, <2>7 DEF LineInv, AllInformed
    <3>2. QED
      BY <2>5, <2>7, <3>1
  <2>12. QED
    BY <1>t, <1>a, <2>1, <2>9, <2>10, <2>11
       DEF LineInv, Lines, Owned, Tidy, Ranks, Chain
<1>3. ASSUME NEW c \in Conn, Disconnect(c) PROVE LineInv'
  <2> DEFINE u == UserOf[c]
  <2>1. /\ phase[c] = "in" /\ lifecycle = NoConn /\ lifecycle' = c
        /\ Registered(c)
        /\ clients' = [clients EXCEPT ![u] = NoConn]
        /\ \E how \in {"leaving", "dropped"} :
             phase' = [phase EXCEPT ![c] = how]
        /\ chain' = chain
    BY <1>3 DEF Disconnect, Registered
  <2>2. /\ Lines(clients, chain)
        /\ \A x \in Conn : Registered(x) => phase[x] = "in" /\ InformedOf(chain, x)
    BY <2>1, SettledRoom
  <2>3. Owned(clients')
    BY <1>a, <2>1 DEF Owned
  <2>4. \A v \in User : clients'[v] = IF v = u THEN NoConn ELSE clients[v]
    BY <1>a, <2>1 DEF Owned
  <2>5. \A x \in Conn : Registered(x)' <=> Registered(x) /\ UserOf[x] # u
    BY <1>a, <2>4 DEF Registered
  <2>6. /\ phase'[c] \in {"leaving", "dropped"}
        /\ \A x \in Conn \ {c} : phase'[x] = phase[x]
    BY <1>t, <2>1 DEF TypeOK
  <2>7. Stands' = clients
    <3>1. Stands' = [v \in User |-> IF UserOf[c] = v THEN c ELSE clients'[v]]
      BY <1>a, <2>1, <2>6 DEF Stands
    <3>2. \A v \in User : (IF UserOf[c] = v THEN c ELSE clients'[v]) = clients[v]
      BY <2>1, <2>4 DEF Registered
    <3>3. QED
      BY <1>a, <3>1, <3>2 DEF Owned
  <2>8. Lines(Stands', chain')
    BY <2>1, <2>2, <2>7
  <2>9. Phased'
    <3> SUFFICES ASSUME NEW x \in Conn
                 PROVE  /\ phase'[x] \in {"restoring", "leaving", "dropped"} <=> lifecycle' = x
                        /\ phase'[x] = "restoring" => Registered(x)'
                        /\ phase'[x] \in {"leaving", "dropped"} => clients'[UserOf[x]] = NoConn
                        /\ Registered(x)' => phase'[x] \in {"restoring", "in"}
                        /\ phase'[x] \in {"new", "restoring"} =>
                             /\ chain'.ahead[x] = NoUser /\ chain'.behind[x] = NoUser
                             /\ chain'.told[x] = NoUser
      BY DEF Phased
    <3>1. CASE x = c
      BY <1>a, <2>1, <2>4, <2>5, <2>6, <3>1
    <3>2. CASE x # c
      <4>1. phase[x] \notin {"restoring", "leaving", "dropped"} /\ phase'[x] = phase[x]
        BY <1>a, <2>1, <2>6, <3>2 DEF LineInv, Phased
      <4>2. Registered(x)' => phase[x] = "in"
        BY <2>2, <2>5
      <4>3. phase[x] = "new" => /\ chain.ahead[x] = NoUser
                                /\ chain.behind[x] = NoUser
                                /\ chain.told[x] = NoUser
        BY DEF LineInv, Phased
      <4>4. QED
        BY <2>1, <3>2, <4>1, <4>2, <4>3
    <3>3. QED
      BY <3>1, <3>2
  <2>10. AllInformed'
    <3> SUFFICES ASSUME NEW x \in Conn, Registered(x)', phase'[x] = "in"
                 PROVE  InformedOf(chain', x)
      BY DEF AllInformed, InformedOf
    <3>1. QED
      BY <2>1, <2>2, <2>5
  <2>11. QED
    BY <1>t, <2>3, <2>8, <2>9, <2>10 DEF LineInv, Lines, Owned, Tidy, Ranks, Chain
<1>4. ASSUME NEW c \in Conn, Heal(c) PROVE LineInv'
  <2> DEFINE u == UserOf[c]
             t == Detach(chain, c)
             b == chain.behind[c]
  <2>1. /\ phase[c] \in {"leaving", "dropped"} /\ lifecycle' = NoConn
        /\ clients' = clients
        /\ \/ chain' = Freed(t, c) /\ phase' = [phase EXCEPT ![c] = "new"]
           \/ chain' = t /\ phase' = [phase EXCEPT ![c] = "in"]
    BY <1>4 DEF Heal
  <2>2. lifecycle = c /\ clients[u] = NoConn
    BY <2>1 DEF LineInv, Phased
  <2>3. \A x \in Conn \ {c} : phase[x] \notin {"restoring", "leaving", "dropped"}
    BY <2>2 DEF LineInv, Phased
  <2>4. Stands = [clients EXCEPT ![u] = c]
    BY <1>t, <2>1, <2>2, StandsLeaving
  <2>5. /\ Lines(clients, t)
        /\ t.ahead[c] = NoUser /\ t.behind[c] = NoUser
        /\ \A x \in Conn : b = NoUser \/ x # clients[b] => t.told[x] = chain.told[x]
        /\ \A x \in Conn \ {c} :
             Registered(x) /\ InformedOf(chain, x) => InformedOf(t, x)
    <3>1. Lines([clients EXCEPT ![u] = c], chain)
      BY <2>4 DEF LineInv
    <3>2. QED
      BY <1>a, <2>2, <3>1, DetachLines
  <2> HIDE DEF t
  <2>6. t \in Chain
    BY <2>5 DEF Lines
  <2>7. /\ chain'.ahead = t.ahead /\ chain'.behind = t.behind
        /\ chain'.key = t.key /\ chain'.shown = t.shown
        /\ \A x \in Conn \ {c} : chain'.told[x] = t.told[x]
        /\ phase'[c] = "new" => chain'.told[c] = NoUser
    <3>1. [t.ahead EXCEPT ![c] = NoUser] = t.ahead
          /\ [t.behind EXCEPT ![c] = NoUser] = t.behind
      BY <2>5, <2>6 DEF Chain
    <3>2. CASE chain' = Freed(t, c)
      BY <2>6, <3>1, <3>2 DEF Freed, Chain
    <3>3. CASE chain' = t /\ phase' = [phase EXCEPT ![c] = "in"]
      BY <1>t, <3>3 DEF TypeOK
    <3>4. QED
      BY <2>1, <3>2, <3>3
  <2>8. Lines(clients, chain')
    <3>1. Tidy(clients, chain')
      BY <2>5, <2>7 DEF Lines, Tidy
    <3>2. \A r : Ranks(t, r) => Ranks(chain', r)
      BY <2>7 DEF Ranks
    <3>3. QED
      BY <1>t, <2>5, <3>1, <3>2 DEF Lines
  <2>9. /\ phase'[c] \in {"new", "in"}
        /\ \A x \in Conn \ {c} : phase'[x] = phase[x]
    BY <1>t, <2>1 DEF TypeOK
  <2>10. \A x \in Conn : Registered(x)' <=> Registered(x)
    BY <2>1 DEF Registered
  <2>11. Stands' = clients'
    BY <1>t, <2>1 DEF Stands, TypeOK
  <2>12. Lines(Stands', chain')
    BY <2>1, <2>8, <2>11
  <2>13. Phased'
    <3> SUFFICES ASSUME NEW x \in Conn
                 PROVE  /\ phase'[x] \in {"restoring", "leaving", "dropped"} <=> lifecycle' = x
                        /\ phase'[x] = "restoring" => Registered(x)'
                        /\ phase'[x] \in {"leaving", "dropped"} => clients'[UserOf[x]] = NoConn
                        /\ Registered(x)' => phase'[x] \in {"restoring", "in"}
                        /\ phase'[x] \in {"new", "restoring"} =>
                             /\ chain'.ahead[x] = NoUser /\ chain'.behind[x] = NoUser
                             /\ chain'.told[x] = NoUser
      BY DEF Phased
    <3>1. CASE x = c
      <4>1. ~Registered(c)
        BY <1>a, <2>2 DEF Registered
      <4>2. phase'[c] = "new" => chain'.told[c] = NoUser
        BY <2>7
      <4>3. QED
        BY <1>a, <2>1, <2>5, <2>7, <2>9, <2>10, <3>1, <4>1, <4>2
    <3>2. CASE x # c
      <4>1. phase[x] \notin {"restoring", "leaving", "dropped"} /\ phase'[x] = phase[x]
        BY <2>3, <2>9, <3>2
      <4>2. Registered(x) => phase[x] = "in"
        BY <4>1 DEF LineInv, Phased
      <4>3. ASSUME phase[x] = "new"
            PROVE  /\ chain'.told[x] = NoUser /\ chain'.ahead[x] = NoUser
                   /\ chain'.behind[x] = NoUser
        <5>1. ~Registered(x) /\ chain.told[x] = NoUser
          BY <4>2, <4>3 DEF LineInv, Phased
        <5>2. b \in Pointer
          BY <1>t DEF Chain
        <5>3. b = NoUser \/ x # clients[b]
          BY <1>a, <5>1, <5>2 DEF Owned, Pointer, Registered
        <5>4. chain'.told[x] = NoUser
          BY <2>5, <2>6, <2>7, <3>2, <5>1, <5>3 DEF Chain
        <5>5. chain'.ahead[x] = NoUser /\ chain'.behind[x] = NoUser
          BY <2>8, <5>1 DEF Lines, Tidy, Registered
        <5>6. QED
          BY <5>4, <5>5
      <4>4. QED
        BY <1>a, <2>1, <2>10, <4>1, <4>2, <4>3
    <3>3. QED
      BY <3>1, <3>2
  <2>14. AllInformed'
    <3> SUFFICES ASSUME NEW x \in Conn, Registered(x)', phase'[x] = "in"
                 PROVE  InformedOf(chain', x)
      BY DEF AllInformed, InformedOf
    <3>1. x # c /\ Registered(x) /\ phase[x] = "in"
      BY <1>a, <2>2, <2>9, <2>10 DEF Registered
    <3>2. InformedOf(t, x)
      BY <2>5, <3>1 DEF LineInv, AllInformed
    <3>3. chain'.told[x] = t.told[x]
      BY <2>7, <3>1
    <3>4. QED
      BY <2>7, <3>2, <3>3 DEF InformedOf
  <2>15. QED
    BY <1>t, <1>a, <2>1, <2>12, <2>13, <2>14
       DEF LineInv, Lines, Owned, Tidy, Ranks, Chain
<1>5. ASSUME NEW c \in Conn, DisconnectStale(c) PROVE LineInv'
  <2>1. /\ phase[c] = "in" /\ lifecycle = NoConn /\ ~Registered(c)
        /\ clients' = clients /\ lifecycle' = lifecycle
        /\ chain' = Freed(chain, c)
        /\ phase' = [phase EXCEPT ![c] = "new"]
    BY <1>5 DEF DisconnectStale, Registered
  <2>2. /\ Lines(clients, chain)
        /\ \A x \in Conn : Registered(x) => phase[x] = "in" /\ InformedOf(chain, x)
    BY <2>1, SettledRoom
  <2>3. chain.ahead[c] = NoUser /\ chain.behind[c] = NoUser
    BY <2>1, <2>2 DEF Lines, Tidy, Registered
  <2>4. /\ chain'.ahead = chain.ahead /\ chain'.behind = chain.behind
        /\ chain'.key = chain.key /\ chain'.shown = chain.shown
        /\ chain'.told = [chain.told EXCEPT ![c] = NoUser]
    <3>1. [chain.ahead EXCEPT ![c] = NoUser] = chain.ahead
          /\ [chain.behind EXCEPT ![c] = NoUser] = chain.behind
      BY <1>t, <2>3 DEF Chain
    <3>2. QED
      BY <1>t, <2>1, <3>1 DEF Freed, Chain
  <2>5. Lines(clients, chain')
    <3>1. Tidy(clients, chain')
      BY <2>2, <2>4 DEF Lines, Tidy
    <3>2. \A r : Ranks(chain, r) => Ranks(chain', r)
      BY <2>4 DEF Ranks
    <3>3. QED
      BY <1>t, <2>2, <3>1, <3>2 DEF Lines
  <2>6. \A x \in Conn : phase'[x] = IF x = c THEN "new" ELSE phase[x]
    BY <1>t, <2>1 DEF TypeOK
  <2>7. \A x \in Conn : Registered(x)' <=> Registered(x)
    BY <2>1 DEF Registered
  <2>8. Stands' = clients'
    BY <1>t, <2>1 DEF Stands, TypeOK
  <2>9. Lines(Stands', chain')
    BY <2>1, <2>5, <2>8
  <2>10. Phased'
    <3> SUFFICES ASSUME NEW x \in Conn
                 PROVE  /\ phase'[x] \in {"restoring", "leaving", "dropped"} <=> lifecycle' = x
                        /\ phase'[x] = "restoring" => Registered(x)'
                        /\ phase'[x] \in {"leaving", "dropped"} => clients'[UserOf[x]] = NoConn
                        /\ Registered(x)' => phase'[x] \in {"restoring", "in"}
                        /\ phase'[x] \in {"new", "restoring"} =>
                             /\ chain'.ahead[x] = NoUser /\ chain'.behind[x] = NoUser
                             /\ chain'.told[x] = NoUser
      BY DEF Phased
    <3>1. chain'.told[x] = IF x = c THEN NoUser ELSE chain.told[x]
      BY <1>t, <2>4 DEF Chain
    <3>2. CASE x = c
      BY <1>a, <2>1, <2>3, <2>4, <2>6, <2>7, <3>1, <3>2
    <3>3. CASE x # c
      BY <2>1, <2>4, <2>6, <2>7, <3>1, <3>3 DEF LineInv, Phased
    <3>4. QED
      BY <3>2, <3>3
  <2>11. AllInformed'
    <3> SUFFICES ASSUME NEW x \in Conn, Registered(x)', phase'[x] = "in"
                 PROVE  InformedOf(chain', x)
      BY DEF AllInformed, InformedOf
    <3>1. x # c /\ InformedOf(chain, x)
      BY <2>2, <2>6, <2>7
    <3>2. chain'.told[x] = chain.told[x]
      BY <1>t, <2>4, <3>1 DEF Chain
    <3>3. QED
      BY <2>4, <3>1, <3>2 DEF InformedOf
  <2>12. QED
    BY <1>t, <1>a, <2>1, <2>9, <2>10, <2>11
       DEF LineInv, Lines, Owned, Tidy, Ranks, Chain
<1>6. ASSUME NEW c \in Conn, Handles(c)
      PROVE  /\ lifecycle = NoConn /\ Registered(c)
             /\ UNCHANGED <<clients, phase, lifecycle>>
  BY <1>6 DEF Handles, Registered
<1>7. ASSUME NEW c \in Conn, Unfollow(c) PROVE LineInv'
  BY <1>t, <1>6, <1>7, DetachKeeps DEF Unfollow
<1>8. ASSUME NEW c \in Conn, NEW target \in User, Follow(c, target) PROVE LineInv'
  <2>1. /\ lifecycle = NoConn /\ Registered(c)
        /\ UNCHANGED <<clients, phase, lifecycle>>
        /\ target # UserOf[c] /\ clients[target] # NoConn
        /\ chain' = Followed(chain, c, target)
    BY <1>6, <1>8 DEF Follow
  <2>2. Lines(clients, chain)
    BY <2>1, SettledRoom
  <2>3. /\ Lines(clients, chain')
        /\ \A x \in Conn : Registered(x) /\ InformedOf(chain, x) =>
                             InformedOf(chain', x)
        /\ \A x \in Conn : ~Registered(x) => chain'.told[x] = chain.told[x]
    BY <2>1, <2>2, FollowedLines
  <2>4. QED
    BY <1>t, <2>1, <2>3, HandlerKeeps
<1>9. ASSUME NEW c \in Conn, NEW f \in User, StopFollower(c, f) PROVE LineInv'
  <2>1. clients[f] \in Conn /\ Registered(clients[f])
    BY <1>a, <1>9 DEF StopFollower, Owned, Registered
  <2>2. QED
    BY <1>t, <1>6, <1>9, <2>1, DetachKeeps DEF StopFollower
<1>10. ASSUME Restart PROVE LineInv'
  BY <1>t, <1>10, RestartLines
<1>11. CASE UNCHANGED vars
  BY <1>11 DEF vars, LineInv, TypeOK, Owned, Phased, Lines, Stands, Tidy, Ranks,
               Chain, AllInformed, Registered, InformedOf
<1>12. QED
  BY <1>1, <1>2, <1>3, <1>4, <1>5, <1>7, <1>8, <1>9, <1>10, <1>11 DEF Next

(***************************************************************************)
(* What the chain promises until it is disturbed                           *)
(***************************************************************************)

CalmInv == TypeOK /\ (calm => LineInv)

(* Only a restart makes a disturbed server calm again.                     *)
LEMMA CalmSteps ==
  ASSUME [Next]_vars, calm', ~calm PROVE Restart
BY DEF Next, vars, Connect, Restore, Disconnect, Heal, DisconnectStale, Handles,
       Unfollow, Follow, StopFollower

LEMMA LinesHold == ASSUME ShortChains PROVE Spec => []CalmInv
<1>1. Init => CalmInv
  BY LinesFromTheStart DEF CalmInv, LineInv
<1>2. CalmInv /\ [Next]_vars => CalmInv'
  <2> SUFFICES ASSUME CalmInv, [Next]_vars PROVE CalmInv'
    OBVIOUS
  <2>1. TypeOK /\ TypeOK'
    BY TypesKept DEF CalmInv
  <2>2. CASE ~calm'
    BY <2>1, <2>2 DEF CalmInv
  <2>3. CASE calm' /\ calm
    BY <2>1, <2>3, LinesKept DEF CalmInv
  <2>4. CASE calm' /\ ~calm
    BY <2>1, <2>4, CalmSteps, RestartLines DEF CalmInv
  <2>5. QED
    BY <2>2, <2>3, <2>4
<1>3. QED
  BY <1>1, <1>2, PTL DEF Spec

(* The two pointers of a link agree (detach, handleFollow, register and    *)
(* unregister all change both): until the server is disturbed, c follows d *)
(* exactly when d has c for its follower, and no pointer leads to a user   *)
(* who left.                                                               *)
THEOREM LinksAgree == ASSUME ShortChains PROVE Spec => []LinksSymmetric
<1>1. CalmInv => LinksSymmetric
  <2> SUFFICES ASSUME LineInv, Settled
               PROVE  \A c \in Online :
                        /\ chain.ahead[c] # NoUser =>
                             /\ clients[chain.ahead[c]] # NoConn
                             /\ chain.behind[clients[chain.ahead[c]]] = UserOf[c]
                        /\ chain.behind[c] # NoUser =>
                             /\ clients[chain.behind[c]] # NoConn
                             /\ chain.ahead[clients[chain.behind[c]]] = UserOf[c]
    BY DEF LinksSymmetric, CalmInv
  <2>1. Tidy(clients, chain)
    BY SettledRoom DEF Settled, Lines
  <2>2. QED
    BY <2>1 DEF Online, Tidy
<1>2. QED
  BY <1>1, LinesHold, PTL

(* A client walks behind the user the server has it follow, and everybody  *)
(* was told so: no re-link of detach, no resumed follow of register and no *)
(* reattached follower of handleFollow goes unannounced.                   *)
THEOREM EverybodyInformed == ASSUME ShortChains PROVE Spec => []ClientsInformed
<1>1. CalmInv => ClientsInformed
  BY SettledRoom DEF CalmInv, Settled, Registered, Online, InformedOf, ClientsInformed
<1>2. QED
  BY <1>1, LinesHold, PTL

(* The key persistFollow keeps in Redis for an online user is whom that    *)
(* user follows, or nobody: a restart resumes no link that was given up.   *)
THEOREM KeysAreCurrent == ASSUME ShortChains PROVE Spec => []KeyIsCurrent
<1>1. CalmInv => KeyIsCurrent
  BY SettledRoom DEF CalmInv, Settled, Registered, Online, InformedOf, KeyIsCurrent
<1>2. QED
  BY <1>1, LinesHold, PTL

(* Walking ahead from a connection with a leader only leads to lower ranks.*)
LEMMA NeverBack ==
  ASSUME Owned(clients), chain \in Chain,
         NEW rank \in [User -> Nat], Ranks(chain, rank),
         NEW c \in Conn, ClientOf(chain.ahead[c]) # NoConn
  PROVE  \A n \in 1..MaxFollowChain : Walk(chain.ahead, c)[n] # c
<1> DEFINE N == MaxFollowChain
           at == Walk(chain.ahead, c)
           T == {n \in 1..N : ~ (rank[UserOf[at[n]]] < rank[UserOf[c]])}
<1>0. N \in Nat /\ NoUser \notin User /\ \A x \in Conn : UserOf[x] \in User
  BY FollowAssumption
<1>1. chain.ahead \in [Conn -> Pointer]
  BY DEF Chain
<1>2. /\ at \in [0..N -> Conn]
      /\ at[0] = c
      /\ \A n \in 1..N : at[n] = Step(chain.ahead, at[n-1])
  BY <1>1, WalkEquations DEF Owned
<1>3. ASSUME NEW x \in Conn, ClientOf(chain.ahead[x]) # NoConn
      PROVE  rank[UserOf[Step(chain.ahead, x)]] < rank[UserOf[x]]
  <2>1. chain.ahead[x] # NoUser /\ clients[chain.ahead[x]] # NoConn
    BY <1>3 DEF ClientOf
  <2>2. chain.ahead[x] \in User
    BY <1>1, <2>1 DEF Pointer
  <2>3. UserOf[Step(chain.ahead, x)] = chain.ahead[x]
    BY <1>3, <2>1, <2>2 DEF Step, ClientOf, Owned
  <2>4. QED
    BY <2>1, <2>3 DEF Ranks
<1> HIDE DEF at, N
<1>4. T = {}
  <2> SUFFICES ASSUME T # {} PROVE FALSE
    OBVIOUS
  <2>1. PICK n \in T : \A m \in T : n <= m
    <3>1. T \in SUBSET Nat
      BY <1>0
    <3>2. QED
      BY <3>1, LeastNumber
  <2>2. n \in 1..N /\ n - 1 \in 0..N /\ at[n] = Step(chain.ahead, at[n-1])
    BY <1>0, <1>2
  <2>3. n # 1
    BY <1>2, <1>3, <2>1, <2>2
  <2>4. n - 1 \in 1..N /\ n - 1 \notin T
    BY <1>0, <2>1, <2>2, <2>3
  <2>5. at[n-1] \in Conn /\ rank[UserOf[at[n-1]]] < rank[UserOf[c]]
    BY <1>2, <2>2, <2>4
  <2>6. at[n] = at[n-1] \/ rank[UserOf[at[n]]] < rank[UserOf[at[n-1]]]
    BY <1>3, <2>2, <2>5 DEF Step
  <2>7. at[n] \in Conn
    BY <1>2, <2>2
  <2>8. rank[UserOf[at[n]]] \in Nat /\ rank[UserOf[at[n-1]]] \in Nat
        /\ rank[UserOf[c]] \in Nat
    BY <1>0, <2>5, <2>7
  <2>9. QED
    BY <2>1, <2>5, <2>6, <2>8
<1>5. rank[UserOf[c]] \in Nat
  BY <1>0
<1>6. QED
  BY <1>4, <1>5 DEF at, N

(* Before the first disturbing step nobody is ahead of itself              *)
(* (room.go:1234), not even while a register or unregister is under way:   *)
(* the ranks of the lines fall along every walk.                           *)
THEOREM NobodyFollowsThemselves ==
  ASSUME ShortChains PROVE Spec => [](calm => NoCycle)
<1>1. CalmInv => (calm => NoCycle)
  <2> SUFFICES ASSUME LineInv, NEW c \in Online, ClientOf(chain.ahead[c]) # NoConn
               PROVE  \A n \in 1..MaxFollowChain : Walk(chain.ahead, c)[n] # c
    BY DEF NoCycle, CalmInv
  <2>1. PICK rank \in [User -> Nat] : Ranks(chain, rank)
    BY DEF LineInv, Lines
  <2>2. Owned(clients) /\ chain \in Chain /\ c \in Conn
    BY DEF LineInv, TypeOK, Online
  <2>3. QED
    BY <2>1, <2>2, NeverBack
<1>2. QED
  BY <1>1, LinesHold, PTL

(***************************************************************************)
(* The pointers implement the lines of CongaLine                           *)
(***************************************************************************)

LEMMA LeadersAre ==
  /\ Leaders = LeadOf(Stands, chain) /\ Leaders' = LeadOf(Stands', chain')
  /\ TypeOK /\ lifecycle = NoConn => Stands = clients
  /\ TypeOK' /\ lifecycle' = NoConn => Stands' = clients'
BY DEF Leaders, LeadOf, Stands, TypeOK

(* Who stands for whom and whom they walk behind: nothing else counts.     *)
LEMMA SameLeaders ==
  ASSUME NEW cl, NEW s, NEW t, t.ahead = s.ahead
  PROVE  LeadOf(cl, t) = LeadOf(cl, s)
BY DEF LeadOf

(* handleFollow without a target, handleStopFollower.                      *)
LEMMA DetachUnfollows ==
  ASSUME ShortChains, LineInv, TypeOK', lifecycle = NoConn,
         UNCHANGED <<clients, phase, lifecycle>>,
         NEW c \in Conn, Registered(c),
         chain' = [Detach(chain, c) EXCEPT !.told[c] = NoUser]
  PROVE  Line!Unfollow(UserOf[c])
<1> DEFINE u == UserOf[c]
           t == Detach(chain, c)
           D == {v \in User : clients[v] # NoConn}
           cl == [clients EXCEPT ![u] = c]
           a == LeadOf(cl, chain)
<1>1. /\ Lines(clients, chain) /\ clients[u] = c /\ cl = clients
  BY SettledRoom DEF Registered
<1>2. Leaders = a /\ Leaders' = LeadOf(clients, chain')
  <2>1. Stands = clients /\ Stands' = clients
    BY LeadersAre DEF LineInv
  <2>2. QED
    BY <1>1, <2>1, LeadersAre
<1>3. /\ LeadOf(clients, t) = [x \in D |-> Line!SteppedOut(a, u)[x]]
      /\ Lines(clients, t)
  <2>1. clients[u] \in {c, NoConn} /\ Lines(cl, chain) /\ Owned(clients)
    BY <1>1 DEF LineInv
  <2>2. LeadOf(clients, t) = [x \in D |-> Line!SteppedOut(a, u)[x]]
    BY <2>1, LeadDetached
  <2>3. Lines(clients, t)
    BY <2>1, DetachLines
  <2>4. QED
    BY <2>2, <2>3
<1>4. u \in D /\ DOMAIN a = D
  BY <1>1, FollowAssumption DEF LeadOf
<1>5. Line!SteppedOut(a, u) = [x \in D |-> Line!SteppedOut(a, u)[x]]
  <2>1. Line!SteppedOut(a, u) =
          [x \in D |-> IF x = u THEN NoUser ELSE IF a[x] = u THEN a[u] ELSE a[x]]
    BY <1>4 DEF Line!SteppedOut
  <2> HIDE DEF a, D
  <2>2. QED
    BY <2>1
<1>6. LeadOf(clients, chain') = LeadOf(clients, t)
  <2> HIDE DEF t
  <2>1. chain'.ahead = t.ahead
    BY <1>3 DEF Lines, Chain, t
  <2>2. QED
    BY <2>1, SameLeaders
<1> HIDE DEF t, a, D, cl
<1>7. Leaders' = Line!SteppedOut(Leaders, u)
  BY <1>2, <1>3, <1>5, <1>6
<1>8. u \in Line!Online
  BY <1>2, <1>4 DEF Line!Online
<1>9. QED
  BY <1>7, <1>8 DEF Line!Unfollow

LEMMA RestartEnds == TypeOK /\ Restart => Line!Next
<1> SUFFICES ASSUME TypeOK, Restart PROVE Line!Next
  OBVIOUS
<1>1. clients' = [u \in User |-> NoConn] /\ lifecycle' = NoConn
  BY DEF Restart
<1>2. TypeOK'
  BY TypesKept DEF Next
<1>3. Stands' = clients'
  BY <1>1, <1>2, LeadersAre
<1>4. {v \in User : Stands'[v] # NoConn} = {}
  BY <1>1, <1>3
<1>5. Leaders' = Line!Nobody
  BY <1>4 DEF Leaders, Line!Nobody
<1>6. QED
  BY <1>5 DEF Line!Next, Line!Restart

LEMMA LinesStep ==
  ShortChains /\ LineInv /\ [Next]_vars /\ calm' => [Line!Next]_Leaders
<1> SUFFICES ASSUME ShortChains, LineInv, [Next]_vars, calm'
             PROVE  [Line!Next]_Leaders
  OBVIOUS
<1>t. TypeOK /\ TypeOK' /\ chain \in Chain /\ chain' \in Chain
  BY TypesKept DEF LineInv, TypeOK
<1>a. Owned(clients) /\ NoConn \notin Conn /\ NoUser \notin User
      /\ \A x \in Conn : UserOf[x] \in User
  BY FollowAssumption DEF LineInv
<1>1. ASSUME NEW c \in Conn, Connect(c) PROVE [Line!Next]_Leaders
  <2> DEFINE u == UserOf[c]
             D == {v \in User : clients[v] # NoConn}
  <2>1. /\ phase[c] = "new" /\ lifecycle = NoConn /\ lifecycle' = c
        /\ clients' = [clients EXCEPT ![u] = c]
        /\ phase' = [phase EXCEPT ![c] = "restoring"]
        /\ chain' = chain
        /\ clients[u] # NoConn => chain.ahead[clients[u]] = NoUser
    BY <1>1 DEF Connect, Linked
  <2>2. chain.ahead[c] = NoUser
    BY <2>1 DEF LineInv, Phased
  <2>3. Stands = clients
    BY <1>t, <2>1, LeadersAre
  <2>4. phase'[c] = "restoring"
    BY <1>t, <2>1 DEF TypeOK
  <2>5. Stands' = clients'
    BY <1>t, <2>1, <2>4 DEF Stands, TypeOK
  <2>6. \A v \in User : clients'[v] = IF v = u THEN c ELSE clients[v]
    BY <1>a, <2>1 DEF Owned
  <2>7. u \in User /\ c # NoConn
    BY <1>a
  <2>8. Leaders = [v \in D |-> chain.ahead[clients[v]]]
    BY <2>3 DEF Leaders
  <2>9. Leaders' = [v \in D \cup {u} |-> chain.ahead[clients'[v]]]
    <3>1. {v \in User : clients'[v] # NoConn} = D \cup {u}
      BY <2>6, <2>7
    <3>2. Leaders' = [v \in {w \in User : clients'[w] # NoConn} |->
                       chain.ahead[clients'[v]]]
      BY <2>1, <2>5 DEF Leaders
    <3>3. QED
      BY <3>1, <3>2
  <2>10. CASE u \in D
    <3>1. \A v \in D : chain.ahead[clients'[v]] = chain.ahead[clients[v]]
      BY <2>1, <2>2, <2>6
    <3>2. D \cup {u} = D
      BY <2>10
    <3> HIDE DEF D
    <3>3. Leaders' = Leaders
      BY <2>8, <2>9, <3>1, <3>2
    <3>4. QED
      BY <3>3
  <2>11. CASE u \notin D
    <3>1. \A v \in D \cup {u} :
            chain.ahead[clients'[v]] =
              IF v = u THEN NoUser ELSE chain.ahead[clients[v]]
      BY <2>2, <2>6, <2>7
    <3> HIDE DEF D, u
    <3>2. Line!Online = D
      BY <2>8 DEF Line!Online
    <3>3. \A v \in D : Leaders[v] = chain.ahead[clients[v]]
      BY <2>8
    <3>4. Leaders' = [v \in D \cup {u} |-> IF v = u THEN NoUser ELSE Leaders[v]]
      BY <2>9, <3>1, <3>3
    <3>5. Line!Join(u)
      BY <2>11, <3>2, <3>4 DEF Line!Join
    <3>6. QED
      BY <2>7, <3>5 DEF Line!Next
  <2>12. QED
    BY <2>10, <2>11
<1>2. ASSUME NEW c \in Conn, Restore(c) PROVE [Line!Next]_Leaders
  <2> DEFINE u == UserOf[c]
             a == LeadOf(clients, chain)
  <2>1. /\ phase[c] = "restoring" /\ lifecycle' = NoConn
        /\ clients' = clients /\ chain' = Resumed(chain, c)
    BY <1>2 DEF Restore
  <2>2. /\ lifecycle = c /\ Registered(c)
        /\ chain.ahead[c] = NoUser /\ chain.behind[c] = NoUser
        /\ chain.told[c] = NoUser
    BY <2>1 DEF LineInv, Phased
  <2>3. Stands = clients /\ Stands' = clients
    <3>1. Stands = clients
      BY <1>t, <2>1, <2>2 DEF Stands, TypeOK
    <3>2. QED
      BY <1>t, <2>1, <3>1, LeadersAre
  <2>4. Lines(clients, chain)
    BY <2>3 DEF LineInv
  <2>5. Leaders = a /\ Leaders' = LeadOf(clients, Resumed(chain, c))
    BY <2>1, <2>3, LeadersAre
  <2>6. \/ Leaders' = Leaders
        \/ /\ Leaders[u] = NoUser
           /\ \E v \in User :
                /\ v # u /\ clients[v] # NoConn /\ v \notin Line!LineFrom(Leaders, u)
                /\ \E e \in Line!EndOf(Leaders, v) :
                     Leaders' = [Leaders EXCEPT ![u] = e]
    BY <2>2, <2>4, <2>5, ResumedEffect
  <2>7. u \in User /\ clients[u] = c
        /\ Line!Online = {v \in User : clients[v] # NoConn}
    BY <1>a, <2>2, <2>5 DEF Line!Online, LeadOf, Registered
  <2> HIDE DEF u, a
  <2>8. ASSUME NEW v \in User, v # u, clients[v] # NoConn,
               Leaders[u] = NoUser, v \notin Line!LineFrom(Leaders, u),
               \E e \in Line!EndOf(Leaders, v) : Leaders' = [Leaders EXCEPT ![u] = e]
        PROVE  Line!Next
    <3>1. Line!Follow(u, v)
      BY <1>a, <2>7, <2>8 DEF Line!Follow
    <3>2. QED
      BY <2>7, <3>1 DEF Line!Next
  <2>9. QED
    BY <2>6, <2>8
<1>3. ASSUME NEW c \in Conn, Disconnect(c) PROVE [Line!Next]_Leaders
  <2> DEFINE u == UserOf[c]
  <2>1. /\ lifecycle = NoConn /\ lifecycle' = c
        /\ clients[u] = c
        /\ clients' = [clients EXCEPT ![u] = NoConn]
        /\ \E how \in {"leaving", "dropped"} :
             phase' = [phase EXCEPT ![c] = how]
        /\ chain' = chain
    BY <1>3 DEF Disconnect
  <2>2. Stands = clients
    BY <1>t, <2>1, LeadersAre
  <2>3. phase'[c] \in {"leaving", "dropped"}
    BY <1>t, <2>1 DEF TypeOK
  <2>4. Stands' = [v \in User |-> IF UserOf[c] = v THEN c ELSE clients'[v]]
    BY <1>a, <2>1, <2>3 DEF Stands
  <2>5. \A v \in User : (IF UserOf[c] = v THEN c ELSE clients'[v]) = clients[v]
    BY <1>a, <2>1 DEF Owned
  <2>6. Stands' = clients
    BY <1>a, <2>4, <2>5 DEF Owned
  <2>7. Leaders' = Leaders
    BY <2>1, <2>2, <2>6, LeadersAre
  <2>8. QED
    BY <2>7
<1>4. ASSUME NEW c \in Conn, Heal(c) PROVE [Line!Next]_Leaders
  <2> DEFINE u == UserOf[c]
             t == Detach(chain, c)
             cl == [clients EXCEPT ![u] = c]
             D == {v \in User : clients[v] # NoConn}
             a == LeadOf(cl, chain)
  <2>1. /\ phase[c] \in {"leaving", "dropped"} /\ lifecycle' = NoConn
        /\ clients' = clients /\ chain' \in {t, Freed(t, c)}
    BY <1>4 DEF Heal
  <2>2. lifecycle = c /\ clients[u] = NoConn
    BY <2>1 DEF LineInv, Phased
  <2>3. Stands = cl
    BY <1>t, <2>1, <2>2, StandsLeaving
  <2>4. Stands' = clients
    BY <1>t, <2>1, LeadersAre
  <2>5. /\ LeadOf(clients, t) = [x \in D |-> Line!SteppedOut(a, u)[x]]
        /\ Lines(clients, t) /\ t.ahead[c] = NoUser
    <3>1. clients[u] \in {c, NoConn} /\ Lines(cl, chain)
      BY <2>2, <2>3 DEF LineInv
    <3>2. LeadOf(clients, t) = [x \in D |-> Line!SteppedOut(a, u)[x]]
      BY <1>a, <3>1, LeadDetached
    <3>3. Lines(clients, t) /\ t.ahead[c] = NoUser
      BY <1>a, <3>1, DetachLines
    <3>4. QED
      BY <3>2, <3>3
  <2> HIDE DEF t
  <2>6. chain'.ahead = t.ahead
    <3>1. t \in Chain
      BY <2>5 DEF Lines
    <3>2. [t.ahead EXCEPT ![c] = NoUser] = t.ahead
      BY <2>5, <3>1 DEF Chain
    <3>3. QED
      BY <2>1, <3>1, <3>2 DEF Freed, Chain
  <2>7. Leaders = a /\ Leaders' = [x \in D |-> Line!SteppedOut(a, u)[x]]
    BY <2>3, <2>4, <2>5, <2>6, LeadersAre, SameLeaders
  <2>8. Line!Online = D \cup {u} /\ u \notin D /\ u \in User
    <3>1. {v \in User : cl[v] # NoConn} = D \cup {u}
      BY <1>a, <2>2 DEF Owned
    <3>2. DOMAIN a = {v \in User : cl[v] # NoConn}
      BY DEF LeadOf
    <3> HIDE DEF a, cl
    <3>3. QED
      BY <1>a, <2>2, <2>7, <3>1, <3>2 DEF Line!Online
  <2> HIDE DEF a, D, u
  <2>9. (D \cup {u}) \ {u} = D
    BY <2>8
  <2>10. Line!Leave(u)
    BY <2>7, <2>8, <2>9 DEF Line!Leave
  <2>11. QED
    BY <2>8, <2>10 DEF Line!Next
<1>5. ASSUME NEW c \in Conn, DisconnectStale(c) PROVE [Line!Next]_Leaders
  <2>1. /\ lifecycle = NoConn /\ lifecycle' = lifecycle /\ ~Registered(c)
        /\ clients' = clients /\ chain' = Freed(chain, c)
    BY <1>5 DEF DisconnectStale, Registered
  <2>2. chain.ahead[c] = NoUser
    BY <2>1, SettledRoom DEF Lines, Tidy, Registered
  <2>3. chain'.ahead = chain.ahead
    <3>1. [chain.ahead EXCEPT ![c] = NoUser] = chain.ahead
      BY <1>t, <2>2 DEF Chain
    <3>2. QED
      BY <1>t, <2>1, <3>1 DEF Freed, Chain
  <2>4. Stands = clients /\ Stands' = clients
    BY <1>t, <2>1, LeadersAre
  <2>5. Leaders' = Leaders
    BY <2>3, <2>4, LeadersAre, SameLeaders
  <2>6. QED
    BY <2>5
<1>6. ASSUME NEW c \in Conn, Handles(c)
      PROVE  /\ lifecycle = NoConn /\ Registered(c)
             /\ UNCHANGED <<clients, phase, lifecycle>>
  BY <1>6 DEF Handles, Registered
<1>7. ASSUME NEW c \in Conn, Unfollow(c) PROVE [Line!Next]_Leaders
  <2>1. Line!Unfollow(UserOf[c])
    BY <1>t, <1>6, <1>7, DetachUnfollows DEF Unfollow
  <2>2. QED
    BY <1>a, <2>1 DEF Line!Next
<1>8. ASSUME NEW c \in Conn, NEW target \in User, Follow(c, target)
      PROVE  [Line!Next]_Leaders
  <2> DEFINE u == UserOf[c]
  <2>1. /\ lifecycle = NoConn /\ Registered(c)
        /\ UNCHANGED <<clients, phase, lifecycle>>
        /\ target # u /\ clients[target] # NoConn
        /\ chain' = Followed(chain, c, target)
    BY <1>6, <1>8 DEF Follow
  <2>2. Lines(clients, chain)
    BY <2>1, SettledRoom
  <2>3. Leaders = LeadOf(clients, chain)
        /\ Leaders' = LeadOf(clients, Followed(chain, c, target))
    <3>1. Stands = clients /\ Stands' = clients
      BY <1>t, <2>1, LeadersAre
    <3>2. QED
      BY <2>1, <3>1, LeadersAre
  <2>4. IF Leaders[u] = NoUser /\ target \notin Line!LineFrom(Leaders, u)
        THEN \E e \in Line!EndOf(Leaders, target) :
               Leaders' = [Leaders EXCEPT ![u] = e]
        ELSE \E e \in Line!EndOf(Line!SteppedOut(Leaders, u), target) :
               Leaders' = [Line!SteppedOut(Leaders, u) EXCEPT ![u] = e]
    BY <2>1, <2>2, <2>3, FollowedEffect
  <2>5. u \in User /\ {u, target} \subseteq Line!Online
    BY <1>a, <2>1, <2>3 DEF Line!Online, LeadOf, Registered
  <2>6. Line!Follow(u, target)
    <3> HIDE DEF u
    <3>1. QED
      BY <2>1, <2>4, <2>5 DEF Line!Follow
  <2>7. QED
    BY <2>5, <2>6 DEF Line!Next
<1>9. ASSUME NEW c \in Conn, NEW f \in User, StopFollower(c, f)
      PROVE  [Line!Next]_Leaders
  <2>1. clients[f] \in Conn /\ UserOf[clients[f]] = f /\ Registered(clients[f])
    BY <1>a, <1>9 DEF StopFollower, Owned, Registered
  <2>2. Line!Unfollow(UserOf[clients[f]])
    BY <1>t, <1>6, <1>9, <2>1, DetachUnfollows DEF StopFollower
  <2>3. QED
    BY <2>1, <2>2 DEF Line!Next
<1>10. ASSUME Restart PROVE [Line!Next]_Leaders
  BY <1>t, <1>10, RestartEnds
<1>11. CASE UNCHANGED vars
  <2>1. Stands' = Stands /\ chain' = chain
    BY <1>11 DEF vars, Stands
  <2>2. QED
    BY <2>1, LeadersAre
<1>12. QED
  BY <1>1, <1>2, <1>3, <1>4, <1>5, <1>7, <1>8, <1>9, <1>10, <1>11 DEF Next

(* The pointers that detach, handleFollow, register and unregister change, *)
(* two per connection, each looked up by user ID, implement conga lines:   *)
(* until the first disturbing step, every handler moves exactly the users  *)
(* CongaLine says, to exactly the place it says.                           *)
THEOREM PointersImplementLines == ASSUME ShortChains PROVE Spec => ImplementsLines
<1>1. Init => Line!Init
  <2> SUFFICES ASSUME Init PROVE Leaders = Line!Nobody
    BY DEF Line!Init
  <2>1. {v \in User : Stands[v] # NoConn} = {}
    BY DEF Init, Stands
  <2>2. QED
    BY <2>1 DEF Leaders, Line!Nobody
<1>2. CalmInv /\ [Next]_vars => [calm' => Line!Next]_Leaders
  <2> SUFFICES ASSUME CalmInv, [Next]_vars, calm' PROVE [Line!Next]_Leaders
    OBVIOUS
  <2>1. CASE calm
    BY <2>1, LinesStep DEF CalmInv
  <2>2. CASE ~calm
    BY <2>2, CalmSteps, RestartEnds DEF CalmInv
  <2>3. QED
    BY <2>1, <2>2
<1>3. QED
  BY <1>1, <1>2, LinesHold, PTL DEF Spec, ImplementsLines

=============================================================================
