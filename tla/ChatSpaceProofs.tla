--------------------------- MODULE ChatSpaceProofs ---------------------------
(* Proofs about ChatSpace for every set of users, every floor, and every   *)
(* length of the timers: types, the sessions are a partition, and what a   *)
(* tick may not do.                                                        *)
EXTENDS ChatSpace, TLAPS, FiniteSetTheorems, WellFoundedInduction

(* A nonempty set of natural numbers has a least element: the form in which*)
(* induction over the steps of a search is available to the provers.       *)
LEMMA LeastNumber ==
  ASSUME NEW T \in SUBSET Nat, T # {}
  PROVE  \E n \in T : \A m \in T : n <= m
<1>1. IsWellFoundedOn(OpToRel(<, Nat), Nat)
  BY NatLessThanWellFounded
<1>2. PICK n \in T : \A m \in T : ~ (<<m, n>> \in OpToRel(<, Nat))
  BY <1>1, WFMin
<1>3. \A m \in T : ~ (m < n)
  BY <1>2 DEF OpToRel
<1>4. QED
  BY <1>3

(* A set of users has two members or more when it has one and, for each, a *)
(* companion.                                                              *)
LEMMA Companions ==
  ASSUME NEW S \in SUBSET User
  PROVE  /\ IsFiniteSet(S) /\ Cardinality(S) \in Nat
         /\ Cardinality(S) # 1 <=> \A u \in S : \E v \in S : v # u
         /\ Cardinality(S) >= 2 <=> S # {} /\ \A u \in S : \E v \in S : v # u
<1>1. IsFiniteSet(S) /\ Cardinality(S) \in Nat
  BY ChatAssumption, FS_Subset, FS_CardinalityType
<1>2. Cardinality(S) # 1 <=> \A u \in S : \E v \in S : v # u
  <2>1. Cardinality(S) = 1 <=> \E x : S = {x}
    BY <1>1, FS_Singleton
  <2>2. (\E x : S = {x}) <=> \E u \in S : \A v \in S : v = u
    OBVIOUS
  <2>3. QED
    BY <2>1, <2>2
<1>3. Cardinality(S) = 0 <=> S = {}
  BY <1>1, FS_EmptySet
<1>4. QED
  BY <1>1, <1>2, <1>3

(***************************************************************************)
(* The search: a component is the least set around u that no edge leaves.  *)
(***************************************************************************)

LEMMA SearchEquations ==
  ASSUME NEW S \in SUBSET User, NEW edges, NEW u \in S
  PROVE  /\ Cardinality(S) \in Nat
         /\ Search(S, edges, u)[0] = {u}
         /\ \A n \in 1..Cardinality(S) :
              Search(S, edges, u)[n] = Grown(S, edges, Search(S, edges, u)[n-1])
<1> DEFINE N == Cardinality(S)
           Path(n, g) == /\ g \in [0..n -> SUBSET S]
                         /\ g[0] = {u}
                         /\ \A i \in 1..n : g[i] = Grown(S, edges, g[i-1])
<1>0. N \in Nat
  BY Companions
<1>1. \A n \in Nat : \E g : Path(n, g)
  <2> DEFINE T == {n \in Nat : ~ \E g : Path(n, g)}
  <2> SUFFICES ASSUME T # {} PROVE FALSE
    OBVIOUS
  <2>1. PICK n \in T : \A m \in T : n <= m
    <3> HIDE DEF Path
    <3>1. T \in SUBSET Nat
      OBVIOUS
    <3> HIDE DEF T
    <3>2. QED
      BY <3>1, LeastNumber
  <2>2. CASE n = 0
    <3>1. Path(0, [i \in 0..0 |-> {u}])
      OBVIOUS
    <3>2. QED
      BY <2>2, <3>1
  <2>3. CASE n # 0
    <3>1. n - 1 \in Nat /\ n - 1 \notin T
      <4> HIDE DEF Path
      <4>1. n \in Nat /\ n - 1 \in Nat /\ ~ (n <= n - 1)
        BY <2>3
      <4>2. QED
        BY <2>1, <4>1
    <3>2. PICK g : Path(n - 1, g)
      <4> HIDE DEF Path
      <4>1. QED
        BY <3>1
    <3> DEFINE h == [i \in 0..n |-> IF i < n THEN g[i]
                                    ELSE Grown(S, edges, g[n-1])]
    <3>3. g[n-1] \in SUBSET S /\ Grown(S, edges, g[n-1]) \in SUBSET S
      BY <3>1, <3>2 DEF Grown
    <3>4. h \in [0..n -> SUBSET S] /\ h[0] = {u}
      BY <2>3, <3>1, <3>2, <3>3
    <3>5. ASSUME NEW i \in 1..n PROVE h[i] = Grown(S, edges, h[i-1])
      <4>1. CASE i = n
        BY <2>3, <4>1
      <4>2. CASE i < n
        BY <3>2, <4>2
      <4>3. QED
        BY <4>1, <4>2
    <3>6. Path(n, h)
      BY <3>4, <3>5
    <3>7. QED
      BY <3>6
  <2>4. QED
    BY <2>2, <2>3
<1>2. PICK g : Path(N, g)
  <2> HIDE DEF Path
  <2>1. QED
    BY <1>0, <1>1
<1> DEFINE f == Search(S, edges, u)
           Def(F) == [n \in 0..N |->
                       IF n = 0 THEN {u} ELSE Grown(S, edges, F[n-1])]
<1>3. g = Def(g)
  <2>1. \A n \in 0..N :
          g[n] = (IF n = 0 THEN {u} ELSE Grown(S, edges, g[n-1]))
    BY <1>0, <1>2
  <2>2. QED
    BY <1>2, <2>1
<1>4. f = Def(f)
  <2>1. f = CHOOSE F : F = Def(F)
    BY DEF Search
  <2> HIDE DEF f, Def
  <2>2. QED
    BY <1>3, <2>1
<1>5. \A n \in 0..N : f[n] = (IF n = 0 THEN {u} ELSE Grown(S, edges, f[n-1]))
  <2> HIDE DEF f
  <2>1. QED
    BY <1>4
<1>6. QED
  <2> HIDE DEF f
  <2>1. f[0] = {u} /\ \A n \in 1..N : f[n] = Grown(S, edges, f[n-1])
    BY <1>0, <1>5
  <2>2. QED
    BY <1>0, <2>1 DEF f

Closed(S, edges, C) ==
  \A x \in C : \A y \in S : <<x, y>> \in edges => y \in C

(* The search grows, and stays in S.                                       *)
LEMMA SearchGrows ==
  ASSUME NEW S \in SUBSET User, NEW edges, NEW u \in S
  PROVE  \A n \in 0..Cardinality(S) :
           u \in Search(S, edges, u)[n] /\ Search(S, edges, u)[n] \subseteq S
<1> DEFINE N == Cardinality(S)
           f == Search(S, edges, u)
           T == {n \in 0..N : ~ (u \in f[n] /\ f[n] \subseteq S)}
<1>1. /\ N \in Nat
      /\ f[0] = {u}
      /\ \A n \in 1..N : f[n] = Grown(S, edges, f[n-1])
  BY SearchEquations
<1> HIDE DEF f, N
<1> SUFFICES ASSUME T # {} PROVE FALSE
  BY DEF f, N
<1>2. PICK n \in T : \A m \in T : n <= m
  <2>1. T \in SUBSET Nat
    BY <1>1
  <2>2. QED
    BY <2>1, LeastNumber
<1>3. n # 0
  BY <1>1
<1>4. n \in 1..N /\ n - 1 \in 0..N /\ n - 1 \notin T
  BY <1>1, <1>2, <1>3
<1>5. u \in f[n-1] /\ f[n-1] \subseteq S
  BY <1>4
<1>6. f[n] = Grown(S, edges, f[n-1])
  BY <1>1, <1>4
<1>7. QED
  BY <1>5, <1>6 DEF Grown

(* It has stopped growing before it has taken more steps than S has users. *)
LEMMA ComponentClosed ==
  ASSUME NEW S \in SUBSET User, NEW edges, NEW u \in S
  PROVE  /\ u \in Component(S, edges, u)
         /\ Component(S, edges, u) \subseteq S
         /\ Closed(S, edges, Component(S, edges, u))
<1> DEFINE N == Cardinality(S)
           f == Search(S, edges, u)
<1>1. /\ N \in Nat
      /\ f[0] = {u}
      /\ \A n \in 1..N : f[n] = Grown(S, edges, f[n-1])
  BY SearchEquations
<1>2. \A n \in 0..N : u \in f[n] /\ f[n] \subseteq S
  BY SearchGrows
<1>3. Component(S, edges, u) = f[N]
  BY DEF Component
<1> HIDE DEF f, N
<1>4. \A n \in 0..N : Cardinality(f[n]) \in Nat
  BY <1>2, Companions
<1>5. ASSUME ~ Closed(S, edges, f[N]) PROVE FALSE
  <2> DEFINE T == {n \in 0..N : Cardinality(f[n]) <= n}
  <2>1. Cardinality(f[N]) <= N
    BY <1>1, <1>2, FS_Subset, Companions DEF N
  <2>2. T # {} /\ T \in SUBSET Nat
    BY <1>1, <2>1
  <2>3. PICK n \in T : \A m \in T : n <= m
    BY <2>2, LeastNumber
  <2>4. Cardinality(f[0]) = 1
    BY <1>1, FS_Singleton
  <2>5. n # 0
    BY <2>3, <2>4
  <2>6. n \in 1..N /\ n - 1 \in 0..N /\ n - 1 \notin T
    BY <1>1, <2>3, <2>5
  <2>7. Cardinality(f[n-1]) > n - 1 /\ Cardinality(f[n]) <= n
    BY <1>4, <2>3, <2>6
  <2>8. f[n-1] \subseteq f[n] /\ IsFiniteSet(f[n])
    BY <1>1, <1>2, <2>6, Companions DEF Grown
  <2>9. Cardinality(f[n-1]) <= Cardinality(f[n])
    BY <2>8, FS_Subset
  <2>10. Cardinality(f[n-1]) = Cardinality(f[n])
    BY <1>1, <1>4, <2>6, <2>7, <2>9
  <2>11. f[n-1] = f[n]
    BY <2>8, <2>10, FS_Subset
  <2> DEFINE D == {m \in (n-1)..N : f[m] # f[n-1]}
  <2>12. D # {} => FALSE
    <3> SUFFICES ASSUME D # {} PROVE FALSE
      OBVIOUS
    <3>1. PICK m \in D : \A k \in D : m <= k
      <4>1. D \in SUBSET Nat
        BY <1>1, <2>6
      <4>2. QED
        BY <4>1, LeastNumber
    <3>2. m # n - 1 /\ m # n
      BY <2>11, <3>1
    <3>3. m \in 1..N /\ m - 1 \in (n-1)..N /\ m - 1 \notin D
      BY <1>1, <2>6, <3>1, <3>2
    <3>4. f[m-1] = f[n-1]
      BY <3>3
    <3>5. f[m] = Grown(S, edges, f[m-1]) /\ f[n] = Grown(S, edges, f[n-1])
      BY <1>1, <2>6, <3>3
    <3>6. QED
      BY <2>11, <3>1, <3>4, <3>5
  <2>13. f[N] = f[n-1]
    BY <1>1, <2>6, <2>12
  <2>14. f[n] = Grown(S, edges, f[n-1])
    BY <1>1, <2>6
  <2>15. Closed(S, edges, f[n-1])
    BY <2>11, <2>14 DEF Grown, Closed
  <2>16. QED
    BY <1>5, <2>13, <2>15
<1>6. QED
  BY <1>1, <1>2, <1>3, <1>5

(* A set around u that no edge leaves contains the component of u.         *)
LEMMA ComponentLeast ==
  ASSUME NEW S \in SUBSET User, NEW edges, NEW u \in S,
         NEW C, u \in C, Closed(S, edges, C)
  PROVE  Component(S, edges, u) \subseteq C
<1> DEFINE N == Cardinality(S)
           f == Search(S, edges, u)
           T == {n \in 0..N : ~ (f[n] \subseteq C)}
<1>1. /\ N \in Nat
      /\ f[0] = {u}
      /\ \A n \in 1..N : f[n] = Grown(S, edges, f[n-1])
  BY SearchEquations
<1>2. Component(S, edges, u) = f[N]
  BY DEF Component
<1> HIDE DEF f, N
<1>3. T = {}
  <2> SUFFICES ASSUME T # {} PROVE FALSE
    OBVIOUS
  <2>1. PICK n \in T : \A m \in T : n <= m
    <3>1. T \in SUBSET Nat
      BY <1>1
    <3>2. QED
      BY <3>1, LeastNumber
  <2>2. n # 0
    BY <1>1
  <2>3. n \in 1..N /\ n - 1 \in 0..N /\ n - 1 \notin T
    BY <1>1, <2>1, <2>2
  <2>4. f[n-1] \subseteq C /\ f[n] = Grown(S, edges, f[n-1])
    BY <1>1, <2>3
  <2>5. f[n] \subseteq C
    BY <2>4 DEF Grown, Closed
  <2>6. QED
    BY <2>5
<1>4. QED
  BY <1>1, <1>2, <1>3

(* Two clusters of a symmetric relation that share a user are the same.    *)
LEMMA ClustersDisjoint ==
  ASSUME NEW S \in SUBSET User, NEW edges,
         \A x, y \in S : <<x, y>> \in edges => <<y, x>> \in edges,
         NEW u \in S, NEW v \in S,
         NEW w \in Component(S, edges, u), w \in Component(S, edges, v)
  PROVE  Component(S, edges, u) = Component(S, edges, v)
<1>1. ASSUME NEW x \in S, NEW y \in S,
             NEW z \in Component(S, edges, x), z \in Component(S, edges, y)
      PROVE  Component(S, edges, x) \subseteq Component(S, edges, y)
  <2>1. Closed(S, edges, Component(S, edges, y))
    BY ComponentClosed
  <2>2. Closed(S, edges, S \ Component(S, edges, y))
    BY <2>1 DEF Closed
  <2>3. x \in Component(S, edges, y)
    <3> SUFFICES ASSUME x \notin Component(S, edges, y) PROVE FALSE
      OBVIOUS
    <3>1. Component(S, edges, x) \subseteq S \ Component(S, edges, y)
      BY <2>2, ComponentLeast
    <3>2. QED
      BY <1>1, <3>1
  <2>4. QED
    BY <2>1, <2>3, ComponentLeast
<1>2. QED
  BY <1>1

(***************************************************************************)
(* The passes, and what they do to a partition.                            *)
(***************************************************************************)

Indexed(s) ==
  \A u \in User, i \in SessionId : u \in s.members[i] <=> s.of[u] = i

Company(s) == \A i \in SessionId : Cardinality(s.members[i]) # 1

Good(s) == s \in Chat /\ Indexed(s) /\ Company(s)

(* Two sessions have no member in common.                                  *)
LEMMA OneSession ==
  ASSUME NEW s, Good(s), NEW i \in SessionId, NEW j \in SessionId,
         NEW u \in s.members[i], u \in s.members[j]
  PROVE  i = j
BY DEF Good, Indexed, Chat

LEMMA AgedGood ==
  ASSUME NEW s, Good(s)
  PROVE  /\ Good(Aged(s))
         /\ Aged(s).members = s.members /\ Aged(s).of = s.of
         /\ \A u \in User :
              Aged(s).apart[u] = IF s.apart[u] \in {NotApart, LeaveGrace}
                                 THEN s.apart[u] ELSE s.apart[u] + 1
<1> DEFINE closed(u) == s.from[u] = NoSession \/ s.since[u] = RejoinWindow
           apart == [u \in User |-> IF s.apart[u] \in {NotApart, LeaveGrace}
                                    THEN s.apart[u] ELSE s.apart[u] + 1]
           from  == [u \in User |-> IF closed(u) THEN NoSession ELSE s.from[u]]
           since == [u \in User |-> IF closed(u) THEN 0 ELSE s.since[u] + 1]
<1>0. s \in Chat
  BY DEF Good
<1>1. Aged(s) = [s EXCEPT !.apart = apart, !.from = from, !.since = since]
  BY DEF Aged
<1>2. apart \in [User -> NotApart..LeaveGrace]
  BY <1>0, ChatAssumption DEF Chat, NotApart
<1>3. from \in [User -> SessionId \cup {NoSession}]
  BY <1>0 DEF Chat
<1>4. since \in [User -> 0..RejoinWindow]
  BY <1>0, ChatAssumption DEF Chat
<1>5. /\ Aged(s).members = s.members /\ Aged(s).of = s.of
      /\ Aged(s).apart = apart /\ Aged(s) \in Chat
  <2> HIDE DEF apart, from, since
  <2>1. QED
    BY <1>0, <1>1, <1>2, <1>3, <1>4 DEF Chat
<1>6. QED
  BY <1>5 DEF Good, Indexed, Company

LEMMA RejoinedGood ==
  ASSUME NEW s, Good(s), NEW pos, NEW R \in Rejoins(s, pos)
  PROVE  /\ Good(Rejoined(s, pos, R))
         /\ \A i \in SessionId :
              s.members[i] = {} => Rejoined(s, pos, R).members[i] = {}
         /\ \A u \in User : pos[u] \notin Tile =>
              /\ Rejoined(s, pos, R).of[u] = s.of[u]
              /\ Rejoined(s, pos, R).apart[u] = s.apart[u]
<1> DEFINE t == Rejoined(s, pos, R)
           over(u) == /\ pos[u] \in Tile
                      /\ \/ u \in R
                         \/ s.of[u] # NoSession
                         \/ s.from[u] # NoSession /\ s.members[s.from[u]] = {}
           members == [i \in SessionId |->
                         s.members[i] \cup {u \in R : s.from[u] = i}]
           of    == [u \in User |-> IF u \in R THEN s.from[u] ELSE s.of[u]]
           apart == [u \in User |-> IF u \in R THEN NotApart ELSE s.apart[u]]
           from  == [u \in User |-> IF over(u) THEN NoSession ELSE s.from[u]]
           since == [u \in User |-> IF over(u) THEN 0 ELSE s.since[u]]
<1>0. s \in Chat
  BY DEF Good
<1>1. /\ R \subseteq User
      /\ \A u \in R : /\ pos[u] \in Tile /\ s.of[u] = NoSession
                      /\ s.from[u] \in SessionId /\ s.members[s.from[u]] # {}
  BY <1>0 DEF Rejoins, Returning, Chat
<1>2. t = [s EXCEPT !.members = members, !.of = of, !.apart = apart,
                    !.from = from, !.since = since]
  BY DEF Rejoined
<1>3. members \in [SessionId -> SUBSET User]
  BY <1>0, <1>1 DEF Chat
<1>4. of \in [User -> SessionId \cup {NoSession}]
  BY <1>0, <1>1 DEF Chat
<1>5. apart \in [User -> NotApart..LeaveGrace]
  BY <1>0, ChatAssumption DEF Chat, NotApart
<1>6. from \in [User -> SessionId \cup {NoSession}]
  BY <1>0 DEF Chat
<1>7. since \in [User -> 0..RejoinWindow]
  BY <1>0, ChatAssumption DEF Chat
<1>8. /\ t \in Chat /\ t.members = members /\ t.of = of /\ t.apart = apart
  <2> HIDE DEF t, members, of, apart, from, since
  <2>1. QED
    BY <1>0, <1>2, <1>3, <1>4, <1>5, <1>6, <1>7 DEF Chat
<1>9. Indexed(t)
  <2> SUFFICES ASSUME NEW u \in User, NEW i \in SessionId
               PROVE  u \in members[i] <=> of[u] = i
    BY <1>8 DEF Indexed
  <2>1. u \in s.members[i] <=> s.of[u] = i
    BY DEF Good, Indexed
  <2>2. i # NoSession
    BY ChatAssumption
  <2>3. QED
    BY <1>1, <2>1, <2>2
<1>10. Company(t)
  <2> SUFFICES ASSUME NEW i \in SessionId, NEW u \in members[i]
               PROVE  \E v \in members[i] : v # u
    <3> HIDE DEF members
    <3>1. QED
      BY <1>3, <1>8, Companions DEF Company
  <2>1. s.members[i] \in SUBSET User
    BY <1>0 DEF Chat
  <2>2. \A v \in s.members[i] : \E w \in s.members[i] : w # v
    BY <2>1, Companions DEF Good, Company
  <2>3. s.members[i] # {}
    BY <1>1
  <2>4. QED
    BY <2>2, <2>3
<1>11. \A i \in SessionId : s.members[i] = {} => t.members[i] = {}
  BY <1>1, <1>8
<1>12. ASSUME NEW u \in User, pos[u] \notin Tile
       PROVE  t.of[u] = s.of[u] /\ t.apart[u] = s.apart[u]
  BY <1>1, <1>8, <1>12
<1>13. QED
  BY <1>8, <1>9, <1>10, <1>11, <1>12 DEF Good

LEMMA MaintainedGood ==
  ASSUME NEW s, Good(s), NEW pos
  PROVE  /\ Good(Maintained(s, pos))
         /\ \A i \in SessionId :
              s.members[i] = {} => Maintained(s, pos).members[i] = {}
         /\ \A u \in User : Maintained(s, pos).of[u] # NoSession =>
              /\ s.of[u] = Maintained(s, pos).of[u]
              /\ u \notin Expired(s, pos, s.of[u])
              /\ Maintained(s, pos).apart[u] = TimerOf(s, pos, u)
<1> DEFINE t == Maintained(s, pos)
           dissolved == {i \in SessionId : Collapses(s, pos, i)}
           freed   == UNION {s.members[i] : i \in dissolved}
           removed == UNION {Expired(s, pos, i) : i \in SessionId \ dissolved}
           out     == freed \cup removed
           seated  == UNION {s.members[i] : i \in SessionId}
           members == [i \in SessionId |-> s.members[i] \ out]
           of    == [u \in User |-> IF u \in out THEN NoSession ELSE s.of[u]]
           apart == [u \in User |->
                       IF u \in out THEN NotApart
                       ELSE IF u \in seated THEN TimerOf(s, pos, u)
                       ELSE s.apart[u]]
           from  == [u \in User |->
                       IF u \in freed THEN NoSession
                       ELSE IF u \in removed
                            THEN CHOOSE i \in SessionId : u \in s.members[i]
                       ELSE s.from[u]]
           since == [u \in User |-> IF u \in out THEN 0 ELSE s.since[u]]
<1>0. s \in Chat
  BY DEF Good
<1>1. \A i \in SessionId : s.members[i] \in SUBSET User
  BY <1>0 DEF Chat
<1>2. \A i \in SessionId : Expired(s, pos, i) \subseteq s.members[i]
  BY DEF Expired
<1>3. t = [s EXCEPT !.members = members, !.of = of, !.apart = apart,
                    !.from = from, !.since = since]
  BY DEF Maintained
<1>4. members \in [SessionId -> SUBSET User]
  BY <1>1
<1>5. of \in [User -> SessionId \cup {NoSession}]
  BY <1>0 DEF Chat
<1>6. \A u \in User : TimerOf(s, pos, u) \in NotApart..LeaveGrace
  <2> SUFFICES ASSUME NEW u \in User
               PROVE  TimerOf(s, pos, u) \in NotApart..LeaveGrace
    OBVIOUS
  <2>1. s.apart[u] \in NotApart..LeaveGrace /\ LeaveGrace \in Nat
    BY <1>0, ChatAssumption DEF Chat
  <2>2. TimerOf(s, pos, u) \in {NotApart, 0, s.apart[u]}
    BY DEF TimerOf
  <2>3. QED
    BY <2>1, <2>2 DEF NotApart
<1>7. apart \in [User -> NotApart..LeaveGrace]
  <2>1. NotApart \in NotApart..LeaveGrace
    BY ChatAssumption DEF NotApart
  <2>2. \A u \in User : s.apart[u] \in NotApart..LeaveGrace
    BY <1>0 DEF Chat
  <2> HIDE DEF out, seated
  <2>3. QED
    BY <1>6, <2>1, <2>2
<1>8. from \in [User -> SessionId \cup {NoSession}]
  <2>1. ASSUME NEW u \in removed
        PROVE  (CHOOSE i \in SessionId : u \in s.members[i]) \in SessionId
    <3>1. \E i \in SessionId : u \in s.members[i]
      BY <1>2
    <3>2. QED
      BY <3>1
  <2>2. \A u \in User : s.from[u] \in SessionId \cup {NoSession}
    BY <1>0 DEF Chat
  <2> HIDE DEF freed, removed
  <2>3. QED
    BY <2>1, <2>2
<1>9. since \in [User -> 0..RejoinWindow]
  <2> HIDE DEF out
  <2>1. QED
    BY <1>0, ChatAssumption DEF Chat
<1>10. t \in Chat /\ t.members = members /\ t.of = of /\ t.apart = apart
  <2> HIDE DEF t, members, of, apart, from, since
  <2>1. QED
    BY <1>0, <1>3, <1>4, <1>5, <1>7, <1>8, <1>9 DEF Chat
<1>11. \A u \in User, i \in SessionId : u \in s.members[i] <=> s.of[u] = i
  BY DEF Good, Indexed
<1>12. Indexed(t)
  <2> SUFFICES ASSUME NEW u \in User, NEW i \in SessionId
               PROVE  u \in members[i] <=> of[u] = i
    BY <1>10 DEF Indexed
  <2>1. i # NoSession
    BY ChatAssumption
  <2> HIDE DEF out
  <2>2. QED
    BY <1>11, <2>1
<1>13. ASSUME NEW i \in SessionId
       PROVE  members[i] = IF i \in dissolved THEN {}
                           ELSE s.members[i] \ Expired(s, pos, i)
  <2>1. CASE i \in dissolved
    BY <2>1
  <2>2. CASE i \notin dissolved
    <3>1. \A u \in s.members[i] : u \notin freed
      BY <2>2, OneSession
    <3>2. \A u \in s.members[i] : u \in removed <=> u \in Expired(s, pos, i)
      BY <1>2, <2>2, OneSession
    <3> HIDE DEF freed, removed, dissolved
    <3>3. QED
      BY <2>2, <3>1, <3>2
  <2>3. QED
    BY <2>1, <2>2
<1>14. Company(t)
  <2> SUFFICES ASSUME NEW i \in SessionId PROVE Cardinality(members[i]) # 1
    BY <1>10 DEF Company
  <2>1. CASE i \in dissolved
    <3>1. members[i] = {}
      BY <1>13, <2>1
    <3>2. QED
      BY <3>1, FS_EmptySet
  <2>2. CASE i \notin dissolved
    <3>1. members[i] = s.members[i] \ Expired(s, pos, i)
      BY <1>13, <2>2
    <3>2. ~ (Cardinality(s.members[i] \ Expired(s, pos, i)) < 2)
      BY <2>2 DEF Collapses
    <3>3. QED
      BY <3>1, <3>2
  <2>3. QED
    BY <2>1, <2>2
<1>15. \A i \in SessionId : s.members[i] = {} => t.members[i] = {}
  BY <1>10
<1>16. ASSUME NEW u \in User, t.of[u] # NoSession
       PROVE  /\ s.of[u] = t.of[u]
              /\ u \notin Expired(s, pos, s.of[u])
              /\ t.apart[u] = TimerOf(s, pos, u)
  <2>1. u \notin out /\ s.of[u] = t.of[u] /\ s.of[u] \in SessionId
    <3> HIDE DEF out
    <3>1. QED
      BY <1>0, <1>10, <1>16 DEF Chat
  <2>2. u \in s.members[s.of[u]]
    BY <1>11, <2>1
  <2>3. u \in seated
    BY <2>1, <2>2
  <2>4. s.of[u] \notin dissolved
    BY <2>1, <2>2
  <2>5. u \notin Expired(s, pos, s.of[u])
    BY <2>1, <2>4
  <2>6. t.apart[u] = TimerOf(s, pos, u)
    <3> HIDE DEF out, seated
    <3>1. QED
      BY <1>10, <2>1, <2>3
  <2>7. QED
    BY <2>1, <2>5, <2>6
<1>17. QED
  BY <1>10, <1>12, <1>14, <1>15, <1>16 DEF Good

LEMMA UnsuppressedGood ==
  ASSUME NEW s, Good(s), NEW pos
  PROVE  /\ Good(Unsuppressed(s, pos))
         /\ Unsuppressed(s, pos).members = s.members
         /\ Unsuppressed(s, pos).of = s.of
         /\ Unsuppressed(s, pos).apart = s.apart
<1> DEFINE avoid == [u \in User |-> IF \E v \in s.avoid[u] : Adjacent(pos, u, v)
                                    THEN s.avoid[u] ELSE {}]
<1>1. s \in Chat
  BY DEF Good
<1>2. avoid \in [User -> SUBSET User]
  BY <1>1 DEF Chat
<1>3. Unsuppressed(s, pos) = [s EXCEPT !.avoid = avoid]
  BY DEF Unsuppressed
<1> HIDE DEF avoid
<1>4. QED
  BY <1>1, <1>2, <1>3 DEF Good, Chat, Indexed, Company

(* The groups of pass 2 are disjoint sets of two or more free users, and   *)
(* two free users with an edge between them are in one.                    *)
EdgesOf(s, pos) ==
  {e \in Touching(Free(s, pos), pos) : ~Avoids(s, e[1], e[2])}

LEMMA EdgesSymmetric ==
  ASSUME NEW s, NEW pos, NEW u \in Free(s, pos), NEW v \in Free(s, pos),
         <<u, v>> \in EdgesOf(s, pos)
  PROVE  <<v, u>> \in EdgesOf(s, pos)
<1>1. Adjacent(pos, u, v) /\ ~Avoids(s, u, v)
  BY DEF EdgesOf, Touching
<1>2. Adjacent(pos, v, u)
  <2>1. pos[u] \in Tile /\ pos[v] \in Tile /\ pos[u] - pos[v] \in -1..1
    BY <1>1 DEF Adjacent
  <2>2. pos[u] \in Int /\ pos[v] \in Int
    BY <2>1, ChatAssumption
  <2>3. pos[v] - pos[u] \in -1..1
    BY <2>1, <2>2
  <2>4. QED
    BY <2>1, <2>3 DEF Adjacent
<1>3. ~Avoids(s, v, u)
  BY <1>1 DEF Avoids
<1>4. QED
  BY <1>2, <1>3 DEF EdgesOf, Touching

LEMMA GroupsApart ==
  ASSUME NEW s, NEW pos
  PROVE  /\ \A g \in Groups(s, pos) :
              g \subseteq Free(s, pos) /\ Cardinality(g) >= 2 /\ g # {}
         /\ \A g, h \in Groups(s, pos) : \A u \in g : u \in h => g = h
         /\ \A u, v \in Free(s, pos) :
              u # v /\ <<u, v>> \in EdgesOf(s, pos) =>
                \E g \in Groups(s, pos) : u \in g
<1> DEFINE F == Free(s, pos)
           E == EdgesOf(s, pos)
<1>0. F \in SUBSET User
  BY DEF Free
<1>1. \A g : g \in Groups(s, pos) <=>
               \E u \in F : g = Component(F, E, u) /\ Cardinality(g) >= 2
  BY DEF Groups, Clusters, EdgesOf
<1>2. \A x, y \in F : <<x, y>> \in E => <<y, x>> \in E
  BY EdgesSymmetric
<1> HIDE DEF F, E
<1>3. ASSUME NEW g \in Groups(s, pos)
      PROVE  g \subseteq F /\ Cardinality(g) >= 2 /\ g # {}
  <2>1. PICK u \in F : g = Component(F, E, u) /\ Cardinality(g) >= 2
    BY <1>1
  <2>2. QED
    BY <1>0, <2>1, ComponentClosed
<1>4. ASSUME NEW g \in Groups(s, pos), NEW h \in Groups(s, pos),
             NEW w \in g, w \in h
      PROVE  g = h
  <2>1. PICK u \in F : g = Component(F, E, u)
    BY <1>1
  <2>2. PICK v \in F : h = Component(F, E, v)
    BY <1>1
  <2>3. QED
    BY <1>0, <1>2, <1>4, <2>1, <2>2, ClustersDisjoint
<1>5. ASSUME NEW u \in F, NEW v \in F, u # v, <<u, v>> \in E
      PROVE  \E g \in Groups(s, pos) : u \in g
  <2> DEFINE g == Component(F, E, u)
  <2>1. u \in g /\ g \subseteq F /\ Closed(F, E, g)
    BY <1>0, ComponentClosed
  <2> HIDE DEF g
  <2>2. v \in g
    BY <1>5, <2>1 DEF Closed
  <2>3. g \in SUBSET User /\ {u, v} \in SUBSET g
    BY <1>0, <2>1, <2>2
  <2>4. IsFiniteSet(g) /\ Cardinality(g) \in Nat
    BY <2>3, Companions
  <2>5. Cardinality({u, v}) >= 2
    <3>1. {u, v} \in SUBSET User
      BY <2>3
    <3>2. QED
      BY <1>5, <3>1, Companions
  <2>6. Cardinality({u, v}) \in Nat /\ Cardinality({u, v}) <= Cardinality(g)
    BY <2>3, <2>4, FS_Subset, Companions
  <2>7. Cardinality(g) >= 2
    BY <2>4, <2>5, <2>6
  <2>8. QED
    BY <1>1, <2>1, <2>7 DEF g
<1>6. QED
  BY <1>3, <1>4, <1>5 DEF F, E

LEMMA FormedGood ==
  ASSUME NEW s, Good(s), NEW pos, NEW name \in [Groups(s, pos) -> Unused(s)],
         \A g, h \in DOMAIN name : name[g] = name[h] => g = h
  PROVE  /\ Good(Formed(s, name))
         /\ Formed(s, name).avoid = s.avoid
         /\ Formed(s, name).apart = s.apart
         /\ \A i \in SessionId :
              \/ Formed(s, name).members[i] = s.members[i]
              \/ Formed(s, name).members[i] \in Groups(s, pos)
         /\ \A u \in User :
              \/ /\ Formed(s, name).of[u] = s.of[u]
                 /\ \A g \in Groups(s, pos) : u \notin g
              \/ /\ Formed(s, name).of[u] # NoSession
                 /\ u \in Free(s, pos)
<1> DEFINE G == Groups(s, pos)
           t == Formed(s, name)
           members == [i \in SessionId |->
                         IF \E g \in G : name[g] = i
                         THEN CHOOSE g \in G : name[g] = i
                         ELSE s.members[i]]
           of == [u \in User |-> IF \E g \in G : u \in g
                                 THEN name[CHOOSE g \in G : u \in g]
                                 ELSE s.of[u]]
<1>0. s \in Chat
  BY DEF Good
<1>1. t = [s EXCEPT !.members = members, !.of = of]
  BY DEF Formed
<1>2. /\ \A g \in G : g \subseteq Free(s, pos) /\ g \subseteq User
                      /\ Cardinality(g) >= 2 /\ g # {}
      /\ \A g, h \in G : \A u \in g : u \in h => g = h
  BY GroupsApart DEF Free
<1>3. \A g \in G : /\ name[g] \in SessionId /\ name[g] # NoSession
                   /\ s.members[name[g]] = {}
  BY ChatAssumption DEF Unused
<1>4. \A g, h \in G : name[g] = name[h] => g = h
  OBVIOUS
<1>5. \A u \in Free(s, pos) : u \in User /\ s.of[u] = NoSession
  BY DEF Free
<1> HIDE DEF G
<1>6. ASSUME NEW i \in SessionId
      PROVE  \/ members[i] \in G /\ name[members[i]] = i
             \/ members[i] = s.members[i] /\ \A g \in G : name[g] # i
  <2>1. CASE \E g \in G : name[g] = i
    <3>1. members[i] = CHOOSE g \in G : name[g] = i
      BY <2>1
    <3>2. QED
      BY <2>1, <3>1
  <2>2. CASE ~ \E g \in G : name[g] = i
    BY <2>2
  <2>3. QED
    BY <2>1, <2>2
<1>7. ASSUME NEW u \in User
      PROVE  \/ \E g \in G : u \in g /\ of[u] = name[g]
             \/ of[u] = s.of[u] /\ \A g \in G : u \notin g
  <2>1. CASE \E g \in G : u \in g
    <3>1. of[u] = name[CHOOSE g \in G : u \in g]
      BY <2>1
    <3>2. QED
      BY <2>1, <3>1
  <2>2. CASE ~ \E g \in G : u \in g
    BY <2>2
  <2>3. QED
    BY <2>1, <2>2
<1>8. DOMAIN members = SessionId /\ members = [i \in SessionId |-> members[i]]
      /\ of = [u \in User |-> of[u]]
  OBVIOUS
<1> HIDE DEF members, of
<1>9. members \in [SessionId -> SUBSET User]
  <2>1. \A i \in SessionId : members[i] \in SUBSET User
    BY <1>0, <1>2, <1>6 DEF Chat
  <2>2. QED
    BY <1>8, <2>1
<1>10. of \in [User -> SessionId \cup {NoSession}]
  <2>1. \A u \in User : of[u] \in SessionId \cup {NoSession}
    BY <1>0, <1>3, <1>7 DEF Chat
  <2>2. QED
    BY <1>8, <2>1
<1>11. /\ t \in Chat /\ t.members = members /\ t.of = of
       /\ t.avoid = s.avoid /\ t.apart = s.apart
  BY <1>0, <1>1, <1>9, <1>10 DEF Chat
<1>12. Indexed(t)
  <2> SUFFICES ASSUME NEW u \in User, NEW i \in SessionId
               PROVE  u \in members[i] <=> of[u] = i
    BY <1>11 DEF Indexed
  <2>1. u \in s.members[i] <=> s.of[u] = i
    BY DEF Good, Indexed
  <2>2. i # NoSession
    BY ChatAssumption
  <2>3. CASE \E g \in G : u \in g /\ of[u] = name[g]
    <3>1. PICK g \in G : u \in g /\ of[u] = name[g]
      BY <2>3
    <3>2. s.of[u] = NoSession
      BY <1>2, <1>5, <3>1
    <3>3. u \notin s.members[i]
      BY <2>1, <2>2, <3>2
    <3>4. CASE members[i] \in G /\ name[members[i]] = i
      BY <1>2, <1>4, <3>1, <3>4
    <3>5. CASE members[i] = s.members[i] /\ \A h \in G : name[h] # i
      BY <3>1, <3>3, <3>5
    <3>6. QED
      BY <1>6, <3>4, <3>5
  <2>4. CASE of[u] = s.of[u] /\ \A g \in G : u \notin g
    <3>1. CASE members[i] \in G /\ name[members[i]] = i
      <4>1. s.members[i] = {}
        BY <1>3, <3>1
      <4>2. QED
        BY <2>1, <2>4, <3>1, <4>1
    <3>2. CASE members[i] = s.members[i]
      BY <2>1, <2>4, <3>2
    <3>3. QED
      BY <1>6, <3>1, <3>2
  <2>5. QED
    BY <1>7, <2>3, <2>4
<1>13. Company(t)
  <2> SUFFICES ASSUME NEW i \in SessionId PROVE Cardinality(members[i]) # 1
    BY <1>11 DEF Company
  <2>1. CASE members[i] \in G
    <3>1. Cardinality(members[i]) >= 2
      BY <1>2, <2>1
    <3>2. QED
      BY <3>1
  <2>2. CASE members[i] = s.members[i]
    BY <2>2 DEF Good, Company
  <2>3. QED
    BY <1>6, <2>1, <2>2
<1>14. \A i \in SessionId : t.members[i] = s.members[i] \/ t.members[i] \in G
  BY <1>6, <1>11
<1>15. \A u \in User :
         \/ t.of[u] = s.of[u] /\ \A g \in G : u \notin g
         \/ t.of[u] # NoSession /\ u \in Free(s, pos)
  BY <1>2, <1>3, <1>7, <1>11
<1>16. QED
  BY <1>11, <1>12, <1>13, <1>14, <1>15 DEF Good, G

(***************************************************************************)
(* Leaving and being accepted                                              *)
(***************************************************************************)

LEMMA WithoutGood ==
  ASSUME NEW s, Good(s), NEW u \in User, s.of[u] # NoSession
  PROVE  /\ Good(Without(s, s.of[u], u))
         /\ Without(s, s.of[u], u).of[u] = NoSession
         /\ \A i \in SessionId \ {s.of[u]} :
              Without(s, s.of[u], u).members[i] = s.members[i]
<1> DEFINE j    == s.of[u]
           t    == Without(s, j, u)
           kept == s.members[j] \ {u}
           gone == IF Cardinality(kept) < 2 THEN {u} \cup kept ELSE {u}
           of   == [v \in User |-> IF v \in gone THEN NoSession ELSE s.of[v]]
<1>1. s \in Chat /\ j \in SessionId
  BY DEF Good, Chat
<1>2. t = [s EXCEPT !.members[j] = kept \ gone, !.of = of]
  BY DEF Without
<1>3. kept \subseteq User
  BY <1>1 DEF Chat
<1>4. /\ t \in Chat /\ t.of = of
      /\ t.members = [s.members EXCEPT ![j] = kept \ gone]
  <2>1. of \in [User -> SessionId \cup {NoSession}]
    <3> HIDE DEF gone
    <3>1. QED
      BY <1>1 DEF Chat
  <2> HIDE DEF t, of, kept, gone
  <2>2. QED
    BY <1>1, <1>2, <1>3, <2>1 DEF Chat
<1>5. \A v \in User, i \in SessionId : v \in s.members[i] <=> s.of[v] = i
  BY DEF Good, Indexed
<1>6. u \in gone /\ gone \subseteq s.members[j]
  BY <1>1, <1>5
<1>7. Indexed(t)
  <2> SUFFICES ASSUME NEW v \in User, NEW i \in SessionId
               PROVE  v \in t.members[i] <=> of[v] = i
    BY <1>4 DEF Indexed
  <2>1. i # NoSession
    BY ChatAssumption
  <2>2. s.members \in [SessionId -> SUBSET User]
    BY <1>1 DEF Chat
  <2>3. t.members[i] = IF i = j THEN kept \ gone ELSE s.members[i]
    <3> HIDE DEF kept, gone, t, j
    <3>1. QED
      BY <1>1, <1>4, <2>2
  <2>4. t.members[i] = s.members[i] \ gone
    <3>1. CASE i = j
      <4> HIDE DEF gone, t, j
      <4>1. QED
        BY <1>6, <2>3, <3>1
    <3>2. CASE i # j
      <4> HIDE DEF gone, t
      <4>1. \A w \in s.members[i] : w \notin gone
        BY <1>1, <1>6, <3>2, OneSession
      <4>2. QED
        BY <2>3, <3>2, <4>1
    <3>3. QED
      BY <3>1, <3>2
  <2> HIDE DEF gone, t, j
  <2>5. QED
    BY <1>5, <2>1, <2>4
<1>8. Company(t)
  <2> SUFFICES ASSUME NEW i \in SessionId PROVE Cardinality(t.members[i]) # 1
    BY DEF Company
  <2>1. s.members \in [SessionId -> SUBSET User]
    BY <1>1 DEF Chat
  <2>2. CASE i = j
    <3>1. t.members[i] = kept \ gone
      <4> HIDE DEF kept, gone, t, j
      <4>1. QED
        BY <1>1, <1>4, <2>1, <2>2
    <3>2. CASE Cardinality(kept) < 2
      <4>1. t.members[i] = {}
        BY <3>1, <3>2
      <4>2. QED
        BY <4>1, FS_EmptySet
    <3>3. CASE ~ (Cardinality(kept) < 2)
      <4>1. t.members[i] = kept
        BY <3>1, <3>3
      <4>2. QED
        BY <3>3, <4>1
    <3>4. QED
      BY <3>2, <3>3
  <2>3. CASE i # j
    <3>1. t.members[i] = s.members[i]
      <4> HIDE DEF kept, gone, t, j
      <4>1. QED
        BY <1>1, <1>4, <2>1, <2>3
    <3>2. QED
      BY <3>1 DEF Good, Company
  <2>4. QED
    BY <2>2, <2>3
<1>9. \A i \in SessionId \ {j} : t.members[i] = s.members[i]
  <2> HIDE DEF kept, gone, t, j
  <2>1. QED
    BY <1>1, <1>4 DEF Chat
<1>10. t.of[u] = NoSession
  <2> HIDE DEF gone, t
  <2>1. QED
    BY <1>4, <1>6
<1>11. QED
  BY <1>4, <1>7, <1>8, <1>9, <1>10 DEF Good

LEMMA AcceptedGood ==
  ASSUME NEW s, Good(s), NEW u \in User, s.of[u] = NoSession,
         NEW i \in SessionId, s.members[i] # {}
  PROVE  Good([s EXCEPT !.members[i] = @ \cup {u}, !.of[u] = i])
<1> DEFINE t == [s EXCEPT !.members[i] = @ \cup {u}, !.of[u] = i]
<1>1. s \in Chat
  BY DEF Good
<1>2. /\ t \in Chat
      /\ t.members = [s.members EXCEPT ![i] = s.members[i] \cup {u}]
      /\ t.of = [s.of EXCEPT ![u] = i]
  BY <1>1 DEF Chat
<1>3. s.members \in [SessionId -> SUBSET User]
      /\ s.of \in [User -> SessionId \cup {NoSession}]
  BY <1>1 DEF Chat
<1> HIDE DEF t
<1>4. \A v \in User, j \in SessionId : v \in s.members[j] <=> s.of[v] = j
  BY DEF Good, Indexed
<1>5. Indexed(t)
  BY <1>2, <1>3, <1>4, ChatAssumption DEF Indexed
<1>6. Company(t)
  <2> SUFFICES ASSUME NEW j \in SessionId PROVE Cardinality(t.members[j]) # 1
    BY DEF Company
  <2>1. CASE j # i
    BY <1>2, <1>3, <2>1 DEF Good, Company
  <2>2. CASE j = i
    <3>1. t.members[j] = s.members[i] \cup {u} /\ t.members[j] \in SUBSET User
      BY <1>2, <1>3, <2>2
    <3>2. u \notin s.members[i]
      BY <1>4, ChatAssumption
    <3>3. \A v \in t.members[j] : \E w \in t.members[j] : w # v
      BY <3>1, <3>2
    <3>4. QED
      BY <3>1, <3>3, Companions
  <2>3. QED
    BY <2>1, <2>2
<1>7. QED
  BY <1>2, <1>5, <1>6 DEF Good, t

(***************************************************************************)
(* The invariant                                                           *)
(***************************************************************************)

IndInv == TypeOK /\ Good(chat)

(* What a recomputation is made of: each pass on the result of the last.   *)
LEMMA RecomputePasses ==
  ASSUME IndInv, Recompute
  PROVE  /\ seen # Nothing /\ seen' = Nothing /\ place' = place
         /\ \E rejoined, name :
              LET aged       == Aged(chat)
                  maintained == Maintained(rejoined, seen)
                  kept       == Unsuppressed(maintained, seen)
              IN
              /\ Good(aged) /\ Good(rejoined) /\ Good(maintained) /\ Good(kept)
              /\ \E R \in Rejoins(aged, seen) : rejoined = Rejoined(aged, seen, R)
              /\ name \in [Groups(kept, seen) -> Unused(kept)]
              /\ \A g, h \in DOMAIN name : name[g] = name[h] => g = h
              /\ chat' = Formed(kept, name)
              /\ Good(chat')
<1> DEFINE aged == Aged(chat)
<1>1. seen # Nothing /\ seen' = Nothing /\ place' = place
  BY DEF Recompute
<1>2. PICK R \in Rejoins(aged, seen) :
         \E rejoined \in {Rejoined(aged, seen, R)} :
         \E maintained \in {Maintained(rejoined, seen)} :
         \E kept \in {Unsuppressed(maintained, seen)} :
         \E name \in [Groups(kept, seen) -> Unused(kept)] :
           /\ \A g, h \in DOMAIN name : name[g] = name[h] => g = h
           /\ chat' = Formed(kept, name)
  BY DEF Recompute
<1> DEFINE rejoined   == Rejoined(aged, seen, R)
           maintained == Maintained(rejoined, seen)
           kept       == Unsuppressed(maintained, seen)
<1>3. PICK name \in [Groups(kept, seen) -> Unused(kept)] :
           /\ \A g, h \in DOMAIN name : name[g] = name[h] => g = h
           /\ chat' = Formed(kept, name)
  BY <1>2
<1>4. Good(aged)
  BY AgedGood DEF IndInv
<1> HIDE DEF aged
<1>5. Good(rejoined)
  BY <1>4, RejoinedGood
<1> HIDE DEF rejoined
<1>6. Good(maintained)
  BY <1>5, MaintainedGood
<1> HIDE DEF maintained
<1>7. Good(kept)
  BY <1>6, UnsuppressedGood
<1> HIDE DEF kept
<1>8. Good(chat')
  <2>1. Good(Formed(kept, name))
    BY <1>3, <1>7, FormedGood
  <2>2. QED
    BY <1>3, <2>1
<1> USE DEF aged, rejoined, maintained, kept
<1>9. QED
  BY <1>1, <1>3, <1>4, <1>5, <1>6, <1>7, <1>8

LEMMA Initially == Init => IndInv
<1> SUFFICES ASSUME Init PROVE IndInv
  OBVIOUS
<1>1. TypeOK
  BY ChatAssumption DEF Init, TypeOK, Chat, NotApart
<1>2. Indexed(chat)
  BY ChatAssumption DEF Init, Indexed
<1>3. Company(chat)
  BY FS_EmptySet DEF Init, Company
<1>4. QED
  BY <1>1, <1>2, <1>3 DEF IndInv, Good, TypeOK

LEMMA StepKeeps == IndInv /\ [Next]_vars => IndInv'
<1> SUFFICES ASSUME IndInv, [Next]_vars PROVE IndInv'
  OBVIOUS
<1>g. Good(chat) /\ TypeOK
  BY DEF IndInv
<1>c. Good(chat') /\ place' \in [User -> Tile \cup {Away, Leaving, Offline}]
      /\ seen' \in [User -> Tile \cup {Away}] \cup {Nothing} => IndInv'
  BY DEF IndInv, Good, TypeOK, Indexed, Company, Chat
<1>1. ASSUME NEW u \in User, NEW t \in Roam[u] \cap Tile, Connect(u, t)
      PROVE  IndInv'
  BY <1>g, <1>c, <1>1 DEF Connect, TypeOK
<1>2. ASSUME NEW u \in User, NEW p \in Roam[u], Move(u, p) PROVE IndInv'
  <2>1. p \in Tile \cup {Away}
    BY ChatAssumption
  <2>2. QED
    BY <1>g, <1>c, <1>2, <2>1 DEF Move, TypeOK
<1>3. ASSUME NEW u \in User, Disconnect(u) PROVE IndInv'
  BY <1>g, <1>c, <1>3 DEF Disconnect, TypeOK
<1>4. ASSUME NEW u \in User, RemoveFromChat(u) PROVE IndInv'
  <2>1. Good(chat')
    BY <1>g, <1>4, WithoutGood DEF RemoveFromChat
  <2>2. QED
    BY <1>g, <1>c, <1>4, <2>1 DEF RemoveFromChat, TypeOK
<1>5. ASSUME NEW u \in User, Leave(u) PROVE IndInv'
  <2> DEFINE peers == chat.members[chat.of[u]] \ {u}
             left  == Without(chat, chat.of[u], u)
             avoid == IF peers = {} THEN chat.avoid[u] ELSE peers
  <2>1. Good(left)
    BY <1>g, <1>5, WithoutGood DEF Leave
  <2>2. avoid \in SUBSET User
    BY <1>g, <1>5 DEF Leave, Good, Chat
  <2>3. chat' = [left EXCEPT !.avoid[u] = avoid, !.apart[u] = NotApart,
                             !.from[u] = NoSession, !.since[u] = 0]
    BY <1>5 DEF Leave
  <2> HIDE DEF left, avoid
  <2>4. /\ chat' \in Chat /\ chat'.members = left.members
        /\ chat'.of = left.of
    <3>1. left \in Chat
      BY <2>1 DEF Good
    <3>2. NotApart \in NotApart..LeaveGrace /\ 0 \in 0..RejoinWindow
      BY ChatAssumption DEF NotApart
    <3> HIDE DEF NotApart
    <3>3. QED
      BY <2>2, <2>3, <3>1, <3>2 DEF Chat
  <2>5. Good(chat')
    BY <2>1, <2>4 DEF Good, Indexed, Company
  <2>6. QED
    BY <1>g, <1>c, <1>5, <2>5 DEF Leave, TypeOK
<1>6. ASSUME NEW u \in User, NEW i \in SessionId, Accept(i, u) PROVE IndInv'
  <2> DEFINE moved == IF chat.of[u] = NoSession THEN chat
                      ELSE Without(chat, chat.of[u], u)
  <2>1. Good(moved) /\ moved.of[u] = NoSession
    BY <1>g, WithoutGood
  <2>2. chat.of[u] # i
    BY <1>g, <1>6 DEF Accept, Good, Indexed
  <2>3. moved.members[i] # {}
    BY <1>g, <1>6, <2>2, WithoutGood DEF Accept
  <2>4. chat' = [moved EXCEPT !.members[i] = @ \cup {u}, !.of[u] = i]
    BY <1>6 DEF Accept
  <2> HIDE DEF moved
  <2>5. Good(chat')
    <3>1. Good([moved EXCEPT !.members[i] = @ \cup {u}, !.of[u] = i])
      BY <2>1, <2>3, AcceptedGood
    <3>2. QED
      BY <2>4, <3>1
  <2>6. QED
    BY <1>g, <1>c, <1>6, <2>5 DEF Accept, TypeOK
<1>7. ASSUME Snapshot PROVE IndInv'
  BY <1>g, <1>c, <1>7 DEF Snapshot, TypeOK
<1>8. ASSUME Recompute PROVE IndInv'
  BY <1>g, <1>c, <1>8, RecomputePasses DEF TypeOK
<1>9. CASE UNCHANGED vars
  BY <1>g, <1>c, <1>9 DEF vars, TypeOK
<1>10. QED
  BY <1>1, <1>2, <1>3, <1>4, <1>5, <1>6, <1>7, <1>8, <1>9 DEF Next

(* The places, the snapshot and the tables under chatSessionMu keep their  *)
(* types: a session has only users for members, and no timer runs over.    *)
THEOREM TypeCorrect == Spec => []TypeOK
<1>1. IndInv => TypeOK
  BY DEF IndInv
<1>2. QED
  BY Initially, StepKeeps, <1>1, PTL DEF Spec

(* Through disconnections, departures, acceptances and every pass of a     *)
(* tick, chatSessions and playerSession agree, nobody is in two sessions,  *)
(* and no session is left with a single member.                            *)
THEOREM SessionsArePartition == Spec => []SessionsPartition
<1>1. IndInv => SessionsPartition
  BY DEF IndInv, Good, Indexed, Company, SessionsPartition
<1>2. QED
  BY Initially, StepKeeps, <1>1, PTL DEF Spec

(***************************************************************************)
(* What a tick does                                                        *)
(***************************************************************************)

(* The only step that uses up a snapshot is a recomputation.               *)
LEMMA TickRecomputes ==
  ASSUME Next, Tick
  PROVE  Recompute
BY DEF Next, Tick, Connect, Move, Disconnect, RemoveFromChat, Leave, Accept,
       Snapshot

(* What pass 2 leaves free was free before, and in no group.               *)
LEMMA LeftFree ==
  ASSUME NEW s, Good(s), NEW name \in [Groups(s, seen) -> Unused(s)],
         \A g, h \in DOMAIN name : name[g] = name[h] => g = h,
         chat' = Formed(s, name), NEW u \in Free(chat', seen)
  PROVE  u \in Free(s, seen) /\ \A g \in Groups(s, seen) : u \notin g
<1>1. u \in User /\ seen[u] \in Tile /\ Formed(s, name).of[u] = NoSession
  BY DEF Free
<1>2. \/ /\ Formed(s, name).of[u] = s.of[u]
         /\ \A g \in Groups(s, seen) : u \notin g
      \/ Formed(s, name).of[u] # NoSession
  BY <1>1, FormedGood
<1>3. QED
  BY <1>1, <1>2 DEF Free

(* A tick that sees two users next to each other seats at least one of     *)
(* them, or one avoids the other: a free user with a free neighbour is in a*)
(* component of two or more, whatever passes 0 and 1 have just freed.      *)
THEOREM NeighboursMeet == Spec => FreeNeighboursMeet
<1>1. IndInv /\ [Next]_vars =>
        [Tick => \A u, v \in Free(chat', seen) :
           u < v /\ Adjacent(seen, u, v) => Avoids(chat', u, v)]_vars
  <2> SUFFICES ASSUME IndInv, Next, Tick,
                      NEW u \in Free(chat', seen), NEW v \in Free(chat', seen),
                      u < v, Adjacent(seen, u, v)
               PROVE  Avoids(chat', u, v)
    OBVIOUS
  <2>1. Recompute
    BY TickRecomputes
  <2>2. PICK s, name :
          /\ Good(s)
          /\ name \in [Groups(s, seen) -> Unused(s)]
          /\ \A g, h \in DOMAIN name : name[g] = name[h] => g = h
          /\ chat' = Formed(s, name)
    <3>1. PICK rejoined, name :
            LET s == Unsuppressed(Maintained(rejoined, seen), seen) IN
            /\ Good(s)
            /\ name \in [Groups(s, seen) -> Unused(s)]
            /\ \A g, h \in DOMAIN name : name[g] = name[h] => g = h
            /\ chat' = Formed(s, name)
      BY <2>1, RecomputePasses
    <3>2. QED
      BY <3>1
  <2>3. /\ u \in Free(s, seen) /\ v \in Free(s, seen)
        /\ \A g \in Groups(s, seen) : u \notin g
    BY <2>2, LeftFree
  <2>4. u # v
    <3>1. u \in Nat /\ v \in Nat
      BY <2>3, ChatAssumption DEF Free
    <3>2. QED
      BY <3>1
  <2>5. <<u, v>> \notin EdgesOf(s, seen)
    BY <2>3, <2>4, GroupsApart
  <2>6. Avoids(s, u, v)
    BY <2>3, <2>5 DEF EdgesOf, Touching
  <2>7. chat'.avoid = s.avoid
    BY <2>2, FormedGood
  <2>8. QED
    BY <2>6, <2>7 DEF Avoids
<1>2. QED
  BY Initially, StepKeeps, <1>1, PTL DEF Spec, FreeNeighboursMeet

(* A session that a tick makes of two users is not made of a leaver and a  *)
(* peer it avoids: a component of two needs the edge between them.         *)
THEOREM LeaverStaysApart == Spec => LeaverNotPairedAgain
<1>1. IndInv /\ [Next]_vars =>
        [Tick => \A u \in User : \A v \in chat'.avoid[u] : \A i \in SessionId :
           chat'.members[i] = {u, v} => chat.members[i] # {}]_vars
  <2> SUFFICES ASSUME IndInv, Next, Tick, NEW u \in User,
                      NEW v \in chat'.avoid[u], NEW i \in SessionId,
                      chat'.members[i] = {u, v}, chat.members[i] = {}
               PROVE  FALSE
    OBVIOUS
  <2>1. Recompute
    BY TickRecomputes
  <2>2. PICK rejoined, name :
              LET aged       == Aged(chat)
                  maintained == Maintained(rejoined, seen)
                  kept       == Unsuppressed(maintained, seen)
              IN
              /\ Good(aged) /\ Good(rejoined) /\ Good(maintained) /\ Good(kept)
              /\ \E R \in Rejoins(aged, seen) : rejoined = Rejoined(aged, seen, R)
              /\ name \in [Groups(kept, seen) -> Unused(kept)]
              /\ \A g, h \in DOMAIN name : name[g] = name[h] => g = h
              /\ chat' = Formed(kept, name)
    BY <2>1, RecomputePasses
  <2> DEFINE s == Unsuppressed(Maintained(rejoined, seen), seen)
             F == Free(s, seen)
             E == EdgesOf(s, seen)
  <2>3. s.members[i] = {}
    <3>1. Aged(chat).members[i] = {}
      BY AgedGood DEF IndInv
    <3>2. rejoined.members[i] = {}
      BY <2>2, <3>1, RejoinedGood
    <3>3. Maintained(rejoined, seen).members[i] = {}
      BY <2>2, <3>2, MaintainedGood
    <3>4. QED
      BY <2>2, <3>3, UnsuppressedGood
  <2>4. /\ Good(s)
        /\ name \in [Groups(s, seen) -> Unused(s)]
        /\ \A g, h \in DOMAIN name : name[g] = name[h] => g = h
        /\ chat' = Formed(s, name)
    BY <2>2
  <2> HIDE DEF s
  <2>5. {u, v} \in Groups(s, seen) /\ chat'.avoid = s.avoid
    <3>1. \/ Formed(s, name).members[i] = s.members[i]
          \/ Formed(s, name).members[i] \in Groups(s, seen)
      BY <2>4, FormedGood
    <3>2. {u, v} \in Groups(s, seen)
      BY <2>3, <2>4, <3>1
    <3>3. Formed(s, name).avoid = s.avoid
      BY <2>4, FormedGood
    <3>4. QED
      BY <2>4, <3>2, <3>3
  <2>6. PICK w \in F : {u, v} = Component(F, E, w) /\ Cardinality({u, v}) >= 2
    BY <2>5 DEF Groups, Clusters, EdgesOf
  <2>7. F \in SUBSET User
    BY DEF Free
  <2>8. <<u, v>> \notin E /\ <<v, u>> \notin E
    BY <2>5 DEF EdgesOf, Avoids
  <2>9. w \in {u, v} /\ {u, v} \subseteq F /\ Closed(F, E, {u, v})
    BY <2>6, <2>7, ComponentClosed
  <2>10. Closed(F, E, {w})
    BY <2>8, <2>9 DEF Closed
  <2>11. {u, v} \subseteq {w}
    BY <2>6, <2>7, <2>10, ComponentLeast
  <2>12. {u, v} = {w}
    BY <2>9, <2>11
  <2>13. Cardinality({w}) = 1 /\ Cardinality({u, v}) = Cardinality({w})
    BY <2>12, FS_Singleton
  <2>14. QED
    BY <2>6, <2>13
<1>2. QED
  BY Initially, StepKeeps, <1>1, PTL DEF Spec, LeaverNotPairedAgain

(* The largest group of a session has only members on the floor.           *)
LEMMA LargestStands ==
  ASSUME NEW M \in SUBSET User, NEW pos
  PROVE  Largest(M, pos) \subseteq Standing(M, pos)
<1> DEFINE S == Standing(M, pos)
           C == Clusters(S, Touching(S, pos))
           Wins(c) == \A d \in C :
                        \/ Cardinality(d) < Cardinality(c)
                        \/ /\ Cardinality(d) = Cardinality(c)
                           /\ Lowest(c) <= Lowest(d)
<1>1. S \in SUBSET User
  BY DEF Standing
<1>2. ASSUME NEW c \in C
      PROVE  /\ c \subseteq S /\ c # {}
             /\ Cardinality(c) \in Nat /\ Cardinality(c) <= Cardinality(S)
             /\ Lowest(c) \in Nat
  <2>1. PICK u \in S : c = Component(S, Touching(S, pos), u)
    BY DEF Clusters
  <2>2. u \in c /\ c \subseteq S
    BY <1>1, <2>1, ComponentClosed
  <2>3. Cardinality(c) \in Nat /\ Cardinality(c) <= Cardinality(S)
    BY <1>1, <2>2, Companions, FS_Subset
  <2>4. c \in SUBSET Nat /\ c # {}
    BY <1>1, <2>2, ChatAssumption
  <2>5. \E x \in c : \A y \in c : x <= y
    BY <2>4, LeastNumber
  <2>6. Lowest(c) \in c
    BY <2>5 DEF Lowest
  <2>7. QED
    BY <2>2, <2>3, <2>4, <2>6
<1>3. CASE S = {}
  BY <1>3 DEF Largest
<1>4. CASE S # {}
  <2>1. C # {}
    BY <1>4 DEF Clusters
  <2>2. Cardinality(S) \in Nat
    BY <1>1, Companions
  <2> HIDE DEF S, C
  <2> DEFINE Short(c) == Cardinality(S) - Cardinality(c)
             Shorts == {Short(c) : c \in C}
  <2>3. PICK n \in Shorts : \A m \in Shorts : n <= m
    <3>1. Shorts \in SUBSET Nat
      BY <1>2, <2>2
    <3>2. Shorts # {}
      BY <2>1
    <3> HIDE DEF Shorts
    <3>3. QED
      BY <3>1, <3>2, LeastNumber
  <2>4. PICK b \in C : n = Short(b)
    BY <2>3
  <2>5. \A d \in C : Cardinality(d) <= Cardinality(b)
    <3> SUFFICES ASSUME NEW d \in C PROVE Cardinality(d) <= Cardinality(b)
      OBVIOUS
    <3>1. Short(b) <= Short(d)
      BY <2>3, <2>4
    <3>2. QED
      BY <1>2, <2>2, <3>1
  <2> DEFINE Longest == {c \in C : Cardinality(c) = Cardinality(b)}
             Lows == {Lowest(c) : c \in Longest}
  <2>6. PICK l \in Lows : \A m \in Lows : l <= m
    <3>1. Lows \in SUBSET Nat /\ Lows # {}
      BY <1>2
    <3> HIDE DEF Lows
    <3>2. QED
      BY <3>1, LeastNumber
  <2>7. PICK w \in Longest : l = Lowest(w)
    BY <2>6
  <2>8. Wins(w)
    <3> SUFFICES ASSUME NEW d \in C
                 PROVE  \/ Cardinality(d) < Cardinality(w)
                        \/ /\ Cardinality(d) = Cardinality(w)
                           /\ Lowest(w) <= Lowest(d)
      OBVIOUS
    <3>1. CASE Cardinality(d) = Cardinality(b)
      BY <2>6, <2>7, <3>1
    <3>2. CASE Cardinality(d) # Cardinality(b)
      BY <1>2, <2>5, <2>7, <3>2
    <3>3. QED
      BY <3>1, <3>2
  <2>9. Largest(M, pos) = CHOOSE c \in C : Wins(c)
    BY <1>4 DEF Largest, S, C
  <2> HIDE DEF Wins
  <2>10. Largest(M, pos) \in C
    BY <2>7, <2>8, <2>9
  <2>11. QED
    BY <1>2, <2>10 DEF S
<1>5. QED
  BY <1>3, <1>4

(* A member that the tick does not see on the floor leaves its session or  *)
(* comes one tick nearer to the end of its grace: it is in no group, so    *)
(* pass 1 lets the timer run, and removes it when the grace is over.       *)
THEOREM AbsenceEnds == Spec => AbsentMembersLeave
<1>1. IndInv /\ [Next]_vars =>
        [Tick => \A u \in {w \in User : seen[w] = Away} :
           chat.of[u] # NoSession /\ chat'.of[u] = chat.of[u] =>
             chat.apart[u] < chat'.apart[u] /\ chat'.apart[u] < LeaveGrace]_vars
  <2> SUFFICES ASSUME IndInv, Next, Tick,
                      NEW u \in User, seen[u] = Away,
                      chat.of[u] # NoSession, chat'.of[u] = chat.of[u]
               PROVE  chat.apart[u] < chat'.apart[u] /\ chat'.apart[u] < LeaveGrace
    OBVIOUS
  <2>1. Recompute
    BY TickRecomputes
  <2>2. PICK rejoined, name :
              LET aged       == Aged(chat)
                  maintained == Maintained(rejoined, seen)
                  kept       == Unsuppressed(maintained, seen)
              IN
              /\ Good(aged) /\ Good(rejoined) /\ Good(maintained) /\ Good(kept)
              /\ \E R \in Rejoins(aged, seen) : rejoined = Rejoined(aged, seen, R)
              /\ name \in [Groups(kept, seen) -> Unused(kept)]
              /\ \A g, h \in DOMAIN name : name[g] = name[h] => g = h
              /\ chat' = Formed(kept, name)
    BY <2>1, RecomputePasses
  <2> DEFINE m == Maintained(rejoined, seen)
             s == Unsuppressed(m, seen)
             i == chat.of[u]
  <2>3. seen[u] \notin Tile
    BY ChatAssumption
  <2>4. rejoined.of[u] = i /\ rejoined.apart[u] = Aged(chat).apart[u]
    <3>1. PICK R \in Rejoins(Aged(chat), seen) :
                 rejoined = Rejoined(Aged(chat), seen, R)
      BY <2>2
    <3>2. /\ rejoined.of[u] = Aged(chat).of[u]
          /\ rejoined.apart[u] = Aged(chat).apart[u]
      BY <2>2, <2>3, <3>1, RejoinedGood
    <3>3. QED
      BY <3>2, AgedGood DEF IndInv
  <2>5. s.of[u] = i /\ chat'.apart[u] = s.apart[u]
    <3>1. u \notin Free(s, seen)
      BY <2>3 DEF Free
    <3>2. Formed(s, name).of[u] = s.of[u] /\ Formed(s, name).apart = s.apart
      BY <2>2, <3>1, FormedGood
    <3>3. QED
      BY <2>2, <3>2
  <2>6. m.of[u] = i /\ chat'.apart[u] = m.apart[u]
    BY <2>2, <2>5, UnsuppressedGood
  <2>7. u \notin Expired(rejoined, seen, i)
        /\ chat'.apart[u] = TimerOf(rejoined, seen, u)
    BY <2>2, <2>6, MaintainedGood
  <2>8. i \in SessionId /\ u \in rejoined.members[i]
        /\ rejoined.members[i] \in SUBSET User
    BY <2>2, <2>4 DEF IndInv, Good, Chat, Indexed
  <2>9. u \notin Largest(rejoined.members[i], seen)
    BY <2>3, <2>8, LargestStands DEF Standing
  <2> DEFINE a == rejoined.apart[u]
  <2>10. ~ (a # NotApart /\ a >= Grace(rejoined.members[i]))
    BY <2>7, <2>8, <2>9 DEF Expired
  <2>11. chat'.apart[u] = IF a = NotApart THEN 0 ELSE a
    <3> DEFINE j == CHOOSE k \in SessionId : u \in rejoined.members[k]
    <3>1. j \in SessionId /\ u \in rejoined.members[j]
      BY <2>8
    <3>2. j = i
      BY <2>2, <2>8, <3>1, OneSession
    <3>3. u \notin Largest(rejoined.members[j], seen)
      BY <2>9, <3>2
    <3> HIDE DEF i
    <3>4. QED
      BY <2>7, <3>3 DEF TimerOf
  <2>12. a = IF chat.apart[u] \in {NotApart, LeaveGrace}
             THEN chat.apart[u] ELSE chat.apart[u] + 1
    BY <2>4, AgedGood DEF IndInv
  <2>13. chat.apart[u] \in NotApart..LeaveGrace
    BY DEF IndInv, Good, Chat
  <2>14. Grace(rejoined.members[i]) \in 0..LeaveGrace
    BY ChatAssumption DEF Grace
  <2> HIDE DEF a, i
  <2>15. QED
    BY <2>10, <2>11, <2>12, <2>13, <2>14, ChatAssumption DEF NotApart
<1>2. QED
  BY Initially, StepKeeps, <1>1, PTL DEF Spec, AbsentMembersLeave

=============================================================================
