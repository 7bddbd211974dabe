--------------------------- MODULE ChatFanoutProofs ---------------------------
(***************************************************************************)
(* What holds of ChatFanout for any users, any guests among them, any      *)
(* session IDs and any number of changes.                                  *)
(*                                                                         *)
(* The inductive invariant is IndInv.  A client that has not been sent the *)
(* sessions as they are is still going to be: it is in the todo of a       *)
(* broadcast that carries them, or register has not greeted it yet, or has *)
(* just taken the snapshot for it (NewsUnderWay).  Unless the last change  *)
(* overtook an older broadcast, all that is being sent is the sessions as  *)
(* they are (NewsIsCurrent), so nothing older can undo what a client shows *)
(* (ToldShowIt).                                                           *)
(***************************************************************************)
EXTENDS ChatFanout, TLAPS

(* g is broadcasting the sessions as they are and has yet to get to u.     *)
Carries(g, u) ==
  pc[g] \in {"spread", "leave"} /\ u \in todo[g] /\ news[g] = sessions

(* register will send u the sessions as they are.                          *)
Greeting(u) ==
  pc[u] = "greet" \/ (pc[u] = "welcome" /\ news[u] = sessions)

NewsUnderWay ==
  \A u \in clients \ told : Greeting(u) \/ \E g \in Goroutine : Carries(g, u)

NewsIsCurrent ==
  ~overlapped => \A g \in Goroutine : Sending(g) => news[g] = sessions

ToldShowIt ==
  ~overlapped => \A u \in told : shown[u] = sessions

IndInv == TypeOK /\ NewsUnderWay /\ NewsIsCurrent /\ ToldShowIt

(***************************************************************************)
(* Types                                                                   *)
(***************************************************************************)

LEMMA WithoutType ==
  ASSUME TypeOK, NEW u \in User
  PROVE  Without(u) \in State
BY DEF TypeOK, Without, State

(* What a critical section of chatSessionMu assigns has the right type.    *)
LEMMA ChangeTypes ==
  ASSUME TypeOK, NEW g \in Goroutine, NEW next \in State, NEW audience \in SUBSET User,
         NEW label \in {"spread", "leave"}, Change(g, next, audience, label)
  PROVE  /\ sessions' \in State /\ news' \in [Goroutine -> State]
         /\ todo' \in [Goroutine -> SUBSET User]
         /\ pc' \in [Goroutine -> {"off", "greet", "welcome", "reading", "spread", "leave"}]
         /\ changes' \in 0..MaxChanges /\ told' \subseteq User /\ overlapped' \in BOOLEAN
<1> USE FanoutAssumption DEF TypeOK, Change, Goto
<1>1. CASE next = sessions
  BY <1>1
<1>2. CASE next # sessions
  <2>1. overlapped' \in BOOLEAN
    BY <1>2 DEF Sending
  <2>2. changes' \in 0..MaxChanges
    BY <1>2
  <2>3. QED
    BY <1>2, <2>1, <2>2
<1>3. QED
  BY <1>1, <1>2

LEMMA Types ==
  ASSUME TypeOK, [Next]_vars
  PROVE  TypeOK'
<1> USE FanoutAssumption DEF Goroutine
<1>1. ASSUME NEW u \in User, Register(u) PROVE TypeOK'
  BY <1>1 DEF TypeOK, Register, Goto, State, Empty
<1>2. ASSUME NEW u \in User, Greet(u) PROVE TypeOK'
  BY <1>2 DEF TypeOK, Greet, Goto
<1>3. ASSUME NEW u \in User, Welcome(u) PROVE TypeOK'
  BY <1>3 DEF TypeOK, Welcome, Receive, Goto, State, Empty
<1>4. ASSUME NEW u \in User, Disconnect(u) PROVE TypeOK'
  <2>1. clients' \in SUBSET User
    BY <1>4 DEF TypeOK, Disconnect
  <2>2. CASE InSession(u)
    <3>1. Change(u, Without(u), clients', "leave")
      BY <1>4, <2>2 DEF Disconnect
    <3>2. QED
      BY <1>4, <2>1, <3>1, WithoutType, ChangeTypes DEF TypeOK, Disconnect
  <2>3. CASE ~InSession(u)
    BY <1>4, <2>1, <2>3 DEF TypeOK, Disconnect, Goto
  <2>4. QED
    BY <2>2, <2>3
<1>5. ASSUME NEW u \in User, Leave(u) PROVE TypeOK'
  <2>1. clients \in SUBSET User
    BY DEF TypeOK
  <2>2. QED
    BY <1>5, <2>1, WithoutType, ChangeTypes DEF TypeOK, Leave
<1>6. ASSUME NEW u \in User, TickRemoves(u) PROVE TypeOK'
  <2>1. clients \in SUBSET User
    BY DEF TypeOK
  <2>2. QED
    BY <1>6, <2>1, WithoutType, ChangeTypes DEF TypeOK, TickRemoves
<1>7. ASSUME NEW m \in User, NEW u \in User, NEW i \in Session, Add(m, u, i) PROVE TypeOK'
  <2>1. clients \in SUBSET User
    BY DEF TypeOK
  <2>2. [Without(u) EXCEPT ![i] = @ \cup {u}] \in State
    BY WithoutType DEF State
  <2>3. QED
    BY <1>7, <2>1, <2>2, ChangeTypes DEF TypeOK, Add
<1>8. ASSUME NEW i \in Session, NEW S \in SUBSET User, TickForms(i, S) PROVE TypeOK'
  <2>1. clients \in SUBSET User
    BY DEF TypeOK
  <2>2. [sessions EXCEPT ![i] = S] \in State
    BY DEF State, TypeOK
  <2>3. QED
    BY <1>8, <2>1, <2>2, ChangeTypes DEF TypeOK, TickForms
<1>9. ASSUME NEW g \in Goroutine, Spread(g) PROVE TypeOK'
  BY <1>9 DEF TypeOK, Spread, Goto, State, Empty
<1>10. ASSUME NEW g \in Goroutine, NEW d \in User, SpreadTo(g, d) PROVE TypeOK'
  BY <1>10 DEF TypeOK, SpreadTo, Receive, State
<1>11. CASE UNCHANGED vars
  BY <1>11 DEF TypeOK, vars
<1>12. QED
  BY <1>1, <1>2, <1>3, <1>4, <1>5, <1>6, <1>7, <1>8, <1>9, <1>10, <1>11 DEF Next

(***************************************************************************)
(* A change of the sessions                                                *)
(***************************************************************************)

Delivery == NewsUnderWay /\ NewsIsCurrent /\ ToldShowIt

(* A goroutine that was reading makes the sessions `next` and tells all who*)
(* are clients after it: nobody is forgotten, and an older broadcast still *)
(* under way is owned up to.                                               *)
LEMMA ChangesDeliver ==
  ASSUME IndInv, NEW g \in Goroutine, NEW next, NEW label \in {"spread", "leave"},
         pc[g] = "reading", clients' \subseteq clients, UNCHANGED shown,
         Change(g, next, clients', label)
  PROVE  Delivery'
<1> USE DEF IndInv, TypeOK, Delivery, NewsUnderWay, NewsIsCurrent, ToldShowIt
<1>1. CASE next = sessions
  <2>1. UNCHANGED <<sessions, news, todo, told, overlapped, pc, shown>>
    BY <1>1 DEF Change
  <2>2. QED
    BY <2>1 DEF Greeting, Carries, Sending, Goroutine
<1>2. CASE next # sessions
  <2>1. /\ sessions' = next /\ told' = {}
        /\ news' = [news EXCEPT ![g] = next]
        /\ todo' = [todo EXCEPT ![g] = clients']
        /\ overlapped' = \E h \in Goroutine : Sending(h)
        /\ pc' = [pc EXCEPT ![g] = label]
    BY <1>2 DEF Change, Goto
  <2>2. ASSUME NEW u \in clients' PROVE Carries(g, u)'
    BY <2>1 DEF Carries
  <2>3. ASSUME ~overlapped', NEW h \in Goroutine, Sending(h)' PROVE news'[h] = sessions'
    <3>1. ~Sending(h)
      BY <2>1, <2>3
    <3>2. h = g
      BY <2>1, <2>3, <3>1 DEF Sending
    <3>3. QED
      BY <2>1, <3>2
  <2>4. QED
    BY <2>1, <2>2, <2>3
<1>3. QED
  BY <1>1, <1>2

(***************************************************************************)
(* The steps of the delivery                                               *)
(***************************************************************************)

LEMMA Deliver ==
  ASSUME IndInv, [Next]_vars
  PROVE  Delivery'
<1> USE FanoutAssumption DEF Goroutine
<1>1. ASSUME NEW u \in User, Register(u) PROVE Delivery'
  <2> USE <1>1 DEF IndInv, TypeOK, Register, Goto
  <2>1. ASSUME NEW d \in clients' \ told'
        PROVE  Greeting(d)' \/ \E g \in Goroutine : Carries(g, d)'
    <3>1. CASE d = u
      BY <3>1 DEF Greeting
    <3>2. CASE d # u /\ Greeting(d)
      BY <3>2 DEF Greeting
    <3>3. ASSUME NEW g \in Goroutine, Carries(g, d), d # u PROVE Carries(g, d)'
      <4>1. g # u
        BY <3>3 DEF Carries
      <4>2. d \in todo'[g]
        BY <3>3 DEF Carries
      <4>3. QED
        BY <3>3, <4>1, <4>2 DEF Carries
    <3>4. QED
      BY <2>1, <3>1, <3>2, <3>3 DEF NewsUnderWay
  <2>2. NewsIsCurrent'
    BY DEF NewsIsCurrent, Sending
  <2>3. ToldShowIt'
    BY DEF ToldShowIt
  <2>4. QED
    BY <2>1, <2>2, <2>3 DEF Delivery, NewsUnderWay
<1>2. ASSUME NEW u \in User, Greet(u) PROVE Delivery'
  <2> USE <1>2 DEF IndInv, TypeOK, Greet, Goto
  <2>1. ASSUME NEW d \in clients' \ told'
        PROVE  Greeting(d)' \/ \E g \in Goroutine : Carries(g, d)'
    <3>1. CASE Greeting(d)
      BY <3>1 DEF Greeting
    <3>2. ASSUME NEW g \in Goroutine, Carries(g, d) PROVE Carries(g, d)'
      BY <3>2 DEF Carries
    <3>3. QED
      BY <2>1, <3>1, <3>2 DEF NewsUnderWay
  <2>2. NewsIsCurrent'
    BY DEF NewsIsCurrent, Sending
  <2>3. ToldShowIt'
    BY DEF ToldShowIt
  <2>4. QED
    BY <2>1, <2>2, <2>3 DEF Delivery, NewsUnderWay
<1>3. ASSUME NEW u \in User, Welcome(u) PROVE Delivery'
  <2> USE <1>3 DEF IndInv, TypeOK, Welcome, Goto, Receive
  <2>1. ASSUME NEW d \in clients' \ told'
        PROVE  Greeting(d)' \/ \E g \in Goroutine : Carries(g, d)'
    <3>0. d \in clients \ told
      BY <2>1
    <3>1. CASE Greeting(d)
      <4>1. d # u
        BY <2>1, <3>1 DEF Greeting
      <4>2. QED
        BY <3>1, <4>1 DEF Greeting
    <3>2. ASSUME NEW g \in Goroutine, Carries(g, d) PROVE Carries(g, d)'
      BY <3>2 DEF Carries
    <3>3. QED
      BY <3>0, <3>1, <3>2 DEF NewsUnderWay
  <2>2. NewsIsCurrent'
    BY DEF NewsIsCurrent, Sending
  <2>3. ToldShowIt'
    <3>1. ~overlapped => news[u] = sessions
      BY DEF NewsIsCurrent, Sending
    <3>2. QED
      BY <3>1 DEF ToldShowIt
  <2>4. QED
    BY <2>1, <2>2, <2>3 DEF Delivery, NewsUnderWay
<1>4. ASSUME NEW u \in User, Disconnect(u) PROVE Delivery'
  <2>1. clients' \subseteq clients /\ UNCHANGED shown /\ pc[u] = "reading"
    BY <1>4 DEF Disconnect
  <2>2. CASE InSession(u)
    <3>1. Change(u, Without(u), clients', "leave")
      BY <1>4, <2>2 DEF Disconnect
    <3>2. QED
      BY <2>1, <3>1, ChangesDeliver
  <2>3. CASE ~InSession(u)
    <3>1. /\ UNCHANGED <<sessions, news, todo, told, overlapped, shown>>
          /\ pc' = [pc EXCEPT ![u] = "off"]
      BY <1>4, <2>3 DEF Disconnect, Goto
    <3>2. NewsUnderWay'
      BY <2>1, <3>1 DEF IndInv, TypeOK, NewsUnderWay, Greeting, Carries
    <3>3. NewsIsCurrent' /\ ToldShowIt'
      BY <2>1, <3>1 DEF IndInv, TypeOK, NewsIsCurrent, ToldShowIt, Sending
    <3>4. QED
      BY <3>2, <3>3 DEF Delivery
  <2>4. QED
    BY <2>2, <2>3
<1>5. ASSUME NEW u \in User, Leave(u) PROVE Delivery'
  <2>1. clients' = clients
    BY <1>5 DEF Leave
  <2>2. Change(u, Without(u), clients', "spread")
    BY <1>5, <2>1 DEF Leave
  <2>3. QED
    BY <1>5, <2>1, <2>2, ChangesDeliver DEF Leave
<1>6. ASSUME NEW u \in User, TickRemoves(u) PROVE Delivery'
  <2>1. clients' = clients
    BY <1>6 DEF TickRemoves
  <2>2. Change(Ticker, Without(u), clients', "spread")
    BY <1>6, <2>1 DEF TickRemoves
  <2>3. QED
    BY <1>6, <2>1, <2>2, ChangesDeliver DEF TickRemoves
<1>7. ASSUME NEW m \in User, NEW u \in User, NEW i \in Session, Add(m, u, i) PROVE Delivery'
  <2>1. clients' = clients
    BY <1>7 DEF Add
  <2>2. Change(m, [Without(u) EXCEPT ![i] = @ \cup {u}], clients', "spread")
    BY <1>7, <2>1 DEF Add
  <2>3. QED
    BY <1>7, <2>1, <2>2, ChangesDeliver DEF Add
<1>8. ASSUME NEW i \in Session, NEW S \in SUBSET User, TickForms(i, S) PROVE Delivery'
  <2>1. clients' = clients
    BY <1>8 DEF TickForms
  <2>2. Change(Ticker, [sessions EXCEPT ![i] = S], clients', "spread")
    BY <1>8, <2>1 DEF TickForms
  <2>3. QED
    BY <1>8, <2>1, <2>2, ChangesDeliver DEF TickForms
<1>9. ASSUME NEW g \in Goroutine, Spread(g) PROVE Delivery'
  <2> USE <1>9 DEF IndInv, TypeOK, Spread, Goto
  <2>1. ASSUME NEW d \in clients' \ told'
        PROVE  Greeting(d)' \/ \E h \in Goroutine : Carries(h, d)'
    <3>1. CASE Greeting(d)
      BY <3>1 DEF Greeting
    <3>2. ASSUME NEW h \in Goroutine, Carries(h, d) PROVE Carries(h, d)'
      BY <3>2 DEF Carries
    <3>3. QED
      BY <2>1, <3>1, <3>2 DEF NewsUnderWay
  <2>2. NewsIsCurrent'
    BY DEF NewsIsCurrent, Sending
  <2>3. ToldShowIt'
    BY DEF ToldShowIt
  <2>4. QED
    BY <2>1, <2>2, <2>3 DEF Delivery, NewsUnderWay
<1>10. ASSUME NEW g \in Goroutine, NEW d \in User, SpreadTo(g, d) PROVE Delivery'
  <2> USE <1>10 DEF IndInv, TypeOK, SpreadTo, Receive
  <2>1. ASSUME NEW e \in clients' \ told'
        PROVE  Greeting(e)' \/ \E h \in Goroutine : Carries(h, e)'
    <3>0. e \in clients \ told
      BY <2>1
    <3>1. CASE Greeting(e)
      BY <3>1 DEF Greeting
    <3>2. ASSUME NEW h \in Goroutine, Carries(h, e) PROVE Carries(h, e)'
      <4>1. ~(h = g /\ e = d)
        BY <2>1, <3>2 DEF Carries
      <4>2. QED
        BY <3>2, <4>1 DEF Carries
    <3>3. QED
      BY <3>0, <3>1, <3>2 DEF NewsUnderWay
  <2>2. NewsIsCurrent'
    BY DEF NewsIsCurrent, Sending
  <2>3. ToldShowIt'
    <3>1. ~overlapped => news[g] = sessions
      BY DEF NewsIsCurrent, Sending
    <3>2. QED
      BY <3>1 DEF ToldShowIt
  <2>4. QED
    BY <2>1, <2>2, <2>3 DEF Delivery, NewsUnderWay
<1>11. CASE UNCHANGED vars
  BY <1>11 DEF vars, IndInv, Delivery, NewsUnderWay, NewsIsCurrent, ToldShowIt,
               Greeting, Carries, Sending
<1>12. QED
  BY <1>1, <1>2, <1>3, <1>4, <1>5, <1>6, <1>7, <1>8, <1>9, <1>10, <1>11
     DEF Next, IndInv

(***************************************************************************)
(* The theorems                                                            *)
(***************************************************************************)

LEMMA Initially ==
  ASSUME Init
  PROVE  IndInv
<1> USE FanoutAssumption DEF Init
<1>1. TypeOK
  <2>1. Empty \in State
    BY DEF State, Empty
  <2>2. pc \in [Goroutine -> {"off", "greet", "welcome", "reading", "spread", "leave"}]
    OBVIOUS
  <2>3. clients \subseteq User /\ told \subseteq User /\ used \subseteq Session
    OBVIOUS
  <2>4. todo \in [Goroutine -> SUBSET User]
    OBVIOUS
  <2>5. news \in [Goroutine -> State] /\ shown \in [User -> State]
    BY <2>1
  <2>6. changes \in 0..MaxChanges
    OBVIOUS
  <2>7. QED
    BY <2>1, <2>2, <2>3, <2>4, <2>5, <2>6 DEF TypeOK
<1>2. NewsUnderWay
  BY DEF NewsUnderWay
<1>3. NewsIsCurrent
  BY DEF NewsIsCurrent, Sending
<1>4. ToldShowIt
  <2>1. told \subseteq User
    OBVIOUS
  <2>2. QED
    BY <2>1 DEF ToldShowIt
<1>5. QED
  BY <1>1, <1>2, <1>3, <1>4 DEF IndInv

LEMMA Invariance == Spec => []IndInv
<1>1. Init => IndInv
  BY Initially
<1>2. IndInv /\ [Next]_vars => IndInv'
  BY Types, Deliver DEF IndInv, Delivery
<1>3. QED
  BY <1>1, <1>2, PTL DEF Spec

(* Once all broadcasts are over there is no news under way.                *)
LEMMA AllTold ==
  ASSUME IndInv, Quiet
  PROVE  clients \subseteq told
<1>1. ASSUME NEW u \in clients PROVE ~Greeting(u)
  <2>1. u \in Goroutine
    BY DEF IndInv, TypeOK, Goroutine
  <2>2. QED
    BY <2>1 DEF Quiet, Sending, Greeting
<1>2. ASSUME NEW u \in clients, NEW g \in Goroutine PROVE ~Carries(g, u)
  BY DEF Quiet, Sending, Carries
<1>3. QED
  BY <1>1, <1>2 DEF IndInv, NewsUnderWay

(* Every variable of the chat space broadcasts keeps its type.             *)
THEOREM TypeCorrect == Spec => []TypeOK
<1>1. IndInv => TypeOK
  BY DEF IndInv
<1>2. QED
  BY <1>1, Invariance, PTL

(* Whoever is a client when all broadcasts are over has been sent the chat *)
(* sessions as they are, however many goroutines change them at a time and *)
(* broadcast after the unlock, and whoever registers meanwhile.            *)
THEOREM NobodyMissesASession == Spec => []NewsReachesAll
<1>1. IndInv => NewsReachesAll
  BY AllTold DEF NewsReachesAll
<1>2. QED
  BY <1>1, Invariance, PTL

(* All clients show the sessions of the server once the broadcasts are     *)
(* over, unless the last change overtook a broadcast: the one order of     *)
(* events in which broadcasting after the unlock shows.                    *)
THEOREM ViewersEndUpAgreeing == Spec => []ViewersAgree
<1>1. IndInv => ViewersAgree
  BY AllTold DEF IndInv, ViewersAgree, ToldShowIt
<1>2. QED
  BY <1>1, Invariance, PTL

=============================================================================
