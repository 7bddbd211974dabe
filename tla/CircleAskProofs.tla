--------------------------- MODULE CircleAskProofs ---------------------------
(***************************************************************************)
(* What holds of CircleAsk for any number of users and circles, whatever   *)
(* the threshold.                                                          *)
(*                                                                         *)
(* The inductive invariant is IndInv.  That denials are counted rests on   *)
(* AttachedKnown: a decider works on an entry that is in the map.  That the*)
(* lockout holds rests on Passed: the one request that a lockout may have  *)
(* overtaken is on its way no more once it is posted, and asking again     *)
(* meets the lock.                                                         *)
(***************************************************************************)
EXTENDS CircleAsk, FiniteSetTheorems, TLAPS

(***************************************************************************)
(* The invariant                                                           *)
(***************************************************************************)

Asking == {"store", "post"}

(* A goroutine in a handler is about a request, its own if it asks.        *)
DoingKnown ==
  \A u \in User :
    /\ pc[u] \in Asking => doing[u] \in Request /\ doing[u][2] = u
    /\ pc[u] \in {"count", "result", "reset", "allowed", "join"} => doing[u] \in Request

AttachedKnown ==
  \A m \in attached : pc[m] \in {"count", "result"} /\ denies[doing[m]] # NoEntry

(* Those who have counted a denial of k and not told it yet.               *)
Counted(k) == {m \in attached : doing[m] = k /\ pc[m] = "result"}

Tallied(k) ==
  IF denies[k] = NoEntry THEN tally[k] = 0 /\ Counted(k) = {}
  ELSE denies[k].count = tally[k] + Cardinality(Counted(k))

(* A request was posted in spite of a lockout that lasts, and its requester*)
(* is not asking again.                                                    *)
Passed(k) ==
  /\ slipped[k] = 1 /\ LockedOut(k)
  /\ \A u \in User : pc[u] \in Asking => doing[u] # k

LockKept == \A k \in Request : slipped[k] = 0 \/ Passed(k)

IndInv ==
  /\ TypeOK
  /\ DoingKnown
  /\ AttachedKnown
  /\ DenialsCounted
  /\ LockKept

(***************************************************************************)
(* Types                                                                   *)
(***************************************************************************)

Entry == [count : Nat, locked : BOOLEAN]

LEMMA WithoutType ==
  ASSUME TypeOK, NEW u \in User
  PROVE  Without(u) \in [Circle -> SUBSET User]
BY DEF TypeOK, Without

LEMMA Types ==
  ASSUME TypeOK, DoingKnown, AttachedKnown, [Next]_vars
  PROVE  TypeOK'
<1> USE CircleAssumption DEF TypeOK, Goto, slots, chat
<1>1. ASSUME NEW u \in User, Register(u) PROVE TypeOK'
  BY <1>1 DEF Register
<1>2. ASSUME NEW u \in User, Disconnect(u) PROVE TypeOK'
  BY <1>2, WithoutType DEF Disconnect
<1>3. ASSUME NEW u \in User, Free(u) PROVE TypeOK'
  BY <1>3 DEF Free
<1>4. ASSUME NEW u \in User, Leaves(u) PROVE TypeOK'
  BY <1>4, WithoutType DEF Leaves
<1>5. ASSUME NEW u \in User, NEW i \in Circle, Ask(u, i) PROVE TypeOK'
  BY <1>5 DEF Ask, Request
<1>6. ASSUME NEW u \in User, Store(u) PROVE TypeOK'
  <2>1. doing[u][1] \in Circle
    BY <1>6 DEF Store, DoingKnown, Asking, Request
  <2>2. QED
    BY <1>6, <2>1 DEF Store
<1>7. ASSUME NEW u \in User, Post(u) PROVE TypeOK'
  <2>1. doing[u] \in Request
    BY <1>7 DEF Post, DoingKnown, Asking
  <2>2. QED
    BY <1>7, <2>1 DEF Post
<1>8. ASSUME NEW m \in User, NEW k \in Request, Deny(m, k) PROVE TypeOK'
  <2>1. k[2] \in User
    BY DEF Request
  <2>2. QED
    BY <1>8, <2>1 DEF Deny, Decide
<1>9. ASSUME NEW m \in User, NEW k \in Request, Allow(m, k) PROVE TypeOK'
  <2>1. k[2] \in User
    BY DEF Request
  <2>2. QED
    BY <1>9, <2>1 DEF Allow, Decide
<1>10. ASSUME NEW m \in User, Count(m) PROVE TypeOK'
  <2>1. CASE m \in attached
    <3>1. doing[m] \in Request /\ denies[doing[m]] \in Entry
      BY <1>10, <2>1 DEF Count, DoingKnown, AttachedKnown, Entry
    <3>2. Denied(denies[doing[m]]) \in Entry
      BY <3>1 DEF Denied, Entry
    <3>3. denies' \in [Request -> Entry \cup {NoEntry}]
      BY <1>10, <2>1, <3>1, <3>2 DEF Count, Entry
    <3>4. QED
      BY <1>10, <3>3 DEF Count, Entry
  <2>2. CASE m \notin attached
    BY <1>10, <2>2 DEF Count
  <2>3. QED
    BY <2>1, <2>2
<1>11. ASSUME NEW m \in User, TellDenied(m) PROVE TypeOK'
  <2>1. doing[m] \in Request
    BY <1>11 DEF TellDenied, DoingKnown
  <2>2. QED
    BY <1>11, <2>1 DEF TellDenied, Answered
<1>12. ASSUME NEW m \in User, Reset(m) PROVE TypeOK'
  <2>1. doing[m] \in Request
    BY <1>12 DEF Reset, DoingKnown
  <2>2. QED
    BY <1>12, <2>1 DEF Reset
<1>13. ASSUME NEW m \in User, TellAllowed(m) PROVE TypeOK'
  BY <1>13 DEF TellAllowed, Answered
<1>14. ASSUME NEW m \in User, Join(m) PROVE TypeOK'
  <2>1. doing[m][1] \in Circle /\ doing[m][2] \in User
    BY <1>14 DEF Join, DoingKnown, Request
  <2>2. members' \in [Circle -> SUBSET User]
    BY <1>14, <2>1, WithoutType DEF Join
  <2>3. QED
    BY <1>14, <2>2 DEF Join
<1>15. ASSUME NEW k \in Request, CooldownEnds(k) PROVE TypeOK'
  <2>1. denies[k] \in Entry
    BY <1>15 DEF CooldownEnds, LockedOut, Entry
  <2>2. denies' \in [Request -> Entry \cup {NoEntry}]
    BY <1>15, <2>1 DEF CooldownEnds, Entry
  <2>3. QED
    BY <1>15, <2>2 DEF CooldownEnds, Entry
<1>16. ASSUME NEW i \in Circle, NEW S \in SUBSET User, TickForms(i, S) PROVE TypeOK'
  BY <1>16 DEF TickForms
<1>17. CASE UNCHANGED vars
  BY <1>17 DEF vars
<1> HIDE DEF TypeOK, Goto, slots, chat
<1> QED
  BY <1>1, <1>2, <1>3, <1>4, <1>5, <1>6, <1>7, <1>8, <1>9, <1>10, <1>11,
     <1>12, <1>13, <1>14, <1>15, <1>16, <1>17 DEF Next

(***************************************************************************)
(* What goroutines are about                                               *)
(***************************************************************************)

LEMMA Doings ==
  ASSUME TypeOK, DoingKnown, [Next]_vars
  PROVE  DoingKnown'
<1> USE DEF TypeOK, DoingKnown, Asking, Goto, slots, chat
<1>1. CASE UNCHANGED <<pc, doing>>
  BY <1>1
<1>2. ASSUME NEW u \in User, Register(u) \/ Disconnect(u) \/ Free(u)
      PROVE  DoingKnown'
  BY <1>2 DEF Register, Disconnect, Free
<1>3. ASSUME NEW u \in User, NEW i \in Circle, Ask(u, i) PROVE DoingKnown'
  <2>1. u \in User /\ <<i, u>> \in Request /\ <<i, u>>[2] = u
    BY DEF Request
  <2>2. QED
    BY <1>3, <2>1 DEF Ask
<1>4. ASSUME NEW u \in User, Store(u) \/ Post(u) \/ Count(u) \/ TellDenied(u)
      PROVE  DoingKnown'
  BY <1>4 DEF Store, Post, Count, TellDenied
<1>5. ASSUME NEW u \in User, Reset(u) \/ TellAllowed(u) \/ Join(u)
      PROVE  DoingKnown'
  BY <1>5 DEF Reset, TellAllowed, Join
<1>6. ASSUME NEW m \in User, NEW k \in Request, Deny(m, k) \/ Allow(m, k)
      PROVE  DoingKnown'
  BY <1>6 DEF Deny, Allow, Decide
<1>7. ASSUME NEW u \in User, Leaves(u) PROVE DoingKnown'
  BY <1>1, <1>7 DEF Leaves
<1>8. ASSUME NEW k \in Request, CooldownEnds(k) PROVE DoingKnown'
  BY <1>1, <1>8 DEF CooldownEnds
<1>9. ASSUME NEW i \in Circle, NEW S \in SUBSET User, TickForms(i, S)
      PROVE  DoingKnown'
  BY <1>1, <1>9 DEF TickForms
<1>10. CASE UNCHANGED vars
  BY <1>1, <1>10 DEF vars
<1> HIDE DEF TypeOK, DoingKnown, Asking, Goto, slots, chat
<1> QED
  BY <1>2, <1>3, <1>4, <1>5, <1>6, <1>7, <1>8, <1>9, <1>10 DEF Next

LEMMA Attachments ==
  ASSUME TypeOK, DoingKnown, AttachedKnown, [Next]_vars
  PROVE  AttachedKnown'
<1> USE DEF TypeOK, AttachedKnown, Goto, slots, chat
<1>1. CASE UNCHANGED <<pc, doing, attached, denies>>
  BY <1>1
<1>2. ASSUME NEW u \in User, Register(u) \/ Disconnect(u) \/ Free(u) \/ Store(u) \/ Post(u)
      PROVE  AttachedKnown'
  BY <1>2 DEF Register, Disconnect, Free, Store, Post
<1>3. ASSUME NEW u \in User, NEW i \in Circle, Ask(u, i) PROVE AttachedKnown'
  BY <1>3 DEF Ask
<1>4. ASSUME NEW m \in User, NEW k \in Request, Deny(m, k) PROVE AttachedKnown'
  <2> DEFINE made == [count |-> 0, locked |-> FALSE]
  <2>0. made # NoEntry
    <3>1. made \in [count : Nat, locked : BOOLEAN]
      OBVIOUS
    <3> QED
      BY ONLY <3>1, CircleAssumption
  <2> HIDE DEF made
  <2>1. denies'[k] # NoEntry /\ (\A j \in Request \ {k} : denies'[j] = denies[j])
    <3>1. denies' = [denies EXCEPT ![k] = IF @ = NoEntry THEN made ELSE @]
      BY ONLY <1>4 DEF Deny, made
    <3> QED
      BY <2>0, <3>1
  <2>2. \A d \in attached : d # m /\ doing[d] \in Request
    BY <1>4 DEF Deny, Decide, DoingKnown
  <2>3. QED
    BY <1>4, <2>1, <2>2 DEF Deny, Decide
<1>5. ASSUME NEW m \in User, NEW k \in Request, Allow(m, k) PROVE AttachedKnown'
  BY <1>5 DEF Allow, Decide
<1>6. ASSUME NEW m \in User, Count(m) PROVE AttachedKnown'
  <2>1. doing[m] \in Request
    BY <1>6 DEF Count, DoingKnown
  <2>2. Denied(denies[doing[m]]) # NoEntry \/ m \notin attached
    <3>1. CASE m \in attached
      <4>1. denies[doing[m]] \in Entry
        BY <2>1, <3>1 DEF Entry
      <4>2. Denied(denies[doing[m]]) \in Entry
        BY <4>1, CircleAssumption DEF Denied, Entry
      <4> QED
        BY <4>2, CircleAssumption DEF Entry
    <3> QED
      BY <3>1
  <2>3. QED
    BY <1>6, <2>1, <2>2 DEF Count
<1>7. ASSUME NEW m \in User, TellDenied(m) PROVE AttachedKnown'
  BY <1>7 DEF TellDenied
<1>8. ASSUME NEW m \in User, Reset(m) PROVE AttachedKnown'
  BY <1>8 DEF Reset
<1>9. ASSUME NEW m \in User, TellAllowed(m) \/ Join(m) PROVE AttachedKnown'
  BY <1>9 DEF TellAllowed, Join
<1>10. ASSUME NEW k \in Request, CooldownEnds(k) PROVE AttachedKnown'
  <2>1. denies[k] \in Entry
    BY <1>10 DEF CooldownEnds, LockedOut, Entry
  <2>2. denies'[k] \in Entry /\ (\A j \in Request \ {k} : denies'[j] = denies[j])
    BY <1>10, <2>1 DEF CooldownEnds, Entry
  <2>3. denies'[k] # NoEntry
    BY <2>2, CircleAssumption DEF Entry
  <2>4. \A d \in attached : doing[d] \in Request
    BY DEF DoingKnown
  <2>5. QED
    BY <1>10, <2>2, <2>3, <2>4 DEF CooldownEnds
<1>11. ASSUME NEW u \in User, Leaves(u) PROVE AttachedKnown'
  BY <1>1, <1>11 DEF Leaves
<1>12. ASSUME NEW i \in Circle, NEW S \in SUBSET User, TickForms(i, S)
       PROVE  AttachedKnown'
  BY <1>1, <1>12 DEF TickForms
<1>13. CASE UNCHANGED vars
  BY <1>1, <1>13 DEF vars
<1> HIDE DEF TypeOK, AttachedKnown, Goto, slots, chat
<1> QED
  BY <1>2, <1>3, <1>4, <1>5, <1>6, <1>7, <1>8, <1>9, <1>10, <1>11, <1>12,
     <1>13 DEF Next

(***************************************************************************)
(* The deny counters                                                       *)
(***************************************************************************)

(* What has to stay for a counter to agree with the denials told.          *)
Kept(k) ==
  /\ denies'[k] = NoEntry <=> denies[k] = NoEntry
  /\ denies'[k] # NoEntry => denies'[k].count = denies[k].count
  /\ tally'[k] = tally[k]
  /\ Counted(k)' = Counted(k)

LEMMA KeptTally ==
  ASSUME NEW k \in Request, Kept(k), Tallied(k)
  PROVE  Tallied(k)'
BY DEF Kept, Tallied

LEMMA CountedFinite ==
  ASSUME TypeOK, NEW k \in Request
  PROVE  IsFiniteSet(Counted(k)) /\ Cardinality(Counted(k)) \in Nat
<1>1. Counted(k) \subseteq User
  BY DEF TypeOK, Counted
<1>2. IsFiniteSet(Counted(k))
  BY <1>1, CircleAssumption, FS_Subset
<1> QED
  BY <1>2, FS_CardinalityType

LEMMA TallyDeny ==
  ASSUME TypeOK, AttachedKnown, NEW m \in User, NEW j \in Request, Deny(m, j),
         NEW k \in Request, Tallied(k)
  PROVE  Tallied(k)'
<1> DEFINE made == [count |-> 0, locked |-> FALSE]
<1>1. denies' = [denies EXCEPT ![j] = IF @ = NoEntry THEN made ELSE @]
  BY DEF Deny
<1>2. tally' = tally
  BY DEF Deny
<1>3. Counted(k)' = Counted(k)
  <2>1. m \notin attached
    BY DEF AttachedKnown, Deny, Decide
  <2>2. QED
    BY <2>1 DEF TypeOK, Counted, Deny, Decide, Goto
<1>4. CASE j = k /\ denies[k] = NoEntry
  <2>1. denies'[k] = made
    BY <1>1, <1>4 DEF TypeOK
  <2>2. made # NoEntry
    <3>1. made \in [count : Nat, locked : BOOLEAN]
      OBVIOUS
    <3> QED
      BY ONLY <3>1, CircleAssumption
  <2>3. tally'[k] = 0 /\ Counted(k)' = {}
    BY <1>2, <1>3, <1>4 DEF Tallied
  <2>4. Cardinality(Counted(k)') = 0
    BY <2>3, FS_EmptySet
  <2> QED
    BY <2>1, <2>2, <2>3, <2>4 DEF Tallied
<1>5. CASE ~(j = k /\ denies[k] = NoEntry)
  <2>1. denies'[k] = denies[k]
    BY <1>1, <1>5 DEF TypeOK
  <2> QED
    BY <1>2, <1>3, <2>1, KeptTally DEF Kept
<1> QED
  BY <1>4, <1>5

LEMMA TallyCount ==
  ASSUME TypeOK, DoingKnown, AttachedKnown, NEW m \in User, Count(m),
         NEW k \in Request, Tallied(k)
  PROVE  Tallied(k)'
<1>1. /\ doing[m] \in Request
      /\ pc[m] = "count"
      /\ pc' = [pc EXCEPT ![m] = "result"]
      /\ UNCHANGED <<doing, attached, tally>>
  BY DEF Count, DoingKnown, Goto
<1>2. CASE m \in attached /\ doing[m] = k
  <2>1. denies[k] \in Entry
    BY <1>2 DEF AttachedKnown, TypeOK, Entry
  <2>2. denies' = [denies EXCEPT ![k] = Denied(denies[k])]
    BY <1>2 DEF Count
  <2>3. denies'[k] = Denied(denies[k])
    BY <2>2 DEF TypeOK
  <2>4. Denied(denies[k]) \in Entry /\ Denied(denies[k]).count = denies[k].count + 1
    BY <2>1, CircleAssumption DEF Denied, Entry
  <2>5. denies[k] # NoEntry /\ denies'[k] # NoEntry
    BY <2>1, <2>3, <2>4, CircleAssumption DEF Entry
  <2>6. Counted(k)' = Counted(k) \cup {m} /\ m \notin Counted(k)
    BY <1>1, <1>2 DEF TypeOK, Counted
  <2>7. Cardinality(Counted(k)') = Cardinality(Counted(k)) + 1
    BY <2>6, CountedFinite, FS_AddElement
  <2>8. denies[k].count = tally[k] + Cardinality(Counted(k))
    BY <2>5 DEF Tallied
  <2>9. denies'[k].count = tally'[k] + Cardinality(Counted(k)')
    <3>1. denies'[k].count = denies[k].count + 1
      BY <2>3, <2>4
    <3>2. tally[k] \in Nat /\ tally'[k] = tally[k] /\ Cardinality(Counted(k)) \in Nat
      BY <1>1, CountedFinite DEF TypeOK
    <3> QED
      BY <2>7, <2>8, <3>1, <3>2
  <2> QED
    BY <2>5, <2>9 DEF Tallied
<1>3. CASE ~(m \in attached /\ doing[m] = k)
  <2>1. denies'[k] = denies[k]
    BY <1>1, <1>3 DEF Count, TypeOK
  <2>2. Counted(k)' = Counted(k)
    BY <1>1, <1>3 DEF TypeOK, Counted
  <2> QED
    BY <1>1, <2>1, <2>2, KeptTally DEF Kept
<1> QED
  BY <1>2, <1>3

LEMMA TallyTold ==
  ASSUME TypeOK, DoingKnown, AttachedKnown, NEW m \in User, TellDenied(m),
         NEW k \in Request, Tallied(k)
  PROVE  Tallied(k)'
<1>1. /\ doing[m] \in Request
      /\ pc[m] = "result"
      /\ pc' = [pc EXCEPT ![m] = "reading"]
      /\ doing' = [doing EXCEPT ![m] = NoCircle]
      /\ attached' = attached \ {m}
      /\ denies' = denies
  BY DEF TellDenied, DoingKnown, Goto
<1>2. CASE m \in attached /\ doing[m] = k
  <2>1. denies[k] # NoEntry
    BY <1>2 DEF AttachedKnown
  <2>2. tally'[k] = tally[k] + 1 /\ tally[k] \in Nat
    BY <1>2 DEF TellDenied, TypeOK
  <2>3. Counted(k)' = Counted(k) \ {m} /\ m \in Counted(k)
    BY <1>1, <1>2 DEF TypeOK, Counted
  <2>4. Cardinality(Counted(k)') = Cardinality(Counted(k)) - 1
    BY <2>3, CountedFinite, FS_RemoveElement
  <2>5. denies[k].count = tally[k] + Cardinality(Counted(k))
    BY <2>1 DEF Tallied
  <2>6. denies'[k].count = tally'[k] + Cardinality(Counted(k)')
    BY <1>1, <2>2, <2>4, <2>5, CountedFinite
  <2> QED
    BY <1>1, <2>1, <2>6 DEF Tallied
<1>3. CASE ~(m \in attached /\ doing[m] = k)
  <2>1. tally'[k] = tally[k]
    BY <1>1, <1>3 DEF TellDenied, TypeOK
  <2>2. Counted(k)' = Counted(k)
    BY <1>1, <1>3 DEF TypeOK, Counted
  <2> QED
    BY <1>1, <2>1, <2>2, KeptTally DEF Kept
<1> QED
  BY <1>2, <1>3

LEMMA TallyReset ==
  ASSUME TypeOK, DoingKnown, AttachedKnown, NEW m \in User, Reset(m),
         NEW k \in Request, Tallied(k)
  PROVE  Tallied(k)'
<1>1. /\ doing[m] \in Request
      /\ pc[m] = "reset"
      /\ pc' = [pc EXCEPT ![m] = "allowed"]
      /\ denies' = [denies EXCEPT ![doing[m]] = NoEntry]
      /\ attached' = {d \in attached : doing[d] # doing[m]}
      /\ tally' = [tally EXCEPT ![doing[m]] = 0]
      /\ doing' = doing
  BY DEF Reset, DoingKnown, Goto
<1>2. CASE doing[m] = k
  <2>1. denies'[k] = NoEntry /\ tally'[k] = 0
    BY <1>1, <1>2 DEF TypeOK
  <2>2. Counted(k)' = {}
    BY <1>1, <1>2 DEF Counted
  <2> QED
    BY <2>1, <2>2 DEF Tallied
<1>3. CASE doing[m] # k
  <2>1. denies'[k] = denies[k] /\ tally'[k] = tally[k]
    BY <1>1, <1>3 DEF TypeOK
  <2>2. m \notin attached
    BY <1>1 DEF AttachedKnown
  <2>3. Counted(k)' = Counted(k)
    BY <1>1, <1>3, <2>2 DEF TypeOK, Counted
  <2> QED
    BY <2>1, <2>3, KeptTally DEF Kept
<1> QED
  BY <1>2, <1>3

LEMMA Tallies ==
  ASSUME TypeOK, DoingKnown, AttachedKnown, [Next]_vars,
         NEW k \in Request, Tallied(k)
  PROVE  Tallied(k)'
<1> USE DEF slots, chat, Goto
<1> DEFINE Elsewhere(u) ==
      /\ u \notin attached /\ attached' = attached
      /\ \A v \in User \ {u} : pc'[v] = pc[v] /\ doing'[v] = doing[v]
      /\ denies' = denies /\ tally' = tally
<1>1. ASSUME NEW u \in User, Elsewhere(u) PROVE Tallied(k)'
  <2>1. Counted(k)' = Counted(k)
    BY <1>1 DEF TypeOK, Counted
  <2> QED
    BY <1>1, <2>1, KeptTally DEF Kept
<1>2. ASSUME NEW u \in User, Register(u) \/ Disconnect(u) \/ Free(u) PROVE Elsewhere(u)
  BY <1>2 DEF Register, Disconnect, Free, AttachedKnown, TypeOK
<1>3. ASSUME NEW u \in User, NEW i \in Circle, Ask(u, i) PROVE Elsewhere(u)
  BY <1>3 DEF Ask, AttachedKnown, TypeOK
<1>4. ASSUME NEW u \in User, Store(u) \/ Post(u) PROVE Elsewhere(u)
  BY <1>4 DEF Store, Post, AttachedKnown, TypeOK
<1>5. ASSUME NEW m \in User, NEW j \in Request, Allow(m, j) PROVE Elsewhere(m)
  BY <1>5 DEF Allow, Decide, AttachedKnown, TypeOK
<1>6. ASSUME NEW u \in User, TellAllowed(u) \/ Join(u) PROVE Elsewhere(u)
  BY <1>6 DEF TellAllowed, Join, AttachedKnown, TypeOK
<1>7. ASSUME NEW m \in User, NEW j \in Request, Deny(m, j) PROVE Tallied(k)'
  BY <1>7, TallyDeny
<1>8. ASSUME NEW m \in User, Count(m) PROVE Tallied(k)'
  BY <1>8, TallyCount
<1>9. ASSUME NEW m \in User, TellDenied(m) PROVE Tallied(k)'
  BY <1>9, TallyTold
<1>10. ASSUME NEW m \in User, Reset(m) PROVE Tallied(k)'
  BY <1>10, TallyReset
<1>11. ASSUME NEW j \in Request, CooldownEnds(j) PROVE Tallied(k)'
  <2>1. denies[j] \in Entry
    BY <1>11 DEF CooldownEnds, LockedOut, TypeOK, Entry
  <2>2. /\ denies'[j] \in Entry /\ denies'[j].count = denies[j].count
        /\ j # k => denies'[k] = denies[k]
    BY <1>11, <2>1 DEF CooldownEnds, TypeOK, Entry
  <2>3. denies[j] # NoEntry /\ denies'[j] # NoEntry
    BY <2>1, <2>2, CircleAssumption DEF Entry
  <2>4. Counted(k)' = Counted(k) /\ tally' = tally
    BY <1>11 DEF CooldownEnds, Counted
  <2> QED
    BY <2>2, <2>3, <2>4, KeptTally DEF Kept
<1>12. CASE UNCHANGED <<pc, doing, attached, denies, tally>>
  <2>1. Counted(k)' = Counted(k)
    BY <1>12 DEF Counted
  <2> QED
    BY <1>12, <2>1, KeptTally DEF Kept
<1>13. ASSUME NEW u \in User, Leaves(u) PROVE Tallied(k)'
  BY <1>12, <1>13 DEF Leaves
<1>14. ASSUME NEW i \in Circle, NEW S \in SUBSET User, TickForms(i, S) PROVE Tallied(k)'
  BY <1>12, <1>14 DEF TickForms
<1>15. CASE UNCHANGED vars
  BY <1>12, <1>15 DEF vars
<1> HIDE DEF Elsewhere, slots, chat, Goto
<1> QED
  BY <1>1, <1>2, <1>3, <1>4, <1>5, <1>6, <1>7, <1>8, <1>9, <1>10, <1>11,
     <1>13, <1>14, <1>15 DEF Next

(***************************************************************************)
(* The lockout                                                             *)
(***************************************************************************)

(* Nobody begins to ask for k, and its lockout is as it was.               *)
LEMMA LockStays ==
  ASSUME NEW k \in Request, slipped[k] = 0 \/ Passed(k),
         slipped'[k] = slipped[k], LockedOut(k) => LockedOut(k)',
         \A u \in User : pc'[u] \in Asking /\ doing'[u] = k
                          => pc[u] \in Asking /\ doing[u] = k
  PROVE  slipped'[k] = 0 \/ Passed(k)'
BY DEF Passed

LEMMA Locks ==
  ASSUME TypeOK, DoingKnown, AttachedKnown, [Next]_vars,
         NEW k \in Request, slipped[k] = 0 \/ Passed(k)
  PROVE  slipped'[k] = 0 \/ Passed(k)'
<1> USE DEF slots, chat, Goto
<1> DEFINE Holds == slipped'[k] = 0 \/ Passed(k)'
           Calm(u) == /\ \A v \in User \ {u} : pc'[v] = pc[v] /\ doing'[v] = doing[v]
                      /\ pc'[u] \notin Asking
                      /\ slipped' = slipped
<1>1. ASSUME NEW u \in User, Calm(u), LockedOut(k) => LockedOut(k)' PROVE Holds
  BY <1>1, LockStays
<1>2. ASSUME NEW u \in User, Register(u) \/ Disconnect(u) \/ Free(u) PROVE Holds
  <2>1. Calm(u) /\ denies' = denies
    BY <1>2 DEF Register, Disconnect, Free, Asking, TypeOK
  <2> QED
    BY <1>1, <2>1 DEF LockedOut
<1>3. ASSUME NEW u \in User, NEW i \in Circle, Ask(u, i) PROVE Holds
  <2>1. /\ pc' = [pc EXCEPT ![u] = "store"]
        /\ doing' = [doing EXCEPT ![u] = <<i, u>>]
        /\ ~LockedOut(<<i, u>>)
        /\ slipped' = slipped /\ denies' = denies
    BY <1>3 DEF Ask
  <2>2. CASE k = <<i, u>>
    BY <2>1, <2>2 DEF Passed
  <2>3. CASE k # <<i, u>>
    BY <2>1, <2>3, LockStays DEF LockedOut, TypeOK
  <2> QED
    BY <2>2, <2>3
<1>4. ASSUME NEW u \in User, Store(u) PROVE Holds
  <2>1. \A v \in User : pc'[v] \in Asking => pc[v] \in Asking
    BY <1>4 DEF Store, Asking, TypeOK
  <2>2. slipped' = slipped /\ denies' = denies /\ doing' = doing
    BY <1>4 DEF Store
  <2> QED
    BY <2>1, <2>2, LockStays DEF LockedOut
<1>5. ASSUME NEW u \in User, Post(u) PROVE Holds
  <2>1. /\ pc[u] = "post" /\ doing[u] \in Request /\ doing[u][2] = u
        /\ pc' = [pc EXCEPT ![u] = "reading"]
        /\ doing' = [doing EXCEPT ![u] = NoCircle]
        /\ slipped' = [slipped EXCEPT ![doing[u]] = IF LockedOut(doing[u]) THEN @ + 1 ELSE @]
        /\ denies' = denies
    BY <1>5 DEF Post, DoingKnown, Asking
  <2>2. \A v \in User : pc'[v] \in Asking => v # u /\ pc[v] \in Asking /\ doing'[v] = doing[v]
    BY <2>1 DEF Asking, TypeOK
  <2>3. CASE doing[u] = k /\ LockedOut(k)
    <3>1. slipped[k] = 0
      BY <2>1, <2>3 DEF Passed, Asking
    <3>2. slipped'[k] = 1
      BY <2>1, <2>3, <3>1 DEF TypeOK
    <3>3. \A v \in User : pc'[v] \in Asking => doing'[v] # k
      BY <2>1, <2>2, <2>3 DEF DoingKnown
    <3> QED
      BY <2>1, <2>3, <3>2, <3>3 DEF Passed, LockedOut
  <2>4. CASE ~(doing[u] = k /\ LockedOut(k))
    <3>1. slipped'[k] = slipped[k]
      BY <2>1, <2>4 DEF TypeOK
    <3> QED
      BY <2>1, <2>2, <3>1, LockStays DEF LockedOut
  <2> QED
    BY <2>3, <2>4
<1>6. ASSUME NEW m \in User, NEW j \in Request, Deny(m, j) PROVE Holds
  <2>1. Calm(m)
    BY <1>6 DEF Deny, Decide, Asking, TypeOK
  <2>2. denies[k] # NoEntry => denies'[k] = denies[k]
    BY <1>6 DEF Deny, TypeOK
  <2> QED
    BY <1>1, <2>1, <2>2 DEF LockedOut
<1>7. ASSUME NEW m \in User, NEW j \in Request, Allow(m, j) PROVE Holds
  <2>1. Calm(m) /\ denies' = denies
    BY <1>7 DEF Allow, Decide, Asking, TypeOK
  <2> QED
    BY <1>1, <2>1 DEF LockedOut
<1>8. ASSUME NEW m \in User, Count(m) PROVE Holds
  <2>1. Calm(m)
    BY <1>8 DEF Count, Asking, TypeOK
  <2>2. CASE m \in attached /\ doing[m] = k
    <3>1. denies[k] \in Entry
      BY <2>2 DEF AttachedKnown, TypeOK, Entry
    <3>2. denies'[k] = Denied(denies[k])
      BY <1>8, <2>2 DEF Count, TypeOK
    <3>3. /\ Denied(denies[k]) \in Entry
          /\ denies[k].locked => Denied(denies[k]).locked
      BY <3>1, CircleAssumption DEF Denied, Entry
    <3>4. denies'[k] # NoEntry
      BY <3>2, <3>3, CircleAssumption DEF Entry
    <3> QED
      BY <1>1, <2>1, <3>2, <3>3, <3>4 DEF LockedOut
  <2>3. CASE ~(m \in attached /\ doing[m] = k)
    <3>1. denies'[k] = denies[k]
      BY <1>8, <2>3 DEF Count, DoingKnown, TypeOK
    <3> QED
      BY <1>1, <2>1, <3>1 DEF LockedOut
  <2> QED
    BY <2>2, <2>3
<1>9. ASSUME NEW m \in User, TellDenied(m) \/ TellAllowed(m) \/ Join(m) PROVE Holds
  <2>1. Calm(m) /\ denies' = denies
    BY <1>9 DEF TellDenied, TellAllowed, Join, Asking, TypeOK
  <2> QED
    BY <1>1, <2>1 DEF LockedOut
<1>10. ASSUME NEW m \in User, Reset(m) PROVE Holds
  <2>1. CASE doing[m] = k
    BY <1>10, <2>1 DEF Reset, TypeOK
  <2>2. CASE doing[m] # k
    <3>1. slipped'[k] = slipped[k] /\ denies'[k] = denies[k] /\ doing' = doing
      BY <1>10, <2>2 DEF Reset, TypeOK
    <3>2. \A v \in User : pc'[v] \in Asking => pc[v] \in Asking
      BY <1>10 DEF Reset, Asking, TypeOK
    <3> QED
      BY <3>1, <3>2, LockStays DEF LockedOut
  <2> QED
    BY <2>1, <2>2
<1>11. ASSUME NEW j \in Request, CooldownEnds(j) PROVE Holds
  <2>1. CASE j = k
    BY <1>11, <2>1 DEF CooldownEnds, TypeOK
  <2>2. CASE j # k
    <3>1. /\ slipped'[k] = slipped[k] /\ denies'[k] = denies[k]
          /\ UNCHANGED <<pc, doing>>
      BY <1>11, <2>2 DEF CooldownEnds, TypeOK
    <3> QED
      BY <3>1, LockStays DEF LockedOut
  <2> QED
    BY <2>1, <2>2
<1>12. CASE UNCHANGED <<pc, doing, denies, slipped>>
  BY <1>12, LockStays DEF LockedOut
<1>13. ASSUME NEW u \in User, Leaves(u) PROVE Holds
  BY <1>12, <1>13 DEF Leaves
<1>14. ASSUME NEW i \in Circle, NEW S \in SUBSET User, TickForms(i, S) PROVE Holds
  BY <1>12, <1>14 DEF TickForms
<1>15. ASSUME UNCHANGED vars PROVE Holds
  BY <1>12, <1>15 DEF vars
<1> HIDE DEF Holds, Calm, slots, chat, Goto
<1>16. Holds
  BY <1>2, <1>3, <1>4, <1>5, <1>6, <1>7, <1>8, <1>9, <1>10, <1>11, <1>13,
     <1>14, <1>15 DEF Next
<1> QED
  BY <1>16 DEF Holds

(***************************************************************************)
(* The theorems                                                            *)
(***************************************************************************)

LEMMA CountersRight ==
  DenialsCounted <=> \A k \in Request : Tallied(k)
BY DEF DenialsCounted, Tallied, Counted

LEMMA Invariance == Spec => []IndInv
<1>1. Init => IndInv
  BY CircleAssumption
     DEF Init, IndInv, TypeOK, DoingKnown, Asking, AttachedKnown,
         DenialsCounted, LockKept
<1>2. IndInv /\ [Next]_vars => IndInv'
  <2> SUFFICES ASSUME IndInv, [Next]_vars PROVE IndInv'
    OBVIOUS
  <2>1. TypeOK' /\ DoingKnown' /\ AttachedKnown'
    BY Types, Doings, Attachments DEF IndInv
  <2>2. DenialsCounted'
    <3>1. \A k \in Request : Tallied(k)'
      BY Tallies, CountersRight DEF IndInv
    <3> QED
      BY <3>1, CountersRight DEF DenialsCounted, Tallied, Counted
  <2>3. LockKept'
    BY Locks DEF IndInv, LockKept
  <2> QED
    BY <2>1, <2>2, <2>3 DEF IndInv
<1> QED
  BY <1>1, <1>2, PTL DEF Spec

(* What goroutines, slots and deny entries hold keeps its type, for any    *)
(* users and circles.                                                      *)
THEOREM TypeCorrect == Spec => []TypeOK
BY Invariance, PTL DEF IndInv

(* The count of denials of a request is the number of denials that were    *)
(* told, or are about to be, since its last acceptance: no two members who *)
(* decide at once lose one, and no acceptance at that moment leaves one.   *)
THEOREM DenialsAddUp == Spec => []DenialsCounted
BY Invariance, PTL DEF IndInv

(* At most one request of a requester reaches a circle from which it is    *)
(* locked out, for any number of members who decide and of users who ask.  *)
THEOREM LockoutsHold == Spec => []LockoutHolds
<1>1. IndInv => LockoutHolds
  BY DEF IndInv, LockKept, Passed, LockoutHolds
<1> QED
  BY <1>1, Invariance, PTL

=============================================================================
