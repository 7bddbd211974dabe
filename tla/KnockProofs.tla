----------------------------- MODULE KnockProofs -----------------------------
(* Proofs about Knock for every set of users, zones and requests: types,   *)
(* one decision per request, nobody misses a knock, one late knock at most.*)
EXTENDS Knock, TLAPS

(***************************************************************************)
(* The invariant                                                           *)
(***************************************************************************)

Made(r) == r \in RequestId /\ entry[r] \in Pair

(* The request a goroutine holds can no longer be decided.                 *)
Withdrawn == {"withdraw", "dismiss", "forget", "erase"} \cup Deciding

(* What a goroutine holds, wherever it is: a request somebody has made, its*)
(* own while it posts one.                                                 *)
TaskAt(u) ==
  /\ task[u].at \in {"drop", "unpost"} \cup Withdrawn \cup Posting => Made(task[u].id)
  /\ task[u].at \in Posting => entry[task[u].id] = <<u, task[u].zone>>
  /\ task[u].at \in Withdrawn => task[u].id \notin pending

TaskInv == \A u \in User : TaskAt(u)

(* A request that can be decided, is recorded or has been answered has been*)
(* made.                                                                   *)
RecordInv == \A r \in pending \cup requests \cup answered : Made(r)

(* Whoever decides a request has taken it out of pending, and an answered  *)
(* one never comes back.                                                   *)
DecisionInv == pending \cap answered = {} /\ OneAnswer

(* Who has been told of a denial is on cooldown, and so is who is about to *)
(* be; nobody else has a late knock.                                       *)
CooldownInv ==
  /\ \A p \in Pair : /\ p \in told => cooldown[p] # "none"
                     /\ p \notin told => late[p] = 0
  /\ \A v \in User : task[v].at = "refuse" => cooldown[entry[task[v].id]] # "none"

(***************************************************************************)
(* The moves of a goroutine                                                *)
(***************************************************************************)

OthersWait(u) == \A w \in User \ {u} : task'[w] = task[w]

LEMMA NoTaskFacts ==
  /\ NoTask \in Task
  /\ NoTask.at = "idle"
BY KnockAssumption DEF NoTask, Task, Label

LEMMA GotoFacts ==
  ASSUME TypeOK, NEW u \in User, NEW label \in Label, Goto(u, label)
  PROVE  /\ task' \in [User -> Task]
         /\ task'[u].at = label
         /\ task'[u].id = task[u].id
         /\ task'[u].zone = task[u].zone
         /\ OthersWait(u)
BY DEF TypeOK, Goto, Task, OthersWait

LEMMA ReturnFacts ==
  ASSUME TypeOK, NEW u \in User, Return(u)
  PROVE  task' \in [User -> Task] /\ task'[u].at = "idle" /\ OthersWait(u)
BY NoTaskFacts DEF TypeOK, Return, OthersWait

LEMMA GoOnFacts ==
  ASSUME TypeOK, NEW u \in User, NEW label, NEW z, NEW r, NEW n,
         GoOn(u, label, z, r, n)
  PROVE  /\ task'[u].at = label /\ task'[u].zone = z /\ task'[u].id = r
         /\ OthersWait(u)
BY DEF TypeOK, GoOn, OthersWait

LEMMA GoOnType ==
  ASSUME TypeOK, NEW u \in User, NEW label \in Label, NEW z \in Zone,
         NEW r \in RequestId \cup {NoRequest}, NEW n \in 0..MaxDenies,
         GoOn(u, label, z, r, n)
  PROVE  task' \in [User -> Task]
BY DEF TypeOK, GoOn, Task

LEMMA Labels ==
  /\ {"idle", "welcome", "dismiss", "find", "drop", "withdraw", "store",
      "persist", "record", "announce", "look up", "unwait", "unrecord",
      "rule", "cool", "grant", "refuse", "unpost", "forget", "erase"} \subseteq Label
  /\ 0 \in 0..MaxDenies
BY KnockAssumption DEF Label, Checked, Posting, Deciding, Cancelling

(***************************************************************************)
(* Types                                                                   *)
(***************************************************************************)

LEMMA TypeStep ==
  ASSUME TypeOK, TaskInv, RecordInv, [Next]_vars
  PROVE  TypeOK'
<1> USE DEF memory, redis, news, shown
<1>0. \A u \in User : /\ task[u].zone \in Zone
                      /\ task[u].id \in RequestId \cup {NoRequest}
                      /\ <<u, task[u].zone>> \in Pair
  BY DEF TypeOK, Task, Pair
<1>a. ASSUME NEW u \in User, task[u].at \in {"drop", "unpost"} \cup Withdrawn \cup Posting
      PROVE  task[u].id \in RequestId /\ entry[task[u].id] \in Pair
  BY <1>a DEF TaskInv, TaskAt, Made
<1>1. ASSUME NEW u \in User, Connect(u) PROVE TypeOK'
  BY <1>1, GotoFacts, Labels DEF Connect, TypeOK
<1>2. ASSUME NEW u \in User, Welcome(u) PROVE TypeOK'
  BY <1>2, ReturnFacts DEF Welcome, ActiveRequests, TypeOK
<1>3. ASSUME NEW u \in User, Disconnect(u) PROVE TypeOK'
  BY <1>3 DEF Disconnect, TypeOK
<1>4. CASE Restart
  BY <1>4, NoTaskFacts DEF Restart, TypeOK
<1>5. ASSUME NEW u \in User, NEW z \in Zone, Knock(u, z) PROVE TypeOK'
  <2>1. task' \in [User -> Task]
    BY <1>5, GoOnType, Labels DEF Knock
  <2>2. QED
    BY <1>5, <2>1 DEF Knock, TypeOK
<1>6. ASSUME NEW u \in User, FindOld(u) PROVE TypeOK'
  <2>1. task' \in [User -> Task]
    <3>1. CASE Goto(u, "store")
      BY <3>1, GotoFacts, Labels
    <3>2. ASSUME NEW r \in Found(u, task[u].zone),
                 GoOn(u, "drop", task[u].zone, r, 0)
          PROVE  task' \in [User -> Task]
      <4>1. r \in RequestId
        BY DEF Found, TypeOK
      <4>2. QED
        BY <1>0, <3>2, <4>1, GoOnType, Labels
    <3>3. QED
      BY <1>6, <3>1, <3>2 DEF FindOld
  <2>2. QED
    BY <1>6, <2>1 DEF FindOld, TypeOK
<1>7. ASSUME NEW u \in User, Drop(u) PROVE TypeOK'
  BY <1>7, GotoFacts, Labels DEF Drop, TypeOK
<1>8. ASSUME NEW u \in User, Withdraw(u) PROVE TypeOK'
  BY <1>8, GotoFacts, Labels DEF Withdraw, Dismissed, TypeOK
<1>9. ASSUME NEW u \in User, Post(u) PROVE TypeOK'
  <2>1. PICK r \in Unused :
          /\ pending' = pending \cup {r}
          /\ entry' = [entry EXCEPT ![r] = Entry(u, task[u].zone)]
          /\ GoOn(u, "persist", task[u].zone, r, 0)
    BY <1>9 DEF Post
  <2>2. r \in RequestId
    BY DEF Unused
  <2>3. task' \in [User -> Task]
    BY <1>0, <2>1, <2>2, GoOnType, Labels
  <2>4. pending' \subseteq RequestId /\ entry' \in [RequestId -> Pair \cup {NoEntry}]
    BY <1>0, <2>1, <2>2 DEF Entry, TypeOK
  <2>5. late' \in [Pair -> Nat]
    BY <1>9, <1>0 DEF Post, TypeOK
  <2>6. QED
    BY <1>9, <2>3, <2>4, <2>5 DEF Post, TypeOK
<1>10. ASSUME NEW u \in User, Persist(u) PROVE TypeOK'
  BY <1>a, <1>10, GotoFacts, Labels DEF Persist, At, Posting, TypeOK
<1>11. ASSUME NEW u \in User, Record(u) PROVE TypeOK'
  <2>1. task[u].id \in RequestId
    BY <1>a, <1>11 DEF Record, At, Posting
  <2>2. task' \in [User -> Task]
    BY <1>11, GotoFacts, Labels DEF Record
  <2>3. QED
    BY <1>11, <2>1, <2>2 DEF Record, TypeOK
<1>12. ASSUME NEW u \in User, Announce(u) PROVE TypeOK'
  <2>1. task[u].id \in RequestId
    BY <1>a, <1>12 DEF Announce, At, Posting
  <2>2. QED
    BY <1>12, <2>1, ReturnFacts DEF Announce, TypeOK
<1>13. ASSUME NEW u \in User, NEW r \in RequestId, Take(u, r) PROVE TypeOK'
  <2>1. entry[r][2] \in Zone
    BY <1>13 DEF Take, RecordInv, Made, Pair
  <2>2. task' \in [User -> Task]
    BY <1>13, <2>1, GoOnType, Labels DEF Take
  <2>3. QED
    BY <1>13, <2>2 DEF Take, TypeOK
<1>14. ASSUME NEW u \in User, LookUp(u) PROVE TypeOK'
  <2>1. task' \in [User -> Task]
    BY <1>14, GotoFacts, ReturnFacts, Labels DEF LookUp
  <2>2. QED
    BY <1>14, <2>1 DEF LookUp, TypeOK
<1>15. ASSUME NEW u \in User, Unwait(u) PROVE TypeOK'
  <2>1. task' \in [User -> Task]
    BY <1>15, GotoFacts, Labels DEF Unwait
  <2>2. QED
    BY <1>15, <2>1 DEF Unwait, TypeOK
<1>16. ASSUME NEW u \in User, Unrecord(u) PROVE TypeOK'
  <2>1. task' \in [User -> Task]
    BY <1>16, GotoFacts, Labels DEF Unrecord
  <2>2. QED
    BY <1>16, <2>1 DEF Unrecord, TypeOK
<1>17. ASSUME NEW u \in User, Allow(u) PROVE TypeOK'
  BY <1>a, <1>17, GotoFacts, Labels DEF Allow, At, Withdrawn, Deciding, TypeOK
<1>18. ASSUME NEW u \in User, Deny(u) PROVE TypeOK'
  <2> DEFINE p == entry[task[u].id]
  <2>1. task[u].id \in RequestId /\ p \in Pair /\ p[2] \in Zone
    BY <1>a, <1>18 DEF Deny, At, Withdrawn, Deciding, Pair
  <2>2. \A n \in 0..MaxDenies : Counted(n) \in 0..MaxDenies
    BY KnockAssumption DEF Counted
  <2>3. denials' \in [Pair -> 0..MaxDenies]
    BY <1>18, <2>2 DEF Deny, TypeOK
  <2>4. denials'[p] \in 0..MaxDenies
    BY <2>1, <2>3
  <2>5. task' \in [User -> Task]
    BY <1>18, <2>1, <2>4, GoOnType, Labels DEF Deny
  <2>6. QED
    BY <1>18, <2>3, <2>5 DEF Deny, TypeOK
<1>19. ASSUME NEW u \in User, Cool(u) PROVE TypeOK'
  BY <1>19, GotoFacts, Labels DEF Cool, CooldownAfter, TypeOK
<1>20. ASSUME NEW u \in User, Answer(u) PROVE TypeOK'
  <2>1. task[u].id \in RequestId /\ entry[task[u].id] \in Pair
    BY <1>a, <1>20 DEF Answer, At, Withdrawn, Deciding
  <2>2. told' \subseteq Pair
    BY <1>20, <2>1 DEF Answer, TypeOK
  <2>3. task' \in [User -> Task]
    BY <1>20, GotoFacts, Labels DEF Answer
  <2>4. QED
    BY <1>20, <2>1, <2>2, <2>3 DEF Answer, TypeOK
<1>21. ASSUME NEW u \in User, Dismiss(u) PROVE TypeOK'
  BY <1>21, ReturnFacts DEF Dismiss, Dismissed, TypeOK
<1>22. ASSUME NEW u \in User, NEW z \in Zone, Cancel(u, z) PROVE TypeOK'
  <2>1. task' \in [User -> Task]
    BY <1>22, GoOnType, Labels DEF Cancel, Found, TypeOK
  <2>2. QED
    BY <1>22, <2>1 DEF Cancel, TypeOK
<1>23. ASSUME NEW u \in User, Unpost(u) PROVE TypeOK'
  BY <1>23, GotoFacts, Labels DEF Unpost, TypeOK
<1>24. ASSUME NEW r \in RequestId, ExpireRequest(r) PROVE TypeOK'
  BY <1>24 DEF ExpireRequest, TypeOK
<1>25. ASSUME NEW p \in Pair, ExpireCooldown(p) PROVE TypeOK'
  BY <1>25 DEF ExpireCooldown, TypeOK
<1>26. ASSUME NEW p \in Pair, ExpireGrant(p) PROVE TypeOK'
  BY <1>26 DEF ExpireGrant, TypeOK
<1>27. ASSUME NEW p \in Pair, ExpireDenials(p) PROVE TypeOK'
  BY <1>27, Labels DEF ExpireDenials, TypeOK
<1>28. CASE UNCHANGED vars
  BY <1>28 DEF vars, TypeOK
<1>29. QED
  BY <1>1, <1>2, <1>3, <1>4, <1>5, <1>6, <1>7, <1>8, <1>9, <1>10, <1>11, <1>12,
     <1>13, <1>14, <1>15, <1>16, <1>17, <1>18, <1>19, <1>20, <1>21, <1>22, <1>23,
     <1>24, <1>25, <1>26, <1>27, <1>28
     DEF Next


(***************************************************************************)
(* Requests and goroutines                                                 *)
(***************************************************************************)

(* Only Post touches the entries.                                          *)
LEMMA EntryChanges ==
  ASSUME [Next]_vars
  PROVE  entry' = entry \/ \E u \in User : Post(u)
BY DEF Next, vars, memory, Connect, Welcome, Disconnect, Restart, Knock, FindOld,
       Drop, Withdraw, Persist, Record, Announce, Take, LookUp, Unwait, Unrecord,
       Allow, Deny, Cool, Answer, Dismiss, Cancel, Unpost, ExpireRequest,
       ExpireCooldown, ExpireGrant, ExpireDenials

(* Entries are written once.                                               *)
LEMMA MadeStays ==
  ASSUME TypeOK, [Next]_vars, NEW r \in RequestId, Made(r)
  PROVE  Made(r)' /\ entry'[r] = entry[r]
<1>1. ASSUME NEW u \in User, Post(u) PROVE entry'[r] = entry[r]
  BY <1>1, KnockAssumption DEF Post, Unused, Made, Pair, TypeOK
<1>2. QED
  BY <1>1, EntryChanges DEF Made

(* Only requests made in this step become pending.                         *)
LEMMA PendingStays ==
  ASSUME TypeOK, [Next]_vars, NEW r \in RequestId, Made(r), r \notin pending
  PROVE  r \notin pending'
<1>1. ASSUME NEW u \in User, Post(u) PROVE r \notin pending'
  BY <1>1, KnockAssumption DEF Post, Unused, Made, Pair, TypeOK
<1>2. pending' \subseteq pending \/ \E u \in User : Post(u)
  BY DEF Next, vars, memory, Connect, Welcome, Disconnect, Restart, Knock, FindOld,
         Drop, Withdraw, Persist, Record, Announce, Take, LookUp, Unwait, Unrecord,
         Allow, Deny, Cool, Answer, Dismiss, Cancel, Unpost, ExpireRequest,
         ExpireCooldown, ExpireGrant, ExpireDenials
<1>3. QED
  BY <1>1, <1>2

(* What holds of a goroutine goes on to hold while it does nothing.        *)
LEMMA TaskWaits ==
  ASSUME TypeOK, [Next]_vars, NEW u \in User, TaskAt(u), task'[u] = task[u]
  PROVE  TaskAt(u)'
<1>1. CASE Made(task[u].id)
  <2>1. Made(task[u].id)' /\ entry'[task[u].id] = entry[task[u].id]
    BY <1>1, MadeStays DEF Made
  <2>2. task[u].id \notin pending => task[u].id \notin pending'
    BY <1>1, PendingStays DEF Made
  <2>3. QED
    BY <2>1, <2>2 DEF TaskAt, Made
<1>2. CASE ~Made(task[u].id)
  BY <1>2 DEF TaskAt, Made, Withdrawn
<1>3. QED
  BY <1>1, <1>2

(* A goroutine that goes on with the request it holds.                     *)
LEMMA TaskGoesOn ==
  ASSUME TypeOK, [Next]_vars, NEW u \in User, TaskAt(u), Made(task[u].id),
         task'[u].id = task[u].id,
         task'[u].at \in Posting => task[u].at \in Posting
                                    /\ task'[u].zone = task[u].zone,
         task'[u].at \in Withdrawn => task[u].id \notin pending'
  PROVE  TaskAt(u)'
<1>1. Made(task[u].id)' /\ entry'[task[u].id] = entry[task[u].id]
  BY MadeStays DEF Made
<1>2. QED
  BY <1>1 DEF TaskAt, Made

(* The label changes, within the handler, and the request with it or not.  *)
LEMMA TaskStep ==
  ASSUME TypeOK, TaskInv, RecordInv, [Next]_vars
  PROVE  TaskInv'
<1>0. ASSUME NEW u \in User, TaskAt(u)', OthersWait(u) PROVE TaskInv'
  BY <1>0, TaskWaits DEF TaskInv, OthersWait
<1>a. ASSUME task' = task PROVE TaskInv'
  BY <1>a, TaskWaits DEF TaskInv
<1>b. ASSUME NEW u \in User, OthersWait(u),
             task'[u].at \in {"idle", "welcome", "find", "store"}
      PROVE  TaskInv'
  <2>1. TaskAt(u)'
    BY <1>b DEF TaskAt, Withdrawn, Deciding, Posting
  <2>2. QED
    BY <1>0, <1>b, <2>1
<1>c. ASSUME NEW u \in User, NEW label \in Label \cap Withdrawn, Goto(u, label),
             task[u].at \in {"drop", "unpost"} \cup Withdrawn,
             task[u].id \notin pending'
      PROVE  TaskInv'
  <2>1. task'[u].at = label /\ task'[u].id = task[u].id /\ OthersWait(u)
    BY <1>c, GotoFacts
  <2>2. TaskAt(u) /\ Made(task[u].id)
    BY <1>c DEF TaskInv, TaskAt
  <2>3. label \notin Posting
    BY DEF Withdrawn, Deciding, Posting
  <2>4. TaskAt(u)'
    BY <1>c, <2>1, <2>2, <2>3, TaskGoesOn
  <2>5. QED
    BY <1>0, <2>1, <2>4
<1>d. ASSUME NEW u \in User, NEW label \in Label \cap Withdrawn, Goto(u, label),
             task[u].at \in Withdrawn
      PROVE  TaskInv'
  <2>1. task[u].id \notin pending /\ Made(task[u].id)
    BY <1>d DEF TaskInv, TaskAt
  <2>2. task[u].id \notin pending'
    BY <2>1, PendingStays DEF Made
  <2>3. QED
    BY <1>c, <1>d, <2>2
<1>e. ASSUME NEW u \in User, NEW r \in RequestId, NEW label \in {"drop", "unpost"},
             NEW z, NEW n, GoOn(u, label, z, r, n), Made(r)
      PROVE  TaskInv'
  <2>1. Made(r)'
    BY <1>e, MadeStays
  <2>2. TaskAt(u)' /\ OthersWait(u)
    BY <1>e, <2>1, GoOnFacts DEF TaskAt, Withdrawn, Deciding, Posting
  <2>3. QED
    BY <1>0, <2>2
<1>f. ASSUME NEW u \in User, NEW label \in Label \cap Posting, Goto(u, label),
             task[u].at \in Posting
      PROVE  TaskInv'
  <2>1. /\ task'[u].at = label /\ task'[u].id = task[u].id
        /\ task'[u].zone = task[u].zone /\ OthersWait(u)
    BY <1>f, GotoFacts
  <2>2. TaskAt(u) /\ Made(task[u].id)
    BY <1>f DEF TaskInv, TaskAt
  <2>3. label \notin Withdrawn
    BY DEF Withdrawn, Deciding, Posting
  <2>4. TaskAt(u)'
    BY <1>f, <2>1, <2>2, <2>3, TaskGoesOn
  <2>5. QED
    BY <1>0, <2>1, <2>4
<1>1. ASSUME NEW u \in User, Connect(u) PROVE TaskInv'
  BY <1>1, <1>b, GotoFacts, Labels DEF Connect
<1>2. ASSUME NEW u \in User, Welcome(u) \/ Announce(u) \/ Dismiss(u) PROVE TaskInv'
  <2>1. Return(u)
    BY <1>2 DEF Welcome, Announce, Dismiss
  <2>2. QED
    BY <1>b, <2>1, ReturnFacts
<1>3. CASE Restart
  <2>1. \A u \in User : task'[u].at = "idle"
    BY <1>3, NoTaskFacts DEF Restart
  <2>2. QED
    BY <2>1 DEF TaskInv, TaskAt, Withdrawn, Deciding, Posting
<1>4. ASSUME NEW u \in User, NEW z \in Zone, Knock(u, z) PROVE TaskInv'
  <2>1. GoOn(u, "find", z, NoRequest, 0)
    BY <1>4 DEF Knock
  <2>2. QED
    BY <1>b, <2>1, GoOnFacts
<1>5. ASSUME NEW u \in User, FindOld(u) PROVE TaskInv'
  <2>1. CASE Goto(u, "store")
    BY <1>b, <2>1, GotoFacts, Labels
  <2>2. ASSUME NEW r \in Found(u, task[u].zone), GoOn(u, "drop", task[u].zone, r, 0)
        PROVE  TaskInv'
    <3>1. r \in RequestId /\ Made(r)
      BY DEF Found, RecordInv, TypeOK
    <3>2. QED
      BY <1>e, <2>2, <3>1
  <2>3. QED
    BY <1>5, <2>1, <2>2 DEF FindOld
<1>6. ASSUME NEW u \in User, Drop(u) \/ Unpost(u) PROVE TaskInv'
  <2>1. \E label \in {"withdraw", "forget"} : Goto(u, label)
    BY <1>6 DEF Drop, Unpost
  <2>2. task[u].at \in {"drop", "unpost"} /\ task[u].id \notin pending'
    BY <1>6 DEF Drop, Unpost, At
  <2>3. {"withdraw", "forget"} \subseteq Label \cap Withdrawn
    BY Labels DEF Withdrawn
  <2>4. QED
    BY <1>c, <2>1, <2>2, <2>3
<1>7. ASSUME NEW u \in User, Withdraw(u) PROVE TaskInv'
  BY <1>7, <1>b, GotoFacts, Labels DEF Withdraw
<1>8. ASSUME NEW u \in User, Post(u) PROVE TaskInv'
  <2>1. PICK r \in Unused :
          /\ entry' = [entry EXCEPT ![r] = Entry(u, task[u].zone)]
          /\ GoOn(u, "persist", task[u].zone, r, 0)
    BY <1>8 DEF Post
  <2>2. r \in RequestId /\ task[u].zone \in Zone
    BY <2>1 DEF Unused, TypeOK, Task
  <2>3. entry'[r] = <<u, task[u].zone>> /\ Made(r)'
    BY <2>1, <2>2 DEF Entry, TypeOK, Made, Pair
  <2>4. /\ task'[u].at = "persist" /\ task'[u].id = r
        /\ task'[u].zone = task[u].zone /\ OthersWait(u)
    BY <2>1, GoOnFacts
  <2>5. TaskAt(u)'
    BY <2>3, <2>4 DEF TaskAt, Withdrawn, Deciding, Posting
  <2>6. QED
    BY <1>0, <2>4, <2>5
<1>9. ASSUME NEW u \in User, Persist(u) \/ Record(u) PROVE TaskInv'
  <2>1. task[u].at \in Posting /\ \E label \in {"record", "announce"} : Goto(u, label)
    BY <1>9 DEF Persist, Record, At, Posting
  <2>2. {"record", "announce"} \subseteq Label \cap Posting
    BY Labels DEF Posting
  <2>3. QED
    BY <1>f, <2>1, <2>2
<1>10. ASSUME NEW u \in User, NEW r \in RequestId, Take(u, r) PROVE TaskInv'
  <2>1. Made(r)'
    BY <1>10, MadeStays DEF Take, RecordInv
  <2>2. GoOn(u, "look up", entry[r][2], r, 0) /\ r \notin pending'
    BY <1>10 DEF Take
  <2>3. task'[u].at = "look up" /\ task'[u].id = r /\ OthersWait(u)
    BY <2>2, GoOnFacts
  <2>4. TaskAt(u)'
    BY <2>1, <2>2, <2>3 DEF TaskAt, Posting, Made
  <2>5. QED
    BY <1>0, <2>3, <2>4
<1>11. ASSUME NEW u \in User, LookUp(u) PROVE TaskInv'
  <2>1. CASE Return(u)
    BY <1>b, <2>1, ReturnFacts
  <2>2. CASE Goto(u, "unwait") /\ task[u].at = "look up"
    <3>1. "unwait" \in Label \cap Withdrawn /\ task[u].at \in Withdrawn
      BY <2>2, Labels DEF Withdrawn, Deciding
    <3>2. QED
      BY <1>d, <2>2, <3>1
  <2>3. QED
    BY <1>11, <2>1, <2>2 DEF LookUp, At
<1>12. ASSUME NEW u \in User,
              Unwait(u) \/ Unrecord(u) \/ Allow(u) \/ Cool(u) \/ Answer(u)
       PROVE  TaskInv'
  <2> DEFINE labels == {"unrecord", "erase", "rule", "dismiss", "grant", "refuse"}
  <2>1. \E label \in labels : Goto(u, label)
    BY <1>12 DEF Unwait, Unrecord, Allow, Cool, Answer
  <2>2. task[u].at \in Withdrawn
    BY <1>12 DEF Unwait, Unrecord, Allow, Cool, Answer, At, Withdrawn, Deciding
  <2>3. labels \subseteq Label \cap Withdrawn
    BY Labels DEF Withdrawn, Deciding
  <2>4. QED
    BY <1>d, <2>1, <2>2, <2>3
<1>13. ASSUME NEW u \in User, Deny(u) PROVE TaskInv'
  <2>1. PICK z, n : GoOn(u, "cool", z, task[u].id, n)
    BY ONLY <1>13 DEF Deny
  <2>2. TaskAt(u) /\ Made(task[u].id) /\ task[u].id \notin pending
    BY <1>13 DEF Deny, At, TaskInv, TaskAt, Withdrawn, Deciding
  <2>3. task[u].id \notin pending'
    BY <2>2, PendingStays DEF Made
  <2>4. task'[u].at = "cool" /\ task'[u].id = task[u].id /\ OthersWait(u)
    BY <2>1, GoOnFacts
  <2>5. TaskAt(u)'
    BY <2>2, <2>3, <2>4, TaskGoesOn DEF Posting
  <2>6. QED
    BY <1>0, <2>4, <2>5
<1>14. ASSUME NEW u \in User, NEW z \in Zone, Cancel(u, z) PROVE TaskInv'
  <2>1. PICK r \in Found(u, z) : GoOn(u, "unpost", z, r, 0)
    BY <1>14 DEF Cancel
  <2>2. r \in RequestId /\ Made(r)
    BY DEF Found, RecordInv, TypeOK
  <2>3. QED
    BY <1>e, <2>1, <2>2
<1>15. ASSUME \/ \E u \in User : Disconnect(u)
              \/ \E r \in RequestId : ExpireRequest(r)
              \/ \E p \in Pair : ExpireCooldown(p) \/ ExpireGrant(p)
                                  \/ ExpireDenials(p)
              \/ UNCHANGED vars
       PROVE  TaskInv'
  BY <1>a, <1>15 DEF Disconnect, ExpireRequest, ExpireCooldown, ExpireGrant,
                     ExpireDenials, vars
<1>16. QED
  BY <1>1, <1>2, <1>3, <1>4, <1>5, <1>6, <1>7, <1>8, <1>9, <1>10, <1>11, <1>12,
     <1>13, <1>14, <1>15 DEF Next

(* New among the pending, recorded and answered requests are the one just  *)
(* posted, and one that a goroutine holds.                                 *)
LEMMA RecordStep ==
  ASSUME TypeOK, TaskInv, RecordInv, [Next]_vars
  PROVE  RecordInv'
<1> DEFINE known == pending \cup requests \cup answered
<1>1. known \subseteq RequestId
  BY DEF TypeOK
<1>2. ASSUME known' \subseteq known PROVE RecordInv'
  BY <1>1, <1>2, MadeStays DEF RecordInv
<1>3. ASSUME NEW u \in User, known' \subseteq known \cup {task[u].id},
             Made(task[u].id)
      PROVE  RecordInv'
  BY <1>1, <1>3, MadeStays DEF RecordInv, Made
<1>4. ASSUME NEW u \in User, Post(u) PROVE RecordInv'
  <2>1. PICK r \in Unused :
          /\ pending' = pending \cup {r}
          /\ entry' = [entry EXCEPT ![r] = Entry(u, task[u].zone)]
    BY <1>4 DEF Post
  <2>2. Made(r)'
    BY <2>1 DEF Unused, Entry, TypeOK, Task, Made, Pair
  <2>3. known' \subseteq known \cup {r}
    BY <1>4, <2>1 DEF Post, redis
  <2>4. QED
    BY <1>1, <2>2, <2>3, MadeStays DEF RecordInv
<1>5. ASSUME NEW u \in User, Record(u) \/ Answer(u) PROVE RecordInv'
  <2>1. Made(task[u].id)
    BY <1>5 DEF Record, Answer, At, TaskInv, TaskAt, Withdrawn, Deciding, Posting
  <2>2. known' \subseteq known \cup {task[u].id}
    BY <1>5 DEF Record, Answer, memory, redis, shown, news
  <2>3. QED
    BY <1>3, <2>1, <2>2
<1>6. ASSUME NEW u \in User,
             \/ Connect(u) \/ Welcome(u) \/ Disconnect(u) \/ FindOld(u)
             \/ Drop(u) \/ Withdraw(u) \/ Persist(u) \/ Announce(u)
             \/ LookUp(u) \/ Unwait(u) \/ Unrecord(u) \/ Allow(u) \/ Deny(u)
             \/ Cool(u) \/ Dismiss(u) \/ Unpost(u)
      PROVE  RecordInv'
  <2>1. known' \subseteq known
    BY <1>6 DEF Connect, Welcome, Disconnect, FindOld, Drop, Withdraw, Persist,
                Announce, LookUp, Unwait, Unrecord, Allow, Deny, Cool, Dismiss,
                Unpost, memory, redis, shown, news
  <2>2. QED
    BY <1>2, <2>1
<1>7. ASSUME NEW u \in User, NEW z \in Zone, Knock(u, z) \/ Cancel(u, z)
      PROVE  RecordInv'
  BY <1>2, <1>7 DEF Knock, Cancel, memory, redis, shown, news
<1>8. ASSUME NEW u \in User, NEW r \in RequestId, Take(u, r) PROVE RecordInv'
  BY <1>2, <1>8 DEF Take, redis, shown, news
<1>9. CASE \/ Restart
           \/ \E r \in RequestId : ExpireRequest(r)
           \/ \E p \in Pair : ExpireCooldown(p) \/ ExpireGrant(p)
                               \/ ExpireDenials(p)
           \/ UNCHANGED vars
  BY <1>2, <1>9 DEF Restart, ExpireRequest, ExpireCooldown, ExpireGrant,
                    ExpireDenials, vars, memory, redis, shown, news
<1>10. QED
  BY <1>4, <1>5, <1>6, <1>7, <1>8, <1>9 DEF Next

(***************************************************************************)
(* One decision per request                                                *)
(***************************************************************************)

LEMMA DecisionStep ==
  ASSUME TypeOK, TaskInv, RecordInv, DecisionInv, [Next]_vars
  PROVE  DecisionInv'
(* Nobody begins to decide, nothing becomes pending or answered.           *)
<1>1. ASSUME \A v \in User, r \in RequestId : Decides(v, r)' => Decides(v, r),
             pending' \subseteq pending, answered' \subseteq answered
      PROVE  DecisionInv'
  BY <1>1 DEF DecisionInv, OneAnswer
<1>2. ASSUME NEW u \in User, OthersWait(u), pending' \subseteq pending,
             answered' \subseteq answered,
             \/ task'[u].at \notin Deciding
             \/ task[u].at \in Deciding /\ task'[u].id = task[u].id
      PROVE  DecisionInv'
  <2>1. \A v \in User, r \in RequestId : Decides(v, r)' => Decides(v, r)
    BY <1>2 DEF Decides, OthersWait
  <2>2. QED
    BY <1>1, <1>2, <2>1
<1>3. ASSUME NEW u \in User, Post(u) PROVE DecisionInv'
  <2>1. PICK r \in Unused : /\ pending' = pending \cup {r}
                            /\ GoOn(u, "persist", task[u].zone, r, 0)
    BY <1>3 DEF Post
  <2>2. r \in RequestId /\ ~Made(r)
    BY <2>1, KnockAssumption DEF Unused, Made, Pair
  <2>3. r \notin answered /\ \A v \in User : ~Decides(v, r)
    BY <2>2 DEF RecordInv, TaskInv, TaskAt, Decides, Withdrawn
  <2>4. task'[u].at = "persist" /\ OthersWait(u)
    BY <2>1, GoOnFacts
  <2>5. \A v \in User, x \in RequestId : Decides(v, x)' => Decides(v, x)
    BY <2>4 DEF Decides, Deciding, OthersWait
  <2>6. answered' = answered
    BY <1>3 DEF Post
  <2>7. QED
    BY <2>1, <2>2, <2>3, <2>5, <2>6 DEF DecisionInv, OneAnswer
<1>4. ASSUME NEW u \in User, NEW r \in RequestId, Take(u, r) PROVE DecisionInv'
  <2>1. r \in pending /\ pending' = pending \ {r} /\ answered' = answered
    BY <1>4 DEF Take, shown, news
  <2>2. r \notin answered /\ \A v \in User : ~Decides(v, r)
    BY <2>1 DEF DecisionInv, OneAnswer
  <2>3. task'[u].id = r /\ OthersWait(u)
    BY <1>4, GoOnFacts DEF Take
  <2>4. \A v \in User, x \in RequestId :
          Decides(v, x)' => Decides(v, x) \/ (v = u /\ x = r)
    BY <2>3 DEF Decides, OthersWait
  <2>5. QED
    BY <2>1, <2>2, <2>4 DEF DecisionInv, OneAnswer
<1>5. ASSUME NEW u \in User, Answer(u) PROVE DecisionInv'
  <2> DEFINE r == task[u].id
  <2>1. task[u].at \in Deciding
    BY <1>5 DEF Answer, At, Deciding
  <2>2. r \in RequestId /\ Decides(u, r)
    BY <2>1 DEF TaskInv, TaskAt, Made, Decides, Withdrawn
  <2>3. pending' = pending /\ answered' = answered \cup {r}
    BY <1>5 DEF Answer, memory
  <2>4. task'[u].at = "dismiss" /\ OthersWait(u)
    BY <1>5, GotoFacts, Labels DEF Answer
  <2>5. \A v \in User, x \in RequestId : Decides(v, x)' => Decides(v, x) /\ v # u
    BY <2>4 DEF Decides, Deciding, OthersWait
  <2>6. QED
    BY <2>2, <2>3, <2>5 DEF DecisionInv, OneAnswer
<1>6. ASSUME NEW u \in User,
             Unwait(u) \/ Unrecord(u) \/ Allow(u) \/ Cool(u)
      PROVE  DecisionInv'
  <2> DEFINE labels == {"unrecord", "erase", "rule", "dismiss", "grant", "refuse"}
  <2>1. pending' = pending /\ answered' = answered
    BY <1>6 DEF Unwait, Unrecord, Allow, Cool, memory, shown, news
  <2>2. PICK label \in labels :
          /\ Goto(u, label)
          /\ label \in {"erase", "dismiss"} \/ task[u].at \in Deciding
    BY <1>6 DEF Unwait, Unrecord, Allow, Cool, At, Deciding
  <2>3. labels \subseteq Label
    BY Labels
  <2>4. task'[u].at = label /\ task'[u].id = task[u].id /\ OthersWait(u)
    BY <2>2, <2>3, GotoFacts
  <2>5. label \in {"erase", "dismiss"} => label \notin Deciding
    BY DEF Deciding
  <2>6. QED
    BY <1>2, <2>1, <2>2, <2>4, <2>5
<1>7. ASSUME NEW u \in User, Deny(u) PROVE DecisionInv'
  <2>1. pending' = pending /\ answered' = answered /\ task[u].at \in Deciding
    BY <1>7 DEF Deny, At, Deciding, memory, shown, news
  <2>2. PICK z, n : GoOn(u, "cool", z, task[u].id, n)
    BY ONLY <1>7 DEF Deny
  <2>3. task'[u].id = task[u].id /\ OthersWait(u)
    BY <2>2, GoOnFacts
  <2>4. QED
    BY <1>2, <2>1, <2>3
<1>8. ASSUME NEW u \in User, LookUp(u) PROVE DecisionInv'
  <2>1. pending' = pending /\ answered' = answered /\ task[u].at \in Deciding
    BY <1>8 DEF LookUp, At, Deciding, memory, shown, news
  <2>2. CASE Goto(u, "unwait")
    BY <1>2, <2>1, <2>2, GotoFacts, Labels
  <2>3. CASE Return(u)
    BY <1>2, <2>1, <2>3, ReturnFacts DEF Deciding
  <2>4. QED
    BY <1>8, <2>2, <2>3 DEF LookUp
<1>9. ASSUME NEW u \in User,
             \/ Connect(u) \/ Drop(u) \/ Withdraw(u) \/ Persist(u) \/ Record(u)
             \/ Unpost(u)
      PROVE  DecisionInv'
  <2> DEFINE labels == {"welcome", "withdraw", "store", "record", "announce", "forget"}
  <2>1. pending' \subseteq pending /\ answered' = answered
    BY <1>9 DEF Connect, Drop, Withdraw, Persist, Record, Unpost, memory, shown, news
  <2>2. \E label \in labels : Goto(u, label)
    BY <1>9 DEF Connect, Drop, Withdraw, Persist, Record, Unpost
  <2>3. labels \subseteq Label /\ labels \cap Deciding = {}
    BY Labels DEF Deciding
  <2>4. QED
    BY <1>2, <2>1, <2>2, <2>3, GotoFacts
<1>10. ASSUME NEW u \in User, Welcome(u) \/ Announce(u) \/ Dismiss(u)
       PROVE  DecisionInv'
  <2>1. pending' \subseteq pending /\ answered' = answered /\ Return(u)
    BY <1>10 DEF Welcome, Announce, Dismiss, memory, news
  <2>2. QED
    BY <1>2, <2>1, ReturnFacts DEF Deciding
<1>11. ASSUME NEW u \in User, FindOld(u) PROVE DecisionInv'
  <2>1. pending' = pending /\ answered' = answered
    BY <1>11 DEF FindOld, memory, shown, news
  <2>2. CASE Goto(u, "store")
    BY <1>2, <2>1, <2>2, GotoFacts, Labels DEF Deciding
  <2>3. ASSUME NEW r, GoOn(u, "drop", task[u].zone, r, 0) PROVE DecisionInv'
    <3>1. task'[u].at = "drop" /\ OthersWait(u)
      BY <2>3, GoOnFacts
    <3>2. QED
      BY <1>2, <2>1, <3>1 DEF Deciding
  <2>4. QED
    BY <1>11, <2>2, <2>3 DEF FindOld
<1>12. ASSUME NEW u \in User, NEW z \in Zone, Knock(u, z) \/ Cancel(u, z)
       PROVE  DecisionInv'
  <2>1. PICK label \in {"find", "unpost"} : \E x, y, n : GoOn(u, label, x, y, n)
    BY ONLY <1>12 DEF Knock, Cancel
  <2>2. PICK x, y, n : GoOn(u, label, x, y, n)
    BY ONLY <2>1
  <2>3. task'[u].at = label /\ OthersWait(u)
    BY <2>2, GoOnFacts
  <2>4. pending' = pending /\ answered' = answered
    BY <1>12 DEF Knock, Cancel, memory, shown, news
  <2>5. QED
    BY <1>2, <2>3, <2>4 DEF Deciding
<1>13. CASE Restart
  <2>1. \A u \in User : task'[u].at = "idle"
    BY <1>13, NoTaskFacts DEF Restart
  <2>2. pending' \subseteq pending /\ answered' = answered
    BY <1>13 DEF Restart, news
  <2>3. QED
    BY <1>1, <2>1, <2>2 DEF Decides, Deciding
<1>14. CASE \/ \E u \in User : Disconnect(u)
            \/ \E r \in RequestId : ExpireRequest(r)
            \/ \E p \in Pair : ExpireCooldown(p) \/ ExpireGrant(p)
                                \/ ExpireDenials(p)
            \/ UNCHANGED vars
  BY <1>1, <1>14 DEF Disconnect, ExpireRequest, ExpireCooldown, ExpireGrant,
                     ExpireDenials, vars, memory, shown, news, Decides
<1>15. QED
  BY <1>3, <1>4, <1>5, <1>6, <1>7, <1>8, <1>9, <1>10, <1>11, <1>12, <1>13, <1>14
     DEF Next

(***************************************************************************)
(* Nobody misses a knock                                                   *)
(***************************************************************************)

Announced(r) == \E v \in User : task[v].id = r /\ task[v].at = "announce"

Reached(r, u) ==
  u = entry[r][1] \/ task[u].at = "welcome" \/ Announced(r) \/ r \in cards[u]

LEMMA ReachStep ==
  ASSUME TypeOK, TaskInv, RecordInv, KnockReachesAll, [Next]_vars
  PROVE  KnockReachesAll'
<1> DEFINE open == pending \cap requests
<1>0. /\ open \subseteq RequestId
      /\ \A r \in open, u \in clients : Reached(r, u)
      /\ \A r \in open : Made(r) /\ entry'[r] = entry[r]
  BY MadeStays DEF TypeOK, RecordInv, KnockReachesAll, Reached, Announced
(* Enough to look at who was reached, as long as the goroutines at welcome *)
(* and announce wait and no card of an open request is taken away.         *)
<1>1. ASSUME open' \subseteq open, clients' \subseteq clients,
             \A v \in User : task[v].at \in {"welcome", "announce"}
                             => task'[v] = task[v],
             \A r \in open', u \in clients' : r \in cards[u] => r \in cards'[u]
      PROVE  KnockReachesAll'
  <2>1. ASSUME NEW r \in open', NEW u \in clients' PROVE Reached(r, u)'
    BY <1>0, <1>1, <2>1 DEF Reached, Announced, TypeOK
  <2>2. QED
    BY <2>1 DEF KnockReachesAll, Reached, Announced
<1>a. ASSUME NEW u \in User, OthersWait(u),
             task[u].at \notin {"welcome", "announce"},
             open' \subseteq open, clients' \subseteq clients,
             \/ cards' = cards
             \/ cards' = Dismissed({task[u].id}) /\ task[u].id \notin pending
      PROVE  KnockReachesAll'
  <2>1. \A v \in User : task[v].at \in {"welcome", "announce"} => task'[v] = task[v]
    BY <1>a DEF OthersWait
  <2>2. \A r \in open', v \in clients' : r \in cards[v] => r \in cards'[v]
    BY <1>a DEF Dismissed, TypeOK
  <2>3. QED
    BY <1>1, <1>a, <2>1, <2>2
<1>2. ASSUME NEW u \in User, Connect(u) PROVE KnockReachesAll'
  <2>1. open' = open /\ clients' = clients \cup {u} /\ cards' = cards
    BY <1>2 DEF Connect, redis, shown
  <2>2. task[u].at = "idle" /\ task'[u].at = "welcome" /\ OthersWait(u)
    BY <1>2, GotoFacts, Labels DEF Connect
  <2>3. QED
    BY <1>0, <2>1, <2>2 DEF KnockReachesAll, Reached, Announced, OthersWait, TypeOK
<1>3. ASSUME NEW u \in User, Welcome(u) PROVE KnockReachesAll'
  <2>1. /\ open' = open /\ clients' = clients /\ task[u].at = "welcome"
        /\ cards' = [cards EXCEPT ![u] = @ \cup ActiveRequests(u)]
    BY <1>3 DEF Welcome, At, memory, redis
  <2>2. \A r \in open : r \in ActiveRequests(u) \/ u = entry[r][1]
    BY DEF ActiveRequests
  <2>3. OthersWait(u)
    BY <1>3, ReturnFacts DEF Welcome
  <2>4. QED
    BY <1>0, <2>1, <2>2, <2>3
       DEF KnockReachesAll, Reached, Announced, OthersWait, TypeOK
<1>4. ASSUME NEW u \in User, Announce(u) PROVE KnockReachesAll'
  <2> DEFINE r == task[u].id
  <2>1. /\ open' = open /\ clients' = clients /\ task[u].at = "announce"
        /\ cards' = [v \in User |-> IF v \in clients \ {u} THEN cards[v] \cup {r}
                                    ELSE cards[v]]
    BY <1>4 DEF Announce, At, memory, redis
  <2>2. entry[r][1] = u
    BY <2>1 DEF TaskInv, TaskAt, Posting
  <2>3. OthersWait(u)
    BY <1>4, ReturnFacts DEF Announce
  <2>4. QED
    BY <1>0, <2>1, <2>2, <2>3
       DEF KnockReachesAll, Reached, Announced, OthersWait, TypeOK
<1>5. ASSUME NEW u \in User, Record(u) PROVE KnockReachesAll'
  <2> DEFINE r == task[u].id
  <2>1. /\ open' \subseteq open \cup {r} /\ clients' = clients /\ cards' = cards
        /\ task[u].at = "record"
    BY <1>5 DEF Record, At, memory, shown
  <2>2. task'[u].at = "announce" /\ task'[u].id = r /\ OthersWait(u)
    BY <1>5, GotoFacts, Labels DEF Record
  <2>3. QED
    BY <1>0, <2>1, <2>2 DEF KnockReachesAll, Reached, Announced, OthersWait, TypeOK
<1>6. ASSUME NEW u \in User, Post(u) PROVE KnockReachesAll'
  <2>1. PICK r \in Unused : /\ pending' = pending \cup {r}
                            /\ GoOn(u, "persist", task[u].zone, r, 0)
    BY <1>6 DEF Post
  <2>2. r \notin requests
    BY <2>1, KnockAssumption DEF Unused, RecordInv, Made, Pair
  <2>3. /\ open' \subseteq open /\ clients' = clients /\ cards' = cards
        /\ task[u].at = "store"
    BY <1>6, <2>1, <2>2 DEF Post, At, redis
  <2>4. OthersWait(u)
    BY <2>1, GoOnFacts
  <2>5. QED
    BY <1>a, <2>3, <2>4
(* A dismissed request is not pending any more.                            *)
<1>7. ASSUME NEW u \in User, Withdraw(u) \/ Dismiss(u) PROVE KnockReachesAll'
  <2>1. task[u].id \notin pending /\ task[u].at \notin {"welcome", "announce"}
    BY <1>7 DEF Withdraw, Dismiss, At, TaskInv, TaskAt, Withdrawn
  <2>2. open' = open /\ clients' = clients /\ cards' = Dismissed({task[u].id})
    BY <1>7 DEF Withdraw, Dismiss, memory, redis
  <2>3. Goto(u, "store") \/ Return(u)
    BY <1>7 DEF Withdraw, Dismiss
  <2>4. OthersWait(u)
    BY <2>3, GotoFacts, ReturnFacts, Labels
  <2>5. QED
    BY <1>a, <2>1, <2>2, <2>4
<1>8. ASSUME NEW u \in User,
             \/ Drop(u) \/ Persist(u) \/ Unwait(u) \/ Unrecord(u) \/ Allow(u)
             \/ Cool(u) \/ Answer(u) \/ Unpost(u)
      PROVE  KnockReachesAll'
  <2> DEFINE labels == {"withdraw", "record", "unrecord", "erase", "rule",
                        "dismiss", "grant", "refuse", "forget"}
  <2>1. open' \subseteq open /\ clients' = clients /\ cards' = cards
    BY <1>8 DEF Drop, Persist, Unwait, Unrecord, Allow, Cool, Answer, Unpost,
                memory, redis, shown
  <2>2. task[u].at \notin {"welcome", "announce"}
    BY <1>8 DEF Drop, Persist, Unwait, Unrecord, Allow, Cool, Answer, Unpost, At
  <2>3. \E label \in labels : Goto(u, label)
    BY <1>8 DEF Drop, Persist, Unwait, Unrecord, Allow, Cool, Answer, Unpost
  <2>4. OthersWait(u)
    BY <2>3, GotoFacts, Labels
  <2>5. QED
    BY <1>a, <2>1, <2>2, <2>4
<1>9. ASSUME NEW u \in User, FindOld(u) \/ LookUp(u) \/ Deny(u)
      PROVE  KnockReachesAll'
  <2>1. open' = open /\ clients' = clients /\ cards' = cards
    BY <1>9 DEF FindOld, LookUp, Deny, memory, redis, shown
  <2>2. task[u].at \notin {"welcome", "announce"}
    BY <1>9 DEF FindOld, LookUp, Deny, At
  <2>3. OthersWait(u)
    <3>1. CASE FindOld(u)
      BY <3>1, GotoFacts, GoOnFacts, Labels DEF FindOld
    <3>2. CASE LookUp(u)
      BY <3>2, GotoFacts, ReturnFacts, Labels DEF LookUp
    <3>3. CASE Deny(u)
      BY <3>3, GoOnFacts DEF Deny
    <3>4. QED
      BY <1>9, <3>1, <3>2, <3>3
  <2>4. QED
    BY <1>a, <2>1, <2>2, <2>3
<1>10. ASSUME NEW u \in User,
              \/ \E z \in Zone : Knock(u, z) \/ Cancel(u, z)
              \/ \E r \in RequestId : Take(u, r)
       PROVE  KnockReachesAll'
  <2>1. /\ open' \subseteq open /\ clients' = clients /\ cards' = cards
        /\ task[u].at = "idle"
    BY <1>10 DEF Knock, Cancel, Take, At, memory, redis, shown
  <2>2. OthersWait(u)
    BY <1>10, GoOnFacts DEF Knock, Cancel, Take
  <2>3. QED
    BY <1>a, <2>1, <2>2
<1>11. ASSUME NEW u \in User, Disconnect(u) PROVE KnockReachesAll'
  BY <1>1, <1>11 DEF Disconnect, redis, TypeOK
<1>12. CASE Restart
  BY <1>12 DEF Restart, KnockReachesAll
<1>13. CASE \/ \E r \in RequestId : ExpireRequest(r)
            \/ \E p \in Pair : ExpireCooldown(p) \/ ExpireGrant(p)
                                \/ ExpireDenials(p)
            \/ UNCHANGED vars
  BY <1>1, <1>13 DEF ExpireRequest, ExpireCooldown, ExpireGrant, ExpireDenials,
                     vars, memory, shown
<1>14. QED
  BY <1>2, <1>3, <1>4, <1>5, <1>6, <1>7, <1>8, <1>9, <1>10, <1>11, <1>12, <1>13
     DEF Next

(***************************************************************************)
(* Late knocks                                                             *)
(***************************************************************************)

LEMMA CooldownStep ==
  ASSUME TypeOK, TaskInv, RecordInv, CooldownInv, OneLateKnock, [Next]_vars
  PROVE  CooldownInv' /\ OneLateKnock'
<1> DEFINE Cooled(v) == cooldown[entry[task[v].id]] # "none"
<1> DEFINE quiet == told' = told /\ late' = late /\ cooldown' = cooldown
<1>0. \A v \in User : task[v].at = "refuse" =>
        /\ Cooled(v)
        /\ Made(task[v].id)
        /\ entry[task[v].id] \in Pair
        /\ entry'[task[v].id] = entry[task[v].id]
  BY MadeStays DEF CooldownInv, TaskInv, TaskAt, Made, Withdrawn, Deciding
<1>1. ASSUME \A v \in User : task'[v].at = "refuse" => task'[v] = task[v],
             \A v \in User, z \in Zone : OnItsWay(v, z)' => OnItsWay(v, z),
             quiet
      PROVE  CooldownInv' /\ OneLateKnock'
  <2>1. CooldownInv'
    BY <1>0, <1>1 DEF CooldownInv
  <2>2. OneLateKnock'
    BY <1>1 DEF OneLateKnock
  <2>3. QED
    BY <2>1, <2>2
<1>2. ASSUME NEW u \in User, OthersWait(u), quiet, task'[u].at # "refuse",
             \/ task'[u].at \notin Checked
             \/ task[u].at \in Checked /\ task'[u].zone = task[u].zone
      PROVE  CooldownInv' /\ OneLateKnock'
  <2>1. \A v \in User : task'[v].at = "refuse" => task'[v] = task[v]
    BY <1>2 DEF OthersWait
  <2>2. \A v \in User, z \in Zone : OnItsWay(v, z)' => OnItsWay(v, z)
    BY <1>2 DEF OthersWait, OnItsWay
  <2>3. QED
    BY <1>1, <1>2, <2>1, <2>2
<1>3. ASSUME NEW u \in User, NEW z \in Zone, Knock(u, z)
      PROVE  CooldownInv' /\ OneLateKnock'
  <2>1. quiet
    BY <1>3 DEF Knock, redis, shown, news
  <2>2. task'[u].at = "find" /\ task'[u].zone = z /\ OthersWait(u)
    BY <1>3, GoOnFacts DEF Knock
  <2>3. <<u, z>> \in Pair /\ cooldown[<<u, z>>] = "none"
    BY <1>3 DEF Knock, Pair
  <2>4. late[<<u, z>>] = 0
    BY <2>3 DEF CooldownInv
  <2>5. CooldownInv'
    BY <1>0, <2>1, <2>2 DEF CooldownInv, OthersWait
  <2>6. OneLateKnock'
    BY <2>1, <2>2, <2>4 DEF OneLateKnock, OnItsWay, OthersWait
  <2>7. QED
    BY <2>5, <2>6
<1>4. ASSUME NEW u \in User, FindOld(u) PROVE CooldownInv' /\ OneLateKnock'
  <2>1. quiet /\ task[u].at \in Checked
    BY <1>4 DEF FindOld, At, Checked, redis, shown, news
  <2>2. CASE Goto(u, "store")
    BY <1>2, <2>1, <2>2, GotoFacts, Labels
  <2>3. ASSUME NEW r, GoOn(u, "drop", task[u].zone, r, 0)
        PROVE  CooldownInv' /\ OneLateKnock'
    <3>1. task'[u].at = "drop" /\ task'[u].zone = task[u].zone /\ OthersWait(u)
      BY <2>3, GoOnFacts
    <3>2. QED
      BY <1>2, <2>1, <3>1
  <2>4. QED
    BY <1>4, <2>2, <2>3 DEF FindOld
<1>5. ASSUME NEW u \in User, Drop(u) \/ Withdraw(u)
      PROVE  CooldownInv' /\ OneLateKnock'
  <2>1. quiet /\ task[u].at \in Checked
    BY <1>5 DEF Drop, Withdraw, At, Checked, redis, shown, news
  <2>2. PICK label \in {"withdraw", "store"} : Goto(u, label)
    BY <1>5 DEF Drop, Withdraw
  <2>3. task'[u].at = label /\ task'[u].zone = task[u].zone /\ OthersWait(u)
    BY <2>2, GotoFacts, Labels
  <2>4. QED
    BY <1>2, <2>1, <2>3
<1>6. ASSUME NEW u \in User, Post(u) PROVE CooldownInv' /\ OneLateKnock'
  <2> DEFINE p == <<u, task[u].zone>>
  <2>1. PICK r : GoOn(u, "persist", task[u].zone, r, 0)
    BY <1>6 DEF Post
  <2>2. task'[u].at = "persist" /\ OthersWait(u)
    BY <2>1, GoOnFacts
  <2>3. task[u].zone \in Zone /\ OnItsWay(u, task[u].zone)
    BY <1>6 DEF Post, At, OnItsWay, Checked, TypeOK, Task
  <2>4. p \in Pair /\ late[p] = 0
    BY <2>3 DEF OneLateKnock, Pair
  <2>5. late' = IF p \in told THEN [late EXCEPT ![p] = @ + 1] ELSE late
    BY <1>6 DEF Post
  <2>6. told' = told /\ cooldown' = cooldown
    BY <1>6 DEF Post, redis
  <2>7. /\ \A x \in Pair : x # p => late'[x] = late[x]
        /\ p \in told => late'[p] = 1
        /\ p \notin told => late'[p] = 0
    BY <2>4, <2>5 DEF TypeOK
  <2>8. CooldownInv'
    BY <1>0, <2>2, <2>6, <2>7 DEF CooldownInv, OthersWait
  <2>9. OneLateKnock'
    <3>1. ASSUME NEW v \in User, NEW z \in Zone
          PROVE  late'[<<v, z>>] <= 1 /\ (OnItsWay(v, z)' => late'[<<v, z>>] = 0)
      <4>1. <<v, z>> \in Pair
        BY DEF Pair
      <4>2. CASE <<v, z>> = p
        BY <2>2, <2>7, <4>2 DEF OnItsWay, Checked
      <4>3. CASE v # u
        <5>1. late'[<<v, z>>] = late[<<v, z>>] /\ task'[v] = task[v]
          BY <2>2, <2>7, <4>1, <4>3 DEF OthersWait
        <5>2. QED
          BY <5>1 DEF OneLateKnock, OnItsWay
      <4>4. CASE v = u /\ z # task[u].zone
        BY <2>2, <2>7, <4>1, <4>4 DEF OneLateKnock, OnItsWay, Checked
      <4>5. QED
        BY <4>2, <4>3, <4>4
    <3>2. QED
      BY <3>1 DEF OneLateKnock
  <2>10. QED
    BY <2>8, <2>9
<1>7. ASSUME NEW u \in User, Cool(u) PROVE CooldownInv' /\ OneLateKnock'
  <2> DEFINE p == entry[task[u].id]
  <2>1. told' = told /\ late' = late
    BY <1>7 DEF Cool, shown, news
  <2>2. /\ task'[u].at = "refuse" /\ task'[u].id = task[u].id /\ OthersWait(u)
    BY <1>7, GotoFacts, Labels DEF Cool
  <2>3. p \in Pair /\ entry' = entry
    BY <1>7 DEF Cool, At, memory, TaskInv, TaskAt, Made, Withdrawn, Deciding
  <2>4. cooldown' = [cooldown EXCEPT ![p] = CooldownAfter(task[u].count)]
    BY <1>7 DEF Cool
  <2>5. CooldownAfter(task[u].count) # "none"
    BY DEF CooldownAfter
  <2>6. /\ cooldown'[p] # "none"
        /\ \A x \in Pair : cooldown[x] # "none" => cooldown'[x] # "none"
    BY <2>3, <2>4, <2>5 DEF TypeOK
  <2>7. CooldownInv'
    BY <1>0, <2>1, <2>2, <2>3, <2>6 DEF CooldownInv, OthersWait
  <2>8. OneLateKnock'
    BY <2>1, <2>2 DEF OneLateKnock, OnItsWay, OthersWait, Checked
  <2>9. QED
    BY <2>7, <2>8
<1>8. ASSUME NEW u \in User, Answer(u) PROVE CooldownInv' /\ OneLateKnock'
  <2> DEFINE p == entry[task[u].id]
  <2>1. late' = late /\ cooldown' = cooldown
    BY <1>8 DEF Answer, redis
  <2>2. task'[u].at = "dismiss" /\ OthersWait(u)
    BY <1>8, GotoFacts, Labels DEF Answer
  <2>3. told' = told \/ (told' = told \cup {p} /\ task[u].at = "refuse")
    BY <1>8 DEF Answer, At
  <2>4. \A x \in Pair : x \in told' => cooldown[x] # "none"
    BY <1>0, <2>3 DEF CooldownInv
  <2>5. CooldownInv'
    BY <1>0, <2>1, <2>2, <2>3, <2>4 DEF CooldownInv, OthersWait
  <2>6. OneLateKnock'
    BY <2>1, <2>2 DEF OneLateKnock, OnItsWay, OthersWait, Checked
  <2>7. QED
    BY <2>5, <2>6
<1>9. ASSUME NEW u \in User,
             \/ Connect(u) \/ Persist(u) \/ Record(u) \/ Unwait(u) \/ Unrecord(u)
             \/ Allow(u) \/ Unpost(u)
      PROVE  CooldownInv' /\ OneLateKnock'
  <2> DEFINE labels == {"welcome", "record", "announce", "unrecord", "erase",
                        "rule", "dismiss", "grant", "forget"}
  <2>1. quiet
    BY <1>9 DEF Connect, Persist, Record, Unwait, Unrecord, Allow, Unpost,
                redis, shown, news
  <2>2. PICK label \in labels : Goto(u, label)
    BY <1>9 DEF Connect, Persist, Record, Unwait, Unrecord, Allow, Unpost
  <2>3. labels \subseteq Label /\ "refuse" \notin labels /\ labels \cap Checked = {}
    BY Labels DEF Checked
  <2>4. task'[u].at = label /\ OthersWait(u)
    BY <2>2, <2>3, GotoFacts
  <2>5. QED
    BY <1>2, <2>1, <2>3, <2>4
<1>10. ASSUME NEW u \in User,
              Welcome(u) \/ Announce(u) \/ Dismiss(u) \/ LookUp(u) \/ Deny(u)
       PROVE  CooldownInv' /\ OneLateKnock'
  <2>1. quiet
    BY <1>10 DEF Welcome, Announce, Dismiss, LookUp, Deny, redis, shown, news
  <2>2. task'[u].at \in {"idle", "unwait", "cool"} /\ OthersWait(u)
    <3>1. CASE Welcome(u) \/ Announce(u) \/ Dismiss(u)
      BY <3>1, ReturnFacts DEF Welcome, Announce, Dismiss
    <3>2. CASE LookUp(u)
      BY <3>2, GotoFacts, ReturnFacts, Labels DEF LookUp
    <3>3. CASE Deny(u)
      BY <3>3, GoOnFacts DEF Deny
    <3>4. QED
      BY <1>10, <3>1, <3>2, <3>3
  <2>3. QED
    BY <1>2, <2>1, <2>2 DEF Checked
<1>11. ASSUME NEW u \in User,
              \/ \E z \in Zone : Cancel(u, z)
              \/ \E r \in RequestId : Take(u, r)
       PROVE  CooldownInv' /\ OneLateKnock'
  <2>1. quiet
    BY <1>11 DEF Cancel, Take, redis, shown, news
  <2>2. task'[u].at \in {"unpost", "look up"} /\ OthersWait(u)
    BY <1>11, GoOnFacts DEF Cancel, Take
  <2>3. QED
    BY <1>2, <2>1, <2>2 DEF Checked
<1>12. CASE Restart
  <2>1. quiet
    BY <1>12 DEF Restart, redis, news
  <2>2. \A u \in User : task'[u].at = "idle"
    BY <1>12, NoTaskFacts DEF Restart
  <2>3. QED
    BY <1>1, <2>1, <2>2 DEF OnItsWay, Checked
<1>13. ASSUME NEW p \in Pair, ExpireCooldown(p)
       PROVE  CooldownInv' /\ OneLateKnock'
  <2>1. task' = task /\ entry' = entry /\ told' = told \ {p}
    BY <1>13 DEF ExpireCooldown, memory
  <2>2. /\ \A x \in Pair \ {p} : cooldown'[x] = cooldown[x] /\ late'[x] = late[x]
        /\ late'[p] = 0
    BY <1>13 DEF ExpireCooldown, TypeOK
  <2>3. \A v \in User : task[v].at = "refuse" => entry[task[v].id] # p
    BY <1>13 DEF ExpireCooldown
  <2>4. CooldownInv'
    BY <1>0, <2>1, <2>2, <2>3 DEF CooldownInv
  <2>5. OneLateKnock'
    <3>1. ASSUME NEW v \in User, NEW z \in Zone
          PROVE  late'[<<v, z>>] <= 1 /\ (OnItsWay(v, z)' => late'[<<v, z>>] = 0)
      <4>1. late'[<<v, z>>] = 0 \/ late'[<<v, z>>] = late[<<v, z>>]
        BY <2>2 DEF Pair
      <4>2. OnItsWay(v, z)' = OnItsWay(v, z)
        BY <2>1 DEF OnItsWay
      <4>3. QED
        BY <4>1, <4>2 DEF OneLateKnock
    <3>2. QED
      BY <3>1 DEF OneLateKnock
  <2>6. QED
    BY <2>4, <2>5
<1>14. CASE \/ \E u \in User : Disconnect(u)
            \/ \E r \in RequestId : ExpireRequest(r)
            \/ \E p \in Pair : ExpireGrant(p) \/ ExpireDenials(p)
            \/ UNCHANGED vars
  <2>1. quiet /\ task' = task
    BY <1>14 DEF Disconnect, ExpireRequest, ExpireGrant, ExpireDenials, vars,
                 redis, shown, news
  <2>2. QED
    BY <1>1, <2>1 DEF OnItsWay
<1>15. QED
  BY <1>3, <1>4, <1>5, <1>6, <1>7, <1>8, <1>9, <1>10, <1>11, <1>12, <1>13, <1>14
     DEF Next

(***************************************************************************)
(* The theorems                                                            *)
(***************************************************************************)

IInv ==
  /\ TypeOK /\ TaskInv /\ RecordInv /\ DecisionInv /\ KnockReachesAll
  /\ CooldownInv /\ OneLateKnock

LEMMA Invariance == Spec => []IInv
<1>1. Init => IInv
  <2> SUFFICES ASSUME Init PROVE IInv
    OBVIOUS
  <2>1. TypeOK
    BY NoTaskFacts, KnockAssumption DEF Init, TypeOK
  <2>2. \A u \in User : task[u].at = "idle"
    BY NoTaskFacts DEF Init
  <2>3. TaskInv /\ RecordInv /\ DecisionInv
    BY <2>2 DEF Init, TaskInv, TaskAt, RecordInv, DecisionInv, OneAnswer, Decides,
                Withdrawn, Deciding, Posting
  <2>4. KnockReachesAll
    BY DEF Init, KnockReachesAll
  <2>5. CooldownInv /\ OneLateKnock
    BY <2>2 DEF Init, CooldownInv, OneLateKnock, OnItsWay, Checked, Pair
  <2>6. QED
    BY <2>1, <2>3, <2>4, <2>5 DEF IInv
<1>2. IInv /\ [Next]_vars => IInv'
  BY TypeStep, TaskStep, RecordStep, DecisionStep, ReachStep, CooldownStep DEF IInv
<1>3. QED
  BY <1>1, <1>2, PTL DEF Spec

(* Every variable of Knock keeps its type.                                 *)
THEOREM TypeCorrect == Spec => []TypeOK
BY Invariance, PTL DEF IInv

(* No request is ever decided by two users, or again once it was answered, *)
(* however many occupants answer at once.                                  *)
THEOREM DecidedOnce == Spec => []OneAnswer
BY Invariance, PTL DEF IInv, DecisionInv

(* A recorded knock that can be answered is in front of everybody else in  *)
(* the room, however joins interleave with knocks.                         *)
THEOREM NobodyMissesAKnock == Spec => []KnockReachesAll
BY Invariance, PTL DEF IInv

(* A denied user gets one more request into the room at most while the     *)
(* cooldown lasts, the one that had passed the check already, however many *)
(* occupants deny at once and whatever restarts come in between.           *)
THEOREM OneKnockSlips == Spec => []OneLateKnock
BY Invariance, PTL DEF IInv

=============================================================================
