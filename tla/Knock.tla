-------------------------------- MODULE Knock --------------------------------
(***************************************************************************)
(* Knocking on a private zone: handleKnock, handleKnockDecide,             *)
(* handleKnockCancel and the part of register that restores knocks after a *)
(* reload (src/internal/hub/room.go), over the Redis keys of               *)
(* src/internal/store/redis.go.                                            *)
(*                                                                         *)
(* The handlers take no lock.  One goroutine serves a connection, so a     *)
(* user runs one handler at a time (a second connection of a user is left  *)
(* out), but the handlers of different users interleave between any two of *)
(* their reads and writes of shared state: task[u] is where the goroutine  *)
(* of u is.  One access of a sync.Map is a step, and so are one call of the*)
(* RedisStore (a pipeline at most) and one broadcast: sync.Map.Range visits*)
(* every client stored before it began.                                    *)
(*                                                                         *)
(* cards[u] is the Accept/Deny cards that the client of u shows once it    *)
(* has read what was sent to it.  The client is outside src/: it adds a    *)
(* card for a knock_request and for an active_knock_request of the welcome *)
(* and takes it away for a knock_decided or a knock_cancelled.             *)
(***************************************************************************)
EXTENDS Naturals, FiniteSets

CONSTANTS
  User,          \* users of the workspace
  Zone,          \* private zones
  RequestId,     \* what generateRequestID may return, never twice the same
  NoRequest,     \* no request
  NoEntry,       \* the entry of a request nobody made yet
  MaxDenies      \* maxDeniesBeforeLong

ASSUME KnockAssumption ==
  /\ NoRequest \notin RequestId
  /\ Zone # {}
  /\ NoEntry \notin User \X Zone
  /\ MaxDenies \in Nat \ {0}

VARIABLES
  clients,       \* Room.clients: the users with a registered connection
  task,          \* where the goroutine serving a user is, and with what
  pending,       \* the keys of Room.knockPending
  entry,         \* request -> the requester and zone it was made with
  waiting,       \* Redis knock_pending: requester and zone -> request
  requests,      \* Redis knock_req and its index
  denials,       \* Redis knock_deny_count, counted up to MaxDenies
  cooldown,      \* Redis knock_cd: none, or how long it was set for
  granted,       \* Redis zone_granted
  cards,         \* the cards each client shows
  answered,      \* requests whose requester was sent an answer
  told,          \* who was sent a denial since the last cooldown lapsed
  late           \* history: how many requests they have stored since then

vars == <<clients, task, pending, entry, waiting, requests, denials, cooldown,
          granted, cards, answered, told, late>>

memory == <<clients, pending, entry>>
redis == <<waiting, requests, denials, cooldown, granted>>
news == <<answered, told, late>>
shown == <<cards, news>>

Pair == User \X Zone

(* In handleKnock, past the check of the cooldown; and once it has stored. *)
Checked == {"find", "drop", "withdraw", "store"}
Posting == {"persist", "record", "announce"}

(* In handleKnockDecide, until the requester has been sent the answer.     *)
Deciding == {"look up", "unwait", "unrecord", "rule", "cool", "grant", "refuse"}

(* In handleKnockCancel.                                                   *)
Cancelling == {"unpost", "forget", "erase"}

Label == {"idle", "welcome", "dismiss"} \cup Checked \cup Posting \cup Deciding
           \cup Cancelling

Task == [at : Label, zone : Zone, id : RequestId \cup {NoRequest},
         count : 0..MaxDenies]

TypeOK ==
  /\ clients \subseteq User
  /\ task \in [User -> Task]
  /\ pending \subseteq RequestId
  /\ entry \in [RequestId -> Pair \cup {NoEntry}]
  /\ waiting \in [Pair -> RequestId \cup {NoRequest}]
  /\ requests \subseteq RequestId
  /\ denials \in [Pair -> 0..MaxDenies]
  /\ cooldown \in [Pair -> {"none", "short", "long"}]
  /\ granted \subseteq Pair
  /\ cards \in [User -> SUBSET RequestId]
  /\ answered \subseteq RequestId
  /\ told \subseteq Pair
  /\ late \in [Pair -> Nat]

NoTask == [at |-> "idle", zone |-> CHOOSE z \in Zone : TRUE,
           id |-> NoRequest, count |-> 0]

Init ==
  /\ clients = {}
  /\ task = [u \in User |-> NoTask]
  /\ pending = {}
  /\ entry = [r \in RequestId |-> NoEntry]
  /\ waiting = [p \in Pair |-> NoRequest]
  /\ requests = {}
  /\ denials = [p \in Pair |-> 0]
  /\ cooldown = [p \in Pair |-> "none"]
  /\ granted = {}
  /\ cards = [u \in User |-> {}]
  /\ answered = {}
  /\ told = {}
  /\ late = [p \in Pair |-> 0]

Unused == {r \in RequestId : entry[r] = NoEntry}

At(u, label) == u \in clients /\ task[u].at = label

Goto(u, label) == task' = [task EXCEPT ![u].at = label]

(* The goroutine of u goes on at `label` with a zone, a request, a count.  *)
GoOn(u, label, z, r, n) ==
  task' = [task EXCEPT ![u] = [at |-> label, zone |-> z, id |-> r, count |-> n]]

Return(u) == task' = [task EXCEPT ![u] = NoTask]

(* The pending requests of a user for a zone, which Range looks for.       *)
Found(u, z) == {r \in pending : entry[r] = <<u, z>>}

(* Every client reads a knock_cancelled or knock_decided of the requests.  *)
Dismissed(rs) == [u \in User |-> IF u \in clients THEN cards[u] \ rs ELSE cards[u]]

(***************************************************************************)
(* Coming and going                                                        *)
(***************************************************************************)

(* Mutant: the joiner is restored its own knocks instead of the others'.   *)
OwnRequests(u) == {r \in requests : entry[r][1] = u}

(* GetWorkspaceKnockRequests, without the knocks of the joiner.            *)
ActiveRequests(u) == {r \in requests : entry[r][1] # u}

(* register stores the client; an earlier connection's goroutine is over ...*)
Connect(u) ==
  /\ u \notin clients
  /\ task[u].at = "idle"
  /\ clients' = clients \cup {u}
  /\ Goto(u, "welcome")
  /\ UNCHANGED <<pending, entry, redis, shown>>

(* ... and then reads the knocks to restore, and sends them with the       *)
(* welcome.  (A knock decided between the two would leave a card behind    *)
(* that Take ignores, its request not being pending.)                     *)
Welcome(u) ==
  /\ At(u, "welcome")
  /\ cards' = [cards EXCEPT ![u] = @ \cup ActiveRequests(u)]
  /\ Return(u)
  /\ UNCHANGED <<memory, redis, news>>

(* unregister; the page and its cards are gone.  The last user takes the   *)
(* Room with it, and its knockPending.                                     *)
Disconnect(u) ==
  /\ At(u, "idle")
  /\ clients' = clients \ {u}
  /\ pending' = IF clients = {u} THEN {} ELSE pending
  /\ cards' = [cards EXCEPT ![u] = {}]
  /\ UNCHANGED <<task, entry, redis, news>>

(* The server process stops between any two steps; Redis keeps its keys.   *)
Restart ==
  /\ clients # {}
  /\ clients' = {}
  /\ pending' = {}
  /\ task' = [u \in User |-> NoTask]
  /\ cards' = [u \in User |-> {}]
  /\ UNCHANGED <<entry, redis, news>>

(***************************************************************************)
(* handleKnock                                                             *)
(***************************************************************************)

(* Not on cooldown.  A user who is gets an error and nothing changes.      *)
Knock(u, z) ==
  /\ At(u, "idle")
  /\ cooldown[<<u, z>>] = "none"
  /\ GoOn(u, "find", z, NoRequest, 0)
  /\ UNCHANGED <<memory, redis, shown>>

(* Range finds an older request of this user for this zone, or none.       *)
FindOld(u) ==
  LET old == Found(u, task[u].zone) IN
  /\ At(u, "find")
  /\ \/ old = {} /\ Goto(u, "store")
     \/ \E r \in old : GoOn(u, "drop", task[u].zone, r, 0)
  /\ UNCHANGED <<memory, redis, shown>>

(* The older request is deleted ...                                        *)
Drop(u) ==
  /\ At(u, "drop")
  /\ pending' = pending \ {task[u].id}
  /\ Goto(u, "withdraw")
  /\ UNCHANGED <<clients, entry, redis, shown>>

(* ... and its cancellation broadcast.                                     *)
Withdraw(u) ==
  /\ At(u, "withdraw")
  /\ cards' = Dismissed({task[u].id})
  /\ Goto(u, "store")
  /\ UNCHANGED <<memory, redis, news>>

(* Mutant: the requester and the zone change places.                       *)
EntrySwapped(u, z) == <<z, u>>

Entry(u, z) == <<u, z>>

(* A new request is stored.                                                *)
Post(u) ==
  LET p == <<u, task[u].zone>> IN
  /\ At(u, "store")
  /\ \E r \in Unused :
       /\ pending' = pending \cup {r}
       /\ entry' = [entry EXCEPT ![r] = Entry(u, task[u].zone)]
       /\ GoOn(u, "persist", task[u].zone, r, 0)
  /\ late' = IF p \in told THEN [late EXCEPT ![p] = @ + 1] ELSE late
  /\ UNCHANGED <<clients, redis, cards, answered, told>>

(* SetKnockPending ...                                                     *)
Persist(u) ==
  /\ At(u, "persist")
  /\ waiting' = [waiting EXCEPT ![<<u, task[u].zone>>] = task[u].id]
  /\ Goto(u, "record")
  /\ UNCHANGED <<memory, requests, denials, cooldown, granted, shown>>

(* ... and SetKnockRequestData.                                            *)
Record(u) ==
  /\ At(u, "record")
  /\ requests' = requests \cup {task[u].id}
  /\ Goto(u, "announce")
  /\ UNCHANGED <<memory, waiting, denials, cooldown, granted, shown>>

(* knock_request to everybody else.                                        *)
Announce(u) ==
  /\ At(u, "announce")
  /\ cards' = [v \in User |-> IF v \in clients \ {u}
                              THEN cards[v] \cup {task[u].id} ELSE cards[v]]
  /\ Return(u)
  /\ UNCHANGED <<memory, redis, news>>

(***************************************************************************)
(* handleKnockDecide                                                       *)
(***************************************************************************)

(* Mutant: Load without Delete.                                            *)
TakeAndLeave(v, r) ==
  /\ At(v, "idle")
  /\ r \in pending
  /\ GoOn(v, "look up", entry[r][2], r, 0)
  /\ UNCHANGED <<memory, redis, shown>>

(* LoadAndDelete: whoever finds the request decides it.  Any client may    *)
(* name any request, its own included.                                     *)
Take(v, r) ==
  /\ At(v, "idle")
  /\ r \in pending
  /\ pending' = pending \ {r}
  /\ GoOn(v, "look up", entry[r][2], r, 0)
  /\ UNCHANGED <<clients, entry, redis, shown>>

(* getClient: when the requester has left nothing more is done.            *)
LookUp(v) ==
  /\ At(v, "look up")
  /\ \/ entry[task[v].id][1] \in clients /\ Goto(v, "unwait")
     \/ entry[task[v].id][1] \notin clients /\ Return(v)
  /\ UNCHANGED <<memory, redis, shown>>

(* DeleteKnockPending, by requester and zone, in handleKnockDecide and in  *)
(* handleKnockCancel.                                                      *)
Unwait(v) ==
  /\ \/ At(v, "unwait") /\ Goto(v, "unrecord")
     \/ At(v, "forget") /\ Goto(v, "erase")
  /\ waiting' = [waiting EXCEPT ![entry[task[v].id]] = NoRequest]
  /\ UNCHANGED <<memory, requests, denials, cooldown, granted, shown>>

(* DeleteKnockRequestData, by request.                                     *)
Unrecord(v) ==
  /\ \/ At(v, "unrecord") /\ Goto(v, "rule")
     \/ At(v, "erase") /\ Goto(v, "dismiss")
  /\ requests' = requests \ {task[v].id}
  /\ UNCHANGED <<memory, waiting, denials, cooldown, granted, shown>>

(* The decision is to allow: SetZoneGranted.                               *)
Allow(v) ==
  /\ At(v, "rule")
  /\ granted' = granted \cup {entry[task[v].id]}
  /\ Goto(v, "grant")
  /\ UNCHANGED <<memory, waiting, requests, denials, cooldown, shown>>

Counted(n) == IF n < MaxDenies THEN n + 1 ELSE n

(* The decision is to deny: IncrementDenyCount.                            *)
Deny(v) ==
  LET p == entry[task[v].id] IN
  /\ At(v, "rule")
  /\ denials' = [denials EXCEPT ![p] = Counted(@)]
  /\ GoOn(v, "cool", p[2], task[v].id, denials'[p])
  /\ UNCHANGED <<memory, waiting, requests, cooldown, granted, shown>>

(* Mutant: only the long cooldown is ever set.                             *)
OnlyLong(n) == IF n >= MaxDenies THEN "long" ELSE "none"

CooldownAfter(n) == IF n >= MaxDenies THEN "long" ELSE "short"

(* SetKnockCooldown                                                        *)
Cool(v) ==
  /\ At(v, "cool")
  /\ cooldown' = [cooldown EXCEPT ![entry[task[v].id]] = CooldownAfter(task[v].count)]
  /\ Goto(v, "refuse")
  /\ UNCHANGED <<memory, waiting, requests, denials, granted, shown>>

(* The requester is sent knock_granted or knock_denied.                    *)
Answer(v) ==
  /\ \/ At(v, "grant") /\ told' = told
     \/ At(v, "refuse") /\ told' = told \cup {entry[task[v].id]}
  /\ answered' = answered \cup {task[v].id}
  /\ Goto(v, "dismiss")
  /\ UNCHANGED <<memory, redis, cards, late>>

(* knock_decided, or knock_cancelled, to everybody.                        *)
Dismiss(v) ==
  /\ At(v, "dismiss")
  /\ cards' = Dismissed({task[v].id})
  /\ Return(v)
  /\ UNCHANGED <<memory, redis, news>>

(***************************************************************************)
(* handleKnockCancel                                                       *)
(***************************************************************************)

(* Range finds the request; nothing is done when there is none.            *)
Cancel(u, z) ==
  /\ At(u, "idle")
  /\ \E r \in Found(u, z) :
       GoOn(u, "unpost", z, r, 0)
  /\ UNCHANGED <<memory, redis, shown>>

(* Delete; the Redis keys (Unwait, Unrecord) and the broadcast follow.     *)
Unpost(u) ==
  /\ At(u, "unpost")
  /\ pending' = pending \ {task[u].id}
  /\ Goto(u, "forget")
  /\ UNCHANGED <<clients, entry, redis, shown>>

(***************************************************************************)
(* Redis expiry                                                            *)
(***************************************************************************)

(* The two records of a request, written together, have the same TTL: ten  *)
(* minutes, longer than any handler holds the request.                     *)
ExpireRequest(r) ==
  /\ r \in requests
  /\ \A u \in User : task[u].id # r
  /\ requests' = requests \ {r}
  /\ waiting' = [p \in Pair |-> IF waiting[p] = r THEN NoRequest ELSE waiting[p]]
  /\ UNCHANGED <<memory, task, denials, cooldown, granted, shown>>

(* A cooldown lasts 30 seconds at least, longer than its handler needs to  *)
(* tell the requester.                                                     *)
ExpireCooldown(p) ==
  /\ cooldown[p] # "none"
  /\ \A v \in User : task[v].at = "refuse" => entry[task[v].id] # p
  /\ cooldown' = [cooldown EXCEPT ![p] = "none"]
  /\ told' = told \ {p}
  /\ late' = [late EXCEPT ![p] = 0]
  /\ UNCHANGED <<memory, task, waiting, requests, denials, granted, cards,
                 answered>>

ExpireGrant(p) ==
  /\ p \in granted
  /\ granted' = granted \ {p}
  /\ UNCHANGED <<memory, task, waiting, requests, denials, cooldown, shown>>

ExpireDenials(p) ==
  /\ denials[p] # 0
  /\ denials' = [denials EXCEPT ![p] = 0]
  /\ UNCHANGED <<memory, task, waiting, requests, cooldown, granted, shown>>

Next ==
  \/ \E u \in User :
       \/ Connect(u) \/ Welcome(u) \/ Disconnect(u)
       \/ \E z \in Zone : Knock(u, z) \/ Cancel(u, z)
       \/ FindOld(u) \/ Drop(u) \/ Withdraw(u) \/ Post(u)
       \/ Persist(u) \/ Record(u) \/ Announce(u)
       \/ \E r \in RequestId : Take(u, r)
       \/ LookUp(u) \/ Unwait(u) \/ Unrecord(u)
       \/ Allow(u) \/ Deny(u) \/ Cool(u) \/ Answer(u) \/ Dismiss(u)
       \/ Unpost(u)
  \/ Restart
  \/ \E r \in RequestId : ExpireRequest(r)
  \/ \E p \in Pair : ExpireCooldown(p) \/ ExpireGrant(p) \/ ExpireDenials(p)

Spec == Init /\ [][Next]_vars

(***************************************************************************)
(* Properties                                                              *)
(***************************************************************************)

Decides(v, r) == task[v].at \in Deciding /\ task[v].id = r

(* Two occupants who answer the same knock at the same moment never both   *)
(* decide it: a request is decided by one of them, once, and the other     *)
(* gets "knock request not found" (LoadAndDelete, room.go:1567).           *)
OneAnswer ==
  \A v \in User, r \in RequestId :
    Decides(v, r) =>
      /\ r \notin pending \cup answered
      /\ \A w \in User : Decides(w, r) => w = v

(* A knock that can be answered and whose record has not expired is in     *)
(* front of everybody else in the room, those who joined or reloaded while *)
(* it was being posted included: whoever misses the knock_request finds    *)
(* the record for its welcome, since the record is written before the      *)
(* broadcast and the joiner is stored before it reads (room.go:156, 199,   *)
(* 1541, 1550).                                                            *)
KnockReachesAll ==
  \A r \in pending \cap requests, u \in clients :
    \/ u = entry[r][1]
    \/ task[u].at = "welcome"
    \/ \E v \in User : task[v].id = r /\ task[v].at = "announce"
    \/ r \in cards[u]

(* The handler of u has found no cooldown for z and will store a request.  *)
OnItsWay(u, z) == task[u].at \in Checked /\ task[u].zone = z

(* A user who has been told of a denial gets at most one more request into *)
(* the room before that cooldown lapses, whichever decisions, restarts and *)
(* reloads come in between: the one whose handler had read the cooldown    *)
(* (room.go:1507) when the denial was given.  Every later knock is refused,*)
(* since the cooldown is set before the requester is told (room.go:1604,   *)
(* 1619) and one goroutine serves a connection.                            *)
OneLateKnock ==
  \A u \in User, z \in Zone :
    /\ late[<<u, z>>] <= 1
    /\ OnItsWay(u, z) => late[<<u, z>>] = 0

=============================================================================
