------------------------------ MODULE CircleAsk ------------------------------
(***************************************************************************)
(* Asking to join a chat circle (src/internal/hub/room.go:                 *)
(* handleCircleAskJoin and handleCircleJoinDecide, and what unregister does*)
(* to a requester's slot).                                                 *)
(*                                                                         *)
(* Every user has one connection at a time, and pc[u] is where the         *)
(* goroutine that serves it is.  The handlers are cut wherever they give up*)
(* what they share: the loads and stores of the sync.Maps and the mutex of *)
(* a deny entry.  Only the two accesses with which a decision begins, the  *)
(* deletion of the slot and the lookup of the deny entry, are one step.    *)
(* A client reads at once what it is sent.  Which players                  *)
(* form a circle, and how the clients are told, is the subject of ChatSpace*)
(* and ChatFanout: here circles change in any of the ways they might.      *)
(***************************************************************************)
EXTENDS Naturals, FiniteSets

CONSTANTS
  User,          \* users of the workspace
  Asker,         \* users who ask to join circles
  Circle,        \* session IDs, each given out once
  Threshold,     \* circleDenyThreshold
  MaxDenials,    \* bound: nobody asks a circle that has denied it this often
  NoCircle,      \* no circle
  NoEntry        \* no deny entry

ASSUME CircleAssumption ==
  /\ IsFiniteSet(User) /\ Asker \subseteq User
  /\ Threshold \in Nat \ {0} /\ MaxDenials \in Nat
  /\ NoCircle \notin Circle
  /\ NoEntry \notin [count : Nat, locked : BOOLEAN]

Request == Circle \X User

VARIABLES
  clients,       \* Room.clients: the users registered
  pc,            \* where a user's goroutine is
  doing,         \* the request it is handling
  attached,      \* deciders whose *circleDenyEntry is the one in the map
  pending,       \* Room.circleAskPending: requester -> circle
  denies,        \* Room.circleDenies: request -> count and lock, or NoEntry
  cards,         \* the requests a client shows, to be allowed or denied
  members,       \* Room.chatSessions: session -> members, {} if there is none
  used,          \* session IDs that have been given out
  tally,         \* denials the requester was told of since it was accepted
  slipped        \* requests posted since the requester was locked out

slots == <<pending, denies, cards, tally, slipped>>
chat == <<members, used>>
vars == <<clients, pc, doing, attached, slots, chat>>

TypeOK ==
  /\ clients \subseteq User
  /\ pc \in [User -> {"off", "reading", "store", "post", "count", "result",
                      "reset", "allowed", "join", "free"}]
  /\ doing \in [User -> Request \cup {NoCircle}]
  /\ attached \subseteq User
  /\ pending \in [User -> Circle \cup {NoCircle}]
  /\ denies \in [Request -> [count : Nat, locked : BOOLEAN] \cup {NoEntry}]
  /\ cards \in [User -> SUBSET Request]
  /\ members \in [Circle -> SUBSET User]
  /\ used \subseteq Circle
  /\ tally \in [Request -> Nat]
  /\ slipped \in [Request -> Nat]

Init ==
  /\ clients = {}
  /\ pc = [u \in User |-> "off"]
  /\ doing = [u \in User |-> NoCircle]
  /\ attached = {}
  /\ pending = [u \in User |-> NoCircle]
  /\ denies = [k \in Request |-> NoEntry]
  /\ cards = [u \in User |-> {}]
  /\ members = [i \in Circle |-> {}]
  /\ used = {}
  /\ tally = [k \in Request |-> 0]
  /\ slipped = [k \in Request |-> 0]

Goto(u, label) == pc' = [pc EXCEPT ![u] = label]

(* removeFromSessionLocked, for a user who may be in a session.            *)
Without(u) ==
  [i \in Circle |-> IF u \in members[i]
                    THEN IF Cardinality(members[i]) > 2 THEN members[i] \ {u} ELSE {}
                    ELSE members[i]]

(***************************************************************************)
(* Connections and circles                                                 *)
(***************************************************************************)

(* register; a page that has just loaded shows no cards.                   *)
Register(u) ==
  /\ pc[u] = "off"
  /\ clients' = clients \cup {u}
  /\ cards' = [cards EXCEPT ![u] = {}]
  /\ Goto(u, "reading")
  /\ UNCHANGED <<doing, attached, pending, denies, tally, slipped, chat>>

(* unregister takes the client out of the Room and its session.            *)
Disconnect(u) ==
  /\ pc[u] = "reading"
  /\ clients' = clients \ {u}
  /\ members' = Without(u)
  /\ Goto(u, "free")
  /\ UNCHANGED <<doing, attached, slots, used>>

(* unregister goes on: circleAskPending.Delete.                            *)
Free(u) ==
  /\ pc[u] = "free"
  /\ pending' = [pending EXCEPT ![u] = NoCircle]
  /\ Goto(u, "off")
  /\ UNCHANGED <<clients, doing, attached, denies, cards, tally, slipped, chat>>

(* A tick puts some players into a new session.                            *)
TickForms(i, S) ==
  /\ i \notin used /\ S \subseteq clients /\ Cardinality(S) >= 2
  /\ \A j \in Circle : members[j] \cap S = {}
  /\ members' = [members EXCEPT ![i] = S]
  /\ used' = used \cup {i}
  /\ UNCHANGED <<clients, pc, doing, attached, slots>>

(* A tick takes a member out, or the member leaves.                        *)
Leaves(u) ==
  /\ \E i \in Circle : u \in members[i]
  /\ members' = Without(u)
  /\ UNCHANGED <<clients, pc, doing, attached, slots, used>>

(***************************************************************************)
(* Asking                                                                  *)
(***************************************************************************)

LockedOut(k) == denies[k] # NoEntry /\ denies[k].locked

(* A denial counts; from the third on it (re)starts the cooldown.          *)
Denied(entry) ==
  [count |-> entry.count + 1, locked |-> entry.locked \/ entry.count + 1 >= Threshold]

(* Mutant: a requester who is not waiting need not wait.                   *)
AskUnchecked(u, i) ==
  /\ pc[u] = "reading" /\ u \in clients \cap Asker
  /\ i \in used /\ u \notin members[i] /\ tally[<<i, u>>] < MaxDenials
  /\ pending[u] # i
  /\ doing' = [doing EXCEPT ![u] = <<i, u>>]
  /\ Goto(u, "store")
  /\ UNCHANGED <<clients, attached, slots, chat>>

(* Mutant: requester and circle are swapped.                               *)
AskSwapped(u, i) ==
  /\ pc[u] = "reading" /\ u \in clients \cap Asker
  /\ i \in used /\ u \notin members[i] /\ tally[<<i, u>>] < MaxDenials
  /\ pending[u] # i /\ ~LockedOut(<<i, u>>)
  /\ doing' = [doing EXCEPT ![u] = <<u, i>>]
  /\ Goto(u, "store")
  /\ UNCHANGED <<clients, attached, slots, chat>>

(* handleCircleAskJoin, its two guards: no request for this circle pends,  *)
(* and the requester is not locked out of it.                              *)
Ask(u, i) ==
  /\ pc[u] = "reading" /\ u \in clients \cap Asker
  /\ i \in used /\ u \notin members[i] /\ tally[<<i, u>>] < MaxDenials
  /\ pending[u] # i /\ ~LockedOut(<<i, u>>)
  /\ doing' = [doing EXCEPT ![u] = <<i, u>>]
  /\ Goto(u, "store")
  /\ UNCHANGED <<clients, attached, slots, chat>>

(* The slot is taken, whatever circle it was for.                          *)
Store(u) ==
  /\ pc[u] = "store"
  /\ pending' = [pending EXCEPT ![u] = doing[u][1]]
  /\ Goto(u, "post")
  /\ UNCHANGED <<clients, doing, attached, denies, cards, tally, slipped, chat>>

(* circle_join_request goes to all; members of the circle show a card.     *)
Post(u) ==
  LET k == doing[u] IN
  /\ pc[u] = "post"
  /\ cards' = [m \in User |-> IF m \in clients \cap members[k[1]]
                              THEN cards[m] \cup {k} ELSE cards[m]]
  /\ slipped' = [slipped EXCEPT ![k] = IF LockedOut(k) THEN @ + 1 ELSE @]
  /\ doing' = [doing EXCEPT ![u] = NoCircle]
  /\ Goto(u, "reading")
  /\ UNCHANGED <<clients, attached, pending, denies, tally, chat>>

(***************************************************************************)
(* Deciding                                                                *)
(***************************************************************************)

(* handleCircleJoinDecide begins: the slot of the requester is freed, and  *)
(* the card goes from the screen of the member who decides.                *)
Decide(m, k) ==
  /\ pc[m] = "reading" /\ m \in clients /\ k \in cards[m]
  /\ pending' = [pending EXCEPT ![k[2]] = NoCircle]
  /\ cards' = [cards EXCEPT ![m] = @ \ {k}]
  /\ doing' = [doing EXCEPT ![m] = k]

(* Mutant: Store in the place of LoadOrStore.                              *)
DenyAfresh(m, k) ==
  /\ Decide(m, k)
  /\ denies' = [denies EXCEPT ![k] = [count |-> 0, locked |-> FALSE]]
  /\ attached' = attached \cup {m}
  /\ Goto(m, "count")
  /\ UNCHANGED <<clients, tally, slipped, chat>>

(* A denial: LoadOrStore finds or makes the deny entry.                    *)
Deny(m, k) ==
  /\ Decide(m, k)
  /\ denies' = [denies EXCEPT ![k] = IF @ = NoEntry
                                     THEN [count |-> 0, locked |-> FALSE] ELSE @]
  /\ attached' = attached \cup {m}
  /\ Goto(m, "count")
  /\ UNCHANGED <<clients, tally, slipped, chat>>

(* Under the mutex of the entry.  When an acceptance has deleted the entry *)
(* from the map in the meantime, nobody will ever read what is counted.    *)
Count(m) ==
  /\ pc[m] = "count"
  /\ denies' = IF m \in attached
               THEN [denies EXCEPT ![doing[m]] = Denied(@)] ELSE denies
  /\ Goto(m, "result")
  /\ UNCHANGED <<clients, doing, attached, pending, cards, tally, slipped, chat>>

(* circle_join_result takes the card from every screen.                    *)
Answered(k) == cards' = [m \in User |-> cards[m] \ {k}]

(* The denial is told to all.                                              *)
TellDenied(m) ==
  /\ pc[m] = "result"
  /\ Answered(doing[m])
  /\ tally' = IF m \in attached THEN [tally EXCEPT ![doing[m]] = @ + 1] ELSE tally
  /\ attached' = attached \ {m}
  /\ doing' = [doing EXCEPT ![m] = NoCircle]
  /\ Goto(m, "reading")
  /\ UNCHANGED <<clients, pending, denies, slipped, chat>>

(* An acceptance.                                                          *)
Allow(m, k) ==
  /\ Decide(m, k)
  /\ Goto(m, "reset")
  /\ UNCHANGED <<clients, attached, denies, tally, slipped, chat>>

(* The deny entry is deleted from the map.                                 *)
Reset(m) ==
  LET k == doing[m] IN
  /\ pc[m] = "reset"
  /\ denies' = [denies EXCEPT ![k] = NoEntry]
  /\ attached' = {d \in attached : doing[d] # k}
  /\ tally' = [tally EXCEPT ![k] = 0]
  /\ slipped' = [slipped EXCEPT ![k] = 0]
  /\ Goto(m, "allowed")
  /\ UNCHANGED <<clients, doing, pending, cards, chat>>

(* The acceptance is told to all, before anybody has joined.               *)
TellAllowed(m) ==
  /\ pc[m] = "allowed"
  /\ Answered(doing[m])
  /\ Goto(m, "join")
  /\ UNCHANGED <<clients, doing, attached, pending, denies, tally, slipped, chat>>

(* addToChatSession: nothing happens when the session is gone.             *)
Join(m) ==
  LET i == doing[m][1]
      u == doing[m][2]
  IN
  /\ pc[m] = "join"
  /\ members' = IF members[i] = {} \/ u \in members[i] THEN members
                ELSE [Without(u) EXCEPT ![i] = @ \cup {u}]
  /\ Goto(m, "reading")
  /\ doing' = [doing EXCEPT ![m] = NoCircle]
  /\ UNCHANGED <<clients, attached, slots, used>>

(* circleDenyCooldown after the denial that locked: the count stays.       *)
CooldownEnds(k) ==
  /\ LockedOut(k)
  /\ denies' = [denies EXCEPT ![k].locked = FALSE]
  /\ slipped' = [slipped EXCEPT ![k] = 0]
  /\ UNCHANGED <<clients, pc, doing, attached, pending, cards, tally, chat>>

Next ==
  \/ \E u \in User :
       \/ Register(u) \/ Disconnect(u) \/ Free(u) \/ Leaves(u)
       \/ \E i \in Circle : Ask(u, i)
       \/ Store(u) \/ Post(u)
       \/ \E k \in Request : Deny(u, k) \/ Allow(u, k)
       \/ Count(u) \/ TellDenied(u) \/ Reset(u) \/ TellAllowed(u) \/ Join(u)
  \/ \E k \in Request : CooldownEnds(k)
  \/ \E i \in Circle, S \in SUBSET User : TickForms(i, S)

Spec == Init /\ [][Next]_vars

(***************************************************************************)
(* Properties                                                              *)
(***************************************************************************)

(* The deny counter of a requester is the number of denials it was told of *)
(* since it was last accepted, and those about to be told: denials by      *)
(* several members at once are all counted, and an acceptance at the same  *)
(* time either precedes a denial or makes it void.                         *)
DenialsCounted ==
  \A k \in Request :
    LET counted == {m \in attached : doing[m] = k /\ pc[m] = "result"} IN
    IF denies[k] = NoEntry THEN tally[k] = 0 /\ counted = {}
    ELSE denies[k].count = tally[k] + Cardinality(counted)

(* Threshold denials lock a requester out, and not more than the request it*)
(* was making at that moment is posted before the cooldown is over.        *)
LockoutHolds == \A k \in Request : slipped[k] <= 1

=============================================================================
