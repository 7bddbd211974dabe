--------------------------- MODULE ChatRelayProofs ---------------------------
(***************************************************************************)
(* What holds of ChatRelay for any users, connections and conversations,   *)
(* and any size of the send buffer.                                        *)
(*                                                                         *)
(* The inductive invariant is IndInv: that entries of chatSubs are in the  *)
(* reverse index is what makes removeChatSubscriber find all of a client's *)
(* subscriptions, and with that nobody is left in a conversation, from the *)
(* left broadcast on (GoneAreSilent); that recipients leave out the sender,*)
(* and that a user's slot in Room.clients holds a connection of that user, *)
(* is what keeps targets from it.                                          *)
(***************************************************************************)
EXTENDS ChatRelay, TLAPS

(* A goroutine inside unregister, or about to close a channel, has a client*)
(* that it is about.                                                       *)
VictimKnown ==
  \A g \in Conn :
    pc[g] \in {"unregister", "removed", "announcing", "closing"} => victim[g] \in Conn

(* The own unregister of c has got to the left broadcast, or has returned. *)
Gone(c) ==
  \/ pc[c] = "left"
  \/ pc[c] = "announcing" /\ victim[c] = c

(* From then on c is in no conversation.                                   *)
GoneAreSilent ==
  \A c \in Conn, v \in Conversation : Gone(c) => chatSubs[v][UserOf[c]] # c

(* A user's slot in Room.clients holds a connection of that user.          *)
SlotsOwned ==
  \A u \in User : clients[u] # NoConn => UserOf[clients[u]] = u

(* The users still to be looked up do not include the sender.              *)
RecipientsAreOthers ==
  \A g \in Conn : UserOf[g] \notin recipients[g]

IndInv ==
  /\ TypeOK
  /\ VictimKnown
  /\ SubscriptionsIndexed
  /\ GoneAreSilent
  /\ SlotsOwned
  /\ RecipientsAreOthers
  /\ NeverEchoed

(***************************************************************************)
(* Types                                                                   *)
(***************************************************************************)

LEMMA Types ==
  ASSUME TypeOK, VictimKnown, [Next]_vars
  PROVE  TypeOK'
<1> USE RelayAssumption DEF TypeOK, VictimKnown, room, subs, task, wire
<1>0. Registered \subseteq Conn
  BY DEF Registered
<1>1. ASSUME NEW c \in Conn, Register(c) PROVE TypeOK'
  BY <1>0, <1>1 DEF Register
<1>1a. ASSUME NEW c \in Conn, AnnounceJoin(c) PROVE TypeOK'
  BY <1>0, <1>1a DEF AnnounceJoin
<1>1b. ASSUME NEW c \in Conn, StartPumps(c) PROVE TypeOK'
  BY <1>1b DEF StartPumps
<1>2. ASSUME NEW c \in Conn, SocketCloses(c) PROVE TypeOK'
  BY <1>2 DEF SocketCloses
<1>3. ASSUME NEW c \in Conn, WriteMessage(c) PROVE TypeOK'
  BY <1>3 DEF WriteMessage
<1>4. ASSUME NEW c \in Conn, WriteClose(c) PROVE TypeOK'
  BY <1>4 DEF WriteClose
<1>5. ASSUME NEW c \in Conn, ReadFails(c) PROVE TypeOK'
  BY <1>5 DEF ReadFails
<1>6. ASSUME NEW c \in Conn, NEW v \in Conversation, ChatJoin(c, v) PROVE TypeOK'
  BY <1>6 DEF ChatJoin
<1>7. ASSUME NEW c \in Conn, NEW v \in Conversation, ChatLeave(c, v) PROVE TypeOK'
  BY <1>7 DEF ChatLeave
<1>8. ASSUME NEW c \in Conn, NEW v \in Conversation, Relay(c, v) PROVE TypeOK'
  <2>1. Others(c, v) \in SUBSET Conn
    BY DEF Others
  <2>2. QED
    BY <1>8, <2>1 DEF Relay, Start
<1>9. ASSUME NEW c \in Conn, NEW U \in SUBSET User, ConversationNew(c, U) PROVE TypeOK'
  BY <1>9 DEF ConversationNew, Start
<1>10. ASSUME NEW g \in Conn, NEW u \in User, LookUp(g, u) PROVE TypeOK'
  BY <1>10 DEF LookUp
<1>11. ASSUME NEW g \in Conn, NEW d \in Conn, Send(g, d) PROVE TypeOK'
  BY <1>11 DEF Send
<1>12. ASSUME NEW g \in Conn, NEW d \in Conn, SendFull(g, d) PROVE TypeOK'
  BY <1>12 DEF SendFull
<1>13. ASSUME NEW g \in Conn, NEW d \in Conn, SendPanics(g, d) PROVE TypeOK'
  BY <1>13 DEF SendPanics
<1>14. ASSUME NEW g \in Conn, Sent(g) PROVE TypeOK'
  BY <1>14 DEF Sent
<1>15. ASSUME NEW g \in Conn, Unregister(g) PROVE TypeOK'
  BY <1>0, <1>15 DEF Unregister
<1>16. ASSUME NEW g \in Conn, UnregisterStale(g) PROVE TypeOK'
  BY <1>16 DEF UnregisterStale, Return
<1>17. ASSUME NEW g \in Conn, RemoveSubscriber(g) PROVE TypeOK'
  <2>1. victim[g] \in Conn
    BY <1>17 DEF RemoveSubscriber
  <2>2. WithoutSubscriber(victim[g]) \in [Conversation -> [User -> Conn \cup {NoConn}]]
    BY <2>1 DEF WithoutSubscriber
  <2>3. QED
    BY <1>0, <1>17, <2>1, <2>2 DEF RemoveSubscriber
<1>17a. ASSUME NEW g \in Conn, Unlock(g) PROVE TypeOK'
  BY <1>17a DEF Unlock, Return
<1>17b. ASSUME NEW g \in Conn, NEW d \in Conn, Notify(g, d) PROVE TypeOK'
  BY <1>17b DEF Notify
<1>17c. ASSUME NEW g \in Conn, NEW d \in Conn, NotifyBlocks(g, d) PROVE TypeOK'
  BY <1>17c DEF NotifyBlocks
<1>18. ASSUME NEW g \in Conn, CloseChannel(g) PROVE TypeOK'
  BY <1>18 DEF CloseChannel
<1>19. CASE UNCHANGED vars
  BY <1>19 DEF vars
<1> QED
  BY <1>1, <1>1a, <1>1b, <1>2, <1>3, <1>4, <1>5, <1>6, <1>7, <1>8, <1>9, <1>10, <1>11,
     <1>12, <1>13, <1>14, <1>15, <1>16, <1>17, <1>17a, <1>17b, <1>17c, <1>18, <1>19 DEF Next

(***************************************************************************)
(* Who an unregister is about                                              *)
(***************************************************************************)

LEMMA Victims ==
  ASSUME TypeOK, VictimKnown, [Next]_vars
  PROVE  VictimKnown'
<1> USE DEF TypeOK, VictimKnown, room, subs, task, wire
<1>1. CASE UNCHANGED <<pc, victim>>
  BY <1>1
<1>2. ASSUME NEW c \in Conn,
             \/ Register(c) \/ AnnounceJoin(c) \/ StartPumps(c) \/ Sent(c)
             \/ \E d \in Conn : NotifyBlocks(c, d)
      PROVE  VictimKnown'
  BY <1>2 DEF Register, AnnounceJoin, StartPumps, Sent, NotifyBlocks
<1>3. ASSUME NEW c \in Conn, NEW v \in Conversation, Relay(c, v)
      PROVE  VictimKnown'
  BY <1>3 DEF Relay, Start
<1>4. ASSUME NEW c \in Conn, NEW U \in SUBSET User, ConversationNew(c, U)
      PROVE  VictimKnown'
  BY <1>4 DEF ConversationNew, Start
<1>5. ASSUME NEW c \in Conn, ReadFails(c) PROVE VictimKnown'
  BY <1>5 DEF ReadFails
<1>6. ASSUME NEW g \in Conn, NEW d \in Conn, SendFull(g, d) PROVE VictimKnown'
  BY <1>6 DEF SendFull
<1>7. ASSUME NEW g \in Conn,
             Unregister(g) \/ UnregisterStale(g) \/ RemoveSubscriber(g) \/ Unlock(g)
      PROVE  VictimKnown'
  BY <1>7 DEF Unregister, UnregisterStale, RemoveSubscriber, Unlock, Return
<1>8. ASSUME NEW g \in Conn, CloseChannel(g) PROVE VictimKnown'
  BY <1>8 DEF CloseChannel
<1>9. ASSUME NEW c \in Conn,
             \/ SocketCloses(c) \/ WriteMessage(c) \/ WriteClose(c)
             \/ \E v \in Conversation : ChatJoin(c, v) \/ ChatLeave(c, v)
             \/ \E u \in User : LookUp(c, u)
             \/ \E d \in Conn : Send(c, d) \/ SendPanics(c, d) \/ Notify(c, d)
      PROVE  VictimKnown'
  BY <1>1, <1>9 DEF SocketCloses, WriteMessage, WriteClose, ChatJoin,
                    ChatLeave, LookUp, Send, SendPanics, Notify
<1>10. CASE UNCHANGED vars
  BY <1>1, <1>10 DEF vars
<1> HIDE DEF TypeOK, VictimKnown
<1> QED
  BY <1>2, <1>3, <1>4, <1>5, <1>6, <1>7, <1>8, <1>9, <1>10 DEF Next

(***************************************************************************)
(* Subscriptions                                                           *)
(***************************************************************************)

(* An unregister finds all the subscriptions of its client.                *)
LEMMA AllFound ==
  ASSUME TypeOK, SubscriptionsIndexed, NEW c \in Conn
  PROVE  \A v \in Conversation, u \in User :
           /\ WithoutSubscriber(c)[v][u] # c
           /\ WithoutSubscriber(c)[v][u] \in {chatSubs[v][u], NoConn}
BY RelayAssumption DEF TypeOK, SubscriptionsIndexed, WithoutSubscriber

LEMMA Subscriptions ==
  ASSUME TypeOK, VictimKnown, SubscriptionsIndexed, GoneAreSilent, [Next]_vars
  PROVE  SubscriptionsIndexed' /\ GoneAreSilent'
<1> USE RelayAssumption
    DEF TypeOK, SubscriptionsIndexed, GoneAreSilent, room, subs, task, wire
<1> DEFINE Same == chatSubs' = chatSubs /\ chatConvs' = chatConvs
           NobodyGone == \A c \in Conn : Gone(c)' => Gone(c)
<1>1. ASSUME Same, NobodyGone PROVE SubscriptionsIndexed' /\ GoneAreSilent'
  BY <1>1
<1>2. ASSUME NEW c \in Conn, NEW v \in Conversation, ChatJoin(c, v)
      PROVE  SubscriptionsIndexed' /\ GoneAreSilent'
  BY <1>2 DEF ChatJoin, Ready, Gone
<1>3. ASSUME NEW c \in Conn, NEW v \in Conversation, ChatLeave(c, v)
      PROVE  SubscriptionsIndexed' /\ GoneAreSilent'
  BY <1>3 DEF ChatLeave, Gone
<1>4. ASSUME NEW g \in Conn, NEW c \in Conn, RemoveSubscriber(g), victim[g] = c
      PROVE  SubscriptionsIndexed' /\ GoneAreSilent'
  <2>1. /\ chatSubs' = WithoutSubscriber(c)
        /\ chatConvs' = [chatConvs EXCEPT ![c] = {}]
    BY <1>4 DEF RemoveSubscriber
  <2>2. \A d \in Conn : Gone(d)' => Gone(d) \/ d = c
    BY <1>4 DEF RemoveSubscriber, Gone
  <2>3. \A v \in Conversation, u \in User :
          chatSubs'[v][u] # c /\ chatSubs'[v][u] \in {chatSubs[v][u], NoConn}
    BY <2>1, AllFound
  <2>4. SubscriptionsIndexed'
    BY <2>1, <2>3
  <2>5. GoneAreSilent'
    BY <2>2, <2>3
  <2> QED
    BY <2>4, <2>5
<1>4a. ASSUME NEW g \in Conn, RemoveSubscriber(g) PROVE victim[g] \in Conn
  BY <1>4a DEF RemoveSubscriber, VictimKnown
<1>5. ASSUME NEW c \in Conn,
             \/ SocketCloses(c) \/ WriteMessage(c) \/ WriteClose(c)
             \/ \E u \in User : LookUp(c, u)
             \/ \E d \in Conn : Send(c, d) \/ SendPanics(c, d) \/ Notify(c, d)
      PROVE  Same /\ NobodyGone
  BY <1>5 DEF SocketCloses, WriteMessage, WriteClose, LookUp, Send, SendPanics,
              Notify, Gone
<1>6. ASSUME NEW c \in Conn,
             \/ Register(c) \/ AnnounceJoin(c) \/ StartPumps(c) \/ ReadFails(c)
             \/ Sent(c) \/ CloseChannel(c) \/ Unregister(c) \/ UnregisterStale(c)
             \/ Unlock(c) \/ \E d \in Conn : SendFull(c, d) \/ NotifyBlocks(c, d)
      PROVE  Same /\ NobodyGone
  BY <1>6 DEF Register, AnnounceJoin, StartPumps, ReadFails, Sent, CloseChannel,
              Unregister, UnregisterStale, Unlock, Return, SendFull,
              NotifyBlocks, Gone
<1>7. ASSUME NEW c \in Conn,
             \/ \E v \in Conversation : Relay(c, v)
             \/ \E U \in SUBSET User : ConversationNew(c, U)
      PROVE  Same /\ NobodyGone
  BY <1>7 DEF Relay, ConversationNew, Start, Gone
<1>8. CASE UNCHANGED vars
  BY <1>1, <1>8 DEF vars, Gone
<1> QED
  BY <1>1, <1>2, <1>3, <1>4, <1>4a, <1>5, <1>6, <1>7, <1>8 DEF Next

(***************************************************************************)
(* Recipients                                                              *)
(***************************************************************************)

LEMMA Slots ==
  ASSUME TypeOK, SlotsOwned, [Next]_vars
  PROVE  SlotsOwned'
<1> USE RelayAssumption DEF TypeOK, SlotsOwned, room, subs, task, wire
<1>1. CASE UNCHANGED clients
  BY <1>1
<1>2. ASSUME NEW c \in Conn, Register(c) PROVE SlotsOwned'
  BY <1>2 DEF Register
<1>3. ASSUME NEW g \in Conn, Unregister(g) PROVE SlotsOwned'
  BY <1>3 DEF Unregister
<1>4. ASSUME NEW c \in Conn,
             \/ SocketCloses(c) \/ WriteMessage(c) \/ WriteClose(c) \/ ReadFails(c)
             \/ \E v \in Conversation : ChatJoin(c, v) \/ ChatLeave(c, v) \/ Relay(c, v)
             \/ \E U \in SUBSET User : ConversationNew(c, U)
      PROVE  UNCHANGED clients
  BY <1>4 DEF SocketCloses, WriteMessage, WriteClose, ReadFails, ChatJoin,
              ChatLeave, Relay, ConversationNew, Start
<1>5. ASSUME NEW c \in Conn,
             \/ \E u \in User : LookUp(c, u)
             \/ \E d \in Conn :
                  \/ Send(c, d) \/ SendFull(c, d) \/ SendPanics(c, d)
                  \/ Notify(c, d) \/ NotifyBlocks(c, d)
             \/ AnnounceJoin(c) \/ StartPumps(c) \/ Sent(c) \/ UnregisterStale(c)
             \/ RemoveSubscriber(c) \/ Unlock(c) \/ CloseChannel(c)
      PROVE  UNCHANGED clients
  BY <1>5 DEF LookUp, Send, SendFull, SendPanics, Notify, NotifyBlocks,
              AnnounceJoin, StartPumps, Sent, UnregisterStale, RemoveSubscriber,
              Unlock, CloseChannel
<1> QED
  BY <1>1, <1>2, <1>3, <1>4, <1>5 DEF Next, vars

LEMMA Targets ==
  ASSUME TypeOK, SlotsOwned, RecipientsAreOthers, NeverEchoed, [Next]_vars
  PROVE  RecipientsAreOthers' /\ NeverEchoed'
<1> USE RelayAssumption
    DEF TypeOK, RecipientsAreOthers, NeverEchoed, room, subs, task, wire
<1>1. ASSUME \A g \in Conn : /\ targets'[g] \subseteq targets[g]
                             /\ recipients'[g] \subseteq recipients[g]
      PROVE  RecipientsAreOthers' /\ NeverEchoed'
  BY <1>1
<1>2. ASSUME NEW c \in Conn, NEW v \in Conversation, Relay(c, v)
      PROVE  RecipientsAreOthers' /\ NeverEchoed'
  BY <1>2 DEF Relay, Start, Others
<1>3. ASSUME NEW c \in Conn, NEW U \in SUBSET User, ConversationNew(c, U)
      PROVE  RecipientsAreOthers' /\ NeverEchoed'
  BY <1>3 DEF ConversationNew, Start
<1>4. ASSUME NEW g \in Conn, NEW u \in User, LookUp(g, u)
      PROVE  RecipientsAreOthers' /\ NeverEchoed'
  BY <1>4 DEF LookUp, SlotsOwned
<1>5. ASSUME NEW c \in Conn,
             \/ Register(c) \/ AnnounceJoin(c) \/ StartPumps(c)
             \/ SocketCloses(c) \/ WriteMessage(c) \/ WriteClose(c) \/ ReadFails(c)
             \/ \E v \in Conversation : ChatJoin(c, v) \/ ChatLeave(c, v)
             \/ \E d \in Conn : SendPanics(c, d) \/ Notify(c, d) \/ NotifyBlocks(c, d)
             \/ Sent(c) \/ Unregister(c) \/ UnregisterStale(c)
             \/ RemoveSubscriber(c) \/ Unlock(c) \/ CloseChannel(c)
      PROVE  UNCHANGED <<targets, recipients>>
  BY <1>5 DEF Register, AnnounceJoin, StartPumps, SocketCloses, WriteMessage,
              WriteClose, ReadFails, ChatJoin, ChatLeave, SendPanics, Notify,
              NotifyBlocks, Sent, Unregister, UnregisterStale, RemoveSubscriber,
              Unlock, CloseChannel
<1>6. ASSUME NEW g \in Conn, NEW d \in Conn, Send(g, d) \/ SendFull(g, d)
      PROVE  \A h \in Conn : /\ targets'[h] \subseteq targets[h]
                             /\ recipients'[h] \subseteq recipients[h]
  <2>1. recipients' = recipients /\ targets' = [targets EXCEPT ![g] = @ \ {d}]
    BY <1>6 DEF Send, SendFull
  <2> QED
    BY <2>1
<1>7. CASE UNCHANGED vars
  BY <1>7 DEF vars
<1> QED
  BY <1>1, <1>2, <1>3, <1>4, <1>5, <1>6, <1>7 DEF Next

(***************************************************************************)
(* Why a relay ends                                                        *)
(***************************************************************************)

(* No goroutine keeps chatMu over a step.  lifecycleMu is kept only by one *)
(* inside register or unregister, which has messages to send, or needs     *)
(* chatMu, or is done; or by one that met a full buffer there.             *)
MutexesComeFree ==
  /\ chatMu = NoConn
  /\ lifecycleMu # NoConn =>
       /\ lifecycleMu \in Conn
       /\ pc[lifecycleMu] \in {"joining", "joined", "removed", "announcing", "stuck"}

LEMMA MutexStep ==
  ASSUME TypeOK, MutexesComeFree, [Next]_vars
  PROVE  MutexesComeFree'
<1> USE RelayAssumption DEF TypeOK, MutexesComeFree, room, subs, task, wire
<1>1. ASSUME NEW g \in Conn, Register(g) \/ Unregister(g) PROVE MutexesComeFree'
  BY <1>1 DEF Register, Unregister
<1>2. ASSUME NEW g \in Conn,
             \/ AnnounceJoin(g) \/ StartPumps(g) \/ RemoveSubscriber(g) \/ Unlock(g)
             \/ \E d \in Conn : Notify(g, d) \/ NotifyBlocks(g, d)
      PROVE  MutexesComeFree'
  BY <1>2 DEF AnnounceJoin, StartPumps, RemoveSubscriber, Unlock, Holds, Notify,
              NotifyBlocks
<1>3. ASSUME UNCHANGED <<lifecycleMu, chatMu>>,
             \A h \in Conn :
               pc[h] \in {"joining", "joined", "removed", "announcing", "stuck"} =>
                 pc'[h] = pc[h]
      PROVE  MutexesComeFree'
  BY <1>3
<1>4. ASSUME NEW c \in Conn,
             \/ SocketCloses(c) \/ WriteMessage(c) \/ WriteClose(c) \/ ReadFails(c)
             \/ \E v \in Conversation : ChatJoin(c, v) \/ ChatLeave(c, v) \/ Relay(c, v)
             \/ \E U \in SUBSET User : ConversationNew(c, U)
      PROVE  MutexesComeFree'
  BY <1>3, <1>4 DEF SocketCloses, WriteMessage, WriteClose, ReadFails,
                    ChatJoin, ChatLeave, Relay, ConversationNew, Start, Ready
<1>5. ASSUME NEW g \in Conn,
             \/ \E u \in User : LookUp(g, u)
             \/ \E d \in Conn : Send(g, d) \/ SendFull(g, d) \/ SendPanics(g, d)
             \/ Sent(g) \/ UnregisterStale(g) \/ CloseChannel(g)
      PROVE  MutexesComeFree'
  BY <1>3, <1>5 DEF LookUp, Send, SendFull, SendPanics, Sent, UnregisterStale,
                    Return, CloseChannel
<1>6. CASE UNCHANGED vars
  BY <1>6 DEF vars
<1> QED
  BY <1>1, <1>2, <1>4, <1>5, <1>6 DEF Next

(* A goroutine that has messages to send, or drops a slow client meanwhile.*)
Relaying(g) == pc[g] \in {"sending", "unregister", "removed", "announcing", "closing"}

(* How far a drop has still to go.                                         *)
Stage == [unregister |-> 4, removed |-> 3, announcing |-> 2, closing |-> 1,
          sending |-> 0]

(* What g has still to send before it goes on inside unregister.           *)
Noticing(g) == IF lifecycleMu = g THEN notices ELSE {}

(* Fewer users to look up; or as many, and fewer clients to send to; or    *)
(* both the same, and a drop that is nearer to its end; or a drop as far   *)
(* from it, and fewer clients to tell of it.                               *)
Shrinks(g) ==
  \/ recipients'[g] \subseteq recipients[g] /\ recipients'[g] # recipients[g]
  \/ /\ recipients'[g] = recipients[g]
     /\ targets'[g] \subseteq targets[g] /\ targets'[g] # targets[g]
  \/ /\ recipients'[g] = recipients[g] /\ targets'[g] = targets[g]
     /\ \/ Stage[pc'[g]] < Stage[pc[g]]
        \/ /\ pc'[g] = pc[g]
           /\ Noticing(g)' \subseteq Noticing(g) /\ Noticing(g)' # Noticing(g)

RelayAdvances ==
  \A g \in Conn : Relaying(g) /\ Relaying(g)' =>
    \/ UNCHANGED <<pc[g], targets[g], recipients[g], Noticing(g)>>
    \/ Shrinks(g)

LEMMA RelayStep ==
  ASSUME TypeOK, [Next]_vars
  PROVE  RelayAdvances
<1> USE RelayAssumption DEF TypeOK, RelayAdvances, Relaying, room, subs, task, wire
<1>1. ASSUME NEW h \in Conn,
             \A g \in Conn \ {h} :
               UNCHANGED <<pc[g], targets[g], recipients[g], Noticing(g)>>,
             \/ UNCHANGED <<pc[h], targets[h], recipients[h], Noticing(h)>>
             \/ ~Relaying(h) \/ ~Relaying(h)'
             \/ Shrinks(h)
      PROVE  RelayAdvances
  BY <1>1
<1>2. ASSUME NEW c \in Conn,
             \/ SocketCloses(c) \/ WriteMessage(c) \/ WriteClose(c) \/ ReadFails(c)
             \/ \E v \in Conversation : ChatJoin(c, v) \/ ChatLeave(c, v) \/ Relay(c, v)
             \/ \E U \in SUBSET User : ConversationNew(c, U)
      PROVE  RelayAdvances
  BY <1>1, <1>2 DEF SocketCloses, WriteMessage, WriteClose, ReadFails, ChatJoin,
                    ChatLeave, Relay, ConversationNew, Start, Ready, Noticing
<1>2a. ASSUME NEW c \in Conn, Register(c) \/ AnnounceJoin(c) \/ StartPumps(c)
      PROVE  RelayAdvances
  BY <1>1, <1>2a DEF Register, AnnounceJoin, StartPumps, Holds, Noticing
<1>3. ASSUME NEW g \in Conn, NEW u \in User, LookUp(g, u) PROVE RelayAdvances
  <2>1. recipients'[g] \subseteq recipients[g] /\ recipients'[g] # recipients[g]
    BY <1>3 DEF LookUp
  <2>2. Shrinks(g)
    BY <2>1 DEF Shrinks
  <2>3. QED
    BY <1>1, <1>3, <2>2 DEF LookUp, Noticing
<1>4. ASSUME NEW g \in Conn, NEW d \in Conn, Send(g, d) \/ SendFull(g, d)
      PROVE  RelayAdvances
  <2>1. /\ recipients'[g] = recipients[g]
        /\ targets'[g] \subseteq targets[g] /\ targets'[g] # targets[g]
    BY <1>4 DEF Send, SendFull
  <2>2. Shrinks(g)
    BY <2>1 DEF Shrinks
  <2>3. QED
    BY <1>1, <1>4, <2>2 DEF Send, SendFull, Noticing
<1>5. ASSUME NEW g \in Conn,
             \/ Unregister(g) \/ UnregisterStale(g) \/ RemoveSubscriber(g)
             \/ Unlock(g) \/ CloseChannel(g)
      PROVE  RelayAdvances
  <2>1. /\ UNCHANGED <<targets, recipients>>
        /\ \/ pc[g] = "unregister" /\ pc'[g] \in {"removed", "closing", "stale"}
           \/ pc[g] = "removed" /\ pc'[g] = "announcing"
           \/ pc[g] = "announcing" /\ pc'[g] \in {"closing", "left"}
           \/ pc[g] = "closing" /\ pc'[g] = "sending"
        /\ \A h \in Conn \ {g} : pc'[h] = pc[h]
    BY <1>5 DEF Unregister, UnregisterStale, RemoveSubscriber, Unlock,
                CloseChannel, Return
  <2>2. \A h \in Conn \ {g} : UNCHANGED Noticing(h)
    BY <1>5 DEF Unregister, UnregisterStale, RemoveSubscriber, Unlock, Holds,
                CloseChannel, Noticing
  <2>3. Relaying(g)' => Shrinks(g)
    BY <2>1 DEF Shrinks, Stage
  <2>4. QED
    BY <1>1, <2>1, <2>2, <2>3
<1>6. ASSUME NEW g \in Conn, Sent(g) \/ \E d \in Conn : SendPanics(g, d)
      PROVE  RelayAdvances
  BY <1>1, <1>6 DEF Sent, SendPanics, Noticing
<1>7. ASSUME NEW g \in Conn, NEW d \in Conn, Notify(g, d) PROVE RelayAdvances
  <2>1. UNCHANGED <<pc, targets, recipients, lifecycleMu>>
    BY <1>7 DEF Notify
  <2>2. \A h \in Conn \ {g} : UNCHANGED Noticing(h)
    BY <1>7 DEF Notify, Noticing
  <2>3. Noticing(g)' \subseteq Noticing(g) /\ Noticing(g)' # Noticing(g)
    BY <1>7 DEF Notify, Noticing
  <2>4. Shrinks(g)
    BY <2>1, <2>3 DEF Shrinks
  <2>5. QED
    BY <1>1, <2>1, <2>2, <2>4
<1>8. ASSUME NEW g \in Conn, NEW d \in Conn, NotifyBlocks(g, d) PROVE RelayAdvances
  BY <1>1, <1>8 DEF NotifyBlocks, Noticing
<1>9. CASE UNCHANGED vars
  BY <1>9 DEF vars, Noticing
<1> QED
  BY <1>2, <1>2a, <1>3, <1>4, <1>5, <1>6, <1>7, <1>8, <1>9 DEF Next

(***************************************************************************)
(* The theorems                                                            *)
(***************************************************************************)

LEMMA Invariance == Spec => []IndInv
<1>1. Init => IndInv
  BY RelayAssumption
     DEF Init, IndInv, TypeOK, VictimKnown, SubscriptionsIndexed,
         GoneAreSilent, Gone, SlotsOwned, RecipientsAreOthers, NeverEchoed
<1>2. IndInv /\ [Next]_vars => IndInv'
  BY Types, Victims, Subscriptions, Slots, Targets DEF IndInv
<1> QED
  BY <1>1, <1>2, PTL DEF Spec

(* The variables of the relay keep their types; no channel ever holds more *)
(* than its buffer, for any size of the buffer.                            *)
THEOREM TypeCorrect == Spec => []TypeOK
BY Invariance, PTL DEF IndInv

(* Every subscription is in the reverse index of its connection, for any   *)
(* number of connections of a user that join and leave conversations.      *)
THEOREM EverySubscriptionIndexed == Spec => []SubscriptionsIndexed
BY Invariance, PTL DEF IndInv

(* A connection that its own ReadPump took out of the Room is in no        *)
(* conversation.  One that a peer dropped is not meant: while its ReadPump *)
(* still runs it may subscribe again.                                      *)
THEOREM DepartedAreSilent == Spec => []NoPhantomRelay
<1>1. GoneAreSilent => NoPhantomRelay
  BY DEF GoneAreSilent, Gone, NoPhantomRelay
<1> QED
  BY <1>1, Invariance, PTL DEF IndInv

(* No message of a user is on its way to a connection of the same user.    *)
THEOREM NobodyHearsThemselves == Spec => []NeverEchoed
BY Invariance, PTL DEF IndInv

(* A goroutine that relays, and drops slow clients on the way, never waits *)
(* for chatMu, and for lifecycleMu only while another is between two steps *)
(* of register or unregister, or while one, itself or another, is stuck    *)
(* on the full buffer it met there.                                        *)
THEOREM MutexesKept == Spec => []MutexesComeFree
<1>1. Init => MutexesComeFree
  BY DEF Init, MutexesComeFree
<1>2. TypeOK /\ MutexesComeFree /\ [Next]_vars => MutexesComeFree'
  BY MutexStep
<1> QED
  BY <1>1, <1>2, TypeCorrect, PTL DEF Spec

(* As long as a relay is neither over nor stuck on a full buffer met with  *)
(* lifecycleMu held, nothing the others do adds to what it has left to do, *)
(* and each step of its own takes from it, the sends inside unregister     *)
(* included: a dropped client is not tried again, and a drop is not begun  *)
(* again.                                                                  *)
THEOREM RelaysAdvance == Spec => [][RelayAdvances]_vars
<1>1. TypeOK /\ [Next]_vars => [RelayAdvances]_vars
  BY RelayStep
<1> QED
  BY <1>1, TypeCorrect, PTL DEF Spec

=============================================================================
