------------------------------ MODULE ChatRelay ------------------------------
(***************************************************************************)
(* The relay of chat events inside one Room, and the sending of messages   *)
(* to clients (src/internal/hub: chat.go, the Send, ReadPump and WritePump *)
(* of client.go, and what register and unregister of room.go do to         *)
(* subscriptions).                                                         *)
(*                                                                         *)
(* pc[c] is where the ReadPump goroutine of c is.  What it sends, it sends *)
(* one client at a time and outside chatMu; `targets` are the *Client      *)
(* pointers it already holds, `recipients` the users it has yet to look up.*)
(* Other goroutines send in the same two steps (PushNotification looks a   *)
(* user up and sends), and are left out.                                   *)
(*                                                                         *)
(* register and unregister send with lifecycleMu held: `notices` are the   *)
(* clients whoever holds it has yet to send to.  Which clients the healing *)
(* of a chain, a change of the chat sessions or a taken-over tab concern,  *)
(* other modules say; here it is any of them.  What register sends to the  *)
(* joiner itself, a handful of messages into a channel that is new and     *)
(* empty, is left out.                                                     *)
(***************************************************************************)
EXTENDS Naturals, FiniteSets

CONSTANTS
  User,          \* users of the workspace
  Conn,          \* connections (*Client objects), each used once
  UserOf,        \* the user a connection's token names
  Conversation,  \* conversation IDs
  Speaker,       \* connections whose browser sends chat events
  SendBuffer,    \* capacity of Client.send (256 in the code)
  NoConn         \* no connection, and no holder of a lock

ASSUME RelayAssumption ==
  /\ UserOf \in [Conn -> User]
  /\ SendBuffer \in Nat \ {0}
  /\ Speaker \subseteq Conn
  /\ NoConn \notin Conn

VARIABLES
  clients,       \* Room.clients: user -> registered connection or NoConn
  lifecycleMu,   \* Room.lifecycleMu: the goroutine inside register or unregister
  notices,       \* the clients it has yet to send to before it goes on
  chatMu,        \* Room.chatMu: the goroutine that holds it between steps
  chatSubs,      \* Room.chatSubs: conversation -> user -> connection
  chatConvs,     \* Client.chatConvs, the reverse index
  pc,            \* where a goroutine is
  victim,        \* the client an unregister in progress is about
  targets,       \* the clients it has yet to send its message to
  recipients,    \* the users it has yet to look up
  send,          \* the number of messages buffered in Client.send
  closed,        \* connections whose send channel is closed
  sock,          \* connections whose pumps have started and socket is open
  up             \* the process runs (a send on a closed channel panics)

room == <<clients, lifecycleMu, notices>>
subs == <<chatMu, chatSubs, chatConvs>>
task == <<pc, victim, targets, recipients>>
wire == <<send, closed, sock>>
vars == <<room, subs, task, wire, up>>

TypeOK ==
  /\ clients \in [User -> Conn \cup {NoConn}]
  /\ lifecycleMu \in Conn \cup {NoConn}
  /\ notices \subseteq Conn
  /\ chatMu \in Conn \cup {NoConn}
  /\ chatSubs \in [Conversation -> [User -> Conn \cup {NoConn}]]
  /\ chatConvs \in [Conn -> SUBSET Conversation]
  /\ pc \in [Conn -> {"idle", "joining", "joined", "reading", "sending",
                      "unregister", "removed", "announcing", "closing",
                      "left", "stale", "stuck"}]
  /\ victim \in [Conn -> Conn \cup {NoConn}]
  /\ targets \in [Conn -> SUBSET Conn]
  /\ recipients \in [Conn -> SUBSET User]
  /\ send \in [Conn -> 0..SendBuffer]
  /\ closed \subseteq Conn
  /\ sock \subseteq Conn
  /\ up \in BOOLEAN

Init ==
  /\ clients = [u \in User |-> NoConn]
  /\ lifecycleMu = NoConn
  /\ notices = {}
  /\ chatMu = NoConn
  /\ chatSubs = [v \in Conversation |-> [u \in User |-> NoConn]]
  /\ chatConvs = [c \in Conn |-> {}]
  /\ pc = [c \in Conn |-> "idle"]
  /\ victim = [g \in Conn |-> NoConn]
  /\ targets = [g \in Conn |-> {}]
  /\ recipients = [g \in Conn |-> {}]
  /\ send = [c \in Conn |-> 0]
  /\ closed = {}
  /\ sock = {}
  /\ up = TRUE

(* ReadPump is about to handle a message it has read.                      *)
Ready(c) == up /\ pc[c] = "reading" /\ c \in sock

Registered == {clients[u] : u \in User} \ {NoConn}

(***************************************************************************)
(* Sending with lifecycleMu held                                           *)
(***************************************************************************)

(* g holds lifecycleMu, and has sent what it had to before it goes on.     *)
Holds(g) == up /\ lifecycleMu = g /\ notices = {}

(* Client.Send to one of them, with a place in the buffer.  (Its channel is*)
(* open: Send closes it after unregister has taken the client out.)        *)
Notify(g, d) ==
  /\ up /\ lifecycleMu = g /\ d \in notices
  /\ send[d] < SendBuffer
  /\ send' = [send EXCEPT ![d] = @ + 1]
  /\ notices' = notices \ {d}
  /\ UNCHANGED <<clients, lifecycleMu, subs, task, closed, sock, up>>

(* With the buffer full, Send calls unregister: the goroutine waits for    *)
(* the lifecycleMu it holds.                                               *)
NotifyBlocks(g, d) ==
  /\ up /\ lifecycleMu = g /\ d \in notices
  /\ send[d] >= SendBuffer
  /\ pc' = [pc EXCEPT ![g] = "stuck"]
  /\ notices' = {}
  /\ UNCHANGED <<clients, lifecycleMu, subs, victim, targets, recipients, wire, up>>

(***************************************************************************)
(* Connections                                                             *)
(***************************************************************************)

(* register: store the client over its predecessor, if there is one, which *)
(* is told unless it is the same tab, as is the tail a restored link is    *)
(* appended to.                                                            *)
Register(c) ==
  /\ up /\ pc[c] = "idle" /\ lifecycleMu = NoConn
  /\ lifecycleMu' = c
  /\ clients' = [clients EXCEPT ![UserOf[c]] = c]
  /\ \E D \in SUBSET Registered :
       Cardinality(D \ {clients[UserOf[c]]}) <= 1 /\ notices' = D
  /\ pc' = [pc EXCEPT ![c] = "joining"]
  /\ UNCHANGED <<subs, victim, targets, recipients, wire, up>>

(* register goes on: joined to all the others.                             *)
AnnounceJoin(c) ==
  /\ Holds(c) /\ pc[c] = "joining"
  /\ notices' = Registered \ {c}
  /\ pc' = [pc EXCEPT ![c] = "joined"]
  /\ UNCHANGED <<clients, lifecycleMu, subs, victim, targets, recipients, wire, up>>

(* register unlocks, and Join starts the two pumps.                        *)
StartPumps(c) ==
  /\ Holds(c) /\ pc[c] = "joined"
  /\ lifecycleMu' = NoConn
  /\ sock' = sock \cup {c}
  /\ pc' = [pc EXCEPT ![c] = "reading"]
  /\ UNCHANGED <<clients, notices, subs, victim, targets, recipients, send,
                 closed, up>>

(* The browser goes away, a write fails or times out, or the delayed close *)
(* of a superseded connection is due.                                      *)
SocketCloses(c) ==
  /\ up /\ c \in sock
  /\ sock' = sock \ {c}
  /\ UNCHANGED <<room, subs, task, send, closed, up>>

(* WritePump takes a message from the channel and writes it.               *)
WriteMessage(c) ==
  /\ up /\ c \in sock /\ send[c] > 0
  /\ send' = [send EXCEPT ![c] = @ - 1]
  /\ UNCHANGED <<room, subs, task, closed, sock, up>>

(* WritePump finds the channel closed and drained, and closes the socket.  *)
WriteClose(c) ==
  /\ up /\ c \in sock /\ send[c] = 0 /\ c \in closed
  /\ sock' = sock \ {c}
  /\ UNCHANGED <<room, subs, task, send, closed, up>>

(* ReadMessage fails: ReadPump unregisters its own connection.             *)
ReadFails(c) ==
  /\ up /\ pc[c] = "reading" /\ c \notin sock
  /\ pc' = [pc EXCEPT ![c] = "unregister"]
  /\ victim' = [victim EXCEPT ![c] = c]
  /\ UNCHANGED <<room, subs, targets, recipients, wire, up>>

(***************************************************************************)
(* Subscriptions                                                           *)
(***************************************************************************)

(* handleChatJoin, addChatSubscriber: whatever connection the user had     *)
(* subscribed before.                                                      *)
ChatJoin(c, v) ==
  /\ Ready(c) /\ chatMu = NoConn
  /\ chatSubs' = [chatSubs EXCEPT ![v][UserOf[c]] = c]
  /\ chatConvs' = [chatConvs EXCEPT ![c] = @ \cup {v}]
  /\ UNCHANGED <<room, chatMu, task, wire, up>>

(* Mutant: only the reverse index forgets the conversation.                *)
LeaveForgotten(c, v) ==
  /\ Ready(c) /\ chatMu = NoConn
  /\ chatConvs' = [chatConvs EXCEPT ![c] = @ \ {v}]
  /\ UNCHANGED <<room, chatMu, chatSubs, task, wire, up>>

(* handleChatLeave, removeChatSubscription: the entry goes by user, also   *)
(* when it is another connection's.                                        *)
ChatLeave(c, v) ==
  /\ Ready(c) /\ chatMu = NoConn
  /\ chatSubs' = [chatSubs EXCEPT ![v][UserOf[c]] = NoConn]
  /\ chatConvs' = [chatConvs EXCEPT ![c] = @ \ {v}]
  /\ UNCHANGED <<room, chatMu, task, wire, up>>

(***************************************************************************)
(* Sending                                                                 *)
(***************************************************************************)

Start(g, D, U) ==
  /\ pc' = [pc EXCEPT ![g] = "sending"]
  /\ targets' = [targets EXCEPT ![g] = D]
  /\ recipients' = [recipients EXCEPT ![g] = U]
  /\ UNCHANGED <<room, victim, chatSubs, chatConvs, wire, up>>

(* Mutant: the connection is left out instead of the user.                 *)
ButThisConnection(c, v) ==
  {d \in Conn : chatSubs[v][UserOf[d]] = d /\ d # c}

(* The snapshot of relayChat: the subscribers except the sending user.     *)
Others(c, v) ==
  {d \in Conn : chatSubs[v][UserOf[d]] = d /\ UserOf[d] # UserOf[c]}


(* handleChatMessage, Edit, Delete, Reaction and Typing: relayChat takes   *)
(* its snapshot under chatMu and unlocks.                                  *)
Relay(c, v) ==
  /\ Ready(c) /\ c \in Speaker /\ chatMu = NoConn
  /\ Start(c, Others(c, v), {})
  /\ UNCHANGED chatMu

(* handleChatConversationNew, to some users other than the sender.         *)
ConversationNew(c, U) ==
  /\ Ready(c) /\ c \in Speaker
  /\ Start(c, {}, U \ {UserOf[c]})
  /\ UNCHANGED chatMu

(* getClient for the next recipient; nothing is sent to who is not here.   *)
LookUp(g, u) ==
  /\ up /\ pc[g] = "sending" /\ targets[g] = {} /\ u \in recipients[g]
  /\ recipients' = [recipients EXCEPT ![g] = @ \ {u}]
  /\ targets' = [targets EXCEPT ![g] = {clients[u]} \ {NoConn}]
  /\ UNCHANGED <<room, subs, pc, victim, wire, up>>

(* Mutant: the sender does not look whether the buffer is full.            *)
SendUnbounded(g, d) ==
  /\ up /\ pc[g] = "sending" /\ d \in targets[g] /\ d \notin closed
  /\ send' = [send EXCEPT ![d] = @ + 1]
  /\ targets' = [targets EXCEPT ![g] = @ \ {d}]
  /\ UNCHANGED <<room, subs, pc, victim, recipients, closed, sock, up>>

(* Client.Send, with a place in the buffer.                                *)
Send(g, d) ==
  /\ up /\ pc[g] = "sending" /\ d \in targets[g]
  /\ d \notin closed /\ send[d] < SendBuffer
  /\ send' = [send EXCEPT ![d] = @ + 1]
  /\ targets' = [targets EXCEPT ![g] = @ \ {d}]
  /\ UNCHANGED <<room, subs, pc, victim, recipients, closed, sock, up>>

(* Client.Send with the buffer full: unregister, on the goroutine of the   *)
(* sender.                                                                 *)
SendFull(g, d) ==
  /\ up /\ pc[g] = "sending" /\ d \in targets[g]
  /\ d \notin closed /\ send[d] >= SendBuffer
  /\ pc' = [pc EXCEPT ![g] = "unregister"]
  /\ victim' = [victim EXCEPT ![g] = d]
  /\ targets' = [targets EXCEPT ![g] = @ \ {d}]
  /\ UNCHANGED <<room, subs, recipients, wire, up>>

(* Client.Send after the channel was closed: the select panics, whether or *)
(* not the buffer is full, and nothing recovers.                           *)
SendPanics(g, d) ==
  /\ up /\ pc[g] = "sending" /\ d \in targets[g] /\ d \in closed
  /\ up' = FALSE
  /\ UNCHANGED <<room, subs, task, wire>>

(* The handler returns to its loop.                                        *)
Sent(g) ==
  /\ up /\ pc[g] = "sending" /\ targets[g] = {} /\ recipients[g] = {}
  /\ pc' = [pc EXCEPT ![g] = "reading"]
  /\ chatMu' = IF chatMu = g THEN NoConn ELSE chatMu
  /\ UNCHANGED <<room, chatSubs, chatConvs, victim, targets, recipients, wire, up>>

(***************************************************************************)
(* Departure                                                               *)
(***************************************************************************)

(* unregister returns: ReadPump ends, Send goes on to close the channel.   *)
Return(g, outcome) ==
  pc' = [pc EXCEPT ![g] = IF victim[g] = g THEN outcome ELSE "closing"]

(* Mutant: unregister is over when the client is out of the Room.          *)
UnregisterOnly(g) ==
  LET c == victim[g] IN
  /\ up /\ pc[g] = "unregister" /\ lifecycleMu = NoConn
  /\ clients[UserOf[c]] = c
  /\ clients' = [clients EXCEPT ![UserOf[c]] = NoConn]
  /\ Return(g, "left")
  /\ UNCHANGED <<lifecycleMu, notices, subs, victim, targets, recipients, wire, up>>

(* unregister, CompareAndDelete: the client is still the registered one.   *)
(* detach and removeFromChatSession tell some of the others.               *)
Unregister(g) ==
  LET c == victim[g] IN
  /\ up /\ pc[g] = "unregister" /\ lifecycleMu = NoConn
  /\ clients[UserOf[c]] = c
  /\ clients' = [clients EXCEPT ![UserOf[c]] = NoConn]
  /\ lifecycleMu' = g
  /\ notices' \in SUBSET (Registered \ {c})
  /\ pc' = [pc EXCEPT ![g] = "removed"]
  /\ UNCHANGED <<subs, victim, targets, recipients, wire, up>>

(* It is not: unregister does nothing, and keeps the subscriptions.        *)
UnregisterStale(g) ==
  LET c == victim[g] IN
  /\ up /\ pc[g] = "unregister" /\ lifecycleMu = NoConn
  /\ clients[UserOf[c]] # c
  /\ Return(g, "stale")
  /\ UNCHANGED <<room, subs, victim, targets, recipients, wire, up>>

(* removeChatSubscriber, by way of the reverse index.                      *)
WithoutSubscriber(c) ==
  [v \in Conversation |-> IF v \in chatConvs[c]
                          THEN [chatSubs[v] EXCEPT ![UserOf[c]] = NoConn]
                          ELSE chatSubs[v]]

(* unregister goes on: removeChatSubscriber, then left to all the others.  *)
RemoveSubscriber(g) ==
  LET c == victim[g] IN
  /\ Holds(g) /\ pc[g] = "removed" /\ chatMu = NoConn
  /\ chatSubs' = WithoutSubscriber(c)
  /\ chatConvs' = [chatConvs EXCEPT ![c] = {}]
  /\ notices' = Registered
  /\ pc' = [pc EXCEPT ![g] = "announcing"]
  /\ UNCHANGED <<clients, lifecycleMu, chatMu, victim, targets, recipients, wire, up>>

(* unregister unlocks and returns.                                         *)
Unlock(g) ==
  /\ Holds(g) /\ pc[g] = "announcing"
  /\ lifecycleMu' = NoConn
  /\ Return(g, "left")
  /\ UNCHANGED <<clients, notices, subs, victim, targets, recipients, wire, up>>

(* Send, closeOnce: the channel of the dropped client is closed.           *)
CloseChannel(g) ==
  /\ up /\ pc[g] = "closing"
  /\ closed' = closed \cup {victim[g]}
  /\ pc' = [pc EXCEPT ![g] = "sending"]
  /\ victim' = [victim EXCEPT ![g] = NoConn]
  /\ UNCHANGED <<room, subs, targets, recipients, send, sock, up>>

Next ==
  \/ \E c \in Conn :
       \/ Register(c) \/ AnnounceJoin(c) \/ StartPumps(c)
       \/ SocketCloses(c) \/ WriteMessage(c) \/ WriteClose(c) \/ ReadFails(c)
       \/ \E v \in Conversation : ChatJoin(c, v) \/ ChatLeave(c, v) \/ Relay(c, v)
       \/ \E U \in SUBSET User : ConversationNew(c, U)
  \/ \E g \in Conn :
       \/ \E u \in User : LookUp(g, u)
       \/ \E d \in Conn :
            \/ Send(g, d) \/ SendFull(g, d) \/ SendPanics(g, d)
            \/ Notify(g, d) \/ NotifyBlocks(g, d)
       \/ Sent(g) \/ Unregister(g) \/ UnregisterStale(g)
       \/ RemoveSubscriber(g) \/ Unlock(g) \/ CloseChannel(g)

Spec == Init /\ [][Next]_vars

(* A goroutine that can run does.  Weak fairness is enough even where it   *)
(* waits for a mutex: lifecycleMu is taken once for each Join and each     *)
(* departure, and chatMu never kept.  Nothing makes a browser connect,     *)
(* read, or leave.                                                         *)
Proceeds(g) ==
  \/ AnnounceJoin(g) \/ StartPumps(g)
  \/ \E u \in User : LookUp(g, u)
  \/ \E d \in Conn :
       \/ Send(g, d) \/ SendFull(g, d) \/ SendPanics(g, d)
       \/ Notify(g, d) \/ NotifyBlocks(g, d)
  \/ Sent(g) \/ Unregister(g) \/ UnregisterStale(g)
  \/ RemoveSubscriber(g) \/ Unlock(g) \/ CloseChannel(g)

Fairness == \A g \in Conn : WF_vars(Proceeds(g))

FairSpec == Spec /\ Fairness

(***************************************************************************)
(* Properties                                                              *)
(***************************************************************************)

(* What unregister relies on to find the subscriptions of a client without *)
(* a scan: an entry of chatSubs names a connection of its user, and that   *)
(* connection's reverse index holds the conversation, also while an older  *)
(* connection of the user still joins and leaves conversations.            *)
SubscriptionsIndexed ==
  \A v \in Conversation, u \in User :
    chatSubs[v][u] # NoConn =>
      /\ UserOf[chatSubs[v][u]] = u
      /\ v \in chatConvs[chatSubs[v][u]]

(* A client whose ReadPump has ended with it registered is in no           *)
(* conversation, and never will be: no relay targets it.                   *)
NoPhantomRelay ==
  \A c \in Conn, v \in Conversation :
    pc[c] = "left" => chatSubs[v][UserOf[c]] # c

(* What a user sends is never echoed to it, on whichever connection it has *)
(* by now, although a superseded connection of a user goes on relaying.    *)
NeverEchoed ==
  \A c \in Conn : \A d \in targets[c] : UserOf[d] # UserOf[c]


=============================================================================
