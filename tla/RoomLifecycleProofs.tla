------------------------- MODULE RoomLifecycleProofs -------------------------
(* Proofs about RoomLifecycle for every set of users and connections:      *)
(* types, mutual exclusion of the critical sections of lifecycleMu,        *)
(* agreement on presence, that the hub only holds a ticking room, that     *)
(* nobody is evicted, that presence is recorded in Redis, and that a Room  *)
(* implements Roster.                                                      *)
EXTENDS RoomLifecycle, TLAPS

(* Every variable keeps its type, in whatever order the goroutines run.    *)
THEOREM TypeCorrect == Spec => []TypeOK
<1>1. Init => TypeOK
  BY ConnAssumption DEF Init, TypeOK, Room, Critical
<1>2. TypeOK /\ [Next]_vars => TypeOK'
  <2> SUFFICES ASSUME TypeOK, [Next]_vars
               PROVE  TypeOK'
    OBVIOUS
  <2> USE ConnAssumption DEF TypeOK, Room, Critical, Goto
  <2>1. ASSUME NEW c \in Conn, Connect(c) PROVE TypeOK'
    BY <2>1 DEF Connect
  <2>2. ASSUME NEW c \in Conn, CreateRoom(c) PROVE TypeOK'
    BY <2>2 DEF CreateRoom
  <2>3. ASSUME NEW c \in Conn, LockRegister(c) PROVE TypeOK'
    BY <2>3 DEF LockRegister, Users
  <2>4. ASSUME NEW c \in Conn, Store(c) PROVE TypeOK'
    <3>1. clients' \in [Room -> [User -> Conn \cup {NoConn}]]
      BY <2>4 DEF Store
    <3>2. sock' \in [Conn -> {"open", "replaced", "closed"}]
      BY <2>4 DEF Store, CloseLater
    <3>3. pc' = [pc EXCEPT ![c] = "announce"] \/ pc' = [pc EXCEPT ![c] = "stuck"]
      BY <2>4 DEF Store, Blocks
    <3>4. UNCHANGED <<hubRoom, ticking, lock, room, victim, full, view, members>>
      BY <2>4 DEF Store
    <3>5. QED
      BY <3>1, <3>2, <3>3, <3>4
  <2>5. ASSUME NEW c \in Conn, AnnounceJoin(c) PROVE TypeOK'
    <3>0. /\ view \in [Conn -> SUBSET User]
          /\ UserOf[c] \in User
          /\ \A d \in Conn : view[d] \in SUBSET User
      OBVIOUS
    <3>a. \A d \in Conn : view[d] \cup {UserOf[c]} \in SUBSET User
      BY ONLY <3>0
    <3>b. PICK told : view' = WithJoined(told, UserOf[c])
      BY <2>5 DEF AnnounceJoin
    <3>1. view' \in [Conn -> SUBSET User]
      BY ONLY <3>0, <3>b DEF WithJoined
    <3>2. /\ \E l \in {"presence", "stuck"} : pc' = [pc EXCEPT ![c] = l]
          /\ lock' = lock \/ lock' = [lock EXCEPT ![room[c]] = NoConn]
      BY <2>5 DEF AnnounceJoin, Blocks
    <3>3. UNCHANGED <<hubRoom, ticking, clients, room, victim, sock, full, members>>
      BY <2>5 DEF AnnounceJoin
    <3>4. pc' \in [Conn -> {"idle", "create", "register", "presence", "online",
                            "unregister", "closed"} \cup Critical]
      BY <3>2
    <3>5. lock' \in [Room -> Conn \cup {NoConn}]
      BY <3>2
    <3>6. QED
      BY <3>1, <3>3, <3>4, <3>5
  <2>6. ASSUME NEW c \in Conn, SetPresence(c) PROVE TypeOK'
    BY <2>6 DEF SetPresence
  <2>7. ASSUME NEW c \in Conn,
               \/ UpdateStatus(c) \/ PeerCloses(c) \/ CloseReplaced(c)
               \/ ReadFails(c) \/ BufferFills(c) \/ BufferDrains(c)
        PROVE  TypeOK'
    <3>1. CASE UpdateStatus(c)
      BY <3>1 DEF UpdateStatus
    <3>2. CASE PeerCloses(c)
      BY <3>2 DEF PeerCloses
    <3>3. CASE CloseReplaced(c)
      BY <3>3 DEF CloseReplaced
    <3>4. CASE ReadFails(c)
      BY <3>4 DEF ReadFails
    <3>5. CASE BufferFills(c) \/ BufferDrains(c)
      BY <3>5 DEF BufferFills, BufferDrains
    <3>6. QED
      BY <2>7, <3>1, <3>2, <3>3, <3>4, <3>5
  <2>8. ASSUME NEW c \in Conn, NEW d \in Conn, DropSlow(c, d) PROVE TypeOK'
    BY <2>8 DEF DropSlow
  <2>9. ASSUME NEW c \in Conn, Unregister(c) PROVE TypeOK'
    BY <2>9 DEF Unregister
  <2>10. ASSUME NEW c \in Conn, UnregisterStale(c) PROVE TypeOK'
    BY <2>10 DEF UnregisterStale, Return
  <2>11. ASSUME NEW c \in Conn, AnnounceLeft(c) PROVE TypeOK'
    <3>0. /\ view \in [Conn -> SUBSET User]
          /\ \A d \in Conn : view[d] \in SUBSET User
      OBVIOUS
    <3>a. \A d \in Conn : view[d] \ {UserOf[victim[c]]} \in SUBSET User
      BY ONLY <3>0
    <3>b. PICK told : view' = WithLeft(told, UserOf[victim[c]])
      BY <2>11 DEF AnnounceLeft
    <3>1. view' \in [Conn -> SUBSET User]
      BY ONLY <3>0, <3>b DEF WithLeft
    <3>2. /\ \E l \in {"remove", "closed", "online", "stuck"} :
                pc' = [pc EXCEPT ![c] = l]
          /\ lock' = lock \/ lock' = [lock EXCEPT ![room[c]] = NoConn]
          /\ sock' = sock \/ sock' = [sock EXCEPT ![victim[c]] = "closed"]
      BY <2>11 DEF AnnounceLeft, Blocks, Return
    <3>3. UNCHANGED <<hubRoom, ticking, clients, room, victim, full, members>>
      BY <2>11 DEF AnnounceLeft
    <3>4. pc' \in [Conn -> {"idle", "create", "register", "presence", "online",
                            "unregister", "closed"} \cup Critical]
      BY <3>2
    <3>5. /\ lock' \in [Room -> Conn \cup {NoConn}]
          /\ sock' \in [Conn -> {"open", "replaced", "closed"}]
      BY <3>2
    <3>6. QED
      BY <3>1, <3>3, <3>4, <3>5
  <2>12. ASSUME NEW c \in Conn, RemoveRoom(c) \/ Shutdown(c) PROVE TypeOK'
    BY <2>12 DEF RemoveRoom, Shutdown, Return
  <2>13. CASE UNCHANGED vars
    BY <2>13 DEF vars
  <2>14. QED
    BY <2>1, <2>2, <2>3, <2>4, <2>5, <2>6, <2>7, <2>8, <2>9, <2>10, <2>11,
       <2>12, <2>13 DEF Next
<1>3. QED
  BY <1>1, <1>2, PTL DEF Spec

(***************************************************************************)
(* Mutual exclusion                                                        *)
(***************************************************************************)

(* lock[r] names the goroutine inside a critical section of r, and there is*)
(* no other inside.                                                        *)
LockInv ==
  \A r \in Room, c \in Conn :
    lock[r] = c <=> pc[c] \in Critical /\ room[c] = r

RoomInv == \A c \in Conn : pc[c] \notin {"idle", "create"} => room[c] \in Room

(* Goroutines that have not yet stored their connection.                   *)
Early == {"idle", "create", "register", "store"}

(* What the map holds under a user is a connection of that user to that    *)
(* Room, stored by its register.                                           *)
RegInv ==
  \A r \in Room, c \in Conn, u \in User :
    clients[r][u] = c => UserOf[c] = u /\ room[c] = r /\ pc[c] \notin Early

Structure == LockInv /\ RoomInv /\ RegInv

(* A step leaves the structure alone when it moves a goroutine neither into*)
(* nor out of a critical section or Early, and changes neither the map nor *)
(* the rooms.                                                              *)
LEMMA StructureFrame ==
  ASSUME Structure, UNCHANGED <<clients, lock, room>>,
         \A d \in Conn :
           /\ pc'[d] \in Critical <=> pc[d] \in Critical
           /\ pc'[d] \in Early <=> pc[d] \in Early
           /\ pc'[d] \in {"idle", "create"} <=> pc[d] \in {"idle", "create"}
  PROVE  Structure'
BY DEF Structure, LockInv, RoomInv, RegInv

(* Structure is inductive: only a goroutine that finds lifecycleMu free    *)
(* enters a critical section.                                              *)
LEMMA StructureStep ==
  ASSUME TypeOK, Structure, [Next]_vars
  PROVE  Structure'
<1> USE ConnAssumption DEF TypeOK, Room, Critical, Early, Goto
<1>1. ASSUME NEW c \in Conn, Connect(c) PROVE Structure'
  BY <1>1 DEF Connect, Structure, LockInv, RoomInv, RegInv
<1>2. ASSUME NEW c \in Conn, CreateRoom(c) PROVE Structure'
  BY <1>2 DEF CreateRoom, Structure, LockInv, RoomInv, RegInv
<1>3. ASSUME NEW c \in Conn, LockRegister(c) PROVE Structure'
  BY <1>3 DEF LockRegister, MayLock, Structure, LockInv, RoomInv, RegInv
<1>4. ASSUME NEW c \in Conn, Store(c) PROVE Structure'
  <2>1. /\ clients' = [clients EXCEPT ![room[c]][UserOf[c]] = c]
        /\ UNCHANGED <<lock, room>>
        /\ pc[c] = "store"
        /\ pc' = [pc EXCEPT ![c] = "announce"] \/ pc' = [pc EXCEPT ![c] = "stuck"]
    BY <1>4 DEF Store, Blocks
  <2>2. room[c] \in Room
    BY <2>1 DEF Structure, RoomInv
  <2>3. LockInv'
    BY <2>1 DEF Structure, LockInv
  <2>4. RoomInv'
    BY <2>1 DEF Structure, RoomInv
  <2>5. RegInv'
    BY <2>1, <2>2 DEF Structure, RegInv
  <2>6. QED
    BY <2>3, <2>4, <2>5 DEF Structure
<1>5. ASSUME NEW c \in Conn, AnnounceJoin(c) PROVE Structure'
  <2>1. /\ UNCHANGED <<clients, room>>
        /\ pc[c] = "announce"
        /\ \/ /\ pc' = [pc EXCEPT ![c] = "presence"]
              /\ lock' = [lock EXCEPT ![room[c]] = NoConn]
           \/ /\ pc' = [pc EXCEPT ![c] = "stuck"]
              /\ UNCHANGED lock
    BY <1>5 DEF AnnounceJoin, Blocks
  <2>2. LockInv'
    BY <2>1 DEF Structure, LockInv, RoomInv
  <2>3. RoomInv'
    BY <2>1 DEF Structure, RoomInv
  <2>4. RegInv'
    BY <2>1 DEF Structure, RegInv
  <2>5. QED
    BY <2>2, <2>3, <2>4 DEF Structure
<1>6. ASSUME NEW c \in Conn,
             \/ SetPresence(c) \/ UpdateStatus(c) \/ PeerCloses(c)
             \/ CloseReplaced(c) \/ ReadFails(c) \/ BufferFills(c)
             \/ BufferDrains(c) \/ \E d \in Conn : DropSlow(c, d)
             \/ UnregisterStale(c)
      PROVE  Structure'
  <2>1. UNCHANGED <<clients, lock, room>>
    BY <1>6 DEF SetPresence, UpdateStatus, PeerCloses, CloseReplaced, ReadFails,
                BufferFills, BufferDrains, DropSlow, UnregisterStale
  <2>2. \/ UNCHANGED pc
        \/ /\ pc[c] \in {"presence", "online", "unregister"}
           /\ \E l \in {"online", "unregister", "closed"} :
                pc' = [pc EXCEPT ![c] = l]
    BY <1>6 DEF SetPresence, UpdateStatus, PeerCloses, CloseReplaced, ReadFails,
                BufferFills, BufferDrains, DropSlow, UnregisterStale, Return
  <2>3. QED
    BY <2>1, <2>2, StructureFrame
<1>7. ASSUME NEW c \in Conn, Unregister(c) PROVE Structure'
  <2>1. /\ clients' = [clients EXCEPT ![room[c]][UserOf[victim[c]]] = NoConn]
        /\ lock' = [lock EXCEPT ![room[c]] = c]
        /\ lock[room[c]] = NoConn
        /\ pc[c] = "unregister"
        /\ pc' = [pc EXCEPT ![c] = "left"]
        /\ UNCHANGED room
    BY <1>7 DEF Unregister, MayLock
  <2>2. LockInv'
    BY <2>1 DEF Structure, LockInv, RoomInv
  <2>3. RoomInv'
    BY <2>1 DEF Structure, RoomInv
  <2>4. RegInv'
    BY <2>1 DEF Structure, RegInv
  <2>5. QED
    BY <2>2, <2>3, <2>4 DEF Structure
<1>8. ASSUME NEW c \in Conn, AnnounceLeft(c) PROVE Structure'
  <2>1. /\ UNCHANGED <<clients, room>>
        /\ pc[c] = "left"
        /\ \/ /\ \E l \in {"remove", "stuck"} : pc' = [pc EXCEPT ![c] = l]
              /\ UNCHANGED lock
           \/ /\ \E l \in {"closed", "online"} : pc' = [pc EXCEPT ![c] = l]
              /\ lock' = [lock EXCEPT ![room[c]] = NoConn]
    BY <1>8 DEF AnnounceLeft, Blocks, Return
  <2>2. LockInv'
    BY <2>1 DEF Structure, LockInv, RoomInv
  <2>3. RoomInv'
    BY <2>1 DEF Structure, RoomInv
  <2>4. RegInv'
    BY <2>1 DEF Structure, RegInv
  <2>5. QED
    BY <2>2, <2>3, <2>4 DEF Structure
<1>9. ASSUME NEW c \in Conn, RemoveRoom(c) PROVE Structure'
  BY <1>9, StructureFrame DEF RemoveRoom
<1>10. ASSUME NEW c \in Conn, Shutdown(c) PROVE Structure'
  BY <1>10 DEF Shutdown, Return, Structure, LockInv, RoomInv, RegInv
<1>11. CASE UNCHANGED vars
  BY <1>11, StructureFrame DEF vars
<1>12. QED
  BY <1>1, <1>2, <1>3, <1>4, <1>5, <1>6, <1>7, <1>8, <1>9, <1>10, <1>11 DEF Next

(* No two goroutines are ever inside register or unregister of one Room at *)
(* once, and a Room's map only names connections of that user to that Room.*)
THEOREM MutualExclusion == Spec => []Structure
<1>1. Init => Structure
  BY ConnAssumption
     DEF Init, Structure, LockInv, RoomInv, RegInv, Room, Critical, Early
<1>2. QED
  BY <1>1, TypeCorrect, StructureStep, PTL DEF Spec

(***************************************************************************)
(* Agreement                                                               *)
(***************************************************************************)

Exact(r) == \A d \in Registered(r) : view[d] = Users(r) \ {UserOf[d]}

(* What lifecycleMu protects, at each point of its critical sections: the  *)
(* views agree with the map but for the one user being announced.          *)
Storing(r, c) == Exact(r) /\ view[c] = Users(r) \ {UserOf[c]}

Announcing(r, c) ==
  /\ clients[r][UserOf[c]] = c
  /\ view[c] = Users(r) \ {UserOf[c]}
  /\ \A d \in Registered(r) \ {c} :
       view[d] \cup {UserOf[c]} = Users(r) \ {UserOf[d]}

Leaving(r, u) ==
  /\ clients[r][u] = NoConn
  /\ \A d \in Registered(r) : view[d] \ {u} = Users(r) \ {UserOf[d]}

Agreed(r) ==
  /\ lock[r] = NoConn => Exact(r)
  /\ \A c \in Conn : lock[r] = c =>
       /\ pc[c] = "store" => Storing(r, c)
       /\ pc[c] = "announce" => Announcing(r, c)
       /\ pc[c] = "left" => Leaving(r, UserOf[victim[c]])
       /\ pc[c] \in {"remove", "shutdown"} => Users(r) = {}

AgreedEverywhere == \A r \in Room : Agreed(r)

(* A step leaves the agreement in Room r alone when it touches neither its *)
(* map, nor its lock, nor the goroutine inside, nor a view shown there.    *)
LEMMA AgreedFrame ==
  ASSUME NEW r \in Room, Agreed(r),
         clients'[r] = clients[r], lock'[r] = lock[r],
         \A d \in Conn : lock[r] = d =>
           pc'[d] = pc[d] /\ victim'[d] = victim[d] /\ view'[d] = view[d],
         \A d \in Registered(r) : view'[d] = view[d]
  PROVE  Agreed(r)'
<1>1. Users(r)' = Users(r) /\ Registered(r)' = Registered(r)
  BY DEF Users, Registered
<1>2. Exact(r) <=> Exact(r)'
  BY <1>1 DEF Exact
<1>3. ASSUME NEW c \in Conn, lock[r] = c
      PROVE  /\ Storing(r, c) => Storing(r, c)'
             /\ Announcing(r, c) => Announcing(r, c)'
             /\ Leaving(r, UserOf[victim[c]]) => Leaving(r, UserOf[victim[c]])'
  BY <1>1, <1>2, <1>3 DEF Storing, Announcing, Leaving
<1>4. QED
  BY <1>1, <1>2, <1>3 DEF Agreed

(* The agreement is inductive.  Each step either leaves Room r alone or    *)
(* moves the goroutine that holds its lock to the next phase.              *)
LEMMA AgreedStep ==
  ASSUME TypeOK, Structure, AgreedEverywhere, [Next]_vars
  PROVE  AgreedEverywhere'
<1> SUFFICES ASSUME NEW r \in Room
             PROVE  Agreed(r)'
  BY DEF AgreedEverywhere
<1>0. Agreed(r)
  BY DEF AgreedEverywhere
<1>a. \A c \in Conn : lock[r] = c => pc[c] \in Critical /\ room[c] = r
  BY DEF Structure, LockInv
<1>b. \A d \in Registered(r) : room[d] = r /\ pc[d] \notin Early
  BY ConnAssumption DEF Structure, RegInv, Registered, TypeOK
<1> USE ConnAssumption DEF TypeOK, Room, Goto
<1>1. ASSUME NEW c \in Conn, LockRegister(c) PROVE Agreed(r)'
  <2>1. /\ pc[c] = "register"
        /\ lock[room[c]] = NoConn
        /\ lock' = [lock EXCEPT ![room[c]] = c]
        /\ view' = [view EXCEPT ![c] = Users(room[c]) \ {UserOf[c]}]
        /\ pc' = [pc EXCEPT ![c] = "store"]
        /\ UNCHANGED <<clients, victim>>
    BY <1>1 DEF LockRegister, MayLock
  <2>2. c \notin Registered(r) /\ lock[r] # c
    BY <2>1, <1>a, <1>b DEF Early, Critical
  <2>3. CASE room[c] # r
    <3>1. lock'[r] = lock[r]
      BY <2>1, <2>3
    <3>2. \A d \in Conn : d # c => pc'[d] = pc[d] /\ view'[d] = view[d]
      BY <2>1
    <3>3. QED
      BY <1>0, <2>1, <2>2, <3>1, <3>2, AgreedFrame DEF Registered
  <2>4. CASE room[c] = r
    <3>1. /\ lock'[r] = c /\ pc'[c] = "store" /\ Exact(r)
          /\ view'[c] = Users(r) \ {UserOf[c]}
      BY <1>0, <2>1, <2>4 DEF Agreed
    <3>2. /\ Users(r)' = Users(r) /\ Registered(r)' = Registered(r)
          /\ \A d \in Registered(r) : view'[d] = view[d]
      BY <2>1, <2>2 DEF Users, Registered
    <3>3. Exact(r)'
      BY <3>1, <3>2 DEF Exact
    <3>4. Storing(r, c)'
      BY <3>1, <3>2, <3>3 DEF Storing
    <3>5. QED
      BY <3>1, <3>4 DEF Agreed
  <2>5. QED
    BY <2>3, <2>4
<1>2. ASSUME NEW c \in Conn, Store(c) PROVE Agreed(r)'
  <2> DEFINE u == UserOf[c]
  <2>1. /\ pc[c] = "store"
        /\ clients' = [clients EXCEPT ![room[c]][u] = c]
        /\ \E l \in {"announce", "stuck"} : pc' = [pc EXCEPT ![c] = l]
        /\ UNCHANGED <<lock, victim, view>>
    BY <1>2 DEF Store, Blocks
  <2>2. room[c] \in Room
    BY <2>1 DEF Structure, RoomInv
  <2>3. CASE room[c] # r
    <3>1. clients'[r] = clients[r]
      BY <2>1, <2>3
    <3>2. lock[r] # c
      BY <1>a, <2>3
    <3>3. QED
      BY <1>0, <2>1, <3>1, <3>2, AgreedFrame
  <2>4. CASE room[c] = r
    <3>1. lock[r] = c /\ lock'[r] = c
      BY <2>1, <2>4 DEF Structure, LockInv, Critical
    <3>2. Storing(r, c)
      BY <1>0, <2>1, <3>1 DEF Agreed
    <3>3. /\ clients'[r][u] = c
          /\ \A w \in User \ {u} : clients'[r][w] = clients[r][w]
      BY <2>1, <2>4
    <3>4. /\ Users(r)' = Users(r) \cup {u}
          /\ \A d \in Registered(r)' \ {c} : d \in Registered(r) /\ UserOf[d] # u
      BY <3>3 DEF Users, Registered
    <3>5. Announcing(r, c)'
      BY <2>1, <3>2, <3>3, <3>4 DEF Storing, Announcing, Exact
    <3>6. pc'[c] \in {"announce", "stuck"}
      BY <2>1
    <3>7. QED
      BY <3>1, <3>5, <3>6 DEF Agreed
  <2>5. QED
    BY <2>3, <2>4
<1>3. ASSUME NEW c \in Conn, AnnounceJoin(c) PROVE Agreed(r)'
  <2> DEFINE u == UserOf[c]
  <2>1. /\ pc[c] = "announce"
        /\ UNCHANGED <<clients, victim, room>>
        /\ \/ /\ view' = [d \in Conn |-> IF d \in Registered(room[c]) \ {c}
                                         THEN view[d] \cup {u} ELSE view[d]]
              /\ lock' = [lock EXCEPT ![room[c]] = NoConn]
              /\ pc' = [pc EXCEPT ![c] = "presence"]
           \/ /\ pc' = [pc EXCEPT ![c] = "stuck"]
              /\ UNCHANGED lock
        /\ \A d \in Conn \ Registered(room[c]) : view'[d] = view[d]
    BY <1>3 DEF AnnounceJoin, Blocks, WithJoined
  <2>2. room[c] \in Room
    BY <2>1 DEF Structure, RoomInv
  <2>3. CASE room[c] # r
    <3>1. lock'[r] = lock[r] /\ lock[r] # c
      BY <1>a, <2>1, <2>3
    <3>2. \A d \in Conn : room[d] = r => d \notin Registered(room[c])
      BY <2>2, <2>3 DEF Structure, RegInv, Registered
    <3>3. \A d \in Conn : room[d] = r => view'[d] = view[d]
      BY <2>1, <3>2
    <3>4. \A d \in Conn : lock[r] = d =>
            pc'[d] = pc[d] /\ victim'[d] = victim[d] /\ view'[d] = view[d]
      BY <1>a, <2>1, <3>1, <3>3
    <3>5. \A d \in Registered(r) : view'[d] = view[d]
      BY <1>b, <3>3 DEF Registered
    <3>6. QED
      BY <1>0, <2>1, <3>1, <3>4, <3>5, AgreedFrame
  <2>4. CASE room[c] = r
    <3>1. lock[r] = c
      BY <2>1, <2>4 DEF Structure, LockInv, Critical
    <3>2. Announcing(r, c)
      BY <1>0, <2>1, <3>1 DEF Agreed
    <3>3. Users(r)' = Users(r) /\ Registered(r)' = Registered(r)
      BY <2>1 DEF Users, Registered
    <3>4. CASE lock' = lock
      <4>1. pc'[c] = "stuck" /\ lock'[r] = c
        BY <2>1, <2>2, <2>4, <3>1, <3>4
      <4>2. QED
        BY <4>1 DEF Agreed
    <3>5. CASE lock' # lock
      <4>1. /\ view' = [d \in Conn |-> IF d \in Registered(r) \ {c}
                                       THEN view[d] \cup {u} ELSE view[d]]
            /\ lock'[r] = NoConn
        BY <2>1, <2>4, <3>5
      <4>2. ASSUME NEW d \in Registered(r)
            PROVE  view'[d] = Users(r) \ {UserOf[d]}
        BY <3>2, <4>1, <4>2 DEF Announcing, Registered
      <4>3. Exact(r)'
        BY <3>3, <4>2 DEF Exact
      <4>4. QED
        BY <4>1, <4>3 DEF Agreed
    <3>6. QED
      BY <3>4, <3>5
  <2>5. QED
    BY <2>3, <2>4
<1>4. ASSUME NEW c \in Conn, Unregister(c) PROVE Agreed(r)'
  <2> DEFINE u == UserOf[victim[c]]
  <2>1. /\ pc[c] = "unregister"
        /\ lock[room[c]] = NoConn
        /\ clients' = [clients EXCEPT ![room[c]][u] = NoConn]
        /\ lock' = [lock EXCEPT ![room[c]] = c]
        /\ pc' = [pc EXCEPT ![c] = "left"]
        /\ UNCHANGED <<view, victim, room>>
    BY <1>4 DEF Unregister, MayLock
  <2>2. lock[r] # c
    BY <1>a, <2>1 DEF Critical
  <2>3. CASE room[c] # r
    BY <1>0, <2>1, <2>2, <2>3, AgreedFrame
  <2>4. CASE room[c] = r
    <3>1. Exact(r) /\ lock'[r] = c /\ pc'[c] = "left"
      BY <1>0, <2>1, <2>4 DEF Agreed
    <3>2. /\ clients'[r][u] = NoConn
          /\ \A w \in User \ {u} : clients'[r][w] = clients[r][w]
      BY <2>1, <2>4
    <3>3. /\ Users(r)' = Users(r) \ {u}
          /\ Registered(r)' \subseteq Registered(r)
      BY <3>2 DEF Users, Registered
    <3>4. Leaving(r, UserOf[victim[c]])'
      BY <2>1, <3>1, <3>2, <3>3 DEF Leaving, Exact
    <3>5. QED
      BY <3>1, <3>4 DEF Agreed
  <2>5. QED
    BY <2>3, <2>4
<1>5. ASSUME NEW c \in Conn, AnnounceLeft(c) PROVE Agreed(r)'
  <2> DEFINE u == UserOf[victim[c]]
  <2>1. /\ pc[c] = "left"
        /\ UNCHANGED <<clients, victim, room>>
        /\ \/ /\ view' = [d \in Conn |-> IF d \in Registered(room[c])
                                         THEN view[d] \ {u} ELSE view[d]]
              /\ \/ /\ Users(room[c]) = {}
                    /\ pc' = [pc EXCEPT ![c] = "remove"]
                    /\ UNCHANGED lock
                 \/ /\ lock' = [lock EXCEPT ![room[c]] = NoConn]
                    /\ \E l \in {"closed", "online"} : pc' = [pc EXCEPT ![c] = l]
           \/ /\ pc' = [pc EXCEPT ![c] = "stuck"]
              /\ UNCHANGED lock
        /\ \A d \in Conn \ Registered(room[c]) : view'[d] = view[d]
    BY <1>5 DEF AnnounceLeft, Blocks, Return, WithLeft
  <2>2. room[c] \in Room
    BY <2>1 DEF Structure, RoomInv
  <2>3. CASE room[c] # r
    <3>1. lock'[r] = lock[r] /\ lock[r] # c
      BY <1>a, <2>1, <2>3
    <3>2. \A d \in Conn : room[d] = r => d \notin Registered(room[c])
      BY <2>2, <2>3 DEF Structure, RegInv, Registered
    <3>3. \A d \in Conn : room[d] = r => view'[d] = view[d]
      BY <2>1, <3>2
    <3>4. \A d \in Conn : lock[r] = d =>
            pc'[d] = pc[d] /\ victim'[d] = victim[d] /\ view'[d] = view[d]
      BY <1>a, <2>1, <3>1, <3>3
    <3>5. \A d \in Registered(r) : view'[d] = view[d]
      BY <1>b, <3>3 DEF Registered
    <3>6. QED
      BY <1>0, <2>1, <3>1, <3>4, <3>5, AgreedFrame
  <2>4. CASE room[c] = r
    <3>1. lock[r] = c
      BY <2>1, <2>4 DEF Structure, LockInv, Critical
    <3>2. Leaving(r, u)
      BY <1>0, <2>1, <3>1 DEF Agreed
    <3>3. Users(r)' = Users(r) /\ Registered(r)' = Registered(r)
      BY <2>1 DEF Users, Registered
    <3>4. CASE lock' = lock
      <4>1. /\ lock'[r] = c
            /\ pc'[c] = "stuck" \/ (pc'[c] = "remove" /\ Users(r) = {})
        BY <2>1, <2>2, <2>4, <3>1, <3>4
      <4>2. QED
        BY <3>3, <4>1 DEF Agreed
    <3>5. CASE lock' # lock
      <4>1. /\ view' = [d \in Conn |-> IF d \in Registered(r)
                                       THEN view[d] \ {u} ELSE view[d]]
            /\ lock'[r] = NoConn
        BY <2>1, <2>4, <3>5
      <4>2. ASSUME NEW d \in Registered(r)
            PROVE  view'[d] = Users(r) \ {UserOf[d]}
        BY <3>2, <4>1, <4>2 DEF Leaving, Registered
      <4>3. Exact(r)'
        BY <3>3, <4>2 DEF Exact
      <4>4. QED
        BY <4>1, <4>3 DEF Agreed
    <3>6. QED
      BY <3>4, <3>5
  <2>5. QED
    BY <2>3, <2>4
<1>6. ASSUME NEW c \in Conn, RemoveRoom(c) PROVE Agreed(r)'
  <2>1. /\ pc[c] = "remove"
        /\ pc' = [pc EXCEPT ![c] = "shutdown"]
        /\ UNCHANGED <<clients, lock, victim, view>>
    BY <1>6 DEF RemoveRoom
  <2>2. CASE lock[r] # c
    BY <1>0, <2>1, <2>2, AgreedFrame
  <2>3. CASE lock[r] = c
    <3>1. Users(r) = {} /\ Users(r)' = Users(r) /\ pc'[c] = "shutdown"
      BY <1>0, <2>1, <2>3 DEF Agreed, Users
    <3>2. QED
      BY <2>1, <2>3, <3>1 DEF Agreed
  <2>4. QED
    BY <2>2, <2>3
<1>7. ASSUME NEW c \in Conn, Shutdown(c) PROVE Agreed(r)'
  <2>1. /\ pc[c] = "shutdown"
        /\ lock' = [lock EXCEPT ![room[c]] = NoConn]
        /\ \A d \in Conn \ {c} : pc'[d] = pc[d]
        /\ UNCHANGED <<clients, victim, view>>
    BY <1>7 DEF Shutdown, Return
  <2>2. CASE room[c] # r
    <3>1. lock'[r] = lock[r] /\ lock[r] # c
      BY <1>a, <2>1, <2>2
    <3>2. QED
      BY <1>0, <2>1, <3>1, AgreedFrame
  <2>3. CASE room[c] = r
    <3>1. lock[r] = c
      BY <2>1, <2>3 DEF Structure, LockInv, Critical
    <3>2. Users(r) = {}
      BY <1>0, <2>1, <3>1 DEF Agreed
    <3>3. Registered(r)' = {}
      BY <2>1, <3>2 DEF Users, Registered
    <3>4. Exact(r)' /\ lock'[r] = NoConn
      BY <2>1, <2>3, <3>3 DEF Exact
    <3>5. QED
      BY <3>4 DEF Agreed
  <2>4. QED
    BY <2>2, <2>3
<1>8. ASSUME NEW c \in Conn,
             \/ Connect(c) \/ CreateRoom(c) \/ SetPresence(c) \/ UpdateStatus(c)
             \/ PeerCloses(c) \/ CloseReplaced(c) \/ ReadFails(c)
             \/ BufferFills(c) \/ BufferDrains(c)
             \/ \E d \in Conn : DropSlow(c, d)
             \/ UnregisterStale(c)
      PROVE  Agreed(r)'
  <2>1. UNCHANGED <<clients, lock, view>>
    BY <1>8 DEF Connect, CreateRoom, SetPresence, UpdateStatus, PeerCloses,
                CloseReplaced, ReadFails, BufferFills, BufferDrains, DropSlow,
                UnregisterStale
  <2>2. \A d \in Conn : pc[d] \in Critical => pc'[d] = pc[d] /\ victim'[d] = victim[d]
    <3>1. \/ UNCHANGED <<pc, victim>>
          \/ /\ pc[c] \notin Critical
             /\ \A d \in Conn \ {c} : pc'[d] = pc[d] /\ victim'[d] = victim[d]
      BY <1>8 DEF Connect, CreateRoom, SetPresence, UpdateStatus, PeerCloses,
                  CloseReplaced, ReadFails, BufferFills, BufferDrains, DropSlow,
                  UnregisterStale, Return, Critical
    <3>2. QED
      BY <3>1
  <2>3. QED
    BY <1>0, <1>a, <2>1, <2>2, AgreedFrame
<1>9. CASE UNCHANGED vars
  BY <1>0, <1>9, AgreedFrame DEF vars
<1>10. QED
  BY <1>1, <1>2, <1>3, <1>4, <1>5, <1>6, <1>7, <1>8, <1>9 DEF Next

(* Simultaneous joins, takeovers and leaves never leave presence           *)
(* asymmetric: whenever lifecycleMu is free, every registered client of a  *)
(* Room shows exactly the other registered users.                          *)
THEOREM PresenceIsSymmetric == Spec => []PresenceAgreement
<1>1. Init => AgreedEverywhere
  BY ConnAssumption DEF Init, AgreedEverywhere, Agreed, Exact, Registered, Room
<1>2. Spec => []AgreedEverywhere
  BY <1>1, TypeCorrect, MutualExclusion, AgreedStep, PTL DEF Spec
<1>3. AgreedEverywhere => PresenceAgreement
  BY DEF AgreedEverywhere, Agreed, Exact, PresenceAgreement
<1>4. QED
  BY <1>2, <1>3, PTL

(***************************************************************************)
(* The hub's room                                                          *)
(***************************************************************************)

HubInv ==
  /\ HubRoomTicks
  /\ \A c \in Conn : pc[c] = "shutdown" => hubRoom # room[c]
  /\ \A c \in Conn : pc[c] \in {"idle", "create"} =>
       hubRoom # c /\ \A d \in Conn : room[d] # c

(* HubInv is inductive.  RemoveRoom leaves the hub without a Room, and a   *)
(* Room stored later has another name than any stored before.              *)
LEMMA HubStep ==
  ASSUME TypeOK, Structure, HubInv, [Next]_vars
  PROVE  HubInv'
<1> USE ConnAssumption DEF TypeOK, Room, Goto, HubInv, HubRoomTicks
<1>1. ASSUME NEW c \in Conn, Connect(c) PROVE HubInv'
  BY <1>1 DEF Connect
<1>2. ASSUME NEW c \in Conn, CreateRoom(c) PROVE HubInv'
  BY <1>2 DEF CreateRoom
<1>3. ASSUME NEW c \in Conn, RemoveRoom(c) PROVE HubInv'
  <2>1. /\ pc[c] = "remove"
        /\ hubRoom' = NoConn
        /\ pc' = [pc EXCEPT ![c] = "shutdown"]
        /\ UNCHANGED room
    BY <1>3 DEF RemoveRoom
  <2>2. \A d \in Conn : pc'[d] = "shutdown" => room[d] # NoConn
    <3>1. \A d \in Conn : pc'[d] = "shutdown" => pc[d] \in {"remove", "shutdown"}
      BY <2>1
    <3>2. \A d \in Conn : pc[d] \in {"remove", "shutdown"} => room[d] \in Room
      BY DEF Structure, RoomInv
    <3>3. QED
      BY <3>1, <3>2
  <2>3. QED
    BY <2>1, <2>2
<1>4. ASSUME NEW c \in Conn, Shutdown(c) PROVE HubInv'
  <2>1. /\ pc[c] = "shutdown"
        /\ ticking' = ticking \ {room[c]}
        /\ \E l \in {"closed", "online"} : pc' = [pc EXCEPT ![c] = l]
        /\ UNCHANGED <<hubRoom, room>>
    BY <1>4 DEF Shutdown, Return
  <2>2. QED
    BY <2>1
<1>5. ASSUME NEW c \in Conn, LockRegister(c) PROVE HubInv'
  BY <1>5 DEF LockRegister
<1>6. ASSUME NEW c \in Conn,
             \/ Store(c) \/ AnnounceJoin(c) \/ SetPresence(c) \/ UpdateStatus(c)
             \/ PeerCloses(c) \/ CloseReplaced(c) \/ ReadFails(c)
             \/ BufferFills(c) \/ BufferDrains(c)
             \/ (\E d \in Conn : DropSlow(c, d))
             \/ Unregister(c) \/ UnregisterStale(c) \/ AnnounceLeft(c)
      PROVE  HubInv'
  <2>1. /\ UNCHANGED <<hubRoom, ticking, room>>
        /\ \/ UNCHANGED pc
           \/ /\ pc[c] \notin {"idle", "create"}
              /\ \E l \in {"announce", "presence", "online", "unregister", "left",
                           "remove", "closed", "stuck"} :
                   pc' = [pc EXCEPT ![c] = l]
    <3>1. CASE Store(c) \/ AnnounceJoin(c) \/ AnnounceLeft(c)
      BY <3>1 DEF Store, AnnounceJoin, AnnounceLeft, Blocks, Return
    <3>2. CASE Unregister(c) \/ UnregisterStale(c)
      BY <3>2 DEF Unregister, UnregisterStale, Return
    <3>3. QED
      BY <1>6, <3>1, <3>2
         DEF SetPresence, UpdateStatus, PeerCloses, CloseReplaced, ReadFails,
             BufferFills, BufferDrains, DropSlow
  <2>2. QED
    BY <2>1
<1>7. CASE UNCHANGED vars
  BY <1>7 DEF vars
<1>8. QED
  BY <1>1, <1>2, <1>3, <1>4, <1>5, <1>6, <1>7 DEF Next

(* The Room a Join can find in the hub still has its tickers: it is taken  *)
(* out before they are stopped, and never put back.                        *)
THEOREM HubHoldsTickingRoom == Spec => []HubRoomTicks
<1>1. Init => HubInv
  BY ConnAssumption DEF Init, HubInv, HubRoomTicks
<1>2. Spec => []HubInv
  BY <1>1, TypeCorrect, MutualExclusion, HubStep, PTL DEF Spec
<1>3. HubInv => HubRoomTicks
  BY DEF HubInv
<1>4. QED
  BY <1>2, <1>3, PTL

(***************************************************************************)
(* Nobody is evicted                                                       *)
(***************************************************************************)

(* A goroutine that has taken its victim out of the map.                   *)
Dropping(c) == \E d \in Conn : victim[d] = c /\ pc[d] \in {"left", "remove", "shutdown", "stuck"}

(* The goroutine that superseded c blocks for ever on the lock of the Room.*)
Overtaken(c) ==
  \E e \in Conn : clients[room[c]][UserOf[c]] = e /\ pc[e] = "stuck"

(* A connection whose register has stored it and whose socket is open is   *)
(* the one in the map, unless it is being dropped: whoever stores another  *)
(* one for the user has the socket closed.                                 *)
StaysIn ==
  \A c \in Conn :
    pc[c] \notin Early \cup {"closed", "stuck"} /\ sock[c] = "open" =>
      clients[room[c]][UserOf[c]] = c \/ Dropping(c) \/ Overtaken(c)

(* Goroutines go on from the victim they took out until its socket closes. *)
LEMMA StaysInFrame ==
  ASSUME StaysIn, UNCHANGED <<clients, room>>,
         \A d \in Conn : pc[d] \in {"left", "remove", "shutdown", "stuck"} =>
           \/ victim'[d] = victim[d] /\ pc'[d] \in {"left", "remove", "shutdown", "stuck"}
           \/ sock'[victim[d]] # "open",
         \A d \in Conn : pc[d] = "stuck" => pc'[d] = "stuck",
         \A d \in Conn : sock'[d] = "open" => sock[d] = "open",
         \A d \in Conn : pc'[d] \in Early \cup {"closed", "stuck"}
                          \/ pc[d] \notin Early \cup {"closed", "stuck"}
  PROVE  StaysIn'
<1> SUFFICES ASSUME NEW c \in Conn, pc'[c] \notin Early \cup {"closed", "stuck"},
                    sock'[c] = "open"
             PROVE  clients[room[c]][UserOf[c]] = c \/ Dropping(c)' \/ Overtaken(c)'
  BY DEF StaysIn
<1>1. clients[room[c]][UserOf[c]] = c \/ Dropping(c) \/ Overtaken(c)
  BY DEF StaysIn
<1>2. Dropping(c) => Dropping(c)'
  BY DEF Dropping
<1>3. Overtaken(c) => Overtaken(c)'
  BY DEF Overtaken
<1>4. QED
  BY <1>1, <1>2, <1>3

LEMMA StaysInStep ==
  ASSUME TypeOK, Structure, StaysIn, [Next]_vars
  PROVE  StaysIn'
<1> USE ConnAssumption DEF TypeOK, Room, Goto
<1>1. ASSUME NEW c \in Conn, Connect(c) \/ CreateRoom(c) PROVE StaysIn'
  <2>1. /\ pc[c] \in {"idle", "create"} /\ \E l \in {"create", "register"} : pc' = [pc EXCEPT ![c] = l]
        /\ \A d \in Conn \ {c} : room'[d] = room[d]
        /\ UNCHANGED <<clients, victim, sock>>
    BY <1>1 DEF Connect, CreateRoom
  <2>2. ASSUME NEW d \in Conn PROVE d # c => (Dropping(d) => Dropping(d)') /\ (Overtaken(d) => Overtaken(d)')
    BY <2>1 DEF Dropping, Overtaken
  <2>3. QED
    BY <2>1, <2>2 DEF StaysIn, Early
<1>2. ASSUME NEW c \in Conn, Store(c) PROVE StaysIn'
  <2> DEFINE r == room[c]
  <2> DEFINE u == UserOf[c]
  <2>1. /\ pc[c] = "store" /\ r \in Room /\ u \in User
        /\ clients' = [clients EXCEPT ![r][u] = c]
        /\ UNCHANGED <<room, victim>>
        /\ \/ CloseLater(clients[r][u]) /\ pc' = [pc EXCEPT ![c] = "announce"]
           \/ pc' = [pc EXCEPT ![c] = "stuck"] /\ UNCHANGED sock
    BY <1>2 DEF Store, Blocks, Structure, RoomInv
  <2>2. SUFFICES ASSUME NEW d \in Conn, pc'[d] \notin Early \cup {"closed", "stuck"},
                        sock'[d] = "open"
                 PROVE  clients'[room[d]][UserOf[d]] = d \/ Dropping(d)' \/ Overtaken(d)'
    BY <2>1 DEF StaysIn
  <2>3. clients'[r][u] = c
    BY <2>1
  <2>4. CASE d = c
    BY <2>3, <2>4
  <2>5. CASE d # c
    <3>1. pc'[d] = pc[d] /\ sock[d] = "open" /\ room[d] \in Room /\ UserOf[d] \in User
      BY <2>1, <2>2, <2>5 DEF CloseLater, Structure, RoomInv, Early
    <3>2. clients[room[d]][UserOf[d]] = d \/ Dropping(d) \/ Overtaken(d)
      BY <2>2, <3>1 DEF StaysIn
    <3>3. Dropping(d) => Dropping(d)'
      BY <2>1 DEF Dropping
    <3>4. CASE room[d] # r \/ UserOf[d] # u
      <4>1. clients'[room[d]][UserOf[d]] = clients[room[d]][UserOf[d]]
        BY <2>1, <3>1, <3>4
      <4>2. Overtaken(d) => Overtaken(d)'
        BY <2>1, <4>1 DEF Overtaken
      <4>3. QED
        BY <3>2, <3>3, <4>1, <4>2
    <3>5. CASE room[d] = r /\ UserOf[d] = u
      <4>1. CASE Overtaken(d)
        <5>1. PICK e \in Conn : clients[r][u] = e /\ pc[e] = "stuck"
          BY <3>5, <4>1 DEF Overtaken
        <5>2. room[e] = r
          BY <2>1, <5>1 DEF Structure, RegInv
        <5>3. lock[r] = e /\ lock[r] = c
          BY <2>1, <5>1, <5>2 DEF Structure, LockInv, Critical
        <5>4. QED
          BY <2>1, <5>1, <5>3
      <4>2. CASE clients[r][u] = d
        <5>1. CASE pc'[c] = "stuck"
          BY <2>1, <2>3, <3>5, <5>1 DEF Overtaken
        <5>2. CASE pc'[c] # "stuck"
          BY <2>1, <2>2, <4>2, <5>2 DEF CloseLater
        <5>3. QED
          BY <5>1, <5>2
      <4>3. QED
        BY <3>2, <3>3, <3>5, <4>1, <4>2
    <3>6. QED
      BY <3>4, <3>5
  <2>6. QED
    BY <2>4, <2>5
<1>3. ASSUME NEW c \in Conn, Unregister(c) PROVE StaysIn'
  <2> DEFINE r == room[c]
  <2> DEFINE v == victim[c]
  <2> DEFINE u == UserOf[v]
  <2>1. /\ pc[c] = "unregister" /\ lock[r] = NoConn /\ clients[r][u] = v
        /\ v \in Conn /\ u \in User /\ r \in Room
        /\ clients' = [clients EXCEPT ![r][u] = NoConn]
        /\ pc' = [pc EXCEPT ![c] = "left"]
        /\ UNCHANGED <<room, victim, sock>>
    BY <1>3 DEF Unregister, MayLock, Matches, Structure, RoomInv
  <2>2. SUFFICES ASSUME NEW d \in Conn, pc'[d] \notin Early \cup {"closed", "stuck"},
                        sock[d] = "open"
                 PROVE  clients'[room[d]][UserOf[d]] = d \/ Dropping(d)' \/ Overtaken(d)'
    BY <2>1 DEF StaysIn
  <2>3. pc[d] \notin Early \cup {"closed", "stuck"} /\ room[d] \in Room /\ UserOf[d] \in User
    BY <2>1, <2>2 DEF Structure, RoomInv, Early
  <2>4. clients[room[d]][UserOf[d]] = d \/ Dropping(d) \/ Overtaken(d)
    BY <2>2, <2>3 DEF StaysIn
  <2>5. Dropping(d) => Dropping(d)'
    BY <2>1 DEF Dropping
  <2>6. Dropping(v)'
    BY <2>1 DEF Dropping
  <2>7. CASE room[d] # r \/ UserOf[d] # u
    <3>1. clients'[room[d]][UserOf[d]] = clients[room[d]][UserOf[d]]
      BY <2>1, <2>3, <2>7
    <3>2. Overtaken(d) => Overtaken(d)'
      BY <2>1, <3>1 DEF Overtaken
    <3>3. QED
      BY <2>4, <2>5, <3>1, <3>2
  <2>8. CASE room[d] = r /\ UserOf[d] = u
    <3>1. ~Overtaken(d)
      BY <2>1, <2>8 DEF Overtaken, Structure, LockInv, RegInv, Critical
    <3>2. QED
      BY <2>1, <2>4, <2>5, <2>6, <2>8, <3>1
  <2>9. QED
    BY <2>7, <2>8
<1>4. ASSUME NEW c \in Conn,
             \/ LockRegister(c) \/ AnnounceJoin(c) \/ SetPresence(c) \/ UpdateStatus(c)
             \/ PeerCloses(c) \/ CloseReplaced(c) \/ ReadFails(c)
             \/ BufferFills(c) \/ BufferDrains(c) \/ \E d \in Conn : DropSlow(c, d)
      PROVE  StaysIn'
  <2>1. UNCHANGED <<clients, room>>
    BY <1>4 DEF LockRegister, AnnounceJoin, SetPresence, UpdateStatus, PeerCloses,
                CloseReplaced, ReadFails, BufferFills, BufferDrains, DropSlow
  <2>2. \A d \in Conn : sock'[d] = "open" => sock[d] = "open"
    BY <1>4 DEF LockRegister, AnnounceJoin, SetPresence, UpdateStatus, PeerCloses,
                CloseReplaced, ReadFails, BufferFills, BufferDrains, DropSlow
  <2>3. \/ UNCHANGED <<pc, victim>>
        \/ /\ pc[c] = "register" /\ pc' = [pc EXCEPT ![c] = "store"] /\ UNCHANGED victim
        \/ /\ pc[c] \in {"announce", "presence", "online"}
           /\ \E l \in {"presence", "online", "unregister", "stuck"} : pc' = [pc EXCEPT ![c] = l]
           /\ \A d \in Conn \ {c} : victim'[d] = victim[d]
    BY <1>4 DEF LockRegister, AnnounceJoin, SetPresence, UpdateStatus, PeerCloses, Blocks,
                CloseReplaced, ReadFails, BufferFills, BufferDrains, DropSlow
  <2>4. /\ \A d \in Conn : pc[d] \in {"left", "remove", "shutdown", "stuck"} =>
             victim'[d] = victim[d] /\ pc'[d] = pc[d]
        /\ \A d \in Conn : pc'[d] \in Early \cup {"closed", "stuck"}
                           \/ pc[d] \notin Early \cup {"closed", "stuck"}
    BY <2>3 DEF Early
  <2>5. QED
    BY <2>1, <2>2, <2>4, StaysInFrame
<1>5. ASSUME NEW c \in Conn,
             UnregisterStale(c) \/ AnnounceLeft(c) \/ RemoveRoom(c) \/ Shutdown(c)
      PROVE  StaysIn'
  <2>1. UNCHANGED <<clients, room, victim>> /\ pc[c] \in {"unregister", "left", "remove", "shutdown"}
    BY <1>5 DEF UnregisterStale, AnnounceLeft, RemoveRoom, Shutdown
  <2>2. \/ /\ \E l \in {"closed", "online"} : pc' = [pc EXCEPT ![c] = l]
           /\ sock' = [sock EXCEPT ![victim[c]] = "closed"]
        \/ /\ \E l \in {"remove", "shutdown", "stuck"} : pc' = [pc EXCEPT ![c] = l]
           /\ UNCHANGED sock
    BY <1>5 DEF UnregisterStale, AnnounceLeft, RemoveRoom, Shutdown, Return, Blocks
  <2>3. \A d \in Conn : pc[d] \in {"left", "remove", "shutdown", "stuck"} =>
           \/ victim'[d] = victim[d] /\ pc'[d] \in {"left", "remove", "shutdown", "stuck"}
           \/ sock'[victim[d]] # "open"
    BY <2>1, <2>2
  <2>4. /\ \A d \in Conn : pc[d] = "stuck" => pc'[d] = "stuck"
        /\ \A d \in Conn : sock'[d] = "open" => sock[d] = "open"
        /\ \A d \in Conn : pc'[d] \in Early \cup {"closed", "stuck"}
                           \/ pc[d] \notin Early \cup {"closed", "stuck"}
    BY <2>1, <2>2 DEF Early
  <2>5. QED
    BY <2>1, <2>3, <2>4, StaysInFrame
<1>6. CASE UNCHANGED vars
  BY <1>6 DEF vars, StaysIn, Dropping, Overtaken
<1>7. QED
  BY <1>1, <1>2, <1>3, <1>4, <1>5, <1>6 DEF Next

(* A user whose connection is open is in the Room: the late unregister of a*)
(* connection that was superseded takes nobody out of the map, for any     *)
(* number of connections of a user and any order of joins and departures.  *)
THEOREM NobodyEvicted == Spec => []NoPhantomEviction
<1>1. Init => StaysIn
  BY DEF Init, StaysIn, Early
<1>2. Spec => []StaysIn
  BY <1>1, TypeCorrect, MutualExclusion, StaysInStep, PTL DEF Spec
<1>3. TypeOK /\ Structure /\ StaysIn => NoPhantomEviction
  <2> SUFFICES ASSUME TypeOK, StaysIn, NEW c \in Conn, pc[c] = "online", sock[c] = "open",
                      \A d \in Conn : victim[d] = c => pc[d] \notin Critical
               PROVE  UserOf[c] \in Users(room[c])
    BY DEF NoPhantomEviction
  <2>1. clients[room[c]][UserOf[c]] = c \/ Overtaken(c)
    BY DEF StaysIn, Dropping, Early, Critical
  <2>2. clients[room[c]][UserOf[c]] \in Conn
    BY <2>1 DEF Overtaken
  <2>3. QED
    BY <2>2, ConnAssumption DEF Users
<1>4. QED
  BY <1>2, <1>3, TypeCorrect, MutualExclusion, PTL

(***************************************************************************)
(* Presence in Redis                                                       *)
(***************************************************************************)

(* A Join that has not found its Room yet has none.                        *)
Roomless == \A c \in Conn : pc[c] \in {"idle", "create"} => room[c] = NoConn

(* All connections of the user of c have been in one Room only.            *)
OneRoom(c) == \A d \in Conn : UserOf[d] = UserOf[c] => room[d] \in {room[c], NoConn}

(* The presence is there from the end of Join on, as long as the connection*)
(* is in the map.                                                          *)
Recorded ==
  \A c \in Conn :
    /\ pc[c] \notin Early \cup {"announce", "presence", "stuck"}
    /\ clients[room[c]][UserOf[c]] = c
    /\ OneRoom(c)
    => UserOf[c] \in members

LEMMA RecordedStep ==
  ASSUME TypeOK, Structure, Roomless, Recorded, [Next]_vars
  PROVE  Roomless' /\ Recorded'
<1> USE ConnAssumption DEF TypeOK, Room, Goto
<1> DEFINE Settled(c) == pc[c] \notin Early \cup {"announce", "presence", "stuck"}
<1>0. ASSUME NEW c \in Conn, \A d \in Conn : room[d] # NoConn => room'[d] = room[d],
             room'[c] = room[c], OneRoom(c)'
      PROVE  OneRoom(c)
  BY <1>0 DEF OneRoom
<1>1. ASSUME NEW c \in Conn, Connect(c) \/ CreateRoom(c) PROVE Roomless' /\ Recorded'
  <2>1. /\ pc[c] \in {"idle", "create"}
        /\ \/ pc' = [pc EXCEPT ![c] = "create"] /\ room'[c] = NoConn
           \/ pc' = [pc EXCEPT ![c] = "register"]
        /\ \A d \in Conn \ {c} : room'[d] = room[d]
        /\ UNCHANGED <<clients, members>>
    BY <1>1 DEF Connect, CreateRoom
  <2>2. Roomless'
    BY <2>1 DEF Roomless
  <2>3. room[c] = NoConn
    BY <2>1 DEF Roomless
  <2>4. ASSUME NEW d \in Conn, Settled(d)', clients'[room'[d]][UserOf[d]] = d, OneRoom(d)'
        PROVE  UserOf[d] \in members'
    <3>1. d # c
      BY <2>1, <2>4 DEF Early
    <3>2. Settled(d) /\ clients[room[d]][UserOf[d]] = d
      BY <2>1, <2>4, <3>1
    <3>3. OneRoom(d)
      BY <1>0, <2>1, <2>3, <2>4, <3>1
    <3>4. QED
      BY <2>1, <3>2, <3>3 DEF Recorded
  <2>5. QED
    BY <2>2, <2>4 DEF Recorded
<1>2. ASSUME UNCHANGED room, \A d \in Conn : pc'[d] \in {"idle", "create"} => pc[d] = pc'[d],
             \A d \in Conn : Settled(d)' /\ UserOf[d] \notin members' =>
               Settled(d) /\ UserOf[d] \notin members,
             \A d \in Conn : Settled(d)' /\ clients'[room[d]][UserOf[d]] = d =>
               clients[room[d]][UserOf[d]] = d
      PROVE  Roomless' /\ Recorded'
  BY <1>2 DEF Roomless, Recorded, OneRoom
<1>3. ASSUME NEW c \in Conn, Store(c) PROVE Roomless' /\ Recorded'
  <2>1. /\ clients' = [clients EXCEPT ![room[c]][UserOf[c]] = c]
        /\ \E l \in {"announce", "stuck"} : pc' = [pc EXCEPT ![c] = l]
        /\ room[c] \in Room /\ UNCHANGED <<room, members>>
    BY <1>3 DEF Store, Blocks, Structure, RoomInv
  <2>2. ASSUME NEW d \in Conn, Settled(d)', clients'[room[d]][UserOf[d]] = d
        PROVE  clients[room[d]][UserOf[d]] = d
    <3>1. d # c
      BY <2>1, <2>2
    <3>2. room[d] \in Room
      BY <2>1, <2>2, <3>1 DEF Structure, RoomInv, Early
    <3>3. QED
      BY <2>1, <2>2, <3>1, <3>2
  <2>3. \A d \in Conn : pc'[d] \in {"idle", "create"} => pc[d] = pc'[d]
    BY <2>1
  <2>4. \A d \in Conn : Settled(d)' => Settled(d)
    BY <2>1
  <2>5. QED
    BY <1>2, <2>1, <2>2, <2>3, <2>4
<1>4. ASSUME NEW c \in Conn, Unregister(c) PROVE Roomless' /\ Recorded'
  <2> DEFINE r == room[c]
  <2> DEFINE v == victim[c]
  <2>1. /\ clients[r][UserOf[v]] = v /\ v \in Conn /\ r \in Room
        /\ clients' = [clients EXCEPT ![r][UserOf[v]] = NoConn]
        /\ members' = members \ {UserOf[v]}
        /\ pc[c] = "unregister" /\ pc' = [pc EXCEPT ![c] = "left"]
        /\ UNCHANGED room
    BY <1>4 DEF Unregister, Matches, Structure, RoomInv
  <2>2. room[v] = r
    BY <2>1 DEF Structure, RegInv
  <2>3. ASSUME NEW d \in Conn, Settled(d)', clients'[room[d]][UserOf[d]] = d, OneRoom(d)'
        PROVE  UserOf[d] \in members'
    <3>1. Settled(d) /\ room[d] \in Room
      BY <2>1, <2>3 DEF Structure, RoomInv, Early
    <3>2. OneRoom(d)
      BY <2>1, <2>3 DEF OneRoom
    <3>3. UserOf[d] # UserOf[v]
      <4>1. SUFFICES ASSUME UserOf[d] = UserOf[v] PROVE FALSE
        OBVIOUS
      <4>2. room[d] = r
        BY <2>1, <2>2, <3>2, <4>1 DEF OneRoom
      <4>3. QED
        BY <2>1, <2>3, <4>1, <4>2
    <3>4. clients[room[d]][UserOf[d]] = d
      BY <2>1, <2>3, <3>1, <3>3
    <3>5. QED
      BY <2>1, <3>1, <3>2, <3>3, <3>4 DEF Recorded
  <2>4. Roomless'
    BY <2>1 DEF Roomless
  <2>5. QED
    BY <2>1, <2>3, <2>4 DEF Recorded
<1>5. ASSUME NEW c \in Conn, SetPresence(c) PROVE Roomless' /\ Recorded'
  <2>1. /\ members' = members \cup {UserOf[c]} /\ pc' = [pc EXCEPT ![c] = "online"]
        /\ UNCHANGED <<clients, room>>
    BY <1>5 DEF SetPresence
  <2>2. QED
    BY <1>2, <2>1
<1>6. ASSUME NEW c \in Conn,
             \/ LockRegister(c) \/ AnnounceJoin(c) \/ UpdateStatus(c)
             \/ PeerCloses(c) \/ CloseReplaced(c) \/ ReadFails(c)
             \/ BufferFills(c) \/ BufferDrains(c) \/ \E d \in Conn : DropSlow(c, d)
      PROVE  Roomless' /\ Recorded'
  <2>1. UNCHANGED <<clients, room>> /\ members \subseteq members'
    BY <1>6 DEF LockRegister, AnnounceJoin, UpdateStatus, PeerCloses,
                CloseReplaced, ReadFails, BufferFills, BufferDrains, DropSlow
  <2>2. \/ UNCHANGED pc
        \/ /\ pc[c] \in {"register", "announce", "online"}
           /\ \/ pc[c] = "online" /\ pc' = [pc EXCEPT ![c] = "unregister"]
              \/ \E l \in {"store", "presence", "stuck"} : pc' = [pc EXCEPT ![c] = l]
    BY <1>6 DEF LockRegister, AnnounceJoin, UpdateStatus, PeerCloses, Blocks,
                CloseReplaced, ReadFails, BufferFills, BufferDrains, DropSlow
  <2>3. /\ \A d \in Conn : pc'[d] \in {"idle", "create"} => pc[d] = pc'[d]
        /\ \A d \in Conn : Settled(d)' => Settled(d)
    BY <2>2 DEF Early
  <2>4. QED
    BY <1>2, <2>1, <2>3
<1>7. ASSUME NEW c \in Conn,
             UnregisterStale(c) \/ AnnounceLeft(c) \/ RemoveRoom(c) \/ Shutdown(c)
      PROVE  Roomless' /\ Recorded'
  <2>1. /\ UNCHANGED <<clients, room, members>>
        /\ pc[c] \in {"unregister", "left", "remove", "shutdown"}
    BY <1>7 DEF UnregisterStale, AnnounceLeft, RemoveRoom, Shutdown
  <2>2. \E l \in {"closed", "online", "remove", "shutdown", "stuck"} : pc' = [pc EXCEPT ![c] = l]
    BY <1>7 DEF UnregisterStale, AnnounceLeft, RemoveRoom, Shutdown, Return, Blocks
  <2>3. /\ \A d \in Conn : pc'[d] \in {"idle", "create"} => pc[d] = pc'[d]
        /\ \A d \in Conn : Settled(d)' => Settled(d)
    BY <2>1, <2>2 DEF Early
  <2>4. QED
    BY <1>2, <2>1, <2>3
<1>8. CASE UNCHANGED vars
  BY <1>2, <1>8 DEF vars
<1>9. QED
  BY <1>1, <1>3, <1>4, <1>5, <1>6, <1>7, <1>8 DEF Next

(* A user whose Join has returned is in Redis for as long as its connection*)
(* is registered, although the presence is written after the unlock: only  *)
(* a second Room of the workspace can take it away.                        *)
THEOREM PresenceIsRecorded == Spec => []PresenceRecorded
<1>1. Init => Roomless /\ Recorded
  BY DEF Init, Roomless, Recorded, Early
<1>2. Spec => [](Roomless /\ Recorded)
  BY <1>1, TypeCorrect, MutualExclusion, RecordedStep, PTL DEF Spec
<1>3. Recorded => PresenceRecorded
  BY DEF Recorded, PresenceRecorded, OneRoom, Registered, Early
<1>4. QED
  BY <1>2, <1>3, PTL

(***************************************************************************)
(* While no buffer fills up                                                *)
(***************************************************************************)

Flowing == full = {} /\ \A c \in Conn : pc[c] # "stuck"

(* Nobody blocks in a Send as long as every peer reads.                    *)
LEMMA FlowingStep ==
  ASSUME SlowConn = {}, TypeOK, Flowing, [Next]_vars
  PROVE  Flowing'
<1> USE DEF TypeOK, Flowing, Goto
<1>1. ASSUME NEW c \in Conn, Connect(c) \/ CreateRoom(c) \/ LockRegister(c)
      PROVE  Flowing'
  BY <1>1 DEF Connect, CreateRoom, LockRegister
<1>2. ASSUME NEW c \in Conn, Store(c) \/ AnnounceJoin(c) \/ AnnounceLeft(c)
      PROVE  Flowing'
  <2>1. ~Blocks(c, {clients[room[c]][UserOf[c]]}) /\ ~Blocks(c, Registered(room[c]))
    BY DEF Blocks
  <2>2. /\ UNCHANGED full
        /\ \E l \in {"announce", "presence", "remove", "closed", "online"} :
             pc' = [pc EXCEPT ![c] = l]
    BY <1>2, <2>1 DEF Store, AnnounceJoin, AnnounceLeft, Return
  <2>3. QED
    BY <2>2
<1>3. ASSUME NEW c \in Conn,
             \/ SetPresence(c) \/ UpdateStatus(c) \/ PeerCloses(c)
             \/ CloseReplaced(c) \/ ReadFails(c) \/ (\E d \in Conn : DropSlow(c, d))
      PROVE  Flowing'
  BY <1>3 DEF SetPresence, UpdateStatus, PeerCloses, CloseReplaced, ReadFails,
              DropSlow
<1>4. ASSUME NEW c \in Conn, BufferFills(c) \/ BufferDrains(c) PROVE Flowing'
  BY <1>4 DEF BufferFills, BufferDrains
<1>5. ASSUME NEW c \in Conn,
             Unregister(c) \/ UnregisterStale(c) \/ RemoveRoom(c) \/ Shutdown(c)
      PROVE  Flowing'
  BY <1>5 DEF Unregister, UnregisterStale, RemoveRoom, Shutdown, Return
<1>6. CASE UNCHANGED vars
  BY <1>6 DEF vars
<1>7. QED
  BY <1>1, <1>2, <1>3, <1>4, <1>5, <1>6 DEF Next

(* Flowing holds throughout.                                               *)
LEMMA BuffersFlow == ASSUME SlowConn = {} PROVE Spec => []Flowing
<1>1. Init => Flowing
  BY DEF Init, Flowing
<1>2. TypeOK /\ Flowing /\ [Next]_vars => Flowing'
  BY FlowingStep
<1>3. QED
  BY <1>1, <1>2, TypeCorrect, PTL DEF Spec

(* Whoever holds the lock of a Room can go on: it is between two steps of  *)
(* a register or an unregister of that Room, and not in a Send that blocks.*)
HolderGoesOn ==
  \A r \in Room : lock[r] # NoConn =>
    /\ lock[r] \in Conn
    /\ room[lock[r]] = r
    /\ pc[lock[r]] \in Critical \ {"stuck"}

(* As long as every peer reads what it is sent, lifecycleMu is never kept: *)
(* neither a goroutine that has returned nor one that waits for a lock or a*)
(* buffer holds it.  With the fairness of FairSpec this is why every Join  *)
(* and every unregister completes.                                         *)
THEOREM NobodyKeepsTheLock == ASSUME SlowConn = {} PROVE Spec => []HolderGoesOn
<1>1. TypeOK /\ Structure /\ Flowing => HolderGoesOn
  BY DEF TypeOK, Structure, LockInv, Flowing, HolderGoesOn
<1>2. QED
  BY <1>1, BuffersFlow, TypeCorrect, MutualExclusion, PTL

(***************************************************************************)
(* One roster                                                              *)
(***************************************************************************)

(* v has been taken out of the map, and everybody left still shows it.     *)
Parting(r, v) ==
  /\ room[v] = r /\ pc[v] \notin Early
  /\ view[v] = Users(r) \ {UserOf[v]}
  /\ \A d \in Registered(r) : UserOf[v] \in view[d]

(* At an announcement nobody has been told yet, of who takes over          *)
(* everybody long has.                                                     *)
Told(r) ==
  \A c \in Conn : lock[r] = c =>
    /\ pc[c] = "announce" =>
         \A d, e \in Registered(r) \ {c} :
           UserOf[c] \in view[d] <=> UserOf[c] \in view[e]
    /\ pc[c] = "left" => Parting(r, victim[c])

ToldEverywhere == \A r \in Room : Told(r)

(* A step leaves Told alone in Room r when it touches neither its map, nor *)
(* its lock, nor the goroutine inside, nor the view of anybody past store. *)
LEMMA ToldFrame ==
  ASSUME NEW r \in Room, TypeOK, Told(r),
         clients'[r] = clients[r], lock'[r] = lock[r],
         \A d \in Conn : lock[r] = d => pc'[d] = pc[d] /\ victim'[d] = victim[d],
         \A d \in Conn : room[d] = r /\ pc[d] \notin Early =>
           room'[d] = r /\ pc'[d] \notin Early /\ view'[d] = view[d],
         \A d \in Registered(r) : room[d] = r /\ pc[d] \notin Early
  PROVE  Told(r)'
<1>1. Users(r)' = Users(r) /\ Registered(r)' = Registered(r)
  BY DEF Users, Registered
<1>2. \A d \in Registered(r) : view'[d] = view[d]
  BY DEF Registered
<1>3. ASSUME NEW v \in Conn, Parting(r, v) PROVE Parting(r, v)'
  BY <1>1, <1>2, <1>3 DEF Parting
<1>4. ASSUME NEW c \in Conn, lock'[r] = c, pc'[c] = "announce",
             NEW d \in Registered(r) \ {c}, NEW e \in Registered(r) \ {c}
      PROVE  UserOf[c] \in view'[d] <=> UserOf[c] \in view'[e]
  BY <1>2, <1>4 DEF Told
<1>5. ASSUME NEW c \in Conn, lock'[r] = c, pc'[c] = "left"
      PROVE  Parting(r, victim[c])' /\ victim'[c] = victim[c]
  <2>1. Parting(r, victim[c]) /\ victim[c] \in Conn /\ victim'[c] = victim[c]
    BY <1>5 DEF Told, TypeOK
  <2>2. QED
    BY <1>3, <2>1 DEF Parting
<1>6. QED
  BY <1>1, <1>4, <1>5 DEF Told

(* Told is inductive: when a register or an unregister begins, the views   *)
(* are exact, so everybody or nobody shows the user it is about.           *)
LEMMA ToldStep ==
  ASSUME TypeOK, Structure, AgreedEverywhere, ToldEverywhere, [Next]_vars
  PROVE  ToldEverywhere'
<1> SUFFICES ASSUME NEW r \in Room
             PROVE  Told(r)'
  BY DEF ToldEverywhere
<1>0. Told(r) /\ Agreed(r)
  BY DEF ToldEverywhere, AgreedEverywhere
<1>a. \A c \in Conn : lock[r] = c => pc[c] \in Critical /\ room[c] = r
  BY DEF Structure, LockInv
<1>b. \A d \in Registered(r) : room[d] = r /\ pc[d] \notin Early
  BY ConnAssumption DEF Structure, RegInv, Registered, TypeOK
<1>c. \A d \in Conn, q \in Room : d \in Registered(q) => room[d] = q
  BY ConnAssumption DEF Structure, RegInv, Registered, TypeOK
<1> USE ConnAssumption DEF TypeOK, Room, Goto
<1>1. ASSUME NEW c \in Conn, LockRegister(c) PROVE Told(r)'
  <2>1. /\ pc[c] = "register"
        /\ lock[room[c]] = NoConn
        /\ lock' = [lock EXCEPT ![room[c]] = c]
        /\ view' = [view EXCEPT ![c] = Users(room[c]) \ {UserOf[c]}]
        /\ pc' = [pc EXCEPT ![c] = "store"]
        /\ UNCHANGED <<clients, victim, room>>
    BY <1>1 DEF LockRegister, MayLock
  <2>2. CASE room[c] = r
    <3>1. lock'[r] = c /\ pc'[c] = "store"
      BY <2>1, <2>2
    <3>2. QED
      BY <3>1 DEF Told
  <2>3. CASE room[c] # r
    <3>1. lock'[r] = lock[r] /\ lock[r] # c
      BY <1>a, <2>1, <2>3
    <3>2. \A d \in Conn : d # c => pc'[d] = pc[d] /\ view'[d] = view[d]
      BY <2>1
    <3>3. \A d \in Conn : pc[d] \notin Early => d # c
      BY <2>1 DEF Early
    <3>4. QED
      BY <1>0, <1>b, <2>1, <3>1, <3>2, <3>3, ToldFrame
  <2>4. QED
    BY <2>2, <2>3
<1>2. ASSUME NEW c \in Conn, Store(c) PROVE Told(r)'
  <2> DEFINE u == UserOf[c]
  <2>1. /\ pc[c] = "store"
        /\ clients' = [clients EXCEPT ![room[c]][u] = c]
        /\ \E l \in {"announce", "stuck"} : pc' = [pc EXCEPT ![c] = l]
        /\ UNCHANGED <<lock, victim, view, room>>
    BY <1>2 DEF Store, Blocks
  <2>2. room[c] \in Room
    BY <2>1 DEF Structure, RoomInv
  <2>3. CASE room[c] # r
    <3>1. clients'[r] = clients[r] /\ lock[r] # c
      BY <1>a, <2>1, <2>3
    <3>2. \A d \in Conn : pc[d] \notin Early => pc'[d] = pc[d]
      BY <2>1 DEF Early
    <3>3. \A d \in Conn : lock[r] = d => pc'[d] = pc[d]
      BY <2>1, <3>1
    <3>4. QED
      BY <1>0, <1>b, <2>1, <3>1, <3>2, <3>3, ToldFrame
  <2>4. CASE room[c] = r
    <3>1. lock[r] = c /\ lock'[r] = c /\ Exact(r)
      BY <1>0, <2>1, <2>4 DEF Structure, LockInv, Critical, Agreed, Storing
    <3>2. \A d \in Registered(r)' \ {c} : d \in Registered(r) /\ UserOf[d] # u
      BY <2>1, <2>4 DEF Registered
    <3>3. \A d \in Registered(r)' \ {c} :
            view'[d] = view[d] /\ (u \in view[d] <=> u \in Users(r))
      BY <2>1, <3>1, <3>2 DEF Exact
    <3>4. pc'[c] \in {"announce", "stuck"}
      BY <2>1
    <3>5. QED
      BY <3>1, <3>3, <3>4 DEF Told
  <2>5. QED
    BY <2>3, <2>4
<1>3. ASSUME NEW c \in Conn, AnnounceJoin(c) \/ AnnounceLeft(c) PROVE Told(r)'
  <2>1. /\ pc[c] \in {"announce", "left"}
        /\ UNCHANGED <<clients, victim, room>>
        /\ lock' = lock \/ lock' = [lock EXCEPT ![room[c]] = NoConn]
        /\ \E l \in {"presence", "closed", "online", "remove", "stuck"} :
             pc' = [pc EXCEPT ![c] = l]
    BY <1>3 DEF AnnounceJoin, AnnounceLeft, Blocks, Return
  <2>v. \A d \in Conn : d \notin Registered(room[c]) => view'[d] = view[d]
    <3>1. CASE AnnounceJoin(c)
      BY <3>1 DEF AnnounceJoin, WithJoined
    <3>2. CASE AnnounceLeft(c)
      BY <3>2 DEF AnnounceLeft, WithLeft
    <3>3. QED
      BY <1>3, <3>1, <3>2
  <2>2. room[c] \in Room
    BY <2>1 DEF Structure, RoomInv
  <2>3. CASE room[c] # r
    <3>1. lock'[r] = lock[r] /\ lock[r] # c
      BY <1>a, <2>1, <2>3
    <3>2. \A d \in Conn : room[d] = r => view'[d] = view[d]
      BY <1>c, <2>v, <2>2, <2>3
    <3>3. \A d \in Conn : pc[d] \notin Early => pc'[d] \notin Early
      BY <2>1 DEF Early
    <3>4. \A d \in Conn : lock[r] = d => pc'[d] = pc[d]
      BY <2>1, <3>1
    <3>5. QED
      BY <1>0, <1>b, <2>1, <3>1, <3>2, <3>3, <3>4, ToldFrame
  <2>4. CASE room[c] = r
    <3>1. lock[r] = c
      BY <2>1, <2>4 DEF Structure, LockInv, Critical
    <3>2. lock'[r] \in {c, NoConn} /\ pc'[c] \notin {"announce", "left"}
      BY <2>1, <2>2, <2>4, <3>1
    <3>3. QED
      BY <3>2 DEF Told
  <2>5. QED
    BY <2>3, <2>4
<1>4. ASSUME NEW c \in Conn, Unregister(c) PROVE Told(r)'
  <2> DEFINE v == victim[c]
             u == UserOf[v]
  <2>1. /\ pc[c] = "unregister"
        /\ lock[room[c]] = NoConn
        /\ clients[room[c]][u] = v
        /\ clients' = [clients EXCEPT ![room[c]][u] = NoConn]
        /\ lock' = [lock EXCEPT ![room[c]] = c]
        /\ pc' = [pc EXCEPT ![c] = "left"]
        /\ UNCHANGED <<view, victim, room>>
    BY <1>4 DEF Unregister, MayLock, Matches
  <2>2. lock[r] # c
    BY <1>a, <2>1 DEF Critical
  <2>3. \A d \in Conn : pc[d] \notin Early => pc'[d] \notin Early
    BY <2>1 DEF Early
  <2>4. CASE room[c] # r
    <3>1. clients'[r] = clients[r] /\ lock'[r] = lock[r]
      BY <2>1, <2>4
    <3>2. \A d \in Conn : lock[r] = d => pc'[d] = pc[d]
      BY <2>1, <2>2
    <3>3. QED
      BY <1>0, <1>b, <2>1, <2>3, <3>1, <3>2, ToldFrame
  <2>5. CASE room[c] = r
    <3>1. Exact(r) /\ lock'[r] = c /\ v \in Registered(r)
      BY <1>0, <2>1, <2>5 DEF Agreed, Registered
    <3>2. room'[v] = r /\ pc'[v] \notin Early
      BY <1>b, <2>1, <2>3, <3>1
    <3>3. /\ clients'[r][u] = NoConn
          /\ \A w \in User \ {u} : clients'[r][w] = clients[r][w]
      BY <2>1, <2>5
    <3>4. /\ Users(r)' = Users(r) \ {u} /\ u \in Users(r)
          /\ \A d \in Registered(r)' : d \in Registered(r) /\ UserOf[d] # u
      BY <2>1, <2>5, <3>3 DEF Users, Registered
    <3>5. view'[v] = Users(r)' \ {u} /\ \A d \in Registered(r)' : u \in view'[d]
      BY <2>1, <3>1, <3>4 DEF Exact
    <3>6. Parting(r, victim[c])'
      BY <2>1, <3>2, <3>5 DEF Parting
    <3>7. pc'[c] = "left"
      BY <2>1
    <3>8. QED
      BY <3>1, <3>6, <3>7 DEF Told
  <2>6. QED
    BY <2>4, <2>5
<1>5. ASSUME NEW c \in Conn, RemoveRoom(c) \/ Shutdown(c) PROVE Told(r)'
  <2>1. /\ pc[c] \in {"remove", "shutdown"}
        /\ UNCHANGED <<clients, victim, view, room>>
        /\ lock' = lock \/ lock' = [lock EXCEPT ![room[c]] = NoConn]
        /\ \E l \in {"shutdown", "closed", "online"} : pc' = [pc EXCEPT ![c] = l]
    BY <1>5 DEF RemoveRoom, Shutdown, Return
  <2>2. room[c] \in Room
    BY <2>1 DEF Structure, RoomInv
  <2>3. CASE room[c] # r
    <3>1. lock'[r] = lock[r] /\ lock[r] # c
      BY <1>a, <2>1, <2>3
    <3>2. /\ \A d \in Conn : pc[d] \notin Early => pc'[d] \notin Early
          /\ \A d \in Conn : lock[r] = d => pc'[d] = pc[d]
      BY <2>1, <3>1 DEF Early
    <3>3. QED
      BY <1>0, <1>b, <2>1, <3>1, <3>2, ToldFrame
  <2>4. CASE room[c] = r
    <3>1. lock[r] = c
      BY <2>1, <2>4 DEF Structure, LockInv, Critical
    <3>2. lock'[r] \in {c, NoConn} /\ pc'[c] \notin {"announce", "left"}
      BY <2>1, <2>2, <2>4, <3>1
    <3>3. QED
      BY <3>2 DEF Told
  <2>5. QED
    BY <2>3, <2>4
<1>6. ASSUME NEW c \in Conn,
             \/ Connect(c) \/ CreateRoom(c) \/ SetPresence(c) \/ UpdateStatus(c)
             \/ PeerCloses(c) \/ CloseReplaced(c) \/ ReadFails(c)
             \/ BufferFills(c) \/ BufferDrains(c)
             \/ (\E d \in Conn : DropSlow(c, d))
             \/ UnregisterStale(c)
      PROVE  Told(r)'
  <2>1. UNCHANGED <<clients, lock, view>>
    BY <1>6 DEF Connect, CreateRoom, SetPresence, UpdateStatus, PeerCloses,
                CloseReplaced, ReadFails, BufferFills, BufferDrains, DropSlow,
                UnregisterStale
  <2>2. /\ \A d \in Conn : pc[d] \in Critical => pc'[d] = pc[d] /\ victim'[d] = victim[d]
        /\ \A d \in Conn : pc[d] \notin Early => pc'[d] \notin Early /\ room'[d] = room[d]
    <3>1. CASE Connect(c) \/ CreateRoom(c)
      BY <3>1 DEF Connect, CreateRoom, Critical, Early
    <3>2. CASE ~(Connect(c) \/ CreateRoom(c))
      <4>1. /\ UNCHANGED room
            /\ \/ UNCHANGED <<pc, victim>>
               \/ /\ pc[c] \notin Critical
                  /\ \A d \in Conn \ {c} : pc'[d] = pc[d] /\ victim'[d] = victim[d]
                  /\ pc'[c] \in {"online", "unregister", "closed"}
        BY <1>6, <3>2 DEF SetPresence, UpdateStatus, PeerCloses, CloseReplaced,
                          ReadFails, BufferFills, BufferDrains, DropSlow,
                          UnregisterStale, Return, Critical
      <4>2. QED
        BY <4>1 DEF Early
    <3>3. QED
      BY <3>1, <3>2
  <2>3. QED
    BY <1>0, <1>a, <1>b, <2>1, <2>2, ToldFrame
<1>7. CASE UNCHANGED vars
  BY <1>0, <1>b, <1>7, ToldFrame DEF vars
<1>8. QED
  BY <1>1, <1>2, <1>3, <1>4, <1>5, <1>6, <1>7 DEF Next

(* Who is Here: everybody registered, but for the user being announced. The*)
(* connections they are present by all show the same.                      *)
Placed(r) ==
  /\ Exact(r) => Here(r) = Users(r)
  /\ \A c \in Conn : lock[r] = c =>
       /\ pc[c] = "announce" =>
            \/ Here(r) = Users(r)
            \/ /\ Here(r) = Users(r) \ {UserOf[c]}
               /\ \E d \in Registered(r) \ {c} : UserOf[c] \notin view[d]
       /\ pc[c] = "left" =>
            Here(r) = IF Registered(r) = {} THEN {}
                      ELSE Users(r) \cup {UserOf[victim[c]]}
  /\ \A u \in Here(r) : view[Seat(r, u)] = Here(r) \ {u}

(* The registered connection of a user.                                    *)
LEMMA RegisteredBy ==
  ASSUME TypeOK, Structure, NEW r \in Room, NEW u \in Users(r)
  PROVE  /\ u \in User /\ clients[r][u] \in Registered(r)
         /\ UserOf[clients[r][u]] = u /\ Seat(r, u) = clients[r][u]
BY ConnAssumption DEF TypeOK, Structure, RegInv, Users, Registered, Seat

(* The user of a registered connection.                                    *)
LEMMA RegisteredUser ==
  ASSUME TypeOK, NEW r \in Room, NEW d \in Registered(r)
  PROVE  d \in Conn /\ UserOf[d] \in Users(r)
BY ConnAssumption DEF TypeOK, Users, Registered

(* Exact views, and everybody registered is Here.                          *)
LEMMA ExactPlaced ==
  ASSUME TypeOK, Structure, NEW r \in Room, Exact(r)
  PROVE  /\ Here(r) = Users(r)
         /\ \A u \in Here(r) : view[Seat(r, u)] = Here(r) \ {u}
<1>1. \A d \in Registered(r) : view[d] = Users(r) \ {UserOf[d]}
  BY DEF Exact
<1>2. \A u \in Users(r), d \in Registered(r) : UserOf[d] = u \/ u \in view[d]
  BY <1>1
<1>3. \A u \in User \ Users(r), d \in Registered(r) : u \notin view[d]
  BY <1>1
<1>4. \A u \in User : clients[r][u] # NoConn <=> u \in Users(r)
  BY DEF Users
<1>5. Here(r) = Users(r)
  BY <1>2, <1>3, <1>4 DEF Here, Users
<1>6. ASSUME NEW u \in Here(r) PROVE view[Seat(r, u)] = Here(r) \ {u}
  BY <1>1, <1>5, RegisteredBy
<1>7. QED
  BY <1>5, <1>6

(* At the announcement of c: everybody knows the user of c, or nobody does *)
(* and it is not Here yet.                                                 *)
LEMMA AnnouncingPlaced ==
  ASSUME TypeOK, Structure, NEW r \in Room, NEW c \in Conn, Announcing(r, c),
         \A d, e \in Registered(r) \ {c} :
           UserOf[c] \in view[d] <=> UserOf[c] \in view[e]
  PROVE  /\ \/ Here(r) = Users(r)
            \/ /\ Here(r) = Users(r) \ {UserOf[c]}
               /\ \E d \in Registered(r) \ {c} : UserOf[c] \notin view[d]
         /\ \A u \in Here(r) : view[Seat(r, u)] = Here(r) \ {u}
<1> DEFINE me == UserOf[c]
<1>1. /\ view[c] = Users(r) \ {me} /\ clients[r][me] = c
      /\ \A d \in Registered(r) \ {c} : view[d] \cup {me} = Users(r) \ {UserOf[d]}
  BY DEF Announcing
<1>2. \A u \in User : clients[r][u] # NoConn <=> u \in Users(r)
  BY DEF Users
<1>3. c \in Registered(r) /\ me \in Users(r)
  BY <1>1, RegisteredUser DEF Registered
<1>4. \A u \in Users(r) \ {me}, d \in Registered(r) : UserOf[d] = u \/ u \in view[d]
  BY <1>1
<1>5. \A u \in User \ Users(r), d \in Registered(r) : u \notin view[d]
  BY <1>1
<1>6. \A d \in Registered(r) \ {c} : UserOf[d] # me
  BY <1>1 DEF Registered
<1>7. me \in Here(r) <=> \A d \in Registered(r) \ {c} : me \in view[d]
  BY <1>2, <1>3, <1>6 DEF Here, Users
<1>8. Here(r) \ {me} = Users(r) \ {me}
  BY <1>2, <1>4, <1>5 DEF Here, Users
<1> HIDE DEF me
<1>9. CASE me \in Here(r)
  <2>1. Here(r) = Users(r)
    BY <1>3, <1>8, <1>9
  <2>2. \A d \in Registered(r) \ {c} : view[d] = Users(r) \ {UserOf[d]}
    BY <1>1, <1>7, <1>9
  <2>3. Exact(r)
    BY <1>1, <2>2 DEF Exact, me
  <2>4. QED
    BY <2>1, <2>3, ExactPlaced
<1>10. CASE me \notin Here(r)
  <2>1. Here(r) = Users(r) \ {me}
    BY <1>8, <1>10
  <2>2. PICK e \in Registered(r) \ {c} : me \notin view[e]
    BY <1>7, <1>10
  <2>3. \A d \in Registered(r) \ {c} : me \notin view[d]
    BY <2>2 DEF me
  <2>4. \A d \in Registered(r) \ {c} : view[d] = (Users(r) \ {UserOf[d]}) \ {me}
    BY <1>1, <2>3
  <2>5. ASSUME NEW u \in Here(r) PROVE view[Seat(r, u)] = Here(r) \ {u}
    <3>1. /\ clients[r][u] \in Registered(r) /\ UserOf[clients[r][u]] = u
          /\ Seat(r, u) = clients[r][u] /\ u # me
      BY <2>1, <2>5, RegisteredBy
    <3>2. clients[r][u] # c
      BY <3>1 DEF me
    <3>3. QED
      BY <2>1, <2>4, <3>1, <3>2
  <2>6. QED
    BY <2>1, <2>2, <2>5 DEF me
<1>11. QED
  BY <1>9, <1>10

(* At a left: v is still Here, unless it was the last.                     *)
LEMMA LeavingPlaced ==
  ASSUME TypeOK, Structure, NEW r \in Room, NEW c \in Conn, lock[r] = c,
         Leaving(r, UserOf[victim[c]]), Parting(r, victim[c])
  PROVE  /\ Here(r) = IF Registered(r) = {} THEN {}
                      ELSE Users(r) \cup {UserOf[victim[c]]}
         /\ \A u \in Here(r) : view[Seat(r, u)] = Here(r) \ {u}
<1> DEFINE v == victim[c]
           gone == UserOf[v]
<1>1. /\ clients[r][gone] = NoConn
      /\ \A d \in Registered(r) : view[d] \ {gone} = Users(r) \ {UserOf[d]}
  BY DEF Leaving
<1>2. /\ view[v] = Users(r) \ {gone}
      /\ \A d \in Registered(r) : gone \in view[d]
  BY DEF Parting
<1>3. \A u \in User : clients[r][u] # NoConn <=> u \in Users(r)
  BY DEF Users
<1>4. gone \in User /\ gone \notin Users(r) /\ Seat(r, gone) = v
  BY <1>1, ConnAssumption DEF TypeOK, Users, Seat
<1> HIDE DEF gone, v
<1>5. \A u \in Users(r), d \in Registered(r) : UserOf[d] = u \/ u \in view[d]
  BY <1>1
<1>6. \A u \in User \ (Users(r) \cup {gone}), d \in Registered(r) : u \notin view[d]
  BY <1>1
<1>7. Here(r) \ {gone} = Users(r)
  BY <1>3, <1>4, <1>5, <1>6 DEF Here, Users
<1>8. gone \in Here(r) <=> Registered(r) # {}
  BY <1>2, <1>3, <1>4 DEF Here
<1>9. Registered(r) = {} => Users(r) = {}
  BY RegisteredBy
<1>10. CASE Registered(r) = {}
  <2>1. Here(r) = {}
    BY <1>7, <1>8, <1>9, <1>10
  <2>2. QED
    BY <1>10, <2>1
<1>11. CASE Registered(r) # {}
  <2>1. Here(r) = Users(r) \cup {gone}
    BY <1>7, <1>8, <1>11
  <2>2. \A d \in Registered(r) : view[d] = (Users(r) \cup {gone}) \ {UserOf[d]}
    <3> SUFFICES ASSUME NEW d \in Registered(r)
                 PROVE  view[d] = (Users(r) \cup {gone}) \ {UserOf[d]}
      OBVIOUS
    <3>1. UserOf[d] # gone
      BY <1>4, RegisteredUser
    <3>2. view[d] \ {gone} = Users(r) \ {UserOf[d]} /\ gone \in view[d]
      BY <1>1, <1>2
    <3>3. QED
      BY ONLY <3>1, <3>2
  <2>3. ASSUME NEW u \in Here(r) PROVE view[Seat(r, u)] = Here(r) \ {u}
    <3>1. CASE u = gone
      BY <1>2, <1>4, <2>1, <3>1
    <3>2. CASE u \in Users(r)
      BY <2>1, <2>2, <3>2, RegisteredBy
    <3>3. QED
      BY <2>1, <2>3, <3>1, <3>2
  <2>4. QED
    BY <1>11, <2>1, <2>3 DEF gone, v
<1>12. QED
  BY <1>10, <1>11

(* As long as nobody is stuck, the agreement and Told place everybody.     *)
LEMMA AgreedPlaced ==
  ASSUME TypeOK, Structure, NobodyStuck, NEW r \in Room, Agreed(r), Told(r)
  PROVE  Placed(r)
<1>1. Exact(r) => Placed(r)
  <2> SUFFICES ASSUME Exact(r) PROVE Placed(r)
    OBVIOUS
  <2>1. /\ Here(r) = Users(r)
        /\ \A u \in Here(r) : view[Seat(r, u)] = Here(r) \ {u}
    BY ExactPlaced
  <2>2. ASSUME NEW c \in Conn, lock[r] = c, pc[c] = "left"
        PROVE  Here(r) = IF Registered(r) = {} THEN {}
                         ELSE Users(r) \cup {UserOf[victim[c]]}
    <3>1. Leaving(r, UserOf[victim[c]]) /\ Parting(r, victim[c])
      BY <2>2 DEF Agreed, Told
    <3>2. QED
      BY <2>2, <3>1, LeavingPlaced
  <2>3. QED
    BY <2>1, <2>2 DEF Placed
<1>2. ASSUME ~Exact(r) PROVE Placed(r)
  <2>1. lock[r] \in Conn
    BY <1>2 DEF TypeOK, Agreed
  <2> DEFINE c == lock[r]
  <2>2. pc[c] \in {"announce", "left"}
    <3>1. pc[c] \in Critical
      BY <2>1 DEF Structure, LockInv
    <3>2. pc[c] \notin {"remove", "shutdown"}
      <4>1. Users(r) = {} => Registered(r) = {}
        BY RegisteredUser
      <4>2. QED
        BY <1>2, <2>1, <4>1 DEF Agreed, Exact
    <3>3. QED
      BY <1>2, <2>1, <3>1, <3>2 DEF NobodyStuck, Critical, Agreed, Storing
  <2>3. CASE pc[c] = "announce"
    BY <1>2, <2>1, <2>3, AnnouncingPlaced DEF Agreed, Told, Placed
  <2>4. CASE pc[c] = "left"
    BY <1>2, <2>1, <2>4, LeavingPlaced DEF Agreed, Told, Placed
  <2>5. QED
    BY <2>2, <2>3, <2>4
<1>3. QED
  BY <1>1, <1>2

PlacedEverywhere == \A r \in Room : Placed(r)

RosterInv ==
  /\ TypeOK /\ Structure /\ AgreedEverywhere /\ ToldEverywhere
  /\ NobodyStuck => PlacedEverywhere

(* What the refinement rests on holds throughout.                          *)
LEMMA RosterHolds == Spec => []RosterInv
<1>1. Init => AgreedEverywhere /\ ToldEverywhere
  BY ConnAssumption
     DEF Init, AgreedEverywhere, ToldEverywhere, Agreed, Told, Exact, Registered,
         Room
<1>2. TypeOK /\ Structure /\ AgreedEverywhere /\ ToldEverywhere /\ [Next]_vars
      => AgreedEverywhere' /\ ToldEverywhere'
  BY AgreedStep, ToldStep
<1>3. TypeOK /\ Structure /\ AgreedEverywhere /\ ToldEverywhere
      => (NobodyStuck => PlacedEverywhere)
  BY AgreedPlaced DEF AgreedEverywhere, ToldEverywhere, PlacedEverywhere
<1>4. QED
  BY <1>1, <1>2, <1>3, TypeCorrect, MutualExclusion, PTL DEF Spec, RosterInv

(* Whoever is stuck stays so.                                              *)
LEMMA StuckStays ==
  ASSUME TypeOK, [Next]_vars, NobodyStuck'
  PROVE  NobodyStuck
<1> SUFFICES ASSUME NEW d \in Conn, pc[d] = "stuck" PROVE pc'[d] = "stuck"
  BY DEF NobodyStuck
<1>1. CASE UNCHANGED vars
  BY <1>1 DEF vars
<1>2. ASSUME NEW c \in Conn, pc[c] # "stuck", NEW l, pc' = [pc EXCEPT ![c] = l]
      PROVE  pc'[d] = "stuck"
  BY <1>2 DEF TypeOK
<1>3. ASSUME NEW c \in Conn, Connect(c) \/ CreateRoom(c) \/ LockRegister(c) \/ Store(c)
      PROVE  pc'[d] = "stuck"
  BY <1>2, <1>3 DEF Connect, CreateRoom, LockRegister, Store, Blocks, Goto
<1>4. ASSUME NEW c \in Conn, AnnounceJoin(c) \/ AnnounceLeft(c)
      PROVE  pc'[d] = "stuck"
  BY <1>2, <1>4 DEF AnnounceJoin, AnnounceLeft, Blocks, Return, Goto
<1>5. ASSUME NEW c \in Conn,
             \/ SetPresence(c) \/ UpdateStatus(c) \/ PeerCloses(c)
             \/ CloseReplaced(c) \/ ReadFails(c) \/ BufferFills(c)
             \/ BufferDrains(c) \/ (\E e \in Conn : DropSlow(c, e))
      PROVE  pc'[d] = "stuck"
  BY <1>2, <1>5 DEF SetPresence, UpdateStatus, PeerCloses, CloseReplaced, ReadFails,
                    BufferFills, BufferDrains, DropSlow, Goto
<1>6. ASSUME NEW c \in Conn,
             Unregister(c) \/ UnregisterStale(c) \/ RemoveRoom(c) \/ Shutdown(c)
      PROVE  pc'[d] = "stuck"
  BY <1>2, <1>6 DEF Unregister, UnregisterStale, RemoveRoom, Shutdown, Return, Goto
<1>7. QED
  BY <1>1, <1>3, <1>4, <1>5, <1>6 DEF Next

(* Who is Here depends on the map and on the views of those registered.    *)
LEMMA HereFrame ==
  ASSUME NEW r \in Room, clients'[r] = clients[r],
         \A d \in Registered(r) : view'[d] = view[d]
  PROVE  Here(r)' = Here(r)
<1>1. Registered(r)' = Registered(r)
  BY DEF Registered
<1>2. QED
  BY <1>1 DEF Here

(* u comes or goes in r.                                                   *)
OneMoves(r, u) ==
  \/ u \notin Here(r) /\ Here(r)' = Here(r) \cup {u}
  \/ u \in Here(r) /\ Here(r)' = Here(r) \ {u}

(* Every step that leaves nobody stuck leaves everybody where it was, but  *)
(* for one user in one Room.                                               *)
LEMMA HereStep ==
  ASSUME RosterInv, RosterInv', NobodyStuck', [Next]_vars
  PROVE  \/ \A q \in Room : Here(q)' = Here(q)
         \/ \E r \in Room, u \in User :
              OneMoves(r, u) /\ \A q \in Room \ {r} : Here(q)' = Here(q)
<1> USE ConnAssumption DEF TypeOK, Room, Goto, RosterInv
<1>a. \A q \in Room : Agreed(q) /\ Agreed(q)' /\ Placed(q) /\ Placed(q)'
  BY StuckStays DEF AgreedEverywhere, PlacedEverywhere
<1>b. \A q \in Room, d \in Conn : d \in Registered(q) => room[d] = q /\ pc[d] \notin Early
  BY DEF Structure, RegInv, Registered
<1>c. \A d \in Conn : pc[d] \in Critical => room[d] \in Room /\ lock[room[d]] = d
  <2>1. \A d \in Conn : pc[d] \in Critical => room[d] \in Room
    BY DEF Structure, RoomInv, Critical
  <2>2. QED
    BY <2>1 DEF Structure, LockInv
<1>f. \A d \in Conn : ~Blocks(d, {clients[room[d]][UserOf[d]]})
                      /\ ~Blocks(d, Registered(room[d]))
  BY DEF NobodyStuck, Blocks
<1>1. ASSUME NEW c \in Conn, Store(c), NEW r \in Room, NEW u \in User,
             r = room[c], u = UserOf[c]
      PROVE  /\ Here(r)' = Here(r) \/ OneMoves(r, u)
             /\ \A q \in Room \ {r} : Here(q)' = Here(q)
  <2>1. /\ pc[c] = "store"
        /\ clients' = [clients EXCEPT ![r][u] = c]
        /\ pc' = [pc EXCEPT ![c] = "announce"]
        /\ UNCHANGED <<lock, view, room>>
    BY <1>1, <1>f DEF Store
  <2>2. r \in Room /\ lock[r] = c /\ lock'[r] = c /\ pc'[c] = "announce"
    BY <1>1, <1>c, <2>1 DEF Critical
  <2>3. Exact(r) /\ Here(r) = Users(r)
    BY <1>1, <1>a, <2>1, <2>2 DEF Agreed, Storing, Placed
  <2>4. /\ Users(r)' = Users(r) \cup {u}
        /\ \A d \in Registered(r)' \ {c} : d \in Registered(r) /\ UserOf[d] # u
    BY <2>1, <2>2 DEF Users, Registered
  <2>5. \/ Here(r)' = Users(r)'
        \/ /\ Here(r)' = Users(r)' \ {u}
           /\ \E d \in Registered(r)' \ {c} : u \notin view'[d]
    BY <1>1, <1>a, <2>2 DEF Placed
  <2>6. Here(r)' = Here(r) \/ OneMoves(r, u)
    <3>1. CASE Here(r)' = Users(r)'
      BY <2>3, <2>4, <3>1 DEF OneMoves
    <3>2. CASE Here(r)' # Users(r)'
      <4>1. PICK d \in Registered(r)' \ {c} : u \notin view'[d]
        BY <2>5, <3>2
      <4>2. u \notin Users(r)
        BY <2>1, <2>3, <2>4, <4>1 DEF Exact
      <4>3. Here(r)' = Users(r)' \ {u} /\ Users(r)' = Users(r) \cup {u}
        BY <2>4, <2>5, <3>2
      <4>4. Here(r)' = Users(r)
        BY ONLY <4>2, <4>3
      <4>5. QED
        BY <2>3, <4>4
    <3>3. QED
      BY <3>1, <3>2
  <2>7. \A q \in Room \ {r} : Here(q)' = Here(q)
    BY <2>1, HereFrame
  <2>8. QED
    BY <2>6, <2>7
<1>2. ASSUME NEW c \in Conn, AnnounceJoin(c), NEW r \in Room, NEW u \in User,
             r = room[c], u = UserOf[c]
      PROVE  /\ Here(r)' = Here(r) \/ OneMoves(r, u)
             /\ \A q \in Room \ {r} : Here(q)' = Here(q)
  <2>1. /\ pc[c] = "announce"
        /\ lock' = [lock EXCEPT ![r] = NoConn]
        /\ \A d \in Conn \ Registered(r) : view'[d] = view[d]
        /\ UNCHANGED <<clients, room>>
    <3>1. ~Blocks(c, Registered(r))
      BY <1>2, <1>f
    <3>2. /\ pc[c] = "announce"
          /\ lock' = [lock EXCEPT ![r] = NoConn]
          /\ view' = [d \in Conn |-> IF d \in Registered(r) \ {c}
                                     THEN view[d] \cup {u} ELSE view[d]]
          /\ UNCHANGED <<clients, room>>
      BY <1>2, <3>1 DEF AnnounceJoin, WithJoined
    <3>3. QED
      BY <3>2
  <2>2. r \in Room /\ lock[r] = c /\ lock'[r] = NoConn
    BY <1>2, <1>c, <2>1 DEF Critical
  <2>3. Users(r)' = Users(r)
    BY <2>1 DEF Users
  <2>4. Here(r)' = Users(r)
    BY <1>2, <1>a, <2>2, <2>3 DEF Agreed, Placed
  <2>5. u \in Users(r) /\ (Here(r) = Users(r) \/ Here(r) = Users(r) \ {u})
    <3>1. clients[r][u] = c
      BY <1>2, <1>a, <2>1, <2>2 DEF Agreed, Announcing
    <3>2. u \in Users(r)
      BY <3>1 DEF Users
    <3>3. QED
      BY <1>2, <1>a, <2>1, <2>2, <3>2 DEF Placed
  <2>6. Here(r)' = Here(r) \/ OneMoves(r, u)
    BY <2>4, <2>5 DEF OneMoves
  <2>7. ASSUME NEW q \in Room \ {r} PROVE Here(q)' = Here(q)
    <3>1. \A d \in Registered(q) : d \in Conn /\ d \notin Registered(r)
      BY <1>b, <2>2, <2>7 DEF Registered
    <3>2. QED
      BY <2>1, <3>1, HereFrame
  <2>8. QED
    BY <2>6, <2>7
<1>3. ASSUME NEW c \in Conn, Unregister(c), NEW r \in Room, NEW u \in User,
             r = room[c], u = UserOf[victim[c]]
      PROVE  /\ Here(r)' = Here(r) \/ OneMoves(r, u)
             /\ \A q \in Room \ {r} : Here(q)' = Here(q)
  <2>1. /\ pc[c] = "unregister"
        /\ lock[r] = NoConn
        /\ clients[r][u] = victim[c]
        /\ clients' = [clients EXCEPT ![r][u] = NoConn]
        /\ lock' = [lock EXCEPT ![r] = c]
        /\ pc' = [pc EXCEPT ![c] = "left"]
        /\ UNCHANGED <<view, victim, room>>
    BY <1>3 DEF Unregister, MayLock, Matches
  <2>2. r \in Room /\ lock'[r] = c /\ pc'[c] = "left"
    BY <2>1 DEF Structure, RoomInv
  <2>3. Here(r) = Users(r)
    BY <1>3, <1>a, <2>1, <2>2 DEF Agreed, Placed
  <2>4. Users(r)' = Users(r) \ {u} /\ u \in Users(r)
    BY <2>1, <2>2 DEF Users
  <2>5. Here(r)' = IF Registered(r)' = {} THEN {} ELSE Users(r)' \cup {u}
    BY <1>3, <1>a, <2>1, <2>2 DEF Placed
  <2>6. Registered(r)' = {} => Users(r)' = {}
    BY <2>2 DEF Structure, RegInv, Registered, Users
  <2>7. Here(r)' = Here(r) \/ OneMoves(r, u)
    BY <2>3, <2>4, <2>5, <2>6 DEF OneMoves
  <2>8. \A q \in Room \ {r} : Here(q)' = Here(q)
    BY <2>1, HereFrame
  <2>9. QED
    BY <2>7, <2>8
<1>4. ASSUME NEW c \in Conn, AnnounceLeft(c), NEW r \in Room, NEW u \in User,
             r = room[c], u = UserOf[victim[c]]
      PROVE  /\ Here(r)' = Here(r) \/ OneMoves(r, u)
             /\ \A q \in Room \ {r} : Here(q)' = Here(q)
  <2>1. /\ pc[c] = "left"
        /\ \A d \in Conn \ Registered(r) : view'[d] = view[d]
        /\ Users(r) = {} \/ lock' = [lock EXCEPT ![r] = NoConn]
        /\ UNCHANGED <<clients, room>>
    <3>1. ~Blocks(c, Registered(r))
      BY <1>4, <1>f
    <3>2. /\ pc[c] = "left"
          /\ Users(r) = {} \/ lock' = [lock EXCEPT ![r] = NoConn]
          /\ view' = [d \in Conn |-> IF d \in Registered(r)
                                     THEN view[d] \ {u} ELSE view[d]]
          /\ UNCHANGED <<clients, room>>
      BY <1>4, <3>1 DEF AnnounceLeft, WithLeft
    <3>3. QED
      BY <3>2
  <2>2. r \in Room /\ lock[r] = c
    BY <1>4, <1>c, <2>1 DEF Critical
  <2>3. /\ Here(r) = IF Registered(r) = {} THEN {} ELSE Users(r) \cup {u}
        /\ u \notin Users(r)
    <3>1. clients[r][u] = NoConn
      BY <1>4, <1>a, <2>1, <2>2 DEF Agreed, Leaving
    <3>2. QED
      BY <1>4, <1>a, <2>1, <2>2, <3>1 DEF Placed, Users
  <2>4. /\ Users(r)' = Users(r) /\ Registered(r)' = Registered(r)
        /\ Registered(r) = {} <=> Users(r) = {}
    BY <2>1, <2>2, RegisteredBy, RegisteredUser DEF Users, Registered
  <2>5. Here(r)' = Users(r)
    <3>1. CASE Users(r) = {}
      <4>1. Exact(r)'
        BY <2>4, <3>1 DEF Exact
      <4>2. QED
        BY <1>a, <2>2, <2>4, <4>1 DEF Placed
    <3>2. CASE lock' = [lock EXCEPT ![r] = NoConn]
      BY <1>4, <1>a, <2>2, <2>4, <3>2 DEF Agreed, Placed
    <3>3. QED
      BY <2>1, <3>1, <3>2
  <2>6. Here(r)' = Here(r) \/ OneMoves(r, u)
    BY <2>3, <2>4, <2>5 DEF OneMoves
  <2>7. ASSUME NEW q \in Room \ {r} PROVE Here(q)' = Here(q)
    <3>1. \A d \in Registered(q) : d \in Conn /\ d \notin Registered(r)
      BY <1>b, <2>2, <2>7 DEF Registered
    <3>2. QED
      BY <2>1, <3>1, HereFrame
  <2>8. QED
    BY <2>6, <2>7
<1>5. ASSUME NEW c \in Conn, LockRegister(c) PROVE \A q \in Room : Here(q)' = Here(q)
  <2>1. /\ pc[c] = "register"
        /\ UNCHANGED clients
        /\ \A d \in Conn \ {c} : view'[d] = view[d]
    BY <1>5 DEF LockRegister
  <2>2. \A q \in Room : \A d \in Registered(q) : d \in Conn \ {c}
    BY <1>b, <2>1 DEF Registered, Early
  <2>3. QED
    BY <2>1, <2>2, HereFrame
<1>6. ASSUME NEW c \in Conn,
             \/ Connect(c) \/ CreateRoom(c) \/ SetPresence(c) \/ UpdateStatus(c)
             \/ PeerCloses(c) \/ CloseReplaced(c) \/ ReadFails(c)
             \/ BufferFills(c) \/ BufferDrains(c)
             \/ (\E d \in Conn : DropSlow(c, d))
             \/ UnregisterStale(c) \/ RemoveRoom(c) \/ Shutdown(c)
      PROVE  \A q \in Room : Here(q)' = Here(q)
  <2>1. UNCHANGED <<clients, view>>
    BY <1>6 DEF Connect, CreateRoom, SetPresence, UpdateStatus, PeerCloses,
                CloseReplaced, ReadFails, BufferFills, BufferDrains, DropSlow,
                UnregisterStale, RemoveRoom, Shutdown
  <2>2. QED
    BY <2>1, HereFrame
<1>7. CASE UNCHANGED vars
  BY <1>7, HereFrame DEF vars
<1>8. QED
  <2>1. ASSUME NEW c \in Conn,
               Store(c) \/ AnnounceJoin(c) \/ Unregister(c) \/ AnnounceLeft(c)
        PROVE  \E r \in Room, u \in User :
                 /\ Here(r)' = Here(r) \/ OneMoves(r, u)
                 /\ \A q \in Room \ {r} : Here(q)' = Here(q)
    <3>1. room[c] \in Room /\ UserOf[c] \in User /\ UserOf[victim[c]] \in User
      <4>1. pc[c] \notin {"idle", "create"}
        BY <2>1 DEF Store, AnnounceJoin, Unregister, AnnounceLeft
      <4>2. QED
        BY <4>1 DEF Structure, RoomInv
    <3>2. CASE Store(c) \/ AnnounceJoin(c)
      BY <1>1, <1>2, <3>1, <3>2
    <3>3. CASE Unregister(c) \/ AnnounceLeft(c)
      BY <1>3, <1>4, <3>1, <3>3
    <3>4. QED
      BY <2>1, <3>2, <3>3
  <2>2. ASSUME NEW r \in Room, NEW u \in User, Here(r)' = Here(r) \/ OneMoves(r, u),
               \A q \in Room \ {r} : Here(q)' = Here(q)
        PROVE  \/ \A q \in Room : Here(q)' = Here(q)
               \/ OneMoves(r, u) /\ \A q \in Room \ {r} : Here(q)' = Here(q)
    BY <2>2
  <2>3. QED
    BY <1>5, <1>6, <1>7, <2>1, <2>2 DEF Next

AllAlike ==
  /\ Shows = [q \in Room |-> Book!Alike(Here(q))]
  /\ \A q \in Room : Book!Present(q) = Here(q)

(* Whoever is Here shows the rest of them, so Shows is a function of Here. *)
LEMMA ShowsAlike ==
  ASSUME PlacedEverywhere
  PROVE  AllAlike
<1>1. \A q \in Room :
        [u \in Here(q) |-> view[Seat(q, u)]] = [u \in Here(q) |-> Here(q) \ {u}]
  BY DEF PlacedEverywhere, Placed
<1>2. Shows = [q \in Room |-> [u \in Here(q) |-> Here(q) \ {u}]]
  BY <1>1 DEF Shows
<1>3. QED
  BY <1>2 DEF Book!Alike, Book!Present, AllAlike

(* So a step is Roster's Arrive or Depart of the user who moves, or none. *)
LEMMA RosterStep ==
  ASSUME RosterInv, RosterInv', AllAlike, AllAlike', NobodyStuck', [Next]_vars
  PROVE  [Book!Next]_Shows
<1>1. /\ Shows = [q \in Room |-> Book!Alike(Here(q))]
      /\ Shows' = [q \in Room |-> Book!Alike(Here(q)')]
      /\ \A q \in Room : Book!Present(q) = Here(q)
  BY DEF AllAlike, Book!Alike, Room
<1>2. CASE \A q \in Room : Here(q)' = Here(q)
  BY <1>1, <1>2
<1>3. ASSUME NEW r \in Room, NEW u \in User, OneMoves(r, u),
             \A q \in Room \ {r} : Here(q)' = Here(q)
      PROVE  Book!Arrive(r, u) \/ Book!Depart(r, u)
  <2>1. Shows' = [Shows EXCEPT ![r] = Book!Alike(Here(r)')]
    BY <1>1, <1>3
  <2>2. CASE u \notin Here(r) /\ Here(r)' = Here(r) \cup {u}
    BY <1>1, <2>1, <2>2 DEF Book!Arrive
  <2>3. CASE u \in Here(r) /\ Here(r)' = Here(r) \ {u}
    BY <1>1, <2>1, <2>3 DEF Book!Depart
  <2>4. QED
    BY <1>3, <2>2, <2>3 DEF OneMoves
<1>4. QED
  BY <1>2, <1>3, HereStep DEF Book!Next

(* The peer snapshot, the store, the two broadcasts and the early return of*)
(* register and unregister implement one roster per Room: to its users,    *)
(* exactly one user at a time arrives or departs, for all of them alike,   *)
(* and a takeover or a stale unregister is not seen at all.  Slow clients  *)
(* may be dropped, as long as no broadcast under lifecycleMu has blocked.  *)
THEOREM RoomImplementsRoster == Spec => ImplementsRoster
<1>1. RosterInv /\ NobodyStuck => AllAlike
  BY ShowsAlike DEF RosterInv
<1>2. Init /\ RosterInv => Book!Init
  <2> SUFFICES ASSUME Init, RosterInv PROVE Book!Init
    OBVIOUS
  <2>1. \A q \in Room : Here(q) = {}
    BY ConnAssumption DEF Init, Here, Registered, Room
  <2>2. AllAlike
    BY <1>1 DEF Init, NobodyStuck
  <2>3. QED
    BY <2>1, <2>2 DEF AllAlike, Book!Init
<1>3. RosterInv /\ RosterInv' /\ [Next]_vars => [NobodyStuck' => Book!Next]_Shows
  <2> SUFFICES ASSUME RosterInv, RosterInv', [Next]_vars, NobodyStuck'
               PROVE  [Book!Next]_Shows
    OBVIOUS
  <2>1. NobodyStuck
    BY StuckStays DEF RosterInv
  <2>2. AllAlike
    BY <1>1, <2>1
  <2>3. AllAlike'
    BY ShowsAlike, PTL DEF RosterInv
  <2>4. QED
    BY <2>2, <2>3, RosterStep
<1>4. QED
  BY <1>2, <1>3, RosterHolds, PTL DEF Spec, ImplementsRoster

=============================================================================
