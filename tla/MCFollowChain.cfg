SPECIFICATION Spec
CONSTANTS
  ua = ua  ub = ub  uc = uc  ud = ud
  ca = ca  cb = cb  cc = cc  cd = cd  ca2 = ca2
  User <- MCUsers4
  Conn <- MCConns5
  UserOf <- MCUserOf
  NoUser = NoUser
  NoConn = NoConn
  MaxFollowChain = 6
INVARIANTS TypeOK LinksSymmetric ClientsInformed KeyIsCurrent
PROPERTIES ImplementsLines
CONSTRAINT Undisturbed
CHECK_DEADLOCK FALSE
