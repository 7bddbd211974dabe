SPECIFICATION FirstStart
CONSTANTS
  ua = ua  ub = ub  uc = uc  ud = ud
  ca = ca  cb = cb  cc = cc  cd = cd  ca2 = ca2
  User <- MCUsers2
  Conn <- MCConns3
  UserOf <- MCUserOf
  NoUser = NoUser
  NoConn = NoConn
  MaxFollowChain = 6
INVARIANT NoCycle
CHECK_DEADLOCK FALSE
