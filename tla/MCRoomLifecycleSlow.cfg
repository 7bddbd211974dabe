SPECIFICATION FairSpec
CONSTANTS
  a1 = a1  a2 = a2  b1 = b1  ua = ua  ub = ub
  NoConn = NoConn
  User <- MCUser
  Conn <- MCConn
  UserOf <- MCUserOf
  SlowConn <- MCSlowConn
PROPERTY DepartureCompletes
CHECK_DEADLOCK FALSE
