SPECIFICATION FairSpec
CONSTANTS
  a1 = a1  a2 = a2  b1 = b1  ua = ua  ub = ub
  NoConn = NoConn
  User <- MCUser
  Conn <- MCConn
  UserOf <- MCUserOf
  Conversation = {v1}
  SendBuffer = 1
  Speaker = {a1}
INVARIANTS TypeOK SubscriptionsIndexed NoPhantomRelay NeverEchoed
 
CHECK_DEADLOCK FALSE
