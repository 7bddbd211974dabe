SPECIFICATION FairSpec
CONSTANTS
  a1 = a1  a2 = a2  b1 = b1  ua = ua  ub = ub
  NoConn = NoConn
  User <- MCUser
  Conn <- MCConn
  UserOf <- MCUserOf
  SlowConn <- MCSlowConn
INVARIANTS TypeOK PresenceAgreement NoPhantomEviction HubRoomTicks PresenceRecorded
PROPERTIES   ImplementsRoster
CHECK_DEADLOCK FALSE
