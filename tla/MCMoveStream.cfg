SPECIFICATION FairSpec
CONSTANTS
  w1 = w1  a1 = a1  a2 = a2  uw = uw  ua = ua
  None = None  Floor = Floor  OnTheWay = OnTheWay
  User <- MCUser
  Conn = {w1, a1}
  UserOf <- MCUserOf
  Watcher = w1
  Length = 3
  WatcherTile = {0, 1}
  CellSize = 1
  Room = {r1}
  JsonBuffer = 1
  BinBuffer = 1
INVARIANTS TypeOK
PROPERTY Healed
