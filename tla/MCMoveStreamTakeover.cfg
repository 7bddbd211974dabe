SPECIFICATION FairSpec
CONSTANTS
  w1 = w1  a1 = a1  a2 = a2  uw = uw  ua = ua
  None = None  Floor = Floor  OnTheWay = OnTheWay
  User <- MCUser
  Conn = {w1, a1, a2}
  UserOf <- MCUserOf
  Watcher = w1
  Length = 2
  WatcherTile = {0}
  CellSize = 2
  Room = {}
  JsonBuffer = 1
  BinBuffer = 1
PROPERTY Healed
CHECK_DEADLOCK FALSE
