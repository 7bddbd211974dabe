SPECIFICATION Spec
CONSTANTS
  i1 = i1  i2 = i2
  User <- MCUsers
  Tile <- MCTiles
  Roam <- MCRoam
  Away = Away  Leaving = Leaving  Offline = Offline
  SessionId <- MCIds
  NoSession = NoSession
  Nothing = Nothing
  EndDebounce = 1
  LeaveGrace = 2
  RejoinWindow = 1
SYMMETRY Interchangeable
INVARIANTS TypeOK SessionsPartition
PROPERTIES AbsentMembersLeave FreeNeighboursMeet LeaverNotPairedAgain
