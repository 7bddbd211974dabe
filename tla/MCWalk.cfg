SPECIFICATION Spec
CONSTANTS
  u1 = u1  u2 = u2
  User <- MCUser
  Follower <- MCFollower
  Length = 3
  Tolerance = 1
INVARIANTS TypeOK SavedWasVisited StartAccepted PeersAgree
