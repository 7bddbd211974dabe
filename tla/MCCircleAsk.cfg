SPECIFICATION Spec
CONSTANTS
  u1 = u1  u2 = u2  u3 = u3
  User <- MCUser
  Asker <- MCAsker
  Circle = {i1}
  Threshold = 3
  MaxDenials = 4
  NoCircle = NoCircle
  NoEntry = NoEntry
SYMMETRY Interchangeable
INVARIANTS TypeOK DenialsCounted LockoutHolds
CHECK_DEADLOCK FALSE
