SPECIFICATION Spec
CONSTANTS
  u1 = u1  u2 = u2  u3 = u3
  User <- MCUser
  Guest <- MCGuest
  Session = {i1}
  Ticker = Ticker
  MaxChanges = 3
SYMMETRY Interchangeable
INVARIANTS TypeOK NewsReachesAll ViewersAgree
CHECK_DEADLOCK FALSE
