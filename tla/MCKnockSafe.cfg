SPECIFICATION Spec
CONSTANTS
  knocker = knocker  u1 = u1  u2 = u2  r1 = r1  r2 = r2
  NoRequest = NoRequest
  NoEntry = NoEntry
  User <- MCUser
  Zone = {z1}
  RequestId <- MCRequestId
  MaxDenies = 2
INVARIANTS TypeOK OneAnswer KnockReachesAll OneLateKnock
CONSTRAINT OneKnocks
SYMMETRY Interchangeable
