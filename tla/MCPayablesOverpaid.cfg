CONSTANTS
  r1 = r1  r2 = r2  r3 = r3  r4 = r4
  a1 = a1  b1 = b1  b2 = b2  p1 = p1  p2 = p2
  Requests = {r1, r2, r3, r4}
  MaxInFlight = 3
  PoolSize = 10
  Accounts = {a1}
  Bills = {b1, b2}
  Plans = {p1, p2}
  NoBill = NoBill
  Opening <- MCOpening
  Net <- MCNet
  Loads <- PaidBothWays
SPECIFICATION Spec
CHECK_DEADLOCK FALSE
INVARIANT PaidWithinNet
