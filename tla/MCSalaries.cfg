CONSTANTS
  r1 = r1  r2 = r2  r3 = r3  r4 = r4  a1 = a1  p1 = p1  p2 = p2
  Requests = {r1, r2, r3, r4}
  MaxInFlight = 3
  PoolSize = 10
  Accounts = {a1}
  Proposals = {p1, p2}
  Opening <- MCOpening
  Loads <- AllLoads
SYMMETRY SymmetricRequests
SPECIFICATION Spec
CHECK_DEADLOCK FALSE
INVARIANTS LedgerExplainsSalaries PaidOnceAndCovered
