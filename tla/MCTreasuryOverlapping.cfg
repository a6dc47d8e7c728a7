SPECIFICATION Spec
CONSTANTS
  a1 = a1  a2 = a2  i1 = i1  r1 = r1  r2 = r2  r3 = r3
  Accounts = {a1, a2}
  Invoices = {i1}
  Requests = {r1, r2, r3}
  MaxInFlight = 3
  PoolSize = 4
  Inputs <- OverlappingInputs
  Opening <- MCOpening
  Total <- MCTotal
  Limit = 6
SYMMETRY SymmetricRequests
INVARIANTS NoOverdraft PaidWithinTotal PaidWithinReceipts
CHECK_DEADLOCK FALSE
