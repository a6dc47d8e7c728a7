SPECIFICATION Spec
CONSTANTS
  a1 = a1  a2 = a2  i1 = i1  r1 = r1  r2 = r2  r3 = r3
  Accounts = {a1, a2}
  Invoices = {i1}
  Requests = {r1, r2, r3}
  MaxInFlight = 1
  PoolSize = 2
  Inputs <- AllInputs
  Opening <- MCOpening
  Total <- MCTotal
  Limit = 7
PROPERTIES ImplementsIdeal LedgerExplainsBalance
INVARIANTS CollectedWithinTotal
CHECK_DEADLOCK FALSE
