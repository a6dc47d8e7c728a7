SPECIFICATION FairSpec
CONSTANTS
  a1 = a1  a2 = a2  i1 = i1  r1 = r1  r2 = r2  r3 = r3
  Accounts = {a1, a2}
  Invoices = {i1}
  Requests = {r1, r2}
  MaxInFlight = 2
  PoolSize = 3
  Inputs <- OppositeTransfers
  Opening <- MCOpening
  Total <- MCTotal
  Limit = 12
PROPERTIES Served
CHECK_DEADLOCK FALSE
