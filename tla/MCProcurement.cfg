CONSTANTS
  r1 = r1  r2 = r2  r3 = r3  r4 = r4  o1 = o1
  Requests = {r1, r2, r3, r4}
  MaxInFlight = 3
  PoolSize = 10
  Orders = {o1}
  Ordered <- MCOrdered
  Loads <- AllLoads
SYMMETRY SymmetricRequests
SPECIFICATION Spec
CHECK_DEADLOCK FALSE
INVARIANTS ReceiptsExplainOrder MovementsFollowReceipts
PROPERTY TransitionsObeyed
