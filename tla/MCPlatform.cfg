CONSTANTS
  w1 = w1  free = free  premium = premium
  Workers = {w1}
  Mixes <- MCMixes
  Tenants = {"t1"}
  Persons = {"p1", "p2"}
  Plans = {free, premium}
  FreePlan = free
  Payments = {"y1", "y2", "y3"}
  Intents = {"i1"}
  Exports = {"x1"}
  Tickets = {"k1"}
  Trial = 2
  Period = 4
  LastTick = 6
  MaxExports = 2
SPECIFICATION PlatformSpec
CHECK_DEADLOCK FALSE
INVARIANTS ActiveIsPaidFor OpenedAsItWasLocked OverdueTrialsEndedAtDawn ExportedAnew
