CONSTANTS
  r1 = r1  r2 = r2  r3 = r3  r4 = r4  r5 = r5  b1 = b1  b2 = b2
  Requests = {r1, r2, r3, r4, r5}
  Businesses = {b1, b2}
  Series <- AllSeries
  MaxNumber = 6
  NoBusiness = NoBusiness
SYMMETRY Symmetric
SPECIFICATION Spec
CHECK_DEADLOCK FALSE
INVARIANTS NumbersDistinct NoGaps NeverRefused
