SPECIFICATION OfficeSpec
CONSTANTS
  w1 = w1
  w2 = w2
  ada = ada
  bob = bob
  b1 = b1
  b2 = b2
  r1 = r1
  r2 = r2
  r3 = r3
  i1 = i1
  i2 = i2
  t1 = t1
  t2 = t2
  t3 = t3
  l1 = l1
  l2 = l2
  s1 = s1
  s2 = s2
  Workers = {w1, w2}
  People = {ada, bob}
  Businesses = {b1, b2}
  Rates = {r1, r2, r3}
  Invitations = {i1}
  Tokens = {t1, t2}
  Links = {l1, l2}
  Tasks = {t1, t2, t3}
  Subtasks = {s1, s2}
  Messages = {l1, l2, s1}
  Sockets = {s1, s2}
  MaxJoined = 2
  MaxOrder = 3
  MaxReplies = 2
  LastDay = 1
  Mixes <- MCMixes
INVARIANTS GrantedIsServed InvitationsAccounted OneDefaultRate
INVARIANTS LoggedOutStaysOut SuspendedStaysSuspended OneTaskPerPlace RepliesCounted PresenceIsTrue
CHECK_DEADLOCK FALSE
