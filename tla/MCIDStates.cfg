\* Three queries of one client share one slot: evictions, restores, failed sends and timeouts meet on it.
CONSTANTS
  c1 = c1
  c2 = c2
  r1 = r1
  q1 = q1
  q2 = q2
  q3 = q3
  k1 = k1
  k2 = k2
  Clients = {c1}
  Responders = {r1}
  Health = health
  Queries = {q1, q2, q3}
  Question <- MCQuestion
  Sockets = {k1}
  SlotCount = 1
  UdpTimeout = 0
  MaxCopies = 1
  NoThread = NoThread
  NoQuery = NoQuery
SPECIFICATION FairSpec
INVARIANTS
  TypeOK
  GuardDiscipline
  OutstandingExact
  Conserved
PROPERTIES
  ImplementsInFlight
  NotTimedOutEarly
  EventuallyResolved
CHECK_DEADLOCK FALSE
