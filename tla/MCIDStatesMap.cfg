CONSTANTS
  q1 = q1
  q2 = q2
  q3 = q3
  Clients = {c1, c2}
  Responders = {r1}
  Queries = {q1, q2, q3}
  Question <- MCQuestion
  Sockets = {k1}
  IDs = {1, 2}
  UdpTimeout = 0
  MaxCopies = 1
  NoQuery = NoQuery
SPECIFICATION FairSpec
INVARIANTS
  TypeOK
  OutstandingIsSize
PROPERTIES
  ImplementsInFlight
  EventuallyResolved
CHECK_DEADLOCK FALSE
