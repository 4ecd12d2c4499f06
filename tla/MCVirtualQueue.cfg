SPECIFICATION QueueSpec
CONSTANTS
  alice = alice
  bob = bob
  r1 = r1
  r2 = r2
  p1 = p1
  q1 = q1
  User <- MCUser
  Releaser <- MCReleaser
  Poll <- MCPoll
  Request <- MCRequest
  Limit = 1
  MaxQueue = 2
  MaxJoins <- MCMaxJoins
  MaxStops = 1
CHECK_DEADLOCK FALSE
INVARIANTS
  QueueTypeOK
  PassesBounded
  PassWithinReach
PROPERTIES
  FirstComeFirstServed
  EveryoneServed
