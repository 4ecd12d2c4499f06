SPECIFICATION MCSpec
CONSTANTS
  a1 = a1
  a2 = a2
  a3 = a3
  x = x
  y = y
  q1 = q1
  q2 = q2
  u1 = u1
  u2 = u2
  c1 = c1
  c2 = c2
  b1 = b1
  p1 = p1
  p2 = p2
  r1 = r1
  s1 = s1
  s2 = s2
  v1 = v1
  v2 = v2
  e1 = e1
  e2 = e2
  e3 = e3
  e4 = e4
  Attempt <- MCAttempt
  Content <- MCContent
  MaxMishaps = 1
  Request <- MCRequest
  Rate = 1
  Burst = 2
  Keep = 5
  Skew = 1
  MaxTime = 8
  MaxBuckets = 2
  MaxOutages = 1
  Length = 3
  Compensable <- MCCompensable
  Retries = 1
  MaxCrashes = 2
  MaxLost = 1
  User <- MCUser
  Call <- MCCall
  MaxTokens = 4
  MaxLostDeletes = 1
  Booking <- MCBooking
  Poller <- MCPoller
  Retrier <- MCRetrier
  BatchSize = 2
  MaxRetries = 2
  MaxStops = 1
  Slug <- MCSlug
  Visit <- MCVisit
  Entry <- MCEntry
  BufferSize = 2
  AuditBatch = 2
INVARIANTS
  ServicesTypeOK
  OneRunPerKey
  PassesWithinRate
  EndsAsStored
  OneSessionPerLogin
  EventsOnce
  CatalogueFollowsEdits
  AuditedOnce
CHECK_DEADLOCK FALSE
