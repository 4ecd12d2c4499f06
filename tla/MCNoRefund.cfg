SPECIFICATION SagaSpec
CONSTANTS
  s1 = s1
  w1 = w1
  w2 = w2
  Saga = {s1}
  Worker = {w1}
  Timed = {}
  MaxDisturbed = 0
INVARIANTS
  PaidIsRefunded
CHECK_DEADLOCK FALSE
