SPECIFICATION SagaSpec
CONSTANTS
  s1 = s1
  w1 = w1
  w2 = w2
  Saga = {s1}
  Worker = {w1, w2}
  Timed = {"reserve-seats", "process-payment", "confirm-booking"}
  MaxDisturbed = 1
INVARIANTS
  SagaTypeOK
  CompletedTookEffect
  CompensationsNamed
PROPERTIES
  ImplementsChain
  EverySagaEnds
CHECK_DEADLOCK FALSE
