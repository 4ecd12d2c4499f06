SPECIFICATION ZoneFairSpec
CONSTANTS
  b1 = b1
  b2 = b2
  ann = ann
  flight = flight
  w1 = w1
  w2 = w2
  Booking = {b1, b2}
  User = {ann}
  Owner <- MCOwner
  Qty <- MCQty
  Capacity = 1
  MaxPerUser = 0
  Writer = {w1, w2}
  Flight = flight
INVARIANTS
  CaughtUpTable
PROPERTIES
  OnlySyncsOversell
  EveryMissAnswered
CHECK_DEADLOCK FALSE
