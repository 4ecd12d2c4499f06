SPECIFICATION RedisSpec
CONSTANTS
  b1 = b1
  b2 = b2
  b3 = b3
  b4 = b4
  ann = ann
  bob = bob
  Booking = {b1, b2, b3, b4}
  User = {ann, bob}
  Owner <- MCOwner
  Qty <- MCQty
  Capacity = 4
  MaxPerUser = 3
INVARIANTS
  RedisTypeOK
  SeatConservation
  HoldLimit
PROPERTIES
  ImplementsSale
CHECK_DEADLOCK FALSE
