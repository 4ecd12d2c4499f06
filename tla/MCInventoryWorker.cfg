SPECIFICATION WorkerFairSpec
CONSTANTS
  b1 = b1
  b2 = b2
  z1 = z1
  z2 = z2
  Booking = {b1, b2}
  Zone = {z1, z2}
  ZoneOf <- MCZoneOf
  Qty <- MCQty
  Capacity <- MCCapacity
  Published <- MCPublished
  MaxMishaps = 1
INVARIANTS
  WorkerTypeOK
  CountedOnce
PROPERTIES
  EveryEventSynced
CHECK_DEADLOCK FALSE
