SPECIFICATION PaymentSpec
CONSTANTS
  p1 = p1
  p2 = p2
  i1 = i1
  i2 = i2
  c1 = c1
  c2 = c2
  w1 = w1
  Payment = {p1, p2}
  Intent = {i1, i2}
  Call = {c1, c2}
  Hook = {w1}
  MaxCrashed = 1
INVARIANTS
  PaymentTypeOK
  RecordsBacked
  OnlyRacesChargeTwice
  EventsTrue
PROPERTIES
  PaidIsAnnounced
CHECK_DEADLOCK FALSE
