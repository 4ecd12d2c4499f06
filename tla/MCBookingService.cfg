SPECIFICATION ApiSpec
CONSTANTS
  b1 = b1
  b2 = b2
  b3 = b3
  ann = ann
  bob = bob
  reserve1 = reserve1
  reserve2 = reserve2
  reserve3 = reserve3
  confirm1 = confirm1
  confirm1again = confirm1again
  cancel1 = cancel1
  Booking = {b1, b2, b3}
  User = {ann, bob}
  Owner <- MCOwner
  Qty <- MCQty
  Capacity = 3
  MaxPerUser = 2
  Call = {reserve1, reserve2, reserve3, confirm1, confirm1again, cancel1}
  Op <- MCOp
  Target <- MCTarget
  Key <- MCKey
  NoKey = NoKey
INVARIANTS
  RowBacked
  SeatsFit
  AnswersStand
  OneBookingPerKey
CHECK_DEADLOCK FALSE
