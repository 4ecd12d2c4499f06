SPECIFICATION WorkersSpec
CONSTANTS
  b1 = b1
  b2 = b2
  ann = ann
  bob = bob
  reserve1 = reserve1
  confirm1 = confirm1
  cancel1 = cancel1
  sagaReserve2 = sagaReserve2
  sagaRelease1 = sagaRelease1
  sagaConfirm1 = sagaConfirm1
  seatRelease1 = seatRelease1
  expire1 = expire1
  sagaConfirm2 = sagaConfirm2
  Booking = {b1, b2}
  User = {ann, bob}
  Owner <- MCOwner
  Qty <- MCQty
  Capacity = 2
  MaxPerUser = 2
  Call = {reserve1}
  Op <- MCOp
  Target <- MCTarget
  Key <- MCKey
  NoKey = NoKey
  Job = {sagaReserve2, sagaConfirm2, sagaConfirm1, seatRelease1}
  Work <- MCWork
  Subject <- MCSubject
INVARIANTS
  ConfirmedRowsFit
CHECK_DEADLOCK FALSE
