SPECIFICATION Spec
CONSTANTS
  B = 16
  S = 3
  Start = 11
  LineLens = {2, 7}
  MaxBytes = 14
  ReceiveCap = 3
  ChanCap = 4
  MaxLoss = 0
  MaxEarly = 0
INVARIANTS InOrderDelivery
CHECK_DEADLOCK FALSE
