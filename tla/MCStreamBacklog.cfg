SPECIFICATION FairSpec
CONSTANTS
  B = 16
  S = 3
  Start = 1
  LineLens = {2, 7}
  MaxBytes = 11
  ReceiveCap = 3
  ChanCap = 4
  MaxLoss = 0
  MaxEarly = 0
PROPERTIES WrittenIsTransmitted
CHECK_DEADLOCK FALSE
