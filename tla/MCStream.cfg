SPECIFICATION FairSpec
CONSTANTS
  B = 16
  S = 3
  Start = 1
  LineLens = {2, 7}
  MaxBytes = 11
  ReceiveCap = 3
  ChanCap = 4
  MaxLoss = 2
  MaxEarly = 1
INVARIANTS TypeOK InOrderDelivery WindowAgreement RemainTracksWindow
PROPERTIES SentIsAcknowledged
CHECK_DEADLOCK FALSE
