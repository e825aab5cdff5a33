SPECIFICATION FairSpec
CONSTANTS
  Node = {1, 2}
  Servers = {1}
  NoNode = 0
  MaxSockets = 3
  RandSeq = {5}
  HelloLen = 2
  ReSendCap = 4
  ReceiveCap = 3
  ChanCap = 3
  MaxLoss = 2
  MaxEarly = 2
  MaxBacklog = 20
  MaxDials = 2
  PatientUser = TRUE
  LongTimeWait = TRUE
INVARIANTS TypeOK FdAccounting SequenceAgreement UsersMatchSockets TeardownOrder RetransmissionArmed TimersHaveWork
PROPERTIES CloseNeverUndone Connects HelloAcknowledged Closes
CHECK_DEADLOCK FALSE
