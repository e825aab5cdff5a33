SPECIFICATION Spec
CONSTANTS
  Node = {1, 2, 3}
  Servers = {1}
  NoNode = 0
  MaxSockets = 2
  RandSeq = {5}
  HelloLen = 2
  ReSendCap = 4
  ReceiveCap = 3
  ChanCap = 3
  MaxLoss = 0
  MaxEarly = 0
  MaxBacklog = 6
  MaxDials = 1
  PatientUser = TRUE
  LongTimeWait = FALSE
PROPERTIES ListenerStays
CHECK_DEADLOCK FALSE
