SPECIFICATION FairSpec
CONSTANTS
  Buffer = {1, 2, 3}
  MaxSends = 6
  MaxFail = 2
INVARIANTS PoolAccounting MessageIsStable
PROPERTIES IsPacketQueue EverythingIsSent
CHECK_DEADLOCK FALSE
