SPECIFICATION Spec
CONSTANTS
  Source = {1, 2}
  NoPacket = NoPacket
  MaxSeq = 2
  FragSize = 2
  Lengths = {1, 3, 4}
  PendingCap = 2
  TimeoutCap = 6
  MaxSend = 3
  MaxLoss = 2
  MaxOvertake = 1
INVARIANTS TypeOK WholeUnlessContested PendingIsWatched
CHECK_DEADLOCK FALSE
