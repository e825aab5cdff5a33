SPECIFICATION FairSpec
CONSTANTS
  Neighbor = {2}
  Alpha = 100
  Good = 715
  Poor = 400
  Margin = 50
  FewLost = 2
  DropValue = 9
  MaxLate = 2
INVARIANTS TypeOK CostsAreSound
PROPERTIES DroppedOnlyWhenSilent RowFollowsTable SilentIsForgotten ReliableIsGood
CHECK_DEADLOCK FALSE
