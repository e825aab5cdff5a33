SPECIFICATION FairSpec
CONSTANTS
  N = 4
  Self = 2
  MaxCost = 2
  Infinite = 99
  MaxChange = 2
INVARIANTS RoutesBalance RoutesAreShortest NextHopsLead
PROPERTIES TableSettles
CHECK_DEADLOCK FALSE
