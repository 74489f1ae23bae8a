SPECIFICATION Spec
CONSTANTS
  p = p
  q = q
  x = x
  y = y
  Client <- MCClient
  Call <- MCCall
  Value <- MCValue
  Amount <- MCAmount
  Fee = 2
  MaxAccounts = 2
  MaxCalls = 6
  MaxUsed = 2
INVARIANTS
  NoDoubleDrain
  UsedNotOpen
  SortedUnlessUnderWay
  SupplyBacked
  SupplyIsBalances
SYMMETRY Symmetry
CHECK_DEADLOCK FALSE
