SPECIFICATION AccountSpec
CONSTANTS
  x = x
  y = y
  z = z
  d1 = d1
  d2 = d2
  d3 = d3
  Source = "source"
  Destination = "destination"
  Word = 64
  DustThreshold = 2
  Fees = 2
  Call <- Calls2
  Deposit <- MCDeposit
  Value <- MCValue
  Amount <- MCAmount
  MaxConcurrent = 2
INVARIANTS
  NoDoubleSpend
CHECK_DEADLOCK FALSE
