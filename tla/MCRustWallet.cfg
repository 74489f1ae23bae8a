SPECIFICATION Spec
CONSTANTS
  x = x
  y = y
  z = z
  d1 = d1
  d2 = d2
  d3 = d3
  Source = "source"
  Destination = "destination"
  Word = 64
  DustThreshold = 2
  Fees = 2
  Call <- MCCall
  Deposit <- MCDeposit
  Value <- MCValue
  Amount <- MCAmount
INVARIANTS
  NoDoubleSpend
  MarksExact
  FeesPaid
CHECK_DEADLOCK FALSE
