SPECIFICATION FairSpec
CONSTANTS
  g = g
  a1 = a1
  a2 = a2
  a3 = a3
  b1 = b1
  b2 = b2
  mint = mint
  pay = pay
  back = back
  alice = alice
  bob = bob
  f = f
  h = h
  NoAddress = NoAddress
  NoBlock = NoBlock
  Unloadable = Unloadable
  Delta = 1
  Block <- MCBlock
  Prev <- MCPrev
  Genesis = g
  TxData <- MCTxData
  TxId <- MCTxId
  Tx <- MCTx
  Address <- MCAddress
  DuplicateTxIds <- MCDuplicateTxIds
  File <- MCFile
  MaxBatch = 2
  MaxStarts = 2
INVARIANTS
  AnswerStillFresh
  NoHalfInsertSeen
PROPERTIES
  CatchesUp
CHECK_DEADLOCK FALSE
