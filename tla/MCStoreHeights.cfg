SPECIFICATION SpecInOrder
CONSTANTS
  g = g
  a1 = a1
  a2 = a2
  a3 = a3
  a4 = a4
  a5 = a5
  b1 = b1
  b2 = b2
  b3 = b3
  b4 = b4
  c2 = c2
  c3 = c3
  c4 = c4
  mint = mint
  pay = pay
  back = back
  other = other
  coin = coin
  alice = alice
  bob = bob
  NoAddress = NoAddress
  NoBlock = NoBlock
  Delta = 1
  Block <- ManyBlocks
  Prev <- MCPrev
  Genesis = g
  TxData <- MCTxData
  TxId <- MCTxId
  Tx <- MCTx
  Address <- MCAddress
  DuplicateTxIds <- MCDuplicateTxIds
INVARIANTS
  MinConfirmations
