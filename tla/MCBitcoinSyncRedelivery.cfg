SPECIFICATION Spec
CONSTANTS
  g = g
  a1 = a1
  a2 = a2
  a3 = a3
  b1 = b1
  b2 = b2
  mint = mint
  pay = pay
  back = back
  alice = alice
  bob = bob
  p = p
  q = q
  NoAddress = NoAddress
  NoBlock = NoBlock
  Delta = 1
  Block <- OneChain
  Prev <- MCPrev
  Genesis = g
  TxData <- MCTxData
  TxId <- MCTxId
  Tx <- MCTx
  Address <- MCAddress
  DuplicateTxIds <- MCDuplicateTxIds
  Payment <- MCPayment
  MaxBatch = 2
  MaxCrashes = 1
INVARIANTS
  UnstableNotStable
