SPECIFICATION Spec
CONSTANTS
  cb1 = cb1
  cb2 = cb2
  pay = pay
  join = join
  dup = dup
  alice = alice
  bob = bob
  NoAddress = NoAddress
  TxId <- MCTxId
  Tx <- MCTx
  Address <- MCAddress
  DuplicateTxIds <- MCDuplicateTxIds
  Height <- MCHeight
INVARIANTS
  TypeOK
  IndexConsistent
  EntriesAuthentic
  NoIndexFailure
  GetUtxosAnswers
  AnswersPartition
  RoundTrip
