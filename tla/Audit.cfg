SPECIFICATION FairSpec
CONSTANTS
  checkpoint = checkpoint
  auth = auth
  poll1 = poll1
  poll2 = poll2
  run = run
  rule1 = rule1
  rule2 = rule2
  Txn = {checkpoint, auth, poll1, poll2}
  Row = {run, rule1, rule2}
  NoRow = NoRow
  Optional = {rule1, rule2}
  Work <- MCWork
  NoTxn = NoTxn
  NoHash = NoHash
  PoolSize = 3
  MaxFaults = 1
INVARIANTS
  ChainIsLinear
  TransactionsAreContiguous
  TamperingIsDetected
PROPERTIES
  EveryTransactionEnds
