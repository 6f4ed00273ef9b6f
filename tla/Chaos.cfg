\* Every fault at once, with a channel of two and staging for one block and
\* one transaction: what must hold of the tables whatever happens.
SPECIFICATION Spec
CONSTANTS
  b0 = b0
  b1 = b1
  b2 = b2
  b3 = b3
  b4 = b4
  b5 = b5
  f2 = f2
  f3 = f3
  c1 = c1
  p = p
  q = q
  alice = alice
  bob = bob
  o1 = o1
  o2 = o2
  o3 = o3
  Nil = Nil
  Hash <- SmallFork
  TxId <- MCTxId
  Address <- MCAddress
  Outpoint <- MCOutpoint
  Coinbase <- MCCoinbase
  Inputs <- MCInputs
  FundedBy <- MCFundedBy
  Owner <- MCOwner
  Amount <- MCAmount
  Genesis = b0
  Parent <- MCParent
  Daa <- MCDaa
  Body <- MCBody
  Accepts <- MCAccepts
  ChainBatch = 10
  NOTIF_QUEUE = 2
  STAGE_BLOCK_CAP = 1
  STAGE_TX_CAP = 1
  WindowDaa = 1
  EXPIRE_INTERVAL_DAA = 1
  Faults = {"break", "rpc", "store", "crash", "reorg"}
  MaxGeneration = 3
  MaxCrashes = 1
INVARIANTS
  IndexerTypeOK
  WindowRowsOnce
  LiveMeansSubscribed
CHECK_DEADLOCK FALSE
