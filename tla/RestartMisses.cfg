\* One process death, and the bodies of the checkpoint block.
SPECIFICATION Spec
CONSTANTS
  b0 = b0
  b1 = b1
  b2 = b2
  b3 = b3
  b4 = b4
  b5 = b5
  f2 = f2
  f3 = f3
  c1 = c1
  p = p
  q = q
  alice = alice
  bob = bob
  o1 = o1
  o2 = o2
  o3 = o3
  Nil = Nil
  Hash <- Linear
  TxId <- MCTxId
  Address <- MCAddress
  Outpoint <- MCOutpoint
  Coinbase <- MCCoinbase
  Inputs <- MCInputs
  FundedBy <- MCFundedBy
  Owner <- MCOwner
  Amount <- MCAmount
  Genesis = b0
  Parent <- MCParent
  Daa <- MCDaa
  Body <- MCBody
  Accepts <- MCAccepts
  ChainBatch = 10
  NOTIF_QUEUE = 10
  STAGE_BLOCK_CAP = 10
  STAGE_TX_CAP = 10
  WindowDaa = 0
  EXPIRE_INTERVAL_DAA = 1
  Faults = {"crash"}
  MaxGeneration = 2
  MaxCrashes = 1
PROPERTIES
  BackfillMissesNothing
CHECK_DEADLOCK FALSE
