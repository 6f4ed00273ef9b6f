\* One removed chain block, one request of each kind at a time.
SPECIFICATION FairSpec
CONSTANTS
  h1 = h1
  h2 = h2
  h3 = h3
  c1 = c1
  p = p
  alice = alice
  bob = bob
  o1 = o1
  o2 = o2
  Nil = Nil
  Hash <- MCHash
  TxId <- MCTxId
  Address <- MCAddress
  Outpoint <- MCOutpoint
  Coinbase <- MCCoinbase
  Inputs <- MCInputs
  FundedBy <- MCFundedBy
  Owner <- MCOwner
  Amount <- MCAmount
  Reward <- MCReward
  HISTORY_MAX_LIMIT = 2
  MaxReorgs = 1
INVARIANTS
  
  PageWithinCount
  
PROPERTIES
  PendingClears
  
