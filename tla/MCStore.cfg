\* Any order of apply, unwind_chain_block and expire_below.
SPECIFICATION MCSpec
CONSTANTS
  h1 = h1
  h2 = h2
  h3 = h3
  f2 = f2
  c1 = c1
  p = p
  q = q
  alice = alice
  bob = bob
  o1 = o1
  o2 = o2
  o3 = o3
  o4 = o4
  Nil = Nil
  Hash <- MCHash
  TxId <- MCTxId
  Address <- MCAddress
  Outpoint <- MCOutpoint
  Coinbase <- MCCoinbase
  Inputs <- MCInputs
  FundedBy <- MCFundedBy
  Owner <- MCOwner
  Amount <- MCAmount
  MaxTxNum = 6
  MaxDaa = 4
INVARIANTS
  NoDanglingIndex
  HistoryMatchesLedger
  CountersCoverRows
  ReorgListsAgree
  UnwindUndoesApply
PROPERTIES
  AppliedExactlyOnce
  ImplementsLedger
