\* Sweeps and aborted batches, without reorgs and with blocks in any order.
SPECIFICATION MCSpec
CONSTANTS
  h1 = h1
  h2 = h2
  h3 = h3
  h4 = h4
  f2 = f2
  f3 = f3
  ca = ca
  cb = cb
  ra = ra
  ub = ub
  uc = uc
  r1 = r1
  r2 = r2
  rb = rb
  ch = ch
  dreq = dreq
  dub = dub
  d1 = d1
  d2 = d2
  d3 = d3
  model = model
  miner = miner
  miner2 = miner2
  Nil = Nil
  Hash <- MCHash
  TxId <- MCTxId
  Address = {}
  Outpoint = {}
  Coinbase <- MCCoinbase
  Inputs <- MCInputs
  FundedBy <- NoOutpoint
  Owner <- NoOutpoint
  Amount <- NoOutpoint
  Digest <- MCDigest
  AiBody <- MCAiBody
  Declares <- MCDeclares
  MaxTxNum = 9
  MaxDaa = 4
  Orders = {"chain", "any"}
INVARIANTS
  RequestKeysAgree
  AnswersComplete
  AnnouncedFeed
  AnnouncedRequests
  AnnouncedCapabilities
  AnnouncedChallenges
PROPERTIES
  SweepKeepsFeed
