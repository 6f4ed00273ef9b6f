------------------------------- MODULE Store -------------------------------
(***************************************************************************)
(* The ledger tables of the redb index (src/indexer/store.rs) and the      *)
(* three write operations on them: apply, unwind_chain_block and           *)
(* expire_below.                                                           *)
(*                                                                         *)
(* A table is a function whose domain is the set of its keys, and the      *)
(* whole database is one record, `db`, because redb commits all tables     *)
(* together.  apply walks its groups inside one open write transaction:    *)
(* the walk works on a private copy (wtx.work) that replaces `db` only     *)
(* when it commits, so a store error or the death of the process between   *)
(* two steps leaves `db` as it was.                                        *)
(*                                                                         *)
(* A transaction body is constant data: which outpoints a transaction      *)
(* spends, and which transaction, address and amount an outpoint belongs   *)
(* to.  The inference tables are the subject of another module.            *)
(***************************************************************************)
EXTENDS Integers, Sequences, FiniteSets, FiniteSetsExt

CONSTANTS
  Hash,       \* chain-block hashes
  TxId,       \* transaction ids
  Address,    \* addresses under the network's prefix
  Outpoint,   \* (transaction id, index) pairs
  Coinbase,   \* the coinbase transactions
  Inputs,     \* Inputs[t]: the outpoints named by t's inputs
  FundedBy,   \* FundedBy[o]: the transaction that has o as an output
  Owner,      \* Owner[o]: script_to_address of o's script, or Nil
  Amount,     \* Amount[o]: o's value in sompi
  Nil         \* Option::None

ASSUME BodyAssumption ==
  /\ Coinbase \subseteq TxId
  /\ Inputs \in [TxId -> SUBSET Outpoint]
  /\ FundedBy \in [Outpoint -> TxId]
  /\ Owner \in [Outpoint -> Address \cup {Nil}]
  /\ Amount \in [Outpoint -> Nat]
  /\ Nil \notin Address

VARIABLES
  db,         \* the committed tables
  wtx         \* the write transaction apply has open, or Nil

storeVars == <<db, wtx>>

\* A chain block with the bodies of the transactions it accepts, in order.
AcceptedGroup == [hash : Hash, daa : Nat, txs : Seq(TxId)]

----------------------------------------------------------------------------
(* Helpers on tables *)

Put(f, k, v) == [x \in DOMAIN f \cup {k} |-> IF x = k THEN v ELSE f[x]]

Without(f, S) == [x \in DOMAIN f \ S |-> f[x]]

\* u64::saturating_sub
SaturatingSub(m, n) == IF m > n THEN m - n ELSE 0

Total(S) == MapThenSumSet(LAMBDA o : Amount[o], S)

OutputsOf(t) == {o \in Outpoint : FundedBy[o] = t}

\* The outpoints t is recorded as the spender of.
SpentBy(t) == IF t \in Coinbase THEN {} ELSE Inputs[t]

----------------------------------------------------------------------------
(* Contents of the tables *)

Empty == [x \in {} |-> Nil]

EmptyDb ==
  [ tx          |-> Empty,   \* tx_num -> indexed transaction
    tx_by_id    |-> Empty,   \* transaction id -> tx_num
    hist        |-> [a \in Address |-> Empty],  \* address -> tx_num -> net
    totals      |-> [a \in Address |-> [recv |-> 0, cnt |-> 0]],
    spend       |-> Empty,   \* outpoint -> tx_num of the spender
    applied     |-> Empty,   \* chain block -> its DAA score
    chain       |-> {},      \* <<DAA score, chain block>>
    acc         |-> Empty,   \* chain block -> tx_nums it accepted
    next_tx_num |-> 0,
    total_txs   |-> 0,
    checkpoint  |-> Nil ]

\* The inputs of t whose funding transaction is in the index.
Resolved(d, t) ==
  {o \in SpentBy(t) : /\ FundedBy[o] \in DOMAIN d.tx_by_id
                      /\ d.tx_by_id[FundedBy[o]] \in DOMAIN d.tx}

\* The addresses t pays or debits; scripts without an address are skipped.
LedgerAddresses(d, t) ==
  {Owner[o] : o \in OutputsOf(t) \cup Resolved(d, t)} \ {Nil}

compute_ledger(d, t) ==
  [a \in LedgerAddresses(d, t) |->
     [ credit |-> Total({o \in OutputsOf(t) : Owner[o] = a}),
       debit  |-> Total({o \in Resolved(d, t) : Owner[o] = a}) ]]

Net(entry) == entry.credit - entry.debit

\* The rows among S that touch address a.
Touching(d, S, a) == {n \in S : a \in DOMAIN d.tx[n].ledger}

\* The rows derived from the transactions S, which leave with them.
IdsOf(d, S) == {d.tx[n].tx_id : n \in S}

MutSpendsOf(d, S) == {}

SpendsOf(d, S) == UNION {SpentBy(d.tx[n].tx_id) : n \in S}

MutHistWithout(d, S) == d.hist

HistWithout(d, S) ==
  [a \in Address |-> Without(d.hist[a], Touching(d, S, a))]

----------------------------------------------------------------------------
(* apply *)

MutNextNum(d) == d.total_txs

NextNum(d) == d.next_tx_num

\* The count and the sum an address's totals grow by.
AddTotals(total, entry) ==
  [recv |-> total.recv + entry.credit, cnt |-> total.cnt + 1]

MutCountTx(d, t) == IF t \in DOMAIN d.tx_by_id THEN d.total_txs ELSE d.total_txs + 1

CountTx(d, t) == d.total_txs + 1

\* One turn of the loop over the transactions of group g.
IndexTx(d, g, t) ==
  LET n      == NextNum(d)
      ledger == compute_ledger(d, t)
  IN [ tx          |-> Put(d.tx, n, [tx_id |-> t, block |-> g.hash,
                                     daa |-> g.daa, ledger |-> ledger]),
       tx_by_id    |-> Put(d.tx_by_id, t, n),
       hist        |-> [a \in Address |->
                          IF a \in DOMAIN ledger
                          THEN Put(d.hist[a], n, Net(ledger[a]))
                          ELSE d.hist[a]],
       totals      |-> [a \in Address |->
                          IF a \in DOMAIN ledger
                          THEN AddTotals(d.totals[a], ledger[a])
                          ELSE d.totals[a]],
       spend       |-> [o \in DOMAIN d.spend \cup SpentBy(t) |->
                          IF o \in SpentBy(t) THEN n ELSE d.spend[o]],
       applied     |-> d.applied,
       chain       |-> d.chain,
       acc         |-> d.acc,
       next_tx_num |-> n + 1,
       total_txs   |-> CountTx(d, t),
       checkpoint  |-> d.checkpoint ]

MutRecordBlock(d, g, nums) ==
  [d EXCEPT !.applied = Put(d.applied, g.hash, g.daa),
            !.acc = Put(d.acc, g.hash, nums),
            !.checkpoint = [hash |-> g.hash, daa |-> g.daa]]

\* The end of a group: its reorg list, its idempotency key, the checkpoint.
RecordBlock(d, g, nums) ==
  [ tx          |-> d.tx,
    tx_by_id    |-> d.tx_by_id,
    hist        |-> d.hist,
    totals      |-> d.totals,
    spend       |-> d.spend,
    applied     |-> Put(d.applied, g.hash, g.daa),
    chain       |-> d.chain \cup {<<g.daa, g.hash>>},
    acc         |-> Put(d.acc, g.hash, nums),
    next_tx_num |-> d.next_tx_num,
    total_txs   |-> d.total_txs,
    checkpoint  |-> [hash |-> g.hash, daa |-> g.daa] ]

\* An open write transaction: the working copy, the batch, the group and the
\* transaction the loops are at, the tx_nums of that group so far, and the DAA
\* score of the last group recorded (stats.checkpoint_daa, 0 when none was).
Txn(work, groups, at, pos, nums, newest) ==
  [work |-> work, groups |-> groups, at |-> at, pos |-> pos,
   nums |-> nums, newest |-> newest]

BeginApply(groups) ==
  /\ wtx = Nil
  /\ wtx' = Txn(db, groups, 1, 1, {}, 0)
  /\ UNCHANGED db

Group == wtx.groups[wtx.at]

InGroup == wtx # Nil /\ wtx.at <= Len(wtx.groups)

\* The block is in applied_blocks already.
SkipGroup ==
  /\ InGroup
  /\ Group.hash \in DOMAIN wtx.work.applied
  /\ wtx' = Txn(wtx.work, wtx.groups, wtx.at + 1, 1, {}, wtx.newest)
  /\ UNCHANGED db

IndexNextTx ==
  /\ InGroup
  /\ Group.hash \notin DOMAIN wtx.work.applied
  /\ wtx.pos <= Len(Group.txs)
  /\ wtx' = Txn(IndexTx(wtx.work, Group, Group.txs[wtx.pos]), wtx.groups,
                wtx.at, wtx.pos + 1,
                wtx.nums \cup {NextNum(wtx.work)}, wtx.newest)
  /\ UNCHANGED db

MutFinishGroup ==
  /\ InGroup
  /\ Group.hash \notin DOMAIN wtx.work.applied
  /\ wtx.pos > Len(Group.txs)
  /\ wtx' = Txn(RecordBlock(wtx.work, Group, wtx.nums), wtx.groups,
                wtx.at + 1, 1, wtx.nums, Group.daa)
  /\ UNCHANGED db

FinishGroup ==
  /\ InGroup
  /\ Group.hash \notin DOMAIN wtx.work.applied
  /\ wtx.pos > Len(Group.txs)
  /\ wtx' = Txn(RecordBlock(wtx.work, Group, wtx.nums), wtx.groups,
                wtx.at + 1, 1, {}, Group.daa)
  /\ UNCHANGED db

CommitApply ==
  /\ wtx # Nil
  /\ wtx.at > Len(wtx.groups)
  /\ db' = wtx.work
  /\ wtx' = Nil

\* Keeps what was written so far.
MutAbortApply ==
  /\ wtx # Nil
  /\ db' = wtx.work
  /\ wtx' = Nil

\* apply returns an error, or the process dies: the transaction is dropped.
AbortApply ==
  /\ wtx # Nil
  /\ wtx' = Nil
  /\ UNCHANGED db

----------------------------------------------------------------------------
(* unwind_chain_block *)

CreditSum(d, S, a) == MapThenSumSet(LAMBDA n : d.tx[n].ledger[a].credit, S)

MutSubTotals(d, total, S, a) ==
  [recv |-> total.recv, cnt |-> SaturatingSub(total.cnt, Cardinality(S))]

SubTotals(d, total, S, a) ==
  [recv |-> SaturatingSub(total.recv, CreditSum(d, S, a)),
   cnt  |-> SaturatingSub(total.cnt, Cardinality(S))]

unwind_chain_block(d, h) ==
  LET gone == d.acc[h] \cap DOMAIN d.tx
  IN [ tx          |-> Without(d.tx, gone),
       tx_by_id    |-> Without(d.tx_by_id, IdsOf(d, gone)),
       hist        |-> HistWithout(d, gone),
       totals      |-> [a \in Address |->
                          SubTotals(d, d.totals[a], Touching(d, gone, a), a)],
       spend       |-> Without(d.spend, SpendsOf(d, gone)),
       applied     |-> Without(d.applied, {h}),
       chain       |-> d.chain \ {<<d.applied[x], x>> :
                                    x \in DOMAIN d.applied \cap {h}},
       acc         |-> Without(d.acc, {h}),
       next_tx_num |-> d.next_tx_num,
       total_txs   |-> SaturatingSub(d.total_txs, Cardinality(gone)),
       checkpoint  |-> d.checkpoint ]

Unwind(h) ==
  /\ wtx = Nil
  /\ db' = IF h \in DOMAIN db.acc THEN unwind_chain_block(db, h) ELSE db
  /\ UNCHANGED wtx

----------------------------------------------------------------------------
(* expire_below *)

\* The scan reads tx in tx_num order and stops at the first row at or above
\* the cutoff.
MutExpiredTxs(d, cutoff) ==
  {n \in DOMAIN d.tx : \A m \in DOMAIN d.tx : m <= n => d.tx[m].daa <= cutoff}

ExpiredTxs(d, cutoff) ==
  {n \in DOMAIN d.tx : \A m \in DOMAIN d.tx : m <= n => d.tx[m].daa < cutoff}

ExpiredBlocks(d, cutoff) == {e \in d.chain : e[1] < cutoff}

expire_below(d, cutoff) ==
  LET gone   == ExpiredTxs(d, cutoff)
      blocks == {e[2] : e \in ExpiredBlocks(d, cutoff)}
  IN [ tx          |-> Without(d.tx, gone),
       tx_by_id    |-> Without(d.tx_by_id, IdsOf(d, gone)),
       hist        |-> HistWithout(d, gone),
       totals      |-> d.totals,
       spend       |-> Without(d.spend, SpendsOf(d, gone)),
       applied     |-> Without(d.applied, blocks),
       chain       |-> d.chain \ ExpiredBlocks(d, cutoff),
       acc         |-> Without(d.acc, blocks),
       next_tx_num |-> d.next_tx_num,
       total_txs   |-> d.total_txs,
       checkpoint  |-> d.checkpoint ]

Expire(cutoff) ==
  /\ wtx = Nil
  /\ db' = expire_below(db, cutoff)
  /\ UNCHANGED wtx

----------------------------------------------------------------------------
(* Reads behind /health *)

checkpoint_daa(d) == IF d.checkpoint = Nil THEN Nil ELSE d.checkpoint.daa

chain_blocks(d) == Cardinality(DOMAIN d.applied)

\* The accepting DAA score of the oldest row.
window_low_daa(d) == IF DOMAIN d.tx = {} THEN Nil ELSE d.tx[Min(DOMAIN d.tx)].daa

----------------------------------------------------------------------------
(* The single writer calls the operations in any order: the follower may   *)
(* be told of blocks late, twice, or after they have left the chain.       *)

StoreInit ==
  /\ db = EmptyDb
  /\ wtx = Nil

StoreNext ==
  \/ \E groups \in Seq(AcceptedGroup) : BeginApply(groups)
  \/ SkipGroup
  \/ IndexNextTx
  \/ FinishGroup
  \/ CommitApply
  \/ AbortApply
  \/ \E h \in Hash : Unwind(h)
  \/ \E cutoff \in Nat : Expire(cutoff)

StoreSpec == StoreInit /\ [][StoreNext]_storeVars

----------------------------------------------------------------------------
(* Properties *)

TablesOK(d) ==
  /\ DOMAIN d.tx \subseteq Nat
  /\ \A n \in DOMAIN d.tx : /\ d.tx[n].tx_id \in TxId
                            /\ d.tx[n].block \in Hash
                            /\ d.tx[n].daa \in Nat
                            /\ DOMAIN d.tx[n].ledger \subseteq Address
  /\ DOMAIN d.tx_by_id \subseteq TxId
  /\ DOMAIN d.hist = Address
  /\ DOMAIN d.totals = Address
  /\ \A a \in Address : d.totals[a].cnt \in Nat
  /\ DOMAIN d.spend \subseteq Outpoint
  /\ DOMAIN d.applied \subseteq Hash
  /\ \A h \in DOMAIN d.applied : d.applied[h] \in Nat
  /\ DOMAIN d.acc \subseteq Hash
  /\ \A h \in DOMAIN d.acc : d.acc[h] \subseteq Nat
  /\ d.next_tx_num \in Nat
  /\ d.total_txs \in Nat
  /\ d.checkpoint # Nil => d.checkpoint.hash \in Hash /\ d.checkpoint.daa \in Nat

TxnOK ==
  wtx # Nil => /\ TablesOK(wtx.work)
               /\ wtx.groups \in Seq(AcceptedGroup)
               /\ wtx.at \in 1 .. Len(wtx.groups) + 1
               /\ wtx.pos \in Nat \ {0}
               /\ wtx.nums \subseteq Nat
               /\ wtx.newest \in Nat

\* The committed tables and the open write transaction have their types.
TypeOK == TablesOK(db) /\ TxnOK

\* Every index entry of d leads to a row it belongs to.
IndexesAgree(d) ==
  /\ \A t \in DOMAIN d.tx_by_id : /\ d.tx_by_id[t] \in DOMAIN d.tx
                                  /\ d.tx[d.tx_by_id[t]].tx_id = t
  /\ \A o \in DOMAIN d.spend : /\ d.spend[o] \in DOMAIN d.tx
                               /\ o \in SpentBy(d.tx[d.spend[o]].tx_id)

\* No index entry dangles: tx_by_id and outpoint_spend lead to a stored
\* transaction that has that id, or that spends that outpoint.  The reads
\* tx_by_id and spend_of rely on it: they answer "not found" when the row
\* behind an index entry is missing (store.rs:998, store.rs:1015).
NoDanglingIndex == IndexesAgree(db)

\* The history rows of d are those its stored ledgers call for.
HistoryAgrees(d) ==
  \A a \in Address :
    /\ DOMAIN d.hist[a] = Touching(d, DOMAIN d.tx, a)
    /\ \A n \in DOMAIN d.hist[a] : d.hist[a][n] = Net(d.tx[n].ledger[a])

\* An address's history rows are exactly the stored transactions whose ledger
\* names it, each with the net amount of that ledger entry: unwinding and
\* expiry take every row they must with a transaction, and no other.
HistoryMatchesLedger == HistoryAgrees(db)

\* The counters of d are at least the number of rows they count.
CountersCover(d) ==
  /\ d.total_txs >= Cardinality(DOMAIN d.tx)
  /\ \A a \in Address : d.totals[a].cnt >= Cardinality(DOMAIN d.hist[a])

\* The counters that survive expiry never fall below what is still stored, so
\* total_tx_count never promises fewer rows than address_history returns, and
\* saturating_sub in unwind_chain_block never hides an underflow.
CountersCoverRows == CountersCover(db)

\* The chain-block tables of d agree with each other and with its rows.
ListsAgree(d) ==
  /\ DOMAIN d.acc = DOMAIN d.applied
  /\ d.chain = {<<d.applied[h], h>> : h \in DOMAIN d.applied}
  /\ \A n \in DOMAIN d.tx : n < d.next_tx_num
  /\ \A h \in DOMAIN d.acc : \A n \in d.acc[h] :
       /\ n < d.next_tx_num
       /\ n \in DOMAIN d.tx => /\ d.tx[n].block = h
                               /\ d.tx[n].daa = d.applied[h]

\* applied_blocks, chain_by_daa and accepted_by describe the same set of chain
\* blocks, and a reorg list names only transactions its block accepted: an
\* unwind can neither miss its list nor delete another block's transaction.
ReorgListsAgree == ListsAgree(db)

\* Going from d to e, rows keep their numbers and new rows take new ones.
KeepsNumbers(d, e) ==
  /\ e.next_tx_num >= d.next_tx_num
  /\ \A n \in DOMAIN e.tx : IF n \in DOMAIN d.tx THEN e.tx[n] = d.tx[n]
                                               ELSE n >= d.next_tx_num

\* A tx_num is never given to a second transaction, not even after a reorg:
\* response-list entries and indexes that outlive a row cannot come to name
\* another one.
TxNumsNeverReused == [][KeepsNumbers(db, db')]_db

\* The stored transactions accepted by h.
RowsOf(d, h) == {n \in DOMAIN d.tx : d.tx[n].block = h}

\* What a commit of the open write transaction brings to each chain block.
AppliesOnce ==
  \A h \in Hash :
    IF /\ h \notin DOMAIN db.applied
       /\ \E i \in DOMAIN wtx.groups : wtx.groups[i].hash = h
    THEN LET i == Min({j \in DOMAIN wtx.groups : wtx.groups[j].hash = h})
             new == RowsOf(db', h) \ DOMAIN db.tx
         IN /\ h \in DOMAIN db'.applied
            /\ db'.acc[h] = new
            /\ Cardinality(new) = Len(wtx.groups[i].txs)
            /\ {db'.tx[n].tx_id : n \in new} =
                 {wtx.groups[i].txs[j] : j \in DOMAIN wtx.groups[i].txs}
    ELSE RowsOf(db', h) = RowsOf(db, h)

\* A committed batch indexes every transaction of each chain block that was not
\* applied yet, once, and leaves the rows of all other blocks alone: replaying
\* applied blocks is a no-op ("any overlap a no-op", store.rs:7-8).
AppliedExactlyOnce == [][CommitApply => AppliesOnce]_storeVars

=============================================================================
