------------------------------ MODULE Overlay ------------------------------
(***************************************************************************)
(* The mempool overlay (src/indexer/mempool.rs) and the two HTTP handlers  *)
(* that answer from the overlay and the store together (outpoint_spend and *)
(* address_history of src/api/handlers.rs).                                *)
(*                                                                         *)
(* Three parties move on their own: the indexer writes the store, the      *)
(* poller replaces the snapshot, and a request reads both in steps.  The   *)
(* node's chain reaches the store through `feed`, which stands for the     *)
(* notifications the indexer has not handled yet.  Requests do not change  *)
(* anything, so one at a time is enough.                                   *)
(***************************************************************************)
EXTENDS Store

CONSTANTS
  Reward,      \* Reward[h]: the coinbase transactions block h carries
  HISTORY_MAX_LIMIT,
  MaxReorgs    \* bound on the chain blocks removed

ASSUME OverlayAssumption ==
  /\ Reward \in [Hash -> Seq(Coinbase)]
  /\ {HISTORY_MAX_LIMIT, MaxReorgs} \subseteq Nat
  /\ Nil \notin {"mempool", "accepted", "not_found"}

VARIABLES
  pool,        \* the node's mempool
  chain,       \* the node's chain: the groups it has accepted
  used,        \* the blocks mined so far
  feed,        \* what the indexer has still to do
  reorgs,      \* chain blocks removed so far
  unwound,     \* those of them the store has been told of
  entries,     \* mempool entries the poller has received, Nil while it sleeps
  snapshot,    \* the overlay
  spendReq,    \* an outpoint_spend request, Nil if none
  histReq      \* an address_history request, Nil if none

nodeVars == <<pool, chain, used, feed, reorgs, unwound>>
readVars == <<spendReq, histReq>>
vars == <<storeVars, nodeVars, entries, snapshot, readVars>>

\* A sequence's end, and a set written down in some order.
Last(s) == s[Len(s)]
Front(s) == SubSeq(s, 1, Len(s) - 1)
InSomeOrder(S) == CHOOSE s \in [1 .. Cardinality(S) -> S] : IsInjective(s)

Accepted == UNION {Range(chain[i].txs) : i \in DOMAIN chain}

----------------------------------------------------------------------------
(* The node *)

Funded(t, S) == \A o \in SpentBy(t) : FundedBy[o] \in S

Relay(t) ==
  /\ t \notin Coinbase \cup pool \cup Accepted
  /\ Funded(t, pool \cup Accepted)
  /\ pool' = pool \cup {t}
  /\ UNCHANGED <<storeVars, chain, used, feed, reorgs, unwound, entries, snapshot, readVars>>

\* A chain block accepts some of the mempool.
Mine(h, S) ==
  /\ h \notin used /\ \A t \in S : Funded(t, Accepted)
  /\ LET g == [hash |-> h, daa |-> Len(chain) + 1, txs |-> Reward[h] \o InSomeOrder(S)]
     IN /\ chain' = Append(chain, g)
        /\ feed' = Append(feed, [op |-> "apply", group |-> g])
  /\ used' = used \cup {h}
  /\ pool' = pool \ S
  /\ UNCHANGED <<storeVars, reorgs, unwound, entries, snapshot, readVars>>

\* The last chain block is removed; what it accepted goes back to the mempool.
Reorg ==
  /\ chain # <<>> /\ reorgs < MaxReorgs
  /\ LET back == pool \cup (Range(Last(chain).txs) \ Coinbase)
         left == Accepted \ Range(Last(chain).txs)
     IN pool' = {t \in back : Funded(t, back \cup left)}
  /\ chain' = Front(chain)
  /\ feed' = Append(feed, [op |-> "unwind", group |-> Last(chain)])
  /\ reorgs' = reorgs + 1
  /\ UNCHANGED <<storeVars, used, unwound, entries, snapshot, readVars>>

\* The indexer does the next thing on the feed.
Index ==
  /\ \/ /\ wtx = Nil /\ feed # <<>>
        /\ feed' = Tail(feed)
        /\ IF Head(feed).op = "apply"
           THEN BeginApply(<<Head(feed).group>>) /\ UNCHANGED unwound
           ELSE Unwind(Head(feed).group.hash) /\ unwound' = unwound + 1
     \/ (IndexNextTx \/ FinishGroup \/ CommitApply) /\ UNCHANGED <<feed, unwound>>
  /\ UNCHANGED <<pool, chain, used, reorgs, entries, snapshot, readVars>>

----------------------------------------------------------------------------
(* Reads of the store, each in a read transaction of its own *)

\* Whether the read finds a row; the callers look no further.
tx_by_id(t) == t \in DOMAIN db.tx_by_id /\ db.tx_by_id[t] \in DOMAIN db.tx

spend_of(o) == o \in DOMAIN db.spend /\ db.spend[o] \in DOMAIN db.tx

NewerRows(a, n) == Cardinality({m \in DOMAIN db.hist[a] : m > n})

\* Skips a row too many.
MutAddressHistory(a, limit, offset) ==
  {n \in DOMAIN db.hist[a] : NewerRows(a, n) \in offset + 1 .. offset + limit}

\* A page of an address's rows, counted from the newest.
address_history(a, limit, offset) ==
  {n \in DOMAIN db.hist[a] : NewerRows(a, n) \in offset .. offset + limit - 1}

----------------------------------------------------------------------------
(* The poller *)

EmptySnapshot == [spends |-> Empty, history |-> [a \in Address |-> Empty], count |-> 0]

\* A pending transaction's debits are those whose funding is in the store.
PendingNet(t, a) ==
  Total({o \in OutputsOf(t) : Owner[o] = a})
    - Total({o \in SpentBy(t) : Owner[o] = a /\ tx_by_id(FundedBy[o])})

PendingAddresses(t) ==
  {Owner[o] : o \in OutputsOf(t)
                \cup {i \in SpentBy(t) : tx_by_id(FundedBy[i])}} \ {Nil}

\* Keeps what the last poll saw.
MutPendingSpends(txs) ==
  [o \in DOMAIN snapshot.spends \cup UNION {SpentBy(t) : t \in txs} |->
     IF o \in UNION {SpentBy(t) : t \in txs} THEN CHOOSE t \in txs : o \in SpentBy(t)
     ELSE snapshot.spends[o]]

\* Files a transaction under its own outputs.
MutSpendsByOutput(txs) ==
  [o \in UNION {OutputsOf(t) : t \in txs} |-> FundedBy[o]]

PendingSpends(txs) ==
  [o \in UNION {SpentBy(t) : t \in txs} |-> CHOOSE t \in txs : o \in SpentBy(t)]

build_snapshot(txs) ==
  [ spends  |-> PendingSpends(txs),
    history |-> [a \in Address |->
                   [t \in {x \in txs : a \in PendingAddresses(x)} |-> PendingNet(t, a)]],
    count   |-> Cardinality(txs) ]

\* getMempoolEntries; a failed poll leaves the snapshot as it is.
PollFetch ==
  /\ entries = Nil
  /\ entries' = pool
  /\ UNCHANGED <<storeVars, nodeVars, snapshot, readVars>>

PollInstall ==
  /\ entries # Nil
  /\ snapshot' = build_snapshot(entries)
  /\ entries' = Nil
  /\ UNCHANGED <<storeVars, nodeVars, readVars>>

----------------------------------------------------------------------------
(* outpoint_spend: the overlay first, then the store *)

\* Looks in the store first.
MutSpendReads == <<"accepted", "mempool">>

SpendReads == <<"mempool", "accepted">>

Found(where, o) ==
  CASE where = "mempool" -> o \in DOMAIN snapshot.spends
    [] where = "accepted" -> spend_of(o)

Visible(o) == \E where \in Range(SpendReads) : Found(where, o)

\* The first place that knows the spend gives the status.  `visible` and
\* `unwound` are kept for the properties only.
SpendStart(o) ==
  /\ spendReq = Nil /\ histReq = Nil
  /\ spendReq' = [outpoint |-> o, next |-> 2,
                  status |-> IF Found(SpendReads[1], o) THEN SpendReads[1] ELSE Nil,
                  visible |-> Visible(o), unwound |-> unwound]
  /\ UNCHANGED <<storeVars, nodeVars, entries, snapshot, histReq>>

SpendRead ==
  /\ spendReq # Nil /\ spendReq.status = Nil
  /\ spendReq' = [spendReq EXCEPT !.status =
       IF Found(SpendReads[2], spendReq.outpoint) THEN SpendReads[2] ELSE "not_found"]
  /\ UNCHANGED <<storeVars, nodeVars, entries, snapshot, histReq>>

SpendAnswered ==
  /\ spendReq # Nil /\ spendReq.status # Nil
  /\ spendReq' = Nil
  /\ UNCHANGED <<storeVars, nodeVars, entries, snapshot, histReq>>

----------------------------------------------------------------------------
(* address_history: the page, the totals, the low edge, the overlay.  A     *)
(* wallet walks through the history, a page at a time, up to a short one.   *)

\* Reads the totals before the page.
MutHistReads == <<"count", "rows", "since", "pending">>

HistReads == <<"rows", "count", "since", "pending">>

\* Pending rows are shown on the first page.
ReadHistory(what, a, limit, offset) ==
  CASE what = "rows" -> address_history(a, limit, offset)
    [] what = "count" -> db.totals[a].cnt
    [] what = "since" -> window_low_daa(db)
    [] what = "pending" -> IF offset = 0 THEN DOMAIN snapshot.history[a] ELSE {}

\* `owed` and `unwound`, the rows there were and the removed blocks the store
\* had been told of when the walk began, are kept for the properties only.
HistStart(a, limit) ==
  /\ spendReq = Nil /\ histReq = Nil
  /\ histReq' = [addr |-> a, limit |-> limit, offset |-> 0, seen |-> {},
                 owed |-> DOMAIN db.hist[a], unwound |-> unwound,
                 got |-> Put(Empty, HistReads[1],
                            ReadHistory(HistReads[1], a, limit, 0))]
  /\ UNCHANGED <<storeVars, nodeVars, entries, snapshot, spendReq>>

HistRead ==
  /\ histReq # Nil /\ DOMAIN histReq.got # Range(HistReads)
  /\ LET what == HistReads[Cardinality(DOMAIN histReq.got) + 1]
     IN histReq' = [histReq EXCEPT !.got =
          Put(@, what, ReadHistory(what, histReq.addr, histReq.limit, histReq.offset))]
  /\ UNCHANGED <<storeVars, nodeVars, entries, snapshot, spendReq>>

PageAnswered == histReq # Nil /\ DOMAIN histReq.got = Range(HistReads)

PageIsFull == Cardinality(histReq.got["rows"]) = histReq.limit

HistNextPage ==
  /\ PageAnswered /\ PageIsFull
  /\ LET offset == histReq.offset + histReq.limit
     IN histReq' = [histReq EXCEPT
          !.offset = offset, !.seen = @ \cup histReq.got["rows"],
          !.got = Put(Empty, HistReads[1],
                      ReadHistory(HistReads[1], histReq.addr, histReq.limit, offset))]
  /\ UNCHANGED <<storeVars, nodeVars, entries, snapshot, spendReq>>

HistAnswered ==
  /\ PageAnswered
  /\ histReq' = Nil
  /\ UNCHANGED <<storeVars, nodeVars, entries, snapshot, spendReq>>

----------------------------------------------------------------------------

Init ==
  /\ StoreInit
  /\ pool = {} /\ chain = <<>> /\ used = {} /\ feed = <<>> /\ reorgs = 0 /\ unwound = 0
  /\ entries = Nil /\ snapshot = EmptySnapshot
  /\ spendReq = Nil /\ histReq = Nil

Node ==
  \/ \E t \in TxId : Relay(t)
  \/ \E h \in Hash, S \in SUBSET pool : Mine(h, S)
  \/ Reorg

Requests ==
  \/ \E o \in Outpoint : SpendStart(o)
  \/ \E a \in Address, limit \in 1..HISTORY_MAX_LIMIT : HistStart(a, limit)
  \/ SpendRead \/ SpendAnswered \/ HistRead \/ HistNextPage \/ HistAnswered

Next == Node \/ Index \/ PollFetch \/ PollInstall \/ Requests

Spec == Init /\ [][Next]_vars

\* The poller's loop never ends; its polls are answered in the end.
FairSpec == Spec /\ WF_vars(PollFetch) /\ WF_vars(PollInstall)

----------------------------------------------------------------------------
(* Properties *)

\* A spend the shim could show when the request came in is not reported as
\* unknown, although polls and commits go on between the two lookups, unless
\* a chain block was unwound meanwhile.
KnownSpendIsFound ==
  spendReq # Nil /\ spendReq.status = "not_found" /\ spendReq.visible
    => spendReq.unwound # unwound

\* A page of history never holds more rows than the count returned with it,
\* although the two are read in different transactions, unless a chain
\* block was unwound meanwhile.
PageWithinCount ==
  histReq # Nil /\ {"rows", "count"} \subseteq DOMAIN histReq.got
    => \/ Cardinality(histReq.got["rows"]) <= histReq.got["count"]
       \/ histReq.unwound # unwound

\* A wallet that walks through a history sees every row there was when it
\* began, although blocks are indexed between two pages: new rows push older
\* ones towards pages still to come.  Only a removed block moves them back.
WalkMissesNothing ==
  PageAnswered /\ ~PageIsFull /\ histReq.unwound = unwound
    => histReq.owed \subseteq histReq.seen \cup histReq.got["rows"]

\* A spend that has left the mempool leaves the overlay: each poll replaces
\* the snapshot.
PendingClears ==
  \A o \in Outpoint :
    (o \in DOMAIN snapshot.spends /\ snapshot.spends[o] \notin pool) ~>
      (o \in DOMAIN snapshot.spends => snapshot.spends[o] \in pool)

\* The transactions that are mined and whose commit is still to come.
BeingIndexed ==
  (UNION {Range(feed[i].group.txs) : i \in DOMAIN feed})
    \cup (IF wtx = Nil THEN {} ELSE UNION {Range(g.txs) : g \in Range(wtx.groups)})

\* While no chain block is removed, a spend that was shown disappears only
\* between the poll that no longer sees it in the mempool and the commit of
\* the block that accepted it: the overlay and the store together never lose
\* it for any other reason.
SpendGapIsIndexing ==
  [][reorgs' = 0 => \A o \in Outpoint :
       Visible(o) => Visible(o)' \/ \E t \in BeingIndexed' : o \in SpentBy(t)]_vars

=============================================================================
