--------------------------- MODULE OverlayProofs ---------------------------
(***************************************************************************)
(* Proofs about Overlay, for every set of blocks, transactions, addresses  *)
(* and outpoints, every page size and any number of reorgs: what a request *)
(* that reads the overlay and the store in steps may conclude.             *)
(*                                                                         *)
(* Between two reads of a request the store only grows, unless a block is  *)
(* unwound: no row, spend or count is lost, and a new row is newer than    *)
(* every row there is (Grows).  What a request knows after each read is    *)
(* kept by that growth.                                                    *)
(***************************************************************************)
EXTENDS Overlay, StoreProofs, SequenceTheorems

FeedItem == [op : {"apply", "unwind"}, group : AcceptedGroup]

\* Going from d to e, the store has lost nothing.
Grows(d, e) ==
  /\ KeepsNumbers(d, e)
  /\ DOMAIN d.tx \subseteq DOMAIN e.tx /\ DOMAIN d.spend \subseteq DOMAIN e.spend
  /\ \A a \in Address : d.totals[a].cnt <= e.totals[a].cnt

SystemInv ==
  /\ StoreInv
  /\ wtx # Nil => Grows(db, wtx.work)
  /\ pool \subseteq TxId /\ IsFiniteSet(pool)
  /\ chain \in Seq(AcceptedGroup) /\ feed \in Seq(FeedItem)
  /\ reorgs \in Nat /\ unwound \in Nat

\* The spend was in the store when the request came in, and still is.
SpendInv ==
  spendReq # Nil =>
    /\ spendReq = [outpoint |-> spendReq.outpoint, next |-> 2,
                   status |-> spendReq.status, visible |-> spendReq.visible,
                   unwound |-> spendReq.unwound]
    /\ spendReq.unwound \in Nat /\ spendReq.unwound <= unwound
    /\ spendReq.visible /\ spendReq.unwound = unwound =>
         /\ spendReq.status = Nil => spendReq.outpoint \in DOMAIN db.spend
         /\ spendReq.status # "not_found"

\* The reads of a page that have been made, in their order.
ReadSoFar ==
  {{"rows"}, {"rows", "count"}, {"rows", "count", "since"},
   {"rows", "count", "since", "pending"}}

\* What a walk knows after each read: every row it owes has been seen, or is
\* still to come because so many are newer; and a page is full unless nothing
\* is to come.
WalkInv ==
  /\ histReq.owed \subseteq DOMAIN db.hist[histReq.addr]
  /\ \A n \in histReq.owed :
       \/ n \in histReq.seen \cup histReq.got["rows"]
       \/ NewerRows(histReq.addr, n) >= histReq.offset + histReq.limit
  /\ \/ Cardinality(histReq.got["rows"]) = histReq.limit
     \/ histReq.owed \subseteq histReq.seen \cup histReq.got["rows"]
  /\ IsFiniteSet(histReq.got["rows"])
  /\ Cardinality(histReq.got["rows"]) <=
       IF "count" \in DOMAIN histReq.got THEN histReq.got["count"]
       ELSE db.totals[histReq.addr].cnt

HistInv ==
  histReq # Nil =>
    /\ histReq = [addr |-> histReq.addr, limit |-> histReq.limit,
                  offset |-> histReq.offset, seen |-> histReq.seen,
                  owed |-> histReq.owed, unwound |-> histReq.unwound,
                  got |-> histReq.got]
    /\ histReq.addr \in Address /\ histReq.limit \in Nat \ {0} /\ histReq.offset \in Nat
    /\ histReq.unwound \in Nat /\ histReq.unwound <= unwound
    /\ DOMAIN histReq.got \in ReadSoFar
    /\ histReq.unwound = unwound => WalkInv

\* While no block has been removed, the mined transactions are on their way
\* into the store: on the feed, in the open transaction, or committed with all
\* their spends.
Indexing ==
  /\ \A i \in DOMAIN feed : feed[i].op = "apply"
  /\ \A t \in Accepted : t \in BeingIndexed \/ SpentBy(t) \subseteq DOMAIN db.spend
  /\ wtx # Nil =>
       /\ Len(wtx.groups) = 1
       /\ \A j \in DOMAIN wtx.groups[1].txs : wtx.at = 2 \/ j < wtx.pos =>
            SpentBy(wtx.groups[1].txs[j]) \subseteq DOMAIN wtx.work.spend

\* The overlay and the poller know transactions that were in the mempool, and
\* the poller knows all of those the overlay knows that are still there.
Polling ==
  /\ \A o \in DOMAIN snapshot.spends :
       /\ o \in SpentBy(snapshot.spends[o])
       /\ snapshot.spends[o] \in pool \cup Accepted
       /\ entries # Nil /\ snapshot.spends[o] \in pool => snapshot.spends[o] \in entries
  /\ entries # Nil => entries \subseteq pool \cup Accepted

GapInv == reorgs = 0 => Indexing /\ Polling

----------------------------------------------------------------------------
(* Definitions by cases *)

\* Where the two lookups of a spend look.
LEMMA FoundFacts ==
  ASSUME NEW o
  PROVE  /\ SpendReads[1] = "mempool" /\ SpendReads[2] = "accepted"
         /\ Found("mempool", o) <=> o \in DOMAIN snapshot.spends
         /\ Found("accepted", o) <=> spend_of(o)
         /\ Visible(o) <=> o \in DOMAIN snapshot.spends \/ spend_of(o)
  <1>1. SpendReads[1] = "mempool" /\ SpendReads[2] = "accepted" BY DEF SpendReads
  <1>2. Range(SpendReads) = {"mempool", "accepted"} BY DEF SpendReads, Range
  <1>3. Found("mempool", o) <=> o \in DOMAIN snapshot.spends BY Zenon DEF Found
  <1>4. Found("accepted", o) <=> spend_of(o) BY Zenon DEF Found
  <1>5. Visible(o) <=> Found("mempool", o) \/ Found("accepted", o)
    BY <1>2, Zenon DEF Visible
  <1> QED BY <1>1, <1>3, <1>4, <1>5

\* What the reads of a page give.
LEMMA ReadFacts ==
  ASSUME NEW a, NEW limit, NEW offset
  PROVE  /\ ReadHistory("rows", a, limit, offset) = address_history(a, limit, offset)
         /\ ReadHistory("count", a, limit, offset) = db.totals[a].cnt
  <1>1. ReadHistory("rows", a, limit, offset) = address_history(a, limit, offset)
    BY Zenon DEF ReadHistory
  <1>2. ReadHistory("count", a, limit, offset) = db.totals[a].cnt
    BY Zenon DEF ReadHistory
  <1> QED BY <1>1, <1>2

----------------------------------------------------------------------------
(* Counting *)

\* InSomeOrder lists a finite set.
LEMMA OrderFacts ==
  ASSUME NEW T, NEW S \in SUBSET T, IsFiniteSet(S)
  PROVE  InSomeOrder(S) \in Seq(T) /\ Range(InSomeOrder(S)) = S
  <1> DEFINE k == Cardinality(S)
             f == InSomeOrder(S)
  <1>1. k \in Nat /\ ExistsBijection(1 .. k, S) BY FS_CardinalityType
  <1>2. \E g \in [1 .. k -> S] : IsInjective(g)
    BY <1>1 DEF ExistsBijection, Bijection, Injection
  <1>3. f \in [1 .. k -> S] /\ IsInjective(f) BY <1>2 DEF InSomeOrder
  <1> HIDE DEF f
  <1>4. f \in Injection(1 .. k, S) BY <1>3 DEF Injection
  <1>5. Cardinality(1 .. k) = k
    <2>1. Cardinality(1 .. k) = IF 1 > k THEN 0 ELSE k - 1 + 1 BY <1>1, FS_Interval
    <2> QED BY <1>1, <2>1
  <1>6. f \in Surjection(1 .. k, S) BY <1>4, <1>5, FS_Injection
  <1>7. Range(f) = S BY <1>3, <1>6 DEF Surjection, Range
  <1>8. f \in Seq(S) BY <1>1, <1>3, SeqDef
  <1>9. f \in Seq(T) BY <1>1, <1>3, SeqDef
  <1> QED BY <1>7, <1>9 DEF f

\* The elements of a sequence are finitely many.
LEMMA RangeFinite ==
  ASSUME NEW T, NEW s \in Seq(T)
  PROVE  IsFiniteSet(Range(s)) /\ Range(s) \subseteq T
  <1>1. s \in [1 .. Len(s) -> T] /\ Len(s) \in Nat OBVIOUS
  <1>2. IsFiniteSet(1 .. Len(s)) BY <1>1, FS_Interval
  <1>3. s \in Surjection(1 .. Len(s), Range(s)) BY <1>1 DEF Surjection, Range
  <1> QED BY <1>1, <1>2, <1>3, FS_Surjection DEF Range

\* Rows counted from the newest have the ranks 0, 1, 2 and so on, so a page is
\* full as soon as one row lies beyond it.
LEMMA PageFullBefore ==
  ASSUME NEW S \in SUBSET Nat, IsFiniteSet(S), NEW k \in Nat, NEW l \in Nat \ {0},
         NEW x \in S, Cardinality({m \in S : m > x}) >= k + l
  PROVE  Cardinality({n \in S : Cardinality({m \in S : m > n}) \in k .. k + l - 1}) = l
  <1> DEFINE Above(n) == {m \in S : m > n}
             rank == [n \in S |-> Cardinality(Above(n))]
             c == Cardinality(S)
             P == {n \in S : rank[n] \in k .. k + l - 1}
  <1>1. c \in Nat BY FS_CardinalityType
  <1>2. ASSUME NEW n \in S
        PROVE  /\ IsFiniteSet(Above(n)) /\ Cardinality(Above(n)) \in Nat
               /\ Cardinality(Above(n)) <= c - 1
    <2>1. IsFiniteSet(S \ {n}) /\ Cardinality(S \ {n}) = c - 1 BY FS_RemoveElement
    <2>2. Above(n) \in SUBSET (S \ {n}) OBVIOUS
    <2> QED BY <2>1, <2>2, FS_Subset, FS_CardinalityType
  <1>3. ASSUME NEW a \in S, NEW b \in S, a < b
        PROVE  Cardinality(Above(b)) < Cardinality(Above(a))
    <2>1. Above(b) \in SUBSET Above(a) /\ b \in Above(a) /\ b \notin Above(b)
      <3>1. \A m \in S : m \in Nat OBVIOUS
      <3>2. \A m \in S : m > b => m > a BY <1>3, <3>1
      <3>3. b > a /\ ~(b > b) BY <1>3, <3>1
      <3> QED BY <3>2, <3>3
    <2>2. /\ Cardinality(Above(b)) <= Cardinality(Above(a))
          /\ Cardinality(Above(a)) = Cardinality(Above(b)) => Above(a) = Above(b)
      BY <1>2, <2>1, FS_Subset
    <2>3. Cardinality(Above(a)) # Cardinality(Above(b)) BY <2>1, <2>2
    <2> HIDE DEF Above
    <2> QED BY <1>2, <2>2, <2>3
  <1>4. /\ \A n \in S : rank[n] = Cardinality(Above(n))
        /\ DOMAIN rank = S
    OBVIOUS
  <1>5. \A n \in S : rank[n] \in 0 .. c - 1
    <2> HIDE DEF Above, rank, c
    <2> QED BY <1>1, <1>2, <1>4
  <1>6. \A a, b \in S : rank[a] = rank[b] => a = b
    <2>1. \A a, b \in S : a < b => rank[b] < rank[a]
      <3> HIDE DEF Above, rank
      <3> QED BY <1>3, <1>4
    <2>2. \A a \in S : rank[a] \in Nat
      <3> HIDE DEF Above, rank
      <3> QED BY <1>2, <1>4
    <2> HIDE DEF rank
    <2> QED BY <2>1, <2>2
  <1>7. rank \in [S -> 0 .. c - 1]
    <2>1. rank = [n \in S |-> rank[n]] OBVIOUS
    <2> HIDE DEF rank
    <2> QED BY <1>5, <2>1
  <1>8. rank \in Injection(S, 0 .. c - 1)
    <2> HIDE DEF rank
    <2> QED BY <1>6, <1>7 DEF Injection, IsInjective
  <1>9. IsFiniteSet(0 .. c - 1) /\ Cardinality(0 .. c - 1) = c
    <2> HIDE DEF c
    <2>1. /\ IsFiniteSet(0 .. c - 1)
          /\ Cardinality(0 .. c - 1) = IF 0 > c - 1 THEN 0 ELSE c - 1 - 0 + 1
      BY <1>1, FS_Interval
    <2> QED BY <1>1, <2>1
  <1>10. rank \in Surjection(S, 0 .. c - 1)
    <2> HIDE DEF rank
    <2> QED BY <1>8, <1>9, FS_Injection
  <1>11. k .. k + l - 1 \subseteq 0 .. c - 1
    <2>1. Cardinality(Above(x)) >= k + l OBVIOUS
    <2> HIDE DEF Above, c
    <2> QED BY <1>1, <1>2, <2>1
  <1>12. \A j \in k .. k + l - 1 : \E n \in P : rank[n] = j
    <2>1. \A j \in 0 .. c - 1 : \E n \in S : rank[n] = j
      <3> HIDE DEF rank, c
      <3> QED BY <1>10 DEF Surjection
    <2> HIDE DEF rank, c
    <2> QED BY <1>11, <2>1
  <1> DEFINE r == [n \in P |-> rank[n]]
  <1>13. r \in Bijection(P, k .. k + l - 1)
    <2> HIDE DEF rank
    <2>1. r \in [P -> k .. k + l - 1] OBVIOUS
    <2>2. \A a, b \in P : r[a] = r[b] => a = b BY <1>6
    <2>3. \A j \in k .. k + l - 1 : \E n \in P : r[n] = j BY <1>12
    <2> HIDE DEF r, P
    <2> QED BY <2>1, <2>2, <2>3 DEF Bijection, Injection, Surjection, IsInjective
  <1>14. IsFiniteSet(P)
    <2>1. P \in SUBSET S OBVIOUS
    <2> HIDE DEF P
    <2> QED BY <2>1, FS_Subset
  <1>15. Cardinality(k .. k + l - 1) = l
    <2>1. Cardinality(k .. k + l - 1) = IF k > k + l - 1 THEN 0 ELSE k + l - 1 - k + 1
      BY FS_Interval
    <2> QED BY <2>1
  <1>16. Cardinality(P) = l
    <2>1. ExistsBijection(P, k .. k + l - 1)
      <3> HIDE DEF P, r
      <3> QED BY <1>13 DEF ExistsBijection
    <2> HIDE DEF P
    <2> QED BY <1>14, <1>15, <2>1, FS_Bijection
  <1>17. P = {n \in S : Cardinality({m \in S : m > n}) \in k .. k + l - 1} OBVIOUS
  <1> QED BY <1>16, <1>17

----------------------------------------------------------------------------
(* Growth of the store *)

\* A store that stays has lost nothing.
LEMMA GrowsRefl ==
  ASSUME NEW d, Sound(d)
  PROVE  Grows(d, d)
  BY DEF Grows, KeepsNumbers, Sound, TablesOK

\* Losing nothing twice is losing nothing.
LEMMA GrowsTrans ==
  ASSUME NEW c, NEW d, NEW e, Sound(c), Sound(d), Sound(e), Grows(c, d), Grows(d, e)
  PROVE  Grows(c, e)
  <1>1. KeepsNumbers(c, e) BY KeepsNumbersTrans DEF Grows
  <1>2. \A a \in Address : /\ c.totals[a].cnt \in Nat /\ d.totals[a].cnt \in Nat
                           /\ e.totals[a].cnt \in Nat
    BY DEF Sound, TablesOK
  <1>3. \A a \in Address : c.totals[a].cnt <= e.totals[a].cnt BY <1>2 DEF Grows
  <1> QED BY <1>1, <1>3 DEF Grows

\* Indexing a transaction loses nothing, and the spends of t are there then.
LEMMA IndexTxGrows ==
  ASSUME NEW d, NEW g, NEW t, Sound(d)
  PROVE  /\ Grows(d, IndexTx(d, g, t))
         /\ DOMAIN IndexTx(d, g, t).spend = DOMAIN d.spend \cup SpentBy(t)
  <1> DEFINE e == IndexTx(d, g, t)
  <1>1. TablesOK(d) /\ ListsAgree(d) BY DEF Sound
  <1>2. KeepsNumbers(d, e) BY <1>1, IndexTxKeepsNumbers
  <1>3. DOMAIN d.tx \subseteq DOMAIN e.tx
    <2>1. DOMAIN e.tx = DOMAIN d.tx \cup {d.next_tx_num} BY <1>1, IndexTxRows
    <2> HIDE DEF e
    <2> QED BY <2>1
  <1>4. DOMAIN e.spend = DOMAIN d.spend \cup SpentBy(t) BY DEF IndexTx
  <1>5. \A a \in Address : d.totals[a].cnt <= e.totals[a].cnt
    <2> TAKE a \in Address
    <2> DEFINE ledger == compute_ledger(d, t)
    <2>1. d.totals[a].cnt \in Nat BY <1>1 DEF TablesOK
    <2>2. e.totals[a] = IF a \in DOMAIN ledger
                        THEN AddTotals(d.totals[a], ledger[a]) ELSE d.totals[a]
      BY DEF IndexTx
    <2>3. AddTotals(d.totals[a], ledger[a]).cnt = d.totals[a].cnt + 1 BY DEF AddTotals
    <2> HIDE DEF e, ledger
    <2> QED BY <2>1, <2>2, <2>3
  <1> HIDE DEF e
  <1> QED BY <1>2, <1>3, <1>4, <1>5 DEF Grows, e

\* What growth means for the history of an address: it keeps its rows, and
\* gains newer ones only.
LEMMA HistoryGrows ==
  ASSUME NEW d, NEW e, Sound(d), Sound(e), Grows(d, e), NEW a \in Address
  PROVE  /\ DOMAIN d.hist[a] \subseteq DOMAIN e.hist[a]
         /\ \A n \in DOMAIN e.hist[a] \ DOMAIN d.hist[a] : \A m \in DOMAIN d.hist[a] : n > m
         /\ DOMAIN e.hist[a] \in SUBSET Nat /\ IsFiniteSet(DOMAIN e.hist[a])
  <1>1. /\ DOMAIN d.hist[a] = {n \in DOMAIN d.tx : a \in DOMAIN d.tx[n].ledger}
        /\ DOMAIN e.hist[a] = {n \in DOMAIN e.tx : a \in DOMAIN e.tx[n].ledger}
    BY DEF Sound, HistoryAgrees, Touching
  <1>2. /\ DOMAIN d.tx \subseteq DOMAIN e.tx /\ DOMAIN e.tx \subseteq Nat
        /\ \A n \in DOMAIN d.tx : e.tx[n] = d.tx[n]
        /\ \A n \in DOMAIN e.tx \ DOMAIN d.tx : n >= d.next_tx_num
        /\ \A n \in DOMAIN d.tx : n < d.next_tx_num
        /\ d.next_tx_num \in Nat
    BY DEF Grows, KeepsNumbers, Sound, TablesOK, ListsAgree
  <1>3. DOMAIN d.hist[a] \subseteq DOMAIN e.hist[a] BY <1>1, <1>2
  <1>4. ASSUME NEW n \in DOMAIN e.hist[a] \ DOMAIN d.hist[a], NEW m \in DOMAIN d.hist[a]
        PROVE  n > m
    <2>1. n \in DOMAIN e.tx \ DOMAIN d.tx /\ m \in DOMAIN d.tx BY <1>1, <1>2
    <2> QED BY <1>2, <2>1
  <1>5. DOMAIN e.hist[a] \in SUBSET DOMAIN e.tx BY <1>1
  <1>6. IsFiniteSet(DOMAIN e.hist[a]) BY <1>5, FS_Subset DEF Sound
  <1> QED BY <1>2, <1>3, <1>4, <1>5, <1>6

\* As the history grows, a row it had has at least as many newer ones.
LEMMA RankGrows ==
  ASSUME NEW S, NEW T \in SUBSET Nat, S \subseteq T, IsFiniteSet(T), NEW n \in S
  PROVE  /\ Cardinality({m \in S : m > n}) <= Cardinality({m \in T : m > n})
         /\ Cardinality({m \in S : m > n}) \in Nat
         /\ Cardinality({m \in T : m > n}) \in Nat
  <1> DEFINE A == {m \in S : m > n}
             B == {m \in T : m > n}
  <1>1. A \in SUBSET B /\ B \in SUBSET T OBVIOUS
  <1> HIDE DEF A, B
  <1>2. IsFiniteSet(B) BY <1>1, FS_Subset
  <1>3. IsFiniteSet(A) /\ Cardinality(A) <= Cardinality(B) BY <1>1, <1>2, FS_Subset
  <1> QED BY <1>2, <1>3, FS_CardinalityType DEF A, B

----------------------------------------------------------------------------
(* The system *)

\* What leaves the store and the indexer alone.
LEMMA QuietSystem ==
  ASSUME SystemInv, UNCHANGED storeVars, unwound' = unwound,
         pool' \subseteq TxId /\ IsFiniteSet(pool'),
         chain' \in Seq(AcceptedGroup) /\ feed' \in Seq(FeedItem), reorgs' \in Nat
  PROVE  SystemInv' /\ Grows(db, db')
  <1>1. db' = db /\ wtx' = wtx BY DEF storeVars
  <1>2. StoreInv' BY NextStoreInv DEF SystemInv
  <1>3. Grows(db, db) BY GrowsRefl DEF SystemInv, StoreInv
  <1> QED BY <1>1, <1>2, <1>3 DEF SystemInv

\* The chain blocks and the feed of the node are of their types.
LEMMA NodeSystem ==
  ASSUME SystemInv, Node
  PROVE  SystemInv' /\ Grows(db, db') /\ unwound' = unwound
  <1>1. /\ pool \subseteq TxId /\ IsFiniteSet(pool) /\ chain \in Seq(AcceptedGroup)
        /\ feed \in Seq(FeedItem) /\ reorgs \in Nat
    BY DEF SystemInv
  <1>2. ASSUME NEW t \in TxId, Relay(t)
        PROVE  SystemInv' /\ Grows(db, db') /\ unwound' = unwound
    <2>1. /\ pool' = pool \cup {t}
          /\ UNCHANGED <<storeVars, chain, used, feed, reorgs, unwound>>
      BY <1>2 DEF Relay
    <2>2. pool' \subseteq TxId /\ IsFiniteSet(pool') BY <1>1, <2>1, FS_AddElement
    <2> QED BY <1>1, <2>1, <2>2, QuietSystem
  <1>3. ASSUME NEW h \in Hash, NEW S \in SUBSET pool, Mine(h, S)
        PROVE  SystemInv' /\ Grows(db, db') /\ unwound' = unwound
    <2> DEFINE txs == Reward[h] \o InSomeOrder(S)
               g == [hash |-> h, daa |-> Len(chain) + 1, txs |-> txs]
    <2>1. /\ chain' = Append(chain, g) /\ feed' = Append(feed, [op |-> "apply", group |-> g])
          /\ pool' = pool \ S /\ UNCHANGED <<storeVars, reorgs, unwound>>
      BY <1>3 DEF Mine
    <2>2. txs \in Seq(TxId)
      <3>1. IsFiniteSet(S) BY <1>1, FS_Subset
      <3>2. InSomeOrder(S) \in Seq(TxId) BY <1>1, <3>1, OrderFacts
      <3>3. Reward[h] \in Seq(TxId)
        <4>1. Reward[h] \in Seq(Coinbase) /\ Coinbase \subseteq TxId
          BY OverlayAssumption, BodyAssumption
        <4> QED BY <4>1
      <3> QED BY <3>2, <3>3
    <2>3. Len(chain) + 1 \in Nat BY <1>1
    <2> HIDE DEF txs
    <2>4. g \in AcceptedGroup BY <2>2, <2>3 DEF AcceptedGroup
    <2> HIDE DEF g
    <2>5. [op |-> "apply", group |-> g] \in FeedItem BY <2>4 DEF FeedItem
    <2>6. chain' \in Seq(AcceptedGroup) /\ feed' \in Seq(FeedItem)
      BY <1>1, <2>1, <2>4, <2>5
    <2>7. pool' \subseteq TxId /\ IsFiniteSet(pool') BY <1>1, <2>1, FS_Subset
    <2> QED BY <1>1, <2>1, <2>6, <2>7, QuietSystem
  <1>4. CASE Reorg
    <2> DEFINE g == Last(chain)
               item == [op |-> "unwind", group |-> g]
               back == pool \cup (Range(g.txs) \ Coinbase)
    <2>1. /\ chain # <<>> /\ chain' = Front(chain) /\ feed' = Append(feed, item)
          /\ reorgs' = reorgs + 1 /\ pool' \subseteq back
          /\ UNCHANGED <<storeVars, unwound>>
      BY <1>4 DEF Reorg
    <2>2. g \in AcceptedGroup BY <1>1, <2>1 DEF Last
    <2>3. chain' \in Seq(AcceptedGroup) BY <1>1, <2>1 DEF Front
    <2> HIDE DEF g
    <2>4. g.txs \in Seq(TxId) BY <2>2 DEF AcceptedGroup
    <2>5. item \in FeedItem BY <2>2 DEF FeedItem
    <2> HIDE DEF item
    <2>6. feed' \in Seq(FeedItem) BY <1>1, <2>1, <2>5
    <2>7. IsFiniteSet(Range(g.txs)) /\ Range(g.txs) \subseteq TxId BY <2>4, RangeFinite
    <2>8. IsFiniteSet(Range(g.txs) \ Coinbase) BY <2>7, FS_Difference
    <2>9. IsFiniteSet(back) /\ back \subseteq TxId BY <1>1, <2>7, <2>8, FS_Union
    <2> HIDE DEF back
    <2>10. pool' \subseteq TxId /\ IsFiniteSet(pool') BY <2>1, <2>9, FS_Subset
    <2>11. reorgs' \in Nat BY <1>1, <2>1
    <2> QED BY <2>1, <2>3, <2>6, <2>10, <2>11, QuietSystem
  <1> QED BY <1>2, <1>3, <1>4 DEF Node

\* The indexer's steps are steps of the store, and only an unwind loses rows.
LEMMA IndexSystem ==
  ASSUME SystemInv, Index
  PROVE  /\ SystemInv' /\ [StoreNext]_storeVars
         /\ \/ Grows(db, db') /\ unwound' = unwound
            \/ /\ unwound' = unwound + 1
               /\ feed # <<>> /\ Head(feed).op # "apply"
  <1>1. /\ StoreInv /\ Sound(db) /\ unwound \in Nat /\ feed \in Seq(FeedItem)
        /\ wtx # Nil => Sound(wtx.work) /\ Grows(db, wtx.work)
    BY DEF SystemInv, StoreInv
  <1>2. Grows(db, db) BY <1>1, GrowsRefl
  <1>3. UNCHANGED <<pool, chain, reorgs>> BY DEF Index
  <1>4. ASSUME wtx = Nil, feed # <<>>, feed' = Tail(feed), Head(feed).op = "apply",
               BeginApply(<<Head(feed).group>>), unwound' = unwound
        PROVE  /\ SystemInv' /\ [StoreNext]_storeVars
               /\ Grows(db, db') /\ unwound' = unwound
    <2> DEFINE groups == <<Head(feed).group>>
    <2>1. Head(feed) \in FeedItem /\ feed' \in Seq(FeedItem) BY <1>1, <1>4
    <2>2. groups \in Seq(AcceptedGroup)
      <3>1. Head(feed).group \in AcceptedGroup BY <2>1 DEF FeedItem
      <3> QED BY <3>1
    <2>3. StoreNext BY <1>4, <2>2 DEF StoreNext
    <2>4. StoreInv' BY <1>1, <2>3, NextStoreInv
    <2>5. db' = db /\ wtx'.work = db BY <1>4 DEF BeginApply, Txn
    <2> QED BY <1>1, <1>2, <1>3, <1>4, <2>1, <2>3, <2>4, <2>5 DEF SystemInv
  <1>5. ASSUME wtx = Nil, feed # <<>>, feed' = Tail(feed), Head(feed).op # "apply",
               Unwind(Head(feed).group.hash), unwound' = unwound + 1
        PROVE  SystemInv' /\ [StoreNext]_storeVars
    <2>1. Head(feed) \in FeedItem /\ feed' \in Seq(FeedItem) BY <1>1, <1>5
    <2>2. Head(feed).group \in AcceptedGroup BY <2>1 DEF FeedItem
    <2>3. Head(feed).group.hash \in Hash BY <2>2 DEF AcceptedGroup
    <2>4. StoreNext BY <1>5, <2>3 DEF StoreNext
    <2>5. StoreInv' BY <1>1, <2>4, NextStoreInv
    <2>6. wtx' = Nil BY <1>5 DEF Unwind
    <2> QED BY <1>1, <1>3, <1>5, <2>1, <2>4, <2>5, <2>6 DEF SystemInv
  <1>6. ASSUME IndexNextTx, UNCHANGED <<feed, unwound>>
        PROVE  /\ SystemInv' /\ [StoreNext]_storeVars
               /\ Grows(db, db') /\ unwound' = unwound
    <2> DEFINE t == Group.txs[wtx.pos]
               e == IndexTx(wtx.work, Group, t)
    <2>1. StoreNext BY <1>6 DEF StoreNext
    <2>2. StoreInv' BY <1>1, <2>1, NextStoreInv
    <2>3. wtx # Nil /\ db' = db /\ wtx'.work = e BY <1>6 DEF IndexNextTx, InGroup, Txn
    <2>4. Grows(wtx.work, e) BY <1>1, <2>3, IndexTxGrows
    <2> HIDE DEF e
    <2>5. wtx' # Nil => Grows(db, e)
      <3>1. wtx' # Nil => Sound(e) BY <2>2, <2>3 DEF StoreInv
      <3> QED BY <1>1, <2>3, <2>4, <3>1, GrowsTrans
    <2> QED BY <1>1, <1>2, <1>3, <1>6, <2>1, <2>2, <2>3, <2>5 DEF SystemInv
  <1>7. ASSUME FinishGroup, UNCHANGED <<feed, unwound>>
        PROVE  /\ SystemInv' /\ [StoreNext]_storeVars
               /\ Grows(db, db') /\ unwound' = unwound
    <2> DEFINE d == wtx.work
               e == RecordBlock(d, Group, wtx.nums)
    <2>1. StoreNext BY <1>7 DEF StoreNext
    <2>2. StoreInv' BY <1>1, <2>1, NextStoreInv
    <2>3. wtx # Nil /\ db' = db /\ wtx'.work = e BY <1>7 DEF FinishGroup, InGroup, Txn
    <2>4. /\ e.tx = d.tx /\ e.spend = d.spend /\ e.totals = d.totals
          /\ e.next_tx_num = d.next_tx_num
      BY DEF RecordBlock
    <2> HIDE DEF e
    <2>5. Grows(db, e) BY <1>1, <2>3, <2>4 DEF Grows, KeepsNumbers
    <2> QED BY <1>1, <1>2, <1>3, <1>7, <2>1, <2>2, <2>3, <2>5 DEF SystemInv
  <1>8. ASSUME CommitApply, UNCHANGED <<feed, unwound>>
        PROVE  /\ SystemInv' /\ [StoreNext]_storeVars
               /\ Grows(db, db') /\ unwound' = unwound
    <2>1. StoreNext BY <1>8 DEF StoreNext
    <2>2. StoreInv' BY <1>1, <2>1, NextStoreInv
    <2>3. wtx # Nil /\ db' = wtx.work /\ wtx' = Nil BY <1>8 DEF CommitApply
    <2> QED BY <1>1, <1>3, <1>8, <2>1, <2>2, <2>3 DEF SystemInv
  <1> QED BY <1>4, <1>5, <1>6, <1>7, <1>8 DEF Index

\* Every step: the store grows, or a block has been unwound.
LEMMA NextSystem ==
  ASSUME SystemInv, [Next]_vars
  PROVE  /\ SystemInv' /\ [StoreNext]_storeVars
         /\ \/ Grows(db, db') /\ unwound' = unwound
            \/ /\ unwound' = unwound + 1
               /\ feed # <<>> /\ Head(feed).op # "apply"
  <1>1. /\ pool \subseteq TxId /\ IsFiniteSet(pool) /\ chain \in Seq(AcceptedGroup)
        /\ feed \in Seq(FeedItem) /\ reorgs \in Nat
    BY DEF SystemInv
  <1>2. ASSUME UNCHANGED <<storeVars, nodeVars>>
        PROVE  SystemInv' /\ Grows(db, db') /\ unwound' = unwound
    <2>1. UNCHANGED storeVars /\ UNCHANGED <<pool, chain, used, feed, reorgs, unwound>>
      BY <1>2 DEF nodeVars
    <2> QED BY <1>1, <2>1, QuietSystem
  <1>3. CASE Node
    <2>1. UNCHANGED storeVars BY <1>3 DEF Node, Relay, Mine, Reorg
    <2> QED BY <1>3, <2>1, NodeSystem
  <1>4. CASE Index BY <1>4, IndexSystem
  <1>5. CASE PollFetch BY <1>2, <1>5 DEF PollFetch
  <1>6. CASE PollInstall BY <1>2, <1>6 DEF PollInstall
  <1>7. CASE Requests
    BY <1>2, <1>7 DEF Requests, SpendStart, HistStart, SpendRead, SpendAnswered,
                      HistRead, HistNextPage, HistAnswered
  <1>8. CASE UNCHANGED vars BY <1>2, <1>8 DEF vars
  <1> QED BY <1>3, <1>4, <1>5, <1>6, <1>7, <1>8 DEF Next

\* The system begins well.
LEMMA InitSystem ==
  ASSUME Init
  PROVE  SystemInv
  <1>1. StoreInv /\ wtx = Nil BY InitStoreInv DEF Init, StoreInit
  <1>2. IsFiniteSet(pool) BY FS_EmptySet DEF Init
  <1> QED BY <1>1, <1>2 DEF Init, SystemInv

----------------------------------------------------------------------------
(* A spend request *)

\* A request that waits keeps what it knows while the store grows, and makes
\* no claim once a block has been unwound.
LEMMA SpendWaits ==
  ASSUME SystemInv, SpendInv, [Next]_vars, spendReq' = spendReq
  PROVE  SpendInv'
  <1> SUFFICES ASSUME spendReq # Nil PROVE SpendInv' BY DEF SpendInv
  <1>1. unwound \in Nat BY DEF SystemInv
  <1>2. CASE Grows(db, db') /\ unwound' = unwound BY <1>2 DEF SpendInv, Grows
  <1>3. CASE unwound' = unwound + 1
    <2>1. spendReq.unwound <= unwound' /\ spendReq.unwound # unwound'
      BY <1>1, <1>3 DEF SpendInv
    <2> QED BY <2>1 DEF SpendInv
  <1> QED BY <1>2, <1>3, NextSystem

\* A spend the store holds is found there: its row is never missing.
LEMMA SpendIsRead ==
  ASSUME SystemInv, NEW o \in DOMAIN db.spend
  PROVE  spend_of(o)
  BY DEF SystemInv, StoreInv, Sound, IndexesAgree, spend_of

\* Every step keeps what a spend request knows.
LEMMA NextSpend ==
  ASSUME SystemInv, SpendInv, [Next]_vars
  PROVE  SpendInv'
  <1>1. unwound \in Nat BY DEF SystemInv
  <1>2. ASSUME NEW o \in Outpoint, SpendStart(o) PROVE SpendInv'
    <2> DEFINE status == IF Found(SpendReads[1], o) THEN SpendReads[1] ELSE Nil
               req == [outpoint |-> o, next |-> 2, status |-> status,
                       visible |-> Visible(o), unwound |-> unwound]
    <2>1. spendReq' = req /\ unwound' = unwound /\ db' = db
      BY <1>2 DEF SpendStart, nodeVars, storeVars
    <2>2. status # "not_found"
      BY FoundFacts, OverlayAssumption
    <2>3. Visible(o) /\ status = Nil => o \in DOMAIN db.spend
      BY FoundFacts, OverlayAssumption DEF spend_of
    <2> HIDE DEF status
    <2>4. /\ req.outpoint = o /\ req.next = 2 /\ req.status = status
          /\ req.visible = Visible(o) /\ req.unwound = unwound
      OBVIOUS
    <2> QED BY <1>1, <2>1, <2>2, <2>3, <2>4 DEF SpendInv
  <1>3. CASE SpendRead
    <2> DEFINE o == spendReq.outpoint
               status == IF Found(SpendReads[2], o) THEN SpendReads[2] ELSE "not_found"
               req == [spendReq EXCEPT !.status = status]
    <2>1. /\ spendReq' = req /\ unwound' = unwound /\ db' = db
          /\ spendReq # Nil /\ spendReq.status = Nil
      BY <1>3 DEF SpendRead, nodeVars, storeVars
    <2>2. status \in {"accepted", "not_found"} /\ status # Nil
      BY FoundFacts, OverlayAssumption
    <2>3. o \in DOMAIN db.spend => status = "accepted" BY FoundFacts, SpendIsRead
    <2> HIDE DEF status
    <2>4. /\ req = [outpoint |-> o, next |-> 2, status |-> status,
                    visible |-> spendReq.visible, unwound |-> spendReq.unwound]
      BY <2>1 DEF SpendInv
    <2> QED BY <2>1, <2>2, <2>3, <2>4 DEF SpendInv
  <1>4. CASE SpendAnswered BY <1>4 DEF SpendAnswered, SpendInv
  <1>5. CASE spendReq' = spendReq BY <1>5, SpendWaits
  <1>6. CASE Node BY <1>5, <1>6 DEF Node, Relay, Mine, Reorg, readVars
  <1>7. CASE Index BY <1>5, <1>7 DEF Index, readVars
  <1>8. CASE PollFetch \/ PollInstall BY <1>5, <1>8 DEF PollFetch, PollInstall, readVars
  <1>9. CASE Requests
    BY <1>2, <1>3, <1>4, <1>5, <1>9 DEF Requests, HistStart, HistRead, HistNextPage,
                                        HistAnswered
  <1>10. CASE UNCHANGED vars BY <1>5, <1>10 DEF vars, readVars
  <1> QED BY <1>6, <1>7, <1>8, <1>9, <1>10 DEF Next

----------------------------------------------------------------------------
(* A walk through a history *)

\* A walk that waits keeps what it knows while the store grows.
LEMMA WalkWaits ==
  ASSUME SystemInv, HistInv, [Next]_vars, histReq' = histReq
  PROVE  HistInv'
  <1> SUFFICES ASSUME histReq # Nil PROVE HistInv' BY DEF HistInv
  <1> DEFINE a == histReq.addr
  <1>1. unwound \in Nat /\ a \in Address /\ Sound(db) /\ histReq.unwound \in Nat
    BY DEF SystemInv, StoreInv, HistInv
  <1>2. CASE Grows(db, db') /\ unwound' = unwound
    <2> SUFFICES ASSUME histReq.unwound = unwound PROVE WalkInv'
      BY <1>2 DEF HistInv
    <2>1. WalkInv BY DEF HistInv
    <2>2. Sound(db') BY NextSystem DEF SystemInv, StoreInv
    <2>3. /\ DOMAIN db.hist[a] \subseteq DOMAIN db'.hist[a]
          /\ DOMAIN db'.hist[a] \in SUBSET Nat /\ IsFiniteSet(DOMAIN db'.hist[a])
      BY <1>1, <1>2, <2>2, HistoryGrows
    <2>4. ASSUME NEW n \in histReq.owed
          PROVE  \/ n \in histReq.seen \cup histReq.got["rows"]
                 \/ NewerRows(a, n)' >= histReq.offset + histReq.limit
      <3>1. n \in DOMAIN db.hist[a] BY <2>1 DEF WalkInv
      <3>2. /\ NewerRows(a, n) <= NewerRows(a, n)'
            /\ NewerRows(a, n) \in Nat /\ NewerRows(a, n)' \in Nat
        BY <2>3, <3>1, RankGrows DEF NewerRows
      <3>3. histReq.offset + histReq.limit \in Nat BY DEF HistInv
      <3> QED BY <2>1, <3>2, <3>3 DEF WalkInv
    <2>5. db.totals[a].cnt <= db'.totals[a].cnt
      BY <1>1, <1>2 DEF Grows
    <2>6. /\ db.totals[a].cnt \in Nat /\ db'.totals[a].cnt \in Nat
      BY <1>1, <2>2 DEF Sound, TablesOK
    <2>7. histReq.owed \subseteq DOMAIN db'.hist[a] BY <2>1, <2>3 DEF WalkInv
    <2>8. "count" \notin DOMAIN histReq.got =>
            Cardinality(histReq.got["rows"]) <= db'.totals[a].cnt
      <3>1. Cardinality(histReq.got["rows"]) \in Nat
        BY <2>1, FS_CardinalityType DEF WalkInv
      <3> QED BY <2>1, <2>5, <2>6, <3>1 DEF WalkInv
    <2> QED BY <2>1, <2>4, <2>7, <2>8 DEF WalkInv
  <1>3. CASE unwound' = unwound + 1
    <2>1. histReq.unwound <= unwound' /\ histReq.unwound # unwound'
      BY <1>1, <1>3 DEF HistInv
    <2> QED BY <2>1 DEF HistInv
  <1> QED BY <1>2, <1>3, NextSystem

\* What one read of a page establishes: a row is before the page, on it or
\* behind it; the page is full unless nothing is behind; and it holds no more
\* rows than the address's count says.
LEMMA PageRead ==
  ASSUME SystemInv, NEW a \in Address, NEW limit \in Nat \ {0}, NEW offset \in Nat
  PROVE  /\ \A n \in DOMAIN db.hist[a] :
              \/ NewerRows(a, n) < offset
              \/ n \in address_history(a, limit, offset)
              \/ NewerRows(a, n) >= offset + limit
         /\ \/ Cardinality(address_history(a, limit, offset)) = limit
            \/ \A n \in DOMAIN db.hist[a] : NewerRows(a, n) < offset + limit
         /\ Cardinality(address_history(a, limit, offset)) <= db.totals[a].cnt
         /\ IsFiniteSet(address_history(a, limit, offset))
         /\ \A n \in DOMAIN db.hist[a] : NewerRows(a, n) \in Nat
  <1> DEFINE S == DOMAIN db.hist[a]
             page == address_history(a, limit, offset)
  <1>1. Sound(db) BY DEF SystemInv, StoreInv
  <1>2. S \in SUBSET Nat /\ IsFiniteSet(S)
    BY <1>1, GrowsRefl, HistoryGrows
  <1>3. \A n \in S : NewerRows(a, n) \in Nat BY <1>2, RankGrows DEF NewerRows
  <1>4. \A n \in S : \/ NewerRows(a, n) < offset \/ n \in page
                     \/ NewerRows(a, n) >= offset + limit
    BY <1>3 DEF address_history
  <1>5. ASSUME NEW n \in S, ~(NewerRows(a, n) < offset + limit)
        PROVE  Cardinality(page) = limit
    <2>1. Cardinality({m \in S : m > n}) >= offset + limit
      BY <1>3, <1>5 DEF NewerRows
    <2>2. Cardinality({k \in S : Cardinality({m \in S : m > k})
                                   \in offset .. offset + limit - 1}) = limit
      BY <1>2, <2>1, PageFullBefore
    <2> QED BY <2>2 DEF address_history, NewerRows
  <1>6. Cardinality(page) <= db.totals[a].cnt /\ IsFiniteSet(page)
    <2>1. page \in SUBSET S BY DEF address_history
    <2> HIDE DEF page
    <2>2. /\ IsFiniteSet(page) /\ Cardinality(page) <= Cardinality(S)
          /\ Cardinality(page) \in Nat /\ Cardinality(S) \in Nat
      BY <1>2, <2>1, FS_Subset, FS_CardinalityType
    <2>3. Cardinality(S) <= db.totals[a].cnt /\ db.totals[a].cnt \in Nat
      BY <1>1, <2>2 DEF Sound, CountersCover, TablesOK
    <2> QED BY <2>2, <2>3
  <1> QED BY <1>3, <1>4, <1>5, <1>6

\* After the first read of a page only the rows are there.
LEMMA FirstRead ==
  ASSUME NEW a, NEW limit, NEW offset
  PROVE  LET got == Put(Empty, HistReads[1], ReadHistory(HistReads[1], a, limit, offset))
         IN DOMAIN got = {"rows"} /\ got["rows"] = address_history(a, limit, offset)
  <1>1. HistReads[1] = "rows" BY DEF HistReads
  <1>2. DOMAIN Empty = {} BY DEF Empty
  <1> DEFINE v == ReadHistory("rows", a, limit, offset)
  <1>3. v = address_history(a, limit, offset) BY ReadFacts
  <1> HIDE DEF v
  <1>4. DOMAIN Put(Empty, "rows", v) = {"rows"} /\ Put(Empty, "rows", v)["rows"] = v
    BY <1>2 DEF Put
  <1> QED BY <1>1, <1>3, <1>4 DEF v

\* The reads follow one another in their order.
LEMMA LaterReads ==
  ASSUME NEW D \in ReadSoFar, D # Range(HistReads)
  PROVE  LET what == HistReads[Cardinality(D) + 1]
         IN /\ what \in {"count", "since", "pending"}
            /\ D \cup {what} \in ReadSoFar /\ "rows" \in D
            /\ what # "count" => "count" \in D
            /\ what = "count" => "count" \notin D
  <1>1. HistReads[2] = "count" /\ HistReads[3] = "since" /\ HistReads[4] = "pending"
    BY DEF HistReads
  <1>2. Range(HistReads) = {"rows", "count", "since", "pending"} BY DEF HistReads, Range
  <1>3. Cardinality({"rows"}) = 1 /\ IsFiniteSet({"rows"}) BY FS_Singleton
  <1>4. /\ Cardinality({"rows", "count"}) = 2 /\ IsFiniteSet({"rows", "count"})
    <2>1. {"rows", "count"} = {"rows"} \cup {"count"} /\ "count" \notin {"rows"} OBVIOUS
    <2> QED BY <1>3, <2>1, FS_AddElement
  <1>5. Cardinality({"rows", "count", "since"}) = 3
    <2>1. /\ {"rows", "count", "since"} = {"rows", "count"} \cup {"since"}
          /\ "since" \notin {"rows", "count"}
      OBVIOUS
    <2> QED BY <1>4, <2>1, FS_AddElement
  <1>6. CASE D = {"rows"}
    <2>1. D \cup {"count"} = {"rows", "count"} BY <1>6
    <2>2. HistReads[Cardinality(D) + 1] = "count" BY <1>1, <1>3, <1>6
    <2> QED BY <1>6, <2>1, <2>2 DEF ReadSoFar
  <1>7. CASE D = {"rows", "count"}
    <2>1. D \cup {"since"} = {"rows", "count", "since"} BY <1>7
    <2>2. HistReads[Cardinality(D) + 1] = "since" BY <1>1, <1>4, <1>7
    <2> QED BY <1>7, <2>1, <2>2 DEF ReadSoFar
  <1>8. CASE D = {"rows", "count", "since"}
    <2>1. D \cup {"pending"} = {"rows", "count", "since", "pending"} BY <1>8
    <2>2. HistReads[Cardinality(D) + 1] = "pending" BY <1>1, <1>5, <1>8
    <2> QED BY <1>8, <2>1, <2>2 DEF ReadSoFar
  <1> QED BY <1>2, <1>6, <1>7, <1>8 DEF ReadSoFar

\* A walk begins with the newest page.
LEMMA HistStarts ==
  ASSUME SystemInv, NEW a \in Address, NEW limit \in 1 .. HISTORY_MAX_LIMIT,
         HistStart(a, limit)
  PROVE  HistInv'
  <1> DEFINE got == Put(Empty, HistReads[1], ReadHistory(HistReads[1], a, limit, 0))
             req == [addr |-> a, limit |-> limit, offset |-> 0, seen |-> {},
                     owed |-> DOMAIN db.hist[a], unwound |-> unwound, got |-> got]
             page == address_history(a, limit, 0)
  <1>1. histReq' = req /\ unwound' = unwound /\ db' = db
    BY DEF HistStart, nodeVars, storeVars
  <1>2. limit \in Nat \ {0} /\ unwound \in Nat BY OverlayAssumption DEF SystemInv
  <1>3. DOMAIN got = {"rows"} /\ got["rows"] = page BY FirstRead
  <1>4. /\ \A n \in DOMAIN db.hist[a] :
             \/ NewerRows(a, n) < 0 \/ n \in page \/ NewerRows(a, n) >= 0 + limit
        /\ \/ Cardinality(page) = limit
           \/ \A n \in DOMAIN db.hist[a] : NewerRows(a, n) < 0 + limit
        /\ Cardinality(page) <= db.totals[a].cnt /\ IsFiniteSet(page)
        /\ \A n \in DOMAIN db.hist[a] : NewerRows(a, n) \in Nat
    BY <1>2, PageRead
  <1> HIDE DEF got, page
  <1>5. /\ req.addr = a /\ req.limit = limit /\ req.offset = 0 /\ req.seen = {}
        /\ req.owed = DOMAIN db.hist[a] /\ req.unwound = unwound /\ req.got = got
    OBVIOUS
  <1>6. \A n \in DOMAIN db.hist[a] : NewerRows(a, n)' = NewerRows(a, n)
    BY <1>1 DEF NewerRows
  <1>7. \A n \in DOMAIN db.hist[a] : n \in page \/ NewerRows(a, n) >= limit
    BY <1>2, <1>4
  <1>8. \/ Cardinality(page) = limit \/ \A n \in DOMAIN db.hist[a] : n \in page
    BY <1>2, <1>4
  <1> HIDE DEF req
  <1>9. WalkInv'
    <2>1. 0 + limit = limit BY <1>2
    <2> QED BY <1>1, <1>3, <1>4, <1>5, <1>6, <1>7, <1>8, <2>1 DEF WalkInv
  <1>10. DOMAIN got \in ReadSoFar BY <1>3 DEF ReadSoFar
  <1>11. req = [addr |-> req.addr, limit |-> req.limit, offset |-> req.offset,
                seen |-> req.seen, owed |-> req.owed, unwound |-> req.unwound,
                got |-> req.got]
    BY DEF req
  <1> QED BY <1>1, <1>2, <1>5, <1>9, <1>10, <1>11 DEF HistInv

\* The later reads of a page leave its rows alone, and the count is read while
\* the store still covers them.
LEMMA HistReadsOn ==
  ASSUME SystemInv, HistInv, HistRead
  PROVE  HistInv'
  <1> DEFINE got == histReq.got
             what == HistReads[Cardinality(DOMAIN got) + 1]
             v == ReadHistory(what, histReq.addr, histReq.limit, histReq.offset)
             new == Put(got, what, v)
             req == [histReq EXCEPT !.got = new]
  <1>1. /\ histReq # Nil /\ DOMAIN got # Range(HistReads)
        /\ histReq' = req /\ unwound' = unwound /\ db' = db
    BY DEF HistRead, nodeVars, storeVars
  <1>2. DOMAIN got \in ReadSoFar BY <1>1 DEF HistInv
  <1>3. /\ what \in {"count", "since", "pending"}
        /\ DOMAIN got \cup {what} \in ReadSoFar /\ "rows" \in DOMAIN got
        /\ what # "count" => "count" \in DOMAIN got
        /\ what = "count" => "count" \notin DOMAIN got
    BY <1>1, <1>2, LaterReads
  <1>4. what = "count" => v = db.totals[histReq.addr].cnt
    <2> HIDE DEF what
    <2> QED BY ReadFacts DEF v
  <1> HIDE DEF what, v
  <1>5. /\ DOMAIN new = DOMAIN got \cup {what} /\ new[what] = v
        /\ \A x \in DOMAIN got : x # what => new[x] = got[x]
    BY DEF Put
  <1> HIDE DEF new
  <1>6. new["rows"] = got["rows"] BY <1>3, <1>5
  <1>7. req = [addr |-> histReq.addr, limit |-> histReq.limit,
               offset |-> histReq.offset, seen |-> histReq.seen,
               owed |-> histReq.owed, unwound |-> histReq.unwound, got |-> new]
    BY <1>1 DEF HistInv
  <1> HIDE DEF req
  <1>8. /\ req.addr = histReq.addr /\ req.limit = histReq.limit
        /\ req.offset = histReq.offset /\ req.seen = histReq.seen
        /\ req.owed = histReq.owed /\ req.unwound = histReq.unwound /\ req.got = new
    BY <1>7
  <1>9. ASSUME WalkInv PROVE WalkInv'
    <2>1. "count" \in DOMAIN new BY <1>3, <1>5
    <2>2. Cardinality(got["rows"]) <= new["count"]
      <3>1. CASE what = "count" BY <1>3, <1>4, <1>5, <1>9, <3>1 DEF WalkInv
      <3>2. CASE what # "count" BY <1>3, <1>5, <1>9, <3>2 DEF WalkInv
      <3> QED BY <3>1, <3>2
    <2>3. \A n : NewerRows(histReq.addr, n)' = NewerRows(req.addr, n)
      BY <1>1, <1>8 DEF NewerRows
    <2>4. /\ histReq.owed \subseteq DOMAIN db.hist[histReq.addr]
          /\ \A n \in histReq.owed :
               \/ n \in histReq.seen \cup got["rows"]
               \/ NewerRows(histReq.addr, n) >= histReq.offset + histReq.limit
          /\ \/ Cardinality(got["rows"]) = histReq.limit
             \/ histReq.owed \subseteq histReq.seen \cup got["rows"]
          /\ IsFiniteSet(got["rows"])
      BY <1>9 DEF WalkInv
    <2>5. \A n : NewerRows(histReq.addr, n) = NewerRows(req.addr, n) BY <1>8
    <2> QED BY <1>1, <1>6, <1>8, <2>1, <2>2, <2>3, <2>4, <2>5 DEF WalkInv
  <1> QED BY <1>1, <1>3, <1>5, <1>7, <1>8, <1>9 DEF HistInv

\* The next page takes up where the last one ended.
LEMMA HistGoesOn ==
  ASSUME SystemInv, HistInv, HistNextPage
  PROVE  HistInv'
  <1> DEFINE a == histReq.addr
             limit == histReq.limit
             offset == histReq.offset + limit
             seen == histReq.seen \cup histReq.got["rows"]
             got == Put(Empty, HistReads[1], ReadHistory(HistReads[1], a, limit, offset))
             req == [histReq EXCEPT !.offset = offset, !.seen = seen, !.got = got]
             page == address_history(a, limit, offset)
  <1>1. histReq # Nil /\ histReq' = req /\ unwound' = unwound /\ db' = db
    BY DEF HistNextPage, PageAnswered, nodeVars, storeVars
  <1>2. /\ a \in Address /\ limit \in Nat \ {0} /\ offset \in Nat
        /\ histReq.offset \in Nat
    BY <1>1 DEF HistInv
  <1>3. DOMAIN got = {"rows"} /\ got["rows"] = page BY FirstRead
  <1>4. /\ \A n \in DOMAIN db.hist[a] :
             \/ NewerRows(a, n) < offset \/ n \in page \/ NewerRows(a, n) >= offset + limit
        /\ \/ Cardinality(page) = limit
           \/ \A n \in DOMAIN db.hist[a] : NewerRows(a, n) < offset + limit
        /\ Cardinality(page) <= db.totals[a].cnt /\ IsFiniteSet(page)
        /\ \A n \in DOMAIN db.hist[a] : NewerRows(a, n) \in Nat
    <2> HIDE DEF offset
    <2> QED BY <1>2, PageRead
  <1> HIDE DEF got, page
  <1>5. req = [addr |-> a, limit |-> limit, offset |-> offset, seen |-> seen,
               owed |-> histReq.owed, unwound |-> histReq.unwound, got |-> got]
    <2> DEFINE Rec(x, y, z) ==
                 [addr |-> a, limit |-> limit, offset |-> x, seen |-> y,
                  owed |-> histReq.owed, unwound |-> histReq.unwound, got |-> z]
    <2>1. histReq = Rec(histReq.offset, histReq.seen, histReq.got) BY <1>1 DEF HistInv
    <2> HIDE DEF offset, seen
    <2>2. [histReq EXCEPT !.offset = offset] = Rec(offset, histReq.seen, histReq.got)
      BY <2>1
    <2>3. [Rec(offset, histReq.seen, histReq.got) EXCEPT !.seen = seen]
            = Rec(offset, seen, histReq.got)
      OBVIOUS
    <2>4. [Rec(offset, seen, histReq.got) EXCEPT !.got = got] = Rec(offset, seen, got)
      OBVIOUS
    <2> HIDE DEF Rec
    <2>5. req = Rec(offset, seen, got) BY <2>2, <2>3, <2>4, Zenon
    <2> QED BY <2>5 DEF Rec
  <1> HIDE DEF req
  <1>6. /\ req.addr = a /\ req.limit = limit /\ req.offset = offset /\ req.seen = seen
        /\ req.owed = histReq.owed /\ req.unwound = histReq.unwound /\ req.got = got
    <2> HIDE DEF offset, seen
    <2> QED BY <1>5
  <1>7. ASSUME WalkInv PROVE WalkInv'
    <2>1. /\ histReq.owed \subseteq DOMAIN db.hist[a]
          /\ \A n \in histReq.owed : n \in seen \/ NewerRows(a, n) >= offset
      BY <1>7 DEF WalkInv
    <2> HIDE DEF offset, seen
    <2>2. \A n \in histReq.owed :
            n \in seen \/ n \in page \/ NewerRows(a, n) >= offset + limit
      BY <1>2, <1>4, <2>1
    <2>3. \/ Cardinality(page) = limit
          \/ \A n \in histReq.owed : n \in seen \/ n \in page
      BY <1>2, <1>4, <2>1, <2>2
    <2>4. \A n : NewerRows(histReq.addr, n)' = NewerRows(a, n) BY <1>1, <1>6 DEF NewerRows
    <2>5. "count" \notin DOMAIN got BY <1>3
    <2> HIDE DEF a, limit
    <2> QED BY <1>1, <1>3, <1>4, <1>6, <2>1, <2>2, <2>3, <2>4, <2>5 DEF WalkInv
  <1>8. DOMAIN got \in ReadSoFar BY <1>3 DEF ReadSoFar
  <1> HIDE DEF offset, seen
  <1> QED BY <1>1, <1>2, <1>5, <1>6, <1>7, <1>8 DEF HistInv

\* Every step keeps what a walk knows.
LEMMA NextHist ==
  ASSUME SystemInv, HistInv, [Next]_vars
  PROVE  HistInv'
  <1>1. CASE histReq' = histReq BY <1>1, WalkWaits
  <1>2. CASE HistAnswered BY <1>2 DEF HistAnswered, HistInv
  <1>3. CASE Node BY <1>1, <1>3 DEF Node, Relay, Mine, Reorg, readVars
  <1>4. CASE Index BY <1>1, <1>4 DEF Index, readVars
  <1>5. CASE PollFetch \/ PollInstall BY <1>1, <1>5 DEF PollFetch, PollInstall, readVars
  <1>6. CASE Requests
    BY <1>1, <1>2, <1>6, HistStarts, HistReadsOn, HistGoesOn
       DEF Requests, SpendStart, SpendRead, SpendAnswered
  <1>7. CASE UNCHANGED vars BY <1>1, <1>7 DEF vars, readVars
  <1> QED BY <1>3, <1>4, <1>5, <1>6, <1>7 DEF Next

----------------------------------------------------------------------------
(* The gap between the mempool and the index *)

\* The transactions on a feed, and on a chain.
OnFeed(f) == UNION {Range(f[i].group.txs) : i \in DOMAIN f}

OnChain(c) == UNION {Range(c[i].txs) : i \in DOMAIN c}

\* A group taken off the feed, or put on it, takes or brings its transactions.
LEMMA OnFeedFacts ==
  ASSUME NEW T, NEW f \in Seq(T), NEW x
  PROVE  /\ f # <<>> => OnFeed(f) = Range(Head(f).group.txs) \cup OnFeed(Tail(f))
         /\ x \in T => OnFeed(Append(f, x)) = OnFeed(f) \cup Range(x.group.txs)
  <1>1. ASSUME f # <<>>
        PROVE  OnFeed(f) = Range(Head(f).group.txs) \cup OnFeed(Tail(f))
    <2>1. /\ Len(f) \in Nat \ {0} /\ DOMAIN f = 1 .. Len(f) /\ Head(f) = f[1]
          /\ DOMAIN Tail(f) = 1 .. Len(f) - 1
          /\ \A i \in 1 .. Len(f) - 1 : Tail(f)[i] = f[i + 1]
      BY <1>1
    <2>2. ASSUME NEW i \in DOMAIN f, i # 1
          PROVE  i - 1 \in DOMAIN Tail(f) /\ Tail(f)[i - 1] = f[i]
      BY <2>1, <2>2
    <2>3. ASSUME NEW i \in DOMAIN Tail(f)
          PROVE  i + 1 \in DOMAIN f /\ Tail(f)[i] = f[i + 1]
      BY <2>1
    <2>4. 1 \in DOMAIN f /\ Head(f) = f[1] BY <2>1
    <2> QED BY <2>2, <2>3, <2>4 DEF OnFeed
  <1>2. ASSUME x \in T
        PROVE  OnFeed(Append(f, x)) = OnFeed(f) \cup Range(x.group.txs)
    <2> DEFINE e == Append(f, x)
    <2>1. /\ DOMAIN f = 1 .. Len(f) /\ DOMAIN e = 1 .. Len(f) + 1 /\ Len(f) \in Nat
          /\ \A i \in 1 .. Len(f) : e[i] = f[i]
          /\ e[Len(f) + 1] = x
      BY <1>2
    <2>2. /\ \A i \in DOMAIN e : (i \in DOMAIN f /\ e[i] = f[i]) \/ e[i] = x
          /\ \A i \in DOMAIN f : i \in DOMAIN e /\ e[i] = f[i]
          /\ Len(f) + 1 \in DOMAIN e
      BY <2>1
    <2> HIDE DEF e
    <2> QED BY <2>1, <2>2 DEF OnFeed, e
  <1> QED BY <1>1, <1>2

\* A chain block brings its transactions.
LEMMA OnChainFacts ==
  ASSUME NEW T, NEW c \in Seq(T), NEW g \in T
  PROVE  OnChain(Append(c, g)) = OnChain(c) \cup Range(g.txs)
  <1> DEFINE e == Append(c, g)
  <1>1. /\ DOMAIN c = 1 .. Len(c) /\ DOMAIN e = 1 .. Len(c) + 1 /\ Len(c) \in Nat
        /\ \A i \in 1 .. Len(c) : e[i] = c[i]
        /\ e[Len(c) + 1] = g
    OBVIOUS
  <1>2. /\ \A i \in DOMAIN e : (i \in DOMAIN c /\ e[i] = c[i]) \/ e[i] = g
        /\ \A i \in DOMAIN c : i \in DOMAIN e /\ e[i] = c[i]
        /\ Len(c) + 1 \in DOMAIN e
    BY <1>1
  <1> HIDE DEF e
  <1> QED BY <1>1, <1>2 DEF OnChain, e

\* What is being indexed: what is on the feed, and the open transaction's.
BeingFact ==
  /\ wtx = Nil => BeingIndexed = OnFeed(feed)
  /\ wtx # Nil /\ wtx.groups \in Seq(AcceptedGroup) /\ Len(wtx.groups) = 1 =>
       BeingIndexed = OnFeed(feed) \cup Range(wtx.groups[1].txs)

\* It holds of every state.
LEMMA BeingNow == BeingFact
  <1>1. wtx = Nil => BeingIndexed = OnFeed(feed) BY DEF BeingIndexed, OnFeed
  <1>2. ASSUME wtx # Nil, wtx.groups \in Seq(AcceptedGroup), Len(wtx.groups) = 1
        PROVE  BeingIndexed = OnFeed(feed) \cup Range(wtx.groups[1].txs)
    <2>1. Range(wtx.groups) = {wtx.groups[1]} BY <1>2 DEF Range
    <2> DEFINE R == Range(wtx.groups)
    <2>2. BeingIndexed = OnFeed(feed) \cup UNION {Range(g.txs) : g \in R}
      BY <1>2 DEF BeingIndexed, OnFeed
    <2> HIDE DEF R
    <2>3. R = {wtx.groups[1]} BY <2>1 DEF R
    <2>4. UNION {Range(g.txs) : g \in R} = Range(wtx.groups[1].txs) BY <2>3
    <2> QED BY <2>2, <2>4
  <1> QED BY <1>1, <1>2 DEF BeingFact

\* It holds after every step.
LEMMA BeingLater == BeingFact'
  BY BeingNow, PTL

\* While no block has been removed nothing is unwound: the store grows.
LEMMA NothingUnwound ==
  ASSUME SystemInv, GapInv, [Next]_vars, reorgs' = 0
  PROVE  reorgs = 0 /\ Grows(db, db')
  <1>1. reorgs \in Nat /\ feed \in Seq(FeedItem) BY DEF SystemInv
  <1>2. reorgs = 0
    <2>1. CASE Reorg BY <1>1, <2>1 DEF Reorg
    <2>2. CASE reorgs' = reorgs BY <2>2
    <2> QED BY <2>1, <2>2 DEF Next, Node, Relay, Mine, Index, PollFetch, PollInstall,
                              Requests, SpendStart, HistStart, SpendRead, SpendAnswered,
                              HistRead, HistNextPage, HistAnswered, vars, nodeVars
  <1>3. ~(feed # <<>> /\ Head(feed).op # "apply")
    <2> SUFFICES ASSUME feed # <<>> PROVE Head(feed).op = "apply" OBVIOUS
    <2>1. 1 \in DOMAIN feed /\ Head(feed) = feed[1] BY <1>1
    <2> QED BY <1>2, <2>1 DEF GapInv, Indexing
  <1> QED BY <1>2, <1>3, NextSystem

\* Mining moves transactions from the mempool to the chain and to the feed.
LEMMA MineGap ==
  ASSUME SystemInv, NEW h \in Hash, NEW S \in SUBSET pool, Mine(h, S)
  PROVE  /\ pool' \subseteq pool /\ pool \cup Accepted \subseteq pool' \cup Accepted'
         /\ Indexing => Indexing'
  <1> DEFINE txs == Reward[h] \o InSomeOrder(S)
             g == [hash |-> h, daa |-> Len(chain) + 1, txs |-> txs]
             item == [op |-> "apply", group |-> g]
  <1>1. /\ chain' = Append(chain, g) /\ feed' = Append(feed, item)
        /\ pool' = pool \ S /\ db' = db /\ wtx' = wtx
    BY DEF Mine, storeVars
  <1>2. /\ pool \subseteq TxId /\ IsFiniteSet(pool) /\ chain \in Seq(AcceptedGroup)
        /\ feed \in Seq(FeedItem) /\ TxnOK
    BY DEF SystemInv, StoreInv, TypeOK
  <1>3. InSomeOrder(S) \in Seq(TxId) /\ Range(InSomeOrder(S)) = S
    <2>1. IsFiniteSet(S) BY <1>2, FS_Subset
    <2> QED BY <1>2, <2>1, OrderFacts
  <1>4. Reward[h] \in Seq(TxId)
    <2>1. Reward[h] \in Seq(Coinbase) /\ Coinbase \subseteq TxId
      BY OverlayAssumption, BodyAssumption
    <2> QED BY <2>1
  <1>5. txs \in Seq(TxId) /\ S \subseteq Range(txs)
    <2> DEFINE r == Reward[h]
               q == InSomeOrder(S)
    <2> HIDE DEF r, q
    <2>1. r \in Seq(TxId) /\ q \in Seq(TxId) /\ Range(q) = S BY <1>3, <1>4 DEF r, q
    <2>2. /\ r \o q \in Seq(TxId) /\ DOMAIN (r \o q) = 1 .. Len(r) + Len(q)
          /\ Len(r) \in Nat /\ Len(q) \in Nat /\ DOMAIN q = 1 .. Len(q)
          /\ \A i \in 1 .. Len(q) : (r \o q)[Len(r) + i] = q[i]
      BY <2>1
    <2>3. ASSUME NEW i \in DOMAIN q PROVE q[i] \in Range(r \o q)
      <3>1. Len(r) + i \in DOMAIN (r \o q) /\ (r \o q)[Len(r) + i] = q[i] BY <2>2
      <3> QED BY <3>1 DEF Range
    <2>4. S \subseteq Range(r \o q) BY <2>1, <2>3 DEF Range
    <2> QED BY <2>2, <2>4 DEF r, q
  <1> HIDE DEF txs
  <1>6. g \in AcceptedGroup /\ g.txs = txs BY <1>2, <1>5 DEF AcceptedGroup
  <1> HIDE DEF g
  <1>7. item \in FeedItem /\ item.group = g /\ item.op = "apply" BY <1>6 DEF FeedItem
  <1> HIDE DEF item
  <1>8. Accepted' = Accepted \cup Range(txs)
    <2>1. OnChain(chain') = OnChain(chain) \cup Range(txs)
      BY <1>1, <1>2, <1>6, OnChainFacts
    <2> QED BY <2>1 DEF OnChain, Accepted
  <1>9. OnFeed(feed') = OnFeed(feed) \cup Range(txs)
    BY <1>1, <1>2, <1>6, <1>7, OnFeedFacts
  <1>10. ASSUME Indexing PROVE Indexing'
    <2>1. BeingIndexed' = BeingIndexed \cup Range(txs)
      <3>1. CASE wtx = Nil BY <1>1, <1>9, <3>1, BeingNow, BeingLater DEF BeingFact
      <3>2. CASE wtx # Nil
        <4>1. wtx.groups \in Seq(AcceptedGroup) /\ Len(wtx.groups) = 1
          BY <1>2, <1>10, <3>2 DEF TxnOK, Indexing
        <4>2. BeingIndexed = OnFeed(feed) \cup Range(wtx.groups[1].txs)
          BY <3>2, <4>1, BeingNow DEF BeingFact
        <4>3. BeingIndexed' = OnFeed(feed') \cup Range(wtx.groups[1].txs)
          BY <1>1, <3>2, <4>1, BeingLater DEF BeingFact
        <4> QED BY <1>9, <4>2, <4>3
      <3> QED BY <3>1, <3>2
    <2>2. \A t \in Accepted' : t \in BeingIndexed' \/ SpentBy(t) \subseteq DOMAIN db'.spend
      BY <1>1, <1>8, <1>10, <2>1 DEF Indexing
    <2>3. \A i \in DOMAIN feed' : feed'[i].op = "apply"
      <3>1. \A i \in DOMAIN feed' : \/ i \in DOMAIN feed /\ feed'[i] = feed[i]
                                    \/ feed'[i] = item
        BY <1>1, <1>2, <1>7
      <3> QED BY <1>7, <1>10, <3>1 DEF Indexing
    <2> QED BY <1>1, <1>10, <2>2, <2>3 DEF Indexing
  <1> QED BY <1>1, <1>5, <1>8, <1>10

\* The indexer takes the groups from the feed, one at a time, and commits one
\* when every spend of it is in the working copy.
LEMMA IndexGap ==
  ASSUME SystemInv, SystemInv', Index, Indexing, Grows(db, db'),
         \A work, groups, at, pos, nums, newest :
           Txn(work, groups, at, pos, nums, newest) # Nil
  PROVE  Indexing'
  <1>1. /\ feed \in Seq(FeedItem) /\ TxnOK /\ TxnOK'
        /\ (wtx # Nil => Sound(wtx.work))
    BY DEF SystemInv, StoreInv, TypeOK
  <1>2. Accepted' = Accepted BY DEF Index, Accepted
  <1>3. \A t \in Accepted : t \in BeingIndexed \/ SpentBy(t) \subseteq DOMAIN db.spend
    BY DEF Indexing
  <1>4. DOMAIN db.spend \subseteq DOMAIN db'.spend BY DEF Grows
  <1>5. ASSUME wtx = Nil, feed # <<>>, feed' = Tail(feed),
               BeginApply(<<Head(feed).group>>)
        PROVE  Indexing'
    <2> DEFINE g == Head(feed).group
    <2>1. g \in AcceptedGroup
      <3>1. Head(feed) \in FeedItem BY <1>1, <1>5
      <3> QED BY <3>1 DEF FeedItem
    <2>2. /\ wtx' # Nil /\ wtx'.groups = <<g>> /\ wtx'.at = 1 /\ wtx'.pos = 1
      BY <1>5 DEF BeginApply, Txn
    <2>3. OnFeed(feed) = Range(g.txs) \cup OnFeed(feed') BY <1>1, <1>5, OnFeedFacts
    <2> HIDE DEF g
    <2>4. <<g>> \in Seq(AcceptedGroup) /\ Len(<<g>>) = 1 /\ <<g>>[1] = g BY <2>1
    <2>5. BeingIndexed' = OnFeed(feed') \cup Range(g.txs)
      BY <2>2, <2>4, BeingLater DEF BeingFact
    <2>6. BeingIndexed = OnFeed(feed) BY <1>5, BeingNow DEF BeingFact
    <2>7. BeingIndexed' = BeingIndexed BY <2>3, <2>5, <2>6
    <2>8. \A i \in DOMAIN feed' : feed'[i].op = "apply"
      <3>1. \A i \in DOMAIN feed' : i + 1 \in DOMAIN feed /\ feed'[i] = feed[i + 1]
        BY <1>1, <1>5
      <3> QED BY <3>1 DEF Indexing
    <2>9. \A j \in DOMAIN g.txs : ~(1 = 2 \/ j < 1)
      <3>1. g.txs \in Seq(TxId) BY <2>1 DEF AcceptedGroup
      <3> QED BY <3>1
    <2> QED BY <1>2, <1>3, <1>4, <2>2, <2>4, <2>7, <2>8, <2>9 DEF Indexing
  <1>6. ASSUME wtx # Nil, wtx' # Nil, feed' = feed, wtx'.groups = wtx.groups
        PROVE  BeingIndexed' = BeingIndexed
    <2>1. wtx.groups \in Seq(AcceptedGroup) /\ Len(wtx.groups) = 1
      BY <1>1, <1>6 DEF TxnOK, Indexing
    <2>2. BeingIndexed = OnFeed(feed) \cup Range(wtx.groups[1].txs)
      BY <1>6, <2>1, BeingNow DEF BeingFact
    <2>3. BeingIndexed' = OnFeed(feed) \cup Range(wtx.groups[1].txs)
      BY <1>6, <2>1, BeingLater DEF BeingFact
    <2> QED BY <2>2, <2>3
  <1>7. ASSUME wtx # Nil
        PROVE  /\ Len(wtx.groups) = 1 /\ (wtx.at = 1 \/ wtx.at = 2) /\ wtx.pos \in Nat
               /\ wtx.groups[1].txs \in Seq(TxId)
    <2>1. /\ Len(wtx.groups) = 1 /\ wtx.groups \in Seq(AcceptedGroup)
          /\ wtx.at \in 1 .. Len(wtx.groups) + 1 /\ wtx.pos \in Nat
      BY <1>1, <1>7 DEF Indexing, TxnOK
    <2>2. wtx.groups[1] \in AcceptedGroup BY <2>1
    <2> QED BY <2>1, <2>2 DEF AcceptedGroup
  <1>8. ASSUME IndexNextTx, UNCHANGED feed PROVE Indexing'
    <2> DEFINE g == wtx.groups[1]
               t == g.txs[wtx.pos]
               e == IndexTx(wtx.work, g, t)
    <2>1. wtx # Nil /\ wtx.at <= Len(wtx.groups) BY <1>8 DEF IndexNextTx, InGroup
    <2>2. wtx.at = 1
      <3>1. Len(wtx.groups) = 1 /\ (wtx.at = 1 \/ wtx.at = 2) BY <1>7, <2>1
      <3> QED BY <2>1, <3>1
    <2>3. /\ wtx' # Nil /\ wtx'.groups = wtx.groups /\ wtx'.at = 1
          /\ wtx'.pos = wtx.pos + 1 /\ wtx'.work = e
      BY <1>8, <2>2 DEF IndexNextTx, Group, Txn
    <2>4. DOMAIN e.spend = DOMAIN wtx.work.spend \cup SpentBy(t)
      BY <1>1, <2>1, IndexTxGrows
    <2> HIDE DEF e
    <2>5. ASSUME NEW j \in DOMAIN g.txs, j < wtx.pos + 1
          PROVE  SpentBy(g.txs[j]) \subseteq DOMAIN e.spend
      <3>1. j < wtx.pos \/ j = wtx.pos BY <1>7, <2>1, <2>5
      <3> QED BY <2>1, <2>4, <3>1 DEF Indexing
    <2>6. BeingIndexed' = BeingIndexed BY <1>6, <1>8, <2>1, <2>3
    <2>7. Len(wtx.groups) = 1 BY <1>7, <2>1
    <2>8. \A i \in DOMAIN feed' : feed'[i].op = "apply" BY <1>8 DEF Indexing
    <2>9. \A x \in Accepted' :
            x \in BeingIndexed' \/ SpentBy(x) \subseteq DOMAIN db'.spend
      BY <1>2, <1>3, <1>4, <2>6
    <2>10. /\ Len(wtx'.groups) = 1
           /\ \A j \in DOMAIN wtx'.groups[1].txs :
                wtx'.at = 2 \/ j < wtx'.pos =>
                  SpentBy(wtx'.groups[1].txs[j]) \subseteq DOMAIN wtx'.work.spend
      BY <2>3, <2>5, <2>7
    <2> QED BY Zenon, <2>8, <2>9, <2>10 DEF Indexing
  <1>9. ASSUME FinishGroup, UNCHANGED feed PROVE Indexing'
    <2> DEFINE g == wtx.groups[1]
               e == RecordBlock(wtx.work, g, wtx.nums)
    <2>1. wtx # Nil /\ wtx.at <= Len(wtx.groups) BY <1>9 DEF FinishGroup, InGroup
    <2>2. wtx.at = 1
      <3>1. Len(wtx.groups) = 1 /\ (wtx.at = 1 \/ wtx.at = 2) BY <1>7, <2>1
      <3> QED BY <2>1, <3>1
    <2>3. /\ wtx' # Nil /\ wtx'.groups = wtx.groups /\ wtx'.work = e
          /\ wtx.pos > Len(g.txs)
      BY <1>9, <2>2 DEF FinishGroup, Group, Txn
    <2>4. e.spend = wtx.work.spend BY DEF RecordBlock
    <2> HIDE DEF e
    <2>5. ASSUME NEW j \in DOMAIN g.txs
          PROVE  SpentBy(g.txs[j]) \subseteq DOMAIN e.spend
      <3>1. j < wtx.pos BY <1>7, <2>1, <2>3
      <3> QED BY <2>1, <2>4, <3>1 DEF Indexing
    <2>6. BeingIndexed' = BeingIndexed BY <1>6, <1>9, <2>1, <2>3
    <2>7. Len(wtx.groups) = 1 BY <1>7, <2>1
    <2>8. \A i \in DOMAIN feed' : feed'[i].op = "apply" BY <1>9 DEF Indexing
    <2>9. \A x \in Accepted' :
            x \in BeingIndexed' \/ SpentBy(x) \subseteq DOMAIN db'.spend
      BY <1>2, <1>3, <1>4, <2>6
    <2>10. /\ Len(wtx'.groups) = 1
           /\ \A j \in DOMAIN wtx'.groups[1].txs :
                wtx'.at = 2 \/ j < wtx'.pos =>
                  SpentBy(wtx'.groups[1].txs[j]) \subseteq DOMAIN wtx'.work.spend
      BY <2>3, <2>5, <2>7
    <2> QED BY Zenon, <2>8, <2>9, <2>10 DEF Indexing
  <1>10. ASSUME CommitApply, UNCHANGED feed PROVE Indexing'
    <2> DEFINE txs == wtx.groups[1].txs
    <2>1. /\ wtx # Nil /\ wtx.at > Len(wtx.groups) /\ db' = wtx.work /\ wtx' = Nil
      BY <1>10 DEF CommitApply
    <2>2. wtx.at = 2 BY <1>7, <2>1
    <2>3. \A t \in Range(txs) : SpentBy(t) \subseteq DOMAIN db'.spend
      BY <2>1, <2>2 DEF Indexing, Range
    <2>4. wtx.groups \in Seq(AcceptedGroup) BY <1>1, <2>1 DEF TxnOK
    <2>5. BeingIndexed = OnFeed(feed) \cup Range(txs)
      BY <1>7, <2>1, <2>4, BeingNow DEF BeingFact
    <2>6. BeingIndexed' = OnFeed(feed) BY <1>10, <2>1, BeingLater DEF BeingFact
    <2> HIDE DEF txs
    <2>7. \A t \in Accepted : t \in BeingIndexed' \/ SpentBy(t) \subseteq DOMAIN db'.spend
      BY <1>3, <1>4, <2>3, <2>5, <2>6
    <2> QED BY <1>2, <1>10, <2>1, <2>7 DEF Indexing
  <1>11. feed # <<>> => Head(feed).op = "apply"
    <2> SUFFICES ASSUME feed # <<>> PROVE Head(feed).op = "apply" OBVIOUS
    <2>1. 1 \in DOMAIN feed /\ Head(feed) = feed[1] BY <1>1
    <2> QED BY <2>1 DEF Indexing
  <1> QED BY <1>5, <1>8, <1>9, <1>10, <1>11 DEF Index

\* Steps that leave the store, the mempool and the chain alone leave both parts
\* of the invariant alone, if they leave the poller alone too.
LEMMA QuietGap ==
  ASSUME UNCHANGED <<storeVars, nodeVars>>
  PROVE  /\ Indexing => Indexing'
         /\ UNCHANGED <<entries, snapshot>> /\ Polling => Polling'
  <1>1. /\ db' = db /\ wtx' = wtx /\ pool' = pool /\ chain' = chain /\ feed' = feed
    BY DEF storeVars, nodeVars
  <1>2. Accepted' = Accepted /\ BeingIndexed' = BeingIndexed
    BY <1>1 DEF Accepted, BeingIndexed
  <1> QED BY <1>1, <1>2 DEF Indexing, Polling

\* What the overlay knows stays in the mempool or on the chain, and what comes
\* to the mempool is new.
LEMMA PoolGap ==
  ASSUME Polling, UNCHANGED <<entries, snapshot>>,
         pool \cup Accepted \subseteq pool' \cup Accepted',
         \A t \in pool' : t \in pool \/ t \notin pool \cup Accepted
  PROVE  Polling'
  BY DEF Polling

\* A poll replaces the snapshot by the spends of what it received.
LEMMA InstallFacts ==
  ASSUME PollInstall
  PROVE  /\ entries # Nil /\ entries' = Nil
         /\ DOMAIN snapshot'.spends = UNION {SpentBy(t) : t \in entries}
         /\ \A o \in DOMAIN snapshot'.spends :
              snapshot'.spends[o] \in entries /\ o \in SpentBy(snapshot'.spends[o])
  <1>1. entries # Nil /\ entries' = Nil /\ snapshot' = build_snapshot(entries)
    BY DEF PollInstall
  <1>2. snapshot'.spends = PendingSpends(entries) BY <1>1 DEF build_snapshot
  <1>3. DOMAIN PendingSpends(entries) = UNION {SpentBy(t) : t \in entries}
    BY DEF PendingSpends
  <1>4. ASSUME NEW o \in UNION {SpentBy(t) : t \in entries}
        PROVE  /\ PendingSpends(entries)[o] \in entries
               /\ o \in SpentBy(PendingSpends(entries)[o])
    <2> DEFINE c == CHOOSE t \in entries : o \in SpentBy(t)
    <2>1. \E t \in entries : o \in SpentBy(t) OBVIOUS
    <2>2. c \in entries /\ o \in SpentBy(c) BY <2>1
    <2>3. PendingSpends(entries)[o] = c BY DEF PendingSpends
    <2> HIDE DEF c
    <2> QED BY <2>2, <2>3
  <1> QED BY <1>1, <1>2, <1>3, <1>4

\* Every step keeps the gap invariant.
LEMMA NextGap ==
  ASSUME SystemInv, GapInv, [Next]_vars,
         \A work, groups, at, pos, nums, newest :
           Txn(work, groups, at, pos, nums, newest) # Nil
  PROVE  GapInv'
  <1> SUFFICES ASSUME reorgs' = 0 PROVE Indexing' /\ Polling' BY DEF GapInv
  <1>1. Indexing /\ Polling /\ Grows(db, db') /\ SystemInv'
    BY NothingUnwound, NextSystem DEF GapInv
  <1>2. ASSUME NEW t \in TxId, Relay(t) PROVE Indexing' /\ Polling'
    <2>1. /\ pool' = pool \cup {t} /\ t \notin pool \cup Accepted
          /\ UNCHANGED <<storeVars, chain, feed, entries, snapshot>>
      BY <1>2 DEF Relay
    <2>2. Accepted' = Accepted /\ BeingIndexed' = BeingIndexed
      BY <2>1 DEF Accepted, BeingIndexed, storeVars
    <2>3. Indexing' BY <1>1, <2>1, <2>2 DEF Indexing, storeVars
    <2>4. Polling' BY <1>1, <2>1, <2>2, PoolGap
    <2> QED BY <2>3, <2>4
  <1>3. ASSUME NEW h \in Hash, NEW S \in SUBSET pool, Mine(h, S)
        PROVE  Indexing' /\ Polling'
    <2>1. UNCHANGED <<entries, snapshot>> BY <1>3 DEF Mine
    <2>2. /\ pool' \subseteq pool /\ pool \cup Accepted \subseteq pool' \cup Accepted'
          /\ Indexing'
      BY <1>1, <1>3, MineGap
    <2> QED BY <1>1, <2>1, <2>2, PoolGap
  <1>4. CASE Reorg
    <2>1. reorgs' = reorgs + 1 /\ reorgs \in Nat BY <1>4 DEF Reorg, SystemInv
    <2> QED BY <2>1
  <1>5. CASE Index
    <2>1. Indexing' BY <1>1, <1>5, IndexGap
    <2>2. pool' = pool /\ Accepted' = Accepted /\ UNCHANGED <<entries, snapshot>>
      BY <1>5 DEF Index, Accepted
    <2> QED BY <1>1, <2>1, <2>2, PoolGap
  <1>6. CASE PollFetch
    <2>1. UNCHANGED <<storeVars, nodeVars, snapshot>> /\ entries' = pool
      BY <1>6 DEF PollFetch
    <2>2. pool' = pool /\ Accepted' = Accepted BY <2>1 DEF nodeVars, Accepted
    <2>3. Polling' BY <1>1, <2>1, <2>2 DEF Polling
    <2> QED BY <1>1, <2>1, <2>3, QuietGap
  <1>7. CASE PollInstall
    <2>1. UNCHANGED <<storeVars, nodeVars>> BY <1>7 DEF PollInstall
    <2>2. pool' = pool /\ Accepted' = Accepted BY <2>1 DEF nodeVars, Accepted
    <2>3. entries \subseteq pool \cup Accepted BY <1>1, <1>7, InstallFacts DEF Polling
    <2>4. Polling' BY <1>7, <2>2, <2>3, InstallFacts DEF Polling
    <2> QED BY <1>1, <2>1, <2>4, QuietGap
  <1>8. CASE Requests
    <2>1. UNCHANGED <<storeVars, nodeVars, entries, snapshot>>
      BY <1>8 DEF Requests, SpendStart, HistStart, SpendRead, SpendAnswered,
                  HistRead, HistNextPage, HistAnswered
    <2> QED BY <1>1, <2>1, QuietGap
  <1>9. CASE UNCHANGED vars BY <1>1, <1>9, QuietGap DEF vars
  <1> QED BY <1>2, <1>3, <1>4, <1>5, <1>6, <1>7, <1>8, <1>9 DEF Next, Node

\* A spend is visible after a step when the new overlay or the new store has it.
LEMMA VisibleLater ==
  ASSUME NEW o, SystemInv'
  PROVE  o \in DOMAIN snapshot'.spends \/ o \in DOMAIN db'.spend => Visible(o)'
  <1>1. Range(SpendReads) = {"mempool", "accepted"} BY DEF SpendReads, Range
  <1>2. Found("mempool", o)' <=> o \in DOMAIN snapshot'.spends BY Zenon DEF Found
  <1>3. Found("accepted", o)' <=> spend_of(o)' BY Zenon DEF Found
  <1>4. o \in DOMAIN db'.spend => spend_of(o)'
    BY DEF SystemInv, StoreInv, Sound, IndexesAgree, spend_of
  <1>5. Found("mempool", o)' \/ Found("accepted", o)' => Visible(o)'
    BY <1>1, Zenon DEF Visible
  <1> QED BY <1>2, <1>3, <1>4, <1>5

\* A step hides a spend only when it is the poll before the commit.
LEMMA StepGap ==
  ASSUME SystemInv, GapInv, [Next]_vars, reorgs' = 0, NEW o \in Outpoint, Visible(o)
  PROVE  Visible(o)' \/ \E t \in BeingIndexed' : o \in SpentBy(t)
  <1>1. Indexing /\ Polling /\ Grows(db, db') /\ SystemInv'
    BY NothingUnwound, NextSystem DEF GapInv
  <1>2. o \in DOMAIN snapshot.spends \/ o \in DOMAIN db.spend
    BY FoundFacts DEF spend_of
  <1>3. CASE o \in DOMAIN db.spend BY <1>1, <1>3, VisibleLater DEF Grows
  <1>4. CASE o \in DOMAIN snapshot.spends /\ snapshot' = snapshot
    BY <1>1, <1>4, VisibleLater
  <1>5. CASE o \in DOMAIN snapshot.spends /\ PollInstall
    <2> DEFINE t == snapshot.spends[o]
    <2>1. /\ o \in SpentBy(t) /\ t \in pool \cup Accepted
          /\ t \in pool => t \in entries
      BY <1>1, <1>5, InstallFacts DEF Polling
    <2>2. UNCHANGED <<storeVars, nodeVars>> BY <1>5 DEF PollInstall
    <2>3. BeingIndexed' = BeingIndexed BY <2>2 DEF BeingIndexed, storeVars, nodeVars
    <2>4. CASE t \in pool
      <3>1. o \in DOMAIN snapshot'.spends BY <1>5, <2>1, <2>4, InstallFacts
      <3> QED BY <1>1, <3>1, VisibleLater
    <2>5. CASE t \in Accepted
      <3>1. t \in BeingIndexed \/ SpentBy(t) \subseteq DOMAIN db.spend
        BY <1>1, <2>5 DEF Indexing
      <3> QED BY <1>3, <2>1, <2>3, <3>1
    <2> QED BY <2>1, <2>4, <2>5
  <1>6. snapshot' = snapshot \/ PollInstall
    BY DEF Next, Node, Relay, Mine, Reorg, Index, PollFetch, Requests, SpendStart,
           HistStart, SpendRead, SpendAnswered, HistRead, HistNextPage, HistAnswered, vars
  <1> QED BY <1>2, <1>3, <1>4, <1>5, <1>6

----------------------------------------------------------------------------
(* The theorems about requests *)

\* The invariant of the overlay: the store's, and what each request knows
\* after each of its reads.
THEOREM OverlayInvariance == Spec => [](SystemInv /\ SpendInv /\ HistInv)
  <1>1. Init => SystemInv /\ SpendInv /\ HistInv
    BY InitSystem DEF Init, SpendInv, HistInv
  <1>2. SystemInv /\ SpendInv /\ HistInv /\ [Next]_vars
          => SystemInv' /\ SpendInv' /\ HistInv'
    BY NextSystem, NextSpend, NextHist
  <1> QED BY <1>1, <1>2, PTL DEF Spec

\* The indexer of this composition drives the store by its own operations, so
\* that what is proved of the store alone holds under the requests as well.
THEOREM OverlayKeepsStore == Spec => StoreSpec
  <1>1. Init => StoreInit BY DEF Init
  <1>2. SystemInv /\ [Next]_vars => [StoreNext]_storeVars BY NextSystem
  <1> QED BY <1>1, <1>2, OverlayInvariance, PTL DEF Spec, StoreSpec

\* outpoint_spend looks in the overlay and then in the store, and never answers
\* not_found for a spend it could see when it began, unless a block was unwound
\* in between.
THEOREM SpendsAreFound == Spec => []KnownSpendIsFound
  <1>1. SpendInv => KnownSpendIsFound BY DEF SpendInv, KnownSpendIsFound
  <1> QED BY <1>1, OverlayInvariance, PTL

\* A page of address_history holds no more rows than the count that is read
\* after it, in a transaction of its own.
THEOREM PagesWithinCount == Spec => []PageWithinCount
  <1>1. HistInv => PageWithinCount BY DEF HistInv, WalkInv, PageWithinCount
  <1> QED BY <1>1, OverlayInvariance, PTL

\* A walk through the pages of address_history, up to one that is not full,
\* shows every row there was when it began.
THEOREM WalksAreComplete == Spec => []WalkMissesNothing
  <1>1. HistInv => WalkMissesNothing
    BY DEF HistInv, WalkInv, WalkMissesNothing, PageAnswered, PageIsFull
  <1> QED BY <1>1, OverlayInvariance, PTL

\* While no block is removed, a spend that outpoint_spend showed is hidden only
\* by the poll that comes between the block and its commit.  (An open write
\* transaction is never taken for none.)
THEOREM GapIsIndexing ==
  ASSUME \A work, groups, at, pos, nums, newest :
           Txn(work, groups, at, pos, nums, newest) # Nil
  PROVE  Spec => SpendGapIsIndexing
  <1>1. Init => GapInv
    <2> SUFFICES ASSUME Init PROVE Indexing /\ Polling BY DEF GapInv
    <2>1. /\ feed = <<>> /\ chain = <<>> /\ wtx = Nil /\ entries = Nil
          /\ snapshot = EmptySnapshot
      BY DEF Init, StoreInit
    <2>2. DOMAIN snapshot.spends = {} BY <2>1 DEF EmptySnapshot, Empty
    <2>3. Accepted = {} BY <2>1 DEF Accepted
    <2> QED BY <2>1, <2>2, <2>3 DEF Indexing, Polling
  <1>2. SystemInv /\ GapInv /\ [Next]_vars => GapInv' BY NextGap
  <1>3. SystemInv /\ GapInv /\ [Next]_vars =>
          [reorgs' = 0 => \A o \in Outpoint :
             Visible(o) => Visible(o)' \/ \E t \in BeingIndexed' : o \in SpentBy(t)]_vars
    BY StepGap
  <1> QED BY <1>1, <1>2, <1>3, OverlayInvariance, PTL DEF Spec, SpendGapIsIndexing

=============================================================================
