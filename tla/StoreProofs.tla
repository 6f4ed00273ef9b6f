---------------------------- MODULE StoreProofs ----------------------------
(***************************************************************************)
(* Proofs about Store, for every set of blocks, transactions and addresses *)
(* and for every sequence of calls.                                        *)
(*                                                                         *)
(* What is inductive is the conjunction of all the table invariants, held  *)
(* of the committed tables and, while apply runs, of its working copy too: *)
(* that copy becomes the database at commit.                               *)
(***************************************************************************)
EXTENDS Store, FiniteSetTheorems, TLAPS

Sound(d) ==
  /\ TablesOK(d)
  /\ IndexesAgree(d)
  /\ HistoryAgrees(d)
  /\ ListsAgree(d)
  /\ IsFiniteSet(DOMAIN d.tx)
  /\ CountersCover(d)

\* What the open transaction's tx_nums are: the rows of the group it is in.
NumsAgree ==
  \A n \in wtx.nums :
    /\ n < wtx.work.next_tx_num
    /\ wtx.at <= Len(wtx.groups)
    /\ n \in DOMAIN wtx.work.tx => /\ wtx.work.tx[n].block = Group.hash
                                   /\ wtx.work.tx[n].daa = Group.daa

StoreInv ==
  /\ TypeOK
  /\ Sound(db)
  /\ wtx # Nil => /\ Sound(wtx.work)
                  /\ NumsAgree
                  /\ KeepsNumbers(db, wtx.work)

----------------------------------------------------------------------------
(* Facts about the table helpers *)

\* Put changes one key and adds it to the domain.
LEMMA PutFacts ==
  ASSUME NEW f, NEW k, NEW v
  PROVE  /\ DOMAIN Put(f, k, v) = DOMAIN f \cup {k}
         /\ Put(f, k, v)[k] = v
         /\ \A x \in DOMAIN f : x # k => Put(f, k, v)[x] = f[x]
  BY DEF Put

\* Without removes keys and leaves the other entries alone.
LEMMA WithoutFacts ==
  ASSUME NEW f, NEW S
  PROVE  /\ DOMAIN Without(f, S) = DOMAIN f \ S
         /\ \A x \in DOMAIN f \ S : Without(f, S)[x] = f[x]
  BY DEF Without

\* saturating_sub of naturals is a natural, and undoes an addition.
LEMMA SaturatingFacts ==
  ASSUME NEW m \in Nat, NEW n \in Nat
  PROVE  /\ SaturatingSub(m, n) \in Nat
         /\ m >= n => SaturatingSub(m, n) = m - n
  BY DEF SaturatingSub

\* A ledger names addresses only: scripts without one are skipped.
LEMMA LedgerDomain ==
  ASSUME NEW d, NEW t \in TxId
  PROVE  DOMAIN compute_ledger(d, t) \subseteq Address
  <1>1. OutputsOf(t) \subseteq Outpoint BY DEF OutputsOf
  <1>2. Resolved(d, t) \subseteq Outpoint
    BY BodyAssumption DEF Resolved, SpentBy
  <1>3. LedgerAddresses(d, t) \subseteq Address
    BY <1>1, <1>2, BodyAssumption DEF LedgerAddresses
  <1> QED BY <1>3 DEF compute_ledger

----------------------------------------------------------------------------
(* Indexing one transaction *)

\* The row IndexTx adds is new, and the others stay.
LEMMA IndexTxRows ==
  ASSUME NEW d, NEW g, NEW t, TablesOK(d), ListsAgree(d)
  PROVE  LET e == IndexTx(d, g, t)
             n == d.next_tx_num
         IN /\ n \in Nat /\ n \notin DOMAIN d.tx
            /\ DOMAIN e.tx = DOMAIN d.tx \cup {n}
            /\ e.tx[n].tx_id = t
            /\ e.tx[n].block = g.hash
            /\ e.tx[n].daa = g.daa
            /\ e.tx[n].ledger = compute_ledger(d, t)
            /\ \A m \in DOMAIN d.tx : e.tx[m] = d.tx[m]
            /\ e.next_tx_num = n + 1
  <1> DEFINE n == d.next_tx_num
             e == IndexTx(d, g, t)
             row == [tx_id |-> t, block |-> g.hash, daa |-> g.daa,
                     ledger |-> compute_ledger(d, t)]
  <1>1. e.tx = Put(d.tx, n, row) /\ e.next_tx_num = n + 1
    BY DEF IndexTx, NextNum
  <1>2. n \in Nat /\ n \notin DOMAIN d.tx
    BY DEF TablesOK, ListsAgree
  <1> HIDE DEF e, n, row
  <1>3. DOMAIN e.tx = DOMAIN d.tx \cup {n} /\ e.tx[n] = row
        /\ \A m \in DOMAIN d.tx : e.tx[m] = d.tx[m]
    BY <1>1, <1>2 DEF Put
  <1>4. e.tx[n].tx_id = t /\ e.tx[n].block = g.hash /\ e.tx[n].daa = g.daa
        /\ e.tx[n].ledger = compute_ledger(d, t)
    BY <1>3 DEF row
  <1> QED BY <1>1, <1>2, <1>3, <1>4 DEF e, n

\* A row number once given is not given again by IndexTx.
LEMMA IndexTxKeepsNumbers ==
  ASSUME NEW d, NEW g, NEW t, TablesOK(d), ListsAgree(d)
  PROVE  KeepsNumbers(d, IndexTx(d, g, t))
  <1> DEFINE e == IndexTx(d, g, t)
  <1>1. /\ d.next_tx_num \in Nat
        /\ DOMAIN e.tx = DOMAIN d.tx \cup {d.next_tx_num}
        /\ \A m \in DOMAIN d.tx : e.tx[m] = d.tx[m]
        /\ e.next_tx_num = d.next_tx_num + 1
    BY IndexTxRows
  <1> HIDE DEF e
  <1>2. KeepsNumbers(d, e) BY <1>1 DEF KeepsNumbers
  <1> QED BY <1>2 DEF e

\* IndexTx keeps the types of the tables.
LEMMA IndexTxTables ==
  ASSUME NEW d, NEW g \in AcceptedGroup, NEW t \in TxId,
         TablesOK(d), ListsAgree(d)
  PROVE  TablesOK(IndexTx(d, g, t))
  <1> DEFINE n == d.next_tx_num
             e == IndexTx(d, g, t)
             led == compute_ledger(d, t)
  <1>1. DOMAIN led \subseteq Address BY LedgerDomain
  <1>2. g.hash \in Hash /\ g.daa \in Nat BY DEF AcceptedGroup
  <1>3. /\ n \in Nat /\ n \notin DOMAIN d.tx
        /\ DOMAIN e.tx = DOMAIN d.tx \cup {n}
        /\ e.tx[n].tx_id = t
        /\ e.tx[n].block = g.hash
        /\ e.tx[n].daa = g.daa
        /\ e.tx[n].ledger = led
        /\ \A m \in DOMAIN d.tx : e.tx[m] = d.tx[m]
        /\ e.next_tx_num = n + 1
    BY IndexTxRows
  <1>4. DOMAIN e.tx_by_id = DOMAIN d.tx_by_id \cup {t}
    BY PutFacts DEF IndexTx
  <1>5. DOMAIN e.hist = Address /\ DOMAIN e.totals = Address BY DEF IndexTx
  <1>6. \A a \in Address : e.totals[a].cnt \in Nat
    <2> TAKE a \in Address
    <2>1. e.totals[a] = IF a \in DOMAIN led THEN AddTotals(d.totals[a], led[a])
                                            ELSE d.totals[a]
      BY DEF IndexTx
    <2>2. d.totals[a].cnt \in Nat BY DEF TablesOK
    <2>3. AddTotals(d.totals[a], led[a]).cnt = d.totals[a].cnt + 1
      BY DEF AddTotals
    <2> HIDE DEF e, led
    <2> QED BY <2>1, <2>2, <2>3
  <1>7. DOMAIN e.spend = DOMAIN d.spend \cup SpentBy(t) BY DEF IndexTx
  <1>8. SpentBy(t) \subseteq Outpoint BY BodyAssumption DEF SpentBy
  <1>9. /\ e.applied = d.applied /\ e.acc = d.acc
        /\ e.checkpoint = d.checkpoint
        /\ e.total_txs = d.total_txs + 1
    BY DEF IndexTx, CountTx
  <1> HIDE DEF e, n, led
  <1>10. \A m \in DOMAIN e.tx : /\ e.tx[m].tx_id \in TxId
                                /\ e.tx[m].block \in Hash
                                /\ e.tx[m].daa \in Nat
                                /\ DOMAIN e.tx[m].ledger \subseteq Address
    <2> TAKE m \in DOMAIN e.tx
    <2>1. CASE m = n BY <2>1, <1>1, <1>2, <1>3
    <2>2. CASE m # n BY <2>2, <1>3 DEF TablesOK
    <2> QED BY <2>1, <2>2
  <1>11. TablesOK(e)
    BY <1>3, <1>4, <1>5, <1>6, <1>7, <1>8, <1>9, <1>10 DEF TablesOK
  <1> QED BY <1>11 DEF e

\* IndexTx keeps every index entry on a live row.
LEMMA IndexTxIndexes ==
  ASSUME NEW d, NEW g, NEW t, TablesOK(d), ListsAgree(d), IndexesAgree(d)
  PROVE  IndexesAgree(IndexTx(d, g, t))
  <1> DEFINE n == d.next_tx_num
             e == IndexTx(d, g, t)
  <1>1. /\ n \notin DOMAIN d.tx
        /\ DOMAIN e.tx = DOMAIN d.tx \cup {n}
        /\ e.tx[n].tx_id = t
        /\ \A m \in DOMAIN d.tx : e.tx[m] = d.tx[m]
    BY IndexTxRows
  <1>2. e.tx_by_id = Put(d.tx_by_id, t, n) BY DEF IndexTx, NextNum
  <1>3. /\ DOMAIN e.spend = DOMAIN d.spend \cup SpentBy(t)
        /\ \A o \in DOMAIN e.spend :
             e.spend[o] = IF o \in SpentBy(t) THEN n ELSE d.spend[o]
    BY DEF IndexTx, NextNum
  <1> HIDE DEF e, n
  <1>4. \A x \in DOMAIN e.tx_by_id : /\ e.tx_by_id[x] \in DOMAIN e.tx
                                    /\ e.tx[e.tx_by_id[x]].tx_id = x
    BY <1>1, <1>2 DEF IndexesAgree, Put
  <1>5. \A o \in DOMAIN e.spend : /\ e.spend[o] \in DOMAIN e.tx
                                 /\ o \in SpentBy(e.tx[e.spend[o]].tx_id)
    BY <1>1, <1>3 DEF IndexesAgree
  <1> QED BY <1>4, <1>5 DEF IndexesAgree, e

\* IndexTx adds the history rows its ledger calls for.
LEMMA IndexTxHistory ==
  ASSUME NEW d, NEW g, NEW t, TablesOK(d), ListsAgree(d), HistoryAgrees(d)
  PROVE  HistoryAgrees(IndexTx(d, g, t))
  <1> DEFINE n == d.next_tx_num
             e == IndexTx(d, g, t)
             led == compute_ledger(d, t)
  <1>1. /\ n \notin DOMAIN d.tx
        /\ DOMAIN e.tx = DOMAIN d.tx \cup {n}
        /\ e.tx[n].ledger = led
        /\ \A m \in DOMAIN d.tx : e.tx[m] = d.tx[m]
    BY IndexTxRows
  <1>2. \A a \in Address : e.hist[a] = IF a \in DOMAIN led
                                       THEN Put(d.hist[a], n, Net(led[a]))
                                       ELSE d.hist[a]
    BY DEF IndexTx, NextNum
  <1> HIDE DEF e, n, led
  <1>3. ASSUME NEW a \in Address
        PROVE  /\ DOMAIN e.hist[a] = Touching(e, DOMAIN e.tx, a)
               /\ \A m \in DOMAIN e.hist[a] :
                    e.hist[a][m] = Net(e.tx[m].ledger[a])
    <2>1. /\ DOMAIN d.hist[a] = Touching(d, DOMAIN d.tx, a)
          /\ \A m \in DOMAIN d.hist[a] : d.hist[a][m] = Net(d.tx[m].ledger[a])
      BY DEF HistoryAgrees
    <2>2. DOMAIN d.hist[a] \subseteq DOMAIN d.tx BY <2>1 DEF Touching
    <2>3. Touching(e, DOMAIN e.tx, a) =
            Touching(d, DOMAIN d.tx, a) \cup (IF a \in DOMAIN led THEN {n} ELSE {})
      BY <1>1 DEF Touching
    <2>4. CASE a \in DOMAIN led
      <3>1. e.hist[a] = Put(d.hist[a], n, Net(led[a])) BY <2>4, <1>2
      <3>2. DOMAIN e.hist[a] = DOMAIN d.hist[a] \cup {n} BY <3>1 DEF Put
      <3>3. \A m \in DOMAIN e.hist[a] : e.hist[a][m] = Net(e.tx[m].ledger[a])
        BY <3>1, <3>2, <2>1, <2>2, <1>1 DEF Put
      <3> QED BY <3>2, <3>3, <2>1, <2>3, <2>4
    <2>5. CASE a \notin DOMAIN led
      BY <2>5, <1>1, <1>2, <2>1, <2>2, <2>3
    <2> QED BY <2>4, <2>5
  <1> QED BY <1>3 DEF HistoryAgrees, e

\* IndexTx leaves the chain-block tables and the reorg lists right.
LEMMA IndexTxLists ==
  ASSUME NEW d, NEW g, NEW t, TablesOK(d), ListsAgree(d)
  PROVE  ListsAgree(IndexTx(d, g, t))
  <1> DEFINE n == d.next_tx_num
             e == IndexTx(d, g, t)
  <1>1. /\ n \in Nat /\ n \notin DOMAIN d.tx
        /\ DOMAIN e.tx = DOMAIN d.tx \cup {n}
        /\ \A m \in DOMAIN d.tx : e.tx[m] = d.tx[m]
        /\ e.next_tx_num = n + 1
    BY IndexTxRows
  <1>2. e.applied = d.applied /\ e.acc = d.acc /\ e.chain = d.chain
    BY DEF IndexTx
  <1>3. \A m \in DOMAIN d.tx : m \in Nat /\ m < n BY DEF TablesOK, ListsAgree
  <1>4. \A h \in DOMAIN d.acc : \A m \in d.acc[h] : m \in Nat /\ m < n
    BY DEF TablesOK, ListsAgree
  <1> HIDE DEF e
  <1>5. \A m \in DOMAIN e.tx : m < e.next_tx_num BY <1>1, <1>3
  <1>6. \A h \in DOMAIN e.acc : \A m \in e.acc[h] :
          /\ m < e.next_tx_num
          /\ m \in DOMAIN e.tx => /\ e.tx[m].block = h
                                  /\ e.tx[m].daa = e.applied[h]
    BY <1>1, <1>2, <1>4 DEF ListsAgree
  <1> QED BY <1>2, <1>5, <1>6 DEF ListsAgree, e

\* IndexTx counts the row it adds, in total and for each address.
LEMMA IndexTxCounters ==
  ASSUME NEW d, NEW g, NEW t, Sound(d)
  PROVE  /\ IsFiniteSet(DOMAIN IndexTx(d, g, t).tx)
         /\ CountersCover(IndexTx(d, g, t))
  <1> DEFINE n == d.next_tx_num
             e == IndexTx(d, g, t)
             led == compute_ledger(d, t)
  <1> USE DEF Sound
  <1>1. n \notin DOMAIN d.tx /\ DOMAIN e.tx = DOMAIN d.tx \cup {n}
    BY IndexTxRows
  <1>2. e.total_txs = d.total_txs + 1 /\ d.total_txs \in Nat
    BY DEF IndexTx, CountTx, TablesOK
  <1>3. \A a \in Address :
          /\ e.hist[a] = IF a \in DOMAIN led THEN Put(d.hist[a], n, Net(led[a]))
                                             ELSE d.hist[a]
          /\ e.totals[a].cnt = IF a \in DOMAIN led THEN d.totals[a].cnt + 1
                                                   ELSE d.totals[a].cnt
    BY DEF IndexTx, NextNum, AddTotals
  <1>4. /\ IsFiniteSet(DOMAIN d.tx)
        /\ d.total_txs >= Cardinality(DOMAIN d.tx)
        /\ \A a \in Address : /\ d.totals[a].cnt \in Nat
                              /\ d.totals[a].cnt >= Cardinality(DOMAIN d.hist[a])
                              /\ DOMAIN d.hist[a] \subseteq DOMAIN d.tx
    BY DEF CountersCover, TablesOK, HistoryAgrees, Touching
  <1> HIDE DEF e, n, led, Sound
  <1>5. /\ IsFiniteSet(DOMAIN e.tx)
        /\ Cardinality(DOMAIN e.tx) = Cardinality(DOMAIN d.tx) + 1
        /\ Cardinality(DOMAIN d.tx) \in Nat
    BY <1>1, <1>4, FS_AddElement, FS_CardinalityType
  <1>6. ASSUME NEW a \in Address
        PROVE  e.totals[a].cnt >= Cardinality(DOMAIN e.hist[a])
    <2>1. IsFiniteSet(DOMAIN d.hist[a]) BY <1>4, FS_Subset
    <2>2. Cardinality(DOMAIN d.hist[a]) \in Nat BY <2>1, FS_CardinalityType
    <2>3. n \notin DOMAIN d.hist[a] BY <1>1, <1>4
    <2>4. CASE a \in DOMAIN led
      <3>1. DOMAIN e.hist[a] = DOMAIN d.hist[a] \cup {n}
        BY <2>4, <1>3 DEF Put
      <3>2. Cardinality(DOMAIN e.hist[a]) = Cardinality(DOMAIN d.hist[a]) + 1
        BY <3>1, <2>1, <2>3, FS_AddElement
      <3>3. e.totals[a].cnt = d.totals[a].cnt + 1 BY <2>4, <1>3
      <3> QED BY <3>2, <3>3, <2>2, <1>4
    <2>5. CASE a \notin DOMAIN led BY <2>5, <1>3, <1>4
    <2> QED BY <2>4, <2>5
  <1>7. e.total_txs >= Cardinality(DOMAIN e.tx) BY <1>2, <1>4, <1>5
  <1>8. IsFiniteSet(DOMAIN e.tx) /\ CountersCover(e)
    BY <1>5, <1>6, <1>7 DEF CountersCover
  <1> QED BY <1>8 DEF e

\* Indexing a transaction keeps all the table invariants.
LEMMA IndexTxSound ==
  ASSUME NEW d, NEW g \in AcceptedGroup, NEW t \in TxId, Sound(d)
  PROVE  Sound(IndexTx(d, g, t))
  <1>1. TablesOK(IndexTx(d, g, t)) BY IndexTxTables DEF Sound
  <1>2. IndexesAgree(IndexTx(d, g, t)) BY IndexTxIndexes DEF Sound
  <1>3. HistoryAgrees(IndexTx(d, g, t)) BY IndexTxHistory DEF Sound
  <1>4. ListsAgree(IndexTx(d, g, t)) BY IndexTxLists DEF Sound
  <1>5. /\ IsFiniteSet(DOMAIN IndexTx(d, g, t).tx)
        /\ CountersCover(IndexTx(d, g, t))
    BY IndexTxCounters
  <1> QED BY <1>1, <1>2, <1>3, <1>4, <1>5 DEF Sound

----------------------------------------------------------------------------
(* Recording a block *)

\* Recording a block that is not applied, with rows that are its own, keeps
\* all the table invariants.
LEMMA RecordBlockSound ==
  ASSUME NEW d, NEW g \in AcceptedGroup, NEW nums \in SUBSET Nat,
         Sound(d), g.hash \notin DOMAIN d.applied,
         \A n \in nums : /\ n < d.next_tx_num
                         /\ n \in DOMAIN d.tx => /\ d.tx[n].block = g.hash
                                                 /\ d.tx[n].daa = g.daa
  PROVE  Sound(RecordBlock(d, g, nums)) /\ KeepsNumbers(d, RecordBlock(d, g, nums))
  <1> DEFINE e == RecordBlock(d, g, nums)
  <1>1. /\ e.tx = d.tx /\ e.tx_by_id = d.tx_by_id /\ e.hist = d.hist
        /\ e.totals = d.totals /\ e.spend = d.spend
        /\ e.next_tx_num = d.next_tx_num /\ e.total_txs = d.total_txs
    BY DEF RecordBlock
  <1>2. /\ e.applied = Put(d.applied, g.hash, g.daa)
        /\ e.acc = Put(d.acc, g.hash, nums)
        /\ e.chain = d.chain \cup {<<g.daa, g.hash>>}
        /\ e.checkpoint.hash = g.hash /\ e.checkpoint.daa = g.daa
    BY DEF RecordBlock
  <1>3. g.hash \in Hash /\ g.daa \in Nat BY DEF AcceptedGroup
  <1>4. TablesOK(d) /\ ListsAgree(d) BY DEF Sound
  <1>5. d.next_tx_num \in Nat BY <1>4 DEF TablesOK
  <1> HIDE DEF e
  <1>6. /\ DOMAIN e.applied = DOMAIN d.applied \cup {g.hash}
        /\ DOMAIN e.acc = DOMAIN d.acc \cup {g.hash}
        /\ e.applied[g.hash] = g.daa /\ e.acc[g.hash] = nums
        /\ \A h \in DOMAIN d.applied : e.applied[h] = d.applied[h]
        /\ \A h \in DOMAIN d.acc : e.acc[h] = d.acc[h]
        /\ DOMAIN d.acc = DOMAIN d.applied
    BY <1>2, <1>4 DEF Put, ListsAgree
  <1>7. TablesOK(e)
    <2>1. \A h \in DOMAIN e.applied : h \in Hash /\ e.applied[h] \in Nat
      BY <1>3, <1>4, <1>6 DEF TablesOK
    <2>2. \A h \in DOMAIN e.acc : h \in Hash /\ e.acc[h] \subseteq Nat
      BY <1>3, <1>4, <1>6 DEF TablesOK
    <2> QED BY <2>1, <2>2, <1>1, <1>2, <1>3, <1>4 DEF TablesOK
  <1>8. e.chain = {<<e.applied[h], h>> : h \in DOMAIN e.applied}
    <2>1. d.chain = {<<d.applied[h], h>> : h \in DOMAIN d.applied}
      BY <1>4 DEF ListsAgree
    <2> QED BY <2>1, <1>2, <1>6
  <1>9. \A h \in DOMAIN e.acc : \A n \in e.acc[h] :
          /\ n < e.next_tx_num
          /\ n \in DOMAIN e.tx => /\ e.tx[n].block = h
                                  /\ e.tx[n].daa = e.applied[h]
    <2> SUFFICES ASSUME NEW h \in DOMAIN e.acc, NEW n \in e.acc[h]
                 PROVE  /\ n < e.next_tx_num
                        /\ n \in DOMAIN e.tx => /\ e.tx[n].block = h
                                                /\ e.tx[n].daa = e.applied[h]
      OBVIOUS
    <2>1. CASE h = g.hash BY <2>1, <1>1, <1>6
    <2>2. CASE h # g.hash BY <2>2, <1>1, <1>4, <1>6 DEF ListsAgree
    <2> QED BY <2>1, <2>2
  <1>10. ListsAgree(e) BY <1>1, <1>4, <1>6, <1>8, <1>9 DEF ListsAgree
  <1>11. IndexesAgree(e) BY <1>1 DEF Sound, IndexesAgree
  <1>12. HistoryAgrees(e) BY <1>1 DEF Sound, HistoryAgrees, Touching
  <1>13. IsFiniteSet(DOMAIN e.tx) /\ CountersCover(e)
    BY <1>1 DEF Sound, CountersCover
  <1>14. KeepsNumbers(d, e) BY <1>1, <1>5 DEF KeepsNumbers
  <1> QED BY <1>7, <1>10, <1>11, <1>12, <1>13, <1>14 DEF Sound, e

----------------------------------------------------------------------------
(* Removing rows, in a reorg or by expiry *)

\* e is d without the transactions S and the rows derived from them.
Removes(d, e, S) ==
  /\ e.tx = Without(d.tx, S)
  /\ e.tx_by_id = Without(d.tx_by_id, IdsOf(d, S))
  /\ e.hist = HistWithout(d, S)
  /\ e.spend = Without(d.spend, SpendsOf(d, S))
  /\ e.next_tx_num = d.next_tx_num
  /\ e.checkpoint = d.checkpoint

\* The rows, indexes and history left after a removal agree with each other.
LEMMA RemovalKeepsAgreement ==
  ASSUME NEW d, NEW e, NEW S, S \subseteq DOMAIN d.tx, Removes(d, e, S), Sound(d)
  PROVE  /\ DOMAIN e.tx = DOMAIN d.tx \ S
         /\ \A n \in DOMAIN e.tx : e.tx[n] = d.tx[n]
         /\ DOMAIN e.hist = Address
         /\ \A a \in Address :
              DOMAIN e.hist[a] = DOMAIN d.hist[a] \ Touching(d, S, a)
         /\ DOMAIN e.tx_by_id \subseteq TxId
         /\ DOMAIN e.spend \subseteq Outpoint
         /\ IndexesAgree(e) /\ HistoryAgrees(e) /\ KeepsNumbers(d, e)
         /\ IsFiniteSet(DOMAIN e.tx)
  <1>1. /\ DOMAIN e.tx = DOMAIN d.tx \ S
        /\ \A n \in DOMAIN e.tx : e.tx[n] = d.tx[n]
    BY DEF Removes, Without
  <1>2. /\ DOMAIN e.tx_by_id = DOMAIN d.tx_by_id \ IdsOf(d, S)
        /\ \A t \in DOMAIN e.tx_by_id : e.tx_by_id[t] = d.tx_by_id[t]
    BY DEF Removes, Without
  <1>3. /\ DOMAIN e.spend = DOMAIN d.spend \ SpendsOf(d, S)
        /\ \A o \in DOMAIN e.spend : e.spend[o] = d.spend[o]
    BY DEF Removes, Without
  <1>4. /\ DOMAIN e.hist = Address
        /\ \A a \in Address :
             /\ DOMAIN e.hist[a] = DOMAIN d.hist[a] \ Touching(d, S, a)
             /\ \A n \in DOMAIN e.hist[a] : e.hist[a][n] = d.hist[a][n]
    BY DEF Removes, HistWithout, Without
  <1>5. TablesOK(d) /\ IndexesAgree(d) /\ HistoryAgrees(d) BY DEF Sound
  <1>6. \A t \in DOMAIN e.tx_by_id : /\ e.tx_by_id[t] \in DOMAIN e.tx
                                    /\ e.tx[e.tx_by_id[t]].tx_id = t
    <2> TAKE t \in DOMAIN e.tx_by_id
    <2>1. d.tx_by_id[t] \in DOMAIN d.tx /\ d.tx[d.tx_by_id[t]].tx_id = t
      BY <1>2, <1>5 DEF IndexesAgree
    <2>2. d.tx_by_id[t] \notin S BY <2>1, <1>2 DEF IdsOf
    <2> QED BY <2>1, <2>2, <1>1, <1>2
  <1>7. \A o \in DOMAIN e.spend : /\ e.spend[o] \in DOMAIN e.tx
                                 /\ o \in SpentBy(e.tx[e.spend[o]].tx_id)
    <2> TAKE o \in DOMAIN e.spend
    <2>1. d.spend[o] \in DOMAIN d.tx /\ o \in SpentBy(d.tx[d.spend[o]].tx_id)
      BY <1>3, <1>5 DEF IndexesAgree
    <2>2. d.spend[o] \notin S BY <2>1, <1>3 DEF SpendsOf
    <2> QED BY <2>1, <2>2, <1>1, <1>3
  <1>8. IndexesAgree(e) BY <1>6, <1>7 DEF IndexesAgree
  <1>9. HistoryAgrees(e)
    <2> SUFFICES ASSUME NEW a \in Address
                 PROVE  /\ DOMAIN e.hist[a] = Touching(e, DOMAIN e.tx, a)
                        /\ \A n \in DOMAIN e.hist[a] :
                             e.hist[a][n] = Net(e.tx[n].ledger[a])
      BY DEF HistoryAgrees
    <2>1. /\ DOMAIN d.hist[a] = Touching(d, DOMAIN d.tx, a)
          /\ \A n \in DOMAIN d.hist[a] : d.hist[a][n] = Net(d.tx[n].ledger[a])
      BY <1>5 DEF HistoryAgrees
    <2>2. DOMAIN e.hist[a] = Touching(e, DOMAIN e.tx, a)
      BY <2>1, <1>1, <1>4 DEF Touching
    <2>3. \A n \in DOMAIN e.hist[a] : n \in DOMAIN e.tx /\ n \in DOMAIN d.hist[a]
      BY <2>2, <1>4 DEF Touching
    <2> QED BY <2>1, <2>2, <2>3, <1>1, <1>4
  <1>10. KeepsNumbers(d, e)
    <2>1. e.next_tx_num = d.next_tx_num /\ d.next_tx_num \in Nat
      BY <1>5 DEF Removes, TablesOK
    <2> QED BY <2>1, <1>1 DEF KeepsNumbers
  <1>11. IsFiniteSet(DOMAIN e.tx)
    <2>1. IsFiniteSet(DOMAIN d.tx) BY DEF Sound
    <2> QED BY <2>1, <1>1, FS_Difference
  <1> QED BY <1>1, <1>2, <1>3, <1>4, <1>5, <1>8, <1>9, <1>10, <1>11 DEF TablesOK

\* Taking away a part of a finite set, and at most as much from a counter that
\* covers it, leaves a counter that covers the rest.
LEMMA SaturatingCover ==
  ASSUME NEW A, IsFiniteSet(A), NEW B, B \subseteq A,
         NEW k \in Nat, k >= Cardinality(A)
  PROVE  /\ SaturatingSub(k, Cardinality(B)) \in Nat
         /\ SaturatingSub(k, Cardinality(B)) >= Cardinality(A \ B)
         /\ k >= Cardinality(A \ B)
  <1>1. IsFiniteSet(B) /\ Cardinality(B) <= Cardinality(A) BY FS_Subset
  <1>2. Cardinality(A) \in Nat /\ Cardinality(B) \in Nat
    BY <1>1, FS_CardinalityType
  <1>3. A \cap B = B OBVIOUS
  <1>4. Cardinality(A \ B) = Cardinality(A) - Cardinality(A \cap B)
    BY FS_Difference
  <1> QED BY <1>1, <1>2, <1>3, <1>4 DEF SaturatingSub

\* Unwinding an applied block keeps all the table invariants.
LEMMA UnwindSound ==
  ASSUME NEW d, NEW h, Sound(d), h \in DOMAIN d.acc
  PROVE  /\ Sound(unwind_chain_block(d, h))
         /\ KeepsNumbers(d, unwind_chain_block(d, h))
  <1> DEFINE S == d.acc[h] \cap DOMAIN d.tx
             e == unwind_chain_block(d, h)
  <1>1. Removes(d, e, S) BY DEF Removes, unwind_chain_block
  <1>2. /\ DOMAIN e.totals = Address
        /\ \A a \in Address : e.totals[a].cnt =
             SaturatingSub(d.totals[a].cnt, Cardinality(Touching(d, S, a)))
        /\ e.total_txs = SaturatingSub(d.total_txs, Cardinality(S))
    BY DEF unwind_chain_block, SubTotals
  <1>3. /\ e.applied = Without(d.applied, {h})
        /\ e.acc = Without(d.acc, {h})
        /\ e.chain = d.chain \ {<<d.applied[x], x>> : x \in DOMAIN d.applied \cap {h}}
    BY DEF unwind_chain_block
  <1>4. S \subseteq DOMAIN d.tx OBVIOUS
  <1> HIDE DEF e, S
  <1>5. /\ DOMAIN e.tx = DOMAIN d.tx \ S
        /\ \A n \in DOMAIN e.tx : e.tx[n] = d.tx[n]
        /\ DOMAIN e.hist = Address
        /\ \A a \in Address :
             DOMAIN e.hist[a] = DOMAIN d.hist[a] \ Touching(d, S, a)
        /\ DOMAIN e.tx_by_id \subseteq TxId
        /\ DOMAIN e.spend \subseteq Outpoint
        /\ IndexesAgree(e) /\ HistoryAgrees(e) /\ KeepsNumbers(d, e)
        /\ IsFiniteSet(DOMAIN e.tx)
    BY <1>1, <1>4, RemovalKeepsAgreement
  <1>6. e.next_tx_num = d.next_tx_num /\ e.checkpoint = d.checkpoint
    BY <1>1 DEF Removes
  <1>7. /\ TablesOK(d) /\ ListsAgree(d) /\ HistoryAgrees(d) /\ CountersCover(d)
        /\ IsFiniteSet(DOMAIN d.tx)
    BY DEF Sound
  <1>8. /\ DOMAIN e.applied = DOMAIN d.applied \ {h}
        /\ DOMAIN e.acc = DOMAIN d.acc \ {h}
        /\ \A x \in DOMAIN e.applied : e.applied[x] = d.applied[x]
        /\ \A x \in DOMAIN e.acc : e.acc[x] = d.acc[x]
    BY <1>3 DEF Without
  <1>9. e.total_txs \in Nat /\ e.total_txs >= Cardinality(DOMAIN e.tx)
    <2>1. d.total_txs \in Nat /\ d.total_txs >= Cardinality(DOMAIN d.tx)
      BY <1>7 DEF TablesOK, CountersCover
    <2>2. /\ SaturatingSub(d.total_txs, Cardinality(S)) \in Nat
          /\ SaturatingSub(d.total_txs, Cardinality(S)) >= Cardinality(DOMAIN d.tx \ S)
      BY <2>1, <1>4, <1>7, SaturatingCover
    <2> QED BY <2>2, <1>2, <1>5
  <1>10. ASSUME NEW a \in Address
         PROVE  /\ e.totals[a].cnt \in Nat
                /\ e.totals[a].cnt >= Cardinality(DOMAIN e.hist[a])
    <2>1. DOMAIN d.hist[a] = Touching(d, DOMAIN d.tx, a) BY <1>7 DEF HistoryAgrees
    <2>2. DOMAIN d.hist[a] \subseteq DOMAIN d.tx BY <2>1 DEF Touching
    <2>3. IsFiniteSet(DOMAIN d.hist[a]) BY <2>2, <1>7, FS_Subset
    <2>4. Touching(d, S, a) \subseteq DOMAIN d.hist[a] BY <2>1, <1>4 DEF Touching
    <2>5. d.totals[a].cnt \in Nat /\ d.totals[a].cnt >= Cardinality(DOMAIN d.hist[a])
      BY <1>7 DEF TablesOK, CountersCover
    <2>6. LET k == SaturatingSub(d.totals[a].cnt, Cardinality(Touching(d, S, a)))
          IN k \in Nat /\ k >= Cardinality(DOMAIN d.hist[a] \ Touching(d, S, a))
      BY <2>3, <2>4, <2>5, SaturatingCover
    <2> QED BY <2>6, <1>2, <1>5
  <1>11. TablesOK(e)
    BY <1>2, <1>5, <1>6, <1>7, <1>8, <1>9, <1>10 DEF TablesOK
  <1>12. e.chain = {<<e.applied[x], x>> : x \in DOMAIN e.applied}
    <2>1. d.chain = {<<d.applied[x], x>> : x \in DOMAIN d.applied}
      BY <1>7 DEF ListsAgree
    <2> QED BY <2>1, <1>3, <1>8
  <1>13. ListsAgree(e)
    BY <1>5, <1>6, <1>7, <1>8, <1>12 DEF ListsAgree
  <1>14. CountersCover(e) BY <1>9, <1>10 DEF CountersCover
  <1> QED BY <1>5, <1>11, <1>13, <1>14 DEF Sound, e

\* Expiry keeps all the table invariants.
LEMMA ExpireSound ==
  ASSUME NEW d, NEW cutoff \in Nat, Sound(d)
  PROVE  Sound(expire_below(d, cutoff)) /\ KeepsNumbers(d, expire_below(d, cutoff))
  <1> DEFINE S == ExpiredTxs(d, cutoff)
             B == {x[2] : x \in ExpiredBlocks(d, cutoff)}
             e == expire_below(d, cutoff)
  <1>1. Removes(d, e, S) BY DEF Removes, expire_below
  <1>2. e.totals = d.totals /\ e.total_txs = d.total_txs BY DEF expire_below
  <1>3. /\ e.applied = Without(d.applied, B)
        /\ e.acc = Without(d.acc, B)
        /\ e.chain = d.chain \ ExpiredBlocks(d, cutoff)
    BY DEF expire_below
  <1>4. S \subseteq DOMAIN d.tx BY DEF ExpiredTxs
  <1>5. /\ TablesOK(d) /\ ListsAgree(d) /\ HistoryAgrees(d) /\ CountersCover(d)
        /\ IsFiniteSet(DOMAIN d.tx)
    BY DEF Sound
  <1>6. d.chain = {<<d.applied[h], h>> : h \in DOMAIN d.applied}
    BY <1>5 DEF ListsAgree
  <1>7. B = {h \in DOMAIN d.applied : d.applied[h] < cutoff}
    <2>1. ASSUME NEW h \in B PROVE h \in DOMAIN d.applied /\ d.applied[h] < cutoff
      <3>1. PICK x \in d.chain : x[1] < cutoff /\ h = x[2]
        BY DEF ExpiredBlocks
      <3>2. PICK y \in DOMAIN d.applied : x = <<d.applied[y], y>> BY <1>6
      <3> QED BY <3>1, <3>2
    <2>2. ASSUME NEW h \in DOMAIN d.applied, d.applied[h] < cutoff PROVE h \in B
      <3>1. <<d.applied[h], h>> \in ExpiredBlocks(d, cutoff)
        BY <2>2, <1>6 DEF ExpiredBlocks
      <3>2. <<d.applied[h], h>>[2] = h OBVIOUS
      <3> QED BY <3>1, <3>2
    <2> QED BY <2>1, <2>2
  <1>8. ExpiredBlocks(d, cutoff) =
          {<<d.applied[h], h>> : h \in {x \in DOMAIN d.applied : d.applied[x] < cutoff}}
    BY <1>6 DEF ExpiredBlocks
  <1> HIDE DEF e, S, B
  <1>9. /\ DOMAIN e.tx = DOMAIN d.tx \ S
        /\ \A n \in DOMAIN e.tx : e.tx[n] = d.tx[n]
        /\ DOMAIN e.hist = Address
        /\ \A a \in Address :
             DOMAIN e.hist[a] = DOMAIN d.hist[a] \ Touching(d, S, a)
        /\ DOMAIN e.tx_by_id \subseteq TxId
        /\ DOMAIN e.spend \subseteq Outpoint
        /\ IndexesAgree(e) /\ HistoryAgrees(e) /\ KeepsNumbers(d, e)
        /\ IsFiniteSet(DOMAIN e.tx)
    BY <1>1, <1>4, RemovalKeepsAgreement
  <1>10. e.next_tx_num = d.next_tx_num /\ e.checkpoint = d.checkpoint
    BY <1>1 DEF Removes
  <1>11. /\ DOMAIN e.applied = DOMAIN d.applied \ B
         /\ DOMAIN e.acc = DOMAIN d.acc \ B
         /\ \A x \in DOMAIN e.applied : e.applied[x] = d.applied[x]
         /\ \A x \in DOMAIN e.acc : e.acc[x] = d.acc[x]
    BY <1>3 DEF Without
  <1>12. TablesOK(e)
    BY <1>2, <1>5, <1>9, <1>10, <1>11 DEF TablesOK
  <1>13. e.chain = {<<e.applied[x], x>> : x \in DOMAIN e.applied}
    <2>1. ASSUME NEW x \in e.chain
          PROVE  \E h \in DOMAIN e.applied : x = <<e.applied[h], h>>
      <3>1. PICK h \in DOMAIN d.applied : x = <<d.applied[h], h>> BY <1>3, <1>6
      <3>2. h \notin B BY <3>1, <1>3, <1>7, <1>8
      <3> QED BY <3>1, <3>2, <1>11
    <2>2. ASSUME NEW h \in DOMAIN e.applied
          PROVE  <<e.applied[h], h>> \in e.chain
      <3>1. h \in DOMAIN d.applied /\ h \notin B /\ e.applied[h] = d.applied[h]
        BY <1>11
      <3>2. <<d.applied[h], h>> \in d.chain BY <3>1, <1>6
      <3>3. <<d.applied[h], h>> \notin ExpiredBlocks(d, cutoff)
        BY <3>1, <1>7, <1>8
      <3> QED BY <3>1, <3>2, <3>3, <1>3
    <2> QED BY <2>1, <2>2
  <1>14. ListsAgree(e)
    BY <1>5, <1>9, <1>10, <1>11, <1>13 DEF ListsAgree
  <1>15. e.total_txs >= Cardinality(DOMAIN e.tx)
    BY <1>2, <1>4, <1>5, <1>9, SaturatingCover DEF TablesOK, CountersCover
  <1>16. ASSUME NEW a \in Address
         PROVE  e.totals[a].cnt >= Cardinality(DOMAIN e.hist[a])
    <2>1. DOMAIN d.hist[a] = Touching(d, DOMAIN d.tx, a) BY <1>5 DEF HistoryAgrees
    <2>2. DOMAIN d.hist[a] \subseteq DOMAIN d.tx BY <2>1 DEF Touching
    <2>3. IsFiniteSet(DOMAIN d.hist[a]) BY <2>2, <1>5, FS_Subset
    <2>4. Touching(d, S, a) \subseteq DOMAIN d.hist[a] BY <2>1, <1>4 DEF Touching
    <2>5. d.totals[a].cnt \in Nat /\ d.totals[a].cnt >= Cardinality(DOMAIN d.hist[a])
      BY <1>5 DEF TablesOK, CountersCover
    <2> QED BY <2>3, <2>4, <2>5, <1>2, <1>9, SaturatingCover
  <1>17. CountersCover(e) BY <1>15, <1>16 DEF CountersCover
  <1> QED BY <1>9, <1>12, <1>14, <1>17 DEF Sound, e

----------------------------------------------------------------------------
(* The steps *)

\* KeepsNumbers composes, from a database whose rows are below next_tx_num.
LEMMA KeepsNumbersTrans ==
  ASSUME NEW c, NEW d, NEW e, Sound(c), Sound(d), Sound(e),
         KeepsNumbers(c, d), KeepsNumbers(d, e)
  PROVE  KeepsNumbers(c, e)
  <1>1. /\ c.next_tx_num \in Nat /\ d.next_tx_num \in Nat /\ e.next_tx_num \in Nat
        /\ \A n \in DOMAIN c.tx : n \in Nat /\ n < c.next_tx_num
        /\ \A n \in DOMAIN e.tx : n \in Nat
    BY DEF Sound, TablesOK, ListsAgree
  <1> QED BY <1>1 DEF KeepsNumbers

\* The group an open transaction is in, and its next transaction.
LEMMA GroupType ==
  ASSUME TypeOK, InGroup
  PROVE  /\ Group \in AcceptedGroup
         /\ wtx.pos <= Len(Group.txs) => Group.txs[wtx.pos] \in TxId
  <1>1. /\ wtx.groups \in Seq(AcceptedGroup)
        /\ wtx.at \in 1 .. Len(wtx.groups) + 1 /\ wtx.at <= Len(wtx.groups)
        /\ wtx.pos \in Nat \ {0}
    BY DEF TypeOK, TxnOK, InGroup
  <1>2. Group \in AcceptedGroup BY <1>1 DEF Group
  <1>3. Group.txs \in Seq(TxId) BY <1>2 DEF AcceptedGroup
  <1>4. wtx.pos <= Len(Group.txs) => Group.txs[wtx.pos] \in TxId
    BY <1>1, <1>3
  <1> QED BY <1>2, <1>4

\* The empty database is sound.
LEMMA EmptySound == Sound(EmptyDb)
  <1> DEFINE d == EmptyDb
  <1>1. /\ d.tx = Empty /\ d.tx_by_id = Empty /\ d.spend = Empty
        /\ d.applied = Empty /\ d.acc = Empty /\ d.chain = {}
        /\ d.next_tx_num = 0 /\ d.total_txs = 0 /\ d.checkpoint = Nil
        /\ d.hist = [a \in Address |-> Empty]
        /\ d.totals = [a \in Address |-> [recv |-> 0, cnt |-> 0]]
    BY DEF EmptyDb
  <1> HIDE DEF d
  <1>2. DOMAIN Empty = {} BY DEF Empty
  <1>3. TablesOK(d) BY <1>1, <1>2 DEF TablesOK
  <1>4. IndexesAgree(d) BY <1>1, <1>2 DEF IndexesAgree
  <1>5. HistoryAgrees(d) BY <1>1, <1>2 DEF HistoryAgrees, Touching
  <1>6. ListsAgree(d) BY <1>1, <1>2 DEF ListsAgree
  <1>7. IsFiniteSet(DOMAIN d.tx) /\ CountersCover(d)
    BY <1>1, <1>2, FS_EmptySet DEF CountersCover
  <1> QED BY <1>3, <1>4, <1>5, <1>6, <1>7 DEF Sound, d

\* The store opens with the invariant.
LEMMA InitStoreInv ==
  ASSUME StoreInit
  PROVE  StoreInv
  BY EmptySound DEF StoreInit, StoreInv, TypeOK, TxnOK, Sound

\* Opening the write transaction of apply keeps the invariant.
LEMMA BeginApplyInv ==
  ASSUME StoreInv, NEW groups \in Seq(AcceptedGroup), BeginApply(groups)
  PROVE  StoreInv'
  <1>1. /\ db' = db /\ wtx'.work = db /\ wtx'.groups = groups
        /\ wtx'.at = 1 /\ wtx'.pos = 1 /\ wtx'.nums = {} /\ wtx'.newest = 0
    BY DEF BeginApply, Txn
  <1>2. Sound(db) /\ TablesOK(db) BY DEF StoreInv, TypeOK
  <1>3. TypeOK' BY <1>1, <1>2 DEF TypeOK, TxnOK
  <1>4. KeepsNumbers(db, db)
    BY <1>2 DEF KeepsNumbers, TablesOK
  <1> QED BY <1>1, <1>2, <1>3, <1>4 DEF StoreInv, NumsAgree

\* Skipping an applied block keeps the invariant.
LEMMA SkipGroupInv ==
  ASSUME StoreInv, SkipGroup
  PROVE  StoreInv'
  <1>1. /\ db' = db /\ wtx'.work = wtx.work /\ wtx'.groups = wtx.groups
        /\ wtx'.at = wtx.at + 1 /\ wtx'.pos = 1 /\ wtx'.nums = {}
        /\ wtx'.newest = wtx.newest
    BY DEF SkipGroup, Txn
  <1>2. wtx # Nil /\ wtx.at <= Len(wtx.groups) BY DEF SkipGroup, InGroup
  <1>3. TypeOK' BY <1>1, <1>2 DEF StoreInv, TypeOK, TxnOK
  <1> QED BY <1>1, <1>2, <1>3 DEF StoreInv, NumsAgree

\* Indexing a transaction in the working copy keeps the invariant.
LEMMA IndexNextTxInv ==
  ASSUME StoreInv, IndexNextTx
  PROVE  StoreInv'
  <1> DEFINE t == Group.txs[wtx.pos]
             e == IndexTx(wtx.work, Group, t)
             n == wtx.work.next_tx_num
  <1>1. /\ db' = db /\ wtx'.work = e /\ wtx'.groups = wtx.groups
        /\ wtx'.at = wtx.at /\ wtx'.pos = wtx.pos + 1
        /\ wtx'.nums = wtx.nums \cup {n} /\ wtx'.newest = wtx.newest
    BY DEF IndexNextTx, Txn, NextNum
  <1>2. wtx # Nil /\ wtx.at <= Len(wtx.groups) BY DEF IndexNextTx, InGroup
  <1>3. /\ TypeOK /\ Sound(db) /\ Sound(wtx.work) /\ NumsAgree
        /\ KeepsNumbers(db, wtx.work)
    BY <1>2 DEF StoreInv
  <1>4. Group \in AcceptedGroup /\ t \in TxId
    BY <1>3, GroupType DEF IndexNextTx
  <1>5. Sound(e) /\ TablesOK(e) BY <1>3, <1>4, IndexTxSound DEF Sound
  <1>6. TablesOK(wtx.work) /\ ListsAgree(wtx.work) BY <1>3 DEF Sound
  <1>7. /\ n \in Nat /\ n \notin DOMAIN wtx.work.tx
        /\ DOMAIN e.tx = DOMAIN wtx.work.tx \cup {n}
        /\ e.tx[n].block = Group.hash
        /\ e.tx[n].daa = Group.daa
        /\ \A m \in DOMAIN wtx.work.tx : e.tx[m] = wtx.work.tx[m]
        /\ e.next_tx_num = n + 1
    <2> HIDE DEF t
    <2> QED BY ONLY <1>6, IndexTxRows
  <1>8. KeepsNumbers(wtx.work, e) BY <1>6, IndexTxKeepsNumbers
  <1> HIDE DEF e, n, t
  <1>9. KeepsNumbers(db, e) BY <1>3, <1>5, <1>8, KeepsNumbersTrans
  <1>10. Group' = Group BY <1>1 DEF Group
  <1>11. wtx.nums \subseteq Nat BY <1>2, <1>3 DEF TypeOK, TxnOK
  <1>12. NumsAgree'
    <2> SUFFICES ASSUME NEW m \in wtx.nums \cup {n}
                 PROVE  /\ m < e.next_tx_num
                        /\ m \in DOMAIN e.tx => /\ e.tx[m].block = Group.hash
                                                /\ e.tx[m].daa = Group.daa
      BY <1>1, <1>2, <1>10 DEF NumsAgree
    <2>1. CASE m = n BY <2>1, <1>7
    <2>2. CASE m # n BY <2>2, <1>3, <1>7, <1>11 DEF NumsAgree, n
    <2> QED BY <2>1, <2>2
  <1>13. TypeOK' BY <1>1, <1>2, <1>3, <1>5, <1>7, <1>11 DEF TypeOK, TxnOK
  <1> QED BY <1>1, <1>3, <1>5, <1>9, <1>12, <1>13 DEF StoreInv

\* Recording a block in the working copy keeps the invariant.
LEMMA FinishGroupInv ==
  ASSUME StoreInv, FinishGroup
  PROVE  StoreInv'
  <1> DEFINE e == RecordBlock(wtx.work, Group, wtx.nums)
  <1>1. /\ db' = db /\ wtx'.work = e /\ wtx'.groups = wtx.groups
        /\ wtx'.at = wtx.at + 1 /\ wtx'.pos = 1 /\ wtx'.nums = {}
        /\ wtx'.newest = Group.daa
    BY DEF FinishGroup, Txn
  <1>2. /\ wtx # Nil /\ wtx.at <= Len(wtx.groups) /\ InGroup
        /\ Group.hash \notin DOMAIN wtx.work.applied
    BY DEF FinishGroup, InGroup
  <1>3. /\ TypeOK /\ Sound(db) /\ Sound(wtx.work) /\ NumsAgree
        /\ KeepsNumbers(db, wtx.work)
    BY <1>2 DEF StoreInv
  <1>4. Group \in AcceptedGroup BY <1>2, <1>3, GroupType
  <1>5. Group.daa \in Nat BY <1>4 DEF AcceptedGroup
  <1>6. wtx.nums \in SUBSET Nat BY <1>2, <1>3 DEF TypeOK, TxnOK
  <1>7. \A n \in wtx.nums : /\ n < wtx.work.next_tx_num
                            /\ n \in DOMAIN wtx.work.tx =>
                                 /\ wtx.work.tx[n].block = Group.hash
                                 /\ wtx.work.tx[n].daa = Group.daa
    BY <1>3 DEF NumsAgree
  <1>8. Sound(e) /\ KeepsNumbers(wtx.work, e)
    BY <1>2, <1>3, <1>4, <1>6, <1>7, RecordBlockSound
  <1> HIDE DEF e
  <1>9. KeepsNumbers(db, e) BY <1>3, <1>8, KeepsNumbersTrans
  <1>10. TablesOK(e) BY <1>8 DEF Sound
  <1>11. TypeOK' BY <1>1, <1>2, <1>3, <1>5, <1>10 DEF TypeOK, TxnOK
  <1> QED BY <1>1, <1>3, <1>8, <1>9, <1>11 DEF StoreInv, NumsAgree

\* Committing keeps the invariant, and every row its number.
LEMMA CommitApplyInv ==
  ASSUME StoreInv, CommitApply
  PROVE  StoreInv' /\ KeepsNumbers(db, db')
  BY DEF StoreInv, CommitApply, TypeOK, TxnOK

\* A dropped write transaction leaves the database as it was.
LEMMA AbortApplyInv ==
  ASSUME StoreInv, AbortApply
  PROVE  StoreInv'
  BY DEF StoreInv, AbortApply, TypeOK, TxnOK

\* unwind_chain_block keeps the invariant, and every row its number.
LEMMA UnwindInv ==
  ASSUME StoreInv, NEW h, Unwind(h)
  PROVE  StoreInv' /\ KeepsNumbers(db, db')
  <1>1. wtx = Nil /\ wtx' = Nil /\ Sound(db) BY DEF StoreInv, Unwind
  <1>2. KeepsNumbers(db, db) BY <1>1 DEF KeepsNumbers, Sound, TablesOK
  <1>3. Sound(db') /\ KeepsNumbers(db, db')
    <2>1. CASE h \in DOMAIN db.acc BY <2>1, <1>1, UnwindSound DEF Unwind
    <2>2. CASE h \notin DOMAIN db.acc
      <3>1. db' = db BY <2>2 DEF Unwind
      <3> QED BY <3>1, <1>1, <1>2
    <2> QED BY <2>1, <2>2
  <1> QED BY <1>1, <1>3 DEF StoreInv, TypeOK, TxnOK, Sound

\* expire_below keeps the invariant, and every row its number.
LEMMA ExpireInv ==
  ASSUME StoreInv, NEW cutoff \in Nat, Expire(cutoff)
  PROVE  StoreInv' /\ KeepsNumbers(db, db')
  <1>1. /\ wtx = Nil /\ wtx' = Nil /\ Sound(db)
        /\ db' = expire_below(db, cutoff)
    BY DEF StoreInv, Expire
  <1>2. Sound(db') /\ KeepsNumbers(db, db') BY <1>1, ExpireSound
  <1> QED BY <1>1, <1>2 DEF StoreInv, TypeOK, TxnOK, Sound

\* Every step keeps the invariant, and every row its number.
LEMMA NextStoreInv ==
  ASSUME StoreInv, [StoreNext]_storeVars
  PROVE  StoreInv' /\ [KeepsNumbers(db, db')]_db
  <1>1. CASE \E groups \in Seq(AcceptedGroup) : BeginApply(groups)
    BY <1>1, BeginApplyInv DEF BeginApply
  <1>2. CASE SkipGroup BY <1>2, SkipGroupInv DEF SkipGroup
  <1>3. CASE IndexNextTx BY <1>3, IndexNextTxInv DEF IndexNextTx
  <1>4. CASE FinishGroup BY <1>4, FinishGroupInv DEF FinishGroup
  <1>5. CASE CommitApply BY <1>5, CommitApplyInv
  <1>6. CASE AbortApply BY <1>6, AbortApplyInv DEF AbortApply
  <1>7. CASE \E h \in Hash : Unwind(h) BY <1>7, UnwindInv
  <1>8. CASE \E cutoff \in Nat : Expire(cutoff) BY <1>8, ExpireInv
  <1>9. CASE UNCHANGED storeVars
    BY <1>9 DEF StoreInv, storeVars, TypeOK, TxnOK, NumsAgree, Group
  <1> QED BY <1>1, <1>2, <1>3, <1>4, <1>5, <1>6, <1>7, <1>8, <1>9 DEF StoreNext

----------------------------------------------------------------------------
(* The theorems *)

\* The inductive invariant holds in every reachable state of the store.
THEOREM StoreInvariance == StoreSpec => []StoreInv
  <1>1. StoreInit => StoreInv BY InitStoreInv
  <1>2. StoreInv /\ [StoreNext]_storeVars => StoreInv' BY NextStoreInv
  <1> QED BY <1>1, <1>2, PTL DEF StoreSpec

\* Whatever is applied, unwound and expired, and wherever apply is cut short,
\* the tables and the open transaction keep their types.
THEOREM TypeCorrect == StoreSpec => []TypeOK
  <1>1. StoreInv => TypeOK BY DEF StoreInv
  <1> QED BY <1>1, StoreInvariance, PTL

\* No entry of tx_by_id or outpoint_spend ever points at a missing or a wrong
\* transaction.
THEOREM IndexSafety == StoreSpec => []NoDanglingIndex
  <1>1. StoreInv => NoDanglingIndex BY DEF StoreInv, Sound, NoDanglingIndex
  <1> QED BY <1>1, StoreInvariance, PTL

\* The history of every address is exactly what the stored ledgers say.
THEOREM HistorySafety == StoreSpec => []HistoryMatchesLedger
  <1>1. StoreInv => HistoryMatchesLedger
    BY DEF StoreInv, Sound, HistoryMatchesLedger
  <1> QED BY <1>1, StoreInvariance, PTL

\* The counters cover the stored rows: no saturating_sub hides an underflow.
THEOREM CounterSafety == StoreSpec => []CountersCoverRows
  <1>1. StoreInv => CountersCoverRows BY DEF StoreInv, Sound, CountersCoverRows
  <1> QED BY <1>1, StoreInvariance, PTL

\* The three chain-block tables agree, and a reorg list names only rows that
\* its block accepted.
THEOREM ReorgListSafety == StoreSpec => []ReorgListsAgree
  <1>1. StoreInv => ReorgListsAgree BY DEF StoreInv, Sound, ReorgListsAgree
  <1> QED BY <1>1, StoreInvariance, PTL

\* No tx_num is ever given to a second transaction.
THEOREM NumbersNeverReused == StoreSpec => TxNumsNeverReused
  <1>1. StoreInv /\ [StoreNext]_storeVars => [KeepsNumbers(db, db')]_db
    BY NextStoreInv
  <1> QED BY <1>1, StoreInvariance, PTL DEF StoreSpec, TxNumsNeverReused

=============================================================================
