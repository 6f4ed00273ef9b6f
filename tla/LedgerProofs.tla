---------------------------- MODULE LedgerProofs ----------------------------
(***************************************************************************)
(* Store implements Ledger, for every set of blocks and transactions and   *)
(* every order of calls.                                                   *)
(*                                                                         *)
(* The steps of apply before its commit do not show in the committed       *)
(* tables, so the commit must account for all of them at once.  WorkAhead  *)
(* says what the working copy has gained over the database so far.         *)
(***************************************************************************)
EXTENDS StoreRefinement, StoreProofs

NewRows(d, e) == DOMAIN e.tx \ DOMAIN d.tx

NewBlocks(d, e) == DOMAIN e.applied \ DOMAIN d.applied

\* The rows of e are those of d, those of the blocks recorded since, and nums,
\* the rows of the group that is not recorded yet.
Gained(d, e, nums) ==
  /\ DOMAIN d.tx \subseteq DOMAIN e.tx
  /\ Abstract!Extends(d.applied, e.applied)
  /\ Abstract!Extends(d.acc, e.acc)
  /\ NewRows(d, e) = (UNION {e.acc[h] : h \in NewBlocks(d, e)}) \cup nums
  /\ e.total_txs = d.total_txs + Cardinality(NewRows(d, e))
  /\ IF NewBlocks(d, e) = {} THEN e.checkpoint = d.checkpoint
     ELSE \E h \in NewBlocks(d, e) :
            e.checkpoint = [hash |-> h, daa |-> e.applied[h]]

WorkAhead ==
  wtx # Nil => /\ Gained(db, wtx.work, wtx.nums)
               /\ wtx.nums # {} => Group.hash \notin DOMAIN wtx.work.applied

\* The two modules count alike.
LEMMA SameCardinality == \A S : Abstract!Cardinality(S) = Cardinality(S)
  BY DEF Abstract!Cardinality, Cardinality

----------------------------------------------------------------------------
(* The steps of apply *)

\* A write transaction starts with nothing gained.
LEMMA BeginAhead ==
  ASSUME StoreInv, NEW groups, BeginApply(groups)
  PROVE  WorkAhead'
  <1>1. db' = db /\ wtx'.work = db /\ wtx'.nums = {} BY DEF BeginApply, Txn
  <1>2. NewRows(db, db) = {} /\ NewBlocks(db, db) = {} BY DEF NewRows, NewBlocks
  <1>3. db.total_txs \in Nat BY DEF StoreInv, TypeOK, TablesOK
  <1>4. Abstract!Extends(db.applied, db.applied) /\ Abstract!Extends(db.acc, db.acc)
    BY DEF Abstract!Extends
  <1>5. db.total_txs = db.total_txs + Cardinality(NewRows(db, db))
    BY <1>2, <1>3, FS_EmptySet
  <1>6. Gained(db, db, {}) BY <1>2, <1>4, <1>5 DEF Gained
  <1> QED BY <1>1, <1>6 DEF WorkAhead

\* Skipping an applied block gains nothing.
LEMMA SkipAhead ==
  ASSUME StoreInv, WorkAhead, SkipGroup
  PROVE  WorkAhead'
  <1>1. /\ db' = db /\ wtx'.work = wtx.work /\ wtx'.nums = {} /\ wtx # Nil
        /\ Group.hash \in DOMAIN wtx.work.applied
    BY DEF SkipGroup, Txn, InGroup
  <1>2. wtx.nums = {} BY <1>1 DEF WorkAhead
  <1> QED BY <1>1, <1>2 DEF WorkAhead

\* An indexed transaction is a gained row of the group in hand.
LEMMA IndexAhead ==
  ASSUME StoreInv, WorkAhead, IndexNextTx
  PROVE  WorkAhead'
  <1> DEFINE d == wtx.work
             t == Group.txs[wtx.pos]
             e == IndexTx(d, Group, t)
             n == d.next_tx_num
  <1>1. /\ db' = db /\ wtx'.work = e /\ wtx'.nums = wtx.nums \cup {n}
        /\ wtx'.groups = wtx.groups /\ wtx'.at = wtx.at
        /\ wtx # Nil /\ Group.hash \notin DOMAIN d.applied
    BY DEF IndexNextTx, Txn, NextNum, InGroup
  <1>2. TablesOK(d) /\ ListsAgree(d) /\ IsFiniteSet(DOMAIN d.tx)
    BY <1>1 DEF StoreInv, Sound
  <1>3. /\ n \in Nat /\ n \notin DOMAIN d.tx /\ DOMAIN e.tx = DOMAIN d.tx \cup {n}
    <2>1. ASSUME NEW g, NEW x PROVE DOMAIN IndexTx(d, g, x).tx = DOMAIN d.tx \cup {n}
      BY <1>2, IndexTxRows
    <2> QED BY <1>2, <2>1 DEF TablesOK, ListsAgree
  <1>4. /\ e.applied = d.applied /\ e.acc = d.acc /\ e.checkpoint = d.checkpoint
        /\ e.total_txs = d.total_txs + 1
    BY DEF IndexTx, CountTx
  <1>5. Group' = Group BY <1>1 DEF Group
  <1>6. Gained(db, d, wtx.nums) BY <1>1 DEF WorkAhead
  <1>7. db.total_txs \in Nat BY DEF StoreInv, TypeOK, TablesOK
  <1> HIDE DEF d, e, n, t
  <1>8. NewRows(db, e) = NewRows(db, d) \cup {n} /\ n \notin NewRows(db, d)
    BY <1>3, <1>6 DEF NewRows, Gained
  <1>9. IsFiniteSet(NewRows(db, d)) BY <1>2, FS_Subset DEF NewRows
  <1>10. /\ Cardinality(NewRows(db, e)) = Cardinality(NewRows(db, d)) + 1
         /\ Cardinality(NewRows(db, d)) \in Nat
    BY <1>8, <1>9, FS_AddElement, FS_CardinalityType
  <1>11. e.total_txs = db.total_txs + Cardinality(NewRows(db, e))
    BY <1>4, <1>6, <1>7, <1>10 DEF Gained
  <1>12. NewBlocks(db, e) = NewBlocks(db, d) BY <1>4 DEF NewBlocks
  <1>13. Gained(db, e, wtx.nums \cup {n})
    BY <1>3, <1>4, <1>6, <1>8, <1>11, <1>12 DEF Gained
  <1> QED BY <1>1, <1>4, <1>5, <1>13 DEF WorkAhead, d

\* Recording a block makes the rows of the group in hand rows of that block.
LEMMA FinishAhead ==
  ASSUME StoreInv, WorkAhead, FinishGroup
  PROVE  WorkAhead'
  <1> DEFINE d == wtx.work
             h == Group.hash
             nums == wtx.nums
             e == RecordBlock(d, Group, nums)
  <1>1. /\ db' = db /\ wtx'.work = e /\ wtx'.nums = {}
        /\ wtx # Nil /\ h \notin DOMAIN d.applied
    BY DEF FinishGroup, Txn, InGroup
  <1>2. Gained(db, d, nums) BY <1>1 DEF WorkAhead
  <1>3. DOMAIN d.acc = DOMAIN d.applied /\ DOMAIN db.acc = DOMAIN db.applied
    BY <1>1 DEF StoreInv, Sound, ListsAgree
  <1>4. /\ e.tx = d.tx /\ e.total_txs = d.total_txs
        /\ e.applied = Put(d.applied, h, Group.daa) /\ e.acc = Put(d.acc, h, nums)
        /\ e.checkpoint = [hash |-> h, daa |-> Group.daa]
    BY DEF RecordBlock
  <1> HIDE DEF d, e, h, nums
  <1>5. /\ DOMAIN e.applied = DOMAIN d.applied \cup {h}
        /\ DOMAIN e.acc = DOMAIN d.acc \cup {h}
        /\ e.applied[h] = Group.daa /\ e.acc[h] = nums
        /\ \A x \in DOMAIN d.applied : e.applied[x] = d.applied[x]
        /\ \A x \in DOMAIN d.acc : e.acc[x] = d.acc[x]
    <2> DEFINE daa == Group.daa
    <2> HIDE DEF daa
    <2>1. e.applied = Put(d.applied, h, daa) BY <1>4 DEF daa
    <2>2. /\ DOMAIN e.applied = DOMAIN d.applied \cup {h} /\ e.applied[h] = daa
          /\ \A x \in DOMAIN d.applied : x # h => e.applied[x] = d.applied[x]
      BY <2>1 DEF Put
    <2>3. /\ DOMAIN e.acc = DOMAIN d.acc \cup {h} /\ e.acc[h] = nums
          /\ \A x \in DOMAIN d.acc : x # h => e.acc[x] = d.acc[x]
      BY <1>4 DEF Put
    <2> QED BY <1>1, <1>3, <2>2, <2>3 DEF daa
  <1>6. h \notin DOMAIN db.applied BY <1>1, <1>2 DEF Gained, Abstract!Extends
  <1>7. NewBlocks(db, e) = NewBlocks(db, d) \cup {h} BY <1>5, <1>6 DEF NewBlocks
  <1>8. /\ Abstract!Extends(db.applied, e.applied) /\ Abstract!Extends(db.acc, e.acc)
    BY <1>1, <1>2, <1>3, <1>5 DEF Gained, Abstract!Extends
  <1>9. \A x \in NewBlocks(db, d) : x \in DOMAIN d.acc BY <1>3 DEF NewBlocks
  <1>10. UNION {e.acc[x] : x \in NewBlocks(db, e)} =
           (UNION {d.acc[x] : x \in NewBlocks(db, d)}) \cup nums
    BY <1>5, <1>7, <1>9
  <1>11. NewRows(db, e) = NewRows(db, d) BY <1>4 DEF NewRows
  <1>12. \E x \in NewBlocks(db, e) : e.checkpoint = [hash |-> x, daa |-> e.applied[x]]
    BY <1>4, <1>5, <1>7
  <1>13. Gained(db, e, {})
    BY <1>2, <1>4, <1>8, <1>10, <1>11, <1>12 DEF Gained
  <1> QED BY <1>1, <1>13 DEF WorkAhead

----------------------------------------------------------------------------
(* The steps that change the committed tables *)

\* A commit is one step of the abstract index.
LEMMA CommitAccepts ==
  ASSUME StoreInv, WorkAhead, CommitApply
  PROVE  Abstract!Accept
  <1> DEFINE e == wtx.work
  <1>1. db' = e /\ wtx # Nil /\ wtx.at > Len(wtx.groups) BY DEF CommitApply
  <1>2. /\ Gained(db, e, wtx.nums) /\ NumsAgree /\ KeepsNumbers(db, e)
        /\ TablesOK(db) /\ TablesOK(e) /\ ListsAgree(db) /\ ListsAgree(e)
    BY <1>1 DEF WorkAhead, StoreInv, Sound
  <1>3. wtx.groups \in Seq(AcceptedGroup) /\ wtx.at \in Nat
    BY <1>1 DEF StoreInv, TypeOK, TxnOK
  <1>4. wtx.nums = {} BY <1>1, <1>2, <1>3 DEF NumsAgree
  <1> HIDE DEF e
  <1>5. Abstract!Extends(UnwindableBlocks, UnwindableBlocks')
    BY <1>1, <1>2 DEF UnwindableBlocks, Abstract!Extends, Gained, ListsAgree
  <1>6. Abstract!Extends(db.tx, e.tx)
    BY <1>2 DEF Gained, KeepsNumbers, Abstract!Extends
  <1>7. \A n \in NewRows(db, e) : \A m \in DOMAIN db.tx : n > m
    BY <1>2 DEF NewRows, KeepsNumbers, TablesOK, ListsAgree
  <1>8. DOMAIN UnwindableBlocks' \ DOMAIN UnwindableBlocks = NewBlocks(db, e)
    BY <1>1 DEF UnwindableBlocks, NewBlocks
  <1>9. \A h \in NewBlocks(db, e) : /\ UnwindableBlocks'[h].rows = e.acc[h]
                                    /\ UnwindableBlocks'[h].daa = e.applied[h]
    BY <1>1 DEF UnwindableBlocks, NewBlocks
  <1>10. NewRows(db, e) = UNION {UnwindableBlocks'[h].rows : h \in NewBlocks(db, e)}
    BY <1>2, <1>4, <1>9 DEF Gained
  <1>11. ASSUME NEW h \in NewBlocks(db, e), NEW n \in e.acc[h]
         PROVE  e.tx[n].block = h /\ e.tx[n].daa = e.applied[h]
    <2>1. n \in DOMAIN e.tx BY <1>2 DEF Gained, NewRows
    <2>2. h \in DOMAIN e.acc BY <1>2 DEF NewBlocks, ListsAgree
    <2> QED BY <2>1, <2>2, <1>2 DEF ListsAgree
  <1>12. IF NewBlocks(db, e) = {} THEN db'.checkpoint = db.checkpoint
         ELSE \E h \in NewBlocks(db, e) :
                db'.checkpoint = [hash |-> h, daa |-> UnwindableBlocks'[h].daa]
    BY <1>1, <1>2, <1>9 DEF Gained
  <1>13. db'.total_txs = db.total_txs + Cardinality(NewRows(db, e))
    BY <1>1, <1>2 DEF Gained
  <1>14. NewRows(db, e) = DOMAIN db'.tx \ DOMAIN db.tx BY <1>1 DEF NewRows
  <1>15. \A h \in NewBlocks(db, e) : \A n \in UnwindableBlocks'[h].rows :
           /\ db'.tx[n].block = h
           /\ db'.tx[n].daa = UnwindableBlocks'[h].daa
    BY <1>1, <1>9, <1>11
  <1>16. /\ Abstract!Extends(db.tx, db'.tx)
         /\ \A n \in NewRows(db, e) : \A m \in DOMAIN db.tx : n > m
    BY <1>1, <1>6, <1>7
  <1> QED BY <1>5, <1>8, <1>10, <1>12, <1>13, <1>14, <1>15, <1>16,
             SameCardinality
          DEF Abstract!Accept

\* An unwind takes back one block of the abstract index.
LEMMA UnwindRemoves ==
  ASSUME StoreInv, NEW h \in DOMAIN db.acc, Unwind(h)
  PROVE  h \in DOMAIN UnwindableBlocks /\ Abstract!Remove(h)
  <1> DEFINE gone == db.acc[h] \cap DOMAIN db.tx
  <1>1. db' = unwind_chain_block(db, h) BY DEF Unwind
  <1>2. Sound(db) BY DEF StoreInv
  <1>3. DOMAIN db.acc = DOMAIN db.applied BY <1>2 DEF Sound, ListsAgree
  <1>4. h \in DOMAIN UnwindableBlocks /\ UnwindableBlocks[h].rows = db.acc[h]
    BY <1>3 DEF UnwindableBlocks
  <1>5. /\ db'.tx = Without(db.tx, gone)
        /\ db'.applied = Without(db.applied, {h}) /\ db'.acc = Without(db.acc, {h})
        /\ db'.total_txs = SaturatingSub(db.total_txs, Cardinality(gone))
        /\ db'.checkpoint = db.checkpoint
    BY <1>1 DEF unwind_chain_block
  <1> HIDE DEF gone
  <1>6. db'.tx = [n \in DOMAIN db.tx \ gone |-> db.tx[n]] BY <1>5 DEF Without
  <1>7. UnwindableBlocks' =
          [x \in DOMAIN UnwindableBlocks \ {h} |-> UnwindableBlocks[x]]
    BY <1>3, <1>5 DEF UnwindableBlocks, Without
  <1>8. /\ IsFiniteSet(DOMAIN db.tx) /\ db.total_txs \in Nat
        /\ db.total_txs >= Cardinality(DOMAIN db.tx)
    BY <1>2 DEF Sound, CountersCover, TablesOK
  <1>9. /\ Cardinality(gone) \in Nat
        /\ Cardinality(gone) <= Cardinality(DOMAIN db.tx)
        /\ Cardinality(DOMAIN db.tx) \in Nat
    BY <1>8, FS_Subset, FS_CardinalityType DEF gone
  <1>10. db'.total_txs = db.total_txs - Cardinality(gone)
    BY <1>5, <1>8, <1>9 DEF SaturatingSub
  <1>11. gone = UnwindableBlocks[h].rows \cap DOMAIN db.tx BY <1>4 DEF gone
  <1> QED BY <1>4, <1>5, <1>6, <1>7, <1>10, <1>11, SameCardinality
      DEF Abstract!Remove

\* A sweep forgets the oldest rows and blocks of the abstract index.
LEMMA ExpireForgets ==
  ASSUME StoreInv, NEW cutoff \in Nat, Expire(cutoff)
  PROVE  Abstract!Forget
  <1> DEFINE S == ExpiredTxs(db, cutoff)
             B == {x[2] : x \in ExpiredBlocks(db, cutoff)}
  <1>1. db' = expire_below(db, cutoff) BY DEF Expire
  <1>2. /\ db'.tx = Without(db.tx, S)
        /\ db'.applied = Without(db.applied, B) /\ db'.acc = Without(db.acc, B)
        /\ db'.total_txs = db.total_txs /\ db'.checkpoint = db.checkpoint
    BY <1>1 DEF expire_below
  <1>3. TablesOK(db) /\ ListsAgree(db) BY DEF StoreInv, Sound
  <1>4. B = {h \in DOMAIN db.applied : db.applied[h] < cutoff}
    <2>1. db.chain = {<<db.applied[h], h>> : h \in DOMAIN db.applied}
      BY <1>3 DEF ListsAgree
    <2>2. ASSUME NEW h \in B PROVE h \in DOMAIN db.applied /\ db.applied[h] < cutoff
      <3>1. PICK x \in db.chain : x[1] < cutoff /\ h = x[2] BY DEF ExpiredBlocks
      <3>2. PICK y \in DOMAIN db.applied : x = <<db.applied[y], y>> BY <2>1
      <3> QED BY <3>1, <3>2
    <2>3. ASSUME NEW h \in DOMAIN db.applied, db.applied[h] < cutoff PROVE h \in B
      <3>1. <<db.applied[h], h>> \in ExpiredBlocks(db, cutoff)
        BY <2>1, <2>3 DEF ExpiredBlocks
      <3>2. <<db.applied[h], h>>[2] = h OBVIOUS
      <3> QED BY <3>1, <3>2
    <2> QED BY <2>2, <2>3
  <1>5. /\ S \subseteq DOMAIN db.tx
        /\ \A n \in S : db.tx[n].daa < cutoff
        /\ \A n \in S : \A m \in DOMAIN db.tx \ S : n < m
    <2>1. DOMAIN db.tx \subseteq Nat BY <1>3 DEF TablesOK
    <2>2. \A n \in S : n \in DOMAIN db.tx
                       /\ \A m \in DOMAIN db.tx : m <= n => db.tx[m].daa < cutoff
      BY DEF ExpiredTxs
    <2>3. ASSUME NEW n \in S, NEW m \in DOMAIN db.tx \ S PROVE n < m
      <3>1. SUFFICES ASSUME m <= n PROVE FALSE BY <2>1, <2>2
      <3>2. \A k \in DOMAIN db.tx : k <= m => db.tx[k].daa < cutoff
        BY <2>1, <2>2, <3>1
      <3> QED BY <3>2 DEF ExpiredTxs
    <2> QED BY <2>1, <2>2, <2>3
  <1> HIDE DEF S, B
  <1>6. /\ DOMAIN db'.tx = DOMAIN db.tx \ S
        /\ \A n \in DOMAIN db'.tx : db'.tx[n] = db.tx[n]
    BY <1>2 DEF Without
  <1>7. /\ DOMAIN UnwindableBlocks = DOMAIN db.applied
        /\ DOMAIN UnwindableBlocks' = DOMAIN db.applied \ B
        /\ \A h \in DOMAIN db.applied \ B : UnwindableBlocks'[h] = UnwindableBlocks[h]
        /\ \A h \in DOMAIN db.applied : /\ UnwindableBlocks[h].daa = db.applied[h]
                                        /\ UnwindableBlocks[h].rows = db.acc[h]
    BY <1>2, <1>3 DEF UnwindableBlocks, Without, ListsAgree
  <1>8. DOMAIN db.tx \ DOMAIN db'.tx = S BY <1>5, <1>6
  <1>9. DOMAIN UnwindableBlocks \ DOMAIN UnwindableBlocks' = B BY <1>4, <1>7
  <1>10. ASSUME NEW h \in DOMAIN db.applied \ B
         PROVE  /\ \A x \in B : db.applied[x] < db.applied[h]
                /\ \A n \in S : db.tx[n].daa < db.applied[h]
                /\ db.acc[h] \cap S = {}
    <2>1. db.applied[h] \in Nat /\ db.applied[h] >= cutoff
      BY <1>3, <1>4 DEF TablesOK
    <2>2. \A x \in B : db.applied[x] \in Nat /\ db.applied[x] < cutoff
      BY <1>3, <1>4 DEF TablesOK
    <2>3. \A n \in S : db.tx[n].daa \in Nat /\ db.tx[n].daa < cutoff
      BY <1>3, <1>5 DEF TablesOK
    <2>4. \A n \in db.acc[h] \cap DOMAIN db.tx : db.tx[n].daa = db.applied[h]
      BY <1>3 DEF ListsAgree
    <2> QED BY <2>1, <2>2, <2>3, <2>4, <1>5
  <1>11. Abstract!Extends(UnwindableBlocks', UnwindableBlocks)
    BY <1>7 DEF Abstract!Extends
  <1>12. Abstract!Extends(db'.tx, db.tx) BY <1>6 DEF Abstract!Extends
  <1> QED BY <1>2, <1>5, <1>6, <1>7, <1>8, <1>9, <1>10, <1>11, <1>12 DEF Abstract!Forget

----------------------------------------------------------------------------
(* The refinement *)

\* Every step keeps WorkAhead, and is a step of the abstract index or changes
\* nothing of it.
LEMMA StepImplements ==
  ASSUME StoreInv, WorkAhead, [StoreNext]_storeVars
  PROVE  WorkAhead' /\ [Abstract!Next]_(Abstract!ledgerVars)
  <1>1. db' = db => UNCHANGED Abstract!ledgerVars
    BY DEF Abstract!ledgerVars, UnwindableBlocks
  <1>2. wtx' = Nil => WorkAhead' BY DEF WorkAhead
  <1>3. CASE \E groups \in Seq(AcceptedGroup) : BeginApply(groups)
    BY <1>1, <1>3, BeginAhead DEF BeginApply
  <1>4. CASE SkipGroup BY <1>1, <1>4, SkipAhead DEF SkipGroup
  <1>5. CASE IndexNextTx BY <1>1, <1>5, IndexAhead DEF IndexNextTx
  <1>6. CASE FinishGroup BY <1>1, <1>6, FinishAhead DEF FinishGroup
  <1>7. CASE CommitApply
    BY <1>2, <1>7, CommitAccepts DEF CommitApply, Abstract!Next
  <1>8. CASE AbortApply BY <1>1, <1>2, <1>8 DEF AbortApply
  <1>9. ASSUME NEW h \in Hash, Unwind(h)
        PROVE  WorkAhead' /\ [Abstract!Next]_(Abstract!ledgerVars)
    <2>1. wtx' = Nil BY <1>9 DEF Unwind
    <2>2. CASE h \in DOMAIN db.acc
      BY <1>2, <1>9, <2>1, <2>2, UnwindRemoves DEF Abstract!Next
    <2>3. CASE h \notin DOMAIN db.acc
      <3>1. db' = db BY <1>9, <2>3 DEF Unwind
      <3> QED BY <1>1, <1>2, <2>1, <3>1
    <2> QED BY <2>2, <2>3
  <1>10. ASSUME NEW cutoff \in Nat, Expire(cutoff)
         PROVE  WorkAhead' /\ [Abstract!Next]_(Abstract!ledgerVars)
    <2>1. wtx' = Nil BY <1>10 DEF Expire
    <2> QED BY <1>2, <1>10, <2>1, ExpireForgets DEF Abstract!Next
  <1>11. CASE UNCHANGED storeVars
    BY <1>1, <1>11 DEF storeVars, WorkAhead, Group
  <1> QED
    BY <1>3, <1>4, <1>5, <1>6, <1>7, <1>8, <1>9, <1>10, <1>11 DEF StoreNext

\* The store opens as the empty abstract index.
LEMMA InitImplements ==
  ASSUME StoreInit
  PROVE  WorkAhead /\ Abstract!Init
  <1>1. /\ db.tx = Empty /\ db.applied = Empty /\ db.total_txs = 0
        /\ db.checkpoint = Nil /\ wtx = Nil
    BY DEF StoreInit, EmptyDb
  <1> QED BY <1>1 DEF WorkAhead, Abstract!Init, UnwindableBlocks, Empty

\* Seen through its committed tables, the store is the abstract index: a batch
\* of apply arrives whole or not at all, an unwind takes back one block with
\* the rows it has left, and a sweep forgets only the oldest rows and blocks
\* and leaves each block it keeps complete.
THEOREM StoreImplementsLedger == StoreSpec => ImplementsLedger
  <1>1. StoreInit => WorkAhead /\ Abstract!Init BY InitImplements
  <1>2. StoreInv /\ WorkAhead /\ [StoreNext]_storeVars
          => WorkAhead' /\ [Abstract!Next]_(Abstract!ledgerVars)
    BY StepImplements
  <1> QED
    BY <1>1, <1>2, StoreInvariance, PTL
    DEF StoreSpec, ImplementsLedger, Abstract!Spec

----------------------------------------------------------------------------
(* Exactly once                                                            *)
(*                                                                         *)
(* The commit must know what the loops have done with every group of the   *)
(* batch, so Progress follows the loops: each group behind them is         *)
(* applied, each block recorded since the transaction was opened has the   *)
(* rows of the first group that names it, and the group in hand has those  *)
(* of the transactions before the one the inner loop is at.                *)

\* Group i is the first of the batch that names h.
FirstOf(groups, h, i) ==
  /\ i \in DOMAIN groups /\ groups[i].hash = h
  /\ \A j \in DOMAIN groups : groups[j].hash = h => i <= j

\* The rows S of d are those of the first k of the transactions txs.
RowsOfFirst(d, S, txs, k) ==
  /\ IsFiniteSet(S) /\ Cardinality(S) = k
  /\ {d.tx[n].tx_id : n \in S} = {txs[j] : j \in 1 .. k}

Progress ==
  wtx # Nil =>
    /\ \A i \in 1 .. wtx.at - 1 : wtx.groups[i].hash \in DOMAIN wtx.work.applied
    /\ \A h \in NewBlocks(db, wtx.work) : \E i \in 1 .. wtx.at - 1 :
         /\ FirstOf(wtx.groups, h, i)
         /\ RowsOfFirst(wtx.work, wtx.work.acc[h], wtx.groups[i].txs,
                        Len(wtx.groups[i].txs))
    /\ InGroup /\ Group.hash \notin DOMAIN wtx.work.applied =>
         /\ wtx.pos <= Len(Group.txs) + 1
         /\ RowsOfFirst(wtx.work, wtx.nums, Group.txs, wtx.pos - 1)

\* The types of the open transaction's batch.
LEMMA BatchTypes ==
  ASSUME StoreInv, wtx # Nil
  PROVE  /\ wtx.groups \in Seq(AcceptedGroup) /\ Len(wtx.groups) \in Nat
         /\ DOMAIN wtx.groups = 1 .. Len(wtx.groups)
         /\ wtx.at \in 1 .. Len(wtx.groups) + 1 /\ wtx.pos \in Nat \ {0}
         /\ \A i \in DOMAIN wtx.groups : /\ wtx.groups[i].hash \in Hash
                                         /\ wtx.groups[i].txs \in Seq(TxId)
                                         /\ Len(wtx.groups[i].txs) \in Nat
  <1>1. wtx.groups \in Seq(AcceptedGroup) /\ wtx.at \in 1 .. Len(wtx.groups) + 1
        /\ wtx.pos \in Nat \ {0}
    BY DEF StoreInv, TypeOK, TxnOK
  <1>2. \A i \in DOMAIN wtx.groups : wtx.groups[i] \in AcceptedGroup BY <1>1
  <1>3. DOMAIN wtx.groups = 1 .. Len(wtx.groups) /\ Len(wtx.groups) \in Nat BY <1>1
  <1>4. \A g \in AcceptedGroup : g.hash \in Hash /\ g.txs \in Seq(TxId)
    BY DEF AcceptedGroup
  <1> QED BY <1>1, <1>2, <1>3, <1>4

\* No rows are those of no transactions.
LEMMA NoRows ==
  ASSUME NEW d, NEW txs
  PROVE  RowsOfFirst(d, {}, txs, 0)
  BY FS_EmptySet DEF RowsOfFirst

\* The loops begin with no group behind them.
LEMMA BeginProgress ==
  ASSUME StoreInv, NEW groups \in Seq(AcceptedGroup), BeginApply(groups)
  PROVE  Progress'
  <1>1. /\ db' = db /\ wtx'.work = db /\ wtx'.groups = groups
        /\ wtx'.at = 1 /\ wtx'.pos = 1 /\ wtx'.nums = {}
    BY DEF BeginApply, Txn
  <1>2. NewBlocks(db, db) = {} BY DEF NewBlocks
  <1>3. InGroup' => Group' = groups[1] /\ 1 <= Len(groups) BY <1>1 DEF Group, InGroup
  <1>4. InGroup' => Len(groups[1].txs) \in Nat BY <1>3 DEF AcceptedGroup
  <1>5. \A txs : RowsOfFirst(db, {}, txs, 0) BY NoRows
  <1>6. \A i \in 1 .. 1 - 1 : FALSE OBVIOUS
  <1> QED BY <1>1, <1>2, <1>3, <1>4, <1>5, <1>6 DEF Progress

\* A group is behind the loops, and nothing is known yet of the next one.
LEMMA NextGroup ==
  ASSUME StoreInv, StoreInv', wtx # Nil, db' = db,
         wtx'.groups = wtx.groups,
         wtx'.at = wtx.at + 1, wtx'.pos = 1, wtx'.nums = {},
         \A i \in 1 .. wtx.at : wtx.groups[i].hash \in DOMAIN wtx'.work.applied,
         \A h \in NewBlocks(db, wtx'.work) : \E i \in 1 .. wtx.at :
           /\ FirstOf(wtx.groups, h, i)
           /\ RowsOfFirst(wtx'.work, wtx'.work.acc[h], wtx.groups[i].txs,
                          Len(wtx.groups[i].txs))
  PROVE  Progress'
  <1> SUFFICES ASSUME wtx' # Nil PROVE Progress' BY DEF Progress
  <1>1. wtx.at \in Nat /\ wtx'.at - 1 = wtx.at BY BatchTypes
  <1>2. ASSUME InGroup' PROVE Len(Group'.txs) \in Nat
    <2>1. /\ wtx'.at \in DOMAIN wtx.groups
      BY <1>2, BatchTypes DEF InGroup
    <2>2. Group' = wtx.groups[wtx'.at] BY DEF Group
    <2> QED BY <2>1, <2>2, BatchTypes
  <1>3. \A txs : RowsOfFirst(wtx'.work, {}, txs, 0) BY NoRows
  <1> QED BY <1>1, <1>2, <1>3 DEF Progress

\* A block that is applied already is passed over.
LEMMA SkipProgress ==
  ASSUME StoreInv, StoreInv', WorkAhead, Progress, SkipGroup
  PROVE  Progress'
  <1>1. /\ db' = db /\ wtx'.work = wtx.work /\ wtx'.groups = wtx.groups
        /\ wtx'.at = wtx.at + 1 /\ wtx'.pos = 1 /\ wtx'.nums = {} /\ wtx # Nil
        /\ wtx.groups[wtx.at].hash \in DOMAIN wtx.work.applied
    BY DEF SkipGroup, Txn, InGroup, Group
  <1>2. \A i \in 1 .. wtx.at : i \in 1 .. wtx.at - 1 \/ i = wtx.at BY <1>1, BatchTypes
  <1>3. \A i \in 1 .. wtx.at - 1 : i \in 1 .. wtx.at BY <1>1, BatchTypes
  <1>4. \A i \in 1 .. wtx.at : wtx.groups[i].hash \in DOMAIN wtx.work.applied
    BY <1>1, <1>2 DEF Progress
  <1>5. \A h \in NewBlocks(db, wtx.work) : \E i \in 1 .. wtx.at :
          /\ FirstOf(wtx.groups, h, i)
          /\ RowsOfFirst(wtx.work, wtx.work.acc[h], wtx.groups[i].txs,
                         Len(wtx.groups[i].txs))
    BY <1>1, <1>3 DEF Progress
  <1> QED BY <1>1, <1>4, <1>5, NextGroup

\* The transaction at hand becomes a row of the group in hand.
LEMMA IndexProgress ==
  ASSUME StoreInv, StoreInv', WorkAhead, Progress, IndexNextTx
  PROVE  Progress'
  <1> SUFFICES ASSUME wtx' # Nil PROVE Progress' BY DEF Progress
  <1> DEFINE d == wtx.work
             t == Group.txs[wtx.pos]
             e == IndexTx(d, Group, t)
             n == d.next_tx_num
             txs == Group.txs
  <1>1. /\ db' = db /\ wtx'.work = e /\ wtx'.nums = wtx.nums \cup {n}
        /\ wtx'.groups = wtx.groups /\ wtx'.at = wtx.at /\ wtx'.pos = wtx.pos + 1
        /\ wtx # Nil /\ InGroup /\ Group.hash \notin DOMAIN d.applied
        /\ wtx.pos <= Len(txs)
    BY DEF IndexNextTx, Txn, NextNum, InGroup
  <1>2. TablesOK(d) /\ ListsAgree(d) BY <1>1 DEF StoreInv, Sound
  <1>3. /\ n \notin DOMAIN d.tx /\ e.tx[n].tx_id = t
        /\ \A m \in DOMAIN d.tx : e.tx[m] = d.tx[m]
    <2> HIDE DEF t
    <2> QED BY ONLY <1>2, IndexTxRows
  <1>4. e.applied = d.applied /\ e.acc = d.acc BY DEF IndexTx
  <1>5. Group' = Group BY <1>1 DEF Group
  <1>6. /\ NewRows(db, d) = (UNION {d.acc[h] : h \in NewBlocks(db, d)}) \cup wtx.nums
        /\ NewRows(db, d) \subseteq DOMAIN d.tx
    BY <1>1 DEF WorkAhead, Gained, NewRows
  <1>7. wtx.pos \in Nat \ {0} /\ Len(txs) \in Nat
    <2>1. Group \in AcceptedGroup BY <1>1, GroupType DEF StoreInv
    <2> QED BY <1>1, <2>1, BatchTypes DEF AcceptedGroup
  <1>8. RowsOfFirst(d, wtx.nums, txs, wtx.pos - 1) BY <1>1 DEF Progress
  <1> HIDE DEF d, e, n, t, txs
  <1>9. RowsOfFirst(e, wtx.nums \cup {n}, txs, wtx.pos)
    <2>1. wtx.nums \subseteq DOMAIN d.tx /\ n \notin wtx.nums BY <1>3, <1>6
    <2>2. /\ IsFiniteSet(wtx.nums \cup {n})
          /\ Cardinality(wtx.nums \cup {n}) = wtx.pos - 1 + 1
      BY <1>8, <2>1, FS_AddElement DEF RowsOfFirst
    <2>3. {e.tx[m].tx_id : m \in wtx.nums \cup {n}} =
            {d.tx[m].tx_id : m \in wtx.nums} \cup {t}
      BY <1>3, <2>1
    <2>4. \A j : j \in 1 .. wtx.pos <=> j \in 1 .. wtx.pos - 1 \/ j = wtx.pos
      BY <1>7
    <2>5. {txs[j] : j \in 1 .. wtx.pos} = {txs[j] : j \in 1 .. wtx.pos - 1} \cup {t}
      BY <2>4 DEF t, txs
    <2>6. wtx.pos - 1 + 1 = wtx.pos BY <1>7
    <2> QED BY <1>8, <2>2, <2>3, <2>5, <2>6 DEF RowsOfFirst
  <1>10. ASSUME NEW h \in NewBlocks(db, d), NEW x, NEW k, RowsOfFirst(d, d.acc[h], x, k)
         PROVE  RowsOfFirst(e, e.acc[h], x, k)
    <2>1. d.acc[h] \subseteq DOMAIN d.tx BY <1>6
    <2>2. {e.tx[m].tx_id : m \in d.acc[h]} = {d.tx[m].tx_id : m \in d.acc[h]}
      BY <1>3, <2>1
    <2> QED BY <1>4, <1>10, <2>2 DEF RowsOfFirst
  <1>11. NewBlocks(db, e) = NewBlocks(db, d) BY <1>4 DEF NewBlocks
  <1>12. \A h \in NewBlocks(db, e) : \E i \in 1 .. wtx.at - 1 :
           /\ FirstOf(wtx.groups, h, i)
           /\ RowsOfFirst(e, e.acc[h], wtx.groups[i].txs, Len(wtx.groups[i].txs))
    <2>1. \A h \in NewBlocks(db, d) : \E i \in 1 .. wtx.at - 1 :
            /\ FirstOf(wtx.groups, h, i)
            /\ RowsOfFirst(d, d.acc[h], wtx.groups[i].txs, Len(wtx.groups[i].txs))
      BY <1>1 DEF Progress, d
    <2> QED BY <1>10, <1>11, <2>1
  <1>13. \A i \in 1 .. wtx.at - 1 : wtx.groups[i].hash \in DOMAIN e.applied
    BY <1>1, <1>4 DEF Progress, d
  <1>14. wtx'.pos - 1 = wtx.pos /\ wtx'.pos <= Len(txs) + 1 BY <1>1, <1>7
  <1>15. Group'.txs = txs BY <1>5 DEF txs
  <1>16. /\ wtx'.pos <= Len(Group'.txs) + 1
         /\ RowsOfFirst(wtx'.work, wtx'.nums, Group'.txs, wtx'.pos - 1)
    BY <1>1, <1>9, <1>14, <1>15, Zenon
  <1>17. /\ \A i \in 1 .. wtx'.at - 1 : wtx'.groups[i].hash \in DOMAIN wtx'.work.applied
         /\ \A h \in NewBlocks(db', wtx'.work) : \E i \in 1 .. wtx'.at - 1 :
              /\ FirstOf(wtx'.groups, h, i)
              /\ RowsOfFirst(wtx'.work, wtx'.work.acc[h], wtx'.groups[i].txs,
                             Len(wtx'.groups[i].txs))
    BY <1>1, <1>12, <1>13
  <1> QED BY <1>16, <1>17 DEF Progress

\* The group in hand is recorded with all its rows; it is the first of the
\* batch that names its block.
LEMMA FinishProgress ==
  ASSUME StoreInv, StoreInv', WorkAhead, Progress, FinishGroup
  PROVE  Progress'
  <1> DEFINE d == wtx.work
             h == Group.hash
             nums == wtx.nums
             e == RecordBlock(d, Group, nums)
  <1>1. /\ db' = db /\ wtx'.work = e /\ wtx'.nums = {} /\ wtx'.groups = wtx.groups
        /\ wtx'.at = wtx.at + 1 /\ wtx'.pos = 1
        /\ wtx # Nil /\ InGroup /\ h \notin DOMAIN d.applied
        /\ wtx.pos > Len(Group.txs)
    BY DEF FinishGroup, Txn, InGroup
  <1>2. /\ e.tx = d.tx /\ e.applied = Put(d.applied, h, Group.daa)
        /\ e.acc = Put(d.acc, h, nums)
    BY DEF RecordBlock
  <1>3. wtx.at \in DOMAIN wtx.groups /\ Group = wtx.groups[wtx.at]
    BY <1>1, BatchTypes DEF InGroup, Group
  <1>4. wtx.pos \in Nat \ {0} /\ Len(Group.txs) \in Nat /\ wtx.at \in Nat \ {0}
    BY <1>1, <1>3, BatchTypes
  <1>5. wtx.pos - 1 = Len(Group.txs) /\ RowsOfFirst(d, nums, Group.txs, wtx.pos - 1)
    BY <1>1, <1>4 DEF Progress
  <1>6. DOMAIN d.acc = DOMAIN d.applied
    BY <1>1 DEF StoreInv, Sound, ListsAgree
  <1>7. \A i \in 1 .. wtx.at - 1 : wtx.groups[i].hash \in DOMAIN d.applied
    BY <1>1 DEF Progress
  <1>8. \A x \in NewBlocks(db, d) : \E i \in 1 .. wtx.at - 1 :
          /\ FirstOf(wtx.groups, x, i)
          /\ RowsOfFirst(d, d.acc[x], wtx.groups[i].txs, Len(wtx.groups[i].txs))
    BY <1>1 DEF Progress
  <1> DEFINE daa == Group.daa
  <1> HIDE DEF d, e, h, nums, daa
  <1>9. e.applied = Put(d.applied, h, daa) BY <1>2 DEF daa
  <1>10. /\ DOMAIN e.applied = DOMAIN d.applied \cup {h} /\ e.acc[h] = nums
         /\ \A x \in DOMAIN d.acc : x # h => e.acc[x] = d.acc[x]
    BY <1>2, <1>9 DEF Put
  <1>11. \A i \in 1 .. wtx.at : i \in 1 .. wtx.at - 1 \/ i = wtx.at BY <1>4
  <1>12. \A i \in 1 .. wtx.at : wtx.groups[i].hash \in DOMAIN e.applied
    BY <1>3, <1>7, <1>10, <1>11 DEF h
  <1>13. FirstOf(wtx.groups, h, wtx.at)
    <2>1. ASSUME NEW j \in DOMAIN wtx.groups, wtx.groups[j].hash = h
          PROVE  wtx.at <= j
      <3>1. j \notin 1 .. wtx.at - 1 BY <1>1, <1>7, <2>1
      <3>2. j \in Nat \ {0} BY <1>1, BatchTypes
      <3> QED BY <1>4, <3>1, <3>2
    <2> QED BY <1>3, <2>1 DEF FirstOf, h
  <1>14. \A S, txs, k : RowsOfFirst(d, S, txs, k) => RowsOfFirst(e, S, txs, k)
    BY <1>2 DEF RowsOfFirst
  <1>15. ASSUME NEW x \in NewBlocks(db, e)
         PROVE  \E i \in 1 .. wtx.at :
                  /\ FirstOf(wtx.groups, x, i)
                  /\ RowsOfFirst(e, e.acc[x], wtx.groups[i].txs, Len(wtx.groups[i].txs))
    <2>1. CASE x = h
      <3>1. RowsOfFirst(e, e.acc[x], wtx.groups[wtx.at].txs, Len(wtx.groups[wtx.at].txs))
        BY <1>3, <1>5, <1>10, <1>14, <2>1
      <3>2. wtx.at \in 1 .. wtx.at BY <1>4
      <3> QED BY <1>13, <2>1, <3>1, <3>2
    <2>2. CASE x # h
      <3>1. x \in NewBlocks(db, d) /\ e.acc[x] = d.acc[x]
        BY <1>6, <1>10, <2>2 DEF NewBlocks
      <3>2. PICK i \in 1 .. wtx.at - 1 :
              /\ FirstOf(wtx.groups, x, i)
              /\ RowsOfFirst(d, d.acc[x], wtx.groups[i].txs, Len(wtx.groups[i].txs))
        BY <1>8, <3>1
      <3>3. i \in 1 .. wtx.at BY <1>4
      <3> QED BY <1>14, <3>1, <3>2, <3>3
    <2> QED BY <2>1, <2>2
  <1> QED BY <1>1, <1>12, <1>15, NextGroup

\* A commit leaves each block of the batch with its rows, and no other rows.
LEMMA CommitOnce ==
  ASSUME StoreInv, WorkAhead, Progress, CommitApply
  PROVE  AppliesOnce
  <1> DEFINE e == wtx.work
             groups == wtx.groups
  <1>1. db' = e /\ wtx # Nil /\ wtx.at > Len(groups) BY DEF CommitApply
  <1>2. /\ Gained(db, e, wtx.nums) /\ NumsAgree /\ KeepsNumbers(db, e)
        /\ TablesOK(db) /\ ListsAgree(db) /\ ListsAgree(e)
    BY <1>1 DEF WorkAhead, StoreInv, Sound
  <1>3. /\ DOMAIN groups = 1 .. Len(groups) /\ wtx.at = Len(groups) + 1
        /\ Len(groups) \in Nat /\ \A i \in DOMAIN groups : groups[i].txs \in Seq(TxId)
    BY <1>1, BatchTypes
  <1>4. 1 .. wtx.at - 1 = DOMAIN groups BY <1>3
  <1>5. wtx.nums = {} BY <1>1, <1>2, <1>3 DEF NumsAgree
  <1>6. \A i \in DOMAIN groups : groups[i].hash \in DOMAIN e.applied
    BY <1>1, <1>4 DEF Progress
  <1>7. \A h \in NewBlocks(db, e) : \E i \in DOMAIN groups :
          /\ FirstOf(groups, h, i)
          /\ RowsOfFirst(e, e.acc[h], groups[i].txs, Len(groups[i].txs))
    BY <1>1, <1>4 DEF Progress
  <1> HIDE DEF e, groups
  <1>8. ASSUME NEW n \in NewRows(db, e)
        PROVE  e.tx[n].block \in NewBlocks(db, e) /\ n \in e.acc[e.tx[n].block]
    <2>1. PICK h \in NewBlocks(db, e) : n \in e.acc[h] BY <1>2, <1>5 DEF Gained
    <2>2. h \in DOMAIN e.acc /\ n \in DOMAIN e.tx
      BY <1>2 DEF NewBlocks, NewRows, ListsAgree
    <2> QED BY <1>2, <2>1, <2>2 DEF ListsAgree
  <1>9. ASSUME NEW h \in NewBlocks(db, e)
        PROVE  e.acc[h] = RowsOf(e, h) \ DOMAIN db.tx
    <2>1. e.acc[h] \subseteq NewRows(db, e) /\ h \in DOMAIN e.acc
      BY <1>2 DEF Gained, NewBlocks, ListsAgree
    <2>2. \A n \in e.acc[h] : n \in DOMAIN e.tx /\ e.tx[n].block = h
      BY <1>2, <2>1 DEF ListsAgree, NewRows
    <2>3. \A n \in RowsOf(e, h) \ DOMAIN db.tx : n \in NewRows(db, e) /\ e.tx[n].block = h
      BY DEF RowsOf, NewRows
    <2> QED BY <1>8, <2>1, <2>2, <2>3 DEF RowsOf, NewRows
  <1>10. ASSUME NEW h \in Hash, h \notin DOMAIN db.applied,
                NEW k \in DOMAIN groups, groups[k].hash = h
         PROVE  LET i == Min({j \in DOMAIN groups : groups[j].hash = h})
                    new == RowsOf(e, h) \ DOMAIN db.tx
                IN /\ h \in DOMAIN e.applied
                   /\ e.acc[h] = new
                   /\ Cardinality(new) = Len(groups[i].txs)
                   /\ {e.tx[n].tx_id : n \in new} =
                        {groups[i].txs[j] : j \in DOMAIN groups[i].txs}
    <2> DEFINE S == {j \in DOMAIN groups : groups[j].hash = h}
               new == RowsOf(e, h) \ DOMAIN db.tx
    <2>1. h \in NewBlocks(db, e) BY <1>6, <1>10 DEF NewBlocks
    <2>2. PICK i \in DOMAIN groups :
            /\ FirstOf(groups, h, i)
            /\ RowsOfFirst(e, e.acc[h], groups[i].txs, Len(groups[i].txs))
      BY <1>7, <2>1
    <2>3. Min(S) = i
      <3>1. i \in S /\ \A j \in S : i <= j BY <2>2 DEF FirstOf
      <3>2. \A j \in S : j \in Nat BY <1>3
      <3>3. \A j \in S : (\A l \in S : j <= l) => j = i BY <3>1, <3>2
      <3> HIDE DEF S
      <3> QED BY <3>1, <3>3 DEF Min
    <2>4. e.acc[h] = new BY <1>9, <2>1
    <2>5. DOMAIN groups[i].txs = 1 .. Len(groups[i].txs) BY <1>3
    <2>6. /\ Cardinality(new) = Len(groups[i].txs)
          /\ {e.tx[n].tx_id : n \in new} =
               {groups[i].txs[j] : j \in DOMAIN groups[i].txs}
      BY <2>2, <2>4, <2>5 DEF RowsOfFirst
    <2>7. h \in DOMAIN e.applied BY <2>1 DEF NewBlocks
    <2> QED BY <2>3, <2>4, <2>6, <2>7
  <1>11. ASSUME NEW h \in Hash,
                h \in DOMAIN db.applied \/ \A k \in DOMAIN groups : groups[k].hash # h
         PROVE  RowsOf(e, h) = RowsOf(db, h)
    <2>1. h \notin NewBlocks(db, e) BY <1>7, <1>11 DEF NewBlocks, FirstOf
    <2>2. \A n \in DOMAIN e.tx : e.tx[n].block = h => n \in DOMAIN db.tx
      BY <1>8, <2>1 DEF NewRows
    <2>3. /\ DOMAIN db.tx \subseteq DOMAIN e.tx
          /\ \A n \in DOMAIN db.tx : e.tx[n] = db.tx[n]
      BY <1>2 DEF Gained, KeepsNumbers
    <2> QED BY <2>2, <2>3 DEF RowsOf
  <1> QED BY <1>1, <1>10, <1>11 DEF AppliesOnce, groups

\* Every step keeps Progress, and a commit applies each block once.
LEMMA StepProgress ==
  ASSUME StoreInv, StoreInv', WorkAhead, Progress, [StoreNext]_storeVars
  PROVE  Progress' /\ [CommitApply => AppliesOnce]_storeVars
  <1>1. CommitApply => AppliesOnce BY CommitOnce
  <1>2. wtx' = Nil => Progress' BY DEF Progress
  <1>3. CASE \E groups \in Seq(AcceptedGroup) : BeginApply(groups)
    BY <1>1, <1>3, BeginProgress
  <1>4. CASE SkipGroup BY <1>1, <1>4, SkipProgress
  <1>5. CASE IndexNextTx BY <1>1, <1>5, IndexProgress
  <1>6. CASE FinishGroup BY <1>1, <1>6, FinishProgress
  <1>7. CASE CommitApply BY <1>1, <1>2, <1>7 DEF CommitApply
  <1>8. CASE AbortApply BY <1>1, <1>2, <1>8 DEF AbortApply
  <1>9. CASE \E h \in Hash : Unwind(h) BY <1>1, <1>2, <1>9 DEF Unwind
  <1>10. CASE \E cutoff \in Nat : Expire(cutoff) BY <1>1, <1>2, <1>10 DEF Expire
  <1>11. CASE UNCHANGED storeVars
    <2>1. db' = db /\ wtx' = wtx BY <1>11 DEF storeVars
    <2> QED BY <1>1, <2>1 DEF Progress, InGroup, Group
  <1> QED BY <1>3, <1>4, <1>5, <1>6, <1>7, <1>8, <1>9, <1>10, <1>11 DEF StoreNext

\* A batch that commits brings every chain block it names and that was not
\* applied before exactly the transactions of the first group that names it,
\* each once, and changes no row of any other block: however often the
\* follower hands apply a block, and within one batch too, replaying it is a
\* no-op.
THEOREM AppliedOnce == StoreSpec => AppliedExactlyOnce
  <1>1. StoreInit => WorkAhead /\ Progress BY InitImplements DEF Progress, StoreInit
  <1>2. StoreInv /\ WorkAhead /\ [StoreNext]_storeVars => WorkAhead'
    BY StepImplements
  <1>3. StoreInv /\ StoreInv' /\ WorkAhead /\ Progress /\ [StoreNext]_storeVars
          => Progress' /\ [CommitApply => AppliesOnce]_storeVars
    BY StepProgress
  <1> QED
    BY <1>1, <1>2, <1>3, StoreInvariance, PTL DEF StoreSpec, AppliedExactlyOnce

=============================================================================
