------------------------------ MODULE MCStore ------------------------------
(***************************************************************************)
(* Store for TLC: four chain blocks, two of them competing for the same    *)
(* parent, one coinbase and two payments.  The single writer may call the  *)
(* operations in any order and with any of these blocks, as a follower     *)
(* that is told things late or twice would.                                *)
(***************************************************************************)
EXTENDS StoreRefinement, SequencesExt

CONSTANTS
  h1, h2, h3, f2,       \* f2 competes with h2
  c1, p, q,
  alice, bob,
  o1, o2, o3, o4,
  MaxTxNum,             \* bound on the tx_nums handed out
  MaxDaa                \* largest expiry cutoff

MCHash == {h1, h2, h3, f2}
MCTxId == {c1, p, q}
MCAddress == {alice, bob}
MCOutpoint == {o1, o2, o3, o4}
MCCoinbase == {c1}
MCInputs == (c1 :> {}) @@ (p :> {o1}) @@ (q :> {o2})
MCFundedBy == (o1 :> c1) @@ (o2 :> p) @@ (o3 :> p) @@ (o4 :> q)
MCOwner == (o1 :> alice) @@ (o2 :> bob) @@ (o3 :> alice) @@ (o4 :> Nil)
MCAmount == (o1 :> 5) @@ (o2 :> 3) @@ (o3 :> 2) @@ (o4 :> 3)

Grp(h, daa, txs) == [hash |-> h, daa |-> daa, txs |-> txs]

\* The second form of h3 is what build_groups makes of it when the block's DAA
\* score cannot be resolved.
Groups == { Grp(h1, 1, <<c1>>), Grp(h2, 2, <<p>>), Grp(h3, 3, <<q>>),
            Grp(f2, 2, <<p, q>>), Grp(h3, 0, <<q>>) }

Batches == {<<g>> : g \in Groups} \cup {<<g, k>> : g, k \in Groups}

TxsIn(groups) == FoldLeft(LAMBDA n, g : n + Len(g.txs), 0, groups)

MCNext ==
  \/ \E groups \in Batches : /\ db.next_tx_num + TxsIn(groups) <= MaxTxNum
                             /\ BeginApply(groups)
  \/ SkipGroup
  \/ IndexNextTx
  \/ FinishGroup
  \/ CommitApply
  \/ AbortApply
  \/ \E h \in Hash : Unwind(h)
  \/ \E cutoff \in 1 .. MaxDaa : Expire(cutoff)

MCSpec == StoreInit /\ [][MCNext]_storeVars

\* The effect of a whole group on a database that has not applied it.
ApplyGroup(d, g) ==
  LET after == FoldLeft(LAMBDA e, t : IndexTx(e, g, t), d, g.txs)
  IN RecordBlock(after, g, d.next_tx_num .. after.next_tx_num - 1)

\* unwind_chain_block is the inverse of apply: unwinding a block that was just
\* applied restores every table and counter; only next_tx_num and the
\* checkpoint keep their new value.  It needs the transactions to be new: a
\* second acceptance of an indexed transaction overwrites its index entries.
UnwindUndoesApply ==
  wtx = Nil =>
    \A g \in Groups :
      LET txs  == Range(g.txs)
          once == ApplyGroup(db, g)
      IN /\ g.hash \notin DOMAIN db.applied
         /\ txs \cap DOMAIN db.tx_by_id = {}
         /\ UNION {SpentBy(t) : t \in txs} \cap DOMAIN db.spend = {}
         => unwind_chain_block(once, g.hash) =
              [db EXCEPT !.next_tx_num = once.next_tx_num,
                         !.checkpoint = once.checkpoint]

=============================================================================
