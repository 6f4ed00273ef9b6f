------------------------------- MODULE Ledger -------------------------------
(***************************************************************************)
(* What the index promises the rest of the shim, whatever happens to the   *)
(* process and in whatever order the follower reports blocks: rows come    *)
(* and go by whole chain blocks, in one step each.                         *)
(*                                                                         *)
(* There are no tables, no write transaction and no batch here.  Store     *)
(* implements this specification; the refinement is stated there.          *)
(***************************************************************************)
EXTENDS Integers, FiniteSets

CONSTANT Nil

VARIABLES
  blocks,      \* applied chain block -> its DAA score and its row numbers
  rows,        \* row number -> transaction, accepting block, score, effects
  total,       \* accepted transactions, expired ones included
  resume       \* where a restart goes on: the checkpoint, Nil at first

ledgerVars == <<blocks, rows, total, resume>>

Init ==
  /\ blocks = [h \in {} |-> Nil]
  /\ rows = [n \in {} |-> Nil]
  /\ total = 0
  /\ resume = Nil

\* Every entry of f is still there in g.
Extends(f, g) == DOMAIN f \subseteq DOMAIN g /\ \A x \in DOMAIN f : g[x] = f[x]

\* New chain blocks arrive with all their rows, or not at all.  The rows are
\* newer than all others and each belongs to one of the new blocks; blocks
\* that are known stay as they are.
Accept ==
  LET newBlocks == DOMAIN blocks' \ DOMAIN blocks
      newRows   == DOMAIN rows' \ DOMAIN rows
  IN /\ Extends(blocks, blocks')
     /\ Extends(rows, rows')
     /\ \A n \in newRows : \A m \in DOMAIN rows : n > m
     /\ newRows = UNION {blocks'[h].rows : h \in newBlocks}
     /\ \A h \in newBlocks : \A n \in blocks'[h].rows :
          rows'[n].block = h /\ rows'[n].daa = blocks'[h].daa
     /\ total' = total + Cardinality(newRows)
     /\ IF newBlocks = {} THEN UNCHANGED resume
        ELSE \E h \in newBlocks : resume' = [hash |-> h, daa |-> blocks'[h].daa]

\* A reorg takes one chain block back, with the rows it still has.
Remove(h) ==
  LET gone == blocks[h].rows \cap DOMAIN rows
  IN /\ h \in DOMAIN blocks
     /\ blocks' = [x \in DOMAIN blocks \ {h} |-> blocks[x]]
     /\ rows' = [n \in DOMAIN rows \ gone |-> rows[n]]
     /\ total' = total - Cardinality(gone)
     /\ UNCHANGED resume

\* Retention forgets the oldest rows and the oldest blocks.  A block that is
\* kept is newer than all that is forgotten and keeps its rows; the count of
\* what was ever accepted stays.
Forget ==
  LET goneBlocks == DOMAIN blocks \ DOMAIN blocks'
      goneRows   == DOMAIN rows \ DOMAIN rows'
  IN /\ Extends(blocks', blocks)
     /\ Extends(rows', rows)
     /\ \A n \in goneRows : \A m \in DOMAIN rows' : n < m
     /\ \A h \in DOMAIN blocks' :
          /\ \A x \in goneBlocks : blocks[x].daa < blocks[h].daa
          /\ \A n \in goneRows : rows[n].daa < blocks[h].daa
          /\ blocks[h].rows \cap goneRows = {}
     /\ UNCHANGED <<total, resume>>

Next == Accept \/ (\E h \in DOMAIN blocks : Remove(h)) \/ Forget

Spec == Init /\ [][Next]_ledgerVars

=============================================================================
