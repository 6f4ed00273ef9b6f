-------------------------- MODULE StoreRefinement --------------------------
(***************************************************************************)
(* The committed tables of Store as a state of Ledger.                     *)
(***************************************************************************)
EXTENDS Store

\* The chain blocks that can be unwound, each with its rows.
UnwindableBlocks ==
  [h \in DOMAIN db.applied |-> [daa |-> db.applied[h], rows |-> db.acc[h]]]

Abstract == INSTANCE Ledger WITH
              blocks <- UnwindableBlocks, rows <- db.tx,
              total <- db.total_txs, resume <- db.checkpoint

\* The tables, transactions and batches of the store implement Ledger: seen
\* through its committed tables, every call of apply, unwind_chain_block or
\* expire_below is one step of the abstract index or none, also when apply is
\* cut short ("applied in a single write transaction, so a crash leaves the
\* checkpoint and all derived rows mutually consistent", store.rs:5-6).
ImplementsLedger == Abstract!Spec

=============================================================================
