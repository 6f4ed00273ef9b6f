-------------------------------- MODULE Keys --------------------------------
(***************************************************************************)
(* The byte keys of the composite tables and the scans over them           *)
(* (src/indexer/store.rs).  redb orders keys as byte strings.  A table is  *)
(* the set of its keys; a name (an address, a hash, a model or a key) is a *)
(* sequence of bytes without the separator.                                *)
(***************************************************************************)
EXTENDS Payload

CONSTANTS
  Radix,      \* the values of a byte
  U32, U64    \* the bytes of an index and of a number

SEP == Radix - 1

to_be_bytes(n, width) ==
  [i \in 1 .. width |-> (n \div Radix ^ (width - i)) % Radix]

from_be_bytes(s) == FoldLeft(LAMBDA n, b : Radix * n + b, 0, s)

\* No separator between the name and the number.
MutHistKey(addr, tx_num) == addr \o to_be_bytes(tx_num, U64)

hist_key(addr, tx_num) == addr \o <<SEP>> \o to_be_bytes(tx_num, U64)

hist_bounds(addr) ==
  [lo |-> addr \o <<SEP>> \o [i \in 1 .. U64 |-> 0],
   hi |-> addr \o <<SEP>> \o [i \in 1 .. U64 |-> SEP]]

outpoint_key(txid, index) == txid \o <<SEP>> \o to_be_bytes(index, U32)

chain_key(daa, hash) == to_be_bytes(daa, U64) \o hash

resp_list_key(request_hash, tx_num) == hist_key(request_hash, tx_num)

resp_list_tx_num(key) == from_be_bytes(Slice(key, Len(key) - U64, Len(key)))

caps_key(model_id, pubkey) == model_id \o <<SEP>> \o pubkey

----------------------------------------------------------------------------
(* Scans, in key order *)

Sorted(keys) == SetToSortSeq(keys, LexLess)

RangeScan(table, bounds) ==
  Sorted({k \in table : ~LexLess(k, bounds.lo) /\ ~LexLess(bounds.hi, k)})

\* A page of an address's history, newest first.
history_page(table, addr, limit, offset) ==
  LET newest == Reverse(RangeScan(table, hist_bounds(addr)))
      cut    == IF offset + limit < Len(newest) THEN offset + limit ELSE Len(newest)
  IN SubSeq(newest, offset + 1, cut)

\* The tx_nums of a request's responses, in the order of acceptance.
response_nums(table, request_hash) ==
  LET found == RangeScan(table, hist_bounds(request_hash))
  IN [i \in DOMAIN found |-> resp_list_tx_num(found[i])]

\* expire_below reads the chain blocks up to the first at or above the cutoff.
expired_chain(table, cutoff) ==
  LET keys   == Sorted(table)
      daa(k) == from_be_bytes(Slice(k, 0, U64))
  IN {keys[i] : i \in {j \in DOMAIN keys : \A h \in 1 .. j : daa(keys[h]) < cutoff}}

\* capabilities splits a key at its first separator.
split_caps(key) ==
  LET sep == CHOOSE i \in DOMAIN key : key[i] = SEP /\ SEP \notin Range(SubSeq(key, 1, i - 1))
  IN <<SubSeq(key, 1, sep - 1), SubSeq(key, sep + 1, Len(key))>>

=============================================================================
