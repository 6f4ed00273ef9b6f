-------------------------------- MODULE Wire --------------------------------
(***************************************************************************)
(* A transaction on its way through the shim: the JSON a wallet posts      *)
(* (TxJson of src/api/dto.rs), the protobuf message sent to the node, the  *)
(* body taken from a block (raw_from_proto of src/indexer/mod.rs), the     *)
(* stored row (build_indexed of src/indexer/store.rs) and the JSON served  *)
(* for it (tx_to_json of src/api/handlers.rs), or for the pending one      *)
(* (render_pending of src/indexer/mempool.rs).                             *)
(*                                                                         *)
(* A JSON object is a record; a field that is left out is Nil.  A text is  *)
(* its length, whether it is hex, and what it says.                        *)
(***************************************************************************)
EXTENDS Integers, Sequences, SequencesExt

CONSTANTS Nil, NATIVE_SUBNETWORK, COINBASE_SUBNETWORK

Num(n) == [json |-> "number", value |-> n]
Str(n) == [json |-> "string", value |-> n]

is_hex(s) == s.len % 2 = 0 /\ s.hex

Map(s, Op(_)) == [i \in DOMAIN s |-> Op(s[i])]

Or(field, default) == IF field = Nil THEN default ELSE field

----------------------------------------------------------------------------
(* broadcast *)

\* A number or a decimal string, never negative.
IsFlexU64(v) == v.value >= 0

flex_u64(v) == Or(v, Num(0)).value

\* The fields serde converts; anything else in the object is ignored.
Parses(tx) ==
  /\ tx.inputs # Nil
  /\ \A v \in {Or(tx.lock_time, Num(0)), Or(tx.gas, Num(0)), Or(tx.mass, Num(0))}
             \cup {tx.inputs[i].sequence : i \in DOMAIN tx.inputs}
             \cup {Or(tx.outputs, <<>>)[i].amount : i \in DOMAIN Or(tx.outputs, <<>>)} :
       v # Nil /\ IsFlexU64(v)

Parsed(tx) ==
  [ version       |-> Or(tx.version, 0),
    inputs        |-> Map(tx.inputs, LAMBDA i :
                        [i EXCEPT !.sequence = flex_u64(@), !.sig_op_count = Or(@, 1)]),
    outputs       |-> Map(Or(tx.outputs, <<>>), LAMBDA o :
                        [o EXCEPT !.amount = flex_u64(@), !.script_version = Or(@, 0)]),
    lock_time     |-> flex_u64(tx.lock_time),
    subnetwork_id |-> Or(tx.subnetwork_id, NATIVE_SUBNETWORK),
    gas           |-> flex_u64(tx.gas),
    payload       |-> Or(tx.payload, [len |-> 0, hex |-> TRUE, says |-> Nil]),
    mass          |-> flex_u64(tx.mass) ]

validate(tx) ==
  /\ tx.inputs # <<>>
  /\ tx.subnetwork_id.len = 40 /\ is_hex(tx.subnetwork_id)
  /\ is_hex(tx.payload)
  /\ \A i \in DOMAIN tx.inputs :
       /\ tx.inputs[i].transaction_id.len = 64 /\ is_hex(tx.inputs[i].transaction_id)
       /\ is_hex(tx.inputs[i].signature_script)
  /\ \A i \in DOMAIN tx.outputs :
       tx.outputs[i].script_public_key.len > 0 /\ is_hex(tx.outputs[i].script_public_key)

\* A transaction the handler passes on to the node.
Submits(json) == Parses(json) /\ validate(Parsed(json))

into_proto(tx) ==
  [ version       |-> tx.version,
    inputs        |-> Map(tx.inputs, LAMBDA i :
                        [previous_outpoint |-> [transaction_id |-> i.transaction_id,
                                                index |-> i.index],
                         signature_script |-> i.signature_script,
                         sequence |-> i.sequence, sig_op_count |-> i.sig_op_count]),
    outputs       |-> Map(tx.outputs, LAMBDA o :
                        [amount |-> o.amount,
                         script_public_key |-> [version |-> o.script_version,
                                                script_public_key |-> o.script_public_key]]),
    lock_time     |-> tx.lock_time,
    subnetwork_id |-> tx.subnetwork_id,
    gas           |-> tx.gas,
    payload       |-> tx.payload,
    verbose_data  |-> Nil,
    mass          |-> tx.mass ]

----------------------------------------------------------------------------
(* From a block into the index *)

\* Nil for a transaction the node gave no id.
raw_from_proto(tx) ==
  IF tx.verbose_data = Nil \/ tx.verbose_data.transaction_id.len = 0 THEN Nil
  ELSE [ tx_id         |-> tx.verbose_data.transaction_id,
         is_coinbase   |-> tx.subnetwork_id = COINBASE_SUBNETWORK,
         version       |-> tx.version,
         lock_time     |-> tx.lock_time,
         subnetwork_id |-> tx.subnetwork_id,
         gas           |-> tx.gas,
         payload       |-> tx.payload,
         inputs        |-> Map(tx.inputs, LAMBDA i :
                             [previous_tx_id |-> i.previous_outpoint.transaction_id,
                              previous_index |-> i.previous_outpoint.index,
                              signature_script |-> i.signature_script,
                              sequence |-> i.sequence, sig_op_count |-> i.sig_op_count]),
         outputs       |-> Map(tx.outputs, LAMBDA o :
                             [amount |-> o.amount,
                              script_version |-> o.script_public_key.version,
                              script_public_key |-> o.script_public_key.script_public_key]) ]

\* The stored row: the body and where it was accepted.
build_indexed(raw, group) ==
  [accepting_block_hash |-> group.hash, accepting_daa |-> group.daa] @@ raw

----------------------------------------------------------------------------
(* GET /transactions/{id} and /outpoints/{txid}/{index}/spend *)

\* Writes the script without its version.
MutOutputJson(o) ==
  [amount |-> Num(o.amount), script_version |-> Nil,
   script_public_key |-> o.script_public_key]

OutputJson(o) ==
  [amount |-> Num(o.amount), script_version |-> o.script_version,
   script_public_key |-> o.script_public_key]

\* A sequence may exceed what a JSON number holds in a wallet.
InputJson(i) ==
  [transaction_id |-> i.previous_tx_id, index |-> i.previous_index,
   signature_script |-> i.signature_script, sequence |-> Str(i.sequence),
   sig_op_count |-> i.sig_op_count]

\* What the JSON of a confirmed and of a pending transaction share.
BodyJson(tx) ==
  [ tx_id         |-> tx.tx_id,
    version       |-> tx.version,
    inputs        |-> Map(tx.inputs, InputJson),
    outputs       |-> Map(tx.outputs, OutputJson),
    lock_time     |-> Num(tx.lock_time),
    subnetwork_id |-> tx.subnetwork_id,
    gas           |-> Num(tx.gas),
    payload       |-> tx.payload,
    mass          |-> Nil,
    is_coinbase   |-> tx.is_coinbase ]

tx_to_json(itx) ==
  [block_hash |-> itx.accepting_block_hash, daa_score |-> itx.accepting_daa]
    @@ BodyJson(itx)

\* A transaction of the mempool, as the overlay holds it.
render_pending(raw) == [block_hash |-> Nil, daa_score |-> 0] @@ BodyJson(raw)

=============================================================================
