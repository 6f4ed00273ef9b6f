------------------------------ MODULE MCCodecs ------------------------------
(***************************************************************************)
(* The conversions for TLC.  A behaviour exercises one of them: a payload  *)
(* that arrives byte by byte, a script whose key changes byte by byte, a   *)
(* table whose rows come and go, or a transaction on its way through the   *)
(* shim.  The encoders here are the reference the decoders are held to.    *)
(***************************************************************************)
EXTENDS Address, Keys, TLC, FiniteSets

CONSTANTS
  NATIVE_SUBNETWORK, COINBASE_SUBNETWORK,
  MaxRows     \* bound on the rows of a table

W == INSTANCE Wire

MCNative == [len |-> 40, hex |-> TRUE, says |-> "00"]
MCCoinbase == [len |-> 40, hex |-> TRUE, says |-> "01"]

VARIABLES
  part,       \* what the behaviour exercises
  input,      \* what the code is given
  source      \* what it was made from

mcVars == <<part, input, source>>

Rep(b, n) == [i \in 1 .. n |-> b]
Le(n, w) == [i \in 1 .. w |-> IF i = 1 THEN n ELSE 0]

----------------------------------------------------------------------------
(* Payloads *)

Key(b) == Rep(7, 31) \o <<b>>

Sealed(keys, version) ==
  PRIVATE_MAGIC \o <<version>> \o Rep(3, 45) \o <<Len(keys)>>
    \o FlattenSeq([i \in DOMAIN keys |-> keys[i] \o Rep(8, 48)])
    \o Rep(9, PRIVATE_TAG_LEN + 1)

KeyLists == {<<>>, <<Key(1)>>, <<Key(1), Key(2)>>, <<Key(2), Key(1)>>,
             <<Key(1), Key(1)>>, <<Key(1), Key(2), Key(3)>>}

RequestHead == Rep(10, 32) \o Le(5, 4) \o Le(6, 8) \o Le(7, 8)

SealedSources == [kind : {"sealed"}, keys : KeyLists, version : {1, 2}]
OpenSources == [kind : {"open"}, prompt : {<<>>, <<72, 105>>, <<0, 75, 88>>, <<75, 88, 80, 255>>}]

\* A response with a body of that many bytes, none if Nil, and a trace.
ResponseSources ==
  [kind : {"response"}, body : {Nil, 0, 1, 3, 4}, trace : {Nil, 40, 41, 73}, hash : {18}]
    \cup [kind : {"response"}, body : {Nil}, trace : {Nil}, hash : {0, 255}]

Extension(kind, bytes) == <<kind>> \o Le(Len(bytes), 4) \o bytes

ChallengeSources == [kind : {"challenge"}]

Encoded(s) ==
  CASE s.kind = "sealed" -> RequestHead \o Sealed(s.keys, s.version)
    [] s.kind = "open" -> RequestHead \o s.prompt
    [] s.kind = "challenge" -> Rep(11, 32) \o Rep(0, 42) \o Rep(12, 32)
    [] s.kind = "response" ->
         Rep(13, 32) \o Le(1, 8) \o <<18, 32>> \o Rep(s.hash, 32) \o Le(2, 4)
         \o Rep(14, 32) \o Rep(15, 64)
         \o (IF s.body = Nil THEN <<>>
             ELSE Extension(RESPONSE_EXT_PRIVATE_BODY, Rep(16, s.body)))
         \o (IF s.trace = Nil THEN <<>>
             ELSE Extension(RESPONSE_EXT_TRACE, Rep(17, s.trace)))

PayloadSources == SealedSources \cup OpenSources \cup ResponseSources \cup ChallengeSources

NextByte ==
  /\ part = "payload" /\ Len(input) < Len(Encoded(source))
  /\ input' = Append(input, Encoded(source)[Len(input) + 1])
  /\ UNCHANGED <<part, source>>

\* Whatever part of a sealed request reaches the decoder, nothing of it past
\* the magic is taken for a prompt, and its recipients are counted only when
\* the envelope is complete, of a known version and in order; a prompt in the
\* clear is never taken for a sealed one (inference.rs:64-91, 238-261).
SealedNeverShown ==
  part = "payload" /\ source.kind \in {"sealed", "open"} =>
    LET req   == decode_request(input)
        magic == MIN_REQUEST_LEN + Len(PRIVATE_MAGIC)
    IN /\ (req = Nil) = (Len(input) < MIN_REQUEST_LEN)
       /\ source.kind = "open" /\ req # Nil =>
            /\ ~req.private /\ req.recipient_count = Nil
            /\ Len(req.prompt) = Len(input) - MIN_REQUEST_LEN
       /\ source.kind = "sealed" /\ Len(input) >= magic =>
            /\ req.private /\ req.prompt = <<>>
            /\ req.recipient_count =
                 IF /\ source.version = PRIVATE_VERSION
                    /\ source.keys \in {<<Key(1)>>, <<Key(1), Key(2)>>}
                    /\ Len(input) >= Len(Encoded(source)) - 1
                 THEN Len(source.keys) ELSE Nil

ResponseWhole ==
  LET resp  == decode_response(input)
      ext   == Len(input) - RESPONSE_V2_LEN
      fits  == source.body # Nil /\ source.body <= MAX_RESPONSE_PRIVATE_BODY_LEN
      alone == fits /\ source.body > 0 /\ ext = 5 + source.body
      both  == fits /\ source.trace \in {41, 73} /\ ext = 10 + source.body + source.trace
  IN /\ (resp = Nil) = (Len(input) < RESPONSE_LEN)
     /\ resp # Nil =>
          /\ resp.request_hash = to_hex(Rep(13, 32))
          /\ resp.response_length = Le(2, 4)
          /\ is_cid_v0(resp.cid)
          /\ resp.responder_pubkey = IF ext >= 0 THEN to_hex(Rep(14, 32)) ELSE Nil
          /\ resp.private_body = IF alone \/ both THEN Rep(16, source.body) ELSE Nil

ChallengeWhole ==
  decode_challenge(input) # Nil =>
    decode_challenge(input).request_hash =
      IF Len(input) = 106 THEN to_hex(Rep(12, 32)) ELSE Nil

\* The fields of a response read the same however much follows them, and the
\* inline answer is given whole or not at all: a response cut anywhere, with a
\* trace of the wrong size or an answer over the limit has none.  Its CID is
\* one the /ipfs handler takes.  A challenge names its request once all of the
\* hash is there (inference.rs decode_response and decode_challenge).
WholeOrNone ==
  part = "payload" =>
    /\ source.kind = "response" => ResponseWhole
    /\ source.kind = "challenge" => ChallengeWhole

----------------------------------------------------------------------------
(* Scripts *)

Networks == {"mainnet", "testnet", "devnet", "simnet"}
Marks == {1, 128, 255}

ScriptSources ==
  [version : {0, 1, 8}, mark : Marks, at : {1}, network : Networks]

PayloadOf(s) == [Rep(0, Standard(s.version).len) EXCEPT ![s.at] = s.mark]

ScriptOf(version, payload) ==
  Standard(version).head \o payload \o Standard(version).tail

\* The mark moves to the next byte of the key.
NextScript ==
  /\ part = "script" /\ source.at < Standard(source.version).len
  /\ source' = [source EXCEPT !.at = @ + 1]
  /\ input' = ScriptOf(source.version, PayloadOf(source'))
  /\ UNCHANGED part

\* Scripts that are not attributed to an address.
Escrow(key) == <<3, 160, 140, 0, 177, 32>> \o key \o <<172>>

\* The checksums of the vectors in address.rs:136-141.
WalletVectors ==
  /\ SubSeq(encode_address(0, Rep(17, 32), "keryxsim").payload, 54, 61)
       = <<"s", "5", "z", "p", "2", "9", "v", "m">>
  /\ SubSeq(encode_address(0, Rep(17, 32), "keryx").payload, 54, 61)
       = <<"6", "j", "0", "6", "x", "t", "9", "k">>

\* The address history is filed under can be asked for and can be read back:
\* it passes the handlers' gate, its code word is a multiple of the generator
\* polynomial, and its letters hold the version and the payload, so no two
\* scripts share an address.  A CSV escrow gives its key and no address, and
\* the inference oracle reads the same key from a P2PK script (address.rs
\* script_to_address, dto.rs validate_address, inference.rs p2pk_pubkey).
AddressesRoundTrip ==
  part = "script" =>
    LET address == script_to_address(to_hex(input), prefix_for_network(source.network))
        words   == Words(address)
        len     == Standard(source.version).len
        payload == PayloadOf(source)
    IN /\ validate_address(address)
       /\ Remainder(CodeWord(address)) = One
       /\ Bytes(words, 1 + len) = <<source.version>> \o payload
       /\ Len(words) = ((8 * (1 + len) + 4) \div 5) + 8
       /\ p2pk_pubkey(to_hex(input)) =
            IF source.version = 0 THEN to_hex(payload) ELSE Nil
       /\ csv_escrow_pubkey(to_hex(Escrow(Slice(payload, 0, 32))))
            = to_hex(Slice(payload, 0, 32))
       /\ script_to_address(to_hex(Escrow(Slice(payload, 0, 32))), "keryx") = Nil
       /\ ~is_inference_vault(to_hex(input))
       /\ WalletVectors

----------------------------------------------------------------------------
(* Tables *)

\* Names of which one is the beginning of another, and numbers up to the last.
Names == {<<1>>, <<1, 2>>, <<1, 0>>, <<2>>}
Numbers == {0, 1, Radix, Radix ^ U64 - 1}

Rows(kind) ==
  CASE kind = "caps" -> Names \X Names
    [] kind = "outpoint" -> Names \X (0 .. Radix ^ U32 - 1)
    [] OTHER -> Names \X Numbers

KeyOf(kind, row) ==
  CASE kind = "hist" -> hist_key(row[1], row[2])
    [] kind = "chain" -> chain_key(row[2], row[1])
    [] kind = "outpoint" -> outpoint_key(row[1], row[2])
    [] kind = "caps" -> caps_key(row[1], row[2])

InsertRow(row) ==
  /\ part = "table" /\ Cardinality(source.rows) < MaxRows
  /\ source' = [source EXCEPT !.rows = @ \cup {row}]
  /\ input' = input \cup {KeyOf(source.kind, row)}
  /\ UNCHANGED part

RemoveRow(row) ==
  /\ part = "table" /\ row \in source.rows
  /\ source' = [source EXCEPT !.rows = @ \ {row}]
  /\ input' = input \ {KeyOf(source.kind, row)}
  /\ UNCHANGED part

NumbersOf(name) ==
  SetToSortSeq({row[2] : row \in {r \in source.rows : r[1] = name}}, <)

\* The scans find the rows of their name, all of them, in the order of their
\* numbers, whatever other names and numbers are in the table: history pages
\* and response lists, the chain blocks below a cutoff, the outpoints, the
\* declared models.
ScansAreExact ==
  part = "table" =>
    CASE source.kind = "hist" ->
           \A name \in Names :
             /\ response_nums(input, name) = NumbersOf(name)
             /\ \A limit \in 1 .. 2, offset \in 0 .. 2 :
                  LET page == history_page(input, name, limit, offset)
                  IN [i \in DOMAIN page |-> resp_list_tx_num(page[i])]
                       = SubSeq(Reverse(NumbersOf(name)), offset + 1,
                                Min({offset + limit, Len(NumbersOf(name))}))
      [] source.kind = "chain" ->
           \A cutoff \in Numbers :
             expired_chain(input, cutoff)
               = {chain_key(r[2], r[1]) : r \in {x \in source.rows : x[2] < cutoff}}
      [] source.kind = "outpoint" ->
           \A r \in Rows("outpoint") : outpoint_key(r[1], r[2]) \in input <=> r \in source.rows
      [] source.kind = "caps" -> {split_caps(k) : k \in input} = source.rows

----------------------------------------------------------------------------
(* Transactions *)

Text(len, says) == [len |-> len, hex |-> TRUE, says |-> says]
NotHex(len) == [len |-> len, hex |-> FALSE, says |-> Nil]

JsonInputs ==
  [transaction_id : {Text(64, "a"), Text(62, "a"), NotHex(64)}, index : {1},
   signature_script : {Text(4, "sig")}, sequence : {W!Num(3), W!Str(3), W!Num(-1), Nil},
   sig_op_count : {Nil, 2}]

JsonOutputs ==
  [amount : {W!Num(5), W!Str(5)}, script_version : {Nil, 1},
   script_public_key : {Text(6, "spk"), Text(0, Nil), Text(5, "spk")}]

JsonTxs ==
  [version : {Nil, 1}, inputs : {<<>>} \cup {<<i>> : i \in JsonInputs},
   outputs : {Nil} \cup {<<o>> : o \in JsonOutputs}, lock_time : {Nil, W!Str(4)},
   subnetwork_id : {Nil, Text(38, "03")}, gas : {Nil, W!Num(6)},
   payload : {Nil, Text(8, "pay")}, mass : {Nil, W!Num(9)}]

\* broadcast: refused here, or sent to the node.
Broadcast ==
  /\ part = "json"
  /\ IF W!Submits(input)
     THEN /\ part' = "sent" /\ input' = W!into_proto(W!Parsed(input))
          /\ source' = input'
     ELSE part' = "refused" /\ UNCHANGED <<input, source>>

\* The node adds the id.
Back(id) == W!raw_from_proto([input EXCEPT !.verbose_data = [transaction_id |-> id]])

\* The mempool brings the transaction back, and the overlay shows it.
Pend(id) ==
  /\ part = "sent" /\ Back(id) # Nil
  /\ part' = "served" /\ input' = W!render_pending(Back(id))
  /\ UNCHANGED source

\* A block brings it back.
Accept(id) ==
  /\ part = "sent"
  /\ LET raw == Back(id)
     IN IF raw = Nil THEN part' = "unnamed" /\ UNCHANGED input
        ELSE part' = "indexed" /\ input' = W!build_indexed(raw, [hash |-> "h", daa |-> 2])
  /\ UNCHANGED source

Serve ==
  /\ part = "indexed"
  /\ part' = "served" /\ input' = W!tx_to_json(input)
  /\ UNCHANGED source

\* A transaction the shim serves, pending or confirmed, can be posted to it
\* again as it is and reaches the node as it was first sent, but for the mass,
\* through the defaults and number formats of the conversions between (dto.rs
\* into_proto, mod.rs raw_from_proto, handlers.rs tx_to_json).
ServedTxResubmits ==
  part = "served" =>
    /\ W!Submits(input)
    /\ W!into_proto(W!Parsed(input)) = [source EXCEPT !.mass = 0]

----------------------------------------------------------------------------

MCInit ==
  \/ part = "payload" /\ input = <<>> /\ source \in PayloadSources
  \/ part = "script" /\ source \in ScriptSources
       /\ input = ScriptOf(source.version, PayloadOf(source))
  \/ part = "table" /\ input = {}
       /\ source \in [kind : {"hist", "chain", "outpoint", "caps"}, rows : {{}}]
  \/ part = "json" /\ input \in JsonTxs /\ source = Nil

MCNext ==
  \/ NextByte
  \/ NextScript
  \/ part = "table" /\ \E row \in Rows(source.kind) : InsertRow(row) \/ RemoveRow(row)
  \/ Broadcast
  \/ \E id \in {Text(64, "id"), Text(0, Nil)} : Pend(id) \/ Accept(id)
  \/ Serve

MCSpec == MCInit /\ [][MCNext]_mcVars

=============================================================================
