----------------------------- MODULE Inference -----------------------------
(***************************************************************************)
(* The inference tables of the redb index (src/indexer/store.rs): requests *)
(* with their two lookup keys, responses, challenges and the models miners *)
(* declare.  They are written by the same apply and swept by the same      *)
(* expire_below as the ledger tables, inside the same write transaction,   *)
(* so this module conjoins every action of Store with its effect on `ai`.  *)
(* unwind_chain_block does not open these tables.                          *)
(*                                                                         *)
(* What a payload decodes to is constant data.  A transaction id and a     *)
(* payload digest are never equal.                                         *)
(***************************************************************************)
EXTENDS Store

CONSTANTS
  Digest,     \* payload digests (request_hash of a payload)
  AiBody,     \* AiBody[t]: the decoded payload of t, or Nil when there is none
  Declares    \* Declares[t]: <<model, miner key>> pairs in a coinbase payload

AiRequest == [kind : {"request"}, digest : Digest, routed : BOOLEAN,
              private : BOOLEAN]

AiResponse == [kind : {"response"}, digest : Digest,
               request_hash : Digest \cup TxId]

AiChallenge == [kind : {"challenge"}, response_hash : Digest,
                request_hash : Digest \cup TxId \cup {Nil}]

ASSUME AiAssumption ==
  /\ AiBody \in [TxId -> AiRequest \cup AiResponse \cup AiChallenge \cup {Nil}]
  /\ DOMAIN Declares = TxId
  /\ Digest \cap TxId = {}

VARIABLES
  ai,         \* the committed inference tables
  aiWork      \* the copy the open write transaction works on, or Nil

aiVars == <<db, wtx, ai, aiWork>>

EmptyAi ==
  [ req         |-> Empty,   \* sequence number -> request row
    req_by_hash |-> Empty,   \* identity or transaction id -> sequence number
    resp        |-> Empty,   \* request identity -> first response
    resp_list   |-> {},      \* <<request identity, tx_num of a response>>
    resp_hash   |-> Empty,   \* response digest -> request identity
    chal        |-> Empty,   \* sequence number -> challenge row
    caps        |-> Empty,   \* <<model, miner key>> -> DAA score last seen
    req_seq     |-> 0,
    chal_seq    |-> 0 ]

IsKind(t, kind) == AiBody[t] # Nil /\ AiBody[t].kind = kind

----------------------------------------------------------------------------
(* apply *)

request_identity(t) == IF AiBody[t].routed THEN t ELSE AiBody[t].digest

RequestRec(g, t) ==
  [tx_id |-> t, daa |-> g.daa, block |-> g.hash,
   request_hash |-> request_identity(t), private |-> AiBody[t].private]

\* Indexes a repeat of a known request again.
MutIndexRequest(a, g, t) ==
  LET id == request_identity(t)
  IN [a EXCEPT !.req = Put(a.req, a.req_seq, RequestRec(g, t)),
               !.req_by_hash = Put(Put(a.req_by_hash, id, a.req_seq), t, a.req_seq),
               !.req_seq = a.req_seq + 1]

\* A request is indexed once per identity.
IndexRequest(a, g, t) ==
  LET id == request_identity(t)
  IN IF id \in DOMAIN a.req_by_hash
     THEN a
     ELSE [a EXCEPT !.req = Put(a.req, a.req_seq, RequestRec(g, t)),
                    !.req_by_hash = Put(Put(a.req_by_hash, id, a.req_seq),
                                        t, a.req_seq),
                    !.req_seq = a.req_seq + 1]

\* The latest response replaces the first.
MutFirst(resp, id, rec) == Put(resp, id, rec)

First(resp, id, rec) == IF id \in DOMAIN resp THEN resp ELSE Put(resp, id, rec)

\* Every response is listed under its request; the first is summarised.
IndexResponse(a, g, t, n) ==
  LET id == AiBody[t].request_hash
  IN [a EXCEPT !.resp_list = a.resp_list \cup {<<id, n>>},
               !.resp = First(a.resp, id, [tx_id |-> t, daa |-> g.daa,
                                           block |-> g.hash]),
               !.resp_hash = Put(a.resp_hash, AiBody[t].digest, id)]

\* Does not look the disputed response up.
MutChallenged(a, t) == AiBody[t].request_hash

\* The request a challenge is about: the one it names, else the one its
\* response answers, else none.
Challenged(a, t) ==
  IF AiBody[t].request_hash # Nil THEN AiBody[t].request_hash
  ELSE IF AiBody[t].response_hash \in DOMAIN a.resp_hash
       THEN a.resp_hash[AiBody[t].response_hash]
       ELSE Nil

IndexChallenge(a, g, t) ==
  [a EXCEPT !.chal = Put(a.chal, a.chal_seq,
                         [tx_id |-> t, request_hash |-> Challenged(a, t),
                          daa |-> g.daa]),
            !.chal_seq = a.chal_seq + 1]

\* Keeps the score of the first declaration.
MutDeclareCaps(a, g, t) ==
  IF t \in Coinbase
  THEN [a EXCEPT !.caps = [k \in DOMAIN a.caps \cup Declares[t] |->
                             IF k \in DOMAIN a.caps THEN a.caps[k] ELSE g.daa]]
  ELSE a

DeclareCaps(a, g, t) ==
  IF t \in Coinbase
  THEN [a EXCEPT !.caps = [k \in DOMAIN a.caps \cup Declares[t] |->
                             IF k \in Declares[t] THEN g.daa ELSE a.caps[k]]]
  ELSE a

\* What one transaction of group g, numbered n, adds to the inference tables.
IndexAi(a, g, t, n) ==
  LET b == IF IsKind(t, "request") THEN IndexRequest(a, g, t)
           ELSE IF IsKind(t, "response") THEN IndexResponse(a, g, t, n)
           ELSE IF IsKind(t, "challenge") THEN IndexChallenge(a, g, t)
           ELSE a
  IN DeclareCaps(b, g, t)

BeginAi(groups) ==
  /\ BeginApply(groups)
  /\ aiWork' = ai
  /\ UNCHANGED ai

SkipAi ==
  /\ SkipGroup
  /\ UNCHANGED <<ai, aiWork>>

IndexNextAi ==
  /\ IndexNextTx
  /\ aiWork' = IndexAi(aiWork, Group, Group.txs[wtx.pos], NextNum(wtx.work))
  /\ UNCHANGED ai

FinishAi ==
  /\ FinishGroup
  /\ UNCHANGED <<ai, aiWork>>

CommitAi ==
  /\ CommitApply
  /\ ai' = aiWork
  /\ aiWork' = Nil

AbortAi ==
  /\ AbortApply
  /\ aiWork' = Nil
  /\ UNCHANGED ai

----------------------------------------------------------------------------
(* unwind_chain_block and expire_below *)

UnwindAi(h) ==
  /\ Unwind(h)
  /\ UNCHANGED <<ai, aiWork>>

RowKeys(rec) == {rec.request_hash, rec.tx_id}

\* The keys of the request rows S: identities and transaction ids.
KeysOf(a, S) == UNION {RowKeys(a.req[s]) : s \in S}

\* Takes the rows at the cutoff too.
MutOlder(rows, cutoff) == {k \in DOMAIN rows : rows[k].daa <= cutoff}

Older(rows, cutoff) == {k \in DOMAIN rows : rows[k].daa < cutoff}

\* Leaves the responses of the expired requests behind.
MutExpiredResponses(a, keys, cutoff) == {}

ExpiredResponses(a, keys, cutoff) ==
  keys \cup Older(a.resp, cutoff)

\* The list entries whose transaction is still stored.
LiveEntries(a, rows) == {e \in a.resp_list : e[2] \in DOMAIN rows}

\* The inference half of expire_below; rows is the tx table after its sweep.
expire_ai(a, rows, cutoff) ==
  LET gone   == Older(a.req, cutoff)
      keys   == KeysOf(a, gone)
      byHash == Without(a.req_by_hash, keys)
  IN [ req         |-> Without(a.req, gone),
       req_by_hash |-> byHash,
       resp        |-> Without(a.resp, ExpiredResponses(a, keys, cutoff)),
       resp_list   |-> LiveEntries(a, rows),
       resp_hash   |-> Without(a.resp_hash,
                               {d \in DOMAIN a.resp_hash :
                                  a.resp_hash[d] \notin DOMAIN byHash}),
       chal        |-> Without(a.chal, Older(a.chal, cutoff)),
       caps        |-> Without(a.caps, {k \in DOMAIN a.caps : a.caps[k] < cutoff}),
       req_seq     |-> a.req_seq,
       chal_seq    |-> a.chal_seq ]

ExpireAi(cutoff) ==
  /\ Expire(cutoff)
  /\ ai' = expire_ai(ai, db'.tx, cutoff)
  /\ UNCHANGED aiWork

----------------------------------------------------------------------------
(* The reads behind /infer, /inference/{tx_id}, /challenges, /capabilities *)

first_response(a, rec) ==
  CASE rec.request_hash \in DOMAIN a.resp -> a.resp[rec.request_hash]
    [] rec.request_hash \notin DOMAIN a.resp /\ rec.tx_id \in DOMAIN a.resp
         -> a.resp[rec.tx_id]
    [] OTHER -> Nil

NewestFirst(S) ==
  [i \in 1 .. Cardinality(S) |->
     CHOOSE s \in S : Cardinality({r \in S : r > s}) = i - 1]

\* Newest first, sealed requests left out before the page is cut.
inference_feed(a, limit, offset) ==
  LET public == {s \in DOMAIN a.req : ~a.req[s].private}
      newest == NewestFirst(public)
      page   == SubSeq(newest, offset + 1, Min({offset + limit, Len(newest)}))
  IN [i \in 1 .. Len(page) |->
        [request  |-> a.req[page[i]],
         response |-> first_response(a, a.req[page[i]])]]

inference_by_tx(d, a, t) ==
  IF t \in DOMAIN a.req_by_hash /\ a.req_by_hash[t] \in DOMAIN a.req
  THEN LET rec == a.req[a.req_by_hash[t]]
       IN [ request   |-> rec,
            first     |-> first_response(a, rec),
            responses |-> {n \in DOMAIN d.tx :
                             /\ <<rec.request_hash, n>> \in a.resp_list
                             /\ IsKind(d.tx[n].tx_id, "response")} ]
  ELSE Nil

challenges(a, limit) ==
  LET newest == NewestFirst(DOMAIN a.chal)
  IN [i \in 1 .. Min({limit, Len(newest)}) |-> a.chal[newest[i]]]

\* A model is as recent as the last of its miners.
Capability(a, m) ==
  LET keys == {k \in DOMAIN a.caps : k[1] = m}
  IN [model_id |-> m, miner_pubkeys |-> {k[2] : k \in keys},
      last_seen_daa |-> Max({a.caps[k] : k \in keys})]

\* One entry per declared model; those seen at the same score are in any order.
capabilities(a) == {Capability(a, k[1]) : k \in DOMAIN a.caps}

----------------------------------------------------------------------------
AiInit ==
  /\ StoreInit
  /\ ai = EmptyAi
  /\ aiWork = Nil

AiNext ==
  \/ \E groups \in Seq(AcceptedGroup) : BeginAi(groups)
  \/ SkipAi
  \/ IndexNextAi
  \/ FinishAi
  \/ CommitAi
  \/ AbortAi
  \/ \E h \in Hash : UnwindAi(h)
  \/ \E cutoff \in Nat : ExpireAi(cutoff)

AiSpec == AiInit /\ [][AiNext]_aiVars

----------------------------------------------------------------------------
(* Properties *)

\* The stored responses to request identity id.
StoredAnswers(d, id) ==
  {n \in DOMAIN d.tx : /\ IsKind(d.tx[n].tx_id, "response")
                       /\ AiBody[d.tx[n].tx_id].request_hash = id}

\* The keys and the rows of the requests in a lead to each other.
KeysAgree(a) ==
  /\ \A k \in DOMAIN a.req_by_hash :
       /\ a.req_by_hash[k] \in DOMAIN a.req
       /\ k \in RowKeys(a.req[a.req_by_hash[k]])
  /\ \A s \in DOMAIN a.req : \A k \in RowKeys(a.req[s]) :
       k \in DOMAIN a.req_by_hash /\ a.req_by_hash[k] = s

\* The two lookup keys of a request and its row belong together: a key leads to
\* a row that has it as identity or transaction id, and both keys of a row lead
\* back to it, so no two rows share an identity and the sweep that removes a
\* row's keys cannot remove the keys of another (store.rs:525-545, 823-829).
RequestKeysAgree == KeysAgree(ai)

\* The response list of a request names exactly the stored responses to it,
\* across reorgs and expiry: entries outlive their transaction until the next
\* sweep (store.rs:845-846, 1080), and since a tx_num is never given out
\* twice a leftover entry never leads to some other transaction.
AnswersComplete ==
  \A id \in Digest \cup TxId :
    {n \in DOMAIN db.tx : <<id, n>> \in ai.resp_list} = StoredAnswers(db, id)

\* The sweep takes from the feed the requests below the cutoff and the
\* responses below it, and neither drops, reorders nor changes any other row.
FeedSurvives(cutoff) ==
  ExpireAi(cutoff) =>
    LET Inside(row)  == row.request.daa >= cutoff
        Trim(row)    == IF row.response # Nil /\ row.response.daa < cutoff
                        THEN [row EXCEPT !.response = Nil] ELSE row
        before       == inference_feed(ai, ai.req_seq, 0)
        kept         == SelectSeq(before, Inside)
    IN inference_feed(ai', ai.req_seq, 0) = [i \in 1 .. Len(kept) |-> Trim(kept[i])]

\* A request in the feed is the stored transaction it describes, and its
\* response is the earliest stored response to it, or none if none is stored:
\* "The first accepted response to a request" (store.rs:220).
FeedMatchesChain ==
  \A s \in DOMAIN ai.req :
    LET rec     == ai.req[s]
        first   == first_response(ai, rec)
        answers == StoredAnswers(db, rec.request_hash)
        Describes(r, n) == /\ db.tx[n].tx_id = r.tx_id
                           /\ db.tx[n].block = r.block
                           /\ db.tx[n].daa = r.daa
    IN /\ \E n \in DOMAIN db.tx : Describes(rec, n)
       /\ IF answers = {} THEN first = Nil
          ELSE first # Nil /\ Describes(first, Min(answers))

\* Every routed request stored in the window is found by its transaction id:
\* inference_by_tx is None only for a request "outside the window, not an
\* AiRequest, or indexed by shim 0.3.0" (store.rs:1056-1058).
RequestsFindable ==
  \A n \in DOMAIN db.tx :
    LET t == db.tx[n].tx_id
    IN IsKind(t, "request") /\ AiBody[t].routed => inference_by_tx(db, ai, t) # Nil

\* A challenge that does not name its request is filed under the request whose
\* response it disputes, whenever that request and then that response were
\* accepted before it and are still stored (store.rs:584-593).
ChallengesAttributed ==
  \A c \in Range(challenges(ai, ai.chal_seq)) :
    LET body == AiBody[c.tx_id]
    IN \A r \in DOMAIN ai.req : \A m \in StoredAnswers(db, ai.req[r].request_hash) :
         /\ body.request_hash = Nil
         /\ AiBody[db.tx[m].tx_id].digest = body.response_hash
         /\ \E n \in DOMAIN db.tx : n > m /\ db.tx[n].tx_id = c.tx_id
         /\ \E n \in DOMAIN db.tx : n < m /\ db.tx[n].tx_id = ai.req[r].tx_id
         => c.request_hash = ai.req[r].request_hash

\* The stored coinbases that declare <<model, miner>> pair k.
Declaring(k) ==
  {n \in DOMAIN db.tx : db.tx[n].tx_id \in Coinbase /\ k \in Declares[db.tx[n].tx_id]}

\* /capabilities lists the models that stored coinbases declare, each with the
\* miners that declare it and the score of the latest declaration: a sweep
\* takes a miner that has gone quiet and leaves the others of its model.
CapabilitiesMatchChain ==
  LET declared == {k \in UNION {Declares[t] : t \in Coinbase} : Declaring(k) # {}}
  IN capabilities(ai) =
       {[model_id |-> k[1],
         miner_pubkeys |-> {j[2] : j \in {x \in declared : x[1] = k[1]}},
         last_seen_daa |-> Max({db.tx[n].daa :
           n \in UNION {Declaring(j) : j \in {x \in declared : x[1] = k[1]}}})]
        : k \in declared}

=============================================================================
