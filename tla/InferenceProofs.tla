-------------------------- MODULE InferenceProofs --------------------------
(***************************************************************************)
(* Proofs about Inference, for every set of transactions and payloads and  *)
(* every sequence of calls.                                                *)
(*                                                                         *)
(* The inference tables are conjoined with the store, so every theorem of  *)
(* StoreProofs holds of the composition.  What is inductive about them is  *)
(* that a row's identity is that of its transaction, that sequence numbers *)
(* and listed tx_nums are below their counters, and the two properties,    *)
(* held of the committed tables and of the working copy.                   *)
(***************************************************************************)
EXTENDS Inference, StoreProofs

AiFields ==
  {"req", "req_by_hash", "resp", "resp_list", "resp_hash", "chal", "caps",
   "req_seq", "chal_seq"}

RowsSound(a) ==
  \A s \in DOMAIN a.req :
    /\ s \in Nat /\ s < a.req_seq
    /\ a.req[s].tx_id \in TxId
    /\ IsKind(a.req[s].tx_id, "request")
    /\ a.req[s].request_hash = request_identity(a.req[s].tx_id)

KeysSound(a) ==
  /\ DOMAIN a = AiFields
  /\ a.req_seq \in Nat
  /\ RowsSound(a)
  /\ KeysAgree(a)

Answers(t, id) == IsKind(t, "response") /\ AiBody[t].request_hash = id

ListSound(d, a) ==
  /\ \A e \in a.resp_list : e[2] \in Nat /\ e[2] < d.next_tx_num
  /\ \A id \in Digest \cup TxId : \A n \in DOMAIN d.tx :
       <<id, n>> \in a.resp_list <=> Answers(d.tx[n].tx_id, id)

AiInv ==
  /\ StoreInv
  /\ KeysSound(ai) /\ ListSound(db, ai)
  /\ wtx # Nil => KeysSound(aiWork) /\ ListSound(wtx.work, aiWork)

----------------------------------------------------------------------------
(* apply *)

\* The identity of a request is its transaction id or a digest.
LEMMA IdentityType ==
  ASSUME NEW t \in TxId, IsKind(t, "request")
  PROVE  request_identity(t) \in Digest \cup {t}
  <1>1. AiBody[t] \in AiRequest \cup AiResponse \cup AiChallenge
    BY AiAssumption DEF IsKind
  <1>2. AiBody[t] \in AiRequest
    BY <1>1 DEF IsKind, AiRequest, AiResponse, AiChallenge
  <1> QED BY <1>2 DEF request_identity, AiRequest

\* Indexing a request keeps the keys in order.  A transaction whose id is a
\* key already has a row, and that row has its identity for a key too.
LEMMA IndexRequestKeys ==
  ASSUME NEW a, NEW g, NEW t \in TxId, IsKind(t, "request"), KeysSound(a)
  PROVE  /\ KeysSound(IndexRequest(a, g, t))
         /\ IndexRequest(a, g, t).resp_list = a.resp_list
  <1> DEFINE id == request_identity(t)
             n  == a.req_seq
             b  == IndexRequest(a, g, t)
  <1>1. CASE id \in DOMAIN a.req_by_hash BY <1>1 DEF IndexRequest
  <1>2. CASE id \notin DOMAIN a.req_by_hash
    <2>1. /\ DOMAIN b = AiFields
          /\ b.req = Put(a.req, n, RequestRec(g, t))
          /\ b.req_by_hash = Put(Put(a.req_by_hash, id, n), t, n)
          /\ b.req_seq = n + 1
          /\ b.resp_list = a.resp_list
      BY <1>2 DEF IndexRequest, KeysSound, AiFields
    <2>2. id \in Digest \cup {t} BY IdentityType
    <2>3. /\ n \in Nat /\ RowsSound(a) /\ KeysAgree(a) BY DEF KeysSound
    <2>4. RequestRec(g, t).tx_id = t /\ RequestRec(g, t).request_hash = id
      BY DEF RequestRec
    <2> HIDE DEF id, n, b
    <2>5. n \notin DOMAIN a.req BY <2>3 DEF RowsSound, n
    <2>6. /\ DOMAIN b.req = DOMAIN a.req \cup {n}
          /\ b.req[n].tx_id = t /\ b.req[n].request_hash = id
          /\ \A s \in DOMAIN a.req : b.req[s] = a.req[s]
      BY <2>1, <2>4, <2>5 DEF Put
    <2>7. /\ DOMAIN b.req_by_hash = DOMAIN a.req_by_hash \cup {id, t}
          /\ b.req_by_hash[id] = n /\ b.req_by_hash[t] = n
          /\ \A k \in DOMAIN a.req_by_hash :
               k # id /\ k # t => b.req_by_hash[k] = a.req_by_hash[k]
      BY <2>1 DEF Put
    <2>8. t \notin DOMAIN a.req_by_hash
      <3> SUFFICES ASSUME t \in DOMAIN a.req_by_hash PROVE FALSE
        OBVIOUS
      <3> DEFINE s == a.req_by_hash[t]
      <3>1. s \in DOMAIN a.req /\ t \in {a.req[s].request_hash, a.req[s].tx_id}
        BY <2>3 DEF KeysAgree, RowKeys
      <3>2. /\ a.req[s].tx_id \in TxId
            /\ a.req[s].request_hash = request_identity(a.req[s].tx_id)
            /\ request_identity(a.req[s].tx_id) \in Digest \cup {a.req[s].tx_id}
        BY <3>1, <2>3, IdentityType DEF RowsSound
      <3>3. a.req[s].tx_id = t BY <3>1, <3>2, AiAssumption
      <3>4. a.req[s].request_hash = id BY <3>2, <3>3 DEF id
      <3>5. id \in DOMAIN a.req_by_hash BY <3>1, <3>4, <2>3 DEF KeysAgree, RowKeys
      <3> QED BY <3>5, <1>2
    <2>9. RowsSound(b)
      <3>1. \A s \in DOMAIN a.req : s \in Nat /\ s < n BY <2>3 DEF RowsSound, n
      <3> QED BY <3>1, <2>1, <2>3, <2>6 DEF RowsSound, id
    <2>10. KeysAgree(b)
      <3>1. ASSUME NEW k \in DOMAIN b.req_by_hash
            PROVE  /\ b.req_by_hash[k] \in DOMAIN b.req
                   /\ k \in RowKeys(b.req[b.req_by_hash[k]])
        <4>1. CASE k \in {id, t} BY <4>1, <2>6, <2>7 DEF RowKeys
        <4>2. CASE k \notin {id, t}
          <5>1. /\ k \in DOMAIN a.req_by_hash
                /\ b.req_by_hash[k] = a.req_by_hash[k]
            BY <4>2, <2>7
          <5>2. /\ a.req_by_hash[k] \in DOMAIN a.req
                /\ k \in RowKeys(a.req[a.req_by_hash[k]])
            BY <5>1, <2>3 DEF KeysAgree
          <5> QED BY <5>1, <5>2, <2>6 DEF RowKeys
        <4> QED BY <4>1, <4>2
      <3>2. ASSUME NEW s \in DOMAIN b.req, NEW k \in RowKeys(b.req[s])
            PROVE  k \in DOMAIN b.req_by_hash /\ b.req_by_hash[k] = s
        <4>1. CASE s = n BY <4>1, <2>6, <2>7 DEF RowKeys
        <4>2. CASE s # n
          <5>1. s \in DOMAIN a.req /\ b.req[s] = a.req[s] BY <4>2, <2>6
          <5>2. k \in RowKeys(a.req[s]) BY <5>1 DEF RowKeys
          <5>3. k \in DOMAIN a.req_by_hash /\ a.req_by_hash[k] = s
            BY <5>1, <5>2, <2>3 DEF KeysAgree
          <5> QED BY <5>3, <2>7, <2>8, <1>2
        <4> QED BY <4>1, <4>2
      <3> QED BY <3>1, <3>2 DEF KeysAgree
    <2> QED BY <2>1, <2>3, <2>9, <2>10 DEF KeysSound, b
  <1> QED BY <1>1, <1>2

\* Tables with the same requests and keys are sound together.
LEMMA SameRequests ==
  ASSUME NEW a, NEW b, KeysSound(a), DOMAIN b = AiFields, b.req = a.req,
         b.req_by_hash = a.req_by_hash, b.req_seq = a.req_seq
  PROVE  KeysSound(b)
  BY DEF KeysSound, RowsSound, KeysAgree

\* Indexing a transaction keeps the keys in order, and lists it if it is a
\* response.
LEMMA IndexAiFacts ==
  ASSUME NEW a, NEW g, NEW t \in TxId, NEW n, KeysSound(a)
  PROVE  LET b == IndexAi(a, g, t, n)
         IN /\ KeysSound(b)
            /\ b.resp_list = IF IsKind(t, "response")
                             THEN a.resp_list \cup {<<AiBody[t].request_hash, n>>}
                             ELSE a.resp_list
  <1> DEFINE c == IF IsKind(t, "request") THEN IndexRequest(a, g, t)
                  ELSE IF IsKind(t, "response") THEN IndexResponse(a, g, t, n)
                  ELSE IF IsKind(t, "challenge") THEN IndexChallenge(a, g, t)
                  ELSE a
             list == IF IsKind(t, "response")
                     THEN a.resp_list \cup {<<AiBody[t].request_hash, n>>}
                     ELSE a.resp_list
  <1>0. DOMAIN a = AiFields BY DEF KeysSound
  <1>1. KeysSound(c) /\ c.resp_list = list
    <2>1. CASE IsKind(t, "request")
      <3>1. ~IsKind(t, "response") /\ ~IsKind(t, "challenge") BY <2>1 DEF IsKind
      <3>2. c = IndexRequest(a, g, t) BY <2>1, <3>1
      <3> QED BY <2>1, <3>1, <3>2, IndexRequestKeys
    <2>2. CASE IsKind(t, "response")
      <3>1. ~IsKind(t, "request") /\ ~IsKind(t, "challenge") BY <2>2 DEF IsKind
      <3>2. c = IndexResponse(a, g, t, n) BY <2>2, <3>1
      <3>3. /\ DOMAIN c = AiFields /\ c.req = a.req /\ c.req_seq = a.req_seq
            /\ c.req_by_hash = a.req_by_hash
            /\ c.resp_list = a.resp_list \cup {<<AiBody[t].request_hash, n>>}
        BY <3>2, <1>0 DEF IndexResponse, AiFields
      <3> HIDE DEF c
      <3> QED BY <3>3, <2>2, SameRequests
    <2>3. CASE IsKind(t, "challenge")
      <3>1. ~IsKind(t, "request") /\ ~IsKind(t, "response") BY <2>3 DEF IsKind
      <3>2. c = IndexChallenge(a, g, t) BY <2>3, <3>1
      <3>3. /\ DOMAIN c = AiFields /\ c.req = a.req /\ c.req_seq = a.req_seq
            /\ c.req_by_hash = a.req_by_hash /\ c.resp_list = a.resp_list
        BY <3>2, <1>0 DEF IndexChallenge, AiFields
      <3> HIDE DEF c
      <3> QED BY <3>1, <3>3, SameRequests
    <2>4. CASE ~IsKind(t, "request") /\ ~IsKind(t, "response") /\ ~IsKind(t, "challenge")
      BY <2>4
    <2> QED BY <2>1, <2>2, <2>3, <2>4
  <1> DEFINE b == DeclareCaps(c, g, t)
  <1>2. IndexAi(a, g, t, n) = b BY DEF IndexAi
  <1> HIDE DEF c, list
  <1>3. /\ DOMAIN b = AiFields /\ b.req = c.req /\ b.req_seq = c.req_seq
        /\ b.req_by_hash = c.req_by_hash /\ b.resp_list = c.resp_list
    BY <1>1 DEF DeclareCaps, KeysSound, AiFields
  <1> HIDE DEF b
  <1>4. KeysSound(b) BY <1>1, <1>3, SameRequests
  <1> QED BY <1>1, <1>2, <1>3, <1>4 DEF list

----------------------------------------------------------------------------
(* expire_below *)

\* Removing the old requests with all their keys keeps the keys in order: a
\* key of a removed row is no key of a row that stays.
LEMMA ExpireKeys ==
  ASSUME NEW a, NEW rows, NEW cutoff, KeysSound(a)
  PROVE  KeysSound(expire_ai(a, rows, cutoff))
  <1> DEFINE gone == Older(a.req, cutoff)
             keys == KeysOf(a, gone)
             b    == expire_ai(a, rows, cutoff)
  <1>1. /\ DOMAIN b = AiFields
        /\ b.req = Without(a.req, gone)
        /\ b.req_by_hash = Without(a.req_by_hash, keys)
        /\ b.req_seq = a.req_seq
    BY DEF expire_ai, AiFields
  <1>2. \A k : k \in keys <=> \E r \in gone : k \in RowKeys(a.req[r])
    BY DEF KeysOf
  <1>3. gone \subseteq DOMAIN a.req BY DEF Older
  <1>4. a.req_seq \in Nat /\ RowsSound(a) /\ KeysAgree(a) BY DEF KeysSound
  <1> HIDE DEF gone, keys, b
  <1>5. /\ DOMAIN b.req = DOMAIN a.req \ gone
        /\ \A s \in DOMAIN b.req : b.req[s] = a.req[s]
        /\ DOMAIN b.req_by_hash = DOMAIN a.req_by_hash \ keys
        /\ \A k \in DOMAIN b.req_by_hash : b.req_by_hash[k] = a.req_by_hash[k]
    BY <1>1 DEF Without
  <1>6. RowsSound(b) BY <1>1, <1>4, <1>5 DEF RowsSound
  <1>7. ASSUME NEW k \in DOMAIN b.req_by_hash
        PROVE  /\ b.req_by_hash[k] \in DOMAIN b.req
               /\ k \in RowKeys(b.req[b.req_by_hash[k]])
    <2>1. /\ a.req_by_hash[k] \in DOMAIN a.req
          /\ k \in RowKeys(a.req[a.req_by_hash[k]])
      BY <1>4, <1>5 DEF KeysAgree
    <2>2. a.req_by_hash[k] \notin gone BY <2>1, <1>2, <1>5
    <2> QED BY <2>1, <2>2, <1>5
  <1>8. ASSUME NEW s \in DOMAIN b.req, NEW k \in RowKeys(b.req[s])
        PROVE  k \in DOMAIN b.req_by_hash /\ b.req_by_hash[k] = s
    <2>1. s \in DOMAIN a.req /\ s \notin gone /\ k \in RowKeys(a.req[s]) BY <1>5
    <2>2. k \in DOMAIN a.req_by_hash /\ a.req_by_hash[k] = s
      BY <2>1, <1>4 DEF KeysAgree
    <2>3. ASSUME NEW r \in gone, k \in RowKeys(a.req[r]) PROVE FALSE
      BY <2>1, <2>2, <2>3, <1>3, <1>4 DEF KeysAgree
    <2>4. k \notin keys BY <2>3, <1>2
    <2> QED BY <2>2, <2>4, <1>5
  <1>9. KeysAgree(b) BY <1>7, <1>8 DEF KeysAgree
  <1> QED BY <1>1, <1>4, <1>6, <1>9 DEF KeysSound, b

\* A list entry of a row number that was never used names no row, so fewer
\* rows under the same numbers are listed as before.
LEMMA FewerRows ==
  ASSUME NEW d, NEW e, NEW a, ListSound(d, a),
         d.next_tx_num \in Nat, e.next_tx_num \in Nat,
         e.next_tx_num >= d.next_tx_num,
         DOMAIN e.tx \subseteq DOMAIN d.tx,
         \A n \in DOMAIN e.tx : e.tx[n] = d.tx[n]
  PROVE  ListSound(e, a)
  <1>1. \A x \in a.resp_list : x[2] \in Nat /\ x[2] < e.next_tx_num
    BY DEF ListSound
  <1>2. \A id \in Digest \cup TxId : \A n \in DOMAIN e.tx :
          <<id, n>> \in a.resp_list <=> Answers(e.tx[n].tx_id, id)
    BY DEF ListSound
  <1> QED BY <1>1, <1>2 DEF ListSound

----------------------------------------------------------------------------
(* The invariant *)

\* The empty tables satisfy the invariant.
LEMMA InitAiInv ==
  ASSUME AiInit
  PROVE  AiInv
  <1>1. StoreInv BY InitStoreInv DEF AiInit
  <1>2. /\ ai.req = Empty /\ ai.req_by_hash = Empty /\ ai.resp_list = {}
        /\ ai.req_seq = 0 /\ DOMAIN ai = AiFields
    BY DEF AiInit, EmptyAi, AiFields
  <1>3. DOMAIN Empty = {} BY DEF Empty
  <1>4. KeysSound(ai) BY <1>2, <1>3 DEF KeysSound, RowsSound, KeysAgree
  <1>5. db.tx = Empty BY DEF AiInit, StoreInit, EmptyDb
  <1>6. ListSound(db, ai) BY <1>2, <1>3, <1>5 DEF ListSound
  <1>7. wtx = Nil BY DEF AiInit, StoreInit
  <1> QED BY <1>1, <1>4, <1>6, <1>7 DEF AiInv

\* Indexing a transaction lists its row when it is a response, and no other
\* entry is about that row: its number is new.
LEMMA IndexNextAiInv ==
  ASSUME AiInv, IndexNextAi
  PROVE  KeysSound(aiWork') /\ ListSound(wtx'.work, aiWork')
  <1> DEFINE t == Group.txs[wtx.pos]
             d == wtx.work
             n == d.next_tx_num
             e == IndexTx(d, Group, t)
             a == aiWork
             b == IndexAi(a, Group, t, n)
  <1>1. /\ wtx'.work = e /\ aiWork' = b /\ wtx # Nil /\ InGroup
        /\ wtx.pos <= Len(Group.txs)
    BY DEF IndexNextAi, IndexNextTx, Txn, NextNum, InGroup
  <1>2. /\ TypeOK /\ TablesOK(d) /\ ListsAgree(d) /\ KeysSound(a) /\ ListSound(d, a)
    BY <1>1 DEF AiInv, StoreInv, Sound
  <1>3. t \in TxId BY <1>1, <1>2, GroupType
  <1>4. /\ n \in Nat /\ n \notin DOMAIN d.tx
        /\ DOMAIN e.tx = DOMAIN d.tx \cup {n}
        /\ e.tx[n].tx_id = t
        /\ \A m \in DOMAIN d.tx : e.tx[m] = d.tx[m]
        /\ e.next_tx_num = n + 1
    BY <1>2, IndexTxRows
  <1>5. /\ KeysSound(b)
        /\ b.resp_list = IF IsKind(t, "response")
                         THEN a.resp_list \cup {<<AiBody[t].request_hash, n>>}
                         ELSE a.resp_list
    BY <1>2, <1>3, IndexAiFacts
  <1>6. n = d.next_tx_num OBVIOUS
  <1> HIDE DEF t, d, n, e, a, b
  <1>7. \A x \in a.resp_list : x[2] \in Nat /\ x[2] < n
    BY <1>2, <1>6 DEF ListSound
  <1>8. \A x \in b.resp_list : x[2] \in Nat /\ x[2] < e.next_tx_num
    BY <1>4, <1>5, <1>7
  <1>9. ASSUME NEW id \in Digest \cup TxId, NEW m \in DOMAIN e.tx
        PROVE  <<id, m>> \in b.resp_list <=> Answers(e.tx[m].tx_id, id)
    <2>1. CASE m = n
      <3>1. <<id, m>> \notin a.resp_list BY <2>1, <1>4, <1>7
      <3> QED BY <2>1, <3>1, <1>4, <1>5 DEF Answers
    <2>2. CASE m # n
      <3>1. m \in DOMAIN d.tx /\ e.tx[m] = d.tx[m] BY <2>2, <1>4
      <3>2. <<id, m>> \in b.resp_list <=> <<id, m>> \in a.resp_list
        BY <2>2, <1>5
      <3> QED BY <3>1, <3>2, <1>2 DEF ListSound
    <2> QED BY <2>1, <2>2
  <1> QED BY <1>1, <1>5, <1>8, <1>9 DEF ListSound

\* A sweep takes the list entries of rows that have gone, and no others.
LEMMA ExpireAiInv ==
  ASSUME AiInv, NEW cutoff \in Nat, ExpireAi(cutoff)
  PROVE  KeysSound(ai') /\ ListSound(db', ai')
  <1>1. /\ db' = expire_below(db, cutoff) /\ ai' = expire_ai(ai, db'.tx, cutoff)
    BY DEF ExpireAi, Expire
  <1>2. KeysSound(ai') BY <1>1, ExpireKeys DEF AiInv
  <1>3. /\ db'.tx = Without(db.tx, ExpiredTxs(db, cutoff))
        /\ db'.next_tx_num = db.next_tx_num
    BY <1>1 DEF expire_below
  <1>4. /\ DOMAIN db'.tx \subseteq DOMAIN db.tx
        /\ \A n \in DOMAIN db'.tx : db'.tx[n] = db.tx[n]
    BY <1>3 DEF Without
  <1>5. db.next_tx_num \in Nat /\ ListSound(db, ai)
    BY DEF AiInv, StoreInv, TypeOK, TablesOK
  <1>6. ListSound(db', ai) BY <1>3, <1>4, <1>5, FewerRows
  <1>7. ai'.resp_list = {x \in ai.resp_list : x[2] \in DOMAIN db'.tx}
    BY <1>1 DEF expire_ai, LiveEntries
  <1>8. ListSound(db', ai')
    <2>1. \A x \in ai'.resp_list : x[2] \in Nat /\ x[2] < db'.next_tx_num
      BY <1>6, <1>7 DEF ListSound
    <2>2. ASSUME NEW id \in Digest \cup TxId, NEW n \in DOMAIN db'.tx
          PROVE  <<id, n>> \in ai'.resp_list <=> Answers(db'.tx[n].tx_id, id)
      <3>1. <<id, n>> \in ai'.resp_list <=> <<id, n>> \in ai.resp_list BY <1>7
      <3> QED BY <3>1, <1>6 DEF ListSound
    <2> QED BY <2>1, <2>2 DEF ListSound
  <1> QED BY <1>2, <1>8

\* A step of the composition is a step of the store, or leaves it alone.
LEMMA AiStepIsStoreStep ==
  ASSUME [AiNext]_aiVars
  PROVE  [StoreNext]_storeVars
  BY DEF AiNext, StoreNext, aiVars, storeVars, BeginAi, SkipAi, IndexNextAi,
         FinishAi, CommitAi, AbortAi, UnwindAi, ExpireAi

\* Every step keeps the invariant.
LEMMA NextAiInv ==
  ASSUME AiInv, [AiNext]_aiVars
  PROVE  AiInv'
  <1> DEFINE Rest == /\ KeysSound(ai') /\ ListSound(db', ai')
                     /\ wtx' # Nil => KeysSound(aiWork') /\ ListSound(wtx'.work, aiWork')
  <1>0. StoreInv' BY AiStepIsStoreStep, NextStoreInv DEF AiInv
  <1> SUFFICES Rest BY <1>0 DEF AiInv
  <1>1. CASE \E groups \in Seq(AcceptedGroup) : BeginAi(groups)
    BY <1>1 DEF AiInv, BeginAi, BeginApply, Txn
  <1>2. CASE SkipAi
    BY <1>2 DEF AiInv, SkipAi, SkipGroup, InGroup, Txn
  <1>3. CASE IndexNextAi
    <2>1. db' = db /\ ai' = ai BY <1>3 DEF IndexNextAi, IndexNextTx
    <2> QED BY <2>1, <1>3, IndexNextAiInv DEF AiInv
  <1>4. CASE FinishAi
    <2>1. /\ db' = db /\ ai' = ai /\ aiWork' = aiWork /\ wtx # Nil
          /\ wtx'.work = RecordBlock(wtx.work, Group, wtx.nums)
      BY <1>4 DEF FinishAi, FinishGroup, InGroup, Txn
    <2>2. /\ wtx'.work.tx = wtx.work.tx
          /\ wtx'.work.next_tx_num = wtx.work.next_tx_num
      BY <2>1 DEF RecordBlock
    <2>3. ListSound(wtx'.work, aiWork')
      BY <2>1, <2>2 DEF AiInv, ListSound
    <2> QED BY <2>1, <2>3 DEF AiInv
  <1>5. CASE CommitAi BY <1>5 DEF AiInv, CommitAi, CommitApply
  <1>6. CASE AbortAi BY <1>6 DEF AiInv, AbortAi, AbortApply
  <1>7. CASE \E h \in Hash : UnwindAi(h)
    <2>1. PICK h \in Hash : UnwindAi(h) BY <1>7
    <2>2. ai' = ai /\ wtx' = Nil /\ Unwind(h) BY <2>1 DEF UnwindAi, Unwind
    <2>3. CASE h \notin DOMAIN db.acc
      <3>1. db' = db BY <2>2, <2>3 DEF Unwind
      <3> QED BY <2>2, <3>1 DEF AiInv
    <2>4. CASE h \in DOMAIN db.acc
      <3>1. db' = unwind_chain_block(db, h) BY <2>2, <2>4 DEF Unwind
      <3>2. /\ db'.tx = Without(db.tx, db.acc[h] \cap DOMAIN db.tx)
            /\ db'.next_tx_num = db.next_tx_num
        BY <3>1 DEF unwind_chain_block
      <3>3. /\ DOMAIN db'.tx \subseteq DOMAIN db.tx
            /\ \A n \in DOMAIN db'.tx : db'.tx[n] = db.tx[n]
        BY <3>2 DEF Without
      <3>4. db.next_tx_num \in Nat /\ ListSound(db, ai) /\ KeysSound(ai)
        BY DEF AiInv, StoreInv, TypeOK, TablesOK
      <3>5. ListSound(db', ai) BY <3>2, <3>3, <3>4, FewerRows
      <3> QED BY <2>2, <3>4, <3>5
    <2> QED BY <2>3, <2>4
  <1>8. CASE \E cutoff \in Nat : ExpireAi(cutoff)
    <2>1. wtx' = Nil BY <1>8 DEF ExpireAi, Expire
    <2> QED BY <2>1, <1>8, ExpireAiInv
  <1>9. CASE UNCHANGED aiVars BY <1>9 DEF AiInv, aiVars
  <1> QED
    BY <1>1, <1>2, <1>3, <1>4, <1>5, <1>6, <1>7, <1>8, <1>9 DEF AiNext

----------------------------------------------------------------------------
(* Theorems *)

\* The inference tables ride along: whatever they do, the ledger tables behave
\* as Store says (they share apply's and expire_below's write transaction), so
\* every theorem about StoreSpec holds of the composition.
THEOREM InferenceKeepsStore == AiSpec => StoreSpec
  <1>1. AiInit => StoreInit BY DEF AiInit
  <1>2. [AiNext]_aiVars => [StoreNext]_storeVars BY AiStepIsStoreStep
  <1> QED BY <1>1, <1>2, PTL DEF AiSpec, StoreSpec

\* The invariant behind the theorems below holds in every reachable state.
THEOREM AiInvariance == AiSpec => []AiInv
  <1>1. AiInit => AiInv BY InitAiInv
  <1>2. AiInv /\ [AiNext]_aiVars => AiInv' BY NextAiInv
  <1> QED BY <1>1, <1>2, PTL DEF AiSpec

\* The keys and rows of requests always belong together (store.rs:525-545,
\* 823-829), whatever the payloads and the order of calls.
THEOREM RequestKeysSound == AiSpec => []RequestKeysAgree
  <1>1. AiInv => RequestKeysAgree BY DEF AiInv, KeysSound, RequestKeysAgree
  <1> QED BY <1>1, AiInvariance, PTL

\* The list of a request's responses always names exactly the stored ones
\* (store.rs:560-567, 845-857, 1072-1090), reorgs included although
\* unwind_chain_block leaves the list alone.
THEOREM AnswersAlwaysComplete == AiSpec => []AnswersComplete
  <1>1. AiInv => AnswersComplete
    <2> SUFFICES ASSUME AiInv, NEW id \in Digest \cup TxId
                 PROVE  {n \in DOMAIN db.tx : <<id, n>> \in ai.resp_list}
                          = StoredAnswers(db, id)
      BY DEF AnswersComplete
    <2>1. \A n \in DOMAIN db.tx :
            <<id, n>> \in ai.resp_list <=> Answers(db.tx[n].tx_id, id)
      BY DEF AiInv, ListSound
    <2> QED BY <2>1 DEF StoredAnswers, Answers
  <1> QED BY <1>1, AiInvariance, PTL

=============================================================================
