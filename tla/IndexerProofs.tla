--------------------------- MODULE IndexerProofs ---------------------------
(***************************************************************************)
(* What the chain follower promises: a live index is subscribed, the rows  *)
(* of the retention window are stored once, /health shows the tables, and  *)
(* channel and staging keep to their capacity.                             *)
(***************************************************************************)
EXTENDS FollowProofs

----------------------------------------------------------------------------
(* Live means subscribed *)

\* The handler of Connected has both its subscriptions behind it.
InBackfill ==
  pc \in {"backfill", "sink", "virtual_chain", "get_blocks"} \/ job.from # Nil

\* What the handler of Connected did was done on the stream that is up, if it is
\* still the stream it was told of.
SubInv ==
  conn /\ status.generation = generation =>
    /\ pc = "notify_virtual_chain_changed" => "block" \in sub
    /\ InBackfill => sub = {"block", "chain"}
    /\ status.state = "live" => sub = {"block", "chain"}

\* A call that fails, is answered late or lands on another stream never brings
\* the follower into a backfill it has not subscribed for.
LEMMA SubStep ==
  ASSUME FollowInv, SubInv, [Next]_vars
  PROVE  SubInv'
  <1>1. /\ sub \subseteq {"block", "chain"} /\ (~conn => sub = {})
        /\ generation \in Nat /\ status.generation \in Nat
        /\ status.generation <= generation
        /\ pc \in Before => job.from = Nil
    BY DEF FollowInv, NodeInv, StatusInv, JobInv
  <1>2. NoJob.from = Nil BY NoJobFacts
  <1>3. ASSUME UNCHANGED <<conn, generation, sub, status>>, InBackfill' => InBackfill,
               pc' # "notify_virtual_chain_changed" \/ pc' = pc
        PROVE  SubInv'
    BY <1>3 DEF SubInv
  <1>4. ASSUME UNCHANGED <<conn, generation, sub>>, status'.generation = status.generation,
               pc' = "recv", job' = NoJob,
               \/ status'.state = status.state
               \/ status'.state = "live" /\ InBackfill
        PROVE  SubInv'
    BY <1>2, <1>4 DEF SubInv, InBackfill
  <1>5. CASE UNCHANGED vars
    BY <1>5 DEF SubInv, InBackfill, vars, nodeVars, taskVars
  <1>6. CASE \E h \in Hash \ {Genesis} : Mine(h)
    BY <1>6 DEF Mine, SubInv, InBackfill, taskVars
  <1>7. CASE Connect
    <2>1. generation' = generation + 1 /\ status' = status BY <1>7 DEF Connect, taskVars
    <2>2. status'.generation # generation' BY <1>1, <2>1
    <2> QED BY <2>2 DEF SubInv
  <1>8. CASE Disconnect BY <1>8 DEF Disconnect, SubInv
  <1>9. CASE Crash BY <1>9 DEF Crash, SubInv
  <1>10. CASE RecvConnected
    <2>1. /\ pc' \in {"open_store", "notify_block_added"} /\ job' = job /\ pc = "recv"
      BY <1>10 DEF RecvConnected
    <2>2. status'.state = "connecting"
      <3>1. IsStatus(status) BY DEF FollowInv, StatusInv
      <3> DEFINE t == [status EXCEPT !.state = "connecting"]
      <3>2. status' = [t EXCEPT !.generation = Head(notifs).generation]
        BY <1>10 DEF RecvConnected, InState
      <3>3. IsStatus(t) /\ t.state = "connecting" BY Zenon, <3>1, SetFacts
      <3> HIDE DEF t
      <3> QED BY <3>2, <3>3, SetFacts
    <2> QED BY <1>1, <2>1, <2>2 DEF SubInv, InBackfill, Before
  <1>11. CASE OpenStore
    <2>1. /\ pc = "open_store" /\ pc' \in {"notify_block_added", "recv"} /\ job' = job
          /\ UNCHANGED <<conn, generation, sub, status>>
      BY <1>11 DEF OpenStore, nodeVars
    <2> QED BY <1>3, <2>1 DEF InBackfill
  <1>12. CASE SubscribeBlocks
    <2>1. /\ pc = "notify_block_added" /\ sub' = sub \cup {"block"} /\ job' = job
          /\ pc' \in {"notify_virtual_chain_changed", "recv"}
          /\ UNCHANGED <<conn, generation, status>>
      BY <1>12 DEF SubscribeBlocks, Subscribe
    <2> QED BY <1>1, <2>1 DEF SubInv, InBackfill
  <1>13. CASE SubscribeChain
    <2>1. /\ pc = "notify_virtual_chain_changed" /\ sub' = sub \cup {"chain"}
          /\ pc' \in {"backfill", "recv"} /\ job' = job
          /\ UNCHANGED <<conn, generation>>
          /\ status' = IF pc' = "backfill" THEN InState("backfilling") ELSE status
      BY <1>13 DEF SubscribeChain, Subscribe
    <2>2. status'.generation = status.generation
      BY <2>1, SetFacts DEF InState, FollowInv, StatusInv
    <2>3. conn /\ status.generation = generation => sub' = {"block", "chain"}
      BY Zenon, <1>1, <2>1 DEF SubInv
    <2> QED BY <2>1, <2>2, <2>3 DEF SubInv
  <1>14. CASE BackfillStart
    <2>1. /\ pc = "backfill" /\ pc' \in {"virtual_chain", "sink"}
          /\ UNCHANGED <<conn, generation, sub, status>>
      BY <1>14 DEF BackfillStart, nodeVars
    <2> QED BY <1>3, <2>1 DEF InBackfill
  <1>15. CASE GetSink \/ GetVirtualChain
    <2>1. /\ pc \in {"sink", "virtual_chain"}
          /\ pc' \in {"virtual_chain", "build_groups", "get_blocks"}
          /\ UNCHANGED <<conn, generation, sub, status>>
      BY <1>15 DEF GetSink, GetVirtualChain, nodeVars
    <2> QED BY <1>3, <2>1 DEF InBackfill
  <1>16. CASE GetBlocks
    <2>1. pc = "get_blocks" /\ pc' = "build_groups" /\ UNCHANGED <<conn, generation, sub, status>>
      BY <1>16 DEF GetBlocks, nodeVars
    <2> QED BY <1>3, <2>1 DEF InBackfill
  <1>17. CASE RpcError
    <2>1. UNCHANGED <<conn, generation, sub>> /\ CallFails BY <1>17 DEF RpcError, nodeVars
    <2>2. CASE /\ pc = "open_store" /\ pc' \in {"notify_block_added", "recv"}
               /\ status' = status /\ job' = job
      BY <1>3, <2>1, <2>2 DEF InBackfill
    <2>3. CASE Idle(status) BY <1>4, <2>1, <2>3 DEF Idle
    <2>4. CASE pc \in {"sink", "virtual_chain"} /\ Idle(InState("live"))
      <3>1. /\ pc' = "recv" /\ job' = NoJob /\ InBackfill
            /\ status' = [status EXCEPT !.state = "live"]
        BY <2>4 DEF Idle, InState, InBackfill
      <3>2. status'.generation = status.generation /\ status'.state = "live"
        BY <3>1, SetFacts DEF FollowInv, StatusInv
      <3> QED BY <1>4, <2>1, <3>1, <3>2
    <2>5. CASE /\ pc = "get_blocks" /\ pc' = "build_groups"
               /\ status' = status /\ job' = job
      BY <1>3, <2>1, <2>5 DEF InBackfill
    <2> QED BY <2>1, <2>2, <2>3, <2>4, <2>5, CallFailsCases
  <1>18. CASE RecvBlockAdded
    <2>1. /\ pc' = pc /\ job' = job /\ UNCHANGED <<conn, generation, sub>>
          /\ status' = [status EXCEPT !.staged_blocks = Len(staging'.blocks)]
      BY <1>18 DEF RecvBlockAdded, nodeVars
    <2>2. status'.generation = status.generation /\ status'.state = status.state
      BY <2>1, SetFacts DEF FollowInv, StatusInv
    <2> QED BY <2>1, <2>2 DEF SubInv, InBackfill
  <1>19. CASE RecvChainChanged
    <2>1. /\ pc = "recv" /\ UNCHANGED <<conn, generation, sub, status>>
          /\ \/ pc' = pc /\ job' = job
             \/ pc' = "unwind" /\ \E r, a : job' = [NoJob EXCEPT !.removed = r, !.accepted = a]
      BY Zenon, <1>19 DEF RecvChainChanged, nodeVars
    <2>2. \A r, a : [NoJob EXCEPT !.removed = r, !.accepted = a].from = Nil BY DEF NoJob
    <2> QED BY Zenon, <1>3, <2>1, <2>2 DEF InBackfill
  <1>20. CASE UnwindNext \/ Unwound
    <2>1. /\ pc = "unwind" /\ pc' \in {"unwind", "build_groups"}
          /\ UNCHANGED <<conn, generation, sub, status>>
          /\ job' = job \/ job' = [job EXCEPT !.removed = Tail(@)]
      BY <1>20 DEF UnwindNext, Unwound, nodeVars
    <2>2. job'.from = job.from BY <2>1 DEF FollowInv, JobInv
    <2> QED BY <1>3, <2>1, <2>2 DEF InBackfill
  <1>21. ASSUME NEW s, Finish(s), IsStatus(s), s.state = status.state,
                s.generation = status.generation, UNCHANGED nodeVars
         PROVE  SubInv'
    <2>1. /\ pc' = "recv" /\ job' = NoJob /\ status'.generation = status.generation
          /\ \/ status'.state = status.state
             \/ status'.state = "live" /\ job.from # Nil
      BY <1>21, FinishFacts
    <2> QED BY <1>4, <1>21, <2>1 DEF InBackfill, nodeVars
  <1>22. CASE BuildGroups
    <2>1. UNCHANGED nodeVars /\ pc = "build_groups" BY <1>22 DEF BuildGroups
    <2>2. CASE Finish(status) BY <1>21, <2>1, <2>2 DEF FollowInv, StatusInv
    <2>3. CASE /\ pc' = "apply" /\ status' = status
               /\ \E n : job' = [job EXCEPT !.misses = n]
      <3>1. job'.from = job.from BY <2>3 DEF FollowInv, JobInv
      <3> QED BY <1>3, <2>1, <2>3, <3>1 DEF InBackfill, nodeVars
    <2> QED BY <1>22, <2>2, <2>3 DEF BuildGroups
  <1>23. CASE ApplyStep BY <1>23 DEF ApplyStep, SubInv, InBackfill, nodeVars, taskVars
  <1>24. CASE ApplyFails BY <1>21, <1>24 DEF ApplyFails, FollowInv, StatusInv
  <1>25. CASE ApplyDone
    <2>1. UNCHANGED nodeVars /\ pc = "apply" BY <1>25 DEF ApplyDone
    <2>2. CASE Finish(Refreshed(db', ctx'.total_misses))
      BY <1>21, <2>1, <2>2, RefreshedMatches DEF FollowInv, StatusInv
    <2>3. CASE /\ pc' = "expire" /\ status' = status
               /\ job' = [job EXCEPT !.newest = wtx.newest]
      <3>1. job'.from = job.from BY <2>3 DEF FollowInv, JobInv
      <3> QED BY <1>3, <2>1, <2>3, <3>1 DEF InBackfill, nodeVars
    <2> QED BY <1>25, <2>2, <2>3 DEF ApplyDone
  <1>26. CASE Sweep
    BY <1>21, <1>26, RefreshedMatches DEF Sweep, FollowInv, StatusInv
  <1> QED
    BY <1>5, <1>6, <1>7, <1>8, <1>9, <1>10, <1>11, <1>12, <1>13, <1>14, <1>15, <1>16,
       <1>17, <1>18, <1>19, <1>20, <1>22, <1>23, <1>24, <1>25, <1>26
       DEF Next, Task, Environment

\* /health says "live" for the stream that is up only if the node holds both
\* subscriptions of that stream.
THEOREM LiveIsSubscribed == Spec => []LiveMeansSubscribed
  <1>1. Init => SubInv BY DEF Init, SubInv
  <1>2. FollowInv /\ SubInv /\ [Next]_vars => SubInv' BY SubStep
  <1>3. SubInv => LiveMeansSubscribed BY DEF SubInv, LiveMeansSubscribed
  <1> QED BY <1>1, <1>2, <1>3, FollowInvariance, PTL DEF Spec

----------------------------------------------------------------------------
(* Rows of the window *)

\* Row n is on the reorg list of its block.
Listed(d, n) == d.tx[n].block \in DOMAIN d.acc /\ n \in d.acc[d.tx[n].block]

\* Every row with a score of at least low is on the list of its block, or is
\* one of the rows in `open`.
RowsListed(d, open, low) ==
  \A n \in DOMAIN d.tx : d.tx[n].daa >= low => Listed(d, n) \/ n \in open

\* The rows in S are of different transactions.
OneRowEach(d, S) ==
  \A m, n \in S \cap DOMAIN d.tx : d.tx[m].tx_id = d.tx[n].tx_id => m = n

ListsOnce(d) == \A h \in DOMAIN d.acc : OneRowEach(d, d.acc[h])

\* The rows of the open group are those of its transactions before `pos`.
OpenRows(w) ==
  \A n \in w.nums : /\ n \in DOMAIN w.work.tx
                    /\ w.groups[w.at].hash \notin DOMAIN w.work.applied
                    /\ \E j \in DOMAIN w.groups[w.at].txs :
                         /\ j < w.pos
                         /\ w.work.tx[n].tx_id = w.groups[w.at].txs[j]

OpenOnce(w, low) ==
  /\ RowsListed(w.work, w.nums, low)
  /\ ListsOnce(w.work)
  /\ OneRowEach(w.work, w.nums)
  /\ OpenRows(w)
  /\ \A i \in DOMAIN w.groups : IsInjective(w.groups[i].txs)

OnceInv ==
  /\ swept \in Nat
  /\ RowsListed(db, {}, swept)
  /\ ListsOnce(db)
  /\ wtx # Nil => OpenOnce(wtx, swept)

\* An open write transaction is what Txn made it.
LEMMA TxnReads ==
  ASSUME NEW work, NEW groups, NEW at, NEW pos, NEW nums, NEW newest
  PROVE  LET w == Txn(work, groups, at, pos, nums, newest)
         IN /\ w.work = work /\ w.groups = groups /\ w.at = at /\ w.pos = pos
            /\ w.nums = nums /\ w.newest = newest
  BY DEF Txn

\* A new transaction starts with the rows of the tables.
LEMMA BeginOnce ==
  ASSUME OnceInv, NEW groups, BeginApply(groups), swept' = swept,
         \A i \in DOMAIN groups : IsInjective(groups[i].txs)
  PROVE  OnceInv'
  <1>1. /\ db' = db /\ wtx'.work = db /\ wtx'.groups = groups /\ wtx'.nums = {}
    BY TxnReads DEF BeginApply
  <1>2. OneRowEach(wtx'.work, wtx'.nums) BY <1>1 DEF OneRowEach
  <1>3. OpenRows(wtx') BY <1>1 DEF OpenRows
  <1>4. OpenOnce(wtx', swept') BY <1>1, <1>2, <1>3 DEF OpenOnce, OnceInv
  <1> QED BY <1>1, <1>4 DEF OnceInv

\* A block that is applied already has no open rows.
LEMMA SkipOnce ==
  ASSUME OnceInv, SkipGroup, swept' = swept
  PROVE  OnceInv'
  <1>1. /\ db' = db /\ wtx # Nil /\ wtx'.work = wtx.work /\ wtx'.groups = wtx.groups
        /\ wtx'.nums = {}
        /\ wtx.groups[wtx.at].hash \in DOMAIN wtx.work.applied
    BY TxnReads DEF SkipGroup, InGroup, Group
  <1>2. OpenOnce(wtx, swept) BY <1>1 DEF OnceInv
  <1>3. wtx.nums = {} BY <1>1, <1>2 DEF OpenOnce, OpenRows
  <1>4. OneRowEach(wtx'.work, wtx'.nums) BY <1>1 DEF OneRowEach
  <1>5. OpenRows(wtx') BY <1>1 DEF OpenRows
  <1>6. OpenOnce(wtx', swept') BY <1>1, <1>2, <1>3, <1>4, <1>5 DEF OpenOnce
  <1> QED BY <1>1, <1>6 DEF OnceInv

\* The row of the next transaction of the group is open, and of a transaction
\* the group has not had yet.
LEMMA IndexOnce ==
  ASSUME StoreInv, OnceInv, IndexNextTx, swept' = swept
  PROVE  OnceInv'
  <1> DEFINE d == wtx.work
             g == wtx.groups[wtx.at]
             t == g.txs[wtx.pos]
             e == IndexTx(d, g, t)
             n == d.next_tx_num
  <1>1. /\ db' = db /\ wtx # Nil /\ wtx'.work = e /\ wtx'.groups = wtx.groups
        /\ wtx'.at = wtx.at /\ wtx'.pos = wtx.pos + 1 /\ wtx'.nums = wtx.nums \cup {n}
        /\ g.hash \notin DOMAIN d.applied
        /\ wtx.at <= Len(wtx.groups) /\ wtx.pos <= Len(g.txs)
    BY DEF IndexNextTx, InGroup, Group, NextNum, Txn
  <1>2. OpenOnce(wtx, swept) BY <1>1 DEF OnceInv
  <1>3. Sound(d) BY <1>1 DEF StoreInv
  <1>4. /\ n \in Nat /\ n \notin DOMAIN d.tx
        /\ DOMAIN e.tx = DOMAIN d.tx \cup {n}
        /\ e.tx[n].tx_id = t
        /\ \A m \in DOMAIN d.tx : e.tx[m] = d.tx[m]
    <2>1. TablesOK(d) /\ ListsAgree(d) BY <1>3 DEF Sound
    <2> HIDE DEF d, g, t
    <2> QED BY <2>1, IndexTxRows
  <1>5. e.acc = d.acc /\ e.applied = d.applied BY DEF IndexTx
  <1>6. g \in AcceptedGroup /\ wtx.pos \in Nat \ {0} /\ wtx.at \in DOMAIN wtx.groups
        /\ wtx.pos \in DOMAIN g.txs
    <2>1. /\ wtx.groups \in Seq(AcceptedGroup) /\ wtx.at \in 1 .. Len(wtx.groups) + 1
          /\ wtx.pos \in Nat \ {0}
      BY <1>1 DEF StoreInv, TypeOK, TxnOK
    <2>2. wtx.at \in DOMAIN wtx.groups BY <1>1, <2>1
    <2>3. g \in AcceptedGroup BY <2>1, <2>2
    <2>4. g.txs \in Seq(TxId) BY <2>3 DEF AcceptedGroup
    <2> HIDE DEF g
    <2>5. wtx.pos \in DOMAIN g.txs BY <1>1, <2>1, <2>4
    <2> QED BY <2>1, <2>2, <2>3, <2>5
  <1>7. IsInjective(g.txs) BY <1>2, <1>6 DEF OpenOnce
  <1>8. \A h \in DOMAIN d.acc : n \notin d.acc[h]
    <2>1. \A h \in DOMAIN d.acc : \A m \in d.acc[h] : m < n
      BY <1>3 DEF Sound, ListsAgree
    <2>2. n \in Nat BY Zenon, <1>4
    <2> HIDE DEF n
    <2>3. ~(n < n) BY <2>2
    <2> QED BY <2>1, <2>3
  <1> HIDE DEF e
  <1>9. RowsListed(e, wtx.nums \cup {n}, swept)
    BY <1>2, <1>4, <1>5 DEF OpenOnce, RowsListed, Listed
  <1>10. ListsOnce(e)
    BY <1>2, <1>4, <1>5, <1>8 DEF OpenOnce, ListsOnce, OneRowEach
  <1>11. \A m \in wtx.nums : /\ m \in DOMAIN d.tx /\ m # n
                             /\ \E j \in DOMAIN g.txs : j < wtx.pos /\ d.tx[m].tx_id = g.txs[j]
    BY <1>2, <1>4 DEF OpenOnce, OpenRows
  <1>12. \A m \in wtx.nums : e.tx[m].tx_id # t
    <2> SUFFICES ASSUME NEW m \in wtx.nums, e.tx[m].tx_id = t PROVE FALSE OBVIOUS
    <2>1. PICK j \in DOMAIN g.txs : j < wtx.pos /\ d.tx[m].tx_id = g.txs[j] BY <1>11
    <2>2. g.txs[j] = g.txs[wtx.pos] BY <1>4, <1>11, <2>1
    <2>3. g.txs \in Seq(TxId) BY <1>6 DEF AcceptedGroup
    <2>4. j \in Nat BY <2>1, <2>3
    <2>5. j # wtx.pos BY <1>6, <2>1, <2>4
    <2> QED BY <1>6, <1>7, <2>1, <2>2, <2>5 DEF IsInjective
  <1>13. OneRowEach(e, wtx.nums \cup {n})
    <2>1. OneRowEach(d, wtx.nums) BY <1>2 DEF OpenOnce
    <2> QED BY <1>4, <1>11, <1>12, <2>1 DEF OneRowEach
  <1>14. OpenRows(wtx')
    <2> SUFFICES ASSUME NEW m \in wtx.nums \cup {n}
                 PROVE  /\ m \in DOMAIN e.tx
                        /\ g.hash \notin DOMAIN e.applied
                        /\ \E j \in DOMAIN g.txs : /\ j < wtx.pos + 1
                                                   /\ e.tx[m].tx_id = g.txs[j]
      BY <1>1 DEF OpenRows
    <2>1. CASE m = n
      <3>1. wtx.pos < wtx.pos + 1 BY <1>6
      <3> QED BY <1>1, <1>4, <1>5, <1>6, <2>1, <3>1
    <2>2. CASE m \in wtx.nums
      <3>1. PICK j \in DOMAIN g.txs : j < wtx.pos /\ d.tx[m].tx_id = g.txs[j]
        BY <1>11, <2>2
      <3>2. g.txs \in Seq(TxId) BY <1>6 DEF AcceptedGroup
      <3>3. j \in Nat BY <3>1, <3>2
      <3>4. j < wtx.pos + 1 BY <1>6, <3>1, <3>3
      <3> QED BY <1>1, <1>4, <1>5, <1>11, <2>2, <3>1, <3>4
    <2> QED BY <2>1, <2>2
  <1>15. OpenOnce(wtx', swept')
    BY <1>1, <1>2, <1>9, <1>10, <1>13, <1>14 DEF OpenOnce
  <1> QED BY <1>1, <1>15 DEF OnceInv

\* The end of a group puts its rows on the list of its block.
LEMMA FinishOnce ==
  ASSUME StoreInv, OnceInv, FinishGroup, swept' = swept
  PROVE  OnceInv'
  <1> DEFINE d == wtx.work
             g == wtx.groups[wtx.at]
             e == RecordBlock(d, g, wtx.nums)
  <1>1. /\ db' = db /\ wtx # Nil /\ wtx'.work = e /\ wtx'.groups = wtx.groups
        /\ wtx'.nums = {} /\ g.hash \notin DOMAIN d.applied
    BY TxnReads DEF FinishGroup, InGroup, Group
  <1>2. OpenOnce(wtx, swept) BY <1>1 DEF OnceInv
  <1>3. Sound(d) /\ NumsAgree BY <1>1 DEF StoreInv
  <1>4. g.hash \notin DOMAIN d.acc BY <1>1, <1>3 DEF Sound, ListsAgree
  <1>5. e.tx = d.tx /\ e.acc = Put(d.acc, g.hash, wtx.nums) BY DEF RecordBlock
  <1>6. /\ DOMAIN e.acc = DOMAIN d.acc \cup {g.hash}
        /\ e.acc[g.hash] = wtx.nums
        /\ \A h \in DOMAIN d.acc : e.acc[h] = d.acc[h]
    BY <1>4, <1>5 DEF Put
  <1>7. \A n \in wtx.nums : n \in DOMAIN d.tx => d.tx[n].block = g.hash
    BY <1>3 DEF NumsAgree, Group
  <1> HIDE DEF e
  <1>8. RowsListed(e, {}, swept)
    BY Zenon, <1>2, <1>5, <1>6, <1>7 DEF OpenOnce, RowsListed, Listed
  <1>9. ListsOnce(e)
    BY <1>2, <1>5, <1>6 DEF OpenOnce, ListsOnce, OneRowEach
  <1>10. OneRowEach(wtx'.work, wtx'.nums) BY <1>1 DEF OneRowEach
  <1>11. OpenRows(wtx') BY <1>1 DEF OpenRows
  <1>12. OpenOnce(wtx', swept')
    BY <1>1, <1>2, <1>8, <1>9, <1>10, <1>11 DEF OpenOnce
  <1> QED BY <1>1, <1>12 DEF OnceInv

\* A transaction that commits has no open rows.
LEMMA CommitOnce ==
  ASSUME StoreInv, OnceInv, CommitApply, swept' = swept
  PROVE  OnceInv'
  <1>1. /\ wtx # Nil /\ db' = wtx.work /\ wtx' = Nil /\ wtx.at > Len(wtx.groups)
    BY DEF CommitApply
  <1>2. OpenOnce(wtx, swept) BY <1>1 DEF OnceInv
  <1>3. wtx.nums = {}
    <2>1. wtx.groups \in Seq(AcceptedGroup) /\ wtx.at \in 1 .. Len(wtx.groups) + 1
      BY <1>1 DEF StoreInv, TypeOK, TxnOK
    <2>2. Len(wtx.groups) \in Nat /\ wtx.at \in Nat BY <2>1
    <2>3. ~(wtx.at <= Len(wtx.groups)) BY <1>1, <2>2
    <2> QED BY <1>1, <2>3 DEF StoreInv, NumsAgree
  <1> QED BY <1>1, <1>2, <1>3 DEF OnceInv, OpenOnce

\* Unwinding a block takes its list and every row on it.
LEMMA UnwindOnce ==
  ASSUME StoreInv, OnceInv, NEW h, Unwind(h), swept' = swept
  PROVE  OnceInv'
  <1>1. wtx = Nil /\ wtx' = Nil /\ Sound(db) BY DEF Unwind, StoreInv
  <1>2. CASE h \notin DOMAIN db.acc
    <2>1. db' = db BY <1>2 DEF Unwind
    <2> QED BY <1>1, <2>1 DEF OnceInv
  <1>3. CASE h \in DOMAIN db.acc
    <2> DEFINE e == unwind_chain_block(db, h)
    <2>1. db' = e BY <1>3 DEF Unwind
    <2>2. /\ e.tx = Without(db.tx, db.acc[h] \cap DOMAIN db.tx)
          /\ e.acc = Without(db.acc, {h})
      BY DEF unwind_chain_block
    <2> HIDE DEF e
    <2>3. /\ DOMAIN e.tx = DOMAIN db.tx \ db.acc[h]
          /\ \A n \in DOMAIN e.tx : e.tx[n] = db.tx[n]
          /\ DOMAIN e.acc = DOMAIN db.acc \ {h}
          /\ \A x \in DOMAIN e.acc : e.acc[x] = db.acc[x]
      BY <2>2 DEF Without
    <2>4. RowsListed(e, {}, swept) BY <2>3 DEF OnceInv, RowsListed, Listed
    <2>5. ListsOnce(e) BY <2>3 DEF OnceInv, ListsOnce, OneRowEach
    <2> QED BY <1>1, <2>1, <2>4, <2>5 DEF OnceInv
  <1> QED BY <1>2, <1>3

\* A sweep takes lists of blocks below its cutoff only.
LEMMA ExpireOnce ==
  ASSUME StoreInv, OnceInv, NEW c \in Nat, Expire(c), swept' = Later(swept, c)
  PROVE  OnceInv'
  <1> DEFINE e == expire_below(db, c)
             B == {x[2] : x \in ExpiredBlocks(db, c)}
  <1>1. wtx = Nil /\ wtx' = Nil /\ Sound(db) /\ db' = e BY DEF Expire, StoreInv
  <1>2. /\ e.tx = Without(db.tx, ExpiredTxs(db, c))
        /\ e.acc = Without(db.acc, B)
    BY DEF expire_below
  <1>3. /\ DOMAIN e.tx \subseteq DOMAIN db.tx
        /\ \A n \in DOMAIN e.tx : e.tx[n] = db.tx[n]
        /\ DOMAIN e.acc = DOMAIN db.acc \ B
        /\ \A x \in DOMAIN e.acc : e.acc[x] = db.acc[x]
    BY <1>2 DEF Without
  <1>4. ASSUME NEW h \in B PROVE h \in DOMAIN db.applied /\ db.applied[h] < c
    <2>1. PICK x \in db.chain : x[1] < c /\ x[2] = h BY <1>4 DEF ExpiredBlocks
    <2>2. PICK k \in DOMAIN db.applied : x = <<db.applied[k], k>>
      BY <1>1 DEF Sound, ListsAgree
    <2> QED BY <2>1, <2>2
  <1>5. /\ swept \in Nat /\ swept' \in Nat
        /\ \A k \in Nat : k >= swept' => k >= swept /\ k >= c
    BY DEF OnceInv, Later
  <1> HIDE DEF e, B
  <1>6. RowsListed(e, {}, swept')
    <2> SUFFICES ASSUME NEW n \in DOMAIN e.tx, e.tx[n].daa >= swept'
                 PROVE  Listed(e, n)
      BY DEF RowsListed
    <2> DEFINE h == db.tx[n].block
    <2>1. n \in DOMAIN db.tx /\ e.tx[n] = db.tx[n] BY <1>3
    <2>2. db.tx[n].daa \in Nat BY <1>1, <2>1 DEF Sound, TablesOK
    <2>3. db.tx[n].daa >= swept /\ db.tx[n].daa >= c BY <1>5, <2>1, <2>2
    <2>4. h \in DOMAIN db.acc /\ n \in db.acc[h]
      BY <2>1, <2>3 DEF OnceInv, RowsListed, Listed
    <2>5. db.tx[n].daa = db.applied[h] BY <1>1, <2>1, <2>4 DEF Sound, ListsAgree
    <2>6. h \notin B
      <3>1. ~(db.tx[n].daa < c) BY <2>2, <2>3
      <3> QED BY <1>4, <2>5, <3>1
    <2> QED BY <1>3, <2>1, <2>4, <2>6 DEF Listed
  <1>7. ListsOnce(e) BY <1>3 DEF OnceInv, ListsOnce, OneRowEach
  <1> QED BY <1>1, <1>5, <1>6, <1>7 DEF OnceInv

\* No step of the follower puts a row beside one of its own.
LEMMA OnceStep ==
  ASSUME FollowInv, OnceInv, [Next]_vars
  PROVE  OnceInv'
  <1>1. StoreInv BY DEF FollowInv
  <1>2. ASSUME UNCHANGED <<storeVars, swept>> PROVE OnceInv'
    <2>1. db' = db /\ wtx' = wtx /\ swept' = swept BY <1>2 DEF storeVars
    <2> QED BY <2>1 DEF OnceInv
  <1>3. ASSUME AbortApply, swept' = swept PROVE OnceInv'
    BY <1>3 DEF AbortApply, OnceInv
  <1>4. CASE UNCHANGED vars BY <1>2, <1>4 DEF vars
  <1>5. CASE Environment
    <2>1. CASE (\E h \in Hash \ {Genesis} : Mine(h)) \/ Connect \/ Disconnect
      BY <1>2, <2>1 DEF Mine, Connect, Disconnect
    <2>2. CASE Crash BY <1>2, <1>3, <2>2 DEF Crash
    <2> QED BY <1>5, <2>1, <2>2 DEF Environment
  <1>6. CASE \/ RecvConnected \/ OpenStore \/ SubscribeBlocks \/ SubscribeChain
             \/ BackfillStart \/ GetSink \/ GetVirtualChain \/ GetBlocks \/ RpcError
             \/ RecvBlockAdded \/ RecvChainChanged \/ Unwound
    <2>1. UNCHANGED <<storeVars, swept>>
      BY <1>6 DEF RecvConnected, OpenStore, SubscribeBlocks, SubscribeChain, Subscribe,
         BackfillStart, GetSink, GetVirtualChain, GetBlocks, RpcError,
         RecvBlockAdded, RecvChainChanged, Unwound
    <2> QED BY <1>2, <2>1
  <1>7. CASE UnwindNext BY <1>1, <1>2, <1>7, UnwindOnce DEF UnwindNext
  <1>8. CASE BuildGroups
    <2>1. CASE UNCHANGED storeVars BY <1>2, <1>8, <2>1 DEF BuildGroups
    <2>2. CASE ~UNCHANGED storeVars
      <3>1. swept' = swept BY <1>8 DEF BuildGroups
      <3>2. PICK unresolved : BeginApply(build_groups(job.accepted, unresolved))
        BY <1>8, <2>2 DEF BuildGroups
      <3> DEFINE groups == build_groups(job.accepted, unresolved)
      <3>3. \A i \in DOMAIN groups : IsInjective(groups[i].txs)
        BY GroupsFacts DEF FollowInv, JobInv
      <3> HIDE DEF groups
      <3>4. BeginApply(groups) BY <3>2 DEF groups
      <3> QED BY <3>1, <3>3, <3>4, BeginOnce
    <2> QED BY <2>1, <2>2
  <1>9. CASE ApplyStep BY <1>1, <1>9, SkipOnce, IndexOnce, FinishOnce DEF ApplyStep
  <1>10. CASE ApplyFails BY <1>3, <1>10 DEF ApplyFails
  <1>11. CASE ApplyDone BY <1>1, <1>11, CommitOnce DEF ApplyDone
  <1>12. CASE Sweep
    <2>1. job.newest - WindowDaa \in Nat
      <3>1. job.newest \in Nat /\ job.newest > WindowDaa
        BY <1>12 DEF Sweep, FollowInv, JobInv
      <3>2. WindowDaa \in Nat BY IndexerAssumption
      <3> QED BY <3>1, <3>2
    <2> QED BY <1>1, <1>2, <1>12, <2>1, ExpireOnce DEF Sweep
  <1> QED
    BY <1>4, <1>5, <1>6, <1>7, <1>8, <1>9, <1>10, <1>11, <1>12 DEF Next, Task

\* No transaction has two rows of one accepting block inside the retention
\* window, whatever is delivered late, twice or again after a crash.
THEOREM WindowHasNoDuplicates == Spec => []WindowRowsOnce
  <1>1. Init => OnceInv
    <2> SUFFICES ASSUME Init PROVE OnceInv OBVIOUS
    <2>1. swept = 0 /\ wtx = Nil /\ db = EmptyDb BY DEF Init, StoreInit
    <2>2. DOMAIN db.tx = {} /\ DOMAIN db.acc = {} BY <2>1 DEF EmptyDb, Empty
    <2> QED BY <2>1, <2>2 DEF OnceInv, RowsListed, ListsOnce
  <1>2. FollowInv /\ OnceInv /\ [Next]_vars => OnceInv' BY OnceStep
  <1>3. OnceInv => WindowRowsOnce
    <2> SUFFICES ASSUME OnceInv, NEW m \in DOMAIN db.tx, NEW n \in DOMAIN db.tx,
                        db.tx[m].tx_id = db.tx[n].tx_id, db.tx[m].block = db.tx[n].block,
                        db.tx[m].daa >= swept, db.tx[n].daa >= swept
                 PROVE  m = n
      BY DEF WindowRowsOnce
    <2>1. Listed(db, m) /\ Listed(db, n) BY DEF OnceInv, RowsListed
    <2> QED BY <2>1 DEF OnceInv, ListsOnce, OneRowEach, Listed
  <1> QED BY <1>1, <1>2, <1>3, FollowInvariance, PTL DEF Spec

----------------------------------------------------------------------------
(* Health *)

\* apply_groups is at work, or is bound to be.
Refreshing ==
  pc \in {"unwind", "apply", "expire"} \/ (pc = "build_groups" /\ job.accepted # <<>>)

HealthInv ==
  ~Refreshing /\ status.checkpoint_daa # Nil => Matches(status, db, ctx)

\* The status falls behind the tables only between a change of theirs and the
\* end of apply_groups.
LEMMA HealthStep ==
  ASSUME "store" \notin Faults, FollowInv, HealthInv, [Next]_vars
  PROVE  HealthInv'
  <1>1. /\ IsStatus(status)
        /\ ctx = [last_expire_daa |-> ctx.last_expire_daa, total_misses |-> ctx.total_misses]
        /\ job.accepted \in Seq(Hash)
        /\ pc \in {"get_blocks", "unwind"} => job.accepted # <<>>
    BY DEF FollowInv, StatusInv, JobInv
  <1>2. /\ SameCounts(status, status)
        /\ \A x : SameCounts([status EXCEPT !.state = x], status)
    BY <1>1, SetFacts DEF SameCounts
  <1>3. ASSUME db' = db, ctx' = ctx, SameCounts(status', status),
               Refreshing => Refreshing'
        PROVE  HealthInv'
    BY <1>3 DEF HealthInv, Matches, SameCounts
  <1>4. ASSUME Refreshing' PROVE HealthInv' BY <1>4 DEF HealthInv
  <1>5. CASE UNCHANGED vars
    <2>1. /\ db' = db /\ ctx' = ctx /\ status' = status /\ pc' = pc /\ job' = job
      BY <1>5 DEF vars, storeVars, taskVars
    <2> QED BY <1>2, <1>3, <2>1 DEF Refreshing
  <1>6. CASE (\E h \in Hash \ {Genesis} : Mine(h)) \/ Connect
    <2>1. /\ db' = db /\ ctx' = ctx /\ status' = status /\ pc' = pc /\ job' = job
      BY <1>6 DEF Mine, Connect, storeVars, taskVars
    <2> QED BY <1>2, <1>3, <2>1 DEF Refreshing
  <1>7. ASSUME db' = db, CallFails PROVE HealthInv'
    <2>1. ~Refreshing BY <1>7 DEF CallFails, Calling, Refreshing
    <2>2. /\ ctx' = ctx
          /\ status' = status \/ status' = [status EXCEPT !.state = "live"]
      BY <1>7, CallFailsCases DEF Idle, InState
    <2>3. SameCounts(status', status) BY <1>2, <2>2
    <2> QED BY <1>3, <1>7, <2>1, <2>2, <2>3
  <1>8. CASE Disconnect
    <2>1. CASE UNCHANGED taskVars
      <3>1. /\ db' = db /\ ctx' = ctx /\ status' = status /\ pc' = pc /\ job' = job
        BY <1>8, <2>1 DEF Disconnect, storeVars, taskVars
      <3> QED BY <1>2, <1>3, <3>1 DEF Refreshing
    <2> QED BY <1>7, <1>8, <2>1 DEF Disconnect, storeVars
  <1>9. CASE Crash BY <1>9 DEF Crash, HealthInv, NoStatus
  <1>10. CASE RecvConnected
    <2>1. /\ db' = db /\ ctx' = ctx /\ pc = "recv"
          /\ status' = [InState("connecting") EXCEPT !.generation = Head(notifs).generation]
      BY <1>10 DEF RecvConnected, storeVars
    <2> DEFINE t == [status EXCEPT !.state = "connecting"]
    <2>2. status' = [t EXCEPT !.generation = Head(notifs).generation] BY <2>1 DEF InState
    <2>3. IsStatus(t) /\ SameCounts(t, status) BY Zenon, <1>1, SetFacts
    <2> HIDE DEF t
    <2>4. SameCounts(status', t) BY Zenon, <2>2, <2>3, SetFacts
    <2>5. SameCounts(status', status) BY <2>3, <2>4 DEF SameCounts
    <2> QED BY <1>3, <2>1, <2>5 DEF Refreshing
  <1>11. CASE \/ OpenStore \/ SubscribeBlocks \/ BackfillStart \/ GetSink
              \/ GetVirtualChain \/ GetBlocks
    <2>1. /\ db' = db /\ ctx' = ctx /\ status' = status
          /\ pc \in {"open_store", "notify_block_added", "backfill", "sink",
                     "virtual_chain", "get_blocks"}
      BY <1>11 DEF OpenStore, SubscribeBlocks, Subscribe, BackfillStart, GetSink,
         GetVirtualChain, GetBlocks, storeVars
    <2> QED BY <1>2, <1>3, <2>1 DEF Refreshing
  <1>12. CASE SubscribeChain
    <2>1. /\ db' = db /\ ctx' = ctx /\ pc = "notify_virtual_chain_changed"
          /\ status' = status \/ status' = [status EXCEPT !.state = "backfilling"]
      BY <1>12 DEF SubscribeChain, Subscribe, InState, storeVars
    <2>2. SameCounts(status', status) BY <1>2, <2>1
    <2> QED BY <1>3, <2>1, <2>2 DEF Refreshing
  <1>13. CASE RpcError BY <1>7, <1>13 DEF RpcError, storeVars
  <1>14. CASE RecvBlockAdded
    <2>1. /\ db' = db /\ ctx' = ctx /\ pc = "recv"
          /\ status' = [status EXCEPT !.staged_blocks = Len(staging'.blocks)]
      BY <1>14 DEF RecvBlockAdded, storeVars
    <2>2. SameCounts(status', status) BY Zenon, <1>1, <2>1, SetFacts
    <2> QED BY <1>3, <2>1, <2>2 DEF Refreshing
  <1>15. CASE RecvChainChanged
    <2>1. /\ db' = db /\ ctx' = ctx /\ status' = status /\ pc = "recv"
      BY <1>15 DEF RecvChainChanged, storeVars
    <2> QED BY <1>2, <1>3, <2>1 DEF Refreshing
  <1>16. CASE UnwindNext BY <1>4, <1>16 DEF UnwindNext, Refreshing
  <1>17. CASE Unwound BY <1>1, <1>4, <1>17 DEF Unwound, Refreshing
  <1>18. CASE BuildGroups
    <2>1. CASE pc' = "apply" BY <1>4, <2>1 DEF Refreshing
    <2>2. CASE pc' # "apply"
      <3>1. PICK unresolved : /\ build_groups(job.accepted, unresolved) = <<>>
                              /\ Finish(status) /\ UNCHANGED storeVars
        BY <1>18, <2>2 DEF BuildGroups
      <3>2. pc = "build_groups" /\ ctx' = ctx /\ db' = db
        BY <1>18, <3>1 DEF BuildGroups, storeVars
      <3>3. job.accepted = <<>> BY <1>1, <3>1, GroupsFacts
      <3>4. SameCounts(status', status) BY <1>1, <3>1, FinishFacts
      <3> QED BY <1>3, <3>2, <3>3, <3>4 DEF Refreshing
    <2> QED BY <2>1, <2>2
  <1>19. CASE ApplyStep BY <1>4, <1>19 DEF ApplyStep, taskVars, Refreshing
  <1>20. CASE ApplyFails BY <1>20 DEF ApplyFails
  <1>21. ASSUME Finish(Refreshed(db', ctx'.total_misses)) PROVE HealthInv'
    <2> DEFINE t == Refreshed(db', ctx'.total_misses)
    <2>1. IsStatus(t) /\ Matches(t, db', ctx') BY Zenon, <1>1, RefreshedMatches
    <2>2. Finish(t) BY <1>21
    <2> HIDE DEF t
    <2>3. SameCounts(status', t) BY <2>1, <2>2, FinishFacts
    <2>4. Matches(status', db', ctx') BY <2>1, <2>3 DEF Matches, SameCounts
    <2> QED BY <2>4 DEF HealthInv, Matches
  <1>22. CASE ApplyDone
    <2>1. CASE pc' = "expire" BY <1>4, <2>1 DEF Refreshing
    <2> QED BY <1>21, <1>22, <2>1 DEF ApplyDone
  <1>23. CASE Sweep
    <2>1. ctx'.total_misses = ctx.total_misses BY <1>1, <1>23 DEF Sweep
    <2> QED BY <1>21, <1>23, <2>1 DEF Sweep
  <1> QED
    BY <1>5, <1>6, <1>8, <1>9, <1>10, <1>11, <1>12, <1>13, <1>14, <1>15, <1>16,
       <1>17, <1>18, <1>19, <1>20, <1>22, <1>23 DEF Next, Task, Environment

\* As long as no store operation fails, /health shows the tables as they are
\* between two notifications, once it shows a checkpoint.
THEOREM HealthIsTrue ==
  ASSUME "store" \notin Faults
  PROVE  Spec => []HealthMatchesTables
  <1>1. Init => HealthInv BY DEF Init, HealthInv, NoStatus
  <1>2. FollowInv /\ HealthInv /\ [Next]_vars => HealthInv' BY HealthStep
  <1>3. FollowInv /\ HealthInv => HealthMatchesTables
    <2> SUFFICES ASSUME FollowInv, HealthInv, pc = "recv", status.checkpoint_daa # Nil
                 PROVE  status = [Refreshed(db, ctx.total_misses)
                                    EXCEPT !.staged_blocks = status.staged_blocks]
      BY DEF HealthMatchesTables
    <2> DEFINE t == Refreshed(db, ctx.total_misses)
               k == checkpoint_daa(db)
               w == window_low_daa(db)
               b == chain_blocks(db)
               m == ctx.total_misses
    <2>1. IsStatus(status) BY DEF FollowInv, StatusInv
    <2>2. /\ status.checkpoint_daa = k /\ status.window_low_daa = w
          /\ status.total_txs = db.total_txs /\ status.chain_blocks = b
          /\ status.resolve_misses = m
      BY DEF HealthInv, Refreshing, Matches
    <2>3. t = St(status.state, status.generation, k, w, db.total_txs, b, m, 0)
      BY <2>1, RefreshedFacts
    <2> HIDE DEF t, k, w, b, m
    <2>4. [t EXCEPT !.staged_blocks = status.staged_blocks] =
            St(status.state, status.generation, k, w, db.total_txs, b, m,
               status.staged_blocks)
      BY <2>3 DEF St
    <2>5. status = St(status.state, status.generation, k, w, db.total_txs, b, m,
                      status.staged_blocks)
      BY <2>1, <2>2 DEF IsStatus
    <2> QED BY <2>4, <2>5 DEF t
  <1> QED BY <1>1, <1>2, <1>3, FollowInvariance, PTL DEF Spec

----------------------------------------------------------------------------
(* Staging *)

\* f goes n times from x to F of what it has and of the turn.
Repeats(f, n, x, F) ==
  f = [i \in 0 .. n |-> IF i = 0 THEN x ELSE F[<<f[i - 1], i>>]]

\* A loop whose body stays in X can be run.
LEMMA LoopExists ==
  ASSUME NEW n \in Nat, NEW X, NEW x \in X, NEW F,
         \A y \in X, i \in 1 .. n : F[<<y, i>>] \in X
  PROVE  \E f : Repeats(f, n, x, F) /\ \A i \in 0 .. n : f[i] \in X
  <1> DEFINE P(f, m) == /\ DOMAIN f = 0 .. m /\ f = [i \in DOMAIN f |-> f[i]]
                        /\ f[0] = x
                        /\ \A i \in 1 .. m : f[i] = F[<<f[i - 1], i>>]
                        /\ \A i \in 0 .. m : f[i] \in X
             G == {m \in Nat : \E f : P(f, m)}
  <1>1. 0 \in G
    <2> DEFINE f == [i \in 0 .. 0 |-> x]
    <2>1. P(f, 0) OBVIOUS
    <2> QED BY Zenon, <2>1
  <1>2. ASSUME NEW m \in 1 .. n, m - 1 \in G PROVE m \in G
    <2>1. PICK f : P(f, m - 1) BY <1>2
    <2> DEFINE y == F[<<f[m - 1], m>>]
               g == [i \in 0 .. m |-> IF i = m THEN y ELSE f[i]]
    <2>2. m \in Nat /\ m # 0 /\ m - 1 \in 0 .. m - 1 OBVIOUS
    <2>3. f[m - 1] \in X BY <2>1, <2>2
    <2>4. y \in X BY <2>3
    <2>5. \A i \in 0 .. m : i = m \/ i \in 0 .. m - 1 BY <2>2
    <2>6. \A i \in 1 .. m : i - 1 \in 0 .. m - 1 /\ i - 1 # m /\ i - 1 \in 0 .. m BY <2>2
    <2> HIDE DEF y
    <2>7. /\ DOMAIN g = 0 .. m /\ g = [i \in DOMAIN g |-> g[i]] /\ g[m] = y
          /\ \A i \in 0 .. m - 1 : g[i] = f[i]
      BY <2>2
    <2> HIDE DEF g
    <2>8. g[0] = x BY <2>1, <2>2, <2>7
    <2>9. \A i \in 0 .. m : g[i] \in X BY <2>1, <2>4, <2>5, <2>7
    <2>10. \A i \in 1 .. m : g[i] = F[<<g[i - 1], i>>]
      <3> TAKE i \in 1 .. m
      <3>1. g[i - 1] = f[i - 1] BY <2>6, <2>7
      <3>2. CASE i = m BY <2>7, <3>1, <3>2 DEF y
      <3>3. CASE i # m
        <4>1. i \in 1 .. m - 1 /\ i \in 0 .. m - 1 BY <2>2, <3>3
        <4> QED BY <2>1, <2>7, <3>1, <4>1
      <3> QED BY <3>2, <3>3
    <2>11. P(g, m) BY <2>7, <2>8, <2>9, <2>10
    <2> QED BY <2>2, <2>11
  <1>3. n \in 0 .. n /\ G \in SUBSET Nat OBVIOUS
  <1>4. n \in G
    <2> HIDE DEF G
    <2> QED BY Zenon, <1>1, <1>2, <1>3, UpTo
  <1>5. PICK f : P(f, n) BY <1>4
  <1>6. Repeats(f, n, x, F)
    <2>1. \A i \in 0 .. n : f[i] = IF i = 0 THEN x ELSE F[<<f[i - 1], i>>]
      <3> TAKE i \in 0 .. n
      <3>1. CASE i = 0 BY <1>5, <3>1
      <3>2. CASE i # 0
        <4>1. i \in 1 .. n BY <3>2
        <4> QED BY <1>5, <3>2, <4>1
      <3> QED BY <3>1, <3>2
    <2>2. f = [i \in 0 .. n |-> f[i]] BY <1>5
    <2> QED BY <2>1, <2>2 DEF Repeats
  <1> QED BY <1>5, <1>6

\* A queue of at most cap elements of T.
Bounded(T, cap) == {s \in Seq(T) : Len(s) <= cap}

\* BoundedInsert keeps to the capacity and drops the oldest.
LEMMA BoundedInsertFacts ==
  ASSUME NEW T, NEW cap \in Nat \ {0}, NEW s \in Bounded(T, cap), NEW k \in T
  PROVE  BoundedInsert(s, k, cap) \in Bounded(T, cap)
  <1>1. s \in Seq(T) /\ Len(s) <= cap /\ Len(s) \in Nat BY DEF Bounded
  <1>2. CASE k \in Range(s)
    BY <1>1, <1>2 DEF BoundedInsert, Bounded
  <1>3. CASE k \notin Range(s)
    <2> DEFINE e == Append(s, k)
    <2>1. e \in Seq(T) /\ Len(e) = Len(s) + 1 BY <1>1, AppendFacts
    <2>2. BoundedInsert(s, k, cap) = IF Len(e) > cap THEN Tail(e) ELSE e
      BY <1>3 DEF BoundedInsert
    <2> HIDE DEF e
    <2>3. e # <<>> BY <1>1, <2>1
    <2>4. Tail(e) \in Seq(T) /\ Len(Tail(e)) = Len(e) - 1 BY <2>1, <2>3, TailFacts
    <2>5. Len(Tail(e)) <= cap BY <1>1, <2>1, <2>4
    <2>6. Len(e) > cap \/ Len(e) <= cap BY <1>1, <2>1
    <2> QED BY <2>1, <2>2, <2>4, <2>5, <2>6 DEF Bounded
  <1> QED BY <1>2, <1>3

\* Staging the bodies of a block keeps the transactions to their capacity.
LEMMA StageTxsFacts ==
  ASSUME NEW order \in Bounded(TxId, STAGE_TX_CAP), NEW ts \in Seq(TxId)
  PROVE  StageTxs(order, ts) \in Bounded(TxId, STAGE_TX_CAP)
  <1> DEFINE X == Bounded(TxId, STAGE_TX_CAP)
             n == Len(ts)
             F == [z \in X \X (1 .. n) |-> BoundedInsert(z[1], ts[z[2]], STAGE_TX_CAP)]
             R(f) == f = [i \in 0 .. n |->
                            IF i = 0 THEN order
                            ELSE BoundedInsert(f[i - 1], ts[i], STAGE_TX_CAP)]
             f == CHOOSE g : R(g)
  <1>1. n \in Nat /\ \A i \in 1 .. n : ts[i] \in TxId OBVIOUS
  <1>2. STAGE_TX_CAP \in Nat \ {0} BY IndexerAssumption
  <1>3. \A y \in X, i \in 1 .. n : BoundedInsert(y, ts[i], STAGE_TX_CAP) \in X
    BY <1>1, <1>2, BoundedInsertFacts
  <1>4. StageTxs(order, ts) = f[n] BY DEF StageTxs
  <1>5. order \in X OBVIOUS
  <1> HIDE DEF X, n
  <1>6. \A y \in X, i \in 1 .. n : F[<<y, i>>] = BoundedInsert(y, ts[i], STAGE_TX_CAP)
    OBVIOUS
  <1> HIDE DEF F
  <1>7. \E g : R(g)
    <2>1. \A y \in X, i \in 1 .. n : F[<<y, i>>] \in X BY Zenon, <1>3, <1>6
    <2>2. PICK g : Repeats(g, n, order, F) /\ \A i \in 0 .. n : g[i] \in X
      BY Zenon, <1>1, <1>5, <2>1, LoopExists
    <2>3. \A i \in 0 .. n : i # 0 => i \in 1 .. n /\ i - 1 \in 0 .. n BY <1>1
    <2>4. \A i \in 0 .. n : i # 0 =>
            F[<<g[i - 1], i>>] = BoundedInsert(g[i - 1], ts[i], STAGE_TX_CAP)
      BY <1>6, <2>2, <2>3
    <2>5. R(g) BY <2>2, <2>4 DEF Repeats
    <2> QED BY Zenon, <2>5
  <1>8. R(f) BY Zenon, <1>7
  <1> HIDE DEF f
  <1>9. \A i \in 0 .. n : f[i] = IF i = 0 THEN order
                                 ELSE BoundedInsert(f[i - 1], ts[i], STAGE_TX_CAP)
    BY Zenon, <1>8
  <1> DEFINE G == {i \in 0 .. n : f[i] \in X}
  <1>10. 0 \in G BY <1>1, <1>5, <1>9
  <1>11. ASSUME NEW i \in 1 .. n, i - 1 \in G PROVE i \in G
    <2>1. i \in 0 .. n /\ i # 0 BY <1>1
    <2>2. f[i] = BoundedInsert(f[i - 1], ts[i], STAGE_TX_CAP) BY <1>9, <2>1
    <2> QED BY <1>3, <1>11, <2>1, <2>2
  <1>12. n \in 0 .. n /\ G \in SUBSET Nat BY <1>1
  <1>13. n \in G
    <2> HIDE DEF G
    <2> QED BY Zenon, <1>1, <1>10, <1>11, <1>12, UpTo
  <1> QED BY <1>4, <1>13 DEF X

\* The two staging maps, with blocks of K.
Staged(K) == [blocks : Bounded(K, STAGE_BLOCK_CAP), txs : Bounded(TxId, STAGE_TX_CAP)]

\* Staging a block keeps both maps to their capacity.
LEMMA StageBlockFacts ==
  ASSUME NEW K, NEW st \in Staged(K), NEW h \in K, h \in Hash
  PROVE  stage_block(st, h) \in Staged(K)
  <1>1. STAGE_BLOCK_CAP \in Nat \ {0} /\ Body[h] \in Seq(TxId) BY IndexerAssumption
  <1>2. /\ st.blocks \in Bounded(K, STAGE_BLOCK_CAP)
        /\ st.txs \in Bounded(TxId, STAGE_TX_CAP)
    BY DEF Staged
  <1>3. BoundedInsert(st.blocks, h, STAGE_BLOCK_CAP) \in Bounded(K, STAGE_BLOCK_CAP)
    BY <1>1, <1>2, BoundedInsertFacts
  <1>4. StageTxs(st.txs, Body[h]) \in Bounded(TxId, STAGE_TX_CAP)
    BY <1>1, <1>2, StageTxsFacts
  <1> QED BY <1>3, <1>4 DEF stage_block, Staged

\* Staging the answer of getBlocks keeps both maps to their capacity.
LEMMA StageBlocksFacts ==
  ASSUME NEW K, K \subseteq Hash, NEW st \in Staged(K), NEW hs \in Seq(K)
  PROVE  StageBlocks(st, hs) \in Staged(K)
  <1> DEFINE X == Staged(K)
             n == Len(hs)
             F == [z \in X \X (1 .. n) |-> stage_block(z[1], hs[z[2]])]
             R(f) == f = [i \in 0 .. n |->
                            IF i = 0 THEN st ELSE stage_block(f[i - 1], hs[i])]
             f == CHOOSE g : R(g)
  <1>1. n \in Nat /\ \A i \in 1 .. n : hs[i] \in K OBVIOUS
  <1>2. \A y \in X, i \in 1 .. n : stage_block(y, hs[i]) \in X
    BY <1>1, StageBlockFacts
  <1>3. StageBlocks(st, hs) = f[n] BY DEF StageBlocks
  <1>4. st \in X OBVIOUS
  <1> HIDE DEF X, n
  <1>5. \A y \in X, i \in 1 .. n : F[<<y, i>>] = stage_block(y, hs[i]) OBVIOUS
  <1> HIDE DEF F
  <1>6. \E g : R(g)
    <2>1. \A y \in X, i \in 1 .. n : F[<<y, i>>] \in X BY Zenon, <1>2, <1>5
    <2>2. PICK g : Repeats(g, n, st, F) /\ \A i \in 0 .. n : g[i] \in X
      BY Zenon, <1>1, <1>4, <2>1, LoopExists
    <2>3. \A i \in 0 .. n : i # 0 => i \in 1 .. n /\ i - 1 \in 0 .. n BY <1>1
    <2>4. \A i \in 0 .. n : i # 0 => F[<<g[i - 1], i>>] = stage_block(g[i - 1], hs[i])
      BY <1>5, <2>2, <2>3
    <2>5. R(g) BY <2>2, <2>4 DEF Repeats
    <2> QED BY Zenon, <2>5
  <1>7. R(f) BY Zenon, <1>6
  <1> HIDE DEF f
  <1>8. \A i \in 0 .. n : f[i] = IF i = 0 THEN st ELSE stage_block(f[i - 1], hs[i])
    BY Zenon, <1>7
  <1> DEFINE G == {i \in 0 .. n : f[i] \in X}
  <1>9. 0 \in G BY <1>1, <1>4, <1>8
  <1>10. ASSUME NEW i \in 1 .. n, i - 1 \in G PROVE i \in G
    <2>1. i \in 0 .. n /\ i # 0 BY <1>1
    <2>2. f[i] = stage_block(f[i - 1], hs[i]) BY <1>8, <2>1
    <2> QED BY <1>2, <1>10, <2>1, <2>2
  <1>11. n \in 0 .. n /\ G \in SUBSET Nat BY <1>1
  <1>12. n \in G
    <2> HIDE DEF G
    <2> QED BY Zenon, <1>1, <1>9, <1>10, <1>11, UpTo
  <1> QED BY <1>3, <1>12 DEF X

\* More blocks known, and what is staged is still known.
LEMMA StagedGrows ==
  ASSUME NEW K, NEW L, K \subseteq L, NEW st \in Staged(K)
  PROVE  st \in Staged(L)
  <1>1. \A q \in Seq(K) : q \in Seq(L) OBVIOUS
  <1>2. Bounded(K, STAGE_BLOCK_CAP) \subseteq Bounded(L, STAGE_BLOCK_CAP)
    BY <1>1 DEF Bounded
  <1> QED BY <1>2 DEF Staged

\* getBlocks answers with blocks the node knows.
LEMMA BlocksFromFacts ==
  ASSUME NEW low
  PROVE  BlocksFrom(low) \in Seq(known)
  <1> DEFINE S == known \ (OnChain(low) \ {low})
             q == Picked(BlockOrder, S)
  <1>1. BlocksFrom(low) = q BY DEF BlocksFrom
  <1>2. BlockOrder \in Seq(Hash) BY OrderAssumption
  <1>3. S \subseteq known OBVIOUS
  <1> HIDE DEF S
  <1>4. q \in Seq(Hash) /\ Range(q) = Range(BlockOrder) \cap S BY <1>2, PickedFacts
  <1> HIDE DEF q
  <1>5. \A i \in DOMAIN q : q[i] \in known BY <1>3, <1>4 DEF Range
  <1>6. q \in Seq(known) BY <1>4, <1>5
  <1> QED BY <1>1, <1>6

\* The await points of the task.
Points == Calling \cup {"recv", "backfill", "unwind", "build_groups", "apply", "expire"}

TaskInv ==
  /\ pc \in Points
  /\ prefix \in {Nil, "network", "default"}
  /\ staging \in Staged(known)
  /\ pc = "apply" => wtx # Nil

\* The staging maps keep to their capacity and to blocks the node knows.
LEMMA StagingStep ==
  ASSUME FollowInv, TaskInv, [Next]_vars
  PROVE  staging' \in Staged(known')
  <1>1. /\ staging \in Staged(known) /\ known \subseteq Hash
        /\ notifs \in Seq(Message)
        /\ \A i \in DOMAIN notifs : MessageOK(notifs[i], known, generation)
    BY DEF TaskInv, FollowInv, NodeInv, ChannelInv
  <1>2. ASSUME staging' = staging, known \subseteq known' PROVE staging' \in Staged(known')
    BY <1>1, <1>2, StagedGrows
  <1>3. CASE UNCHANGED vars BY <1>2, <1>3 DEF vars, taskVars, nodeVars
  <1>4. CASE \E h \in Hash \ {Genesis} : Mine(h) BY <1>2, <1>4 DEF Mine, taskVars
  <1>5. CASE Connect BY <1>2, <1>5 DEF Connect, taskVars
  <1>6. CASE Disconnect
    BY <1>2, <1>6, CallFailsCases DEF Disconnect, taskVars
  <1>7. CASE Crash
    <2>1. staging' = NoStaging /\ known' = known BY <1>7 DEF Crash
    <2>2. <<>> \in Bounded(known, STAGE_BLOCK_CAP) /\ <<>> \in Bounded(TxId, STAGE_TX_CAP)
      <3>1. STAGE_BLOCK_CAP \in Nat /\ STAGE_TX_CAP \in Nat BY IndexerAssumption
      <3>2. Len(<<>>) = 0 OBVIOUS
      <3> QED BY <3>1, <3>2 DEF Bounded
    <2> QED BY <2>1, <2>2 DEF NoStaging, Staged
  <1>8. CASE RecvBlockAdded
    <2> DEFINE m == Head(notifs)
    <2>1. /\ notifs # <<>> /\ m.kind = "block" /\ known' = known
          /\ staging' = stage_block(staging, m.hash)
      BY <1>8 DEF RecvBlockAdded, nodeVars
    <2>2. 1 \in DOMAIN notifs /\ m = notifs[1] BY <1>1, <2>1, TailFacts
    <2> HIDE DEF m
    <2>3. m.hash \in known BY <1>1, <2>1, <2>2 DEF MessageOK
    <2> QED BY <1>1, <2>1, <2>3, StageBlockFacts
  <1>9. CASE GetBlocks
    <2> DEFINE hs == BlocksFrom(Head(job.accepted))
    <2>1. staging' = StageBlocks(staging, hs) /\ known' = known
      BY <1>9 DEF GetBlocks, nodeVars
    <2>2. hs \in Seq(known) BY BlocksFromFacts
    <2> HIDE DEF hs
    <2> QED BY <1>1, <2>1, <2>2, StageBlocksFacts
  <1>10. CASE RpcError BY <1>2, <1>10, CallFailsCases DEF RpcError, nodeVars
  <1>11. CASE \/ RecvConnected \/ OpenStore \/ SubscribeBlocks \/ SubscribeChain
              \/ BackfillStart \/ GetSink \/ GetVirtualChain \/ RecvChainChanged
              \/ UnwindNext \/ Unwound \/ BuildGroups \/ ApplyStep \/ ApplyFails
              \/ ApplyDone \/ Sweep
    <2>1. staging' = staging /\ known' = known
      BY <1>11 DEF RecvConnected, OpenStore, SubscribeBlocks, SubscribeChain, Subscribe,
         BackfillStart, GetSink, GetVirtualChain, RecvChainChanged, UnwindNext,
         Unwound, BuildGroups, ApplyStep, ApplyFails, ApplyDone, Sweep,
         taskVars, nodeVars
    <2> QED BY <1>2, <2>1
  <1> QED
    BY <1>3, <1>4, <1>5, <1>6, <1>7, <1>8, <1>9, <1>10, <1>11
       DEF Next, Task, Environment

\* The task goes from one of its await points to another.
LEMMA PointsStep ==
  ASSUME FollowInv, TaskInv, [Next]_vars
  PROVE  (pc \in Points /\ prefix \in {Nil, "network", "default"})'
  <1>1. pc \in Points /\ prefix \in {Nil, "network", "default"} BY DEF TaskInv
  <1>2. ASSUME CallFails PROVE (pc \in Points /\ prefix \in {Nil, "network", "default"})'
    BY <1>1, <1>2, CallFailsCases DEF Idle, Points, Calling
  <1>3. CASE UNCHANGED vars BY <1>1, <1>3 DEF vars, taskVars
  <1>4. CASE Environment
    BY <1>1, <1>2, <1>4 DEF Environment, Mine, Connect, Disconnect, Crash, taskVars, Points
  <1>5. CASE RpcError BY <1>2, <1>5 DEF RpcError
  <1>6. CASE RecvConnected \/ OpenStore \/ SubscribeBlocks \/ SubscribeChain
    BY <1>1, <1>6 DEF RecvConnected, OpenStore, SubscribeBlocks, SubscribeChain,
       Subscribe, Points, Calling
  <1>7. CASE \/ BackfillStart \/ GetSink \/ GetVirtualChain \/ GetBlocks
             \/ RecvBlockAdded \/ RecvChainChanged \/ UnwindNext \/ Unwound
    BY <1>1, <1>7 DEF BackfillStart, GetSink, GetVirtualChain, GetBlocks, RecvBlockAdded,
       RecvChainChanged, UnwindNext, Unwound, Points, Calling
  <1>8. CASE BuildGroups \/ ApplyStep \/ ApplyFails \/ ApplyDone \/ Sweep
    BY <1>1, <1>8 DEF BuildGroups, ApplyStep, ApplyFails, ApplyDone, Sweep, Finish, Idle,
       taskVars, Points, Calling
  <1> QED BY <1>3, <1>4, <1>5, <1>6, <1>7, <1>8 DEF Next, Task

\* Inside apply_groups a write transaction is open.
LEMMA ApplyStepOpen ==
  ASSUME \A work, groups, at, pos, nums, newest :
           Txn(work, groups, at, pos, nums, newest) # Nil,
         TaskInv, [Next]_vars
  PROVE  (pc = "apply" => wtx # Nil)'
  <1>1. pc = "apply" => wtx # Nil BY DEF TaskInv
  <1>2. CASE UNCHANGED vars BY <1>1, <1>2 DEF vars, taskVars, storeVars
  <1>3. ASSUME CallFails PROVE pc' # "apply"
    BY <1>3, CallFailsCases DEF Idle
  <1>4. CASE Environment
    <2>1. CASE (\E h \in Hash \ {Genesis} : Mine(h)) \/ Connect
      BY <1>1, <2>1 DEF Mine, Connect, taskVars, storeVars
    <2>2. CASE Disconnect BY <1>1, <1>3, <2>2 DEF Disconnect, taskVars, storeVars
    <2>3. CASE Crash BY <2>3 DEF Crash
    <2> QED BY <1>4, <2>1, <2>2, <2>3 DEF Environment
  <1>5. CASE RpcError BY <1>3, <1>5 DEF RpcError
  <1>6. CASE BuildGroups BY <1>6 DEF BuildGroups, BeginApply, Finish, Idle
  <1>7. CASE ApplyStep BY <1>7 DEF ApplyStep, SkipGroup, IndexNextTx, FinishGroup
  <1>8. CASE ApplyFails \/ ApplyDone \/ Sweep
    BY <1>8 DEF ApplyFails, ApplyDone, Sweep, Finish, Idle
  <1>9. CASE \/ RecvConnected \/ OpenStore \/ SubscribeBlocks \/ SubscribeChain
             \/ BackfillStart \/ GetSink \/ GetVirtualChain \/ GetBlocks
             \/ RecvBlockAdded \/ RecvChainChanged \/ UnwindNext \/ Unwound
    BY <1>9 DEF RecvConnected, OpenStore, SubscribeBlocks, SubscribeChain, Subscribe,
       BackfillStart, GetSink, GetVirtualChain, GetBlocks, RecvBlockAdded,
       RecvChainChanged, UnwindNext, Unwound
  <1> QED BY <1>2, <1>4, <1>5, <1>6, <1>7, <1>8, <1>9 DEF Next, Task

\* The channel never holds more than NOTIF_QUEUE messages and the staging maps
\* never more than their caps; only blocks the node knows are staged or worked
\* on.  (An open write transaction is never taken for none.)
THEOREM IndexerTypes ==
  ASSUME \A work, groups, at, pos, nums, newest :
           Txn(work, groups, at, pos, nums, newest) # Nil
  PROVE  Spec => []IndexerTypeOK
  <1>1. Init => TaskInv
    <2> SUFFICES ASSUME Init PROVE TaskInv OBVIOUS
    <2>1. pc = "recv" /\ prefix = Nil /\ staging = NoStaging BY DEF Init
    <2>2. STAGE_BLOCK_CAP \in Nat /\ STAGE_TX_CAP \in Nat BY IndexerAssumption
    <2>3. /\ <<>> \in Bounded(known, STAGE_BLOCK_CAP)
          /\ <<>> \in Bounded(TxId, STAGE_TX_CAP)
      <3>1. Len(<<>>) = 0 OBVIOUS
      <3> QED BY <2>2, <3>1 DEF Bounded
    <2>4. staging \in Staged(known) BY <2>1, <2>3 DEF NoStaging, Staged
    <2> QED BY <2>1, <2>4 DEF TaskInv, Points
  <1>2. FollowInv /\ TaskInv /\ [Next]_vars => TaskInv'
    BY StagingStep, PointsStep, ApplyStepOpen DEF TaskInv
  <1>3. FollowInv /\ TaskInv => IndexerTypeOK
    <2> SUFFICES ASSUME FollowInv, TaskInv PROVE IndexerTypeOK OBVIOUS
    <2>1. TypeOK BY DEF FollowInv, StoreInv
    <2>2. /\ tip \in known /\ known \subseteq Hash /\ conn \in BOOLEAN
          /\ generation \in Nat /\ sub \subseteq {"block", "chain"} /\ (~conn => sub = {})
          /\ Len(notifs) <= NOTIF_QUEUE
      BY DEF FollowInv, NodeInv, ChannelInv
    <2>3. /\ (pc = "apply") = (wtx # Nil)
          /\ pc \in Calling \cup {"recv", "backfill", "unwind", "build_groups",
                                  "apply", "expire"}
      BY DEF FollowInv, TaskInv, Points
    <2>4. /\ status.state \in {"connecting", "backfilling", "live"}
          /\ Range(job.removed) \cup Range(job.accepted) \subseteq known
      BY DEF FollowInv, StatusInv, JobInv
    <2>5. prefix \in {Nil, "network", "default"} BY DEF TaskInv
    <2>6. /\ staging.blocks \in Seq(known) /\ Len(staging.blocks) <= STAGE_BLOCK_CAP
          /\ Len(staging.txs) <= STAGE_TX_CAP
      BY DEF TaskInv, Staged, Bounded
    <2>7. Range(staging.blocks) \subseteq known BY <2>6 DEF Range
    <2> QED BY <2>1, <2>2, <2>3, <2>4, <2>5, <2>6, <2>7 DEF IndexerTypeOK
  <1> QED BY <1>1, <1>2, <1>3, FollowInvariance, PTL DEF Spec

=============================================================================
