------------------------------ MODULE Indexer ------------------------------
(***************************************************************************)
(* The chain follower (src/indexer/mod.rs), the node it follows and the    *)
(* notification channel between them (forward and serve of src/node.rs),   *)
(* over the tables of Store.                                               *)
(*                                                                         *)
(* The indexer is one task.  `pc` is the await point it is at: "recv" for  *)
(* the notification channel, one value per node call, one per store call.  *)
(* The node goes on mining, and the stream may break, between any two of   *)
(* its steps; while a store transaction is open they wait, because the     *)
(* task cannot see them before its next step.                              *)
(*                                                                         *)
(* The block DAG is constant data.  A block's body holds the transactions  *)
(* it carries; a chain block accepts transactions that were carried by     *)
(* blocks in its past (PHASE2.md:107).                                     *)
(***************************************************************************)
EXTENDS Store

CONSTANTS
  Genesis, Parent, Daa,  \* the selected-parent tree and the DAA scores
  Body,                  \* Body[h]: the transactions block h carries
  Accepts,               \* Accepts[h]: the transactions chain block h accepts
  ChainBatch,            \* added blocks getVirtualChainFromBlock returns at most
  NOTIF_QUEUE, STAGE_BLOCK_CAP, STAGE_TX_CAP,
  WindowDaa, EXPIRE_INTERVAL_DAA,
  Faults,                \* what may go wrong, see FaultKinds
  MaxGeneration,         \* bound on the streams that may end
  MaxCrashes             \* bound on process deaths

\* "break": the stream breaks while the task is busy; "rpc": a call fails or
\* times out on a live stream; "store": a store operation returns an error;
\* "crash": the process dies; "reorg": the chain switches while the task is
\* not in sync with the node.
FaultKinds == {"break", "rpc", "store", "crash", "reorg"}

ASSUME IndexerAssumption ==
  /\ Genesis \in Hash
  /\ Parent \in [Hash \ {Genesis} -> Hash]
  /\ Daa \in [Hash -> Nat]
  /\ Body \in [Hash -> Seq(TxId)]
  /\ Accepts \in [Hash -> Seq(TxId)]
  /\ \A h \in Hash : IsInjective(Accepts[h])  \* each transaction once
  /\ {ChainBatch, NOTIF_QUEUE, STAGE_BLOCK_CAP, STAGE_TX_CAP} \subseteq Nat \ {0}
  /\ {WindowDaa, EXPIRE_INTERVAL_DAA, MaxGeneration, MaxCrashes} \subseteq Nat
  /\ Faults \subseteq FaultKinds

VARIABLES
  known, tip,     \* the node's blocks and its sink
  conn,           \* the message stream is up
  generation,     \* connections made so far by this process
  sub,            \* subscriptions the node holds for this stream
  notifs,         \* the notification channel
  pc,             \* the await point of the task
  status,         \* IndexerStatus
  prefix,         \* address prefix of the open store, Nil until it is open
  staging,        \* keys of the two staging maps, oldest first
  job,            \* the acceptance lists being worked on
  ctx,            \* last_expire_daa, total_misses
  crashes,
  dropped,        \* a notification was dropped since Connected was last handled
  swept           \* the highest cutoff of a sweep so far, for the properties only

nodeVars == <<known, tip, conn, generation, sub>>
taskVars == <<pc, status, prefix, staging, job, ctx>>
vars == <<storeVars, nodeVars, taskVars, notifs, crashes, dropped, swept>>

----------------------------------------------------------------------------
(* The node *)

\* The selected chain up to h.
Chain[h \in Hash] == IF h = Genesis THEN <<h>> ELSE Append(Chain[Parent[h]], h)

\* Every block descends from Genesis: following Parent from it, the recursion
\* ends.
ASSUME TreeAssumption ==
  \A h \in Hash :
    /\ Chain[h] \in Seq(Hash)
    /\ Chain[h] = IF h = Genesis THEN <<h>> ELSE Append(Chain[Parent[h]], h)

OnChain(t) == Range(Chain[t])

\* The elements of s that are in S, in their order.
Picked(s, S) ==
  LET upTo[i \in 0 .. Len(s)] ==
        IF i = 0 THEN <<>>
        ELSE IF s[i] \in S THEN Append(upTo[i - 1], s[i]) ELSE upTo[i - 1]
  IN upTo[Len(s)]

AddedChain(from, to) == Picked(Chain[to], Hash \ OnChain(from))

\* The highest block first.
RemovedChain(from, to) ==
  LET left == Picked(Chain[from], Hash \ OnChain(to))
  IN [i \in 1 .. Len(left) |-> left[(Len(left) - i) + 1]]

\* getVirtualChainFromBlock returns a bounded batch (rpc.proto:410-414).
VirtualChainFrom(start) ==
  LET added == AddedChain(start, tip)
  IN SubSeq(added, 1, IF Len(added) < ChainBatch THEN Len(added) ELSE ChainBatch)

\* All blocks, parents before children.
BlockOrder ==
  CHOOSE order \in [1 .. Cardinality(Hash) -> Hash] :
    /\ IsInjective(order)
    /\ \A i, j \in DOMAIN order :
         i < j => Len(Chain[order[i]]) <= Len(Chain[order[j]])

ASSUME OrderAssumption == BlockOrder \in Seq(Hash) /\ Range(BlockOrder) = Hash

\* getBlocks: everything from low up to the virtual, so nothing from low's past.
BlocksFrom(low) == Picked(BlockOrder, known \ (OnChain(low) \ {low}))

----------------------------------------------------------------------------
(* The notification channel *)

Connected(gen) == [kind |-> "connected", generation |-> gen]
BlockAdded(h) == [kind |-> "block", hash |-> h]
VirtualChainChanged(removed, accepted) ==
  [kind |-> "chain", removed |-> removed, accepted |-> accepted]

\* A full channel drops the message.
forward(q, m) == IF Len(q) < NOTIF_QUEUE THEN Append(q, m) ELSE q

\* What the node pushes when block h arrives and the sink becomes `to`.
Push(q, h, to) ==
  LET q1 == IF "block" \in sub THEN forward(q, BlockAdded(h)) ELSE q
  IN IF "chain" \in sub /\ to # tip
     THEN forward(q1, VirtualChainChanged(RemovedChain(tip, to),
                                          AddedChain(tip, to)))
     ELSE q1

Overflows(h, to) ==
  Len(notifs) + Cardinality(sub \cap (IF to = tip THEN {"block"} ELSE {"block", "chain"}))
    > NOTIF_QUEUE

InSync == pc = "recv" /\ notifs = <<>> /\ sub = {"block", "chain"}

\* The node receives block h; the longest chain wins.
Mine(h) ==
  /\ wtx = Nil
  /\ h \notin known /\ Parent[h] \in known
  /\ LET to == IF Len(Chain[h]) > Len(Chain[tip]) THEN h ELSE tip
     IN /\ to = tip \/ Parent[h] = tip \/ InSync \/ "reorg" \in Faults
        /\ known' = known \cup {h}
        /\ tip' = to
        /\ notifs' = Push(notifs, h, to)
        /\ dropped' = (dropped \/ Overflows(h, to))
  /\ UNCHANGED <<storeVars, conn, generation, sub, taskVars, crashes, swept>>

\* actor and serve: a fresh stream, announced to the indexer.
Connect ==
  /\ wtx = Nil
  /\ ~conn
  /\ conn' = TRUE
  /\ generation' = generation + 1
  /\ notifs' = forward(notifs, Connected(generation'))
  /\ dropped' = (dropped \/ Len(notifs) >= NOTIF_QUEUE)
  /\ UNCHANGED <<storeVars, known, tip, sub, taskVars, crashes, swept>>

----------------------------------------------------------------------------
(* Staging *)

\* Off by one: evicts only when the map was already over its cap.
MutBoundedInsert(order, k, cap) ==
  IF k \in Range(order) THEN order
  ELSE IF Len(order) > cap THEN Append(Tail(order), k) ELSE Append(order, k)

BoundedInsert(order, k, cap) ==
  IF k \in Range(order) THEN order
  ELSE LET longer == Append(order, k)
       IN IF Len(longer) > cap THEN Tail(longer) ELSE longer

\* Keeps the header and loses the bodies.
MutStageBlock(st, h) ==
  [st EXCEPT !.blocks = BoundedInsert(@, h, STAGE_BLOCK_CAP)]

\* The bodies ts are staged one after the other.
StageTxs(order, ts) ==
  LET upTo[i \in 0 .. Len(ts)] ==
        IF i = 0 THEN order ELSE BoundedInsert(upTo[i - 1], ts[i], STAGE_TX_CAP)
  IN upTo[Len(ts)]

stage_block(st, h) ==
  [blocks |-> BoundedInsert(st.blocks, h, STAGE_BLOCK_CAP),
   txs |-> StageTxs(st.txs, Body[h])]

\* The blocks hs are staged one after the other.
StageBlocks(st, hs) ==
  LET upTo[i \in 0 .. Len(hs)] ==
        IF i = 0 THEN st ELSE stage_block(upTo[i - 1], hs[i])
  IN upTo[Len(hs)]

NoStaging == [blocks |-> <<>>, txs |-> <<>>]

----------------------------------------------------------------------------
(* Connected: open the store, subscribe, backfill *)

NoJob == [from |-> Nil, removed |-> <<>>, accepted |-> <<>>, misses |-> 0, newest |-> 0]

Backfill(start, accepted) ==
  [NoJob EXCEPT !.from = start, !.accepted = accepted]

\* What /health shows of a process that has just started.
NoStatus == [state |-> "connecting", generation |-> 0, checkpoint_daa |-> Nil,
             window_low_daa |-> Nil, total_txs |-> 0, chain_blocks |-> 0,
             resolve_misses |-> 0, staged_blocks |-> 0]

InState(s) == [status EXCEPT !.state = s]

Idle(s) == pc' = "recv" /\ status' = s /\ job' = NoJob

\* Subscribes only with the first stream.
MutRecvConnected ==
  /\ pc = "recv" /\ notifs # <<>> /\ Head(notifs).kind = "connected"
  /\ notifs' = Tail(notifs)
  /\ status' = [InState("connecting") EXCEPT !.generation = Head(notifs).generation]
  /\ pc' = IF prefix = Nil THEN "open_store" ELSE "backfill"
  /\ dropped' = FALSE
  /\ UNCHANGED <<storeVars, nodeVars, prefix, staging, job, ctx, crashes, swept>>

RecvConnected ==
  /\ pc = "recv" /\ notifs # <<>> /\ Head(notifs).kind = "connected"
  /\ notifs' = Tail(notifs)
  /\ status' = [InState("connecting") EXCEPT !.generation = Head(notifs).generation]
  /\ pc' = IF prefix = Nil THEN "open_store" ELSE "notify_block_added"
  /\ dropped' = FALSE
  /\ UNCHANGED <<storeVars, nodeVars, prefix, staging, job, ctx, crashes, swept>>

Calling == {"open_store", "notify_block_added", "notify_virtual_chain_changed",
            "sink", "virtual_chain", "get_blocks"}

\* A failed subscription is only logged.
MutCallFails ==
  /\ pc \in Calling
  /\ pc' = CASE pc = "open_store" -> "notify_block_added"
             [] pc = "notify_block_added" -> "notify_virtual_chain_changed"
             [] pc = "notify_virtual_chain_changed" -> "backfill"
             [] pc \in {"sink", "virtual_chain"} -> "recv"
             [] pc = "get_blocks" -> "build_groups"
  /\ status' = IF pc' = "recv" THEN InState("live") ELSE status
  /\ prefix' = IF pc = "open_store" THEN "default" ELSE prefix
  /\ job' = IF pc' = "recv" THEN NoJob ELSE job
  /\ UNCHANGED <<staging, ctx>>

\* What the task does when the call it awaits returns an error.  open_store
\* falls back to the default network; a failed subscription ends the handler;
\* a failed backfill goes live; getBlocks is only an optimisation.
CallFails ==
  /\ pc \in Calling
  /\ CASE pc = "open_store" ->
            /\ \/ pc' = "notify_block_added" /\ prefix' = "default"
               \/ "store" \in Faults /\ pc' = "recv" /\ UNCHANGED prefix
            /\ UNCHANGED <<status, job>>
       [] pc \in {"notify_block_added", "notify_virtual_chain_changed"} ->
            Idle(status) /\ UNCHANGED prefix
       [] pc \in {"sink", "virtual_chain"} ->
            Idle(InState("live")) /\ UNCHANGED prefix
       [] pc = "get_blocks" ->
            pc' = "build_groups" /\ UNCHANGED <<status, job, prefix>>
  /\ UNCHANGED <<staging, ctx>>

\* A call can fail without a broken stream, and while the node is away it can
\* be failed by the reconnect loop.
RpcError ==
  /\ ~conn \/ "rpc" \in Faults
  /\ CallFails
  /\ UNCHANGED <<storeVars, nodeVars, notifs, crashes, dropped, swept>>

OpenStore ==
  /\ pc = "open_store" /\ conn
  /\ \/ pc' = "notify_block_added" /\ prefix' = "network"
     \/ "store" \in Faults /\ pc' = "recv" /\ UNCHANGED prefix
  /\ UNCHANGED <<storeVars, nodeVars, notifs, status, staging, job, ctx, crashes, dropped, swept>>

Subscribe(call, what, next) ==
  /\ pc = call /\ conn
  /\ sub' = sub \cup {what}
  /\ \/ pc' = next
     \/ "rpc" \in Faults /\ pc' = "recv"  \* done by the node, answered too late
  /\ UNCHANGED <<storeVars, known, tip, conn, generation, prefix, notifs,
                 staging, job, ctx, crashes, dropped, swept>>

SubscribeBlocks ==
  /\ Subscribe("notify_block_added", "block", "notify_virtual_chain_changed")
  /\ UNCHANGED status

SubscribeChain ==
  /\ Subscribe("notify_virtual_chain_changed", "chain", "backfill")
  /\ status' = IF pc' = "backfill" THEN InState("backfilling") ELSE status

\* Ignores the checkpoint.
MutBackfillStart ==
  /\ pc = "backfill"
  /\ pc' = "sink"
  /\ UNCHANGED <<storeVars, nodeVars, notifs, status, prefix, staging, job, ctx, crashes, dropped, swept>>

\* backfill starts at the checkpoint, or at the sink on a fresh index.
BackfillStart ==
  /\ pc = "backfill"
  /\ IF db.checkpoint # Nil
     THEN pc' = "virtual_chain" /\ job' = Backfill(db.checkpoint.hash, <<>>)
     ELSE pc' = "sink" /\ UNCHANGED job
  /\ UNCHANGED <<storeVars, nodeVars, notifs, status, prefix, staging, ctx, crashes, dropped, swept>>

GetSink ==
  /\ pc = "sink" /\ conn
  /\ pc' = "virtual_chain"
  /\ job' = Backfill(tip, <<>>)
  /\ UNCHANGED <<storeVars, nodeVars, notifs, status, prefix, staging, ctx, crashes, dropped, swept>>

\* The removed chain blocks of the answer are not used.
GetVirtualChain ==
  /\ pc = "virtual_chain" /\ conn
  /\ job' = Backfill(job.from, VirtualChainFrom(job.from))
  /\ pc' = IF job'.accepted = <<>> THEN "build_groups" ELSE "get_blocks"
  /\ UNCHANGED <<storeVars, nodeVars, notifs, status, prefix, staging, ctx, crashes, dropped, swept>>

GetBlocks ==
  /\ pc = "get_blocks" /\ conn
  /\ staging' = StageBlocks(staging, BlocksFrom(Head(job.accepted)))
  /\ pc' = "build_groups"
  /\ UNCHANGED <<storeVars, nodeVars, notifs, status, prefix, job, ctx, crashes, dropped, swept>>

----------------------------------------------------------------------------
(* BlockAdded and VirtualChainChanged *)

RecvBlockAdded ==
  /\ pc = "recv" /\ notifs # <<>> /\ Head(notifs).kind = "block"
  /\ notifs' = Tail(notifs)
  /\ staging' = stage_block(staging, Head(notifs).hash)
  /\ status' = [status EXCEPT !.staged_blocks = Len(staging'.blocks)]
  /\ UNCHANGED <<storeVars, nodeVars, pc, prefix, job, ctx, crashes, dropped, swept>>

\* Applies the added blocks and forgets the removed ones.
MutRecvChainChanged ==
  /\ pc = "recv" /\ notifs # <<>> /\ Head(notifs).kind = "chain"
  /\ notifs' = Tail(notifs)
  /\ IF prefix = Nil THEN UNCHANGED <<pc, job>>
     ELSE /\ pc' = "unwind"
          /\ job' = [NoJob EXCEPT !.accepted = Head(notifs).accepted]
  /\ UNCHANGED <<storeVars, nodeVars, status, prefix, staging, ctx, crashes, dropped, swept>>

RecvChainChanged ==
  /\ pc = "recv" /\ notifs # <<>> /\ Head(notifs).kind = "chain"
  /\ notifs' = Tail(notifs)
  /\ IF prefix = Nil THEN UNCHANGED <<pc, job>>
     ELSE /\ pc' = "unwind"
          /\ job' = [NoJob EXCEPT !.removed = Head(notifs).removed,
                                  !.accepted = Head(notifs).accepted]
  /\ UNCHANGED <<storeVars, nodeVars, status, prefix, staging, ctx, crashes, dropped, swept>>

\* One write transaction for each removed block, in the order given.
UnwindNext ==
  /\ pc = "unwind" /\ job.removed # <<>>
  /\ \/ Unwind(Head(job.removed))
     \/ "store" \in Faults /\ UNCHANGED storeVars
  /\ job' = [job EXCEPT !.removed = Tail(@)]
  /\ UNCHANGED <<nodeVars, notifs, pc, status, prefix, staging, ctx, crashes, dropped, swept>>

Unwound ==
  /\ pc = "unwind" /\ job.removed = <<>>
  /\ pc' = "build_groups"
  /\ UNCHANGED <<storeVars, nodeVars, notifs, status, prefix, staging, job, ctx, crashes, dropped, swept>>

----------------------------------------------------------------------------
(* build_groups and apply_groups *)

\* The blocks in `unresolved` are the ones whose getBlock failed.
resolve_daa(h, unresolved) == IF h \in unresolved THEN 0 ELSE Daa[h]

build_groups(accepted, unresolved) ==
  [i \in DOMAIN accepted |->
     LET h == accepted[i]
     IN [hash |-> h,
         daa  |-> resolve_daa(h, unresolved),
         txs  |-> Picked(Accepts[h], Range(staging.txs))]]

Misses(accepted, groups) ==
  MapThenSumSet(LAMBDA i : Len(Accepts[accepted[i]]) - Len(groups[i].txs),
                DOMAIN accepted)

\* The end of a handler: backfill ends by going live.
Finish(s) == Idle(IF job.from = Nil THEN s ELSE [s EXCEPT !.state = "live"])

\* What apply_groups reports once the batch is in and the sweep is done.
Refreshed(d, misses) ==
  [status EXCEPT !.checkpoint_daa = checkpoint_daa(d),
                 !.window_low_daa = window_low_daa(d),
                 !.total_txs = d.total_txs,
                 !.chain_blocks = chain_blocks(d),
                 !.resolve_misses = misses,
                 !.staged_blocks = 0]

BuildGroups ==
  /\ pc = "build_groups"
  /\ \E unresolved \in SUBSET (Range(job.accepted) \ Range(staging.blocks)) :
       /\ unresolved # {} => ~conn \/ "rpc" \in Faults
       /\ LET groups == build_groups(job.accepted, unresolved)
          IN IF groups = <<>> THEN Finish(status) /\ UNCHANGED storeVars
             ELSE /\ BeginApply(groups)
                  /\ pc' = "apply"
                  /\ job' = [job EXCEPT !.misses = Misses(job.accepted, groups)]
                  /\ UNCHANGED status
  /\ UNCHANGED <<nodeVars, notifs, prefix, staging, ctx, crashes, dropped, swept>>

ApplyStep ==
  /\ pc = "apply"
  /\ SkipGroup \/ IndexNextTx \/ FinishGroup
  /\ UNCHANGED <<nodeVars, taskVars, notifs, crashes, dropped, swept>>

ApplyFails ==
  /\ pc = "apply" /\ "store" \in Faults
  /\ AbortApply
  /\ Finish(status)
  /\ UNCHANGED <<nodeVars, notifs, prefix, staging, ctx, crashes, dropped, swept>>

SweepDue(newest) ==
  /\ WindowDaa > 0
  /\ newest > WindowDaa
  /\ newest >= ctx.last_expire_daa + EXPIRE_INTERVAL_DAA

ApplyDone ==
  /\ pc = "apply"
  /\ CommitApply
  /\ ctx' = [ctx EXCEPT !.total_misses = @ + job.misses]
  /\ IF SweepDue(wtx.newest)
     THEN /\ pc' = "expire" /\ job' = [job EXCEPT !.newest = wtx.newest]
          /\ UNCHANGED status
     ELSE Finish(Refreshed(db', ctx'.total_misses))
  /\ UNCHANGED <<nodeVars, notifs, prefix, staging, crashes, dropped, swept>>

Later(m, n) == IF m < n THEN n ELSE m

\* Reports the tables as they were before the sweep.
MutSweep ==
  /\ pc = "expire"
  /\ \/ Expire(job.newest - WindowDaa) /\ swept' = Later(swept, job.newest - WindowDaa)
     \/ "store" \in Faults /\ UNCHANGED <<storeVars, swept>>
  /\ ctx' = [ctx EXCEPT !.last_expire_daa = job.newest]
  /\ Finish(Refreshed(db, ctx.total_misses))
  /\ UNCHANGED <<nodeVars, notifs, prefix, staging, crashes, dropped>>

Sweep ==
  /\ pc = "expire"
  /\ \/ Expire(job.newest - WindowDaa) /\ swept' = Later(swept, job.newest - WindowDaa)
     \/ "store" \in Faults /\ UNCHANGED <<storeVars, swept>>
  /\ ctx' = [ctx EXCEPT !.last_expire_daa = job.newest]
  /\ Finish(Refreshed(db', ctx.total_misses))
  /\ UNCHANGED <<nodeVars, notifs, prefix, staging, crashes, dropped>>

----------------------------------------------------------------------------
(* Broken streams and crashes *)

\* The stream breaks.  A call in flight fails; one that is still queued in the
\* client waits for the next stream.
Disconnect ==
  /\ wtx = Nil
  /\ conn /\ generation + crashes < MaxGeneration
  /\ pc = "recv" \/ "break" \in Faults
  /\ conn' = FALSE
  /\ sub' = {}
  /\ CallFails \/ UNCHANGED taskVars
  /\ UNCHANGED <<storeVars, known, tip, generation, notifs, crashes, dropped, swept>>

\* The chain switches on its way through the channel and the task.
ReorgInFlight ==
  job.removed # <<>> \/ \E i \in DOMAIN notifs : /\ notifs[i].kind = "chain"
                                               /\ notifs[i].removed # <<>>

\* The process dies and is started again: only the store is left.  A write
\* transaction that was open is gone.
Crash ==
  /\ "crash" \in Faults /\ crashes < MaxCrashes
  /\ ReorgInFlight => "reorg" \in Faults
  /\ crashes' = crashes + 1
  /\ IF wtx = Nil THEN UNCHANGED storeVars ELSE AbortApply
  /\ conn' = FALSE /\ sub' = {} /\ generation' = 0
  /\ notifs' = <<>>
  /\ pc' = "recv" /\ status' = NoStatus /\ prefix' = Nil
  /\ staging' = NoStaging /\ job' = NoJob
  /\ ctx' = [last_expire_daa |-> 0, total_misses |-> 0]
  /\ UNCHANGED <<known, tip, dropped, swept>>

----------------------------------------------------------------------------

Init ==
  /\ StoreInit
  /\ known = {Genesis} /\ tip = Genesis
  /\ conn = FALSE /\ generation = 0 /\ sub = {}
  /\ notifs = <<>>
  /\ pc = "recv" /\ status = NoStatus /\ prefix = Nil
  /\ staging = NoStaging /\ job = NoJob
  /\ ctx = [last_expire_daa |-> 0, total_misses |-> 0]
  /\ crashes = 0
  /\ dropped = FALSE
  /\ swept = 0

\* The indexer's own steps.
Task ==
  \/ RecvConnected \/ OpenStore \/ SubscribeBlocks \/ SubscribeChain
  \/ BackfillStart \/ GetSink \/ GetVirtualChain \/ GetBlocks \/ RpcError
  \/ RecvBlockAdded \/ RecvChainChanged \/ UnwindNext \/ Unwound
  \/ BuildGroups \/ ApplyStep \/ ApplyFails \/ ApplyDone \/ Sweep

Environment ==
  \/ \E h \in Hash \ {Genesis} : Mine(h)
  \/ Connect \/ Disconnect \/ Crash

Next == Task \/ Environment

Spec == Init /\ [][Next]_vars

\* The task is scheduled whenever it can move, and the node comes back.  The
\* task can move whenever it is not waiting on an empty channel: an awaited
\* call is answered, or is failed when the stream is down.  Weak fairness of
\* Task is written out with that predicate for ENABLED, which TLC would
\* evaluate at great cost.
Ready == pc # "recv" \/ notifs # <<>>

FairSpec ==
  /\ Spec
  /\ []<>~Ready \/ []<><<Task>>_vars
  /\ WF_vars(Connect)

----------------------------------------------------------------------------
(* Properties *)

\* The variables have their types, the channel and the two staging maps keep to
\* their capacity, and only blocks the node knows are worked on.
IndexerTypeOK ==
  /\ TypeOK
  /\ tip \in known /\ known \subseteq Hash
  /\ conn \in BOOLEAN /\ generation \in Nat
  /\ sub \subseteq {"block", "chain"} /\ (~conn => sub = {})
  /\ Len(notifs) <= NOTIF_QUEUE
  /\ pc \in Calling \cup {"recv", "backfill", "unwind", "build_groups",
                          "apply", "expire"}
  /\ (pc = "apply") = (wtx # Nil)
  /\ status.state \in {"connecting", "backfilling", "live"}
  /\ prefix \in {Nil, "network", "default"}
  /\ Range(staging.blocks) \subseteq known
  /\ Len(staging.blocks) <= STAGE_BLOCK_CAP
  /\ Len(staging.txs) <= STAGE_TX_CAP
  /\ Range(job.removed) \cup Range(job.accepted) \subseteq known

\* Nothing is left for the task to do, and the node would tell it of more.
Quiet == InSync /\ prefix # Nil

\* The applied blocks are on the node's chain, with no gap between the oldest
\* of them and the sink.
CaughtUp ==
  /\ DOMAIN db.applied \subseteq OnChain(tip)
  /\ \A h \in DOMAIN db.applied : \A k \in OnChain(tip) :
       h \in OnChain(k) => k \in DOMAIN db.applied

\* Once the task has dealt with what it was told, the index follows the node's
\* chain without a gap and without a block that left it, whatever the order of
\* subscriptions, backfill answers and queued notifications was.
NoGapWhenQuiet == Quiet => CaughtUp

\* The same, once a Connected notification and its backfill have been handled
\* since the last notification was dropped: "we drop and let the next
\* Connected-driven backfill reconcile" (node.rs:287).
DropsReconciled == Quiet /\ ~dropped => CaughtUp

\* In sync, every stored transaction can be found by its id and through each
\* outpoint it spends: a reorg that moves a transaction to another block must
\* not take the new block's index entries along with the old block's rows.
FindableWhenQuiet ==
  Quiet => \A n \in DOMAIN db.tx :
             LET t == db.tx[n].tx_id
             IN /\ t \in DOMAIN db.tx_by_id /\ db.tx_by_id[t] = n
                /\ \A o \in SpentBy(t) : o \in DOMAIN db.spend /\ db.spend[o] = n

\* A backfill from a checkpoint finds the body of every transaction accepted
\* since: "restart must resume from checkpoint with no duplicate or missing
\* rows" (PHASE2.md:185).
BackfillMissesNothing ==
  [][ApplyDone /\ job.from # Nil /\ db.checkpoint # Nil => job.misses = 0]_vars

\* As long as the process lives it does: the staging maps outlive the stream.
ReconnectMissesNothing ==
  [][ApplyDone /\ job.from # Nil /\ db.checkpoint # Nil /\ crashes = 0 =>
       job.misses = 0]_vars

\* /health says "live" for the stream that is up only if the node holds both
\* subscriptions of that stream: a call that fails, is answered too late or
\* lands on the next stream never leaves a live index the node tells nothing.
LiveMeansSubscribed ==
  status.state = "live" /\ conn /\ status.generation = generation =>
    sub = {"block", "chain"}

\* Between two notifications /health shows the tables as they are, once it
\* shows a checkpoint: reorgs, skipped blocks and sweeps are all in the counts.
HealthMatchesTables ==
  pc = "recv" /\ status.checkpoint_daa # Nil =>
    status = [Refreshed(db, ctx.total_misses) EXCEPT !.staged_blocks = status.staged_blocks]

\* No transaction is stored twice for one accepting block, across reconnects,
\* crashes and overlaps of backfill and live notifications: "the idempotent
\* apply (keyed by chain-block hash) makes any overlap a no-op" (store.rs:7-8).
NoDuplicateRows ==
  \A m, n \in DOMAIN db.tx :
    db.tx[m].tx_id = db.tx[n].tx_id /\ db.tx[m].block = db.tx[n].block => m = n

\* Inside the retention window it is so: of two rows of one transaction and one
\* accepting block, one has a score below the cutoff of a sweep.  Such a sweep
\* opened apply's gate again, by taking the block out of applied_blocks, and
\* left the row where it was, behind a newer one (store.rs:753-758).
WindowRowsOnce ==
  \A m, n \in DOMAIN db.tx :
    /\ db.tx[m].tx_id = db.tx[n].tx_id /\ db.tx[m].block = db.tx[n].block
    /\ db.tx[m].daa >= swept /\ db.tx[n].daa >= swept
    => m = n

\* The index catches up again after every reconnect and reorg.
CatchesUp == []<>(Quiet /\ CaughtUp)

=============================================================================
