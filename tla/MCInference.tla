---------------------------- MODULE MCInference ----------------------------
(***************************************************************************)
(* Inference for TLC: a routed request ra answered by r1 and r2, two       *)
(* unrouted requests ub and uc with one payload, a challenge ch of r1 that *)
(* does not name its request, and two coinbases: both declare a model for  *)
(* one miner, the first for another too.  The blocks f2 and f3 compete     *)
(* with h1 .. h4 and accept some of the same transactions.                 *)
(***************************************************************************)
EXTENDS Inference

CONSTANTS
  h1, h2, h3, h4, f2, f3,
  ca, cb, ra, ub, uc, r1, r2, rb, ch,
  dreq, dub, d1, d2, d3, model, miner, miner2,
  MaxTxNum,        \* bound on the tx_nums handed out
  MaxDaa,          \* largest expiry cutoff
  Orders           \* the orders of calls explored, see below

\* The order of calls, fixed for a behaviour.  "chain": no reorgs; "switch": one
\* branch at a time, its tip unwound first; "any": late, repeated, stale blocks.
VARIABLE order

mcVars == <<aiVars, order>>

MCHash == {h1, h2, h3, h4, f2, f3}
MCTxId == {ca, cb, ra, ub, uc, r1, r2, rb, ch}
MCDigest == {dreq, dub, d1, d2, d3}
MCCoinbase == {ca, cb}
MCInputs == [t \in MCTxId |-> {}]
NoOutpoint == [o \in {} |-> Nil]

Request(digest, routed, private) ==
  [kind |-> "request", digest |-> digest, routed |-> routed, private |-> private]

Response(digest, id) ==
  [kind |-> "response", digest |-> digest, request_hash |-> id]

MCAiBody ==
  [t \in MCTxId |->
     CASE t = ra -> Request(dreq, TRUE, FALSE)
       [] t \in {ub, uc} -> Request(dub, FALSE, FALSE)
       [] t = r1 -> Response(d1, ra)
       [] t = r2 -> Response(d2, ra)
       [] t = rb -> Response(d3, dub)
       [] t = ch -> [kind |-> "challenge", response_hash |-> d1,
                     request_hash |-> Nil]
       [] OTHER -> Nil]

MCDeclares ==
  [t \in MCTxId |-> CASE t = ca -> {<<model, miner>>, <<model, miner2>>}
                      [] t = cb -> {<<model, miner>>}
                      [] OTHER -> {}]

Grp(h, daa, txs) == [hash |-> h, daa |-> daa, txs |-> txs]

Main == { Grp(h1, 1, <<ca, ra>>), Grp(h2, 2, <<ub, r1>>),
          Grp(h3, 3, <<cb, r2, ch>>), Grp(h4, 4, <<uc, rb>>) }

Fork == { Grp(f2, 3, <<ra, r2>>), Grp(f3, 4, <<uc, r1, ch>>) }

Branch(h) == IF h \in {f2, f3} THEN Fork ELSE Main

\* Without reorgs blocks come in the order of their DAA scores, once each; a
\* reorg unwinds one branch from its tip before it applies the other.
Offered(g) ==
  CASE order = "chain"  -> /\ g \in Main
                           /\ db.checkpoint # Nil => g.daa > db.checkpoint.daa
    [] order = "switch" -> \A h \in DOMAIN db.applied :
                              Branch(h) = Branch(g.hash) /\ db.applied[h] < g.daa
    [] OTHER            -> TRUE

Unwindable(h) ==
  CASE order = "chain"  -> FALSE
    [] order = "switch" -> /\ h \in DOMAIN db.applied
                           /\ \A k \in DOMAIN db.applied : db.applied[k] <= db.applied[h]
    [] OTHER            -> TRUE

MCInit == AiInit /\ order \in Orders

Calls ==
  \/ \E g \in Main \cup Fork : /\ Offered(g)
                               /\ db.next_tx_num + Len(g.txs) <= MaxTxNum
                               /\ BeginAi(<<g>>)
  \/ SkipAi
  \/ IndexNextAi
  \/ FinishAi
  \/ CommitAi
  \/ AbortAi
  \/ \E h \in Hash : Unwindable(h) /\ UnwindAi(h)
  \/ \E cutoff \in 1 .. MaxDaa : ExpireAi(cutoff)

MCNext == Calls /\ UNCHANGED order

MCSpec == MCInit /\ [][MCNext]_mcVars

\* The blocks come from one branch at a time, as the node announces them.
Announced == order # "any"

\* While blocks are applied as the node announces them, the feed shows exactly
\* the stored requests, each with the first response that is stored
\* (unwind_chain_block deletes a block's "transactions and their derived
\* rows", store.rs:657-658).
AnnouncedFeed == Announced => FeedMatchesChain

\* While blocks are applied as the node announces them, inference_by_tx finds
\* every routed request of the window.
AnnouncedRequests == Announced => RequestsFindable

\* While blocks are applied as the node announces them, the declared models
\* are those of the stored coinbases.
AnnouncedCapabilities == Announced => CapabilitiesMatchChain

\* While blocks are applied as the node announces them, a challenge is filed
\* under the request whose response it disputes.
AnnouncedChallenges == Announced => ChallengesAttributed

\* The sweep keeps the feed's rows inside the window, for every cutoff.
SweepKeepsFeed == [][\A cutoff \in 1 .. MaxDaa : FeedSurvives(cutoff)]_aiVars

=============================================================================
