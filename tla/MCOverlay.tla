----------------------------- MODULE MCOverlay -----------------------------
(***************************************************************************)
(* Overlay for TLC: h1 pays the coinbase c1; p spends its output.          *)
(***************************************************************************)
EXTENDS Overlay, TLC

CONSTANTS h1, h2, h3, c1, p, alice, bob, o1, o2

MCHash == {h1, h2, h3}
MCTxId == {c1, p}
MCAddress == {alice, bob}
MCOutpoint == {o1, o2}
MCCoinbase == {c1}
MCInputs == (c1 :> {}) @@ (p :> {o1})
MCFundedBy == (o1 :> c1) @@ (o2 :> p)
MCOwner == (o1 :> alice) @@ (o2 :> bob)
MCAmount == (o1 :> 5) @@ (o2 :> 4)
MCReward == [h \in MCHash |-> IF h = h1 THEN <<c1>> ELSE <<>>]

=============================================================================
