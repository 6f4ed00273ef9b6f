----------------------------- MODULE MCIndexer -----------------------------
(***************************************************************************)
(* Indexer for TLC: a main chain b1 .. b5 and a fork f2, f3 at b1.  The   *)
(* coinbase c1 rides in b1; p, which spends it, rides in b2 and in f2; q   *)
(* spends p's output and rides in b3.                                      *)
(***************************************************************************)
EXTENDS Indexer, TLC

CONSTANTS b0, b1, b2, b3, b4, b5, f2, f3, c1, p, q, alice, bob, o1, o2, o3

MCTxId == {c1, p, q}
MCAddress == {alice, bob}
MCOutpoint == {o1, o2, o3}
MCCoinbase == {c1}
MCInputs == (c1 :> {}) @@ (p :> {o1}) @@ (q :> {o2})
MCFundedBy == (o1 :> c1) @@ (o2 :> p) @@ (o3 :> q)
MCOwner == (o1 :> alice) @@ (o2 :> bob) @@ (o3 :> alice)
MCAmount == (o1 :> 5) @@ (o2 :> 4) @@ (o3 :> 3)

Forked == {b0, b1, b2, b3, f2, f3}
SmallFork == {b0, b1, b2, f2, f3}
Linear == {b0, b1, b2, b3}
Long == {b0, b1, b2, b3, b4, b5}

MCParent == [h \in Hash \ {b0} |->
  CASE h = b1 -> b0 [] h = b2 -> b1 [] h = b3 -> b2 [] h = b4 -> b3 [] h = b5 -> b4
    [] h = f2 -> b1 [] h = f3 -> f2]
MCDaa == [h \in Hash |->
  CASE h = b0 -> 1 [] h = b1 -> 2 [] h \in {b2, f2} -> 3
    [] h \in {b3, f3} -> 4 [] h = b4 -> 5 [] h = b5 -> 6]
MCBody == [h \in Hash |->
  CASE h = b1 -> <<c1>> [] h \in {b2, f2} -> <<p>> [] h = b3 -> <<q>> [] OTHER -> <<>>]
MCAccepts == [h \in Hash |->
  CASE h \in {b2, f2} -> <<c1>> [] h \in {b3, f3} -> <<p>> [] h = b4 -> <<q>>
    [] OTHER -> <<>>]

=============================================================================
