------------------------------ MODULE MCCaches ------------------------------
(***************************************************************************)
(* Caches for TLC: two requests, a release on either side of the one that  *)
(* introduced the call, and a version string that does not parse.          *)
(***************************************************************************)
EXTENDS Caches, TLC

MCTtl == [c \in Cells |-> CASE c = "info" -> 1
                            [] c \in {"block_reward", "market", "ai_providers"} -> 2
                            [] OTHER -> 3]
MCVersions == {Nil, <<1, 6, 3>>, <<1, 6, 4>>, <<1, 10, 0>>}
MCMinNode == <<1, 6, 4>>
MCSymmetry == Permutations(Req)

=============================================================================
