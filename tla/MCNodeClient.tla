--------------------------- MODULE MCNodeClient ---------------------------
(***************************************************************************)
(* NodeClient for TLC: an answer holds what the caller asked for, or       *)
(* nothing; the other bodies differ only in the error they are turned into.*)
(***************************************************************************)
EXTENDS NodeClient

MCBody == {"reply", "empty"}

=============================================================================
