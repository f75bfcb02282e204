---------------------------- MODULE MCGraphCache ----------------------------
(***************************************************************************)
(* Small instances of GraphCache.                                          *)
(***************************************************************************)
EXTENDS GraphCache, TLC

CONSTANTS a, b, x, y, w1, w2

Symmetries == Permutations({w1, w2}) \cup Permutations({x, y})
=============================================================================
