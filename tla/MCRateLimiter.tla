--------------------------- MODULE MCRateLimiter ---------------------------
(***************************************************************************)
(* Small instances of RateLimiter.                                         *)
(***************************************************************************)
EXTENDS RateLimiter, TLC

CONSTANTS c1, c2, loop, thread

ClientSymmetry == Permutations({c1, c2})
=============================================================================
