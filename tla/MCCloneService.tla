--------------------------- MODULE MCCloneService ---------------------------
(***************************************************************************)
(* Small instances of CloneService: two repositories of different owners   *)
(* that have the same name.                                                *)
(***************************************************************************)
EXTENDS CloneService, TLC

CONSTANTS u1, u2, name, w1, w2, none

SameName == [u \in {u1, u2} |-> name]
=============================================================================
