------------------------------ MODULE MCQAJobs ------------------------------
(***************************************************************************)
(* Small instances of QAJobs.                                              *)
(***************************************************************************)
EXTENDS QAJobs, TLC

CONSTANTS j1, j2, p1, p2, none
=============================================================================
