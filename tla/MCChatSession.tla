---------------------------- MODULE MCChatSession ----------------------------
(***************************************************************************)
(* Small instances of ChatSession.                                         *)
(***************************************************************************)
EXTENDS ChatSession, TLC

CONSTANTS b1, r1, r2, none
=============================================================================
