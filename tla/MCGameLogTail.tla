---------------------------- MODULE MCGameLogTail ----------------------------
(***************************************************************************)
(* GameLogTail with a log of up to four pieces and a tail of two.          *)
(***************************************************************************)
EXTENDS GameLogTail
=============================================================================
