--------------------------- MODULE MCBotRebalance ----------------------------
(***************************************************************************)
(* BotRebalance with client slots for one move at a time, and two names,   *)
(* so that two bots may have one name.                                     *)
(***************************************************************************)
EXTENDS BotRebalance, TLC

CONSTANTS s1, s2, s3, s4, b1, b2

Symmetric == Permutations(Slots) \cup Permutations(BotNames)
=============================================================================
