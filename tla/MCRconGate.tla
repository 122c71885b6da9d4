----------------------------- MODULE MCRconGate -----------------------------
(***************************************************************************)
(* RconGate with two callers of rconFor and one of getStatusOnce, and room *)
(* for two datagrams in the buffer.                                        *)
(***************************************************************************)
EXTENDS RconGate

CONSTANTS a, b, s, k1, k2, k3, k4
=============================================================================
