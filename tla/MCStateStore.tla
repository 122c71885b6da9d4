---------------------------- MODULE MCStateStore -----------------------------
(***************************************************************************)
(* StateStore with two policies, two maps and two rotations, one of which  *)
(* needs a map that may be missing.                                        *)
(***************************************************************************)
EXTENDS StateStore, TLC

CONSTANTS r1, r2, p1, p2, m1, m2

MCRotations == {<<m1>>, <<m1, m2>>}
MCDefaults == [policy |-> p1, friendlyFire |-> FALSE, rotation |-> <<m1>>]

Symmetric == Permutations({r1, r2})
=============================================================================
