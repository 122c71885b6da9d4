---------------------------- MODULE MCMapRotation -----------------------------
(***************************************************************************)
(* MapRotation with rotations of one, two and three entries, so that       *)
(* chains of different lengths are installed over each other.              *)
(***************************************************************************)
EXTENDS MapRotation, TLC

CONSTANTS r1, r2, e1, e2

MCRotations == {<<e1>>, <<e2, e1>>, <<e1, e2, e2>>}

Symmetric == Permutations({r1, r2})
=============================================================================
