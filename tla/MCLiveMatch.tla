---------------------------- MODULE MCLiveMatch -----------------------------
(***************************************************************************)
(* LiveMatch with two handlers, which may ask for either of two maps, each *)
(* in a mode of its own, and a rotation with limits of its own.            *)
(***************************************************************************)
EXTENDS LiveMatch

CONSTANTS r1, r2

MCWanted == {[map |-> "q3dm17", mode |-> 0], [map |-> "q3ctf1", mode |-> 4]}
MCLimits == {<<1, 1, 1>>}
MCEntries == {[map |-> "q3dm17", mode |-> 0, limits |-> <<0, 0, 0>>]}
=============================================================================
