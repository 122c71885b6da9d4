---------------------------- MODULE MCEventStream ----------------------------
(***************************************************************************)
(* EventStream with three events, two of which fit the window, and a       *)
(* channel that is full with one.                                          *)
(***************************************************************************)
EXTENDS EventStream

CONSTANTS e1, e2, e3, s1
=============================================================================
