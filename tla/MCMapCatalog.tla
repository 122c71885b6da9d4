---------------------------- MODULE MCMapCatalog ----------------------------
(***************************************************************************)
(* MapCatalog with a .pk3 and a .pk3dir, which may declare modes for one   *)
(* another's maps, and two requests at a time.                             *)
(***************************************************************************)
EXTENDS MapCatalog, TLC

CONSTANTS r1, r2, c1, c2, x, y

\* A map whose name suggests its mode, and the declaration of one that is not
\* in the package, in words of which one is not understood; another
\* declaration of that map, and a declaration in no known word.
MCFilesOf == (c1 :> {"q3ctf1"}) @@ (c2 :> {"q3dm1", "bad name"})
MCArenasOf ==
    (c1 :> (x :> {[map |-> "q3dm1", words |-> {"team", "other"}]})) @@
    (c2 :> ((x :> {[map |-> "q3dm1", words |-> {"ctf", "ffa"}]}) @@
            (y :> {[map |-> "ctfdm2", words |-> {"other"}]})))

\* At first both packages are there.
MCInit == Init /\ disk = <<c1, c2>>
MCSpec == MCInit /\ [][Next]_vars /\ Fairness
=============================================================================
