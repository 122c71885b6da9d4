----------------------------- MODULE BotBalance ------------------------------
(***************************************************************************)
(* The arithmetic of botRebalanceMoves (internal/app/server.go): from the  *)
(* number of humans and of bots on each team, whether the teams can be     *)
(* balanced, and how many bots go from which to which.                     *)
(***************************************************************************)
EXTENDS Integers

\* The players on red and blue.
Counts == [redHumans : Nat, blueHumans : Nat, redBots : Nat, blueBots : Nat]

Abs(n) == IF n < 0 THEN -n ELSE n

Difference(c) == (c.redHumans + c.redBots) - (c.blueHumans + c.blueBots)

\* The first error: "human teams are too uneven to balance without moving a
\* human".
TooUneven(c) ==
    Abs(c.redHumans - c.blueHumans) > c.redBots + c.blueBots + 1

Balanced(c) == Abs(Difference(c)) <= 1

\* The team that gives bots away.
From(c) == IF Difference(c) < 0 THEN "blue" ELSE "red"

Needed(c) == Abs(Difference(c)) \div 2

Givers(c) == IF From(c) = "red" THEN c.redBots ELSE c.blueBots

\* The second error: "teams cannot be balanced without moving a human".
TooFewBots(c) == Givers(c) < Needed(c)

\* The teams when k bots have been moved.
After(c, k) ==
    IF From(c) = "red"
    THEN [c EXCEPT !.redBots = @ - k, !.blueBots = @ + k]
    ELSE [c EXCEPT !.redBots = @ + k, !.blueBots = @ - k]
=============================================================================
