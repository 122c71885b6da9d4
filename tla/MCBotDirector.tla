---------------------------- MODULE MCBotDirector ----------------------------
(***************************************************************************)
(* BotDirector on a small instance: two bots, three client slots, so that  *)
(* one bot may be there twice or a person may take its place.              *)
(***************************************************************************)
EXTENDS BotDirector, TLC

CONSTANTS r1, r2, s1, s2, s3

MCNames == {"Sarge", "Hunter"}

OnePerTeam ==
    [enabled |-> TRUE, humanTeam |-> "red", perTeam |-> 1,
     friendly |-> <<"Sarge">>, opponent |-> <<"Hunter">>,
     baseSkill |-> 3, minSkill |-> 1, maxSkill |-> 5]

\* No bots at all; it still names the bots an ad-hoc addition may use.
NoBots == [OnePerTeam EXCEPT !.perTeam = 0]

\* A reconcile is refused while this one is saved.
Disabled == [NoBots EXCEPT !.enabled = FALSE]

\* validatePolicy refuses it: more bots per team than it lists.
TooMany == [OnePerTeam EXCEPT !.perTeam = 2]

MCPolicies == {OnePerTeam, NoBots, TooMany}

MCOnePolicy == {OnePerTeam}

\* Quake fills up with a bot of a planned name on the wrong team.
MCFillBots == {[name |-> "Sarge", team |-> "blue"]}

Symmetric == Permutations({r1, r2}) \cup Permutations({s1, s2, s3})
=============================================================================
