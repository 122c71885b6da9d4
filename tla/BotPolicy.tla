------------------------------ MODULE BotPolicy ------------------------------
(***************************************************************************)
(* The bot policy of q3ctl (internal/app/server.go): what the dashboard    *)
(* sends, which policies the handlers accept, and the roster a policy      *)
(* stands for.  These are pure functions; the handlers that use them are   *)
(* in BotDirector and StateStore.                                          *)
(*                                                                         *)
(* Names are compared without regard to case by the program                *)
(* (strings.EqualFold, strings.ToLower), so a name here stands for a class *)
(* of spellings.                                                           *)
(***************************************************************************)
EXTENDS Integers, Sequences

CONSTANT BotNames   \* the bot names a policy may list

Teams == {"red", "blue"}

\* A bot as the engine knows it: its name and the team it was added to.
Bots == [name : BotNames, team : Teams]

\* What a request body can decode to.  The team is any text, the numbers are
\* any integers: ValidPolicy decides.
PolicyRecords ==
    [enabled   : BOOLEAN,
     humanTeam : STRING,
     perTeam   : Int,
     friendly  : Seq(BotNames),
     opponent  : Seq(BotNames),
     baseSkill : Int,
     minSkill  : Int,
     maxSkill  : Int]

\* validatePolicy
ValidPolicy(p) ==
    /\ p.humanTeam \in Teams
    /\ 0 <= p.perTeam
    /\ p.perTeam <= Len(p.friendly)
    /\ p.perTeam <= Len(p.opponent)
    /\ 1 <= p.minSkill
    /\ p.maxSkill <= 5
    /\ p.minSkill <= p.baseSkill
    /\ p.baseSkill <= p.maxSkill

OtherTeam(team) == IF team = "blue" THEN "red" ELSE "blue"

\* The bots rebuildBots adds, in the order it adds them: the first perTeam
\* friendly bots on the human team, then the first perTeam opponents.
Plan(p) ==
    [i \in 1 .. 2 * p.perTeam |->
        IF i <= p.perTeam
        THEN [name |-> p.friendly[i], team |-> p.humanTeam]
        ELSE [name |-> p.opponent[i - p.perTeam],
              team |-> OtherTeam(p.humanTeam)]]

\* configuredBotName: a name addBot accepts is listed in the policy, on
\* either side, even beyond the first perTeam entries.
Configured(p, name) ==
    \/ \E i \in DOMAIN p.friendly : p.friendly[i] = name
    \/ \E i \in DOMAIN p.opponent : p.opponent[i] = name
=============================================================================
