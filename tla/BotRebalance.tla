---------------------------- MODULE BotRebalance -----------------------------
(***************************************************************************)
(* POST /bots/rebalance of q3ctl (internal/app/server.go): it reads who    *)
(* plays on which team, asks the engine to move some bots by the number of *)
(* their client slot (forceteam), and where that does not help removes     *)
(* each of them and adds it again on the other team.  Meanwhile people     *)
(* join, leave and change teams, clients are kicked, and Quake adds bots   *)
(* of its own if bot_minplayers is set, which the handler, unlike a        *)
(* rebuild, does not clear: a slot number may come to mean another client. *)
(*                                                                         *)
(* The handler holds the botOps token throughout, so BotDirector's other   *)
(* operations do not run, and one rebalance runs at a time.  RCON datagrams *)
(* are lost or delayed as in BotDirector.                                  *)
(***************************************************************************)
EXTENDS BotBalance, Sequences, FiniteSets

CONSTANTS
    Slots,      \* the engine's client slots
    BotNames,   \* the names of bots
    FillBots,   \* bots Quake's auto-fill may add
    Free, Human,\* a slot nobody uses; who a person is
    MaxLate     \* bound: datagrams in the engine's receive buffer

ASSUME RebalanceAssumption ==
    /\ IsFiniteSet(Slots)
    /\ FillBots \subseteq BotNames
    /\ Human \notin BotNames
    /\ Free \notin BotNames \cup {Human}
    /\ MaxLate \in Nat

Teams == {"red", "blue"}
Sides == Teams \cup {"spectator"}
Whos  == BotNames \cup {Human}

\* A client as the game knows it.
Clients == [who : Whos, team : Sides]

Attempts == 3

VARIABLES
    roster,     \* the engine: who is in each client slot
    autofill,   \* the engine: bot_minplayers is not 0
    late,       \* the engine: datagrams received and not executed yet
    pc,         \* where the handler is
    phase,      \* what it waits for: to plan, for forced or replaced bots
    snap,       \* the status table live() has read
    moves,      \* what botRebalanceMoves returned
    todo,       \* the moves its loop has not come to
    cur,        \* replaceBotOnTeam's locals
    try,        \* addAndConfirmBot's attempt
    joined      \* slots a client came into since the moves were planned

engine == <<roster, autofill, late>>
locals == <<phase, snap, moves, todo, cur, try>>
vars == <<roster, autofill, late, pc, phase, snap, moves, todo, cur, try, joined>>

ForceTeam(s, team) == [cmd |-> "forceteam", slot |-> s, team |-> team]
ClientKick(s)      == [cmd |-> "clientkick", slot |-> s]
AddBot(who, team)  == [cmd |-> "addbot", who |-> who, team |-> team]
Commands == [cmd : {"forceteam"}, slot : Slots, team : Teams]
       \cup [cmd : {"clientkick"}, slot : Slots]
       \cup [cmd : {"addbot"}, who : BotNames, team : Teams]

\* A botTeamMove, and what replaceBotOnTeam knows: the slot and the name of
\* the bot, its new team, the other bots' names and their number.
Moves == [slot : Slots, who : BotNames, team : Teams]
Replacements ==
    [slot : Slots, who : BotNames, team : Teams, rest : SUBSET BotNames, n : Nat]
NoReplacement == [n |-> 0]
NoSnap == [s \in Slots |-> Free]

Steps == {"idle", "status", "teams", "force", "select", "remove", "removed",
          "add", "added"}

\* The type invariant.
TypeOK ==
    /\ roster \in [Slots -> {Free} \cup Clients]
    /\ autofill \in BOOLEAN
    /\ late \in Seq(Commands)
    /\ pc \in Steps
    /\ phase \in {"plan", "forced", "replaced"}
    /\ snap \in [Slots -> {Free} \cup Whos]
    /\ moves \in SUBSET Moves
    /\ todo \in SUBSET moves
    /\ cur \in Replacements \cup {NoReplacement}
    /\ try \in 0 .. Attempts
    /\ joined \in SUBSET Slots

-----------------------------------------------------------------------------
(* The engine.                                                             *)

Taken    == {s \in Slots : roster[s] # Free}
BotSlots == {s \in Taken : roster[s].who # Human}
BotsPresent == {roster[s].who : s \in BotSlots}

\* forceteam moves a person; a bot it moves or, in some builds, leaves alone.
\* addbot without a free slot does nothing.
Execute(c) ==
    /\ UNCHANGED autofill
    /\ \/ /\ c.cmd = "forceteam"
          /\ IF c.slot \in Taken
             THEN \/ roster' = [roster EXCEPT ![c.slot].team = c.team]
                  \/ c.slot \in BotSlots /\ UNCHANGED roster
             ELSE UNCHANGED roster
       \/ /\ c.cmd = "clientkick"
          /\ roster' = [roster EXCEPT ![c.slot] = Free]
       \/ /\ c.cmd = "addbot"
          /\ IF Taken = Slots
             THEN UNCHANGED roster
             ELSE \E s \in Slots \ Taken :
                     roster' = [roster EXCEPT ![s] = [who |-> c.who, team |-> c.team]]

\* rcon: answered; or a timeout, with the command executed, lost or delayed.
Answered(c) == late = <<>> /\ Execute(c) /\ UNCHANGED late
TimedOut(c) ==
    \/ Answered(c)
    \/ UNCHANGED engine
    \/ /\ Len(late) < MaxLate
       /\ late' = Append(late, c)
       /\ UNCHANGED <<roster, autofill>>

StatusAnswered == late = <<>>

\* waitForBotRoster's test of a status table.
\* Mutant: only the number of bots is compared.
ObservedCount(want, names) ==
    StatusAnswered /\ Cardinality(BotSlots) = want
Observed(want, names) ==
    /\ StatusAnswered
    /\ Cardinality(BotSlots) = want
    /\ want = 0 \/ names \subseteq BotsPresent

-----------------------------------------------------------------------------
(* The handler.                                                            *)

\* The players of a status table on a team, according to the teams in the
\* game log.
On(side, teams) == {s \in Slots : snap[s] # Free /\ teams[s] = side}
Humans(slots) == {s \in slots : snap[s] = Human}

\* botRebalanceMoves counts them.
Tally(teams) ==
    [redHumans  |-> Cardinality(Humans(On("red", teams))),
     blueHumans |-> Cardinality(Humans(On("blue", teams))),
     redBots    |-> Cardinality(On("red", teams) \ Humans(Slots)),
     blueBots   |-> Cardinality(On("blue", teams) \ Humans(Slots))]

\* Mutant: any players of the fuller team are taken.
MovableAnyone(teams) == On(From(Tally(teams)), teams)
\* The clients botRebalanceMoves may choose from: the bots of the fuller team.
Movable(teams) == On(From(Tally(teams)), teams) \ Humans(Slots)

\* populateTeamsFromGameLog: the team each client was last logged with.  Of a
\* slot left since the status was read, any.
Logged ==
    {t \in [Slots -> Sides] : \A s \in Taken : t[s] = roster[s].team}

\* The handler answers and gives the token back.
Leave ==
    /\ pc' = "idle"
    /\ phase' = "plan"
    /\ snap' = NoSnap
    /\ moves' = {}
    /\ todo' = {}
    /\ cur' = NoReplacement
    /\ try' = 0

Goto(step) == pc' = step

\* The token is taken.
Begin ==
    /\ pc = "idle"
    /\ Goto("status")
    /\ UNCHANGED <<engine, locals, joined>>

\* live, first part: the status table.
ReadStatus ==
    /\ pc = "status"
    /\ StatusAnswered
    /\ snap' = [s \in Slots |-> IF s \in Taken THEN roster[s].who ELSE Free]
    /\ joined' = IF phase = "plan" THEN {} ELSE joined
    /\ Goto("teams")
    /\ UNCHANGED <<engine, phase, moves, todo, cur, try>>

\* live, second part, and botRebalanceMoves, before any bot is moved.  An
\* error, a mode without teams and a client without a team end the request.
PlanMoves ==
    /\ pc = "teams"
    /\ phase = "plan"
    /\ \/ \E t \in Logged :
          LET c == Tally(t) IN
          /\ \E s \in Slots : snap[s] # Free
          /\ ~TooUneven(c)
          /\ ~Balanced(c)
          /\ ~TooFewBots(c)
          /\ \E chosen \in SUBSET Movable(t) :
                /\ Cardinality(chosen) = Needed(c)
                /\ moves' = {[slot |-> s, who |-> snap[s],
                              team |-> IF From(c) = "red" THEN "blue" ELSE "red"] :
                                s \in chosen}
          /\ todo' = moves'
          /\ Goto("force")
          /\ snap' = NoSnap
          /\ UNCHANGED <<phase, cur, try>>
       \/ Leave
    /\ UNCHANGED <<engine, joined>>

\* forceteam for the next move; any error stops the loop.
SendForceTeam ==
    /\ pc = "force"
    /\ \E m \in todo :
          \/ /\ Answered(ForceTeam(m.slot, m.team))
             /\ todo' = todo \ {m}
             /\ IF todo' = {}
                THEN Goto("status") /\ phase' = "forced"
                ELSE Goto("force") /\ UNCHANGED phase
             /\ UNCHANGED <<snap, moves, cur, try>>
          \/ TimedOut(ForceTeam(m.slot, m.team)) /\ Leave
    /\ UNCHANGED joined

\* waitForBalancedBotTeams: the table with the teams shows them balanced.
\* Mutant: it also stops when the teams are too uneven to do more.
SeenBalancedOrHopeless(t) == Balanced(Tally(t)) \/ TooUneven(Tally(t))
SeenBalanced(t) == Balanced(Tally(t)) /\ ~TooUneven(Tally(t))

ConfirmBalanced ==
    /\ pc = "teams"
    /\ phase # "plan"
    /\ \E t \in Logged : SeenBalanced(t)
    /\ \E s \in Slots : snap[s] # Free
    /\ Leave
    /\ UNCHANGED <<engine, joined>>

\* It does not, or the table cannot be completed: look again.
LookAgain ==
    /\ pc = "teams"
    /\ phase # "plan"
    /\ Goto("status")
    /\ snap' = NoSnap
    /\ UNCHANGED <<engine, phase, moves, todo, cur, try, joined>>

\* No answer to the first status; or the deadline of a wait is past.
GiveUpLooking ==
    /\ pc = "status"
    /\ IF phase = "forced"
       THEN /\ Goto("select")
            /\ todo' = moves
            /\ UNCHANGED <<phase, snap, moves, cur, try>>
       ELSE Leave
    /\ UNCHANGED <<engine, joined>>

\* replaceBotOnTeam: the bot of that name is looked up in a new table.
SelectBot ==
    /\ pc = "select"
    /\ \/ /\ StatusAnswered
          /\ \E m \in todo, s \in BotSlots :
                /\ roster[s].who = m.who
                /\ LET rest == {x \in BotSlots : roster[x].who # m.who} IN
                   cur' = [slot |-> s, who |-> m.who, team |-> m.team,
                           rest |-> {roster[x].who : x \in rest},
                           n |-> Cardinality(rest)]
                /\ todo' = todo \ {m}
          /\ joined' = {}
          /\ Goto("remove")
          /\ UNCHANGED <<phase, snap, moves, try>>
       \/ Leave /\ UNCHANGED joined
    /\ UNCHANGED engine

\* replaceBotOnTeam: clientkick, by the slot found; a timeout is an error.
RemoveBot ==
    /\ pc = "remove"
    /\ \/ Answered(ClientKick(cur.slot)) /\ Goto("removed") /\ UNCHANGED locals
       \/ TimedOut(ClientKick(cur.slot)) /\ Leave
    /\ UNCHANGED joined

\* replaceBotOnTeam: it is gone, and the others are there.
ConfirmRemoved ==
    /\ pc = "removed"
    /\ \/ Observed(cur.n, cur.rest) /\ Goto("add") /\ UNCHANGED locals
       \/ Leave
    /\ UNCHANGED <<engine, joined>>

\* addAndConfirmBot: addbot, whose timeout is forgiven.
SendAddBot ==
    /\ pc = "add"
    /\ \/ /\ TimedOut(AddBot(cur.who, cur.team))
          /\ try' = try + 1
          /\ Goto("added")
          /\ UNCHANGED <<phase, snap, moves, todo, cur>>
       \/ UNCHANGED engine /\ Leave
    /\ joined' = joined \cup {s \in Slots \ Taken : roster'[s] # Free}

\* Mutant: the attempts are counted one too far.
MayRetryOnceMore == try <= Attempts
MayRetry == try < Attempts

\* addAndConfirmBot: the bot is seen, or the command is sent again.
ConfirmAdded ==
    /\ pc = "added"
    /\ \/ /\ Observed(cur.n + 1, cur.rest \cup {cur.who})
          /\ cur' = NoReplacement
          /\ try' = 0
          /\ IF todo = {}
             THEN Goto("status") /\ phase' = "replaced"
             ELSE Goto("select") /\ UNCHANGED phase
          /\ UNCHANGED <<snap, moves, todo>>
       \/ MayRetry /\ Goto("add") /\ UNCHANGED locals
       \/ ~MayRetry /\ Leave
    /\ UNCHANGED <<engine, joined>>

Step ==
    \/ Begin \/ ReadStatus \/ PlanMoves \/ SendForceTeam \/ ConfirmBalanced
    \/ LookAgain \/ GiveUpLooking \/ SelectBot \/ RemoveBot \/ ConfirmRemoved
    \/ SendAddBot \/ ConfirmAdded

-----------------------------------------------------------------------------
(* The rest of the world.                                                  *)

ExecuteLate ==
    /\ late # <<>>
    /\ Execute(Head(late))
    /\ late' = Tail(late)
    /\ joined' = joined \cup {s \in Slots \ Taken : roster'[s] # Free}
    /\ UNCHANGED <<pc, locals>>

\* A person connects.
HumanJoins ==
    /\ \E s \in Slots \ Taken, side \in Sides :
          /\ roster' = [roster EXCEPT ![s] = [who |-> Human, team |-> side]]
          /\ joined' = joined \cup {s}
    /\ UNCHANGED <<autofill, late, pc, locals>>

\* A person changes teams.
HumanSwitches ==
    /\ \E s \in Taken \ BotSlots, side \in Sides :
          roster' = [roster EXCEPT ![s].team = side]
    /\ UNCHANGED <<autofill, late, pc, locals, joined>>

\* A person leaves, or kick removes any client.
Disconnects ==
    /\ \E s \in Taken : roster' = [roster EXCEPT ![s] = Free]
    /\ UNCHANGED <<autofill, late, pc, locals, joined>>

\* Quake adds a bot of its own choice, to either team.  (Those it takes away
\* disconnect.)
AutoFill ==
    /\ autofill
    /\ \E s \in Slots \ Taken, b \in FillBots, side \in Teams :
          /\ roster' = [roster EXCEPT ![s] = [who |-> b, team |-> side]]
          /\ joined' = joined \cup {s}
    /\ UNCHANGED <<autofill, late, pc, locals>>

\* The game server starts anew, with what its configuration says.
ServerRestarts ==
    /\ roster' = [s \in Slots |-> Free]
    /\ autofill' \in BOOLEAN
    /\ late' = <<>>
    /\ UNCHANGED <<pc, locals, joined>>

\* q3ctl dies and is started again; what it sent may still arrive.
Restart == Leave /\ UNCHANGED <<engine, joined>>

\* Any people and bots may be playing when q3ctl is asked to balance them.
Init ==
    /\ roster \in [Slots -> {Free} \cup {c \in Clients :
                       c.who = Human \/ c.team \in Teams}]
    /\ autofill \in BOOLEAN
    /\ late = <<>>
    /\ pc = "idle"
    /\ phase = "plan"
    /\ snap = NoSnap
    /\ moves = {}
    /\ todo = {}
    /\ cur = NoReplacement
    /\ try = 0
    /\ joined = {}

World ==
    \/ ExecuteLate \/ HumanJoins \/ HumanSwitches \/ Disconnects \/ AutoFill
    \/ ServerRestarts \/ Restart

Next == Step \/ World

Spec == Init /\ [][Next]_vars

-----------------------------------------------------------------------------
(* Properties.                                                             *)

\* A person who was there when the moves were planned, or the bot to replace
\* was looked up, is not moved or removed, by any command, however late.
OnlyNewcomersTouched ==
    [][SendForceTeam \/ RemoveBot \/ ExecuteLate =>
          \A s \in Taken \ (BotSlots \cup joined) : roster'[s] = roster[s]]_vars

\* "confirmed" is said of balanced teams: if no one came or went between the
\* two reads of live(), the teams are within one as they are then.
Present(side, people) ==
    Cardinality({s \in Taken : /\ roster[s].team = side
                               /\ (roster[s].who = Human) = people})
ConfirmedIsBalanced ==
    [][/\ ConfirmBalanced
       /\ \A s \in Slots :
             snap[s] = IF s \in Taken THEN roster[s].who ELSE Free
       => Abs((Present("red", TRUE) + Present("red", FALSE))
               - (Present("blue", TRUE) + Present("blue", FALSE))) <= 1]_vars

\* A bot that was replaced, told apart by its name alone, is there once, on
\* the team it was to go to; unless auto-fill is on, which may bring the bot
\* back to its old team while the addbot is lost, or names are not distinct.
ReplacedOnItsTeam ==
    [][/\ pc = "added" /\ pc' \in {"select", "status"}
       /\ Cardinality(cur.rest) = cur.n
       /\ ~autofill
       => \E s \in BotSlots :
             /\ roster[s] = [who |-> cur.who, team |-> cur.team]
             /\ \A x \in BotSlots \ {s} : roster[x].who # cur.who]_vars
=============================================================================
