----------------------------- MODULE BotDirector -----------------------------
(***************************************************************************)
(* The bot director of q3ctl (internal/app/server.go): PUT /policy, POST   *)
(* /reconcile and POST /bots/add running concurrently over the one-token   *)
(* channel botOps, each driving the Quake server with RCON datagrams, next *)
(* to the kick handler (which takes no token), the players who come and    *)
(* go, Quake's own auto-fill, and crashes of q3ctl.                        *)
(*                                                                         *)
(* Every RCON command is one UDP datagram.  It may be lost, it may be      *)
(* executed while its reply is lost, or it may sit in the server's receive *)
(* buffer while the engine is busy and be executed after q3ctl gave up     *)
(* waiting.  Datagrams are executed in the order sent, so a reply to a     *)
(* later command shows that nothing is left in the buffer.                 *)
(***************************************************************************)
EXTENDS BotPolicy, FiniteSets

CONSTANTS
    Requests,       \* HTTP handlers that may run at the same time
    Slots,          \* the engine's client slots
    FillBots,       \* the bots Quake's auto-fill may choose
    Policies,       \* the policies a PUT body may hold, valid or not
    DefaultPolicy,  \* the policy of defaults()
    Free, Human,    \* a slot nobody uses, a slot a person plays in
    MaxLate         \* bound: datagrams in the engine's receive buffer

ASSUME PolicyAssumption ==
    /\ Policies \subseteq PolicyRecords
    /\ DefaultPolicy \in Policies
    /\ ValidPolicy(DefaultPolicy)
ASSUME SlotAssumption ==
    /\ Free \notin Bots
    /\ Human \notin Bots
    /\ Free # Human
    /\ IsFiniteSet(Slots)
    /\ FillBots \subseteq Bots
ASSUME BoundAssumption == MaxLate \in Nat

\* addAndConfirmBot sends addbot at most this many times.
Attempts == 3

-----------------------------------------------------------------------------
VARIABLES
    policy,     \* server.state.Policy
    disk,       \* the policy in the state file
    botOps,     \* the token of the botOps channel is taken
    pc,         \* per request: the step its handler is at
    job,        \* per request: the handler's local variables
    roster,     \* the engine: who is in each client slot
    autofill,   \* the engine: bot_minplayers is not 0
    late        \* the engine: datagrams received and not executed yet

engine == <<roster, autofill, late>>
vars == <<policy, disk, botOps, pc, job, roster, autofill, late>>

ValidPolicies == {p \in Policies : ValidPolicy(p)}

\* The commands the director sends.
StopAutoFill == [cmd |-> "set bot_minplayers 0"]
KickBots     == [cmd |-> "kickbots"]
AddBot(b)    == [cmd |-> "addbot", bot |-> b]
Commands == {StopAutoFill, KickBots} \cup {AddBot(b) : b \in Bots}

\* The handlers' locals.  had and seen are the number and the names of the
\* bots an ad-hoc addition found connected; plan is what is still to be added
\* on top of them, got how much of it has been confirmed, and try how often
\* addbot was sent for the next entry.
Ops == {"none", "put", "reconcile", "add"}
NoJob == [op |-> "none", pol |-> DefaultPolicy, plan |-> <<>>,
          had |-> 0, seen |-> {}, got |-> 0, try |-> 0]
JobRecords ==
    [op : Ops, pol : ValidPolicies, plan : Seq(Bots),
     had : Nat, seen : SUBSET BotNames, got : Nat, try : 0 .. Attempts]

\* Steps of a handler that does not hold the token, and of one that does.
Holding == {"mode", "minplayers", "kickbots", "emptied", "read", "addbot",
            "confirm", "final", "reread", "save", "sweep", "swept"}
Steps   == {"idle", "begin"} \cup Holding

\* The type invariant.
TypeOK ==
    /\ policy \in ValidPolicies
    /\ disk \in ValidPolicies
    /\ botOps \in BOOLEAN
    /\ pc \in [Requests -> Steps]
    /\ job \in [Requests -> JobRecords]
    /\ roster \in [Slots -> {Free, Human} \cup Bots]
    /\ autofill \in BOOLEAN
    /\ late \in Seq(Commands)

-----------------------------------------------------------------------------
(* The engine, as its bot code and q3ctl's use of it show it.              *)

BotSlots == {s \in Slots : roster[s] \in Bots}
NamesPresent == {roster[s].name : s \in BotSlots}

\* What executing a command does.  addbot without a free slot does nothing.
Execute(c) ==
    \/ /\ c = StopAutoFill
       /\ autofill' = FALSE
       /\ UNCHANGED roster
    \/ /\ c = KickBots
       /\ roster' = [s \in Slots |-> IF s \in BotSlots THEN Free ELSE roster[s]]
       /\ UNCHANGED autofill
    \/ \E b \in Bots :
       /\ c = AddBot(b)
       /\ \/ \E s \in Slots : /\ roster[s] = Free
                              /\ roster' = [roster EXCEPT ![s] = b]
          \/ /\ \A s \in Slots : roster[s] # Free
             /\ UNCHANGED roster
       /\ UNCHANGED autofill

\* rcon: the command was executed before the deadline (answered, or with the
\* reply lost); or it was lost; or it is still in the receive buffer.
Executed(c) == late = <<>> /\ Execute(c) /\ UNCHANGED late
Lost        == UNCHANGED engine
Delayed(c)  == /\ Len(late) < MaxLate
               /\ late' = Append(late, c)
               /\ UNCHANGED <<roster, autofill>>
Sent(c)     == Executed(c) \/ Lost \/ Delayed(c)

\* A command a past request gave up on is executed after all.
ExecuteLate ==
    /\ late # <<>>
    /\ Execute(Head(late))
    /\ late' = Tail(late)
    /\ UNCHANGED <<policy, disk, botOps, pc, job>>

\* roster: an answered status command.  It waited behind everything buffered.
StatusAnswered == late = <<>>

\* Mutants of Observed: a wait for no bots looks at nothing; a surplus is good
\* enough; the names are not compared.
ObservedAnyEmpty(want, names) ==
    /\ StatusAnswered
    /\ want = 0 \/ (Cardinality(BotSlots) = want /\ names \subseteq NamesPresent)
ObservedAtLeast(want, names) ==
    /\ StatusAnswered
    /\ Cardinality(BotSlots) >= want
    /\ want = 0 \/ names \subseteq NamesPresent
ObservedCount(want, names) == StatusAnswered /\ Cardinality(BotSlots) = want

\* The test waitForBotRoster makes of each answered status: the number of
\* bots, and that every expected name is among them.
Observed(want, names) ==
    /\ StatusAnswered
    /\ Cardinality(BotSlots) = want
    /\ want = 0 \/ names \subseteq NamesPresent

-----------------------------------------------------------------------------
(* How a handler moves on.                                                 *)

Goto(r, step) == pc' = [pc EXCEPT ![r] = step]

\* The handler answers and its locals are gone.  What it answers shows in the
\* step it was at and in what that step did.
Leave(r) ==
    /\ Goto(r, "idle")
    /\ job' = [job EXCEPT ![r] = NoJob]

\* The same, and the deferred endBotOperation gives the token back.
Finish(r) == Leave(r) /\ botOps' = FALSE

\* An error once the old bots are gone: rebuildBots runs its deferred cleanup
\* first, addBot has none.
Fail(r) ==
    IF job[r].op = "add"
    THEN Finish(r)
    ELSE Goto(r, "sweep") /\ UNCHANGED <<job, botOps>>

\* The names on the roster when the first n entries of the plan are there.
Expected(r, n) ==
    job[r].seen \cup {job[r].plan[i].name : i \in 1 .. n}

-----------------------------------------------------------------------------
(* Requests.  One that is answered with an error before it takes the token *)
(* has no effect: its conditions are guards.                               *)

\* Mutant: the select without its default branch's condition.
TakeTokenAnyway == botOps' = TRUE
TakeToken == botOps = FALSE /\ botOps' = TRUE

\* policy (PUT): the body is decoded and validated, then the token is taken.
PutPolicy(r) ==
    /\ pc[r] = "idle"
    /\ \E p \in Policies :
          /\ ValidPolicy(p)
          /\ job' = [job EXCEPT ![r] = [NoJob EXCEPT !.op = "put",
                                                     !.pol = p,
                                                     !.plan = Plan(p)]]
    /\ TakeToken
    /\ Goto(r, "mode")
    /\ UNCHANGED <<policy, disk, engine>>

\* reconcile (POST): the saved policy is copied under the read lock, which is
\* given back before the token is asked for.
Reconcile(r) ==
    /\ pc[r] = "idle"
    /\ policy.enabled
    /\ job' = [job EXCEPT ![r] = [NoJob EXCEPT !.op = "reconcile",
                                               !.pol = policy,
                                               !.plan = Plan(policy)]]
    /\ Goto(r, "begin")
    /\ UNCHANGED <<policy, disk, botOps, engine>>

\* addBot (POST): one bot the saved policy lists, on the team asked for.  The
\* policy is read as in reconcile, and used only for this test.
AddOneBot(r) ==
    /\ pc[r] = "idle"
    /\ \E b \in Bots :
          /\ Configured(policy, b.name)
          /\ job' = [job EXCEPT ![r] = [NoJob EXCEPT !.op = "add",
                                                     !.plan = <<b>>]]
    /\ Goto(r, "begin")
    /\ UNCHANGED <<policy, disk, botOps, engine>>

\* beginBotOperation: take the token or answer 409 at once.
Begin(r) ==
    /\ pc[r] = "begin"
    /\ \/ TakeToken /\ Goto(r, "mode") /\ UNCHANGED job
       \/ botOps /\ Leave(r) /\ UNCHANGED botOps
    /\ UNCHANGED <<policy, disk, engine>>

\* botGameType and the test for a team mode.  It starts with a roster read.
DetermineMode(r) ==
    /\ pc[r] = "mode"
    /\ \/ /\ StatusAnswered
          /\ Goto(r, IF job[r].op = "add" THEN "read" ELSE "minplayers")
          /\ UNCHANGED <<job, botOps>>
       \/ Finish(r)
    /\ UNCHANGED <<policy, disk, engine>>

\* rebuildBots: set bot_minplayers 0; only a timeout is forgiven.
DisableAutoFill(r) ==
    /\ pc[r] = "minplayers"
    /\ \/ /\ Sent(StopAutoFill)
          /\ Goto(r, "kickbots")
          /\ UNCHANGED <<job, botOps>>
       \/ Lost /\ Finish(r)
    /\ UNCHANGED <<policy, disk>>

\* rebuildBots: kickbots; only a timeout is forgiven.
RemoveBots(r) ==
    /\ pc[r] = "kickbots"
    /\ \/ /\ Sent(KickBots)
          /\ Goto(r, "emptied")
          /\ UNCHANGED <<job, botOps>>
       \/ Lost /\ Finish(r)
    /\ UNCHANGED <<policy, disk>>

\* rebuildBots: no bot is added before a status shows none.
ConfirmEmpty(r) ==
    /\ pc[r] = "emptied"
    /\ \/ /\ Observed(0, {})
          /\ Goto(r, IF job[r].plan = <<>> THEN "final" ELSE "addbot")
          /\ UNCHANGED <<job, botOps>>
       \/ Finish(r)
    /\ UNCHANGED <<policy, disk, engine>>

\* Mutant: addBot without the test for a bot of that name.
NotConnectedUnchecked(r) == TRUE
\* addBot: no bot of that name is connected.
NotConnected(r) == job[r].plan[1].name \notin NamesPresent

\* addBot: the roster it adds to.
ReadRoster(r) ==
    /\ pc[r] = "read"
    /\ \/ /\ StatusAnswered
          /\ NotConnected(r)
          /\ job' = [job EXCEPT ![r].had = Cardinality(BotSlots),
                                ![r].seen = NamesPresent]
          /\ Goto(r, "addbot")
          /\ UNCHANGED botOps
       \/ Finish(r)
    /\ UNCHANGED <<policy, disk, engine>>

\* addAndConfirmBot: one addbot.  A reply that reports an error, or an error
\* other than a timeout, ends the operation; a timeout does not.
SendAddBot(r) ==
    LET b == job[r].plan[job[r].got + 1]
        NextTry == /\ job' = [job EXCEPT ![r].try = @ + 1]
                   /\ Goto(r, "confirm")
                   /\ UNCHANGED botOps
    IN  /\ pc[r] = "addbot"
        /\ \/ Sent(AddBot(b)) /\ NextTry
           \/ Lost /\ Fail(r)
        /\ UNCHANGED <<policy, disk>>

\* Mutant: the attempts are counted one too far.
MayRetryOnceMore(r) == job[r].try <= Attempts
\* addAndConfirmBot: the loop has another attempt.
MayRetry(r) == job[r].try < Attempts

\* addAndConfirmBot: wait for the roster with the new bot, or try again.
ConfirmAdded(r) ==
    LET n == job[r].got + 1
    IN  /\ pc[r] = "confirm"
        /\ \/ /\ Observed(job[r].had + n, Expected(r, n))
              /\ job' = [job EXCEPT ![r].got = n, ![r].try = 0]
              /\ Goto(r, IF n < Len(job[r].plan) THEN "addbot"
                         ELSE IF job[r].op = "add" THEN "reread"
                         ELSE "final")
              /\ UNCHANGED botOps
           \/ MayRetry(r) /\ Goto(r, "addbot") /\ UNCHANGED <<job, botOps>>
           \/ ~MayRetry(r) /\ Fail(r)
        /\ UNCHANGED <<policy, disk, engine>>

\* rebuildBots: the whole roster once more, then the operation is complete.
ConfirmFinal(r) ==
    /\ pc[r] = "final"
    /\ \/ /\ Observed(Len(job[r].plan), Expected(r, Len(job[r].plan)))
          /\ IF job[r].op = "put"
             THEN Goto(r, "save") /\ UNCHANGED <<job, botOps>>
             ELSE Finish(r)
       \/ Fail(r)
    /\ UNCHANGED <<policy, disk, engine>>

\* addBot: the roster it reports.
RereadRoster(r) ==
    /\ pc[r] = "reread"
    /\ \/ StatusAnswered /\ Finish(r)
       \/ Finish(r)
    /\ UNCHANGED <<policy, disk, engine>>

\* policy (PUT): memory first, then the file; a file error is answered 500
\* and leaves memory as it is.
SavePolicy(r) ==
    /\ pc[r] = "save"
    /\ policy' = job[r].pol
    /\ \/ disk' = job[r].pol /\ Finish(r)
       \/ UNCHANGED disk /\ Finish(r)
    /\ UNCHANGED engine

\* rebuildBots, deferred: kickbots, whatever becomes of it.
Sweep(r) ==
    /\ pc[r] = "sweep"
    /\ Sent(KickBots)
    /\ Goto(r, "swept")
    /\ UNCHANGED <<policy, disk, botOps, job>>

\* Mutant: the token stays out after a failed rebuild.
SweepKeepsToken(r) ==
    /\ pc[r] = "swept"
    /\ Leave(r)
    /\ UNCHANGED <<policy, disk, botOps, engine>>
\* rebuildBots, deferred: a wait whose outcome nobody looks at.
SweepWait(r) ==
    /\ pc[r] = "swept"
    /\ Finish(r)
    /\ UNCHANGED <<policy, disk, engine>>

Step(r) ==
    \/ Begin(r) \/ DetermineMode(r) \/ DisableAutoFill(r) \/ RemoveBots(r)
    \/ ConfirmEmpty(r) \/ ReadRoster(r) \/ SendAddBot(r) \/ ConfirmAdded(r)
    \/ ConfirmFinal(r) \/ RereadRoster(r) \/ SavePolicy(r) \/ Sweep(r)
    \/ SweepWait(r)

-----------------------------------------------------------------------------
(* The rest of the world.                                                  *)

\* kick: clientkick on any slot, without the token.  A lost or late kick is
\* no kick or a later one.
Kick ==
    /\ \E s \in Slots : /\ roster[s] # Free
                        /\ roster' = [roster EXCEPT ![s] = Free]
    /\ UNCHANGED <<policy, disk, botOps, pc, job, autofill, late>>

HumanJoins ==
    /\ \E s \in Slots : /\ roster[s] = Free
                        /\ roster' = [roster EXCEPT ![s] = Human]
    /\ UNCHANGED <<policy, disk, botOps, pc, job, autofill, late>>

HumanLeaves ==
    /\ \E s \in Slots : /\ roster[s] = Human
                        /\ roster' = [roster EXCEPT ![s] = Free]
    /\ UNCHANGED <<policy, disk, botOps, pc, job, autofill, late>>

\* Quake adds a bot of its own choice while bot_minplayers is set.
AutoFill ==
    /\ autofill
    /\ \E s \in Slots, b \in FillBots : /\ roster[s] = Free
                                        /\ roster' = [roster EXCEPT ![s] = b]
    /\ UNCHANGED <<policy, disk, botOps, pc, job, autofill, late>>

\* q3ctl dies and is started again: every handler is gone, nothing deferred
\* runs, and the policy is what loadState finds.  The Quake server lives on.
Restart ==
    /\ policy' = disk
    /\ botOps' = FALSE
    /\ pc' = [r \in Requests |-> "idle"]
    /\ job' = [r \in Requests |-> NoJob]
    /\ UNCHANGED <<disk, engine>>

Init ==
    /\ policy = DefaultPolicy
    /\ disk = DefaultPolicy
    /\ botOps = FALSE
    /\ pc = [r \in Requests |-> "idle"]
    /\ job = [r \in Requests |-> NoJob]
    /\ roster = [s \in Slots |-> Free]
    /\ autofill \in BOOLEAN
    /\ late = <<>>

Next ==
    \/ \E r \in Requests :
          PutPolicy(r) \/ Reconcile(r) \/ AddOneBot(r) \/ Step(r)
    \/ ExecuteLate \/ Kick \/ HumanJoins \/ HumanLeaves \/ AutoFill \/ Restart

Spec == Init /\ [][Next]_vars

\* A handler is a goroutine whose every wait has a deadline: it keeps moving.
FairSpec == Spec /\ \A r \in Requests : WF_vars(Step(r))

-----------------------------------------------------------------------------
(* Properties.                                                             *)

\* botOps is a lock: the token is out exactly when one handler is past
\* beginBotOperation, and never two are.
OneBotOperation ==
    /\ botOps <=> \E r \in Requests : pc[r] \in Holding
    /\ \A r, q \in Requests :
          pc[r] \in Holding /\ pc[q] \in Holding => r = q

Rebuilding(r) == job[r].op \in {"put", "reconcile"}
AfterClean    == {"addbot", "confirm", "final", "save"}

\* The entries of the plan for which addbot was sent so far.
Issued(r) ==
    {job[r].plan[i] : i \in {k \in DOMAIN job[r].plan :
        k <= job[r].got \/ (k = job[r].got + 1 /\ job[r].try > 0)}}

\* Every command in the buffer is an addbot this request sent.
OwnCommands(r) ==
    pc[r] \in AfterClean =>
        \A i \in DOMAIN late : \E b \in Issued(r) : late[i] = AddBot(b)

\* Every bot on the server is one this rebuild sent an addbot for.
OwnBots(r) ==
    Rebuilding(r) /\ pc[r] \in AfterClean /\ ~autofill =>
        \A s \in BotSlots : roster[s] \in Issued(r)

\* Once a rebuild has seen the server empty, the only bots on it, and the only
\* ones a command still in the buffer can add, are those it sent for itself:
\* no command of an earlier operation, of one that was given up, or of a
\* q3ctl that crashed, reaches into it.  (Unless Quake fills up by itself: a
\* lost bot_minplayers command is forgiven.)
OnlyPlannedBots == \A r \in Requests : OwnCommands(r) /\ OwnBots(r)

\* A rebuild never has more bots on the server or under way than entries it
\* confirmed plus tries of the current one: a retry can add a second copy of
\* one bot, and of no other.
NoSurplusBots ==
    \A r \in Requests :
        Rebuilding(r) /\ pc[r] \in AfterClean /\ ~autofill =>
            Cardinality(BotSlots) + Len(late) <= job[r].got + job[r].try

\* How far a handler is agrees with its locals.
LocalsFor(r) ==
    LET j == job[r] IN
    /\ pc[r] = "idle" => j = NoJob
    /\ pc[r] # "idle" => j.op # "none"
    /\ pc[r] \in {"begin", "mode", "minplayers", "kickbots", "emptied", "read"}
          => j.got = 0 /\ j.try = 0
    /\ pc[r] \in {"read", "reread"} => j.op = "add"
    /\ pc[r] \in {"minplayers", "kickbots", "emptied", "final", "save",
                  "sweep", "swept"} => j.op # "add"
    /\ j.op = "add" => Len(j.plan) = 1
    /\ j.op # "add" => j.had = 0 /\ j.seen = {}
    /\ pc[r] \in {"addbot", "confirm"} => j.got < Len(j.plan)
    /\ pc[r] = "addbot" => j.try < Attempts
    /\ pc[r] = "confirm" => j.try > 0
    /\ pc[r] \in {"final", "save"} => j.got = Len(j.plan) /\ j.try = 0

LocalsOK == \A r \in Requests : LocalsFor(r)

\* While an ad-hoc addition is under way, a bot of its name can only be its own.
AddedIsOwn(r) ==
    job[r].op = "add" /\ pc[r] \in {"addbot", "confirm"} /\ ~autofill =>
        \A s \in BotSlots : roster[s].name = job[r].plan[1].name
                               => roster[s] = job[r].plan[1]

\* The step in which rebuildBots sets completed.
Completes(r) == ConfirmFinal(r) /\ pc'[r] # "sweep"

DistinctNames(plan) ==
    \A i, j \in DOMAIN plan : plan[i].name = plan[j].name => i = j

\* When a rebuild is declared complete the server has exactly the planned
\* bots, each once and on its team, although the status table q3ctl looked at
\* shows neither teams nor who sent which addbot, and although players can be
\* kicked and commands delayed all along.
ConfirmedIsExact ==
    [][\A r \in Requests :
          /\ Completes(r)
          /\ ~autofill
          /\ DistinctNames(job[r].plan)
          => /\ \A s \in BotSlots :
                   \E i \in DOMAIN job[r].plan : roster[s] = job[r].plan[i]
             /\ \A i \in DOMAIN job[r].plan :
                   \E s \in Slots :
                      /\ roster[s] = job[r].plan[i]
                      /\ \A t \in Slots \ {s} : roster[t] # job[r].plan[i]]_vars

\* An ad-hoc addition that is confirmed has put the bot on the team asked for,
\* and no bot of that name is anywhere else.
AddedToItsTeam ==
    [][\A r \in Requests :
          /\ pc[r] = "confirm"
          /\ pc'[r] = "reread"
          /\ ~autofill
          => LET b == job[r].plan[1]
             IN  /\ b \in {roster[s] : s \in BotSlots}
                 /\ \A s \in BotSlots :
                       roster[s].name = b.name => roster[s] = b]_vars

\* While a bot operation drives the server nobody else changes the saved
\* policy: a reconcile, which copies it before it asks for the token, may
\* rebuild an older one, but none is replaced under it once it has the token.
PolicyStays ==
    [][policy' # policy =>
          \A r \in Requests :
             pc[r] \in Holding => pc[r] = "save" \/ pc'[r] = "idle"]_vars

\* Every bot operation comes to an end and gives the token back: retries are
\* bounded, and every error path releases it.
BotSlotReleased == botOps ~> ~botOps

=============================================================================
