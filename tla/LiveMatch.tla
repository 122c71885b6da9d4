------------------------------ MODULE LiveMatch ------------------------------
(***************************************************************************)
(* The match that is played, and the handlers that change it at once       *)
(* (internal/app/server.go): POST /maps/load, which sets the mode and      *)
(* loads the map as two commands and takes no token; POST                  *)
(* /gameplay/limits, one command per limit; POST /maps/restart.  All of    *)
(* them confirm what they did by live(), which also remembers the mode for *)
(* the bot handlers.  Matches end meanwhile and follow the rotation.       *)
(*                                                                         *)
(* RCON datagrams are lost or delayed as in BotDirector: an answer shows   *)
(* that nothing is left in the engine's buffer (RconGate, Drained).  The   *)
(* engine keeps a new g_gametype back until it loads or restarts a map.    *)
(***************************************************************************)
EXTENDS Integers, Sequences

CONSTANTS
    Requests,   \* HTTP handlers that may run at the same time
    Maps,       \* the installed maps
    Modes,      \* game types
    Wanted,     \* the maps, with modes, that may be asked for
    Limits,     \* the match limits that may be asked for, tuples of numbers
    Entries,    \* what the rotation may load
    None,
    MaxLate     \* bound: datagrams in the engine's receive buffer

Cvars == 1 .. 3     \* timelimit, fraglimit, capturelimit
LimitValues == {x[i] : x \in Limits \cup {e.limits : e \in Entries}, i \in Cvars}
Settings == [Cvars -> LimitValues]
Pairs == [map : Maps, mode : Modes]
Matches == [map : Maps, mode : Modes, limits : Settings]

ASSUME MatchAssumption ==
    /\ Wanted \subseteq Pairs
    /\ Limits \subseteq Settings
    /\ Entries \subseteq Matches
    /\ None \notin Modes
    /\ MaxLate \in Nat

VARIABLES
    match,      \* the engine: what is played
    latched,    \* the engine: the g_gametype of the next load
    restarting, \* the engine: a restart is counted down
    late,       \* the engine: datagrams received and not executed yet
    botOps,     \* the token of the botOps channel is taken
    pc,         \* per request: the step its handler is at
    job,        \* per request: its locals
    remembered, \* s.lastGameType, None when it is older than two minutes
    crossed,    \* history, per request: another one sent a mode or a map
                \* since it set its mode, or the match ended
    toldMatch,  \* history: a map and mode that was confirmed, and since when
                \* nobody asked for another
    toldLimits  \* history: the same for limits

engine == <<match, latched, restarting, late>>
history == <<crossed, toldMatch, toldLimits>>
vars == <<engine, botOps, pc, job, remembered, history>>

SetMode(g)     == [cmd |-> "set g_gametype", mode |-> g]
LoadMap(m)     == [cmd |-> "map", map |-> m]
SetLimit(i, v) == [cmd |-> "set limit", cvar |-> i, value |-> v]
RestartMap     == [cmd |-> "map_restart 5"]

Commands ==
    [cmd : {"set g_gametype"}, mode : Modes] \cup [cmd : {"map"}, map : Maps]
    \cup [cmd : {"set limit"}, cvar : Cvars, value : LimitValues]
    \cup {RestartMap}

NoJob == [kind |-> "none"]
Loads == [kind : {"load"}, want : Wanted, seen : Modes \cup {None}, ok : BOOLEAN]
LimitJobs == [kind : {"limits"}, want : Limits, at : 1 .. 4,
              seen : Modes \cup {None}, ok : BOOLEAN]
Readings == [kind : {"reading"}, seen : Modes \cup {None}, ok : BOOLEAN]

Steps == {"idle", "mode", "map", "limit", "look", "remember"}

\* The type invariant; the token is taken for as long as limits are set.
TypeOK ==
    /\ match \in Matches
    /\ latched \in Modes
    /\ restarting \in BOOLEAN
    /\ late \in Seq(Commands)
    /\ botOps \in BOOLEAN
    /\ pc \in [Requests -> Steps]
    /\ job \in [Requests -> Loads \cup LimitJobs \cup Readings \cup {NoJob}]
    /\ remembered \in Modes \cup {None}
    /\ crossed \in [Requests -> BOOLEAN]
    /\ toldMatch \in Wanted \cup {None}
    /\ toldLimits \in Limits \cup {None}
    /\ botOps <=> \E r \in Requests : job[r].kind = "limits"

-----------------------------------------------------------------------------
(* The engine.                                                             *)

Execute(c) ==
    \/ /\ c.cmd = "set g_gametype"
       /\ latched' = c.mode
       /\ UNCHANGED <<match, restarting>>
    \/ /\ c.cmd = "map"
       /\ match' = [match EXCEPT !.map = c.map, !.mode = latched]
       /\ restarting' = FALSE
       /\ UNCHANGED latched
    \/ /\ c.cmd = "set limit"
       /\ match' = [match EXCEPT !.limits[c.cvar] = c.value]
       /\ UNCHANGED <<latched, restarting>>
    \/ /\ c = RestartMap
       /\ restarting' = TRUE
       /\ UNCHANGED <<match, latched>>

\* rcon: answered; or a timeout, with the command executed, lost or delayed.
Executed(c) == late = <<>> /\ Execute(c) /\ UNCHANGED late
TimedOut(c) ==
    \/ Executed(c)
    \/ UNCHANGED engine
    \/ /\ Len(late) < MaxLate
       /\ late' = Append(late, c)
       /\ UNCHANGED <<match, latched, restarting>>

\* Mutant: a timeout is forgiven, as nextMap forgives it.
AcceptedOrTimeout(c) == TimedOut(c)
\* rcon without an error.
Accepted(c) == Executed(c)

\* A status or getstatus reply, which may fail to come.
Answered == late = <<>>

-----------------------------------------------------------------------------
(* Steps that handlers share.                                              *)

Goto(r, step) == pc' = [pc EXCEPT ![r] = step]
Leave(r) == Goto(r, "idle") /\ job' = [job EXCEPT ![r] = NoJob]

\* Who has set its mode and not yet confirmed its map.
Loading == {r \in Requests : job[r].kind = "load" /\ pc[r] \in {"map", "look"}}

\* What the sending of c does to what others were told or are about to do.
Sends(r, c) ==
    LET changes == c.cmd \in {"set g_gametype", "map"} IN
    /\ crossed' = [q \in Requests |->
                      IF q = r THEN crossed[q] /\ c.cmd # "set g_gametype"
                      ELSE crossed[q] \/ (changes /\ q \in Loading)]
    /\ toldMatch' = IF changes THEN None ELSE toldMatch
    /\ toldLimits' = IF c.cmd = "set limit" THEN None ELSE toldLimits

\* live: status and getstatus are answered.
Read(r, ok) == job' = [job EXCEPT ![r].seen = match.mode, ![r].ok = ok]

\* Mutant: only the map is compared.
MapAsWanted(r) == match.map = job[r].want.map
\* loadMap: the map and the mode are those of the request.
LoadAsWanted(r) == match.map = job[r].want.map /\ match.mode = job[r].want.mode

\* matchLimits: all three limits are those of the request.
LimitsAsWanted(r) == match.limits = job[r].want

\* rememberGameType, some time after the reply was sent.
RememberGameType(r) == remembered' = job[r].seen

-----------------------------------------------------------------------------
(* loadMap.                                                                *)

\* The request names an installed map and a valid mode.
Load(r) ==
    /\ pc[r] = "idle"
    /\ \E want \in Wanted :
          job' = [job EXCEPT ![r] = [kind |-> "load", want |-> want,
                                     seen |-> None, ok |-> FALSE]]
    /\ Goto(r, "mode")
    /\ UNCHANGED <<engine, botOps, remembered, history>>

\* set g_gametype.
SendMode(r) ==
    LET c == SetMode(job[r].want.mode) IN
    /\ pc[r] = "mode"
    /\ \/ Accepted(c) /\ Goto(r, "map") /\ UNCHANGED job
       \/ TimedOut(c) /\ Leave(r)
    /\ Sends(r, c)
    /\ UNCHANGED <<botOps, remembered>>

\* map.
SendMap(r) ==
    LET c == LoadMap(job[r].want.map) IN
    /\ pc[r] = "map"
    /\ \/ Accepted(c) /\ Goto(r, "look") /\ UNCHANGED job
       \/ TimedOut(c) /\ Leave(r)
    /\ Sends(r, c)
    /\ UNCHANGED <<botOps, remembered>>

\* One of thirty looks is answered.
LookAtMatch(r) ==
    /\ pc[r] = "look"
    /\ job[r].kind = "load"
    /\ Answered
    /\ Read(r, LoadAsWanted(r))
    /\ toldMatch' = IF LoadAsWanted(r) THEN job[r].want ELSE toldMatch
    /\ Goto(r, "remember")
    /\ UNCHANGED <<engine, botOps, remembered, crossed, toldLimits>>

\* The mode it saw is remembered; if the map is not there it looks again.
LookedAtMatch(r) ==
    /\ pc[r] = "remember"
    /\ job[r].kind = "load"
    /\ RememberGameType(r)
    /\ \/ job[r].ok /\ Leave(r)
       \/ /\ ~job[r].ok
          /\ Goto(r, "look")
          /\ job' = [job EXCEPT ![r].seen = None]
    /\ UNCHANGED <<engine, botOps, history>>

\* None of the thirty saw it.
LoadUnconfirmed(r) ==
    /\ pc[r] = "look"
    /\ job[r].kind = "load"
    /\ Leave(r)
    /\ UNCHANGED <<engine, botOps, remembered, history>>

-----------------------------------------------------------------------------
(* matchLimits.                                                            *)

MatchLimits(r) ==
    /\ pc[r] = "idle"
    /\ ~botOps
    /\ botOps' = TRUE
    /\ \E want \in Limits :
          job' = [job EXCEPT ![r] = [kind |-> "limits", want |-> want, at |-> 1,
                                     seen |-> None, ok |-> FALSE]]
    /\ Goto(r, "limit")
    /\ UNCHANGED <<engine, remembered, history>>

\* Mutant: a request that was not confirmed keeps the token.
FinishKeeping(r) == Leave(r) /\ botOps' = (pc[r] = "look")
\* It answers and gives the token back.
Finish(r) == Leave(r) /\ botOps' = FALSE

\* set timelimit, set fraglimit, set capturelimit: any error ends it.
SendLimit(r) ==
    LET c == SetLimit(job[r].at, job[r].want[job[r].at]) IN
    /\ pc[r] = "limit"
    /\ \/ /\ Accepted(c)
          /\ job' = [job EXCEPT ![r].at = @ + 1]
          /\ Goto(r, IF job[r].at = 3 THEN "look" ELSE "limit")
          /\ UNCHANGED botOps
       \/ TimedOut(c) /\ Finish(r)
    /\ Sends(r, c)
    /\ UNCHANGED remembered

LookAtLimits(r) ==
    /\ pc[r] = "look"
    /\ job[r].kind = "limits"
    /\ Answered
    /\ Read(r, LimitsAsWanted(r))
    /\ toldLimits' = IF LimitsAsWanted(r) THEN job[r].want ELSE toldLimits
    /\ Goto(r, "remember")
    /\ UNCHANGED <<engine, botOps, remembered, crossed, toldMatch>>

\* Confirmed or not, it answers.
LookedAtLimits(r) ==
    /\ pc[r] = "remember"
    /\ job[r].kind = "limits"
    /\ RememberGameType(r)
    /\ Finish(r)
    /\ UNCHANGED <<engine, history>>

LimitsUnconfirmed(r) ==
    /\ pc[r] = "look"
    /\ job[r].kind = "limits"
    /\ Finish(r)
    /\ UNCHANGED <<engine, remembered, history>>

-----------------------------------------------------------------------------
(* restartMap, and the handlers that only look.                            *)

\* restartMap: one command, and an error when it is not answered.
SendRestart(r) ==
    /\ pc[r] = "idle"
    /\ TimedOut(RestartMap)
    /\ Sends(r, RestartMap)
    /\ UNCHANGED <<botOps, pc, job, remembered>>

Reading(r) ==
    /\ Goto(r, "remember")
    /\ job' = [job EXCEPT ![r] = [kind |-> "reading", seen |-> match.mode,
                                  ok |-> TRUE]]
    /\ UNCHANGED <<engine, botOps, remembered, history>>

\* status and players: live().
Refresh(r) == pc[r] = "idle" /\ Answered /\ Reading(r)

\* botGameType: when neither the status reply has the mode nor a remembered
\* one is young enough, getstatus is asked.
DetermineMode(r) ==
    pc[r] = "idle" /\ remembered = None /\ Answered /\ Reading(r)

HasRead(r) ==
    /\ pc[r] = "remember"
    /\ job[r].kind = "reading"
    /\ RememberGameType(r)
    /\ Leave(r)
    /\ UNCHANGED <<engine, botOps, history>>

-----------------------------------------------------------------------------
(* The rest of the world.                                                  *)

ExecuteLate ==
    /\ late # <<>>
    /\ Execute(Head(late))
    /\ late' = Tail(late)
    /\ UNCHANGED <<botOps, pc, job, remembered, history>>

\* The countdown is over: the map starts again in the mode kept back.
MapRestarts ==
    /\ restarting
    /\ restarting' = FALSE
    /\ match' = [match EXCEPT !.mode = latched]
    /\ toldMatch' = IF latched = match.mode THEN toldMatch ELSE None
    /\ UNCHANGED <<latched, late, botOps, pc, job, remembered, crossed, toldLimits>>

\* A match ends, or nextMap ends it: an entry sets everything by one script.
MatchEnds ==
    /\ \E e \in Entries : match' = e /\ latched' = e.mode
    /\ restarting' = FALSE
    /\ crossed' = [r \in Requests |-> crossed[r] \/ r \in Loading]
    /\ toldMatch' = None
    /\ toldLimits' = None
    /\ UNCHANGED <<late, botOps, pc, job, remembered>>

\* Mutant: a remembered mode does not grow old.
IsOldNever == remembered # None /\ remembered = None
IsOld == remembered # None

\* cachedGameTypeLocked: two minutes have passed.
GrowsOld ==
    /\ IsOld
    /\ remembered' = None
    /\ UNCHANGED <<engine, botOps, pc, job, history>>

\* q3ctl dies and is started again.
Restart ==
    /\ botOps' = FALSE
    /\ pc' = [r \in Requests |-> "idle"]
    /\ job' = [r \in Requests |-> NoJob]
    /\ remembered' = None
    /\ crossed' = [r \in Requests |-> FALSE]
    /\ UNCHANGED <<engine, toldMatch, toldLimits>>

Init ==
    /\ match \in Entries
    /\ latched = match.mode
    /\ restarting = FALSE
    /\ late = <<>>
    /\ botOps = FALSE
    /\ pc = [r \in Requests |-> "idle"]
    /\ job = [r \in Requests |-> NoJob]
    /\ remembered = None
    /\ crossed = [r \in Requests |-> FALSE]
    /\ toldMatch = None
    /\ toldLimits = None

Next ==
    \/ \E r \in Requests :
          \/ Load(r) \/ SendMode(r) \/ SendMap(r) \/ LookAtMatch(r)
          \/ LookedAtMatch(r) \/ LoadUnconfirmed(r)
          \/ MatchLimits(r) \/ SendLimit(r) \/ LookAtLimits(r)
          \/ LookedAtLimits(r) \/ LimitsUnconfirmed(r)
          \/ SendRestart(r) \/ Refresh(r) \/ DetermineMode(r) \/ HasRead(r)
    \/ ExecuteLate \/ MapRestarts \/ MatchEnds \/ GrowsOld \/ Restart

Spec == Init /\ [][Next]_vars

\* A handler stores what it has read, and two minutes pass.  (A store that
\* starts them again makes no difference to ModeForgotten.)
FairSpec ==
    /\ Spec
    /\ \A r \in Requests :
          WF_vars(LookedAtMatch(r) \/ LookedAtLimits(r) \/ HasRead(r))
    /\ WF_vars(GrowsOld)

-----------------------------------------------------------------------------
(* Properties.                                                             *)

\* A map that a load put on is played in the mode of that load, though both
\* are sent apart, unless another load was sent or the match ended between
\* them: the commands of loads and restarts that were given up never get in
\* the way.
LoadsItsPair ==
    [][\A r \in Requests :
          SendMap(r) /\ pc'[r] = "look" /\ ~crossed[r] =>
              match'.map = job[r].want.map /\ match'.mode = job[r].want.mode]_vars

\* What a load or a change of limits confirmed is so, and stays so until
\* someone sends another one, the match ends, or is restarted in the mode of a
\* load that was cut short: no command given up before is executed afterwards.
ConfirmedHolds ==
    /\ toldMatch # None =>
          match.map = toldMatch.map /\ match.mode = toldMatch.mode
    /\ toldLimits # None => match.limits = toldLimits

\* Readings are stored in any order, so that an older mode may replace a newer
\* one.  When modes no longer change, the bot handlers are in the end given
\* the right one.
ModeForgotten ==
    (<>[][match'.mode = match.mode]_vars)
    => <>[](remembered \in {None, match.mode})
=============================================================================
