--------------------------- MODULE LiveMatchProofs ---------------------------
(***************************************************************************)
(* For any handlers, maps, modes, limits and rotation, and any number of   *)
(* buffered datagrams: a load that nobody crossed plays its own pair, and  *)
(* what was confirmed holds.                                               *)
(***************************************************************************)
EXTENDS LiveMatch, SequenceTheorems, TLAPS

Jobs == Loads \cup LimitJobs \cup Readings \cup {NoJob}

\* How far a handler is agrees with what it does.
StepsOK ==
    \A r \in Requests :
        /\ pc[r] = "idle" <=> job[r] = NoJob
        /\ pc[r] \in {"mode", "map"} => job[r] \in Loads
        /\ pc[r] = "limit" => job[r] \in LimitJobs /\ job[r].at \in Cvars
        /\ pc[r] = "look" => job[r] \in Loads \cup LimitJobs

\* The token lets one handler at a time set limits.
OneSetsLimits ==
    \A r, q \in Requests :
        job[r] \in LimitJobs /\ job[q] \in LimitJobs => r = q

\* None of these commands waits in the engine's buffer.
Quiet(cmds) == \A i \in DOMAIN late : late[i].cmd \notin cmds

MatchHeld ==
    toldMatch # None =>
        /\ match.map = toldMatch.map
        /\ match.mode = toldMatch.mode
        /\ Quiet({"set g_gametype", "map"})

LimitsHeld ==
    toldLimits # None => match.limits = toldLimits /\ Quiet({"set limit"})

\* Between its two commands a load finds its mode kept back for its map.
ModeHeld(r) ==
    pc[r] = "map" /\ ~crossed[r] =>
        latched = job[r].want.mode /\ Quiet({"set g_gametype"})

IInv ==
    /\ TypeOK
    /\ StepsOK
    /\ OneSetsLimits
    /\ MatchHeld
    /\ LimitsHeld
    /\ \A r \in Requests : ModeHeld(r)

-----------------------------------------------------------------------------
(* Types.                                                                  *)

LEMMA JobKinds ==
    /\ \A j \in Loads : j.kind = "load" /\ j.want \in Wanted
                        /\ j.seen \in Modes \cup {None}
    /\ \A j \in LimitJobs : j.kind = "limits" /\ j.want \in Limits
                            /\ j.seen \in Modes \cup {None} /\ j.at \in 1 .. 4
    /\ \A j \in Readings : j.kind = "reading" /\ j.seen \in Modes \cup {None}
    /\ NoJob.kind = "none"
BY DEF Loads, LimitJobs, Readings, NoJob

LEMMA CommandKinds ==
    /\ \A g \in Modes : SetMode(g) \in Commands
                        /\ SetMode(g).cmd = "set g_gametype"
                        /\ SetMode(g).mode = g
    /\ \A m \in Maps : LoadMap(m) \in Commands
                       /\ LoadMap(m).cmd = "map" /\ LoadMap(m).map = m
    /\ \A i \in Cvars, v \in LimitValues :
          SetLimit(i, v) \in Commands /\ SetLimit(i, v).cmd = "set limit"
          /\ SetLimit(i, v).cvar = i /\ SetLimit(i, v).value = v
    /\ RestartMap \in Commands /\ RestartMap.cmd = "map_restart 5"
BY DEF Commands, SetMode, LoadMap, SetLimit, RestartMap

\* What a command is about follows from its name.
LEMMA CommandShape ==
    ASSUME NEW c \in Commands
    PROVE  /\ c.cmd = "set g_gametype" => c.mode \in Modes
           /\ c.cmd = "map" => c.map \in Maps
           /\ c.cmd = "set limit" => c.cvar \in Cvars /\ c.value \in LimitValues
<1>1. CASE c \in [cmd : {"set g_gametype"}, mode : Modes]
  BY <1>1
<1>2. CASE c \in [cmd : {"map"}, map : Maps]
  BY <1>2
<1>3. CASE c \in [cmd : {"set limit"}, cvar : Cvars, value : LimitValues]
  BY <1>3
<1>4. CASE c = RestartMap
  BY <1>4 DEF RestartMap
<1>. QED  BY <1>1, <1>2, <1>3, <1>4 DEF Commands

EngineOK ==
    /\ match \in Matches
    /\ latched \in Modes
    /\ restarting \in BOOLEAN
    /\ late \in Seq(Commands)

\* What a command does not name it leaves alone.
Untouched(c) ==
    /\ c.cmd # "map" => match'.map = match.map /\ match'.mode = match.mode
    /\ c.cmd # "set limit" => match'.limits = match.limits
    /\ c.cmd # "set g_gametype" => latched' = latched

LEMMA ExecuteEffect ==
    ASSUME EngineOK, NEW c \in Commands, Execute(c)
    PROVE  /\ match' \in Matches /\ latched' \in Modes
           /\ restarting' \in BOOLEAN
           /\ Untouched(c)
<1>1. /\ match.map \in Maps /\ match.mode \in Modes /\ match.limits \in Settings
      /\ match = [map |-> match.map, mode |-> match.mode,
                  limits |-> match.limits]
  BY DEF EngineOK, Matches
<1>2. CASE c.cmd = "set g_gametype" /\ latched' = c.mode
           /\ UNCHANGED <<match, restarting>>
  <2>1. c.mode \in Modes
    BY <1>2, CommandShape
  <2>. QED  BY <1>2, <2>1 DEF EngineOK, Untouched
<1>3. CASE /\ c.cmd = "map"
           /\ match' = [match EXCEPT !.map = c.map, !.mode = latched]
           /\ restarting' = FALSE
           /\ UNCHANGED latched
  <2>1. c.map \in Maps
    BY <1>3, CommandShape
  <2>2. match' = [map |-> c.map, mode |-> latched, limits |-> match.limits]
    BY <1>1, <1>3
  <2>. QED  BY <1>1, <1>3, <2>1, <2>2 DEF EngineOK, Untouched, Matches
<1>4. CASE /\ c.cmd = "set limit"
           /\ match' = [match EXCEPT !.limits[c.cvar] = c.value]
           /\ UNCHANGED <<latched, restarting>>
  <2>1. c.cvar \in Cvars /\ c.value \in LimitValues
    BY <1>4, CommandShape
  <2> DEFINE set == [match.limits EXCEPT ![c.cvar] = c.value]
  <2>2. set \in Settings
    BY <1>1, <2>1 DEF Settings
  <2>3. match' = [map |-> match.map, mode |-> match.mode, limits |-> set]
    BY <1>1, <1>4
  <2> HIDE DEF set
  <2>4. match' \in Matches /\ match'.map = match.map /\ match'.mode = match.mode
    BY <1>1, <2>2, <2>3 DEF Matches
  <2>. QED  BY <1>4, <2>4 DEF EngineOK, Untouched
<1>5. CASE c = RestartMap /\ restarting' = TRUE /\ UNCHANGED <<match, latched>>
  BY <1>5 DEF EngineOK, Untouched
<1>. QED  BY <1>2, <1>3, <1>4, <1>5 DEF Execute

\* Whatever becomes of a command, nothing but it and what waited is left to
\* come.
LEMMA SendEffect ==
    ASSUME EngineOK, NEW c \in Commands, TimedOut(c)
    PROVE  /\ EngineOK'
           /\ Untouched(c)
           /\ \A cmds : Quiet(cmds) /\ c.cmd \notin cmds => Quiet(cmds)'
<1>1. CASE Executed(c)
  BY <1>1, ExecuteEffect DEF Executed, EngineOK, Quiet
<1>2. CASE UNCHANGED engine
  BY <1>2 DEF engine, EngineOK, Untouched, Quiet
<1>3. CASE late' = Append(late, c) /\ UNCHANGED <<match, latched, restarting>>
  <2>1. late' \in Seq(Commands) /\ Len(late') = Len(late) + 1
    BY <1>3 DEF EngineOK
  <2>2. \A i \in DOMAIN late' : late'[i] = IF i = Len(late) + 1 THEN c ELSE late[i]
    BY <1>3, <2>1 DEF EngineOK
  <2>3. \A i \in DOMAIN late' : i = Len(late) + 1 \/ i \in DOMAIN late
    BY <2>1 DEF EngineOK
  <2>. QED  BY <1>3, <2>1, <2>2, <2>3 DEF EngineOK, Untouched, Quiet
<1>. QED  BY <1>1, <1>2, <1>3 DEF TimedOut

LEMMA LateEffect ==
    ASSUME EngineOK, ExecuteLate
    PROVE  /\ EngineOK'
           /\ \E c \in {late[i] : i \in DOMAIN late} : Untouched(c)
           /\ \A cmds : Quiet(cmds) => Quiet(cmds)'
<1>1. /\ Head(late) \in Commands /\ Head(late) = late[1] /\ 1 \in DOMAIN late
      /\ late' \in Seq(Commands)
      /\ \A i \in DOMAIN late' : i + 1 \in DOMAIN late /\ late'[i] = late[i + 1]
  BY DEF ExecuteLate, EngineOK
<1>2. EngineOK' /\ Untouched(Head(late))
  BY <1>1, ExecuteEffect DEF ExecuteLate, EngineOK
<1>. QED  BY <1>1, <1>2 DEF Quiet

-----------------------------------------------------------------------------
(* What sending and leaving do.                                            *)

LEMMA SendKeeps ==
    ASSUME IInv, NEW r \in Requests, NEW c \in Commands, TimedOut(c), Sends(r, c)
    PROVE  /\ EngineOK'
           /\ crossed' \in [Requests -> BOOLEAN]
           /\ toldMatch' \in Wanted \cup {None}
           /\ toldLimits' \in Limits \cup {None}
           /\ MatchHeld' /\ LimitsHeld'
           /\ \A q \in Requests \ {r} :
                 pc[q] = "map" /\ ~crossed'[q] =>
                    latched' = job[q].want.mode /\ Quiet({"set g_gametype"})'
<1>1. EngineOK
  BY DEF IInv, TypeOK, EngineOK
<1>2. /\ EngineOK' /\ Untouched(c)
      /\ \A cmds : Quiet(cmds) /\ c.cmd \notin cmds => Quiet(cmds)'
  BY <1>1, SendEffect
<1>3. /\ crossed' \in [Requests -> BOOLEAN]
      /\ toldMatch' \in Wanted \cup {None}
      /\ toldLimits' \in Limits \cup {None}
  BY DEF IInv, TypeOK, Sends
<1>4. MatchHeld'
  <2>1. CASE c.cmd \in {"set g_gametype", "map"}
    BY <2>1 DEF Sends, MatchHeld
  <2>2. CASE c.cmd \notin {"set g_gametype", "map"}
    BY <1>2, <2>2 DEF Sends, IInv, MatchHeld, Untouched
  <2>. QED  BY <2>1, <2>2
<1>5. LimitsHeld'
  <2>1. CASE c.cmd = "set limit"
    BY <2>1 DEF Sends, LimitsHeld
  <2>2. CASE c.cmd # "set limit"
    BY <1>2, <2>2 DEF Sends, IInv, LimitsHeld, Untouched
  <2>. QED  BY <2>1, <2>2
<1>6. ASSUME NEW q \in Requests \ {r}, pc[q] = "map", ~crossed'[q]
      PROVE  latched' = job[q].want.mode /\ Quiet({"set g_gametype"})'
  <2>1. job[q].kind = "load"
    BY <1>6, JobKinds DEF IInv, StepsOK
  <2>2. q \in Loading
    BY <1>6, <2>1 DEF Loading
  <2>3. c.cmd # "set g_gametype" /\ ~crossed[q]
    BY <1>6, <2>2 DEF Sends
  <2>4. ModeHeld(q)
    BY DEF IInv
  <2>. QED  BY <1>2, <1>6, <2>3, <2>4 DEF ModeHeld, Untouched
<1>. QED  BY <1>2, <1>3, <1>4, <1>5, <1>6

LEMMA LeaveKeeps ==
    ASSUME IInv, NEW r \in Requests, Leave(r)
    PROVE  /\ pc' \in [Requests -> Steps]
           /\ job' \in [Requests -> Jobs]
           /\ \A q \in Requests : IF q = r THEN pc'[q] = "idle" /\ job'[q] = NoJob
                                  ELSE pc'[q] = pc[q] /\ job'[q] = job[q]
           /\ StepsOK' /\ OneSetsLimits'
<1>1. /\ pc' \in [Requests -> Steps]
      /\ job' \in [Requests -> Jobs]
      /\ \A q \in Requests : IF q = r THEN pc'[q] = "idle" /\ job'[q] = NoJob
                             ELSE pc'[q] = pc[q] /\ job'[q] = job[q]
  BY DEF IInv, TypeOK, Leave, Goto, Steps, Jobs
<1>2. StepsOK'
  BY <1>1 DEF IInv, StepsOK
<1>3. OneSetsLimits'
  BY <1>1, JobKinds DEF IInv, OneSetsLimits
<1>. QED  BY <1>1, <1>2, <1>3

\* A handler without the token leaves, or a limits handler gives it back.
LEMMA TokenKept ==
    ASSUME IInv, NEW r \in Requests, Leave(r),
           \/ job[r] \notin LimitJobs /\ UNCHANGED botOps
           \/ job[r] \in LimitJobs /\ botOps' = FALSE
    PROVE  botOps' \in BOOLEAN
           /\ (botOps' <=> \E q \in Requests : job'[q].kind = "limits")
<1>1. \A q \in Requests : IF q = r THEN job'[q] = NoJob ELSE job'[q] = job[q]
  BY LeaveKeeps
<1>2. \A q \in Requests : job[q].kind = "limits" <=> job[q] \in LimitJobs
  BY JobKinds DEF IInv, TypeOK
<1>3. CASE job[r] \notin LimitJobs /\ UNCHANGED botOps
  BY <1>1, <1>2, <1>3, JobKinds DEF IInv, TypeOK
<1>4. CASE job[r] \in LimitJobs /\ botOps' = FALSE
  <2>1. \A q \in Requests : job[q] \in LimitJobs => q = r
    BY <1>4 DEF IInv, OneSetsLimits
  <2>. QED  BY <1>1, <1>2, <1>4, <2>1, JobKinds
<1>. QED  BY <1>3, <1>4

LEMMA ReadKeeps ==
    ASSUME IInv, NEW r \in Requests, NEW ok \in BOOLEAN, Read(r, ok),
           job[r] \in Loads \cup LimitJobs, pc[r] = "look", Goto(r, "remember")
    PROVE  /\ pc' \in [Requests -> Steps]
           /\ job' \in [Requests -> Jobs]
           /\ \A q \in Requests : job'[q].kind = job[q].kind
           /\ \A q \in Requests \ {r} : pc'[q] = pc[q] /\ job'[q] = job[q]
           /\ pc'[r] = "remember"
           /\ StepsOK' /\ OneSetsLimits'
<1>1. /\ pc' \in [Requests -> Steps] /\ pc'[r] = "remember"
      /\ \A q \in Requests \ {r} : pc'[q] = pc[q] /\ job'[q] = job[q]
  BY DEF IInv, TypeOK, Goto, Read, Steps
<1>2. match.mode \in Modes
  BY DEF IInv, TypeOK, Matches
<1>3. job'[r] = [[job[r] EXCEPT !.seen = match.mode] EXCEPT !.ok = ok]
  BY DEF IInv, TypeOK, Read
<1>4. /\ job[r] \in Loads => job'[r] \in Loads
      /\ job[r] \in LimitJobs => job'[r] \in LimitJobs
  BY <1>2, <1>3 DEF Loads, LimitJobs
<1>5. job' \in [Requests -> Jobs]
  <2>1. job'[r] \in Jobs
    BY <1>4 DEF Jobs
  <2>2. \A q \in Requests : job'[q] \in Jobs
    BY <1>1, <2>1 DEF IInv, TypeOK, Jobs
  <2>3. job' = [q \in Requests |-> job'[q]]
    BY DEF IInv, TypeOK, Read
  <2>. QED  BY <2>2, <2>3
<1>6. /\ \A q \in Requests : job'[q].kind = job[q].kind
      /\ \A q \in Requests : job'[q] \in LimitJobs => job[q] \in LimitJobs
  BY <1>1, <1>4, JobKinds
<1>7. StepsOK'
  BY <1>1, <1>4, JobKinds DEF IInv, StepsOK
<1>8. OneSetsLimits'
  BY <1>6 DEF IInv, OneSetsLimits
<1>. QED  BY <1>1, <1>5, <1>6, <1>7, <1>8

-----------------------------------------------------------------------------
(* The inductive invariant.                                                *)

LEMMA InitIInv == Init => IInv
<1> SUFFICES ASSUME Init PROVE IInv
  OBVIOUS
<1>1. match \in Matches /\ latched \in Modes
  BY MatchAssumption DEF Init, Matches
<1>2. late = <<>> /\ late \in Seq(Commands)
  BY DEF Init
<1>3. pc \in [Requests -> Steps]
  BY DEF Init, Steps
<1>4. TypeOK
  <2>1. job \in [Requests -> Loads \cup LimitJobs \cup Readings \cup {NoJob}]
    BY DEF Init
  <2>2. botOps \in BOOLEAN
        /\ (botOps <=> \E r \in Requests : job[r].kind = "limits")
    BY JobKinds DEF Init
  <2>. QED  BY <1>1, <1>2, <1>3, <2>1, <2>2 DEF Init, TypeOK
<1>5. StepsOK /\ OneSetsLimits
  BY JobKinds DEF Init, StepsOK, OneSetsLimits
<1>6. MatchHeld /\ LimitsHeld /\ \A r \in Requests : ModeHeld(r)
  BY DEF Init, MatchHeld, LimitsHeld, ModeHeld
<1>. QED  BY <1>4, <1>5, <1>6 DEF IInv

LEMMA SendModeIInv ==
    ASSUME IInv, NEW r \in Requests, SendMode(r) PROVE IInv'
<1> DEFINE c == SetMode(job[r].want.mode)
<1>1. job[r] \in Loads /\ pc[r] = "mode"
  BY DEF SendMode, IInv, StepsOK
<1>2. job[r].want.mode \in Modes
  BY <1>1, JobKinds, MatchAssumption DEF Pairs
<1>3. c \in Commands /\ c.cmd = "set g_gametype" /\ c.mode = job[r].want.mode
  BY <1>2, CommandKinds
<1>4. /\ TimedOut(c) /\ Sends(r, c) /\ UNCHANGED <<botOps, remembered>>
      /\ \/ Executed(c) /\ Goto(r, "map") /\ UNCHANGED job
         \/ Leave(r)
  BY DEF SendMode, Accepted, TimedOut
<1> HIDE DEF c
<1>5. /\ EngineOK' /\ crossed' \in [Requests -> BOOLEAN]
      /\ toldMatch' \in Wanted \cup {None}
      /\ toldLimits' \in Limits \cup {None}
      /\ MatchHeld' /\ LimitsHeld'
      /\ \A q \in Requests \ {r} :
            pc[q] = "map" /\ ~crossed'[q] =>
               latched' = job[q].want.mode /\ Quiet({"set g_gametype"})'
  BY <1>3, <1>4, SendKeeps
<1>6. CASE Leave(r)
  <2>1. /\ pc' \in [Requests -> Steps]
        /\ job' \in [Requests -> Jobs]
        /\ \A q \in Requests : IF q = r THEN pc'[q] = "idle" /\ job'[q] = NoJob
                               ELSE pc'[q] = pc[q] /\ job'[q] = job[q]
        /\ StepsOK' /\ OneSetsLimits'
    BY <1>6, LeaveKeeps
  <2>2. botOps' \in BOOLEAN
        /\ (botOps' <=> \E q \in Requests : job'[q].kind = "limits")
    BY <1>1, <1>4, <1>6, TokenKept, JobKinds
  <2>3. remembered' \in Modes \cup {None}
    BY <1>4 DEF IInv, TypeOK
  <2>4. TypeOK'
    BY <1>5, <2>1, <2>2, <2>3 DEF TypeOK, EngineOK, Jobs
  <2>5. \A q \in Requests : ModeHeld(q)'
    BY <1>5, <2>1 DEF ModeHeld
  <2>. QED  BY <1>5, <2>1, <2>4, <2>5 DEF IInv
<1>7. CASE Executed(c) /\ Goto(r, "map") /\ UNCHANGED job
  <2>1. /\ pc' \in [Requests -> Steps]
        /\ \A q \in Requests : pc'[q] = IF q = r THEN "map" ELSE pc[q]
    BY <1>7 DEF IInv, TypeOK, Goto, Steps
  <2>2. StepsOK' /\ OneSetsLimits'
    BY <1>1, <1>7, <2>1, JobKinds DEF IInv, StepsOK, OneSetsLimits
  <2>3. TypeOK'
    BY <1>4, <1>5, <1>7, <2>1 DEF IInv, TypeOK, EngineOK
  <2>4. latched' = job[r].want.mode /\ late' = <<>>
    <3>1. RestartMap.cmd = "map_restart 5"
      BY CommandKinds
    <3>. QED  BY <1>3, <1>7, <3>1 DEF Executed, Execute
  <2>5. \A q \in Requests : ModeHeld(q)'
    BY <1>5, <1>7, <2>1, <2>4 DEF ModeHeld, Quiet
  <2>. QED  BY <1>5, <2>2, <2>3, <2>5 DEF IInv
<1>. QED  BY <1>4, <1>6, <1>7

\* A command other than a mode, after which the handler stays where a load
\* has no mode at stake or leaves.
LEMMA SendOtherIInv ==
    ASSUME IInv, NEW r \in Requests, NEW c \in Commands, TimedOut(c),
           Sends(r, c), UNCHANGED remembered,
           pc' \in [Requests -> Steps], job' \in [Requests -> Jobs],
           \A q \in Requests \ {r} : pc'[q] = pc[q] /\ job'[q] = job[q],
           pc'[r] # "map", StepsOK', OneSetsLimits',
           botOps' \in BOOLEAN,
           botOps' <=> \E q \in Requests : job'[q].kind = "limits"
    PROVE  IInv'
<1>1. /\ EngineOK' /\ crossed' \in [Requests -> BOOLEAN]
      /\ toldMatch' \in Wanted \cup {None}
      /\ toldLimits' \in Limits \cup {None}
      /\ MatchHeld' /\ LimitsHeld'
      /\ \A q \in Requests \ {r} :
            pc[q] = "map" /\ ~crossed'[q] =>
               latched' = job[q].want.mode /\ Quiet({"set g_gametype"})'
  BY SendKeeps
<1>2. TypeOK'
  <2>1. remembered' \in Modes \cup {None}
    BY DEF IInv, TypeOK
  <2>. QED  BY <1>1, <2>1 DEF TypeOK, EngineOK, Jobs
<1>3. \A q \in Requests : ModeHeld(q)'
  BY <1>1 DEF ModeHeld
<1>. QED  BY <1>1, <1>2, <1>3 DEF IInv

LEMMA SendMapIInv ==
    ASSUME IInv, NEW r \in Requests, SendMap(r) PROVE IInv'
<1> DEFINE c == LoadMap(job[r].want.map)
<1>1. job[r] \in Loads /\ pc[r] = "map"
  BY DEF SendMap, IInv, StepsOK
<1>2. c \in Commands
  <2>1. job[r].want.map \in Maps
    BY <1>1, JobKinds, MatchAssumption DEF Pairs
  <2>. QED  BY <2>1, CommandKinds
<1>3. /\ TimedOut(c) /\ Sends(r, c) /\ UNCHANGED <<botOps, remembered>>
      /\ (Goto(r, "look") /\ UNCHANGED job) \/ Leave(r)
  BY DEF SendMap, Accepted, TimedOut
<1> HIDE DEF c
<1>4. CASE Leave(r)
  BY <1>1, <1>2, <1>3, <1>4, LeaveKeeps, TokenKept, JobKinds, SendOtherIInv
<1>5. CASE Goto(r, "look") /\ UNCHANGED job
  <2>1. /\ pc' \in [Requests -> Steps]
        /\ \A q \in Requests : pc'[q] = IF q = r THEN "look" ELSE pc[q]
    BY <1>5 DEF IInv, TypeOK, Goto, Steps
  <2>2. StepsOK' /\ OneSetsLimits'
    BY <1>1, <1>5, <2>1, JobKinds DEF IInv, StepsOK, OneSetsLimits
  <2>3. /\ job' \in [Requests -> Jobs] /\ botOps' \in BOOLEAN
        /\ botOps' <=> \E q \in Requests : job'[q].kind = "limits"
    BY <1>3, <1>5 DEF IInv, TypeOK, Jobs
  <2>. QED  BY <1>2, <1>3, <1>5, <2>1, <2>2, <2>3, SendOtherIInv
<1>. QED  BY <1>3, <1>4, <1>5

\* A handler that sends nothing: the engine stays as it is.
LEMMA QuietStep ==
    ASSUME IInv, NEW r \in Requests,
           UNCHANGED <<engine, crossed>>,
           pc' \in [Requests -> Steps], job' \in [Requests -> Jobs],
           \A q \in Requests \ {r} : pc'[q] = pc[q] /\ job'[q] = job[q],
           pc'[r] # "map", StepsOK', OneSetsLimits',
           botOps' \in BOOLEAN,
           botOps' <=> \E q \in Requests : job'[q].kind = "limits",
           remembered' \in Modes \cup {None},
           \/ toldMatch' = toldMatch
           \/ /\ toldMatch' \in Wanted
              /\ match.map = toldMatch'.map /\ match.mode = toldMatch'.mode
              /\ late = <<>>,
           \/ toldLimits' = toldLimits
           \/ toldLimits' \in Limits /\ match.limits = toldLimits' /\ late = <<>>
    PROVE  IInv'
<1>1. UNCHANGED <<match, latched, restarting, late>>
  BY DEF engine
<1>2. TypeOK'
  BY <1>1 DEF IInv, TypeOK, Jobs
<1>3. MatchHeld' /\ LimitsHeld'
  <2>1. late = <<>> => \A cmds : Quiet(cmds)'
    BY <1>1 DEF Quiet
  <2>2. \A cmds : Quiet(cmds) => Quiet(cmds)'
    BY <1>1 DEF Quiet
  <2>3. MatchHeld'
    BY <1>1, <2>1, <2>2 DEF IInv, MatchHeld
  <2>4. LimitsHeld'
    BY <1>1, <2>1, <2>2 DEF IInv, LimitsHeld
  <2>. QED  BY <2>3, <2>4
<1>4. \A q \in Requests : ModeHeld(q)'
  BY <1>1 DEF IInv, ModeHeld, Quiet
<1>. QED  BY <1>2, <1>3, <1>4 DEF IInv

\* A new job, at a step that no job is needed for before.
LEMMA BeginKeeps ==
    ASSUME IInv, NEW r \in Requests, NEW j \in Jobs, NEW step \in Steps,
           pc[r] = "idle", Goto(r, step), job' = [job EXCEPT ![r] = j],
           \/ j \in Loads /\ step = "mode"
           \/ j \in LimitJobs /\ j.at = 1 /\ step = "limit" /\ ~botOps
           \/ j \in Readings /\ step = "remember"
    PROVE  /\ pc' \in [Requests -> Steps] /\ pc'[r] = step
           /\ job' \in [Requests -> Jobs] /\ job'[r] = j
           /\ \A q \in Requests \ {r} : pc'[q] = pc[q] /\ job'[q] = job[q]
           /\ job[r] = NoJob
           /\ StepsOK' /\ OneSetsLimits'
<1>1. /\ pc' \in [Requests -> Steps] /\ pc'[r] = step
      /\ job' \in [Requests -> Jobs] /\ job'[r] = j
      /\ \A q \in Requests \ {r} : pc'[q] = pc[q] /\ job'[q] = job[q]
  BY DEF IInv, TypeOK, Goto, Jobs
<1>2. job[r] = NoJob /\ j # NoJob
  BY JobKinds DEF IInv, StepsOK
<1>3. StepsOK'
  BY <1>1, <1>2, JobKinds DEF IInv, StepsOK, Cvars
<1>4. OneSetsLimits'
  <2>1. ASSUME ~botOps, NEW q \in Requests
        PROVE  job[q] \notin LimitJobs
    BY <2>1, JobKinds DEF IInv, TypeOK
  <2>. QED  BY <1>1, <2>1, JobKinds DEF IInv, OneSetsLimits
<1>. QED  BY <1>1, <1>2, <1>3, <1>4

\* The handlers' other steps.
LEMMA BeginIInv ==
    ASSUME IInv, NEW r \in Requests,
           Load(r) \/ MatchLimits(r) \/ Refresh(r) \/ DetermineMode(r)
    PROVE  IInv'
<1>1. CASE Load(r)
  <2>1. PICK want \in Wanted :
           job' = [job EXCEPT ![r] = [kind |-> "load", want |-> want,
                                      seen |-> None, ok |-> FALSE]]
    BY <1>1 DEF Load
  <2> DEFINE j == [kind |-> "load", want |-> want, seen |-> None, ok |-> FALSE]
  <2>2. j \in Loads /\ "mode" \in Steps
    BY DEF Loads, Steps
  <2>3. /\ job' = [job EXCEPT ![r] = j] /\ pc[r] = "idle" /\ Goto(r, "mode")
        /\ UNCHANGED <<engine, crossed, botOps, remembered, toldMatch, toldLimits>>
    BY <1>1, <2>1 DEF Load, history
  <2> HIDE DEF j
  <2>4. /\ pc' \in [Requests -> Steps] /\ pc'[r] = "mode"
        /\ job' \in [Requests -> Jobs] /\ job'[r] = j
        /\ \A q \in Requests \ {r} : pc'[q] = pc[q] /\ job'[q] = job[q]
        /\ job[r] = NoJob
        /\ StepsOK' /\ OneSetsLimits'
    BY <2>2, <2>3, BeginKeeps DEF Jobs
  <2>5. botOps' \in BOOLEAN
        /\ (botOps' <=> \E q \in Requests : job'[q].kind = "limits")
    BY <2>2, <2>3, <2>4, JobKinds DEF IInv, TypeOK
  <2>6. remembered' \in Modes \cup {None}
    BY <2>3 DEF IInv, TypeOK
  <2>. QED  BY <2>3, <2>4, <2>5, <2>6, QuietStep
<1>2. CASE MatchLimits(r)
  <2>1. PICK want \in Limits :
           job' = [job EXCEPT ![r] = [kind |-> "limits", want |-> want, at |-> 1,
                                      seen |-> None, ok |-> FALSE]]
    BY <1>2 DEF MatchLimits
  <2> DEFINE j == [kind |-> "limits", want |-> want, at |-> 1,
                   seen |-> None, ok |-> FALSE]
  <2>2. j \in LimitJobs /\ j.at = 1 /\ "limit" \in Steps
    BY DEF LimitJobs, Steps
  <2>3. /\ job' = [job EXCEPT ![r] = j] /\ pc[r] = "idle" /\ Goto(r, "limit")
        /\ ~botOps /\ botOps'
        /\ UNCHANGED <<engine, crossed, remembered, toldMatch, toldLimits>>
    BY <1>2, <2>1 DEF MatchLimits, history
  <2> HIDE DEF j
  <2>4. /\ pc' \in [Requests -> Steps] /\ pc'[r] = "limit"
        /\ job' \in [Requests -> Jobs] /\ job'[r] = j
        /\ \A q \in Requests \ {r} : pc'[q] = pc[q] /\ job'[q] = job[q]
        /\ StepsOK' /\ OneSetsLimits'
    BY <2>2, <2>3, BeginKeeps DEF Jobs
  <2>5. botOps' \in BOOLEAN
        /\ (botOps' <=> \E q \in Requests : job'[q].kind = "limits")
    <3>1. botOps' = TRUE
      BY <1>2 DEF MatchLimits
    <3>. QED  BY <2>2, <2>4, <3>1, JobKinds
  <2>6. remembered' \in Modes \cup {None}
    BY <2>3 DEF IInv, TypeOK
  <2>. QED  BY <2>3, <2>4, <2>5, <2>6, QuietStep
<1>3. CASE Refresh(r) \/ DetermineMode(r)
  <2> DEFINE j == [kind |-> "reading", seen |-> match.mode, ok |-> TRUE]
  <2>1. j \in Readings /\ "remember" \in Steps
    BY DEF IInv, TypeOK, Matches, Readings, Steps
  <2>2. /\ job' = [job EXCEPT ![r] = j] /\ pc[r] = "idle" /\ Goto(r, "remember")
        /\ UNCHANGED <<engine, crossed, botOps, remembered, toldMatch, toldLimits>>
    BY <1>3 DEF Refresh, DetermineMode, Reading, history
  <2> HIDE DEF j
  <2>3. /\ pc' \in [Requests -> Steps] /\ pc'[r] = "remember"
        /\ job' \in [Requests -> Jobs] /\ job'[r] = j
        /\ \A q \in Requests \ {r} : pc'[q] = pc[q] /\ job'[q] = job[q]
        /\ job[r] = NoJob
        /\ StepsOK' /\ OneSetsLimits'
    BY <2>1, <2>2, BeginKeeps DEF Jobs
  <2>4. botOps' \in BOOLEAN
        /\ (botOps' <=> \E q \in Requests : job'[q].kind = "limits")
    BY <2>1, <2>2, <2>3, JobKinds DEF IInv, TypeOK
  <2>5. remembered' \in Modes \cup {None}
    BY <2>2 DEF IInv, TypeOK
  <2>. QED  BY <2>2, <2>3, <2>4, <2>5, QuietStep
<1>. QED  BY <1>1, <1>2, <1>3

LEMMA LookIInv ==
    ASSUME IInv, NEW r \in Requests, LookAtMatch(r) \/ LookAtLimits(r)
    PROVE  IInv'
<1>1. job[r] \in Loads \cup LimitJobs /\ pc[r] = "look" /\ late = <<>>
      /\ Goto(r, "remember")
      /\ UNCHANGED <<engine, crossed, botOps, remembered>>
  BY DEF LookAtMatch, LookAtLimits, IInv, StepsOK, Answered
<1>2. \E ok \in BOOLEAN : Read(r, ok)
  BY DEF LookAtMatch, LookAtLimits, LoadAsWanted, LimitsAsWanted
<1>3. /\ pc' \in [Requests -> Steps]
      /\ job' \in [Requests -> Jobs]
      /\ \A q \in Requests : job'[q].kind = job[q].kind
      /\ \A q \in Requests \ {r} : pc'[q] = pc[q] /\ job'[q] = job[q]
      /\ pc'[r] = "remember"
      /\ StepsOK' /\ OneSetsLimits'
  BY <1>1, <1>2, ReadKeeps
<1>4. botOps' \in BOOLEAN
      /\ (botOps' <=> \E q \in Requests : job'[q].kind = "limits")
  BY <1>1, <1>3 DEF IInv, TypeOK
<1>5. remembered' \in Modes \cup {None}
  BY <1>1 DEF IInv, TypeOK
<1>6. CASE LookAtMatch(r)
  <2>1. job[r].want \in Wanted /\ toldLimits' = toldLimits
    BY <1>1, <1>6, JobKinds DEF LookAtMatch
  <2>2. \/ toldMatch' = toldMatch
        \/ /\ toldMatch' \in Wanted
           /\ match.map = toldMatch'.map /\ match.mode = toldMatch'.mode
           /\ late = <<>>
    BY <1>1, <1>6, <2>1 DEF LookAtMatch, LoadAsWanted
  <2>. QED  BY <1>1, <1>3, <1>4, <1>5, <2>1, <2>2, QuietStep
<1>7. CASE LookAtLimits(r)
  <2>1. job[r].want \in Limits /\ toldMatch' = toldMatch
    BY <1>1, <1>7, JobKinds DEF LookAtLimits
  <2>2. \/ toldLimits' = toldLimits
        \/ toldLimits' \in Limits /\ match.limits = toldLimits' /\ late = <<>>
    BY <1>1, <1>7, <2>1 DEF LookAtLimits, LimitsAsWanted
  <2>. QED  BY <1>1, <1>3, <1>4, <1>5, <2>1, <2>2, QuietStep
<1>. QED  BY <1>6, <1>7

\* A handler that answers without having sent anything.
LEMMA AnswerIInv ==
    ASSUME IInv, NEW r \in Requests, Leave(r), UNCHANGED <<engine, history>>,
           \/ job[r] \notin LimitJobs /\ UNCHANGED botOps
           \/ job[r] \in LimitJobs /\ botOps' = FALSE,
           remembered' \in Modes \cup {None}
    PROVE  IInv'
<1>1. UNCHANGED <<toldMatch, toldLimits, crossed>>
  BY DEF history
<1>2. /\ pc' \in [Requests -> Steps]
      /\ job' \in [Requests -> Jobs]
      /\ \A q \in Requests : IF q = r THEN pc'[q] = "idle" /\ job'[q] = NoJob
                             ELSE pc'[q] = pc[q] /\ job'[q] = job[q]
      /\ StepsOK' /\ OneSetsLimits'
  BY LeaveKeeps
<1>3. botOps' \in BOOLEAN
      /\ (botOps' <=> \E q \in Requests : job'[q].kind = "limits")
  BY TokenKept
<1>. QED  BY <1>1, <1>2, <1>3, QuietStep

LEMMA EndIInv ==
    ASSUME IInv, NEW r \in Requests,
           \/ LoadUnconfirmed(r) \/ LookedAtLimits(r) \/ LimitsUnconfirmed(r)
           \/ HasRead(r) \/ (LookedAtMatch(r) /\ Leave(r))
    PROVE  IInv'
<1>1. job[r] \in Jobs /\ Leave(r) /\ UNCHANGED <<engine, history>>
  BY DEF IInv, TypeOK, Jobs, LoadUnconfirmed, LookedAtLimits,
         LimitsUnconfirmed, HasRead, LookedAtMatch, Finish
<1>2. job[r].kind # "none" => job[r].seen \in Modes \cup {None}
  BY <1>1, JobKinds DEF Jobs
<1>3. job[r] \in LimitJobs <=> job[r].kind = "limits"
  BY <1>1, JobKinds DEF Jobs
<1>4. CASE LoadUnconfirmed(r)
  <2>1. remembered' \in Modes \cup {None} /\ UNCHANGED botOps
    BY <1>4 DEF LoadUnconfirmed, IInv, TypeOK
  <2>. QED  BY <1>1, <1>3, <1>4, <2>1, AnswerIInv DEF LoadUnconfirmed
<1>5. CASE LookedAtLimits(r)
  BY <1>1, <1>2, <1>3, <1>5, AnswerIInv
  DEF LookedAtLimits, RememberGameType, Finish
<1>6. CASE LimitsUnconfirmed(r)
  <2>1. remembered' \in Modes \cup {None} /\ botOps' = FALSE
    BY <1>6 DEF LimitsUnconfirmed, Finish, IInv, TypeOK
  <2>. QED  BY <1>1, <1>3, <1>6, <2>1, AnswerIInv DEF LimitsUnconfirmed
<1>7. CASE HasRead(r)
  BY <1>1, <1>2, <1>3, <1>7, AnswerIInv DEF HasRead, RememberGameType
<1>8. CASE LookedAtMatch(r)
  BY <1>1, <1>2, <1>3, <1>8, AnswerIInv DEF LookedAtMatch, RememberGameType
<1>. QED  BY <1>4, <1>5, <1>6, <1>7, <1>8

\* A load that was not confirmed looks again.
LEMMA AgainIInv ==
    ASSUME IInv, NEW r \in Requests, LookedAtMatch(r), Goto(r, "look"),
           job' = [job EXCEPT ![r].seen = None]
    PROVE  IInv'
<1>1. /\ pc[r] = "remember" /\ job[r] \in Loads
      /\ remembered' = job[r].seen /\ UNCHANGED <<engine, botOps, history>>
  BY JobKinds DEF LookedAtMatch, RememberGameType, IInv, TypeOK
<1>2. /\ pc' \in [Requests -> Steps] /\ pc'[r] = "look"
      /\ \A q \in Requests \ {r} : pc'[q] = pc[q] /\ job'[q] = job[q]
      /\ job'[r] = [job[r] EXCEPT !.seen = None]
  BY DEF IInv, TypeOK, Goto, Steps
<1>3. job'[r] \in Loads
  BY <1>1, <1>2 DEF Loads
<1>4. job' \in [Requests -> Jobs]
  <2>1. job[r] \in Loads => job'[r] \in Jobs
    BY <1>3 DEF Jobs
  <2>2. \A q \in Requests : job'[q] \in Jobs
    BY <1>1, <1>2, <2>1 DEF IInv, TypeOK, Jobs
  <2>3. job' = [q \in Requests |-> job'[q]]
    BY DEF IInv, TypeOK
  <2>. QED  BY <2>2, <2>3
<1>5. StepsOK'
  BY <1>2, <1>3, JobKinds DEF IInv, StepsOK
<1>6. OneSetsLimits'
  BY <1>1, <1>2, <1>3, JobKinds DEF IInv, OneSetsLimits
<1>7. botOps' \in BOOLEAN
      /\ (botOps' <=> \E q \in Requests : job'[q].kind = "limits")
  BY <1>1, <1>2, <1>3, JobKinds DEF IInv, TypeOK
<1>8. remembered' \in Modes \cup {None}
  BY <1>1, JobKinds
<1>. QED  BY <1>1, <1>2, <1>4, <1>5, <1>6, <1>7, <1>8, QuietStep DEF history

LEMMA SendLimitIInv ==
    ASSUME IInv, NEW r \in Requests, SendLimit(r) PROVE IInv'
<1> DEFINE c == SetLimit(job[r].at, job[r].want[job[r].at])
<1>1. job[r] \in LimitJobs /\ job[r].at \in Cvars /\ pc[r] = "limit"
  BY DEF SendLimit, IInv, StepsOK
<1>2. c \in Commands
  <2>1. job[r].want \in [Cvars -> LimitValues]
    BY <1>1, JobKinds, MatchAssumption DEF Settings
  <2>. QED  BY <1>1, <2>1, CommandKinds
<1>3. /\ TimedOut(c) /\ Sends(r, c) /\ UNCHANGED remembered
      /\ \/ /\ job' = [job EXCEPT ![r].at = @ + 1]
            /\ Goto(r, IF job[r].at = 3 THEN "look" ELSE "limit")
            /\ UNCHANGED botOps
         \/ Finish(r)
  BY DEF SendLimit, Accepted, TimedOut
<1> HIDE DEF c
<1>4. CASE Finish(r)
  <2>1. Leave(r) /\ botOps' = FALSE
    BY <1>4 DEF Finish
  <2>2. /\ pc' \in [Requests -> Steps]
        /\ job' \in [Requests -> Jobs]
        /\ \A q \in Requests : IF q = r THEN pc'[q] = "idle" /\ job'[q] = NoJob
                               ELSE pc'[q] = pc[q] /\ job'[q] = job[q]
        /\ StepsOK' /\ OneSetsLimits'
    BY <2>1, LeaveKeeps
  <2>3. botOps' \in BOOLEAN
        /\ (botOps' <=> \E q \in Requests : job'[q].kind = "limits")
    BY <1>1, <2>1, TokenKept
  <2>. QED  BY <1>2, <1>3, <2>2, <2>3, SendOtherIInv
<1>5. CASE /\ job' = [job EXCEPT ![r].at = @ + 1]
           /\ Goto(r, IF job[r].at = 3 THEN "look" ELSE "limit")
           /\ UNCHANGED botOps
  <2>1. /\ pc' \in [Requests -> Steps]
        /\ pc'[r] = IF job[r].at = 3 THEN "look" ELSE "limit"
        /\ \A q \in Requests \ {r} : pc'[q] = pc[q] /\ job'[q] = job[q]
        /\ job'[r] = [job[r] EXCEPT !.at = job[r].at + 1]
    BY <1>5 DEF IInv, TypeOK, Goto, Steps
  <2>2. job'[r] \in LimitJobs /\ job'[r].at = job[r].at + 1
    BY <1>1, <2>1 DEF LimitJobs, Cvars
  <2>3. job' \in [Requests -> Jobs]
    <3>1. job'[r] \in Jobs
      BY <2>2 DEF Jobs
    <3>2. \A q \in Requests : job'[q] \in Jobs
      BY <2>1, <3>1 DEF IInv, TypeOK, Jobs
    <3>3. job' = [q \in Requests |-> job'[q]]
      BY <1>5 DEF IInv, TypeOK
    <3>. QED  BY <3>2, <3>3
  <2>4. StepsOK'
    <3>1. pc'[r] = "limit" => job'[r].at \in Cvars
      BY <1>1, <2>1, <2>2 DEF Cvars
    <3>2. pc'[r] \in {"look", "limit"} /\ job'[r] # NoJob
      BY <2>1, <2>2, JobKinds
    <3>. QED  BY <2>1, <2>2, <3>1, <3>2 DEF IInv, StepsOK
  <2>5. OneSetsLimits'
    BY <1>1, <2>1 DEF IInv, OneSetsLimits
  <2>6. botOps' \in BOOLEAN
        /\ (botOps' <=> \E q \in Requests : job'[q].kind = "limits")
    BY <1>1, <1>5, <2>1, <2>2, JobKinds DEF IInv, TypeOK
  <2>7. pc'[r] # "map"
    BY <2>1
  <2>. QED  BY <1>2, <1>3, <2>1, <2>3, <2>4, <2>5, <2>6, <2>7, SendOtherIInv
<1>. QED  BY <1>3, <1>4, <1>5

LEMMA SendRestartIInv ==
    ASSUME IInv, NEW r \in Requests, SendRestart(r) PROVE IInv'
<1>1. /\ TimedOut(RestartMap) /\ Sends(r, RestartMap) /\ pc[r] = "idle"
      /\ UNCHANGED <<botOps, pc, job, remembered>>
  BY DEF SendRestart
<1>2. RestartMap \in Commands
  BY CommandKinds
<1>3. /\ pc' \in [Requests -> Steps] /\ job' \in [Requests -> Jobs]
      /\ StepsOK' /\ OneSetsLimits' /\ botOps' \in BOOLEAN
      /\ (botOps' <=> \E q \in Requests : job'[q].kind = "limits")
  BY <1>1 DEF IInv, TypeOK, Jobs, StepsOK, OneSetsLimits
<1>. QED  BY <1>1, <1>2, <1>3, SendOtherIInv

-----------------------------------------------------------------------------
(* The rest of the world.                                                  *)

LEMMA LateIInv == ASSUME IInv, ExecuteLate PROVE IInv'
<1>1. UNCHANGED <<botOps, pc, job, remembered, crossed, toldMatch, toldLimits>>
  BY DEF ExecuteLate, history
<1>2. EngineOK
  BY DEF IInv, TypeOK, EngineOK
<1>3. EngineOK' /\ \A cmds : Quiet(cmds) => Quiet(cmds)'
  BY <1>2, LateEffect
<1>4. PICK i \in DOMAIN late : Untouched(late[i])
  BY <1>2, LateEffect
<1>5. TypeOK' /\ StepsOK' /\ OneSetsLimits'
  BY <1>1, <1>3 DEF IInv, TypeOK, EngineOK, StepsOK, OneSetsLimits
<1>6. MatchHeld'
  BY <1>1, <1>3, <1>4 DEF IInv, MatchHeld, Quiet, Untouched
<1>7. LimitsHeld'
  BY <1>1, <1>3, <1>4 DEF IInv, LimitsHeld, Quiet, Untouched
<1>8. \A r \in Requests : ModeHeld(r)'
  BY <1>1, <1>3, <1>4 DEF IInv, ModeHeld, Quiet, Untouched
<1>. QED  BY <1>5, <1>6, <1>7, <1>8 DEF IInv

LEMMA WorldIInv ==
    ASSUME IInv, MapRestarts \/ MatchEnds \/ GrowsOld
    PROVE  IInv'
<1>1. UNCHANGED <<late, botOps, pc, job>>
  BY DEF MapRestarts, MatchEnds, GrowsOld, engine
<1>2. StepsOK' /\ OneSetsLimits'
  BY <1>1 DEF IInv, StepsOK, OneSetsLimits
<1>3. CASE MapRestarts
  <2>1. /\ match' = [match EXCEPT !.mode = latched] /\ restarting' = FALSE
        /\ toldMatch' = IF latched = match.mode THEN toldMatch ELSE None
        /\ UNCHANGED <<latched, late, botOps, pc, job, remembered, crossed,
                       toldLimits>>
    BY <1>3 DEF MapRestarts
  <2>2. match' \in Matches /\ match'.map = match.map /\ match'.mode = latched
        /\ match'.limits = match.limits
    BY <2>1 DEF IInv, TypeOK, Matches
  <2>3. TypeOK'
    BY <2>1, <2>2 DEF IInv, TypeOK
  <2>4. MatchHeld'
    BY <2>1, <2>2 DEF IInv, MatchHeld, Quiet
  <2>5. LimitsHeld' /\ \A r \in Requests : ModeHeld(r)'
    BY <2>1, <2>2 DEF IInv, LimitsHeld, ModeHeld, Quiet
  <2>. QED  BY <1>2, <2>3, <2>4, <2>5 DEF IInv
<1>4. CASE MatchEnds
  <2>1. PICK e \in Entries : match' = e /\ latched' = e.mode
    BY <1>4 DEF MatchEnds
  <2>2. match' \in Matches /\ latched' \in Modes
    BY <2>1, MatchAssumption DEF Matches
  <2>3. /\ crossed' = [r \in Requests |-> crossed[r] \/ r \in Loading]
        /\ restarting' = FALSE /\ toldMatch' = None /\ toldLimits' = None
        /\ UNCHANGED remembered
    BY <1>4 DEF MatchEnds
  <2>4. crossed' \in [Requests -> BOOLEAN]
    BY <2>3
  <2>5. TypeOK'
    BY <1>1, <2>2, <2>3, <2>4 DEF IInv, TypeOK
  <2>6. MatchHeld' /\ LimitsHeld'
    BY <2>3 DEF MatchHeld, LimitsHeld
  <2>7. ASSUME NEW r \in Requests, pc[r] = "map" PROVE crossed'[r]
    <3>1. r \in Loading
      BY <2>7, JobKinds DEF IInv, StepsOK, Loading
    <3>. QED  BY <2>3, <3>1
  <2>8. \A r \in Requests : ModeHeld(r)'
    BY <1>1, <2>7 DEF ModeHeld
  <2>. QED  BY <1>2, <2>5, <2>6, <2>8 DEF IInv
<1>5. CASE GrowsOld
  <2>1. remembered' = None /\ UNCHANGED <<match, latched, restarting, late, botOps,
                                         pc, job, crossed, toldMatch, toldLimits>>
    BY <1>5 DEF GrowsOld, engine, history
  <2>2. TypeOK'
    BY <2>1 DEF IInv, TypeOK
  <2>3. MatchHeld' /\ LimitsHeld' /\ \A r \in Requests : ModeHeld(r)'
    BY <2>1 DEF IInv, MatchHeld, LimitsHeld, ModeHeld, Quiet
  <2>. QED  BY <1>2, <2>2, <2>3 DEF IInv
<1>. QED  BY <1>3, <1>4, <1>5

LEMMA RestartIInv == ASSUME IInv, Restart PROVE IInv'
<1>1. /\ botOps' = FALSE /\ remembered' = None
      /\ pc' = [r \in Requests |-> "idle"] /\ job' = [r \in Requests |-> NoJob]
      /\ crossed' = [r \in Requests |-> FALSE]
      /\ UNCHANGED <<match, latched, restarting, late, toldMatch, toldLimits>>
  BY DEF Restart, engine
<1>2. TypeOK'
  <2>1. pc' \in [Requests -> Steps]
    BY <1>1 DEF Steps
  <2>2. job' \in [Requests -> Loads \cup LimitJobs \cup Readings \cup {NoJob}]
    BY <1>1
  <2>3. botOps' <=> \E r \in Requests : job'[r].kind = "limits"
    BY <1>1, JobKinds
  <2>. QED  BY <1>1, <2>1, <2>2, <2>3 DEF IInv, TypeOK
<1>3. StepsOK' /\ OneSetsLimits'
  BY <1>1, JobKinds DEF StepsOK, OneSetsLimits
<1>4. MatchHeld' /\ LimitsHeld' /\ \A r \in Requests : ModeHeld(r)'
  BY <1>1 DEF IInv, MatchHeld, LimitsHeld, ModeHeld, Quiet
<1>. QED  BY <1>2, <1>3, <1>4 DEF IInv

LEMMA NextIInv == IInv /\ [Next]_vars => IInv'
<1> SUFFICES ASSUME IInv, [Next]_vars PROVE IInv'
  OBVIOUS
<1>1. CASE UNCHANGED vars
  <2>1. UNCHANGED <<match, latched, restarting, late, botOps, pc, job, remembered,
                    crossed, toldMatch, toldLimits>>
    BY <1>1 DEF vars, engine, history
  <2>. QED  BY <2>1 DEF IInv, TypeOK, StepsOK, OneSetsLimits, MatchHeld,
                        LimitsHeld, ModeHeld, Quiet
<1>2. ASSUME NEW r \in Requests, LookedAtMatch(r) PROVE IInv'
  <2>1. \/ Leave(r)
        \/ Goto(r, "look") /\ job' = [job EXCEPT ![r].seen = None]
    BY <1>2 DEF LookedAtMatch
  <2>. QED  BY <1>2, <2>1, EndIInv, AgainIInv
<1>. QED  BY <1>1, <1>2, BeginIInv, SendModeIInv, SendMapIInv, LookIInv, EndIInv,
             SendLimitIInv, SendRestartIInv, LateIInv, WorldIInv, RestartIInv
          DEF Next

\* The inductive invariant of LiveMatch.
THEOREM Invariance == Spec => []IInv
BY InitIInv, NextIInv, PTL DEF Spec

-----------------------------------------------------------------------------
(* What it gives.                                                          *)

\* The types, and the token is out exactly while limits are set.
THEOREM TypeCorrect == Spec => []TypeOK
<1>1. IInv => TypeOK
  BY DEF IInv
<1>. QED  BY <1>1, Invariance, PTL

\* Nothing given up before undoes what was confirmed.
THEOREM ConfirmedStays == Spec => []ConfirmedHolds
<1>1. IInv => ConfirmedHolds
  BY DEF IInv, MatchHeld, LimitsHeld, ConfirmedHolds
<1>. QED  BY <1>1, Invariance, PTL

\* A load nobody crossed puts its map on in its mode.
THEOREM LoadsPair == Spec => LoadsItsPair
<1> DEFINE A == \A r \in Requests :
                  SendMap(r) /\ pc'[r] = "look" /\ ~crossed[r] =>
                     match'.map = job[r].want.map /\ match'.mode = job[r].want.mode
<1>1. ASSUME IInv, NEW r \in Requests, SendMap(r), pc'[r] = "look", ~crossed[r]
      PROVE  match'.map = job[r].want.map /\ match'.mode = job[r].want.mode
  <2> DEFINE c == LoadMap(job[r].want.map)
  <2>1. pc[r] = "map" /\ job[r] \in Loads
    BY <1>1 DEF SendMap, IInv, StepsOK
  <2>2. latched = job[r].want.mode
    BY <1>1, <2>1 DEF IInv, ModeHeld
  <2>3. ~Leave(r)
    BY <1>1 DEF Leave, Goto, IInv, TypeOK
  <2>4. Execute(c)
    BY <1>1, <2>3 DEF SendMap, Accepted, Executed
  <2>5. job[r].want.map \in Maps
    BY <2>1, JobKinds, MatchAssumption DEF Pairs
  <2>6. c.cmd = "map" /\ c.map = job[r].want.map /\ RestartMap.cmd # "map"
    BY <2>5, CommandKinds
  <2> HIDE DEF c
  <2>7. match' = [match EXCEPT !.map = c.map, !.mode = latched]
    BY <2>4, <2>6 DEF Execute
  <2>8. match \in Matches
    BY <1>1 DEF IInv, TypeOK
  <2>. QED  BY <2>2, <2>6, <2>7, <2>8 DEF Matches
<1>2. IInv /\ [Next]_vars => A
  BY <1>1
<1>3. LoadsItsPair <=> [][A]_vars
  BY PTL DEF LoadsItsPair
<1>. QED  BY <1>2, <1>3, Invariance, PTL DEF Spec
=============================================================================
