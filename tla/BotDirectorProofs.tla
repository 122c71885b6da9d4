-------------------------- MODULE BotDirectorProofs --------------------------
(***************************************************************************)
(* Proofs about BotDirector, for any number of requests, slots, bots and   *)
(* policies and any bound on the buffered datagrams.                       *)
(***************************************************************************)
EXTENDS BotDirector, FiniteSetTheorems, SequenceTheorems, TLAPS

-----------------------------------------------------------------------------
(* Types.                                                                  *)

\* rebuildBots slices only policies validatePolicy accepted: the plan of one
\* is a sequence of bots, perTeam for each team.
LEMMA PlanType ==
    ASSUME NEW p \in ValidPolicies
    PROVE  Plan(p) \in Seq(Bots) /\ Len(Plan(p)) = 2 * p.perTeam
<1>1. p \in PolicyRecords /\ ValidPolicy(p)
  BY PolicyAssumption DEF ValidPolicies
<1>2. p.perTeam \in Nat
  BY <1>1 DEF ValidPolicy, PolicyRecords
<1>3. p.perTeam <= Len(p.friendly) /\ p.perTeam <= Len(p.opponent)
  BY <1>1 DEF ValidPolicy
<1>4. p.friendly \in Seq(BotNames) /\ p.opponent \in Seq(BotNames)
  BY <1>1 DEF PolicyRecords
<1>5. p.humanTeam \in Teams /\ OtherTeam(p.humanTeam) \in Teams
  BY <1>1 DEF ValidPolicy, OtherTeam, Teams
<1>6. ASSUME NEW i \in 1 .. 2 * p.perTeam
      PROVE  Plan(p)[i] \in Bots
  <2>1. CASE i <= p.perTeam
    <3>1. p.friendly[i] \in BotNames
      BY <1>2, <1>3, <1>4, <2>1
    <3>. QED  BY <3>1, <2>1, <1>5 DEF Plan, Bots
  <2>2. CASE ~(i <= p.perTeam)
    <3>1. p.opponent[i - p.perTeam] \in BotNames
      BY <1>2, <1>3, <1>4, <2>2
    <3>. QED  BY <3>1, <2>2, <1>5 DEF Plan, Bots
  <2>. QED  BY <2>1, <2>2
<1>7. DOMAIN Plan(p) = 1 .. 2 * p.perTeam
  BY DEF Plan
<1>8. Plan(p) = [i \in 1 .. 2 * p.perTeam |-> Plan(p)[i]]
  BY DEF Plan
<1>9. 2 * p.perTeam \in Nat
  BY <1>2
<1>10. Plan(p) \in [1 .. 2 * p.perTeam -> Bots]
  BY <1>6, <1>8
<1>11. Plan(p) \in Seq(Bots)
  BY <1>9, <1>10, SeqDef
<1>. QED  BY <1>7, <1>9, <1>11

LEMMA NoJobType == NoJob \in JobRecords
<1>1. DefaultPolicy \in ValidPolicies
  BY PolicyAssumption DEF ValidPolicies
<1>. QED  BY <1>1 DEF NoJob, JobRecords, Ops, Attempts

LEMMA CommandType ==
    /\ StopAutoFill \in Commands
    /\ KickBots \in Commands
    /\ \A b \in Bots : AddBot(b) \in Commands
BY DEF Commands

\* The engine's state after a command is an engine state.
LEMMA ExecuteType ==
    ASSUME TypeOK, NEW c, Execute(c)
    PROVE  /\ roster' \in [Slots -> {Free, Human} \cup Bots]
           /\ autofill' \in BOOLEAN
<1>1. CASE c = StopAutoFill /\ autofill' = FALSE /\ UNCHANGED roster
  BY <1>1 DEF TypeOK
<1>2. CASE /\ roster' = [s \in Slots |-> IF s \in BotSlots THEN Free ELSE roster[s]]
           /\ UNCHANGED autofill
  BY <1>2 DEF TypeOK
<1>3. ASSUME NEW b \in Bots, NEW s \in Slots,
             roster' = [roster EXCEPT ![s] = b], UNCHANGED autofill
      PROVE  /\ roster' \in [Slots -> {Free, Human} \cup Bots]
             /\ autofill' \in BOOLEAN
  BY <1>3 DEF TypeOK
<1>4. CASE UNCHANGED <<roster, autofill>>
  BY <1>4 DEF TypeOK
<1>. QED  BY <1>1, <1>2, <1>3, <1>4 DEF Execute

EngineTypeOK ==
    /\ roster \in [Slots -> {Free, Human} \cup Bots]
    /\ autofill \in BOOLEAN
    /\ late \in Seq(Commands)

LEMMA SentType ==
    ASSUME TypeOK, NEW c \in Commands, Sent(c)
    PROVE  EngineTypeOK'
<1>1. CASE Executed(c)
  BY <1>1, ExecuteType DEF Executed, TypeOK, EngineTypeOK
<1>2. CASE Lost
  BY <1>2 DEF Lost, engine, TypeOK, EngineTypeOK
<1>3. CASE Delayed(c)
  BY <1>3 DEF Delayed, TypeOK, EngineTypeOK
<1>. QED  BY <1>1, <1>2, <1>3 DEF Sent

LEMMA GotoType ==
    ASSUME TypeOK, NEW r \in Requests, NEW step \in Steps, Goto(r, step)
    PROVE  pc' \in [Requests -> Steps]
BY DEF TypeOK, Goto

LEMMA LeaveType ==
    ASSUME TypeOK, NEW r \in Requests, Leave(r)
    PROVE  pc' \in [Requests -> Steps] /\ job' \in [Requests -> JobRecords]
BY NoJobType DEF TypeOK, Leave, Goto, Steps

LEMMA FailType ==
    ASSUME TypeOK, NEW r \in Requests, Fail(r)
    PROVE  /\ pc' \in [Requests -> Steps]
           /\ job' \in [Requests -> JobRecords]
           /\ botOps' \in BOOLEAN
<1>1. CASE Finish(r)
  BY <1>1, LeaveType DEF Finish
<1>2. CASE Goto(r, "sweep") /\ UNCHANGED <<job, botOps>>
  BY <1>2, GotoType DEF TypeOK, Steps, Holding
<1>. QED  BY <1>1, <1>2 DEF Fail

\* A handler's own steps keep the types, whatever request it serves.
LEMMA StepType ==
    ASSUME TypeOK, NEW r \in Requests, LocalsFor(r), Step(r)
    PROVE  TypeOK'
<1> USE DEF TypeOK
<1>a. \A step \in Steps : Goto(r, step) => pc' \in [Requests -> Steps]
  BY GotoType
<1>b. Leave(r) => /\ pc' \in [Requests -> Steps]
                  /\ job' \in [Requests -> JobRecords]
  BY LeaveType
<1>c. Holding \subseteq Steps
  BY DEF Steps
<1>1. CASE Begin(r)
  <2>1. "mode" \in Steps
    BY <1>c DEF Holding
  <2>. QED  BY <1>1, <1>a, <1>b, <2>1 DEF Begin, TakeToken, engine
<1>2. CASE DetermineMode(r)
  <2>1. "read" \in Steps /\ "minplayers" \in Steps
    BY <1>c DEF Holding
  <2>. QED  BY <1>2, <1>a, <1>b, <2>1 DEF DetermineMode, Finish, engine
<1>3. CASE DisableAutoFill(r)
  <2>1. "kickbots" \in Steps
    BY <1>c DEF Holding
  <2>2. EngineTypeOK'
    BY <1>3, SentType, CommandType DEF DisableAutoFill, Lost, engine, EngineTypeOK
  <2>. QED  BY <1>3, <1>a, <1>b, <2>1, <2>2
            DEF DisableAutoFill, Finish, EngineTypeOK
<1>4. CASE RemoveBots(r)
  <2>1. "emptied" \in Steps
    BY <1>c DEF Holding
  <2>2. EngineTypeOK'
    BY <1>4, SentType, CommandType DEF RemoveBots, Lost, engine, EngineTypeOK
  <2>. QED  BY <1>4, <1>a, <1>b, <2>1, <2>2
            DEF RemoveBots, Finish, EngineTypeOK
<1>5. CASE ConfirmEmpty(r)
  <2>1. "final" \in Steps /\ "addbot" \in Steps
    BY <1>c DEF Holding
  <2>. QED  BY <1>5, <1>a, <1>b, <2>1 DEF ConfirmEmpty, Finish, engine
<1>6. CASE ReadRoster(r)
  <2>1. "addbot" \in Steps
    BY <1>c DEF Holding
  <2>2. Cardinality(BotSlots) \in Nat
    BY FS_CardinalityType, FS_Subset, SlotAssumption DEF BotSlots
  <2>3. NamesPresent \in SUBSET BotNames
    BY DEF NamesPresent, BotSlots, Bots
  <2>4. [job[r] EXCEPT !.had = Cardinality(BotSlots), !.seen = NamesPresent]
            \in JobRecords
    BY <2>2, <2>3 DEF JobRecords
  <2>5. CASE Finish(r)
    BY <1>6, <2>5, <1>b DEF ReadRoster, Finish, engine
  <2>6. CASE ~Finish(r)
    <3>1. job' = [job EXCEPT ![r] =
              [job[r] EXCEPT !.had = Cardinality(BotSlots),
                             !.seen = NamesPresent]]
      BY <1>6, <2>6 DEF ReadRoster
    <3>2. job' \in [Requests -> JobRecords]
      BY <3>1, <2>4
    <3>. QED  BY <1>6, <2>6, <3>2, <2>1, <1>a DEF ReadRoster, engine
  <2>. QED  BY <2>5, <2>6
<1>7. CASE SendAddBot(r)
  <2> DEFINE b == job[r].plan[job[r].got + 1]
  <2>1. job[r] \in JobRecords /\ job[r].got < Len(job[r].plan)
        /\ job[r].try < Attempts
    BY <1>7 DEF SendAddBot, LocalsFor
  <2>2. b \in Bots
    BY <2>1 DEF JobRecords
  <2>3. EngineTypeOK'
    BY <1>7, <2>2, SentType, CommandType
       DEF SendAddBot, Lost, engine, EngineTypeOK
  <2>4. [job[r] EXCEPT !.try = @ + 1] \in JobRecords
    <3>1. job[r].try + 1 \in 0 .. Attempts
      BY <2>1 DEF JobRecords, Attempts
    <3>. QED  BY <2>1, <3>1 DEF JobRecords
  <2>5. "confirm" \in Steps
    BY <1>c DEF Holding
  <2>6. CASE Lost /\ Fail(r)
    BY <1>7, <2>6, <2>3, FailType DEF SendAddBot, EngineTypeOK
  <2>7. CASE ~(Lost /\ Fail(r))
    <3>1. /\ job' = [job EXCEPT ![r] = [job[r] EXCEPT !.try = @ + 1]]
          /\ Goto(r, "confirm")
          /\ UNCHANGED <<policy, disk, botOps>>
      BY <1>7, <2>7 DEF SendAddBot
    <3>2. job' \in [Requests -> JobRecords]
      BY <3>1, <2>4
    <3>. QED  BY <3>1, <3>2, <2>3, <2>5, <1>a DEF EngineTypeOK
  <2>. QED  BY <2>6, <2>7
<1>8. CASE ConfirmAdded(r)
  <2>1. job[r] \in JobRecords
    OBVIOUS
  <2>2. [job[r] EXCEPT !.got = job[r].got + 1, !.try = 0] \in JobRecords
    <3>1. job[r].got + 1 \in Nat /\ 0 \in 0 .. Attempts
      BY <2>1 DEF JobRecords, Attempts
    <3>. QED  BY <2>1, <3>1 DEF JobRecords
  <2>3. {"addbot", "reread", "final"} \subseteq Steps
    BY <1>c DEF Holding
  <2>4. CASE Fail(r)
    BY <1>8, <2>4, FailType DEF ConfirmAdded, engine
  <2>5. CASE Goto(r, "addbot") /\ UNCHANGED <<job, botOps>>
    BY <1>8, <2>5, <2>3, <1>a DEF ConfirmAdded, engine
  <2>6. CASE ~Fail(r) /\ ~(Goto(r, "addbot") /\ UNCHANGED <<job, botOps>>)
    <3>1. job' = [job EXCEPT ![r] =
              [job[r] EXCEPT !.got = job[r].got + 1, !.try = 0]]
      BY <1>8, <2>6 DEF ConfirmAdded
    <3>2. job' \in [Requests -> JobRecords]
      BY <3>1, <2>2
    <3>3. \E step \in Steps : Goto(r, step)
      BY <1>8, <2>6, <2>3 DEF ConfirmAdded
    <3>. QED  BY <1>8, <2>6, <3>2, <3>3, <1>a DEF ConfirmAdded, engine
  <2>. QED  BY <2>4, <2>5, <2>6
<1>9. CASE ConfirmFinal(r)
  <2>1. "save" \in Steps
    BY <1>c DEF Holding
  <2>. QED  BY <1>9, <2>1, <1>a, <1>b, FailType
            DEF ConfirmFinal, Finish, engine
<1>10. CASE RereadRoster(r)
  BY <1>10, <1>b DEF RereadRoster, Finish, engine
<1>11. CASE SavePolicy(r)
  BY <1>11, <1>b DEF SavePolicy, Finish, engine, JobRecords
<1>12. CASE Sweep(r)
  <2>1. "swept" \in Steps
    BY <1>c DEF Holding
  <2>2. EngineTypeOK'
    BY <1>12, SentType, CommandType DEF Sweep
  <2>. QED  BY <1>12, <1>a, <2>1, <2>2 DEF Sweep, EngineTypeOK
<1>13. CASE SweepWait(r)
  BY <1>13, <1>b DEF SweepWait, Finish, engine
<1>. QED  BY <1>1, <1>2, <1>3, <1>4, <1>5, <1>6, <1>7, <1>8, <1>9, <1>10,
             <1>11, <1>12, <1>13 DEF Step

\* A request that is taken in keeps the types.
LEMMA SubmitType ==
    ASSUME TypeOK, NEW r \in Requests,
           PutPolicy(r) \/ Reconcile(r) \/ AddOneBot(r)
    PROVE  TypeOK'
<1> USE DEF TypeOK
<1>1. \A step \in Steps : Goto(r, step) => pc' \in [Requests -> Steps]
  BY GotoType
<1>2. "mode" \in Steps /\ "begin" \in Steps
  BY DEF Steps, Holding
<1>3. ASSUME NEW p \in ValidPolicies, NEW op \in Ops
      PROVE  [NoJob EXCEPT !.op = op, !.pol = p, !.plan = Plan(p)]
                 \in JobRecords
  <2>1. Plan(p) \in Seq(Bots)
    BY PlanType
  <2>. QED  BY <1>3, <2>1, NoJobType DEF JobRecords
<1>4. ASSUME NEW b \in Bots
      PROVE  [NoJob EXCEPT !.op = "add", !.plan = <<b>>] \in JobRecords
  <2>1. <<b>> \in Seq(Bots) /\ "add" \in Ops
    BY <1>4 DEF Ops
  <2>. QED  BY <2>1, NoJobType DEF JobRecords
<1>5. CASE PutPolicy(r)
  <2>1. PICK p \in ValidPolicies :
            job' = [job EXCEPT ![r] = [NoJob EXCEPT !.op = "put", !.pol = p,
                                                    !.plan = Plan(p)]]
    BY <1>5 DEF PutPolicy, ValidPolicies
  <2>2. job' \in [Requests -> JobRecords]
    BY <2>1, <1>3 DEF Ops
  <2>. QED  BY <1>5, <2>2, <1>1, <1>2 DEF PutPolicy, TakeToken, engine
<1>6. CASE Reconcile(r)
  <2>1. job' \in [Requests -> JobRecords]
    BY <1>6, <1>3 DEF Reconcile, Ops
  <2>. QED  BY <1>6, <2>1, <1>1, <1>2 DEF Reconcile, engine
<1>7. CASE AddOneBot(r)
  <2>1. job' \in [Requests -> JobRecords]
    BY <1>7, <1>4 DEF AddOneBot
  <2>. QED  BY <1>7, <2>1, <1>1, <1>2 DEF AddOneBot, engine
<1>. QED  BY <1>5, <1>6, <1>7

\* So does everything that is not a step of a handler.
World == ExecuteLate \/ Kick \/ HumanJoins \/ HumanLeaves \/ AutoFill

LEMMA WorldType ==
    ASSUME TypeOK, World \/ Restart
    PROVE  TypeOK'
<1> USE DEF TypeOK
<1>1. CASE ExecuteLate
  <2>1. Tail(late) \in Seq(Commands)
    BY <1>1 DEF ExecuteLate
  <2>. QED  BY <1>1, <2>1, ExecuteType DEF ExecuteLate
<1>2. CASE Kick
  BY <1>2 DEF Kick
<1>3. CASE HumanJoins
  BY <1>3 DEF HumanJoins
<1>4. CASE HumanLeaves
  BY <1>4 DEF HumanLeaves
<1>5. CASE AutoFill
  BY <1>5, SlotAssumption DEF AutoFill
<1>6. CASE Restart
  BY <1>6, NoJobType DEF Restart, Steps, engine
<1>. QED  BY <1>1, <1>2, <1>3, <1>4, <1>5, <1>6 DEF World

-----------------------------------------------------------------------------
(* The token.                                                              *)

\* A handler's step touches no other handler's place or locals.
Frame(r) ==
    \A q \in Requests \ {r} : pc'[q] = pc[q] /\ job'[q] = job[q]

\* What a step of a handler does with the token.
TokenMove(r) ==
    \/ pc[r] = "begin" /\ pc'[r] = "mode" /\ ~botOps /\ botOps'
       /\ UNCHANGED engine
    \/ pc[r] = "begin" /\ pc'[r] = "idle" /\ UNCHANGED <<botOps, engine>>
    \/ pc[r] \in Holding /\ pc'[r] \in Holding /\ UNCHANGED botOps
    \/ pc[r] \in Holding /\ pc'[r] = "idle" /\ ~botOps'

LEMMA StepFrame ==
    ASSUME TypeOK, NEW r \in Requests, Step(r)
    PROVE  Frame(r)
<1> USE DEF TypeOK, Frame, Goto
<1>1. Leave(r) => Frame(r)
  BY DEF Leave
<1>2. Fail(r) => Frame(r)
  BY <1>1 DEF Fail, Finish
<1>3. CASE Begin(r) \/ DetermineMode(r) \/ DisableAutoFill(r) \/ RemoveBots(r)
           \/ ConfirmEmpty(r)
  BY <1>1, <1>3 DEF Begin, DetermineMode, DisableAutoFill, RemoveBots,
                    ConfirmEmpty, Finish
<1>4. CASE ReadRoster(r) \/ SendAddBot(r) \/ ConfirmAdded(r)
  BY <1>1, <1>2, <1>4 DEF ReadRoster, SendAddBot, ConfirmAdded, Finish
<1>5. CASE ConfirmFinal(r) \/ RereadRoster(r) \/ SavePolicy(r) \/ Sweep(r)
           \/ SweepWait(r)
  BY <1>1, <1>2, <1>5 DEF ConfirmFinal, RereadRoster, SavePolicy, Sweep,
                          SweepWait, Finish
<1>. QED  BY <1>3, <1>4, <1>5 DEF Step

LEMMA StepToken ==
    ASSUME TypeOK, NEW r \in Requests, Step(r)
    PROVE  TokenMove(r)
<1> USE DEF TypeOK, TokenMove
<1>1. \A step : Goto(r, step) => pc'[r] = step
  BY DEF Goto
<1>2. Leave(r) => pc'[r] = "idle"
  BY <1>1 DEF Leave
<1>3. Finish(r) => pc'[r] = "idle" /\ ~botOps'
  BY <1>2 DEF Finish
<1>4. Fail(r) => \/ pc'[r] = "idle" /\ ~botOps'
                 \/ pc'[r] \in Holding /\ UNCHANGED botOps
  BY <1>1, <1>3 DEF Fail, Holding
<1>5. CASE Begin(r)
  BY <1>5, <1>1, <1>2 DEF Begin, TakeToken
<1>6. CASE DetermineMode(r) \/ DisableAutoFill(r) \/ RemoveBots(r)
           \/ ConfirmEmpty(r) \/ ReadRoster(r)
  BY <1>6, <1>1, <1>3
     DEF DetermineMode, DisableAutoFill, RemoveBots, ConfirmEmpty, ReadRoster,
         Holding
<1>7. CASE SendAddBot(r)
  BY <1>7, <1>1, <1>4 DEF SendAddBot, Holding
<1>8. CASE ConfirmAdded(r)
  BY <1>8, <1>1, <1>4 DEF ConfirmAdded, Holding
<1>9. CASE ConfirmFinal(r)
  BY <1>9, <1>1, <1>3, <1>4 DEF ConfirmFinal, Holding
<1>10. CASE RereadRoster(r) \/ SavePolicy(r) \/ Sweep(r) \/ SweepWait(r)
  BY <1>10, <1>1, <1>3 DEF RereadRoster, SavePolicy, Sweep, SweepWait, Holding
<1>. QED  BY <1>5, <1>6, <1>7, <1>8, <1>9, <1>10 DEF Step

\* A request that is taken in has the token, or has not asked for it yet.
LEMMA SubmitToken ==
    ASSUME TypeOK, NEW r \in Requests,
           PutPolicy(r) \/ Reconcile(r) \/ AddOneBot(r)
    PROVE  /\ Frame(r)
           /\ pc[r] = "idle"
           /\ UNCHANGED engine
           /\ \/ pc'[r] = "mode" /\ ~botOps /\ botOps'
              \/ pc'[r] = "begin" /\ UNCHANGED botOps
BY DEF TypeOK, Frame, Goto, PutPolicy, Reconcile, AddOneBot, TakeToken

LEMMA TokenStep ==
    ASSUME TypeOK, OneBotOperation, [Next]_vars
    PROVE  OneBotOperation'
<1>1. CASE World \/ UNCHANGED vars
  BY <1>1 DEF World, ExecuteLate, Kick, HumanJoins, HumanLeaves, AutoFill,
              vars, OneBotOperation
<1>2. CASE Restart
  BY <1>2 DEF Restart, OneBotOperation, Holding
<1>3. ASSUME NEW r \in Requests, Step(r)
      PROVE  OneBotOperation'
  <2>1. TokenMove(r) /\ Frame(r)
    BY <1>3, StepToken, StepFrame
  <2>2. "mode" \in Holding /\ "idle" \notin Holding /\ "begin" \notin Holding
    BY DEF Holding
  <2>3. CASE pc[r] = "begin" /\ pc'[r] = "mode" /\ ~botOps /\ botOps'
    BY <2>1, <2>2, <2>3, Zenon DEF OneBotOperation, Frame
  <2>4. CASE pc[r] = "begin" /\ pc'[r] = "idle" /\ UNCHANGED botOps
    BY <2>1, <2>2, <2>4, Zenon DEF OneBotOperation, Frame
  <2>5. CASE pc[r] \in Holding /\ pc'[r] \in Holding /\ UNCHANGED botOps
    BY <2>1, <2>2, <2>5, Zenon DEF OneBotOperation, Frame
  <2>6. CASE pc[r] \in Holding /\ pc'[r] = "idle" /\ ~botOps'
    BY <2>1, <2>2, <2>6, Zenon DEF OneBotOperation, Frame
  <2>. QED  BY <2>1, <2>3, <2>4, <2>5, <2>6 DEF TokenMove
<1>4. ASSUME NEW r \in Requests,
             PutPolicy(r) \/ Reconcile(r) \/ AddOneBot(r)
      PROVE  OneBotOperation'
  <2>1. "mode" \in Holding /\ "idle" \notin Holding /\ "begin" \notin Holding
    BY DEF Holding
  <2>. QED  BY <1>4, <2>1, SubmitToken, Zenon DEF OneBotOperation, Frame
<1>. QED  BY <1>1, <1>2, <1>3, <1>4 DEF Next, World

-----------------------------------------------------------------------------
(* The locals.                                                             *)

LEMMA LeaveLocals ==
    ASSUME TypeOK, NEW r \in Requests, Leave(r)
    PROVE  LocalsFor(r)'
BY DEF TypeOK, Leave, Goto, LocalsFor, NoJob

LEMMA FailLocals ==
    ASSUME TypeOK, NEW r \in Requests, LocalsFor(r), pc[r] # "idle", Fail(r)
    PROVE  LocalsFor(r)'
<1>1. CASE Finish(r)
  BY <1>1, LeaveLocals DEF Finish
<1>2. CASE job[r].op # "add" /\ Goto(r, "sweep") /\ UNCHANGED job
  BY <1>2 DEF TypeOK, Goto, LocalsFor
<1>. QED  BY <1>1, <1>2 DEF Fail

LEMMA StepLocals ==
    ASSUME TypeOK, NEW r \in Requests, LocalsFor(r), Step(r)
    PROVE  LocalsFor(r)'
<1> USE DEF TypeOK
<1>a. job[r] \in JobRecords
  OBVIOUS
<1>b. \A step : Goto(r, step) => pc'[r] = step
  BY DEF Goto
<1>c. Leave(r) => LocalsFor(r)'
  BY LeaveLocals
<1>1. CASE Begin(r)
  BY <1>1, <1>b, <1>c DEF Begin, LocalsFor
<1>2. CASE DetermineMode(r)
  BY <1>2, <1>b, <1>c DEF DetermineMode, Finish, LocalsFor
<1>3. CASE DisableAutoFill(r) \/ RemoveBots(r)
  BY <1>3, <1>b, <1>c DEF DisableAutoFill, RemoveBots, Finish, LocalsFor
<1>4. CASE ConfirmEmpty(r)
  <2>1. CASE Finish(r)
    BY <2>1, <1>c DEF Finish
  <2>2. CASE ~Finish(r)
    <3>1. /\ pc[r] = "emptied"
          /\ pc'[r] = IF job[r].plan = <<>> THEN "final" ELSE "addbot"
          /\ job' = job
      BY <1>4, <2>2, <1>b DEF ConfirmEmpty
    <3>2. job[r].plan \in Seq(Bots)
      BY <1>a DEF JobRecords
    <3>3. job[r].plan = <<>> => Len(job[r].plan) = 0
      BY <3>2
    <3>4. job[r].plan # <<>> => 0 < Len(job[r].plan)
      BY <3>2
    <3>. QED  BY <3>1, <3>3, <3>4 DEF LocalsFor, Attempts
  <2>. QED  BY <2>1, <2>2
<1>5. CASE ReadRoster(r)
  <2>1. CASE Finish(r)
    BY <2>1, <1>c DEF Finish
  <2>2. CASE ~Finish(r)
    <3>1. /\ pc[r] = "read"
          /\ pc'[r] = "addbot"
          /\ job'[r] = [job[r] EXCEPT !.had = Cardinality(BotSlots),
                                      !.seen = NamesPresent]
      BY <1>5, <2>2, <1>b DEF ReadRoster
    <3>2. /\ job'[r].op = job[r].op /\ job'[r].plan = job[r].plan
          /\ job'[r].got = job[r].got /\ job'[r].try = job[r].try
      BY <3>1, <1>a DEF JobRecords
    <3>3. /\ job[r].op = "add" /\ Len(job[r].plan) = 1
          /\ job[r].got = 0 /\ job[r].try = 0
      BY <3>1 DEF LocalsFor
    <3>4. pc'[r] = "addbot"
      BY <3>1
    <3>. QED  BY <3>2, <3>3, <3>4 DEF LocalsFor, Attempts
  <2>. QED  BY <2>1, <2>2
<1>6. CASE SendAddBot(r)
  <2>1. CASE Fail(r)
    BY <1>6, <2>1, FailLocals DEF SendAddBot
  <2>2. CASE ~Fail(r)
    <3>1. /\ pc[r] = "addbot"
          /\ pc'[r] = "confirm"
          /\ job'[r] = [job[r] EXCEPT !.try = @ + 1]
      BY <1>6, <2>2, <1>b DEF SendAddBot
    <3>2. job[r].try \in Nat
      BY <1>a DEF JobRecords, Attempts
    <3>3. /\ job'[r].op = job[r].op /\ job'[r].plan = job[r].plan
          /\ job'[r].had = job[r].had /\ job'[r].seen = job[r].seen
          /\ job'[r].got = job[r].got /\ job'[r].try > 0
      BY <3>1, <3>2, <1>a DEF JobRecords
    <3>. QED  BY <3>1, <3>3 DEF LocalsFor
  <2>. QED  BY <2>1, <2>2
<1>7. CASE ConfirmAdded(r)
  <2>1. CASE Fail(r)
    BY <1>7, <2>1, FailLocals DEF ConfirmAdded
  <2>2. CASE /\ pc[r] = "confirm"
             /\ MayRetry(r)
             /\ Goto(r, "addbot")
             /\ UNCHANGED job
    BY <2>2, <1>b DEF LocalsFor, MayRetry
  <2>3. CASE /\ pc[r] = "confirm"
             /\ job' = [job EXCEPT ![r].got = job[r].got + 1, ![r].try = 0]
             /\ Goto(r, IF job[r].got + 1 < Len(job[r].plan) THEN "addbot"
                        ELSE IF job[r].op = "add" THEN "reread"
                        ELSE "final")
    <3>1. job'[r] = [job[r] EXCEPT !.got = job[r].got + 1, !.try = 0]
      BY <2>3
    <3>2. /\ job'[r].op = job[r].op /\ job'[r].plan = job[r].plan
          /\ job'[r].had = job[r].had /\ job'[r].seen = job[r].seen
          /\ job'[r].got = job[r].got + 1 /\ job'[r].try = 0
      BY <3>1, <1>a DEF JobRecords
    <3>3. job[r].got \in Nat /\ Len(job[r].plan) \in Nat
          /\ job[r].got < Len(job[r].plan)
      BY <2>3, <1>a DEF JobRecords, LocalsFor
    <3>4. CASE job[r].got + 1 < Len(job[r].plan)
      <4>1. pc'[r] = "addbot"
        BY <2>3, <3>4, <1>b
      <4>. QED  BY <4>1, <3>2, <3>4, <2>3 DEF LocalsFor, Attempts
    <3>5. CASE ~(job[r].got + 1 < Len(job[r].plan)) /\ job[r].op = "add"
      <4>1. pc'[r] = "reread"
        BY <2>3, <3>5, <1>b
      <4>. QED  BY <4>1, <3>2, <3>5, <2>3 DEF LocalsFor
    <3>6. CASE ~(job[r].got + 1 < Len(job[r].plan)) /\ job[r].op # "add"
      <4>1. pc'[r] = "final"
        BY <2>3, <3>6, <1>b
      <4>. QED  BY <4>1, <3>2, <3>3, <3>6, <2>3 DEF LocalsFor
    <3>. QED  BY <3>4, <3>5, <3>6
  <2>. QED  BY <1>7, <2>1, <2>2, <2>3 DEF ConfirmAdded
<1>8. CASE ConfirmFinal(r)
  <2>1. CASE Fail(r)
    BY <1>8, <2>1, FailLocals DEF ConfirmFinal
  <2>2. CASE ~Fail(r)
    BY <1>8, <2>2, <1>b, <1>c DEF ConfirmFinal, Finish, LocalsFor
  <2>. QED  BY <2>1, <2>2
<1>9. CASE RereadRoster(r) \/ SavePolicy(r) \/ SweepWait(r)
  BY <1>9, <1>c DEF RereadRoster, SavePolicy, SweepWait, Finish
<1>10. CASE Sweep(r)
  BY <1>10, <1>b DEF Sweep, LocalsFor
<1>. QED  BY <1>1, <1>2, <1>3, <1>4, <1>5, <1>6, <1>7, <1>8, <1>9, <1>10
          DEF Step

LEMMA SubmitLocals ==
    ASSUME TypeOK, NEW r \in Requests,
           PutPolicy(r) \/ Reconcile(r) \/ AddOneBot(r)
    PROVE  LocalsFor(r)'
<1> USE DEF TypeOK, Goto
<1>1. CASE PutPolicy(r)
  BY <1>1 DEF PutPolicy, LocalsFor, NoJob
<1>2. CASE Reconcile(r)
  BY <1>2 DEF Reconcile, LocalsFor, NoJob
<1>3. CASE AddOneBot(r)
  <2>1. PICK b \in Bots :
            job'[r] = [NoJob EXCEPT !.op = "add", !.plan = <<b>>]
    BY <1>3 DEF AddOneBot
  <2>2. pc'[r] = "begin"
    BY <1>3 DEF AddOneBot
  <2>. QED  BY <2>1, <2>2 DEF LocalsFor, NoJob
<1>. QED  BY <1>1, <1>2, <1>3

LEMMA LocalsStep ==
    ASSUME TypeOK, LocalsOK, [Next]_vars
    PROVE  LocalsOK'
<1>1. CASE World \/ UNCHANGED vars
  BY <1>1 DEF World, ExecuteLate, Kick, HumanJoins, HumanLeaves, AutoFill,
              vars, LocalsOK, LocalsFor
<1>2. CASE Restart
  BY <1>2 DEF Restart, LocalsOK, LocalsFor, NoJob
<1>3. ASSUME NEW r \in Requests,
             Step(r) \/ PutPolicy(r) \/ Reconcile(r) \/ AddOneBot(r)
      PROVE  LocalsOK'
  <2>1. LocalsFor(r)'
    BY <1>3, StepLocals, SubmitLocals DEF LocalsOK
  <2>2. Frame(r)
    BY <1>3, StepFrame, SubmitToken
  <2>3. ASSUME NEW q \in Requests \ {r}
        PROVE  LocalsFor(q)'
    BY <2>2 DEF Frame, LocalsOK, LocalsFor
  <2>. QED  BY <2>1, <2>3 DEF LocalsOK
<1>. QED  BY <1>1, <1>2, <1>3 DEF Next, World

LEMMA TypeStep ==
    ASSUME TypeOK, LocalsOK, [Next]_vars
    PROVE  TypeOK'
<1>1. CASE UNCHANGED vars
  BY <1>1 DEF vars, TypeOK
<1>2. CASE World \/ Restart
  BY <1>2, WorldType
<1>3. ASSUME NEW r \in Requests, Step(r)
      PROVE  TypeOK'
  BY <1>3, StepType DEF LocalsOK
<1>4. ASSUME NEW r \in Requests,
             PutPolicy(r) \/ Reconcile(r) \/ AddOneBot(r)
      PROVE  TypeOK'
  BY <1>4, SubmitType
<1>. QED  BY <1>1, <1>2, <1>3, <1>4 DEF Next, World

-----------------------------------------------------------------------------
(* Whose bots are on the server.                                           *)

Owned(r) == OwnCommands(r) /\ OwnBots(r) /\ AddedIsOwn(r)

\* An executed addbot adds that bot or nothing.
LEMMA ExecuteAdds ==
    ASSUME TypeOK, NEW b \in Bots, Execute(AddBot(b))
    PROVE  /\ UNCHANGED autofill
           /\ \A s \in BotSlots' :
                 roster'[s] = b \/ (s \in BotSlots /\ roster'[s] = roster[s])
<1>1. AddBot(b) # StopAutoFill /\ AddBot(b) # KickBots
  BY DEF AddBot, StopAutoFill, KickBots
<1>2. \A c \in Bots : AddBot(b) = AddBot(c) => b = c
  BY DEF AddBot
<1>3. PICK c \in Bots :
        /\ AddBot(b) = AddBot(c)
        /\ \/ \E s \in Slots : roster' = [roster EXCEPT ![s] = c]
           \/ UNCHANGED roster
        /\ UNCHANGED autofill
  BY <1>1 DEF Execute
<1>4. b = c
  BY <1>2, <1>3
<1>. QED  BY <1>3, <1>4 DEF BotSlots, TypeOK

\* Nobody but the handler itself issues its commands: as long as its place and
\* locals stay, an engine that only loses bots, or executes what is buffered,
\* stays its own.
LEMMA WorldOwned ==
    ASSUME TypeOK, LocalsOK, NEW r \in Requests, Owned(r),
           World \/ UNCHANGED vars
    PROVE  Owned(r)'
<1>1. UNCHANGED <<pc, job>>
  BY DEF World, ExecuteLate, Kick, HumanJoins, HumanLeaves, AutoFill, vars
<1>2. CASE pc[r] \notin AfterClean
  BY <1>1, <1>2 DEF Owned, OwnCommands, OwnBots, AddedIsOwn, AfterClean
<1>3. CASE pc[r] \in AfterClean /\ ExecuteLate
  <2>1. PICK b \in Issued(r) : Head(late) = AddBot(b)
    BY <1>3 DEF Owned, OwnCommands, ExecuteLate, TypeOK
  <2>2. job[r] \in JobRecords
    BY DEF TypeOK
  <2>3. job[r].plan \in Seq(Bots)
    BY <2>2 DEF JobRecords
  <2>4. b \in Bots
    BY <2>3 DEF Issued
  <2>5. /\ UNCHANGED autofill
        /\ \A s \in BotSlots' :
              roster'[s] = b \/ (s \in BotSlots /\ roster'[s] = roster[s])
    BY <1>3, <2>1, <2>4, ExecuteAdds DEF ExecuteLate
  <2>6. OwnCommands(r)'
    BY <1>1, <1>3 DEF Owned, OwnCommands, ExecuteLate, TypeOK, Issued
  <2>7. OwnBots(r)'
    BY <1>1, <1>3, <2>1, <2>5 DEF Owned, OwnBots, Rebuilding, Issued
  <2>8. ASSUME job[r].op = "add"
        PROVE  b = job[r].plan[1]
    BY <2>1, <2>3, <2>8 DEF Issued, LocalsOK, LocalsFor
  <2>9. AddedIsOwn(r)'
    BY <1>1, <1>3, <2>5, <2>8 DEF Owned, AddedIsOwn
  <2>. QED  BY <2>6, <2>7, <2>9 DEF Owned
<1>4. CASE Kick \/ HumanJoins \/ HumanLeaves
  <2>1. \A s \in BotSlots' : s \in BotSlots /\ roster'[s] = roster[s]
    BY <1>4, SlotAssumption
       DEF Kick, HumanJoins, HumanLeaves, BotSlots, TypeOK
  <2>2. UNCHANGED <<autofill, late>>
    BY <1>4 DEF Kick, HumanJoins, HumanLeaves
  <2>. QED  BY <1>1, <2>1, <2>2
            DEF Owned, OwnCommands, OwnBots, AddedIsOwn, Rebuilding, Issued
<1>5. CASE AutoFill
  BY <1>1, <1>5 DEF AutoFill, Owned, OwnCommands, OwnBots, AddedIsOwn, Issued
<1>6. CASE UNCHANGED vars
  BY <1>6 DEF vars, Owned, OwnCommands, OwnBots, AddedIsOwn, Rebuilding,
              Issued, BotSlots
<1>. QED  BY <1>2, <1>3, <1>4, <1>5, <1>6 DEF World

\* Sending addbot, whatever becomes of the datagram.
LEMMA SentAdds ==
    ASSUME TypeOK, NEW b \in Bots, Sent(AddBot(b))
    PROVE  /\ UNCHANGED autofill
           /\ \A s \in BotSlots' :
                 roster'[s] = b \/ (s \in BotSlots /\ roster'[s] = roster[s])
           /\ \A i \in DOMAIN late' :
                 late'[i] = AddBot(b) \/ \E k \in DOMAIN late : late'[i] = late[k]
<1>1. CASE Executed(AddBot(b))
  BY <1>1, ExecuteAdds DEF Executed
<1>2. CASE Lost
  BY <1>2 DEF Lost, engine, BotSlots
<1>3. CASE Delayed(AddBot(b))
  <2>1. UNCHANGED <<roster, autofill>> /\ late' = Append(late, AddBot(b))
    BY <1>3 DEF Delayed
  <2>2. ASSUME NEW i \in DOMAIN late'
        PROVE  late'[i] = AddBot(b) \/ \E k \in DOMAIN late : late'[i] = late[k]
    BY <2>1 DEF TypeOK
  <2>. QED  BY <2>1, <2>2 DEF BotSlots
<1>. QED  BY <1>1, <1>2, <1>3 DEF Sent

\* The bots of an empty engine, and the expectations of an empty wait.
LEMMA ObservedEmpty ==
    ASSUME TypeOK, Observed(0, {})
    PROVE  BotSlots = {} /\ late = <<>>
<1>1. IsFiniteSet(BotSlots)
  BY FS_Subset, SlotAssumption DEF BotSlots
<1>. QED  BY <1>1, FS_EmptySet DEF Observed, StatusAnswered

\* Each step of a handler hands its successor an engine it owns.
LEMMA StepOwned ==
    ASSUME TypeOK, LocalsOK, NEW r \in Requests, Owned(r), Step(r)
    PROVE  Owned(r)'
<1>a. \A step : Goto(r, step) => pc'[r] = step
  BY DEF Goto, TypeOK
<1>b. pc'[r] \notin AfterClean => Owned(r)'
  BY DEF Owned, OwnCommands, OwnBots, AddedIsOwn, AfterClean
<1>c. Leave(r) \/ Finish(r) \/ Fail(r) => pc'[r] \notin AfterClean
  BY <1>a DEF Leave, Finish, Fail, AfterClean
<1>d. job[r] \in JobRecords /\ job[r].plan \in Seq(Bots)
  BY DEF TypeOK, JobRecords
<1>e. LocalsFor(r)
  BY DEF LocalsOK
<1>1. CASE Begin(r) \/ DetermineMode(r) \/ DisableAutoFill(r)
           \/ RemoveBots(r) \/ RereadRoster(r) \/ SavePolicy(r) \/ Sweep(r)
           \/ SweepWait(r)
  <2>1. pc'[r] \notin AfterClean
    BY <1>1, <1>a, <1>c
       DEF Begin, DetermineMode, DisableAutoFill, RemoveBots, RereadRoster,
           SavePolicy, Sweep, SweepWait, AfterClean
  <2>. QED  BY <2>1, <1>b
<1>2. CASE ConfirmEmpty(r)
  <2>1. CASE Finish(r)
    BY <2>1, <1>b, <1>c
  <2>2. CASE Observed(0, {}) /\ UNCHANGED job /\ UNCHANGED engine
    <3>1. BotSlots' = {} /\ late' = <<>>
      BY <2>2, ObservedEmpty DEF engine, BotSlots
    <3>. QED  BY <3>1 DEF Owned, OwnCommands, OwnBots, AddedIsOwn
  <2>. QED  BY <1>2, <2>1, <2>2 DEF ConfirmEmpty
<1>3. CASE ReadRoster(r)
  <2>1. CASE Finish(r)
    BY <2>1, <1>b, <1>c
  <2>2. CASE ~Finish(r)
    <3>1. /\ pc[r] = "read"
          /\ late = <<>>
          /\ job[r].plan[1].name \notin NamesPresent
          /\ job'[r] = [job[r] EXCEPT !.had = Cardinality(BotSlots),
                                      !.seen = NamesPresent]
          /\ UNCHANGED engine
      BY <1>3, <2>2 DEF ReadRoster, NotConnected, StatusAnswered, TypeOK
    <3>2. job'[r].op = job[r].op /\ job'[r].plan = job[r].plan
      BY <3>1, <1>d DEF JobRecords
    <3>3. job[r].op = "add"
      BY <3>1, <1>e DEF LocalsFor
    <3>4. late' = <<>> /\ BotSlots' = BotSlots /\ roster' = roster
      BY <3>1 DEF engine, BotSlots
    <3>5. OwnCommands(r)' /\ OwnBots(r)'
      BY <3>2, <3>3, <3>4 DEF OwnCommands, OwnBots, Rebuilding
    <3>6. AddedIsOwn(r)'
      BY <3>1, <3>2, <3>4 DEF AddedIsOwn, NamesPresent
    <3>. QED  BY <3>5, <3>6 DEF Owned
  <2>. QED  BY <2>1, <2>2
<1>4. CASE SendAddBot(r)
  <2> DEFINE b == job[r].plan[job[r].got + 1]
  <2>1. CASE Fail(r)
    BY <2>1, <1>b, <1>c
  <2>2. CASE ~Fail(r)
    <3>1. /\ pc[r] = "addbot"
          /\ pc'[r] = "confirm"
          /\ Sent(AddBot(b))
          /\ job'[r] = [job[r] EXCEPT !.try = @ + 1]
      BY <1>4, <2>2, <1>a DEF SendAddBot, TypeOK
    <3>2. /\ job[r].got \in Nat /\ job[r].try \in Nat
          /\ job[r].got < Len(job[r].plan)
      BY <3>1, <1>d, <1>e DEF LocalsFor, JobRecords, Attempts
    <3>3. /\ job'[r].op = job[r].op /\ job'[r].plan = job[r].plan
          /\ job'[r].got = job[r].got /\ job'[r].try = job[r].try + 1
      BY <3>1, <1>d DEF JobRecords
    <3>4. b \in Bots
      BY <3>2, <1>d
    <3>5. b \in Issued(r)' /\ Issued(r) \subseteq Issued(r)'
      BY <3>2, <3>3, <1>d DEF Issued
    <3>6. /\ UNCHANGED autofill
          /\ \A s \in BotSlots' :
                roster'[s] = b \/ (s \in BotSlots /\ roster'[s] = roster[s])
          /\ \A i \in DOMAIN late' :
                late'[i] = AddBot(b) \/ \E k \in DOMAIN late : late'[i] = late[k]
      BY <3>1, <3>4, SentAdds
    <3>7. OwnCommands(r)'
      BY <3>1, <3>5, <3>6 DEF Owned, OwnCommands, AfterClean
    <3>8. OwnBots(r)'
      BY <3>1, <3>3, <3>5, <3>6 DEF Owned, OwnBots, Rebuilding, AfterClean
    <3>9. job[r].op = "add" => b = job[r].plan[1]
      BY <3>2, <1>e DEF LocalsFor
    <3>10. AddedIsOwn(r)'
      BY <3>1, <3>3, <3>6, <3>9 DEF Owned, AddedIsOwn
    <3>. QED  BY <3>7, <3>8, <3>10 DEF Owned
  <2>. QED  BY <2>1, <2>2
<1>5. CASE ConfirmAdded(r)
  <2>1. CASE Fail(r)
    BY <2>1, <1>b, <1>c
  <2>2. CASE ~Fail(r)
    <3>1. pc[r] = "confirm" /\ UNCHANGED engine
      BY <1>5 DEF ConfirmAdded
    <3>2. /\ job'[r].op = job[r].op /\ job'[r].plan = job[r].plan
          /\ \/ job'[r].got = job[r].got /\ job'[r].try = job[r].try
             \/ job'[r].got = job[r].got + 1 /\ job'[r].try = 0
      <4>1. \/ job'[r] = job[r]
            \/ job'[r] = [job[r] EXCEPT !.got = job[r].got + 1, !.try = 0]
        BY <1>5, <2>2 DEF ConfirmAdded, TypeOK
      <4>. QED  BY <4>1, <1>d DEF JobRecords
    <3>3. job[r].got \in Nat /\ job[r].try \in Nat /\ job[r].try > 0
      BY <3>1, <1>d, <1>e DEF LocalsFor, JobRecords, Attempts
    <3>4. Issued(r)' = Issued(r)
      <4>1. ASSUME NEW k \in DOMAIN job[r].plan
            PROVE  (k <= job[r].got \/ (k = job[r].got + 1 /\ job[r].try > 0))
                   <=> (k <= job'[r].got
                          \/ (k = job'[r].got + 1 /\ job'[r].try > 0))
        BY <3>2, <3>3, <1>d
      <4>. QED  BY <4>1, <3>2 DEF Issued
    <3>5. roster' = roster /\ autofill' = autofill /\ late' = late
          /\ BotSlots' = BotSlots
      BY <3>1 DEF engine, BotSlots
    <3>. QED  BY <3>1, <3>2, <3>4, <3>5
              DEF Owned, OwnCommands, OwnBots, AddedIsOwn, Rebuilding, AfterClean
  <2>. QED  BY <2>1, <2>2
<1>6. CASE ConfirmFinal(r)
  <2>1. CASE Fail(r) \/ Finish(r)
    BY <2>1, <1>b, <1>c
  <2>2. CASE ~Fail(r) /\ ~Finish(r)
    <3>1. pc[r] = "final" /\ pc'[r] = "save" /\ UNCHANGED <<job, engine>>
      BY <1>6, <2>2, <1>a DEF ConfirmFinal
    <3>. QED  BY <3>1 DEF Owned, OwnCommands, OwnBots, AddedIsOwn, Rebuilding,
                          AfterClean, Issued, engine, BotSlots
  <2>. QED  BY <2>1, <2>2
<1>. QED  BY <1>1, <1>2, <1>3, <1>4, <1>5, <1>6 DEF Step

-----------------------------------------------------------------------------
(* The inductive invariant.                                                *)

\* The locals say which commands a handler has issued; the token says that no
\* other handler has issued any since; together they make the engine its own.
IInv ==
    /\ TypeOK
    /\ LocalsOK
    /\ OneBotOperation
    /\ \A r \in Requests : Owned(r)

LEMMA IInvInit == Init => IInv
<1> SUFFICES ASSUME Init PROVE IInv
  OBVIOUS
<1>1. TypeOK
  <2>1. <<>> \in Seq(Commands)
    OBVIOUS
  <2>2. DefaultPolicy \in ValidPolicies
    BY PolicyAssumption DEF ValidPolicies
  <2>3. "idle" \in Steps
    BY DEF Steps
  <2>. QED  BY <2>1, <2>2, <2>3, NoJobType DEF Init, TypeOK
<1>2. LocalsOK
  BY DEF Init, LocalsOK, LocalsFor, NoJob
<1>3. OneBotOperation
  BY DEF Init, OneBotOperation, Holding
<1>4. \A r \in Requests : Owned(r)
  BY DEF Init, Owned, OwnCommands, OwnBots, AddedIsOwn, AfterClean
<1>. QED  BY <1>1, <1>2, <1>3, <1>4 DEF IInv

LEMMA OwnedStep ==
    ASSUME IInv, [Next]_vars
    PROVE  \A q \in Requests : Owned(q)'
<1> USE DEF IInv
<1>1. CASE World \/ UNCHANGED vars
  BY <1>1, WorldOwned
<1>2. CASE Restart
  BY <1>2 DEF Restart, Owned, OwnCommands, OwnBots, AddedIsOwn, AfterClean
<1>3. ASSUME NEW r \in Requests, NEW q \in Requests \ {r},
             Frame(r), UNCHANGED engine
      PROVE  Owned(q)'
  <2>1. pc'[q] = pc[q] /\ job'[q] = job[q]
    BY <1>3 DEF Frame
  <2>2. Owned(q)
    OBVIOUS
  <2>. QED  BY <2>1, <2>2, <1>3
            DEF engine, Owned, OwnCommands, OwnBots, AddedIsOwn, Rebuilding,
                Issued, BotSlots
<1>4. ASSUME NEW r \in Requests, Step(r), NEW q \in Requests
      PROVE  Owned(q)'
  <2>1. CASE q = r
    BY <1>4, <2>1, StepOwned
  <2>2. CASE q # r
    <3>1. Frame(r) /\ TokenMove(r)
      BY <1>4, StepFrame, StepToken
    <3>2. CASE UNCHANGED engine
      BY <2>2, <3>1, <3>2, <1>3
    <3>3. CASE pc[r] \in Holding
      <4>1. pc[q] \notin Holding
        BY <2>2, <3>3, Zenon DEF OneBotOperation
      <4>2. pc'[q] \notin AfterClean
        BY <2>2, <3>1, <4>1 DEF Frame, Holding, AfterClean
      <4>. QED  BY <4>2 DEF Owned, OwnCommands, OwnBots, AddedIsOwn, AfterClean
    <3>. QED  BY <3>1, <3>2, <3>3 DEF TokenMove, engine
  <2>. QED  BY <2>1, <2>2
<1>5. ASSUME NEW r \in Requests,
             PutPolicy(r) \/ Reconcile(r) \/ AddOneBot(r),
             NEW q \in Requests
      PROVE  Owned(q)'
  <2>1. /\ Frame(r) /\ UNCHANGED engine
        /\ pc'[r] \in {"mode", "begin"}
    BY <1>5, SubmitToken
  <2>2. CASE q = r
    BY <2>1, <2>2 DEF Owned, OwnCommands, OwnBots, AddedIsOwn, AfterClean
  <2>3. CASE q # r
    BY <2>1, <2>3, <1>3
  <2>. QED  BY <2>2, <2>3
<1>. QED  BY <1>1, <1>2, <1>4, <1>5 DEF Next, World

LEMMA IInvStep == IInv /\ [Next]_vars => IInv'
BY TypeStep, LocalsStep, TokenStep, OwnedStep DEF IInv

THEOREM Invariance == Spec => []IInv
BY IInvInit, IInvStep, PTL DEF Spec

\* The types of every variable, for any instance.
THEOREM TypeCorrect == Spec => []TypeOK
<1>1. IInv => TypeOK
  BY DEF IInv
<1>. QED  BY <1>1, Invariance, PTL

\* botOps is a lock: at most one handler is past beginBotOperation, and the
\* token is out exactly while one is.
THEOREM MutualExclusion == Spec => []OneBotOperation
<1>1. IInv => OneBotOperation
  BY DEF IInv
<1>. QED  BY <1>1, Invariance, PTL

\* Once a rebuild has seen the server empty, only its own addbots reach it.
THEOREM OnlyPlanned == Spec => []OnlyPlannedBots
<1>1. IInv => OnlyPlannedBots
  BY DEF IInv, Owned, OnlyPlannedBots
<1>. QED  BY <1>1, Invariance, PTL

-----------------------------------------------------------------------------
(* How many bots there are.                                                *)

Count == Cardinality(BotSlots) + Len(late)

Bounded(r) ==
    Rebuilding(r) /\ pc[r] \in AfterClean /\ ~autofill =>
        Count <= job[r].got + job[r].try

LEMMA CountType ==
    ASSUME TypeOK
    PROVE  /\ IsFiniteSet(BotSlots) /\ Cardinality(BotSlots) \in Nat
           /\ Len(late) \in Nat /\ Count \in Nat
<1>1. IsFiniteSet(BotSlots)
  BY FS_Subset, SlotAssumption DEF BotSlots
<1>2. Cardinality(BotSlots) \in Nat
  BY <1>1, FS_CardinalityType
<1>. QED  BY <1>1, <1>2 DEF TypeOK, Count

\* Slots that only lose bots have no more of them.
LEMMA FewerBots ==
    ASSUME TypeOK, BotSlots' \subseteq BotSlots
    PROVE  /\ Cardinality(BotSlots') \in Nat
           /\ Cardinality(BotSlots') <= Cardinality(BotSlots)
<1>1. IsFiniteSet(BotSlots)
  BY CountType
<1>. QED  BY <1>1, FS_Subset, FS_CardinalityType

\* An executed addbot adds one bot at most.
LEMMA ExecuteAddsOne ==
    ASSUME TypeOK, NEW b \in Bots, Execute(AddBot(b))
    PROVE  /\ UNCHANGED autofill
           /\ Cardinality(BotSlots') \in Nat
           /\ Cardinality(BotSlots') <= Cardinality(BotSlots) + 1
<1>1. AddBot(b) # StopAutoFill /\ AddBot(b) # KickBots
  BY DEF AddBot, StopAutoFill, KickBots
<1>2. UNCHANGED autofill
      /\ \/ \E s \in Slots, c \in Bots : roster' = [roster EXCEPT ![s] = c]
         \/ UNCHANGED roster
  BY <1>1 DEF Execute
<1>3. CASE UNCHANGED roster
  BY <1>2, <1>3, CountType DEF BotSlots
<1>4. ASSUME NEW s \in Slots, NEW c \in Bots, roster' = [roster EXCEPT ![s] = c]
      PROVE  /\ Cardinality(BotSlots') \in Nat
             /\ Cardinality(BotSlots') <= Cardinality(BotSlots) + 1
  <2> DEFINE T == BotSlots \cup {s}
  <2>1. BotSlots' \subseteq T
    BY <1>4 DEF BotSlots, TypeOK
  <2>2. /\ IsFiniteSet(T) /\ Cardinality(T) \in Nat
        /\ Cardinality(T) <= Cardinality(BotSlots) + 1
    <3>1. IsFiniteSet(BotSlots) /\ Cardinality(BotSlots) \in Nat
      BY CountType
    <3>2. /\ IsFiniteSet(T)
          /\ Cardinality(T) = IF s \in BotSlots THEN Cardinality(BotSlots)
                              ELSE Cardinality(BotSlots) + 1
      BY <3>1, FS_AddElement
    <3>. QED  BY <3>1, <3>2
  <2> HIDE DEF T
  <2>3. /\ Cardinality(BotSlots') <= Cardinality(T)
        /\ Cardinality(BotSlots') \in Nat
    BY <2>1, <2>2, FS_Subset, FS_CardinalityType
  <2>. QED  BY <2>2, <2>3, CountType
<1>. QED  BY <1>2, <1>3, <1>4

\* A sent one adds one at most to those there and those to come.
LEMMA SentAddsOne ==
    ASSUME TypeOK, NEW b \in Bots, Sent(AddBot(b))
    PROVE  UNCHANGED autofill /\ Count' \in Nat /\ Count' <= Count + 1
<1>1. CASE Executed(AddBot(b))
  BY <1>1, ExecuteAddsOne, CountType DEF Executed, Count
<1>2. CASE Lost
  BY <1>2, CountType DEF Lost, engine, Count, BotSlots
<1>3. CASE Delayed(AddBot(b))
  <2>1. UNCHANGED <<roster, autofill>> /\ Len(late') = Len(late) + 1
    BY <1>3 DEF Delayed, TypeOK
  <2>2. BotSlots' = BotSlots
    BY <2>1 DEF BotSlots
  <2>. QED  BY <2>1, <2>2, CountType DEF Count
<1>. QED  BY <1>1, <1>2, <1>3 DEF Sent

LEMMA WorldBounded ==
    ASSUME IInv, NEW r \in Requests, Bounded(r), World \/ UNCHANGED vars
    PROVE  Bounded(r)'
<1>1. UNCHANGED <<pc, job>>
  BY DEF World, ExecuteLate, Kick, HumanJoins, HumanLeaves, AutoFill, vars
<1>2. job[r].got \in Nat /\ job[r].try \in Nat /\ TypeOK
  <2>1. job[r] \in JobRecords /\ TypeOK
    BY DEF IInv, TypeOK
  <2>. QED  BY <2>1 DEF JobRecords, Attempts
<1>3. CASE pc[r] \in AfterClean /\ ExecuteLate
  <2>1. PICK b \in Issued(r) : Head(late) = AddBot(b)
    BY <1>3 DEF IInv, Owned, OwnCommands, ExecuteLate, TypeOK
  <2>2. job[r].plan \in Seq(Bots)
    BY DEF IInv, TypeOK, JobRecords
  <2>3. b \in Bots
    BY <2>2 DEF Issued
  <2>4. /\ UNCHANGED autofill
        /\ Cardinality(BotSlots') \in Nat
        /\ Cardinality(BotSlots') <= Cardinality(BotSlots) + 1
    BY <1>2, <1>3, <2>1, <2>3, ExecuteAddsOne DEF ExecuteLate
  <2>5. Len(late') = Len(late) - 1
    BY <1>2, <1>3 DEF ExecuteLate, TypeOK
  <2>6. Count' <= Count
    BY <1>2, <2>4, <2>5, CountType DEF Count
  <2>7. Count' \in Nat
    BY <1>2, <1>3, <2>4, <2>5, CountType DEF Count, ExecuteLate, TypeOK
  <2>. QED  BY <1>1, <1>2, <2>4, <2>6, <2>7, CountType DEF Bounded, Rebuilding
<1>4. CASE Kick \/ HumanJoins \/ HumanLeaves
  <2>1. BotSlots' \subseteq BotSlots /\ UNCHANGED <<autofill, late>>
    BY <1>4, <1>2, SlotAssumption
       DEF Kick, HumanJoins, HumanLeaves, BotSlots, TypeOK
  <2>2. Count' \in Nat /\ Count' <= Count
    BY <1>2, <2>1, FewerBots, CountType DEF Count
  <2>. QED  BY <1>1, <1>2, <2>1, <2>2, CountType DEF Bounded, Rebuilding
<1>5. CASE AutoFill
  BY <1>5 DEF AutoFill, Bounded
<1>6. CASE UNCHANGED vars
  BY <1>6 DEF vars, Bounded, Rebuilding, Count, BotSlots
<1>7. CASE pc[r] \notin AfterClean
  BY <1>1, <1>7 DEF Bounded
<1>. QED  BY <1>3, <1>4, <1>5, <1>6, <1>7 DEF World

\* A confirmation counts what is there, a try adds one.
LEMMA StepBounded ==
    ASSUME IInv, NEW r \in Requests, Bounded(r), Step(r)
    PROVE  Bounded(r)'
<1> USE DEF IInv
<1>a. \A step : Goto(r, step) => pc'[r] = step
  BY DEF Goto, TypeOK
<1>b. pc'[r] \notin AfterClean => Bounded(r)'
  BY DEF Bounded
<1>c. Leave(r) \/ Finish(r) \/ Fail(r) => pc'[r] \notin AfterClean
  BY <1>a DEF Leave, Finish, Fail, AfterClean
<1>d. /\ job[r] \in JobRecords /\ LocalsFor(r)
      /\ job[r].got \in Nat /\ job[r].try \in Nat
  BY DEF TypeOK, JobRecords, LocalsOK, Attempts
<1>1. CASE Begin(r) \/ DetermineMode(r) \/ DisableAutoFill(r)
           \/ RemoveBots(r) \/ RereadRoster(r) \/ SavePolicy(r) \/ Sweep(r)
           \/ SweepWait(r)
  <2>1. pc'[r] \notin AfterClean
    BY <1>1, <1>a, <1>c
       DEF Begin, DetermineMode, DisableAutoFill, RemoveBots, RereadRoster,
           SavePolicy, Sweep, SweepWait, AfterClean
  <2>. QED  BY <2>1, <1>b
<1>2. CASE ConfirmEmpty(r)
  <2>1. CASE Finish(r)
    BY <2>1, <1>b, <1>c
  <2>2. CASE Observed(0, {}) /\ UNCHANGED job /\ UNCHANGED engine
    <3>1. Count' = 0
      BY <2>2 DEF Observed, StatusAnswered, engine, Count, BotSlots
    <3>. QED  BY <1>d, <2>2, <3>1 DEF Bounded
  <2>. QED  BY <1>2, <2>1, <2>2 DEF ConfirmEmpty
<1>3. CASE ReadRoster(r)
  <2>1. CASE Finish(r)
    BY <2>1, <1>b, <1>c
  <2>2. CASE ~Finish(r)
    <3>1. job[r].op = "add"
      BY <1>3, <1>d DEF ReadRoster, LocalsFor
    <3>2. job'[r].op = "add"
      BY <1>3, <2>2, <3>1, <1>d DEF ReadRoster, TypeOK, JobRecords
    <3>. QED  BY <3>2 DEF Bounded, Rebuilding
  <2>. QED  BY <2>1, <2>2
<1>4. CASE SendAddBot(r)
  <2>1. CASE Fail(r)
    BY <2>1, <1>b, <1>c
  <2>2. CASE ~Fail(r)
    <3> DEFINE b == job[r].plan[job[r].got + 1]
    <3>1. /\ Sent(AddBot(b)) /\ pc[r] = "addbot"
          /\ job' = [job EXCEPT ![r].try = @ + 1]
      BY <1>4, <2>2 DEF SendAddBot
    <3>2. b \in Bots
      BY <1>d, <3>1 DEF LocalsFor, JobRecords
    <3> HIDE DEF b
    <3>3. UNCHANGED autofill /\ Count' \in Nat /\ Count' <= Count + 1
      BY <3>1, <3>2, SentAddsOne
    <3>4. /\ job'[r].op = job[r].op /\ job'[r].got = job[r].got
          /\ job'[r].try = job[r].try + 1
      BY <1>d, <3>1 DEF TypeOK, JobRecords
    <3>5. Count \in Nat
      BY CountType
    <3>6. pc[r] \in AfterClean
      BY <3>1 DEF AfterClean
    <3>. QED  BY <1>d, <3>3, <3>4, <3>5, <3>6 DEF Bounded, Rebuilding
  <2>. QED  BY <2>1, <2>2
<1>5. CASE ConfirmAdded(r)
  <2>1. CASE Fail(r)
    BY <2>1, <1>b, <1>c
  <2>2. CASE UNCHANGED job
    <3>1. UNCHANGED engine /\ pc[r] = "confirm"
      BY <1>5 DEF ConfirmAdded
    <3>2. Bounded(r) /\ pc[r] \in AfterClean
      BY <3>1 DEF AfterClean
    <3>. QED  BY <2>2, <3>1, <3>2 DEF Bounded, Rebuilding, Count, BotSlots, engine
  <2>3. CASE ~Fail(r) /\ ~UNCHANGED job
    <3> DEFINE n == job[r].got + 1
    <3>1. /\ Observed(job[r].had + n, Expected(r, n)) /\ UNCHANGED engine
          /\ job' = [job EXCEPT ![r].got = n, ![r].try = 0]
      BY <1>5, <2>3 DEF ConfirmAdded
    <3>2. job'[r].op = job[r].op /\ job'[r].got = n /\ job'[r].try = 0
      BY <1>d, <3>1 DEF TypeOK, JobRecords
    <3>3. Count' = job[r].had + n
      BY <3>1, <1>d DEF Observed, StatusAnswered, engine, Count, BotSlots,
                        TypeOK, JobRecords
    <3>4. Rebuilding(r)' => job[r].had = 0
      BY <1>d, <3>2 DEF Rebuilding, LocalsFor
    <3>. QED  BY <1>d, <3>2, <3>3, <3>4 DEF Bounded
  <2>. QED  BY <2>1, <2>2, <2>3
<1>6. CASE ConfirmFinal(r)
  <2>1. CASE Fail(r) \/ Finish(r)
    BY <2>1, <1>b, <1>c
  <2>2. CASE ~Fail(r) /\ ~Finish(r)
    <3>1. pc[r] = "final" /\ UNCHANGED <<job, engine>>
      BY <1>6, <2>2 DEF ConfirmFinal
    <3>2. Bounded(r) /\ pc[r] \in AfterClean
      BY <3>1 DEF AfterClean
    <3>. QED  BY <3>1, <3>2 DEF Bounded, Rebuilding, Count, BotSlots, engine
  <2>. QED  BY <2>1, <2>2
<1>. QED  BY <1>1, <1>2, <1>3, <1>4, <1>5, <1>6 DEF Step

LEMMA BoundedStep ==
    ASSUME IInv, [Next]_vars, \A r \in Requests : Bounded(r)
    PROVE  \A q \in Requests : Bounded(q)'
<1>1. CASE World \/ UNCHANGED vars
  BY <1>1, WorldBounded
<1>2. CASE Restart
  BY <1>2 DEF Restart, Bounded, AfterClean
<1>3. ASSUME NEW r \in Requests, NEW q \in Requests \ {r},
             Frame(r), UNCHANGED engine
      PROVE  Bounded(q)'
  <2>1. pc'[q] = pc[q] /\ job'[q] = job[q] /\ Bounded(q)
    BY <1>3 DEF Frame
  <2>. QED  BY <1>3, <2>1 DEF engine, Bounded, Rebuilding, Count, BotSlots
<1>4. ASSUME NEW r \in Requests, Step(r), NEW q \in Requests
      PROVE  Bounded(q)'
  <2>1. CASE q = r
    BY <1>4, <2>1, StepBounded
  <2>2. CASE q # r
    <3>1. Frame(r) /\ TokenMove(r)
      BY <1>4, StepFrame, StepToken DEF IInv
    <3>2. CASE UNCHANGED engine
      BY <2>2, <3>1, <3>2, <1>3
    <3>3. CASE pc[r] \in Holding
      <4>1. pc[q] \notin Holding
        BY <2>2, <3>3, Zenon DEF IInv, OneBotOperation
      <4>2. pc'[q] \notin AfterClean
        BY <2>2, <3>1, <4>1 DEF Frame, Holding, AfterClean
      <4>. QED  BY <4>2 DEF Bounded
    <3>. QED  BY <3>1, <3>2, <3>3 DEF TokenMove, engine
  <2>. QED  BY <2>1, <2>2
<1>5. ASSUME NEW r \in Requests,
             PutPolicy(r) \/ Reconcile(r) \/ AddOneBot(r),
             NEW q \in Requests
      PROVE  Bounded(q)'
  <2>1. /\ Frame(r) /\ UNCHANGED engine
        /\ pc'[r] \in {"mode", "begin"}
    BY <1>5, SubmitToken DEF IInv
  <2>2. CASE q = r
    BY <2>1, <2>2 DEF Bounded, AfterClean
  <2>3. CASE q # r
    BY <2>1, <2>3, <1>3
  <2>. QED  BY <2>2, <2>3
<1>. QED  BY <1>1, <1>2, <1>4, <1>5 DEF Next, World

\* A rebuild never has more bots on the server or under way than it confirmed
\* and is trying to add.
THEOREM NoSurplus == Spec => []NoSurplusBots
<1> DEFINE J == IInv /\ \A r \in Requests : Bounded(r)
<1>1. Init => J
  BY IInvInit DEF Init, Bounded, AfterClean
<1>2. J /\ [Next]_vars => J'
  BY IInvStep, BoundedStep
<1>3. J => NoSurplusBots
  BY DEF Bounded, Count, NoSurplusBots
<1>. QED  BY <1>1, <1>2, <1>3, PTL DEF Spec

-----------------------------------------------------------------------------
(* What a confirmation means.                                              *)

\* A confirmed ad-hoc addition put the bot on its team.
THEOREM AddConfirmed == Spec => AddedToItsTeam
<1> DEFINE A == \A r \in Requests :
                  /\ pc[r] = "confirm"
                  /\ pc'[r] = "reread"
                  /\ ~autofill
                  => LET b == job[r].plan[1]
                     IN  /\ b \in {roster[s] : s \in BotSlots}
                         /\ \A s \in BotSlots :
                               roster[s].name = b.name => roster[s] = b
<1>1. IInv /\ [Next]_vars => A
  <2> SUFFICES ASSUME IInv, [Next]_vars, NEW r \in Requests,
                      pc[r] = "confirm", pc'[r] = "reread", ~autofill
               PROVE  LET b == job[r].plan[1]
                      IN  /\ b \in {roster[s] : s \in BotSlots}
                          /\ \A s \in BotSlots :
                                roster[s].name = b.name => roster[s] = b
    OBVIOUS
  <2> DEFINE b == job[r].plan[1]
  <2>1. ConfirmAdded(r)
    <3>1. ~(World \/ UNCHANGED vars \/ Restart)
      BY DEF World, ExecuteLate, Kick, HumanJoins, HumanLeaves, AutoFill,
             Restart, vars
    <3>2. PICK q \in Requests :
             PutPolicy(q) \/ Reconcile(q) \/ AddOneBot(q) \/ Step(q)
      BY <3>1 DEF Next, World
    <3>3. Frame(q)
      BY <3>2, StepFrame, SubmitToken DEF IInv
    <3>4. q = r
      BY <3>3 DEF Frame
    <3>5. Step(r)
      BY <3>2, <3>4 DEF PutPolicy, Reconcile, AddOneBot
    <3>. QED  BY <3>5
              DEF Step, Begin, DetermineMode, DisableAutoFill, RemoveBots,
                  ConfirmEmpty, ReadRoster, SendAddBot, ConfirmFinal,
                  RereadRoster, SavePolicy, Sweep, SweepWait
  <2>2. pc'[r] = "reread" => ~Fail(r) /\ ~Goto(r, "addbot")
    BY DEF IInv, TypeOK, Fail, Finish, Leave, Goto
  <2>3. /\ Observed(job[r].had + (job[r].got + 1), Expected(r, job[r].got + 1))
        /\ ~(job[r].got + 1 < Len(job[r].plan))
        /\ job[r].op = "add"
    BY <2>1, <2>2 DEF ConfirmAdded, IInv, TypeOK, Goto
  <2>4. job[r] \in JobRecords /\ LocalsFor(r) /\ AddedIsOwn(r)
    BY DEF IInv, TypeOK, LocalsOK, Owned
  <2>5. job[r].got = 0 /\ job[r].had \in Nat
    <3>1. job[r].got \in Nat /\ job[r].had \in Nat
      BY <2>4 DEF JobRecords
    <3>2. Len(job[r].plan) = 1 /\ job[r].got < Len(job[r].plan)
      BY <2>3, <2>4 DEF LocalsFor
    <3>. QED  BY <3>1, <3>2
  <2>6. b.name \in Expected(r, 1)
    BY DEF Expected
  <2>7. b.name \in NamesPresent
    BY <2>3, <2>5, <2>6 DEF Observed
  <2>8. PICK s \in BotSlots : roster[s].name = b.name
    BY <2>7 DEF NamesPresent
  <2>9. \A t \in BotSlots : roster[t].name = b.name => roster[t] = b
    BY <2>3, <2>4 DEF AddedIsOwn
  <2>. QED  BY <2>8, <2>9
<1>2. AddedToItsTeam <=> [][A]_vars
  BY PTL DEF AddedToItsTeam
<1>. QED  BY <1>1, <1>2, Invariance, PTL DEF Spec

\* A policy is saved with the token only, so none is replaced under another
\* operation; a restart ends them all.
THEOREM PolicyKept == Spec => PolicyStays
<1> DEFINE A == policy' # policy =>
                  \A r \in Requests :
                     pc[r] \in Holding => pc[r] = "save" \/ pc'[r] = "idle"
<1>1. IInv /\ [Next]_vars => A
  <2> SUFFICES ASSUME IInv, [Next]_vars, policy' # policy,
                      NEW r \in Requests, pc[r] \in Holding
               PROVE  pc[r] = "save" \/ pc'[r] = "idle"
    OBVIOUS
  <2>1. CASE Restart
    BY <2>1 DEF Restart
  <2>2. CASE ~Restart
    <3>1. PICK q \in Requests : SavePolicy(q)
      <4>1. ~(World \/ UNCHANGED vars)
        BY DEF World, ExecuteLate, Kick, HumanJoins, HumanLeaves, AutoFill, vars
      <4>2. PICK q \in Requests :
               PutPolicy(q) \/ Reconcile(q) \/ AddOneBot(q) \/ Step(q)
        BY <2>2, <4>1 DEF Next, World
      <4>. QED  BY <4>2
                DEF PutPolicy, Reconcile, AddOneBot, Step, Begin, DetermineMode,
                    DisableAutoFill, RemoveBots, ConfirmEmpty, ReadRoster,
                    SendAddBot, ConfirmAdded, ConfirmFinal, RereadRoster,
                    Sweep, SweepWait
    <3>2. pc[q] = "save"
      BY <3>1 DEF SavePolicy
    <3>3. q = r
      <4>1. pc[q] \in Holding
        BY <3>2 DEF Holding
      <4>. QED  BY <4>1, Zenon DEF IInv, OneBotOperation
    <3>. QED  BY <3>2, <3>3
  <2>. QED  BY <2>1, <2>2
<1>2. PolicyStays <=> [][A]_vars
  BY PTL DEF PolicyStays
<1>. QED  BY <1>1, <1>2, Invariance, PTL DEF Spec

\* As many slots as entries, and every entry in a slot: no entry in two.
LEMMA NoEntryTwice ==
    ASSUME NEW S, IsFiniteSet(S), NEW n \in Nat, Cardinality(S) = n,
           NEW f \in [S -> 1 .. n], \A k \in 1 .. n : \E s \in S : f[s] = k
    PROVE  \A s, t \in S : f[s] = f[t] => s = t
<1>1. f \in Surjection(S, 1 .. n)
  BY DEF Surjection
<1>2. Cardinality(1 .. n) = n
  BY FS_Interval
<1>3. f \in Injection(S, 1 .. n)
  BY <1>1, <1>2, FS_Surjection
<1>. QED  BY <1>3 DEF Injection, IsInjective

\* What a rebuild reports as complete is there: the planned bots, each on its
\* team and each once, although q3ctl saw only their names and their number.
THEOREM RebuildConfirmed == Spec => ConfirmedIsExact
<1> DEFINE A == \A r \in Requests :
                  /\ Completes(r)
                  /\ ~autofill
                  /\ DistinctNames(job[r].plan)
                  => /\ \A s \in BotSlots :
                           \E i \in DOMAIN job[r].plan :
                              roster[s] = job[r].plan[i]
                     /\ \A i \in DOMAIN job[r].plan :
                           \E s \in Slots :
                              /\ roster[s] = job[r].plan[i]
                              /\ \A t \in Slots \ {s} :
                                    roster[t] # job[r].plan[i]
<1>1. IInv /\ [Next]_vars => A
  <2> SUFFICES ASSUME IInv, NEW r \in Requests, Completes(r), ~autofill,
                      DistinctNames(job[r].plan)
               PROVE  /\ \A s \in BotSlots :
                            \E i \in DOMAIN job[r].plan :
                               roster[s] = job[r].plan[i]
                      /\ \A i \in DOMAIN job[r].plan :
                            \E s \in Slots :
                               /\ roster[s] = job[r].plan[i]
                               /\ \A t \in Slots \ {s} :
                                     roster[t] # job[r].plan[i]
    OBVIOUS
  <2> DEFINE plan == job[r].plan
             n == Len(plan)
  <2>1. /\ job[r] \in JobRecords /\ LocalsFor(r) /\ OwnBots(r)
        /\ roster \in [Slots -> {Free, Human} \cup Bots]
    BY DEF IInv, TypeOK, LocalsOK, Owned
  <2>2. pc[r] = "final"
    BY DEF Completes, ConfirmFinal
  <2>3. job[r].op # "add" /\ job[r].op # "none"
    BY <2>1, <2>2 DEF LocalsFor
  <2>4. Observed(n, Expected(r, n))
    <3>1. Fail(r) => pc'[r] = "sweep"
      BY <2>3 DEF Fail, Goto, IInv, TypeOK
    <3>. QED  BY <3>1 DEF Completes, ConfirmFinal
  <2>5. plan \in Seq(Bots) /\ n \in Nat /\ DOMAIN plan = 1 .. n
    BY <2>1 DEF JobRecords
  <2>6. IsFiniteSet(BotSlots) /\ Cardinality(BotSlots) = n
    BY <2>4, FS_Subset, SlotAssumption DEF Observed, BotSlots
  <2>7. \A s \in BotSlots : \E i \in 1 .. n : roster[s] = plan[i]
    <3>1. Rebuilding(r)
      BY <2>1, <2>3 DEF Rebuilding, JobRecords, Ops
    <3>2. \A s \in BotSlots : roster[s] \in Issued(r)
      BY <3>1, <2>1, <2>2 DEF OwnBots, AfterClean
    <3>. QED  BY <3>2, <2>5 DEF Issued
  <2>8. ASSUME NEW i \in 1 .. n
        PROVE  \E s \in BotSlots : roster[s] = plan[i]
    <3>1. plan[i].name \in Expected(r, n)
      BY DEF Expected
    <3>2. PICK s \in BotSlots : roster[s].name = plan[i].name
      BY <3>1, <2>4, <2>5, <2>8 DEF Observed, NamesPresent
    <3>3. PICK k \in 1 .. n : roster[s] = plan[k]
      BY <2>7
    <3>4. k = i
      BY <3>2, <3>3, <2>5 DEF DistinctNames
    <3>. QED  BY <3>3, <3>4
  <2> DEFINE f == [s \in BotSlots |-> CHOOSE i \in 1 .. n : roster[s] = plan[i]]
  <2>9. \A s \in BotSlots : f[s] \in 1 .. n /\ roster[s] = plan[f[s]]
    BY <2>7
  <2>10. \A i, k \in 1 .. n : plan[i] = plan[k] => i = k
    BY <2>5 DEF DistinctNames
  <2>11. \A i \in 1 .. n : \E s \in BotSlots : f[s] = i
    BY <2>8, <2>9, <2>10
  <2>12. f \in [BotSlots -> 1 .. n]
    BY <2>9
  <2>13. \A s, t \in BotSlots : f[s] = f[t] => s = t
    <3> HIDE DEF f, n, plan
    <3>. QED  BY <2>5, <2>6, <2>11, <2>12, NoEntryTwice
  <2>14. ASSUME NEW i \in 1 .. n
         PROVE  \E s \in Slots :
                   /\ roster[s] = plan[i]
                   /\ \A t \in Slots \ {s} : roster[t] # plan[i]
    <3>1. PICK s \in BotSlots : roster[s] = plan[i]
      BY <2>8
    <3>2. ASSUME NEW t \in Slots, roster[t] = plan[i]
          PROVE  t = s
      <4>1. plan[i] \in Bots
        BY <2>5
      <4>2. t \in BotSlots
        BY <4>1, <3>2 DEF BotSlots
      <4>3. f[t] = f[s]
        BY <4>2, <3>1, <3>2
      <4>. QED  BY <4>2, <4>3, <2>13
    <3>. QED  BY <3>1, <3>2 DEF BotSlots
  <2>. QED  BY <2>5, <2>7, <2>14
<1>2. ConfirmedIsExact <=> [][A]_vars
  BY PTL DEF ConfirmedIsExact
<1>. QED  BY <1>1, <1>2, Invariance, PTL DEF Spec
=============================================================================
