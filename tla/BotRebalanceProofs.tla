------------------------- MODULE BotRebalanceProofs --------------------------
(***************************************************************************)
(* For any number of slots and bots, and any number of delayed datagrams:  *)
(* a rebalance addresses no person who was there when it looked.           *)
(***************************************************************************)
EXTENDS BotRebalance, FiniteSetTheorems, TLAPS

\* A command for this slot does not reach a person who was there all along.
Harmless(s) == s \in Taken => s \in BotSlots \cup joined

\* The slots the handler and its locals address.
AimsOK ==
    /\ pc = "teams" /\ phase = "plan" =>
          \A s \in Slots : snap[s] \in BotNames => Harmless(s)
    /\ pc = "force" => \A m \in todo : Harmless(m.slot)
    /\ pc = "remove" => Harmless(cur.slot)

\* The buffered commands.
LateOK ==
    \A i \in DOMAIN late :
       late[i].cmd \in {"forceteam", "clientkick"} => Harmless(late[i].slot)

\* How far the handler is agrees with its locals.
LocalsOK ==
    /\ pc \in {"remove", "removed", "add", "added"} => cur \in Replacements
    /\ pc = "add" => try < Attempts
    /\ pc \notin {"add", "added"} => try = 0

IInv == TypeOK /\ LocalsOK /\ AimsOK /\ LateOK

\* Nobody in a slot becomes another client, and who comes into one is a bot
\* or is counted as joined.
SameClients ==
    /\ joined \subseteq joined'
    /\ \A s \in Slots :
          roster'[s] # Free =>
             IF s \in Taken
             THEN roster'[s].who = roster[s].who
             ELSE s \in joined' \/ roster'[s].who # Human

LEMMA StaysHarmless ==
    ASSUME SameClients, NEW s \in Slots, Harmless(s)
    PROVE  s \in Taken' => s \in BotSlots' \cup joined'
BY DEF SameClients, Harmless, Taken, BotSlots

-----------------------------------------------------------------------------
\* Commands.

LEMMA CommandKinds ==
    /\ \A c \in Commands : c.cmd \in {"forceteam", "clientkick"} => c.slot \in Slots
    /\ \A c \in Commands : c.cmd = "forceteam" => c.team \in Teams
    /\ \A c \in Commands : c.cmd = "addbot" => c.who \in BotNames /\ c.team \in Teams
    /\ \A s \in Slots, t \in Teams : /\ ForceTeam(s, t) \in Commands
                                     /\ ForceTeam(s, t).cmd = "forceteam"
                                     /\ ForceTeam(s, t).slot = s
    /\ \A s \in Slots : /\ ClientKick(s) \in Commands
                        /\ ClientKick(s).cmd = "clientkick"
                        /\ ClientKick(s).slot = s
    /\ \A b \in BotNames, t \in Teams : /\ AddBot(b, t) \in Commands
                                        /\ AddBot(b, t).cmd = "addbot"
BY DEF Commands, ForceTeam, ClientKick, AddBot

LEMMA ExecuteType ==
    ASSUME TypeOK, NEW c \in Commands, Execute(c)
    PROVE  roster' \in [Slots -> {Free} \cup Clients]
<1> USE DEF TypeOK
<1>1. CASE c.cmd = "forceteam"
  <2>1. c.slot \in Slots /\ c.team \in Sides
    BY <1>1, CommandKinds DEF Sides
  <2>2. CASE UNCHANGED roster
    BY <2>2
  <2>3. CASE /\ c.slot \in Taken
             /\ roster' = [roster EXCEPT ![c.slot].team = c.team]
    <3>1. roster[c.slot] \in Clients
      BY <2>1, <2>3 DEF Taken
    <3>2. [roster[c.slot] EXCEPT !.team = c.team] \in Clients
      BY <2>1, <3>1 DEF Clients
    <3>. QED  BY <2>1, <2>3, <3>2
  <2>. QED  BY <1>1, <2>2, <2>3 DEF Execute
<1>2. CASE c.cmd = "clientkick"
  BY <1>2 DEF Execute
<1>3. CASE c.cmd = "addbot"
  <2>1. [who |-> c.who, team |-> c.team] \in Clients
    BY <1>3, CommandKinds DEF Clients, Whos, Sides
  <2>2. CASE UNCHANGED roster
    BY <2>2
  <2>3. CASE \E s \in Slots \ Taken :
               roster' = [roster EXCEPT ![s] = [who |-> c.who, team |-> c.team]]
    BY <2>1, <2>3
  <2>. QED  BY <1>3, <2>2, <2>3 DEF Execute
<1>. QED  BY <1>1, <1>2, <1>3 DEF Execute

\* A command touches the slot it names and no other that is taken.
LEMMA ExecuteAims ==
    ASSUME TypeOK, NEW c \in Commands, Execute(c), NEW s \in Taken,
           c.cmd \in {"forceteam", "clientkick"} => c.slot # s
    PROVE  roster'[s] = roster[s]
<1> USE DEF TypeOK
<1>1. CASE c.cmd \in {"forceteam", "clientkick"}
  <2>1. c.slot \in Slots /\ c.slot # s /\ s \in Slots
    BY <1>1, CommandKinds DEF Taken
  <2>. QED  BY <1>1, <2>1 DEF Execute
<1>2. CASE c.cmd = "addbot"
  BY <1>2 DEF Execute, Taken
<1>. QED  BY <1>1, <1>2 DEF Execute

\* A client that is still there is the same one, and a new one is a bot.
LEMMA ExecuteClients ==
    ASSUME TypeOK, NEW c \in Commands, Execute(c), NEW s \in Slots,
           roster'[s] # Free
    PROVE  IF s \in Taken THEN roster'[s].who = roster[s].who
                          ELSE roster'[s].who # Human
<1> USE DEF TypeOK
<1>1. CASE c.cmd = "forceteam"
  <2>1. c.slot \in Slots
    BY <1>1, CommandKinds
  <2>2. CASE UNCHANGED roster
    BY <2>2 DEF Taken
  <2>3. CASE /\ c.slot \in Taken
             /\ roster' = [roster EXCEPT ![c.slot].team = c.team]
    <3>1. roster[c.slot] \in Clients
      BY <2>1, <2>3 DEF Taken
    <3>2. [roster[c.slot] EXCEPT !.team = c.team].who = roster[c.slot].who
      BY <3>1 DEF Clients
    <3>. QED  BY <2>1, <2>3, <3>2 DEF Taken
  <2>. QED  BY <1>1, <2>2, <2>3 DEF Execute
<1>2. CASE c.cmd = "clientkick"
  BY <1>2, CommandKinds DEF Execute, Taken
<1>3. CASE c.cmd = "addbot"
  <2>1. c.who # Human
    BY <1>3, CommandKinds, RebalanceAssumption
  <2>2. CASE UNCHANGED roster
    BY <2>2 DEF Taken
  <2>3. CASE \E x \in Slots \ Taken :
               roster' = [roster EXCEPT ![x] = [who |-> c.who, team |-> c.team]]
    BY <2>1, <2>3 DEF Taken
  <2>. QED  BY <1>3, <2>2, <2>3 DEF Execute
<1>. QED  BY <1>1, <1>2, <1>3 DEF Execute

\* What sending a command does to the engine, whatever becomes of it.
LEMMA SentType ==
    ASSUME TypeOK, NEW c \in Commands, TimedOut(c)
    PROVE  /\ roster' \in [Slots -> {Free} \cup Clients]
           /\ autofill' \in BOOLEAN
           /\ late' \in Seq(Commands)
           /\ late' = late \/ late' = Append(late, c)
<1>1. CASE Answered(c)
  <2>1. autofill' = autofill
    BY <1>1 DEF Answered, Execute
  <2>. QED  BY <1>1, <2>1, ExecuteType DEF Answered, TypeOK
<1>2. CASE UNCHANGED engine
  BY <1>2 DEF engine, TypeOK
<1>3. CASE late' = Append(late, c) /\ UNCHANGED <<roster, autofill>>
  BY <1>3 DEF TypeOK
<1>. QED  BY <1>1, <1>2, <1>3 DEF TimedOut

LEMMA SentClients ==
    ASSUME TypeOK, NEW c \in Commands, TimedOut(c), NEW s \in Slots,
           roster'[s] # Free
    PROVE  IF s \in Taken THEN roster'[s].who = roster[s].who
                          ELSE roster'[s].who # Human
<1>1. CASE Answered(c)
  BY <1>1, ExecuteClients DEF Answered
<1>2. CASE UNCHANGED roster
  BY <1>2 DEF Taken
<1>. QED  BY <1>1, <1>2 DEF TimedOut, engine

\* The buffer after a command is sent holds harmless ones still.
LEMMA LateStays ==
    ASSUME TypeOK, LateOK, SameClients, NEW c \in Commands,
           late' = late \/ late' = Append(late, c),
           c.cmd \in {"forceteam", "clientkick"} => Harmless(c.slot)
    PROVE  LateOK'
<1>1. late \in Seq(Commands)
  BY DEF TypeOK
<1>2. ASSUME NEW i \in DOMAIN late',
             late'[i].cmd \in {"forceteam", "clientkick"}
      PROVE  late'[i] \in Commands /\ Harmless(late'[i].slot)
  <2>1. CASE i \in DOMAIN late /\ late'[i] = late[i]
    BY <1>1, <1>2, <2>1 DEF LateOK
  <2>2. CASE late'[i] = c
    BY <1>2, <2>2
  <2>3. CASE late' = late
    BY <1>2, <2>1, <2>3
  <2>4. CASE late' = Append(late, c)
    <3>1. /\ DOMAIN late = 1 .. Len(late)
          /\ DOMAIN late' = 1 .. Len(late) + 1
          /\ Len(late) \in Nat
      BY <1>1, <2>4
    <3>2. CASE i = Len(late) + 1
      BY <1>1, <2>2, <2>4, <3>2
    <3>3. CASE i \in 1 .. Len(late)
      BY <1>1, <2>1, <2>4, <3>1, <3>3
    <3>. QED  BY <1>2, <3>1, <3>2, <3>3
  <2>. QED  BY <2>3, <2>4
<1>3. ASSUME NEW i \in DOMAIN late',
             late'[i].cmd \in {"forceteam", "clientkick"}
      PROVE  LET s == late'[i].slot IN s \in Taken' => s \in BotSlots' \cup joined'
  <2>1. late'[i].slot \in Slots
    BY <1>2, <1>3, CommandKinds
  <2>. QED  BY <1>2, <1>3, <2>1, StaysHarmless
<1>. QED  BY <1>3 DEF LateOK, Harmless

-----------------------------------------------------------------------------
\* The inductive invariant.

LEMMA LeaveType ==
    ASSUME Leave
    PROVE  /\ pc' = "idle" /\ phase' = "plan" /\ try' = 0
           /\ snap' \in [Slots -> {Free} \cup Whos]
           /\ moves' = {} /\ todo' = {} /\ cur' = NoReplacement
BY DEF Leave, NoSnap

LEMMA InitIInv == Init => IInv
<1> SUFFICES ASSUME Init PROVE IInv
  OBVIOUS
<1> USE DEF Init
<1>1. TypeOK
  <2>1. roster \in [Slots -> {Free} \cup Clients]
    OBVIOUS
  <2>2. snap \in [Slots -> {Free} \cup Whos]
    BY DEF NoSnap
  <2>3. late \in Seq(Commands) /\ autofill \in BOOLEAN
    OBVIOUS
  <2>4. try \in 0 .. Attempts
    BY DEF Attempts
  <2>5. moves \in SUBSET Moves /\ todo \in SUBSET moves
    OBVIOUS
  <2>6. joined \in SUBSET Slots
    OBVIOUS
  <2>. QED  BY <2>1, <2>2, <2>3, <2>4, <2>5, <2>6 DEF TypeOK, Steps
<1>2. LocalsOK /\ AimsOK /\ LateOK
  BY DEF LocalsOK, AimsOK, LateOK
<1>. QED  BY <1>1, <1>2 DEF IInv

\* A step that ends the request.
LEMMA LeaveIInv ==
    ASSUME IInv, Leave, joined' \in SUBSET Slots,
           roster' \in [Slots -> {Free} \cup Clients], autofill' \in BOOLEAN,
           late' \in Seq(Commands), LateOK'
    PROVE  IInv'
<1>1. TypeOK'
  <2>1. try' \in 0 .. Attempts
    BY LeaveType DEF Attempts
  <2>2. moves' \in SUBSET Moves /\ todo' \in SUBSET moves'
    BY LeaveType
  <2>3. pc' \in Steps /\ phase' \in {"plan", "forced", "replaced"}
    BY LeaveType DEF Steps
  <2>4. cur' \in Replacements \cup {NoReplacement}
    BY LeaveType
  <2>. QED  BY <2>1, <2>2, <2>3, <2>4, LeaveType DEF TypeOK
<1>2. LocalsOK' /\ AimsOK'
  BY LeaveType DEF LocalsOK, AimsOK
<1>. QED  BY <1>1, <1>2 DEF IInv

\* One that ends it and leaves the engine alone.
LEMMA QuietLeave ==
    ASSUME IInv, Leave, UNCHANGED <<engine, joined>>
    PROVE  IInv'
<1>1. UNCHANGED <<roster, autofill, late, joined>>
  BY DEF engine
<1>2. LateOK'
  BY <1>1 DEF IInv, LateOK, Harmless, Taken, BotSlots
<1>. QED  BY <1>1, <1>2, LeaveIInv DEF IInv, TypeOK

\* Sending a command that is harmless keeps what is harmless.
LEMMA SentKeeps ==
    ASSUME IInv, NEW c \in Commands, TimedOut(c),
           joined \subseteq joined', joined' \in SUBSET Slots,
           c.cmd \in {"forceteam", "clientkick"} => Harmless(c.slot)
    PROVE  /\ SameClients
           /\ LateOK'
           /\ roster' \in [Slots -> {Free} \cup Clients]
           /\ autofill' \in BOOLEAN
           /\ late' \in Seq(Commands)
<1>1. SameClients
  BY SentClients DEF SameClients, IInv
<1>. QED  BY <1>1, SentType, LateStays DEF IInv

LEMMA SendForceTeamIInv == IInv /\ SendForceTeam => IInv'
<1> SUFFICES ASSUME IInv, SendForceTeam PROVE IInv'
  OBVIOUS
<1> USE DEF IInv
<1>1. PICK m \in todo :
        \/ /\ Answered(ForceTeam(m.slot, m.team))
           /\ todo' = todo \ {m}
           /\ IF todo' = {}
              THEN Goto("status") /\ phase' = "forced"
              ELSE Goto("force") /\ UNCHANGED phase
           /\ UNCHANGED <<snap, moves, cur, try>>
        \/ TimedOut(ForceTeam(m.slot, m.team)) /\ Leave
  BY DEF SendForceTeam
<1> DEFINE c == ForceTeam(m.slot, m.team)
<1>2. pc = "force" /\ joined' = joined
  BY DEF SendForceTeam
<1>3. m.slot \in Slots /\ m.team \in Teams
  BY DEF TypeOK, Moves
<1>4. c \in Commands /\ c.cmd = "forceteam" /\ c.slot = m.slot
  BY <1>3, CommandKinds
<1>5. Harmless(c.slot)
  BY <1>2, <1>4 DEF AimsOK
<1>6. TimedOut(c)
  BY <1>1 DEF TimedOut
<1> HIDE DEF c
<1>7. joined' \in SUBSET Slots
  BY <1>2 DEF TypeOK
<1>8. /\ SameClients /\ LateOK' /\ late' \in Seq(Commands)
      /\ autofill' \in BOOLEAN
      /\ roster' \in [Slots -> {Free} \cup Clients]
  BY <1>2, <1>4, <1>5, <1>6, <1>7, SentKeeps
<1>9. CASE Leave
  BY <1>7, <1>8, <1>9, LeaveIInv
<1>10. CASE /\ todo' = todo \ {m}
            /\ IF todo' = {}
               THEN Goto("status") /\ phase' = "forced"
               ELSE Goto("force") /\ UNCHANGED phase
            /\ UNCHANGED <<snap, moves, cur, try>>
  <2>1. TypeOK'
    <3>1. pc' \in Steps /\ phase' \in {"plan", "forced", "replaced"}
      BY <1>10 DEF Goto, TypeOK, Steps
    <3>. QED  BY <1>7, <1>8, <1>10, <3>1 DEF TypeOK
  <2>2. pc' \in {"status", "force"}
    BY <1>10 DEF Goto
  <2>3. LocalsOK'
    <3>1. try = 0 /\ try' = 0
      BY <1>2, <1>10 DEF LocalsOK
    <3>. QED  BY <2>2, <3>1 DEF LocalsOK
  <2>4. \A x \in todo : x.slot \in Slots /\ Harmless(x.slot)
    BY <1>2 DEF AimsOK, TypeOK, Moves
  <2>5. \A x \in todo : x.slot \in Taken' => x.slot \in BotSlots' \cup joined'
    BY <1>8, <2>4, StaysHarmless
  <2>6. AimsOK'
    BY <1>10, <2>2, <2>5 DEF AimsOK, Harmless
  <2>. QED  BY <1>8, <2>1, <2>3, <2>6
<1>. QED  BY <1>1, <1>9, <1>10

LEMMA RemoveBotIInv == IInv /\ RemoveBot => IInv'
<1> SUFFICES ASSUME IInv, RemoveBot PROVE IInv'
  OBVIOUS
<1> USE DEF IInv
<1> DEFINE c == ClientKick(cur.slot)
<1>1. pc = "remove" /\ joined' = joined /\ TimedOut(c)
  BY DEF RemoveBot, TimedOut
<1>2. cur \in Replacements /\ cur.slot \in Slots
  BY <1>1 DEF LocalsOK, Replacements
<1>3. c \in Commands /\ c.cmd = "clientkick" /\ c.slot = cur.slot
  BY <1>2, CommandKinds
<1>4. Harmless(c.slot)
  BY <1>1, <1>3 DEF AimsOK
<1>5. Leave \/ (pc' = "removed" /\ UNCHANGED locals)
  BY DEF RemoveBot, Goto
<1> HIDE DEF c
<1>6. joined' \in SUBSET Slots
  BY <1>1 DEF TypeOK
<1>7. /\ LateOK' /\ late' \in Seq(Commands) /\ autofill' \in BOOLEAN
      /\ roster' \in [Slots -> {Free} \cup Clients]
  BY <1>1, <1>3, <1>4, <1>6, SentKeeps
<1>8. CASE Leave
  BY <1>6, <1>7, <1>8, LeaveIInv
<1>9. CASE pc' = "removed" /\ UNCHANGED locals
  <2>1. TypeOK'
    BY <1>6, <1>7, <1>9 DEF TypeOK, locals, Steps
  <2>2. LocalsOK' /\ AimsOK'
    <3>1. try = 0 /\ UNCHANGED <<cur, try>>
      BY <1>1, <1>9 DEF LocalsOK, locals
    <3>. QED  BY <1>2, <1>9, <3>1 DEF LocalsOK, AimsOK
  <2>. QED  BY <1>7, <2>1, <2>2
<1>. QED  BY <1>5, <1>8, <1>9

LEMMA SendAddBotIInv == IInv /\ SendAddBot => IInv'
<1> SUFFICES ASSUME IInv, SendAddBot PROVE IInv'
  OBVIOUS
<1> USE DEF IInv
<1>1. pc = "add" /\ cur \in Replacements /\ try < Attempts
  BY DEF SendAddBot, LocalsOK
<1>2. joined \subseteq joined' /\ joined' \in SUBSET Slots
  BY DEF SendAddBot, TypeOK
<1> DEFINE c == AddBot(cur.who, cur.team)
<1>3. c \in Commands /\ c.cmd = "addbot"
  BY <1>1, CommandKinds DEF Replacements
<1>4. TimedOut(c)
  BY DEF SendAddBot, TimedOut
<1> HIDE DEF c
<1>5. /\ LateOK' /\ late' \in Seq(Commands) /\ autofill' \in BOOLEAN
      /\ roster' \in [Slots -> {Free} \cup Clients]
  BY <1>2, <1>3, <1>4, SentKeeps
<1>6. CASE Leave
  BY <1>2, <1>5, <1>6, LeaveIInv
<1>7. CASE /\ try' = try + 1
           /\ pc' = "added"
           /\ UNCHANGED <<phase, snap, moves, todo, cur>>
  <2>1. try' \in 0 .. Attempts
    BY <1>1, <1>7 DEF TypeOK, Attempts
  <2>2. TypeOK'
    BY <1>2, <1>5, <1>7, <2>1 DEF TypeOK, Steps
  <2>3. LocalsOK' /\ AimsOK'
    BY <1>1, <1>7 DEF LocalsOK, AimsOK
  <2>. QED  BY <1>5, <2>2, <2>3
<1>. QED  BY <1>6, <1>7 DEF SendAddBot, Goto

LEMMA ReadStatusIInv == IInv /\ ReadStatus => IInv'
<1> SUFFICES ASSUME IInv, ReadStatus PROVE IInv'
  OBVIOUS
<1> USE DEF IInv
<1>1. /\ snap' = [s \in Slots |-> IF s \in Taken THEN roster[s].who ELSE Free]
      /\ UNCHANGED <<roster, autofill, late, phase, moves, todo, cur, try>>
      /\ late = <<>> /\ pc' = "teams"
      /\ joined' = IF phase = "plan" THEN {} ELSE joined
  BY DEF ReadStatus, StatusAnswered, Goto, engine
<1>2. \A s \in Taken : roster[s].who \in Whos
  BY DEF TypeOK, Taken, Clients
<1>3. snap' \in [Slots -> {Free} \cup Whos]
  BY <1>1, <1>2
<1>4. TypeOK'
  BY <1>1, <1>3 DEF TypeOK, Steps
<1>5. \A s \in Slots : snap'[s] \in BotNames => s \notin Taken \/ s \in BotSlots
  BY <1>1, RebalanceAssumption DEF BotSlots
<1>6. AimsOK'
  BY <1>1, <1>5 DEF AimsOK, Harmless, Taken, BotSlots
<1>7. LocalsOK' /\ LateOK'
  <2>1. pc = "status" /\ try = 0
    BY DEF ReadStatus, LocalsOK
  <2>. QED  BY <1>1, <2>1 DEF LocalsOK, LateOK
<1>. QED  BY <1>4, <1>6, <1>7

LEMMA PlanMovesIInv == IInv /\ PlanMoves => IInv'
<1> SUFFICES ASSUME IInv, PlanMoves PROVE IInv'
  OBVIOUS
<1> USE DEF IInv
<1>1. CASE Leave
  BY <1>1, QuietLeave DEF PlanMoves
<1>2. CASE \E t \in Logged :
             /\ \E chosen \in SUBSET Movable(t) :
                   moves' = {[slot |-> s, who |-> snap[s],
                              team |-> IF From(Tally(t)) = "red" THEN "blue" ELSE "red"] :
                                s \in chosen}
             /\ todo' = moves'
             /\ Goto("force")
             /\ snap' = NoSnap
             /\ UNCHANGED <<phase, cur, try>>
  <2>a. PICK t \in Logged :
          \E chosen \in SUBSET Movable(t) :
             moves' = {[slot |-> s, who |-> snap[s],
                        team |-> IF From(Tally(t)) = "red" THEN "blue" ELSE "red"] :
                          s \in chosen}
    BY <1>2
  <2>1. PICK chosen \in SUBSET Movable(t) :
             moves' = {[slot |-> s, who |-> snap[s],
                        team |-> IF From(Tally(t)) = "red" THEN "blue" ELSE "red"] :
                          s \in chosen}
    BY <2>a
  <2>2. /\ todo' = moves' /\ pc' = "force" /\ snap' = NoSnap
        /\ UNCHANGED <<phase, cur, try, roster, autofill, late, joined>>
        /\ pc = "teams" /\ phase = "plan"
    BY <1>2 DEF PlanMoves, Goto, engine
  <2>3. \A s \in chosen : s \in Slots /\ snap[s] \in BotNames
    BY DEF Movable, On, Humans, TypeOK, Whos
  <2>4. moves' \in SUBSET Moves
    BY <2>1, <2>3 DEF Moves, Teams
  <2>5. snap' \in [Slots -> {Free} \cup Whos]
    BY <2>2 DEF NoSnap
  <2>6. TypeOK'
    BY <2>2, <2>4, <2>5 DEF TypeOK, Steps
  <2>7. \A m \in moves' : Harmless(m.slot)
    BY <2>1, <2>2, <2>3 DEF AimsOK
  <2>8. AimsOK'
    BY <2>2, <2>7 DEF AimsOK, Harmless, Taken, BotSlots
  <2>9. LocalsOK' /\ LateOK'
    BY <2>2 DEF LocalsOK, LateOK, Harmless, Taken, BotSlots
  <2>. QED  BY <2>6, <2>8, <2>9
<1>. QED  BY <1>1, <1>2 DEF PlanMoves

LEMMA SelectBotIInv == IInv /\ SelectBot => IInv'
<1> SUFFICES ASSUME IInv, SelectBot PROVE IInv'
  OBVIOUS
<1> USE DEF IInv
<1>1. CASE Leave /\ UNCHANGED joined
  BY <1>1, QuietLeave DEF SelectBot
<1>2. CASE ~(Leave /\ UNCHANGED joined)
  <2>1. PICK m \in todo, s \in BotSlots :
          /\ LET rest == {x \in BotSlots : roster[x].who # m.who} IN
             cur' = [slot |-> s, who |-> m.who, team |-> m.team,
                     rest |-> {roster[x].who : x \in rest},
                     n |-> Cardinality(rest)]
          /\ todo' = todo \ {m}
    BY <1>2 DEF SelectBot
  <2>2. /\ late = <<>> /\ joined' = {} /\ pc' = "remove"
        /\ UNCHANGED <<phase, snap, moves, try, roster, autofill, late>>
    BY <1>2 DEF SelectBot, StatusAnswered, Goto, engine
  <2> DEFINE rest == {x \in BotSlots : roster[x].who # m.who}
  <2>3. rest \in SUBSET Slots /\ s \in Slots
    BY DEF BotSlots, Taken
  <2>4. Cardinality(rest) \in Nat
    BY <2>3, RebalanceAssumption, FS_Subset, FS_CardinalityType
  <2>5. {roster[x].who : x \in rest} \in SUBSET BotNames
    BY DEF BotSlots, Taken, TypeOK, Clients, Whos
  <2>6. m.who \in BotNames /\ m.team \in Teams
    BY DEF TypeOK, Moves
  <2> HIDE DEF rest
  <2>7. cur' \in Replacements /\ cur'.slot = s
    BY <2>1, <2>3, <2>4, <2>5, <2>6 DEF Replacements, rest
  <2>8. TypeOK'
    BY <2>1, <2>2, <2>7 DEF TypeOK, Steps
  <2>9. LocalsOK' /\ LateOK'
    <3>1. pc = "select" /\ try = 0
      BY DEF SelectBot, LocalsOK
    <3>. QED  BY <2>2, <2>7, <3>1 DEF LocalsOK, LateOK
  <2>10. AimsOK'
    BY <2>2, <2>7 DEF AimsOK, Harmless, BotSlots, Taken
  <2>. QED  BY <2>8, <2>9, <2>10
<1>. QED  BY <1>1, <1>2

\* The steps that only move the handler on.
LEMMA QuietIInv ==
    ASSUME IInv, UNCHANGED <<engine, joined>>,
           Begin \/ ConfirmBalanced \/ LookAgain \/ GiveUpLooking
           \/ ConfirmRemoved \/ ConfirmAdded
    PROVE  IInv'
<1> USE DEF IInv
<1>1. CASE Leave
  BY <1>1, QuietLeave
<1>2. UNCHANGED <<roster, autofill, late, joined>>
  BY DEF engine
<1>3. LateOK'
  BY <1>2 DEF LateOK, Harmless, Taken, BotSlots
<1>4. CASE Begin
  <2>1. TypeOK'
    BY <1>2, <1>4 DEF Begin, Goto, locals, TypeOK, Steps
  <2>2. LocalsOK' /\ AimsOK'
    BY <1>4 DEF Begin, Goto, LocalsOK, AimsOK, locals
  <2>. QED  BY <1>3, <2>1, <2>2
<1>5. CASE LookAgain
  <2>1. TypeOK'
    BY <1>2, <1>5 DEF LookAgain, Goto, TypeOK, Steps, NoSnap
  <2>. QED  BY <1>3, <1>5, <2>1 DEF LookAgain, Goto, LocalsOK, AimsOK
<1>6. CASE GiveUpLooking /\ ~Leave
  <2>1. TypeOK'
    BY <1>2, <1>6 DEF GiveUpLooking, Goto, TypeOK, Steps
  <2>. QED  BY <1>3, <1>6, <2>1 DEF GiveUpLooking, Goto, LocalsOK, AimsOK
<1>7. CASE ConfirmRemoved /\ ~Leave
  <2>1. pc = "removed" /\ pc' = "add" /\ UNCHANGED locals
    BY <1>7 DEF ConfirmRemoved, Goto
  <2>2. TypeOK'
    BY <1>2, <2>1 DEF locals, TypeOK, Steps
  <2>3. LocalsOK' /\ AimsOK'
    BY <2>1 DEF LocalsOK, AimsOK, locals, Attempts
  <2>. QED  BY <1>3, <2>2, <2>3
<1>8. CASE ConfirmAdded /\ ~Leave
  <2>1. pc' \in {"status", "select", "add"}
    BY <1>8 DEF ConfirmAdded, Goto
  <2>2. TypeOK'
    <3>1. CASE pc' = "add" /\ UNCHANGED locals
      BY <1>2, <3>1 DEF locals, TypeOK, Steps
    <3>2. CASE /\ cur' = NoReplacement /\ try' = 0
               /\ UNCHANGED <<snap, moves, todo>>
               /\ phase' \in {phase, "replaced"}
      BY <1>2, <2>1, <3>2 DEF TypeOK, Steps, Attempts
    <3>. QED  BY <1>8, <3>1, <3>2 DEF ConfirmAdded, Goto
  <2>3. LocalsOK' /\ AimsOK'
    <3>1. AimsOK'
      BY <2>1 DEF AimsOK
    <3>2. CASE pc' # "add"
      <4>1. try' = 0 /\ pc' \in {"status", "select"}
        BY <1>8, <2>1, <3>2 DEF ConfirmAdded, Goto
      <4>2. pc' \notin {"remove", "removed", "add", "added"}
        BY <4>1
      <4>. QED  BY <3>1, <4>1, <4>2 DEF LocalsOK
    <3>3. CASE pc' = "add"
      <4>1. /\ pc = "added" /\ try < Attempts
            /\ UNCHANGED <<phase, snap, moves, todo, cur, try>>
        BY <1>8, <3>3 DEF ConfirmAdded, Goto, MayRetry, locals
      <4>2. cur' \in Replacements /\ try' < Attempts
        BY <4>1 DEF LocalsOK
      <4>3. pc' # "added" /\ pc' \notin {"status", "teams", "force"}
        BY <3>3
      <4>. QED  BY <3>1, <3>3, <4>2, <4>3 DEF LocalsOK
    <3>. QED  BY <3>1, <3>2, <3>3
  <2>. QED  BY <1>3, <2>2, <2>3
<1>. QED  BY <1>1, <1>4, <1>5, <1>6, <1>7, <1>8 DEF ConfirmBalanced

LEMMA StepIInv == IInv /\ Step => IInv'
<1> SUFFICES ASSUME IInv, Step PROVE IInv'
  OBVIOUS
<1>1. CASE \/ Begin \/ ConfirmBalanced \/ LookAgain \/ GiveUpLooking
           \/ ConfirmRemoved \/ ConfirmAdded
  <2>1. UNCHANGED <<engine, joined>>
    BY <1>1 DEF Begin, ConfirmBalanced, LookAgain, GiveUpLooking,
                ConfirmRemoved, ConfirmAdded
  <2>. QED  BY <1>1, <2>1, QuietIInv
<1>2. CASE ReadStatus \/ PlanMoves \/ SelectBot
  BY <1>2, ReadStatusIInv, PlanMovesIInv, SelectBotIInv
<1>3. CASE SendForceTeam \/ RemoveBot \/ SendAddBot
  BY <1>3, SendForceTeamIInv, RemoveBotIInv, SendAddBotIInv
<1>. QED  BY <1>1, <1>2, <1>3 DEF Step

\* People and late commands change who is there, and reach no one they should
\* not.
LEMMA WorldIInv ==
    ASSUME IInv, SameClients, joined' \in SUBSET Slots,
           UNCHANGED <<pc, locals>>,
           roster' \in [Slots -> {Free} \cup Clients], autofill' \in BOOLEAN,
           late' = late \/ late' = <<>> \/ (late # <<>> /\ late' = Tail(late))
    PROVE  IInv'
<1> USE DEF IInv
<1>1. late \in Seq(Commands)
  BY DEF TypeOK
<1>2. late' \in Seq(Commands)
  <2>1. <<>> \in Seq(Commands)
    OBVIOUS
  <2>2. late # <<>> => Tail(late) \in Seq(Commands)
    BY <1>1
  <2>. QED  BY <1>1, <2>1, <2>2
<1>3. TypeOK'
  BY <1>2 DEF TypeOK, locals
<1>4. LocalsOK'
  BY DEF LocalsOK, locals
<1>5. \A s \in Slots : Harmless(s) => (s \in Taken' => s \in BotSlots' \cup joined')
  BY StaysHarmless
<1>6. LateOK'
  <2>1. \A i \in DOMAIN late' : \E j \in DOMAIN late : late'[i] = late[j]
    <3>1. CASE late # <<>> /\ late' = Tail(late)
      <4>1. /\ Len(late) \in Nat /\ DOMAIN late = 1 .. Len(late)
            /\ DOMAIN late' = 1 .. Len(late) - 1
            /\ \A i \in 1 .. Len(late) - 1 : late'[i] = late[i + 1]
        BY <1>1, <3>1
      <4>. QED  BY <4>1
    <3>. QED  BY <3>1
  <2>2. \A j \in DOMAIN late : late[j] \in Commands
    BY <1>1
  <2>. QED  BY <1>5, <2>1, <2>2, CommandKinds DEF LateOK, Harmless
<1>7. AimsOK'
  <2>1. \A m \in todo : m.slot \in Slots
    BY DEF TypeOK, Moves
  <2>2. pc = "remove" => cur.slot \in Slots
    BY DEF LocalsOK, Replacements
  <2>. QED  BY <1>5, <2>1, <2>2 DEF AimsOK, Harmless, locals
<1>. QED  BY <1>3, <1>4, <1>6, <1>7

LEMMA NextIInv == IInv /\ [Next]_vars => IInv'
<1> SUFFICES ASSUME IInv, [Next]_vars PROVE IInv'
  OBVIOUS
<1>0. TypeOK
  BY DEF IInv
<1>1. CASE Step
  BY <1>1, StepIInv
<1>2. CASE ExecuteLate
  <2>1. Head(late) \in Commands
    BY <1>0, <1>2 DEF ExecuteLate, TypeOK
  <2>2. roster' \in [Slots -> {Free} \cup Clients]
    BY <1>0, <1>2, <2>1, ExecuteType DEF ExecuteLate
  <2>3. joined \subseteq joined' /\ joined' \in SUBSET Slots
    BY <1>0, <1>2 DEF ExecuteLate, TypeOK
  <2>4. SameClients
    BY <1>0, <1>2, <2>1, <2>3, ExecuteClients DEF ExecuteLate, SameClients
  <2>5. autofill' \in BOOLEAN
    BY <1>0, <1>2 DEF ExecuteLate, Execute, TypeOK
  <2>. QED  BY <1>2, <2>2, <2>3, <2>4, <2>5, WorldIInv DEF ExecuteLate
<1>3. CASE HumanJoins
  <2>1. PICK s \in Slots \ Taken, side \in Sides :
            /\ roster' = [roster EXCEPT ![s] = [who |-> Human, team |-> side]]
            /\ joined' = joined \cup {s}
    BY <1>3 DEF HumanJoins
  <2>2. [who |-> Human, team |-> side] \in Clients
    BY DEF Clients, Whos
  <2>3. /\ roster' \in [Slots -> {Free} \cup Clients]
        /\ joined' \in SUBSET Slots
    BY <1>0, <2>1, <2>2 DEF TypeOK
  <2>4. SameClients
    BY <1>0, <2>1 DEF SameClients, TypeOK, Taken
  <2>. QED  BY <1>0, <1>3, <2>3, <2>4, WorldIInv DEF HumanJoins, TypeOK
<1>4. CASE HumanSwitches
  <2>1. PICK s \in Taken \ BotSlots, side \in Sides :
            roster' = [roster EXCEPT ![s].team = side]
    BY <1>4 DEF HumanSwitches
  <2>2. s \in Slots /\ roster[s] \in Clients
    BY <1>0 DEF TypeOK, Taken
  <2>3. /\ [roster[s] EXCEPT !.team = side] \in Clients
        /\ [roster[s] EXCEPT !.team = side].who = roster[s].who
    BY <2>2 DEF Clients
  <2>4. roster' \in [Slots -> {Free} \cup Clients]
    BY <1>0, <2>1, <2>2, <2>3 DEF TypeOK
  <2>5. SameClients
    BY <1>0, <1>4, <2>1, <2>2, <2>3 DEF HumanSwitches, SameClients, TypeOK, Taken
  <2>6. joined' \in SUBSET Slots
    BY <1>0, <1>4 DEF HumanSwitches, TypeOK
  <2>. QED  BY <1>0, <1>4, <2>4, <2>5, <2>6, WorldIInv DEF HumanSwitches, TypeOK
<1>5. CASE Disconnects
  <2>1. PICK s \in Taken : roster' = [roster EXCEPT ![s] = Free]
    BY <1>5 DEF Disconnects
  <2>2. /\ roster' \in [Slots -> {Free} \cup Clients]
        /\ joined' \in SUBSET Slots
    BY <1>0, <1>5, <2>1 DEF Disconnects, TypeOK
  <2>3. SameClients
    BY <1>0, <1>5, <2>1 DEF Disconnects, SameClients, TypeOK, Taken
  <2>. QED  BY <1>0, <1>5, <2>2, <2>3, WorldIInv DEF Disconnects, TypeOK
<1>6. CASE AutoFill
  <2>1. PICK s \in Slots \ Taken, b \in FillBots, side \in Teams :
            /\ roster' = [roster EXCEPT ![s] = [who |-> b, team |-> side]]
            /\ joined' = joined \cup {s}
    BY <1>6 DEF AutoFill
  <2>2. [who |-> b, team |-> side] \in Clients
    BY RebalanceAssumption DEF Clients, Whos, Sides
  <2>3. /\ roster' \in [Slots -> {Free} \cup Clients]
        /\ joined' \in SUBSET Slots
    BY <1>0, <2>1, <2>2 DEF TypeOK
  <2>4. SameClients
    BY <1>0, <2>1 DEF SameClients, TypeOK, Taken
  <2>. QED  BY <1>0, <1>6, <2>3, <2>4, WorldIInv DEF AutoFill, TypeOK
<1>7. CASE ServerRestarts
  <2>1. /\ roster' \in [Slots -> {Free} \cup Clients]
        /\ joined' \in SUBSET Slots
        /\ SameClients
    BY <1>0, <1>7 DEF ServerRestarts, SameClients, TypeOK
  <2>. QED  BY <1>7, <2>1, WorldIInv DEF ServerRestarts
<1>8. CASE Restart
  BY <1>8, QuietLeave DEF Restart
<1>9. CASE UNCHANGED vars
  <2>1. UNCHANGED <<roster, autofill, late, joined, pc, locals>>
    BY <1>9 DEF vars, locals
  <2>2. SameClients /\ joined' \in SUBSET Slots
        /\ roster' \in [Slots -> {Free} \cup Clients] /\ autofill' \in BOOLEAN
    BY <1>0, <2>1 DEF SameClients, TypeOK, Taken
  <2>. QED  BY <2>1, <2>2, WorldIInv
<1>. QED  BY <1>1, <1>2, <1>3, <1>4, <1>5, <1>6, <1>7, <1>8, <1>9 DEF Next, World

-----------------------------------------------------------------------------
\* The inductive invariant of BotRebalance.
THEOREM Invariance == Spec => []IInv
BY InitIInv, NextIInv, PTL DEF Spec

\* Type correctness.
THEOREM TypeCorrect == Spec => []TypeOK
<1>1. IInv => TypeOK
  BY DEF IInv
<1>. QED  BY <1>1, Invariance, PTL

\* No forceteam and no clientkick of a rebalance, in time or late, reaches a
\* person who was there when it looked for the bots to move.
THEOREM NewcomersOnly == Spec => OnlyNewcomersTouched
<1> DEFINE A == SendForceTeam \/ RemoveBot \/ ExecuteLate =>
                   \A s \in Taken \ (BotSlots \cup joined) :
                      roster'[s] = roster[s]
<1>1. ASSUME IInv, [Next]_vars, SendForceTeam \/ RemoveBot \/ ExecuteLate,
             NEW s \in Taken \ (BotSlots \cup joined)
      PROVE  roster'[s] = roster[s]
  <2>0. TypeOK /\ ~Harmless(s)
    BY <1>1 DEF IInv, Harmless
  <2>1. ASSUME NEW c \in Commands,
               c.cmd \in {"forceteam", "clientkick"} => Harmless(c.slot),
               Execute(c) \/ UNCHANGED roster
        PROVE  roster'[s] = roster[s]
    <3>1. c.cmd \in {"forceteam", "clientkick"} => c.slot # s
      BY <2>0, <2>1
    <3>. QED  BY <2>0, <2>1, <3>1, ExecuteAims
  <2>2. CASE SendForceTeam
    <3>1. PICK m \in todo : TimedOut(ForceTeam(m.slot, m.team))
      BY <2>2 DEF SendForceTeam, TimedOut
    <3>2. m.slot \in Slots /\ m.team \in Teams
      BY <2>0 DEF TypeOK, Moves
    <3>3. /\ ForceTeam(m.slot, m.team) \in Commands
          /\ ForceTeam(m.slot, m.team).slot = m.slot
      BY <3>2, CommandKinds
    <3>4. Harmless(m.slot)
      BY <1>1, <2>2 DEF SendForceTeam, IInv, AimsOK
    <3>5. Execute(ForceTeam(m.slot, m.team)) \/ UNCHANGED roster
      BY <3>1 DEF TimedOut, Answered, engine
    <3>. QED  BY <2>1, <3>3, <3>4, <3>5
  <2>3. CASE RemoveBot
    <3>1. cur.slot \in Slots /\ Harmless(cur.slot)
      BY <1>1, <2>3 DEF RemoveBot, IInv, AimsOK, LocalsOK, Replacements
    <3>2. /\ ClientKick(cur.slot) \in Commands
          /\ ClientKick(cur.slot).slot = cur.slot
      BY <3>1, CommandKinds
    <3>3. Execute(ClientKick(cur.slot)) \/ UNCHANGED roster
      BY <2>3 DEF RemoveBot, TimedOut, Answered, engine
    <3>. QED  BY <2>1, <3>1, <3>2, <3>3
  <2>4. CASE ExecuteLate
    <3>1. late \in Seq(Commands) /\ late # <<>>
      BY <2>0, <2>4 DEF ExecuteLate, TypeOK
    <3>2. Head(late) = late[1] /\ 1 \in DOMAIN late /\ late[1] \in Commands
      BY <3>1
    <3>3. late[1].cmd \in {"forceteam", "clientkick"} => Harmless(late[1].slot)
      BY <1>1, <3>2 DEF IInv, LateOK
    <3>4. Execute(late[1])
      BY <2>4, <3>2 DEF ExecuteLate
    <3>. QED  BY <2>1, <3>2, <3>3, <3>4
  <2>. QED  BY <1>1, <2>2, <2>3, <2>4
<1>2. IInv /\ [Next]_vars => A
  BY <1>1
<1>3. OnlyNewcomersTouched <=> [][A]_vars
  BY PTL DEF OnlyNewcomersTouched
<1>. QED  BY <1>2, <1>3, Invariance, PTL DEF Spec

-----------------------------------------------------------------------------
\* What is confirmed.

\* What waitForBalancedBotTeams counts is who plays on the teams, provided that
\* the status table is still true.
LEMMA TallyIsPresent ==
    ASSUME TypeOK, NEW t \in Logged, NEW side \in Teams,
           \A s \in Slots : snap[s] = IF s \in Taken THEN roster[s].who ELSE Free
    PROVE  /\ Humans(On(side, t)) =
                 {s \in Taken : roster[s].team = side /\ (roster[s].who = Human) = TRUE}
           /\ On(side, t) \ Humans(Slots) =
                 {s \in Taken : roster[s].team = side /\ (roster[s].who = Human) = FALSE}
<1>1. \A s \in Taken : s \in Slots /\ roster[s].who \in Whos
  BY DEF TypeOK, Taken, Clients
<1>2. \A s \in Slots : snap[s] # Free <=> s \in Taken
  BY <1>1, RebalanceAssumption DEF Whos
<1>3. On(side, t) = {s \in Taken : roster[s].team = side}
  BY <1>1, <1>2 DEF On, Logged
<1>4. \A s \in Slots : s \in Humans(Slots) <=> s \in Taken /\ roster[s].who = Human
  BY RebalanceAssumption DEF Humans
<1>5. \A s \in On(side, t) : snap[s] = roster[s].who
  BY <1>1, <1>3
<1>6. Humans(On(side, t)) = {s \in Taken : roster[s].team = side /\ roster[s].who = Human}
  BY <1>3, <1>5 DEF Humans
<1>7. On(side, t) \ Humans(Slots) =
         {s \in Taken : roster[s].team = side /\ roster[s].who # Human}
  BY <1>1, <1>3, <1>4
<1>. QED  BY <1>6, <1>7

\* "confirmed" is said of balanced teams.
THEOREM ConfirmedBalance == Spec => ConfirmedIsBalanced
<1> DEFINE Sum(side) == Present(side, TRUE) + Present(side, FALSE)
           A == /\ ConfirmBalanced
                /\ \A s \in Slots :
                      snap[s] = IF s \in Taken THEN roster[s].who ELSE Free
                => Abs(Sum("red") - Sum("blue")) <= 1
<1>1. ASSUME TypeOK, ConfirmBalanced,
             \A s \in Slots : snap[s] = IF s \in Taken THEN roster[s].who ELSE Free
      PROVE  Abs(Sum("red") - Sum("blue")) <= 1
  <2>1. PICK t \in Logged : Balanced(Tally(t))
    BY <1>1 DEF ConfirmBalanced, SeenBalanced
  <2>2. ASSUME NEW side \in Teams
        PROVE  /\ Cardinality(Humans(On(side, t))) = Present(side, TRUE)
               /\ Cardinality(On(side, t) \ Humans(Slots)) = Present(side, FALSE)
    BY <1>1, TallyIsPresent DEF Present
  <2>3. "red" \in Teams /\ "blue" \in Teams
    BY DEF Teams
  <2>4. Tally(t) = [redHumans  |-> Present("red", TRUE),
                    blueHumans |-> Present("blue", TRUE),
                    redBots    |-> Present("red", FALSE),
                    blueBots   |-> Present("blue", FALSE)]
    BY <2>2, <2>3 DEF Tally
  <2>5. Difference(Tally(t)) = Sum("red") - Sum("blue")
    BY <2>4 DEF Difference
  <2>. QED  BY <2>1, <2>5 DEF Balanced
<1>2. IInv /\ [Next]_vars => A
  BY <1>1 DEF IInv
<1>3. ConfirmedIsBalanced <=> [][A]_vars
  BY PTL DEF ConfirmedIsBalanced
<1>. QED  BY <1>2, <1>3, Invariance, PTL DEF Spec

-----------------------------------------------------------------------------
\* Replacing a bot.

\* The bot to replace has a name of its own.  From when its removal was seen
\* until the new one is seen, any bot of its name is on the new team, and every
\* datagram under way would put it there; provided that the other bots' names
\* are different, for the table is compared by names, and that auto-fill is off.
ReplaceOK ==
    /\ pc \in {"remove", "removed", "add", "added"} => cur.who \notin cur.rest
    /\ pc \in {"add", "added"} /\ Cardinality(cur.rest) = cur.n /\ ~autofill =>
          /\ \A s \in BotSlots : roster[s].who = cur.who => roster[s].team = cur.team
          /\ \A i \in DOMAIN late : late[i] = AddBot(cur.who, cur.team)

\* If every name in a set is that of a bot outside D, there are as many bots
\* besides those in D.
LEMMA NamesCount ==
    ASSUME TypeOK, NEW names, NEW D \in SUBSET BotSlots,
           \A b \in names : \E s \in BotSlots \ D : roster[s].who = b
    PROVE  /\ IsFiniteSet(BotSlots)
           /\ Cardinality(names) \in Nat
           /\ Cardinality(names) <= Cardinality(BotSlots \ D)
<1> DEFINE E == BotSlots \ D
           f == [b \in names |-> CHOOSE s \in E : roster[s].who = b]
<1>1. BotSlots \in SUBSET Slots /\ E \in SUBSET Slots
  BY DEF BotSlots, Taken
<1>2. IsFiniteSet(BotSlots) /\ IsFiniteSet(E)
  BY <1>1, RebalanceAssumption, FS_Subset
<1>3. \A b \in names : f[b] \in E /\ roster[f[b]].who = b
  OBVIOUS
<1>4. f \in [names -> E]
  BY <1>3
<1>5. f \in Injection(names, E)
  BY <1>3, <1>4 DEF Injection, IsInjective
<1> HIDE DEF f, E
<1>6. IsFiniteSet(names) /\ Cardinality(names) <= Cardinality(E)
  BY <1>2, <1>5, FS_Injection
<1>. QED  BY <1>2, <1>6, FS_CardinalityType DEF E

\* A table that shows as many bots as there are names, and all the names, shows
\* none of another name.
LEMMA NoneBesides ==
    ASSUME TypeOK, NEW names, NEW who, who \notin names, NEW n \in Nat,
           Observed(n, names), Cardinality(names) = n
    PROVE  \A s \in BotSlots : roster[s].who # who
<1> SUFFICES ASSUME NEW s \in BotSlots, roster[s].who = who PROVE FALSE
  OBVIOUS
<1>1. IsFiniteSet(BotSlots)
  <2>1. BotSlots \in SUBSET Slots
    BY DEF BotSlots, Taken
  <2>. QED  BY <2>1, RebalanceAssumption, FS_Subset
<1>2. Cardinality(BotSlots) = n /\ (n = 0 \/ names \subseteq BotsPresent)
  BY DEF Observed
<1>3. n # 0
  BY <1>1, <1>2, FS_EmptySet
<1>4. \A b \in names : \E x \in BotSlots \ {s} : roster[x].who = b
  BY <1>2, <1>3 DEF BotsPresent
<1>5. n <= Cardinality(BotSlots \ {s})
  BY <1>4, NamesCount
<1>6. Cardinality(BotSlots \ {s}) = n - 1
  BY <1>1, <1>2, FS_RemoveElement
<1>. QED  BY <1>5, <1>6

\* One that shows one bot more, and its name too, shows it once.
LEMMA OneBesides ==
    ASSUME TypeOK, NEW names, NEW who, who \notin names, NEW n \in Nat,
           Observed(n + 1, names \cup {who}), Cardinality(names) = n
    PROVE  \E s \in BotSlots :
              /\ roster[s].who = who
              /\ \A x \in BotSlots \ {s} : roster[x].who # who
<1>1. IsFiniteSet(BotSlots)
  <2>1. BotSlots \in SUBSET Slots
    BY DEF BotSlots, Taken
  <2>. QED  BY <2>1, RebalanceAssumption, FS_Subset
<1>2. Cardinality(BotSlots) = n + 1 /\ names \cup {who} \subseteq BotsPresent
  BY DEF Observed
<1>3. PICK s \in BotSlots : roster[s].who = who
  BY <1>2 DEF BotsPresent
<1>4. ASSUME NEW x \in BotSlots \ {s}, roster[x].who = who
      PROVE  FALSE
  <2>1. \A b \in names : \E y \in BotSlots \ {s, x} : roster[y].who = b
    BY <1>2, <1>3, <1>4 DEF BotsPresent
  <2>2. n <= Cardinality(BotSlots \ {s, x})
    BY <1>3, <1>4, <2>1, NamesCount
  <2>a. /\ IsFiniteSet(BotSlots \ {s})
        /\ Cardinality(BotSlots \ {s}) = Cardinality(BotSlots) - 1
    BY <1>1, <1>3, FS_RemoveElement
  <2>3. Cardinality(BotSlots \ {s}) = n /\ IsFiniteSet(BotSlots \ {s})
    BY <1>2, <2>a
  <2>4. Cardinality((BotSlots \ {s}) \ {x}) = n - 1
    BY <1>4, <2>3, FS_RemoveElement
  <2>5. (BotSlots \ {s}) \ {x} = BotSlots \ {s, x}
    OBVIOUS
  <2>. QED  BY <2>2, <2>4, <2>5
<1>. QED  BY <1>3, <1>4

\* What an addbot, or people, may do while a bot is replaced.
BotsStay ==
    \A s \in BotSlots' :
       \/ s \in BotSlots /\ roster'[s] = roster[s]
       \/ roster'[s] = [who |-> cur.who, team |-> cur.team]

LEMMA ReplaceStays ==
    ASSUME ReplaceOK, BotsStay, UNCHANGED <<cur, autofill>>,
           pc \in {"add", "added"}, pc' \in {"add", "added"},
           Cardinality(cur.rest) = cur.n /\ ~autofill =>
              \A i \in DOMAIN late' : late'[i] = AddBot(cur.who, cur.team)
    PROVE  ReplaceOK'
<1>1. cur'.who \notin cur'.rest
  BY DEF ReplaceOK
<1>2. ASSUME Cardinality(cur.rest) = cur.n, ~autofill, NEW s \in BotSlots',
             roster'[s].who = cur.who
      PROVE  roster'[s].team = cur.team
  BY <1>2 DEF ReplaceOK, BotsStay
<1>. QED  BY <1>1, <1>2 DEF ReplaceOK

LEMMA AddBotStays ==
    ASSUME TypeOK, cur \in Replacements,
           Execute(AddBot(cur.who, cur.team)) \/ UNCHANGED roster
    PROVE  BotsStay
<1> DEFINE b == [who |-> cur.who, team |-> cur.team]
<1>1. CASE UNCHANGED roster
  BY <1>1 DEF BotsStay, BotSlots, Taken
<1>2. CASE Execute(AddBot(cur.who, cur.team)) /\ ~UNCHANGED roster
  <2>1. PICK s \in Slots \ Taken : roster' = [roster EXCEPT ![s] = b]
    BY <1>2 DEF Execute, AddBot
  <2>. QED  BY <2>1 DEF TypeOK, BotsStay, BotSlots, Taken
<1>. QED  BY <1>1, <1>2

LEMMA SendAddBotReplace == IInv /\ ReplaceOK /\ SendAddBot => ReplaceOK'
<1> SUFFICES ASSUME IInv, ReplaceOK, SendAddBot PROVE ReplaceOK'
  OBVIOUS
<1> DEFINE c == AddBot(cur.who, cur.team)
<1>1. CASE Leave
  BY <1>1, LeaveType DEF ReplaceOK
<1>2. CASE TimedOut(c) /\ pc' = "added" /\ UNCHANGED cur
  <2>1. pc = "add" /\ cur \in Replacements /\ TypeOK
    BY DEF SendAddBot, IInv, LocalsOK
  <2>2. Execute(c) \/ UNCHANGED roster
    BY <1>2 DEF TimedOut, Answered, engine
  <2>3. BotsStay
    BY <2>1, <2>2, AddBotStays
  <2>4. late' = late \/ late' = Append(late, c)
    BY <1>2 DEF TimedOut, Answered, engine
  <2>6. UNCHANGED autofill
    BY <1>2 DEF TimedOut, Answered, engine, Execute
  <2>5. ASSUME Cardinality(cur.rest) = cur.n, ~autofill, NEW i \in DOMAIN late'
        PROVE  late'[i] = c
    <3>1. \A j \in DOMAIN late : late[j] = c
      BY <2>1, <2>5 DEF ReplaceOK
    <3>2. late \in Seq(Commands)
      BY <2>1 DEF TypeOK
    <3> HIDE DEF c
    <3>3. CASE late' = Append(late, c)
      <4>1. /\ Len(late) \in Nat /\ DOMAIN late = 1 .. Len(late)
            /\ DOMAIN late' = 1 .. Len(late) + 1
        BY <3>2, <3>3
      <4>2. CASE i = Len(late) + 1
        BY <3>2, <3>3, <4>2
      <4>3. CASE i \in 1 .. Len(late)
        BY <3>1, <3>2, <3>3, <4>1, <4>3
      <4>. QED  BY <2>5, <4>1, <4>2, <4>3
    <3>. QED  BY <2>4, <2>5, <3>1, <3>3
  <2>. QED  BY <1>2, <2>1, <2>3, <2>5, <2>6, ReplaceStays
<1>. QED  BY <1>1, <1>2 DEF SendAddBot, Goto

LEMMA StepReplace == IInv /\ ReplaceOK /\ Step => ReplaceOK'
<1> SUFFICES ASSUME IInv, ReplaceOK, Step PROVE ReplaceOK'
  OBVIOUS
<1>0. TypeOK /\ LocalsOK
  BY DEF IInv
<1>1. CASE Leave
  BY <1>1, LeaveType DEF ReplaceOK
<1>2. CASE Begin \/ ReadStatus \/ LookAgain
  <2>1. pc' \in {"status", "teams"}
    BY <1>2 DEF Begin, ReadStatus, LookAgain, Goto
  <2>. QED  BY <2>1 DEF ReplaceOK
<1>3. CASE (PlanMoves \/ SendForceTeam \/ ConfirmBalanced \/ GiveUpLooking) /\ ~Leave
  <2>1. pc' \in {"status", "force", "select"}
    BY <1>3 DEF PlanMoves, SendForceTeam, ConfirmBalanced, GiveUpLooking, Goto
  <2>. QED  BY <2>1 DEF ReplaceOK
<1>4. CASE SelectBot /\ ~Leave
  <2>1. PICK m \in todo, s \in BotSlots :
          LET rest == {x \in BotSlots : roster[x].who # m.who} IN
          cur' = [slot |-> s, who |-> m.who, team |-> m.team,
                  rest |-> {roster[x].who : x \in rest},
                  n |-> Cardinality(rest)]
    BY <1>4 DEF SelectBot
  <2>2. cur'.who \notin cur'.rest
    BY <2>1
  <2>3. pc' = "remove"
    BY <1>4 DEF SelectBot, Goto
  <2>. QED  BY <2>2, <2>3 DEF ReplaceOK
<1>5. CASE RemoveBot /\ ~Leave
  <2>1. pc = "remove" /\ pc' = "removed" /\ UNCHANGED cur
    BY <1>5 DEF RemoveBot, Goto, locals
  <2>. QED  BY <2>1 DEF ReplaceOK
<1>6. CASE ConfirmRemoved /\ ~Leave
  <2>1. /\ pc = "removed" /\ pc' = "add" /\ UNCHANGED <<cur, roster, late>>
        /\ Observed(cur.n, cur.rest) /\ late = <<>>
    BY <1>6 DEF ConfirmRemoved, Goto, locals, engine, Observed, StatusAnswered
  <2>2. cur.n \in Nat /\ cur.who \notin cur.rest
    BY <1>0, <2>1 DEF LocalsOK, Replacements, ReplaceOK
  <2>3. Cardinality(cur.rest) = cur.n => \A s \in BotSlots : roster[s].who # cur.who
    BY <1>0, <2>1, <2>2, NoneBesides
  <2>4. BotSlots' = BotSlots
    BY <2>1 DEF BotSlots, Taken
  <2>. QED  BY <2>1, <2>2, <2>3, <2>4 DEF ReplaceOK
<1>7. CASE SendAddBot
  BY <1>7, SendAddBotReplace
<1>8. CASE ConfirmAdded /\ ~Leave
  <2>1. CASE pc' \in {"status", "select"}
    BY <2>1 DEF ReplaceOK
  <2>2. CASE pc' = "add"
    <3>1. pc = "added" /\ UNCHANGED <<cur, roster, autofill, late>>
      BY <1>8, <2>2 DEF ConfirmAdded, Goto, locals, engine
    <3>2. BotSlots' = BotSlots
      BY <3>1 DEF BotSlots, Taken
    <3>. QED  BY <2>2, <3>1, <3>2 DEF ReplaceOK
  <2>. QED  BY <1>8, <2>1, <2>2 DEF ConfirmAdded, Goto
<1>. QED  BY <1>1, <1>2, <1>3, <1>4, <1>5, <1>6, <1>7, <1>8 DEF Step

LEMMA NextReplace == IInv /\ ReplaceOK /\ [Next]_vars => ReplaceOK'
<1> SUFFICES ASSUME IInv, ReplaceOK, [Next]_vars PROVE ReplaceOK'
  OBVIOUS
<1>0. TypeOK /\ LocalsOK
  BY DEF IInv
<1>1. CASE Step
  BY <1>1, StepReplace
<1>2. CASE \/ ExecuteLate \/ HumanJoins \/ HumanSwitches \/ Disconnects
           \/ AutoFill \/ UNCHANGED vars
  <2>1. UNCHANGED <<pc, cur, autofill>>
    BY <1>2 DEF ExecuteLate, Execute, HumanJoins, HumanSwitches, Disconnects,
                AutoFill, vars, locals
  <2>2. CASE pc \notin {"add", "added"}
    BY <2>1, <2>2 DEF ReplaceOK
  <2>3. CASE pc \in {"add", "added"} /\ (Cardinality(cur.rest) # cur.n \/ autofill)
    BY <2>1, <2>3 DEF ReplaceOK
  <2>4. CASE pc \in {"add", "added"} /\ Cardinality(cur.rest) = cur.n /\ ~autofill
    <3>1. \A i \in DOMAIN late : late[i] = AddBot(cur.who, cur.team)
      BY <2>4 DEF ReplaceOK
    <3>2. CASE ExecuteLate
      <4>1. /\ late # <<>> /\ late \in Seq(Commands)
            /\ late' = Tail(late) /\ Execute(Head(late))
        BY <1>0, <3>2 DEF ExecuteLate, TypeOK
      <4>2. Head(late) = AddBot(cur.who, cur.team)
        BY <3>1, <4>1
      <4>3. BotsStay
        BY <1>0, <2>4, <4>1, <4>2, AddBotStays DEF LocalsOK
      <4>4. \A i \in DOMAIN late' : \E j \in DOMAIN late : late'[i] = late[j]
        <5>1. /\ Len(late) \in Nat /\ DOMAIN late = 1 .. Len(late)
              /\ DOMAIN late' = 1 .. Len(late) - 1
              /\ \A i \in 1 .. Len(late) - 1 : late'[i] = late[i + 1]
          BY <4>1
        <5>. QED  BY <5>1
      <4>. QED  BY <2>1, <2>4, <3>1, <4>3, <4>4, ReplaceStays
    <3>3. CASE HumanJoins
      <4>1. BotsStay /\ UNCHANGED late
        BY <1>0, <3>3, RebalanceAssumption
           DEF HumanJoins, BotsStay, BotSlots, Taken, TypeOK
      <4>. QED  BY <2>1, <2>4, <3>1, <4>1, ReplaceStays
    <3>4. CASE HumanSwitches
      <4>1. PICK s \in Taken \ BotSlots, side \in Sides :
               roster' = [roster EXCEPT ![s].team = side]
        BY <3>4 DEF HumanSwitches
      <4>2. s \in Slots /\ roster[s] \in Clients /\ roster[s].who = Human
        BY <1>0, <4>1 DEF TypeOK, Taken, BotSlots
      <4>3. [roster[s] EXCEPT !.team = side].who = Human
        BY <4>2 DEF Clients
      <4>4. roster'[s].who = Human /\ \A x \in Slots \ {s} : roster'[x] = roster[x]
        BY <1>0, <4>1, <4>2, <4>3 DEF TypeOK
      <4>5. BotsStay
        BY <4>4 DEF BotsStay, BotSlots, Taken
      <4>6. UNCHANGED late
        BY <3>4 DEF HumanSwitches
      <4>. QED  BY <2>1, <2>4, <3>1, <4>5, <4>6, ReplaceStays
    <3>5. CASE Disconnects
      <4>1. BotsStay /\ UNCHANGED late
        BY <1>0, <3>5 DEF Disconnects, BotsStay, BotSlots, Taken, TypeOK
      <4>. QED  BY <2>1, <2>4, <3>1, <4>1, ReplaceStays
    <3>6. CASE UNCHANGED vars
      <4>1. BotsStay /\ UNCHANGED late
        BY <3>6 DEF vars, BotsStay, BotSlots, Taken
      <4>. QED  BY <2>1, <2>4, <3>1, <4>1, ReplaceStays
    <3>. QED  BY <1>2, <2>4, <3>2, <3>3, <3>4, <3>5, <3>6 DEF AutoFill
  <2>. QED  BY <2>2, <2>3, <2>4
<1>3. CASE ServerRestarts
  <2>1. BotSlots' = {} /\ late' = <<>> /\ UNCHANGED <<pc, cur>>
    BY <1>3 DEF ServerRestarts, BotSlots, Taken, locals
  <2>. QED  BY <2>1 DEF ReplaceOK
<1>4. CASE Restart
  BY <1>4, LeaveType DEF Restart, ReplaceOK
<1>. QED  BY <1>1, <1>2, <1>3, <1>4 DEF Next, World

LEMMA ReplaceInvariance == Spec => []ReplaceOK
<1>1. Init => ReplaceOK
  BY DEF Init, ReplaceOK
<1>. QED  BY <1>1, NextReplace, Invariance, PTL DEF Spec

\* A bot that was replaced is there once, on the team it was to go to; provided
\* that the other bots' names are different and that auto-fill is off.
THEOREM ReplacedRight == Spec => ReplacedOnItsTeam
<1> DEFINE A == /\ pc = "added" /\ pc' \in {"select", "status"}
                /\ Cardinality(cur.rest) = cur.n
                /\ ~autofill
                => \E s \in BotSlots :
                      /\ roster[s] = [who |-> cur.who, team |-> cur.team]
                      /\ \A x \in BotSlots \ {s} : roster[x].who # cur.who
<1>1. ASSUME IInv, ReplaceOK, [Next]_vars, pc = "added",
             pc' \in {"select", "status"}, Cardinality(cur.rest) = cur.n,
             ~autofill
      PROVE  \E s \in BotSlots :
                /\ roster[s] = [who |-> cur.who, team |-> cur.team]
                /\ \A x \in BotSlots \ {s} : roster[x].who # cur.who
  <2>1. ConfirmAdded
    BY <1>1 DEF Next, Step, Begin, ReadStatus, PlanMoves, SendForceTeam,
                ConfirmBalanced, LookAgain, GiveUpLooking, SelectBot, RemoveBot,
                ConfirmRemoved, SendAddBot, World, ExecuteLate, HumanJoins,
                HumanSwitches, Disconnects, AutoFill, ServerRestarts, Restart,
                Leave, locals, Goto, vars
  <2>2. Observed(cur.n + 1, cur.rest \cup {cur.who})
    BY <1>1, <2>1 DEF ConfirmAdded, Goto, Leave
  <2>3. TypeOK /\ cur.n \in Nat /\ cur.who \notin cur.rest
    BY <1>1 DEF IInv, LocalsOK, Replacements, ReplaceOK
  <2>4. PICK s \in BotSlots : /\ roster[s].who = cur.who
                              /\ \A x \in BotSlots \ {s} : roster[x].who # cur.who
    BY <1>1, <2>2, <2>3, OneBesides
  <2>5. roster[s].team = cur.team
    BY <1>1, <2>4 DEF ReplaceOK
  <2>6. roster[s] \in Clients
    BY <2>3 DEF TypeOK, BotSlots, Taken
  <2>7. roster[s] = [who |-> cur.who, team |-> cur.team]
    BY <2>4, <2>5, <2>6 DEF Clients
  <2>. QED  BY <2>4, <2>7
<1>2. IInv /\ ReplaceOK /\ [Next]_vars => A
  BY <1>1
<1>3. ReplacedOnItsTeam <=> [][A]_vars
  BY PTL DEF ReplacedOnItsTeam
<1>. QED  BY <1>2, <1>3, Invariance, ReplaceInvariance, PTL DEF Spec

-----------------------------------------------------------------------------
(* The arithmetic of botRebalanceMoves, for any number of players.         *)

LEMMA CountsType ==
    ASSUME NEW c \in Counts
    PROVE  /\ c.redHumans \in Nat /\ c.blueHumans \in Nat
           /\ c.redBots \in Nat /\ c.blueBots \in Nat
           /\ Difference(c) \in Int
           /\ Needed(c) \in Nat
BY DEF Counts, Difference, Needed, Abs

\* Half of the difference, rounded down.
LEMMA Half ==
    ASSUME NEW d \in Nat
    PROVE  d \div 2 \in Nat /\ 2 * (d \div 2) \in {d, d - 1}
OBVIOUS

LEMMA AfterDifference ==
    ASSUME NEW c \in Counts, NEW k \in Nat
    PROVE  Difference(After(c, k)) =
              IF Difference(c) < 0 THEN Difference(c) + 2 * k
              ELSE Difference(c) - 2 * k
<1> USE DEF Counts
<1>1. CASE Difference(c) < 0
  <2>1. After(c, k) = [c EXCEPT !.redBots = @ + k, !.blueBots = @ - k]
    BY <1>1 DEF After, From
  <2>. QED  BY <1>1, <2>1 DEF Difference
<1>2. CASE ~(Difference(c) < 0)
  <2>1. After(c, k) = [c EXCEPT !.redBots = @ - k, !.blueBots = @ + k]
    BY <1>2 DEF After, From
  <2>. QED  BY <1>2, <2>1 DEF Difference
<1>. QED  BY <1>1, <1>2

\* The moves botRebalanceMoves asks for bring the teams within one.
THEOREM MovesBalance ==
    ASSUME NEW c \in Counts
    PROVE  Balanced(After(c, Needed(c)))
<1> DEFINE d == Abs(Difference(c))
<1>1. d \in Nat /\ Difference(c) \in Int
  BY CountsType DEF Abs
<1>2. Needed(c) \in Nat /\ 2 * Needed(c) \in {d, d - 1}
  BY <1>1, Half DEF Needed
<1>3. Difference(After(c, Needed(c))) =
         IF Difference(c) < 0 THEN Difference(c) + 2 * Needed(c)
         ELSE Difference(c) - 2 * Needed(c)
  BY <1>2, AfterDifference
<1>. QED  BY <1>1, <1>2, <1>3 DEF Balanced, Abs

\* No fewer would do: it is "the smallest set of bot-only transfers".
THEOREM MovesSmallest ==
    ASSUME NEW c \in Counts, NEW k \in Nat, ~Balanced(c),
           Balanced(After(c, k))
    PROVE  Needed(c) <= k
<1> DEFINE d == Abs(Difference(c))
<1>1. d \in Nat /\ Difference(c) \in Int
  BY CountsType DEF Abs
<1>2. Needed(c) \in Nat /\ 2 * Needed(c) \in {d, d - 1}
  BY <1>1, Half DEF Needed
<1>3. Difference(After(c, k)) =
         IF Difference(c) < 0 THEN Difference(c) + 2 * k
         ELSE Difference(c) - 2 * k
  BY AfterDifference
<1>4. d - 2 * k <= 1
  BY <1>1, <1>3 DEF Balanced, Abs
<1>. QED  BY <1>1, <1>2, <1>4

\* The second error is never returned: past the first test there are bots
\* enough, and the slice from[:movesNeeded] is within bounds.
THEOREM EnoughBots ==
    ASSUME NEW c \in Counts, ~TooUneven(c)
    PROVE  ~TooFewBots(c)
<1> DEFINE d == Abs(Difference(c))
<1>1. d \in Nat /\ Difference(c) \in Int
  BY CountsType DEF Abs
<1>2. Needed(c) \in Nat /\ 2 * Needed(c) \in {d, d - 1}
  BY <1>1, Half DEF Needed
<1>3. d <= 2 * Givers(c) + 1
  BY CountsType DEF TooUneven, Givers, From, Difference, Abs
<1>4. Givers(c) \in Nat
  BY CountsType DEF Givers
<1>. QED  BY <1>1, <1>2, <1>3, <1>4 DEF TooFewBots

\* The first error is returned only if no placement of the bots at all, with
\* the humans where they are, balances the teams.
THEOREM RefusalIsExact ==
    ASSUME NEW c \in Counts
    PROVE  TooUneven(c) <=>
             \A r \in Nat, b \in Nat :
                r + b = c.redBots + c.blueBots =>
                   ~Balanced([c EXCEPT !.redBots = r, !.blueBots = b])
<1> USE DEF Counts
<1>1. ASSUME TooUneven(c), NEW r \in Nat, NEW b \in Nat,
             r + b = c.redBots + c.blueBots
      PROVE  ~Balanced([c EXCEPT !.redBots = r, !.blueBots = b])
  BY <1>1 DEF TooUneven, Balanced, Difference, Abs
<1>2. ASSUME ~TooUneven(c)
      PROVE  \E r \in Nat, b \in Nat :
                /\ r + b = c.redBots + c.blueBots
                /\ Balanced([c EXCEPT !.redBots = r, !.blueBots = b])
  <2>1. Needed(c) \in Nat /\ Needed(c) <= Givers(c)
    BY <1>2, EnoughBots, CountsType DEF TooFewBots, Givers
  <2>2. Balanced(After(c, Needed(c)))
    BY MovesBalance
  <2>3. CASE From(c) = "red"
    <3>1. After(c, Needed(c)) = [c EXCEPT !.redBots = c.redBots - Needed(c),
                                          !.blueBots = c.blueBots + Needed(c)]
      BY <2>3 DEF After
    <3> DEFINE r == c.redBots - Needed(c)
               b == c.blueBots + Needed(c)
    <3>2. r \in Nat /\ b \in Nat /\ r + b = c.redBots + c.blueBots
      BY <2>1, <2>3 DEF Givers
    <3>3. Balanced([c EXCEPT !.redBots = r, !.blueBots = b])
      BY <2>2, <3>1
    <3> HIDE DEF r, b
    <3>. QED  BY <3>2, <3>3
  <2>4. CASE From(c) # "red"
    <3>1. After(c, Needed(c)) = [c EXCEPT !.redBots = c.redBots + Needed(c),
                                          !.blueBots = c.blueBots - Needed(c)]
      BY <2>4 DEF After
    <3> DEFINE r == c.redBots + Needed(c)
               b == c.blueBots - Needed(c)
    <3>2. r \in Nat /\ b \in Nat /\ r + b = c.redBots + c.blueBots
      BY <2>1, <2>4 DEF Givers
    <3>3. Balanced([c EXCEPT !.redBots = r, !.blueBots = b])
      BY <2>2, <3>1
    <3> HIDE DEF r, b
    <3>. QED  BY <3>2, <3>3
  <2>. QED  BY <2>3, <2>4
<1>. QED  BY <1>1, <1>2
=============================================================================
