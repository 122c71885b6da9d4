----------------------------- MODULE MapRotation ------------------------------
(***************************************************************************)
(* The map rotation of q3ctl on the game server (internal/app/server.go,   *)
(* pkg/q3/model.go): POST /rotation/apply installs the saved rotation as a *)
(* chain of cvars d1..dN, each of which names the next, one RCON command   *)
(* per entry; POST /maps/next executes the chain and waits for its effect. *)
(* Applying takes no token, so it overlaps with itself, with PUT /rotation *)
(* and with the matches that end meanwhile and follow the chain.           *)
(*                                                                         *)
(* RCON datagrams are lost or delayed as in BotDirector.  An entry stands  *)
(* for its map and mode; match limits travel with it and are not told      *)
(* apart.  What loads a map by itself (POST /maps/load, a console) is one  *)
(* action.                                                                 *)
(***************************************************************************)
EXTENDS Integers, Sequences

CONSTANTS
    Requests,   \* HTTP handlers that may run at the same time
    Entries,    \* a map with a mode
    MaxSlots,   \* the longest rotation; 12 in the code
    Rotations,  \* the rotations that may be saved
    Unset,      \* an empty cvar
    MaxLate     \* bound: datagrams in the engine's receive buffer

Slots == 1 .. MaxSlots

ASSUME RotationAssumption ==
    /\ MaxSlots \in Nat \ {0}
    /\ \A x \in Rotations : x \in Seq(Entries) /\ Len(x) \in Slots
    /\ Unset \notin Slots \cup [entry : Entries, next : Slots]
    /\ MaxLate \in Nat

VARIABLES
    rotation,   \* server.state.Rotation
    botOps,     \* the token of the botOps channel is taken
    pc,         \* per request: the step its handler is at
    job,        \* per request: its locals
    d,          \* the engine: the cvars d1, d2, ...
    nextmap,    \* the engine: the slot whose vstr nextmap is, or Unset
    live,       \* the engine: the map and mode played
    late,       \* the engine: datagrams received and not executed yet
    others,     \* per request: the rotations others were applying meanwhile
    gaveUp      \* an apply stopped on the way, and none replaced it since

engine == <<d, nextmap, live, late>>
history == <<others, gaveUp>>
vars == <<rotation, botOps, pc, job, engine, history>>

Links == [entry : Entries, next : Slots]
SetSlot(i, link) == [cmd |-> "set d", slot |-> i, link |-> link]
SetNextMap       == [cmd |-> "set nextmap vstr d1"]
Advance          == [cmd |-> "vstr nextmap"]
Commands == [cmd : {"set d"}, slot : Slots, link : Links]
            \cup {SetNextMap, Advance}

NoJob == [rotation |-> <<>>, at |-> 0]
Jobs  == [rotation : Rotations, at : 0 .. MaxSlots + 1]

Applying == {"install", "verify"}
Steps == {"idle", "query", "advance", "poll"} \cup Applying

\* The type invariant.
TypeOK ==
    /\ rotation \in Rotations
    /\ botOps \in BOOLEAN
    /\ pc \in [Requests -> Steps]
    /\ job \in [Requests -> Jobs \cup {NoJob}]
    /\ d \in [Slots -> Links \cup {Unset}]
    /\ nextmap \in Slots \cup {Unset}
    /\ live \in Entries
    /\ late \in Seq(Commands)
    /\ others \in [Requests -> SUBSET Rotations]
    /\ gaveUp \in BOOLEAN

-----------------------------------------------------------------------------
(* The engine.                                                             *)

\* vstr nextmap: the entry's map is loaded, and nextmap is the next slot.  An
\* empty cvar does nothing.
Follow ==
    IF nextmap # Unset /\ d[nextmap] # Unset
    THEN /\ live' = d[nextmap].entry
         /\ nextmap' = d[nextmap].next
         /\ UNCHANGED d
    ELSE UNCHANGED <<live, nextmap, d>>

Execute(c) ==
    \/ /\ c.cmd = "set d"
       /\ d' = [d EXCEPT ![c.slot] = c.link]
       /\ UNCHANGED <<nextmap, live>>
    \/ /\ c = SetNextMap
       /\ nextmap' = 1
       /\ UNCHANGED <<d, live>>
    \/ c = Advance /\ Follow

\* rcon: answered; or a timeout, with the command executed, lost or delayed.
Executed(c) == late = <<>> /\ Execute(c) /\ UNCHANGED late
TimedOut(c) ==
    \/ Executed(c)
    \/ UNCHANGED engine
    \/ Len(late) < MaxLate /\ late' = Append(late, c)
                           /\ UNCHANGED <<d, nextmap, live>>

\* Mutant: a timeout is forgiven, as nextMap forgives it.
AcceptedOrTimeout(c) == TimedOut(c)
\* rcon without an error.
Accepted(c) == Executed(c)

-----------------------------------------------------------------------------
(* Rotations.                                                              *)

\* Mutant: the last entry does not lead back to the first.
SuccessorOpen(i, n) == i + 1
\* The slot after slot i of n.
Successor(i, n) == IF i = n THEN 1 ELSE i + 1

\* What NextMapCommandListWithMaps puts in slot i.
Link(x, i) == [entry |-> x[i], next |-> Successor(i, Len(x))]

\* Its i-th command.
Command(x, i) == IF i <= Len(x) THEN SetSlot(i, Link(x, i)) ELSE SetNextMap

-----------------------------------------------------------------------------
(* The handlers.                                                           *)

Goto(r, step) == pc' = [pc EXCEPT ![r] = step]
Leave(r) == Goto(r, "idle") /\ job' = [job EXCEPT ![r] = NoJob]
NoOthers(r) == others' = [others EXCEPT ![r] = {}]

\* rotation (PUT): memory is changed; StateStore has the rest.
SaveRotation ==
    /\ rotation' \in Rotations
    /\ UNCHANGED <<botOps, pc, job, engine, history>>

\* applyRotation: the saved rotation is copied, and valid.
Apply(r) ==
    /\ pc[r] = "idle"
    /\ job' = [job EXCEPT ![r] = [rotation |-> rotation, at |-> 1]]
    /\ Goto(r, "install")
    /\ others' =
          [q \in Requests |->
              IF q = r
              THEN {job[p].rotation : p \in {p \in Requests : pc[p] \in Applying}}
              ELSE IF pc[q] \in Applying
              THEN others[q] \cup {rotation}
              ELSE {}]
    /\ UNCHANGED <<rotation, botOps, engine, gaveUp>>

\* applyRotation: the next command; any error ends it.
Install(r) ==
    LET c == Command(job[r].rotation, job[r].at) IN
    /\ pc[r] = "install"
    /\ \/ /\ Accepted(c)
          /\ IF job[r].at <= Len(job[r].rotation)
             THEN /\ job' = [job EXCEPT ![r].at = @ + 1]
                  /\ UNCHANGED pc
             ELSE Goto(r, "verify") /\ UNCHANGED job
          /\ UNCHANGED <<others, gaveUp>>
       \/ /\ TimedOut(c)
          /\ Leave(r)
          /\ NoOthers(r)
          /\ gaveUp' = TRUE
    /\ UNCHANGED <<rotation, botOps>>

\* applyRotation: the reply to "nextmap" contains "vstr d1", which is also how
\* the slots from 10 on begin.
Confirms == nextmap \in {1, 10, 11, 12}

VerifyInstalled(r) ==
    /\ pc[r] = "verify"
    /\ late = <<>> /\ Confirms
    /\ Leave(r)
    /\ NoOthers(r)
    /\ gaveUp' = (gaveUp /\ others[r] # {})
    /\ UNCHANGED <<rotation, botOps, engine>>

VerifyFailed(r) ==
    /\ pc[r] = "verify"
    /\ Leave(r)
    /\ NoOthers(r)
    /\ UNCHANGED <<rotation, botOps, engine, gaveUp>>

\* nextMap: the token is taken and the saved rotation copied.
NextMap(r) ==
    /\ pc[r] = "idle"
    /\ ~botOps
    /\ botOps' = TRUE
    /\ job' = [job EXCEPT ![r] = [rotation |-> rotation, at |-> 0]]
    /\ Goto(r, "query")
    /\ UNCHANGED <<rotation, engine, history>>

\* It answers and gives the token back.
Finish(r) == Leave(r) /\ botOps' = FALSE

\* nextMap: which slot is next, and that the copied rotation has it.
QueryChain(r) ==
    /\ pc[r] = "query"
    /\ \/ /\ late = <<>>
          /\ nextmap # Unset
          /\ nextmap <= Len(job[r].rotation)
          /\ job' = [job EXCEPT ![r].at = nextmap]
          /\ Goto(r, "advance")
          /\ UNCHANGED botOps
       \/ Finish(r)
    /\ UNCHANGED <<rotation, engine, others, gaveUp>>

\* nextMap: vstr nextmap; only a timeout is forgiven.
SendAdvance(r) ==
    /\ pc[r] = "advance"
    /\ \/ TimedOut(Advance) /\ Goto(r, "poll") /\ UNCHANGED <<job, botOps>>
       \/ UNCHANGED engine /\ Finish(r)
    /\ UNCHANGED <<rotation, others, gaveUp>>

\* nextMap: the copied rotation's entry of that slot is seen, or it gives up.
SeesTarget(r) ==
    /\ pc[r] = "poll"
    /\ late = <<>>
    /\ live = job[r].rotation[job[r].at]
    /\ Finish(r)
    /\ UNCHANGED <<rotation, engine, others, gaveUp>>

StopsLooking(r) ==
    /\ pc[r] = "poll"
    /\ Finish(r)
    /\ UNCHANGED <<rotation, engine, others, gaveUp>>

Step(r) ==
    \/ Apply(r) \/ Install(r) \/ VerifyInstalled(r) \/ VerifyFailed(r)
    \/ NextMap(r) \/ QueryChain(r) \/ SendAdvance(r) \/ SeesTarget(r)
    \/ StopsLooking(r)

-----------------------------------------------------------------------------
(* The rest of the world.                                                  *)

ExecuteLate ==
    /\ late # <<>>
    /\ Execute(Head(late))
    /\ late' = Tail(late)
    /\ UNCHANGED <<rotation, botOps, pc, job, others, gaveUp>>

\* A match ends by itself.
MatchEnds ==
    /\ Follow
    /\ UNCHANGED <<rotation, botOps, pc, job, late, others, gaveUp>>

\* A map is loaded by POST /maps/load or from a console.
MapLoaded ==
    /\ live' \in Entries
    /\ UNCHANGED <<rotation, botOps, pc, job, d, nextmap, late, others, gaveUp>>

\* q3ctl dies and is started again; a rotation it was applying is given up.
Restart ==
    /\ botOps' = FALSE
    /\ pc' = [r \in Requests |-> "idle"]
    /\ job' = [r \in Requests |-> NoJob]
    /\ gaveUp' = (gaveUp \/ \E r \in Requests : pc[r] \in Applying)
    /\ others' = [r \in Requests |-> {}]
    /\ UNCHANGED <<rotation, engine>>

\* The server's own configuration installed a rotation, or none.
Init ==
    /\ rotation \in Rotations
    /\ botOps = FALSE
    /\ pc = [r \in Requests |-> "idle"]
    /\ job = [r \in Requests |-> NoJob]
    /\ \/ /\ nextmap = Unset
          /\ d = [i \in Slots |-> Unset]
       \/ \E x \in Rotations :
             /\ nextmap = 1
             /\ d = [i \in Slots |-> IF i <= Len(x)
                                     THEN [entry |-> x[i],
                                           next |-> (i % Len(x)) + 1]
                                     ELSE Unset]
    /\ live \in Entries
    /\ late = <<>>
    /\ others = [r \in Requests |-> {}]
    /\ gaveUp = FALSE

Next ==
    \/ \E r \in Requests : Step(r)
    \/ SaveRotation \/ ExecuteLate \/ MatchEnds \/ MapLoaded \/ Restart

Spec == Init /\ [][Next]_vars

-----------------------------------------------------------------------------
(* Properties.                                                             *)

\* From slot i the chain goes on for ever.
Endless(i) ==
    \E loop \in SUBSET Slots :
        /\ i \in loop
        /\ \A k \in loop : d[k] # Unset /\ d[k].next \in loop

\* A server that follows the chain never comes to a slot that is not there,
\* whichever rotations of whatever lengths were applied over each other and
\* wherever the matches ended meanwhile, unless one was applied in part.
ChainCloses ==
    /\ \A r \in Requests : pc[r] \notin Applying
    /\ ~gaveUp
    /\ nextmap # Unset
    => Endless(nextmap)

\* When applyRotation reports that its entries are installed they are, but for
\* those that someone who was applying another rotation meanwhile put there:
\* nothing is left in d1..dN of the chain before or of commands given up.
ConfirmedIsInstalled ==
    [][\A r \in Requests :
          VerifyInstalled(r) =>
              \A i \in 1 .. Len(job[r].rotation) :
                  d[i] \in {Link(x, i) : x \in {job[r].rotation} \cup
                               {y \in others[r] : i <= Len(y)}}]_vars
=============================================================================
