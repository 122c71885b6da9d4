-------------------------- MODULE MapRotationProofs ---------------------------
(***************************************************************************)
(* For any handlers and any rotations: a rotation that is confirmed is     *)
(* installed, and the chain closes unless one was installed in part.       *)
(***************************************************************************)
EXTENDS MapRotation, SequenceTheorems, TLAPS

\* Someone who is applying x has its next command at "at".
StepsOK ==
    \A r \in Requests :
        /\ pc[r] \in Applying =>
              /\ job[r] \in Jobs
              /\ job[r].at \in 1 .. Len(job[r].rotation) + 1
        /\ pc[r] = "verify" => job[r].at = Len(job[r].rotation) + 1
        /\ pc[r] = "query" => job[r] \in Jobs

\* Whoever applies a rotation is told of by the others who do.
OthersOK ==
    \A r, q \in Requests :
        r # q /\ pc[r] \in Applying /\ pc[q] \in Applying =>
            job[q].rotation \in others[r]

\* What r or another one meanwhile may have put in slot i.
MayHold(r, i) == {Link(x, i) : x \in {job[r].rotation} \cup
                                        {y \in others[r] : i <= Len(y)}}

InstalledOK(r) ==
    pc[r] \in Applying =>
        \A i \in 1 .. job[r].at - 1 : d[i] \in MayHold(r, i)

\* Since r's first command the buffer holds only what others gave up later.
LateOK(r) ==
    pc[r] \in Applying /\ job[r].at > 1 =>
        \A j \in DOMAIN late :
            late[j].cmd = "set d" =>
                \E y \in others[r] : /\ late[j].slot <= Len(y)
                                     /\ late[j].link = Link(y, late[j].slot)

\* Alone, r leaves nextmap inside its own chain.
SoloOK(r) ==
    pc[r] = "verify" /\ others[r] = {} =>
        nextmap \in 1 .. Len(job[r].rotation)

Installing == {q \in Requests : pc[q] = "install"}

\* Slot n is among the first N, or somebody is about to fill it.
Reaches(n, N) ==
    n <= N \/ \E q \in Installing : n <= Len(job[q].rotation)

\* The first N slots lead to one another, but for those being filled; nextmap
\* may stray only while somebody is still going to set it.
Closed(N) ==
    /\ \A k \in 1 .. N : d[k] \in Links /\ Reaches(d[k].next, N)
    /\ \A q \in Installing : \A k \in 1 .. job[q].at - 1 : Reaches(d[k].next, N)
    /\ Installing = {} /\ nextmap # Unset => nextmap <= N

\* Nothing that was given up is still to come.
OnlyAdvances == \A j \in DOMAIN late : late[j] = Advance

ChainOK ==
    ~gaveUp => OnlyAdvances /\ \E N \in 0 .. MaxSlots : Closed(N)

IInv ==
    /\ TypeOK
    /\ StepsOK
    /\ OthersOK
    /\ \A r \in Requests : InstalledOK(r) /\ LateOK(r) /\ SoloOK(r)
    /\ ChainOK

-----------------------------------------------------------------------------
(* Rotations and commands.                                                 *)

LEMMA LinkShape ==
    ASSUME NEW x \in Rotations, NEW i \in 1 .. Len(x)
    PROVE  /\ Len(x) \in Slots /\ i \in Slots
           /\ Link(x, i) \in Links
           /\ Link(x, i).next \in 1 .. Len(x)
           /\ Link(x, i).next <= Len(x)
<1>1. x \in Seq(Entries) /\ Len(x) \in 1 .. MaxSlots /\ MaxSlots \in Nat
  BY RotationAssumption DEF Slots
<1>2. x[i] \in Entries
  BY <1>1
<1>. QED  BY <1>1, <1>2 DEF Link, Links, Successor, Slots

LEMMA CommandKinds ==
    /\ \A i \in Slots, l \in Links :
          /\ SetSlot(i, l) \in Commands
          /\ SetSlot(i, l).cmd = "set d"
          /\ SetSlot(i, l).slot = i /\ SetSlot(i, l).link = l
    /\ SetNextMap \in Commands /\ SetNextMap.cmd = "set nextmap vstr d1"
    /\ Advance \in Commands /\ Advance.cmd = "vstr nextmap"
BY DEF Commands, SetSlot, SetNextMap, Advance

LEMMA CommandShape ==
    ASSUME NEW c \in Commands, c.cmd = "set d"
    PROVE  c.slot \in Slots /\ c.link \in Links
BY CommandKinds DEF Commands

LEMMA CommandOf ==
    ASSUME NEW x \in Rotations, NEW i \in 1 .. Len(x) + 1
    PROVE  /\ Command(x, i) \in Commands
           /\ i <= Len(x) => /\ Command(x, i).cmd = "set d"
                             /\ Command(x, i).slot = i
                             /\ Command(x, i).link = Link(x, i)
           /\ i = Len(x) + 1 => Command(x, i) = SetNextMap
<1>1. Len(x) \in Nat /\ i \in Nat /\ (i <= Len(x) \/ i = Len(x) + 1)
  BY RotationAssumption DEF Slots
<1>2. CASE i <= Len(x)
  <2>1. i \in 1 .. Len(x)
    BY <1>1, <1>2
  <2>2. i \in Slots /\ Link(x, i) \in Links
    BY <2>1, LinkShape
  <2>3. Command(x, i) = SetSlot(i, Link(x, i)) /\ i # Len(x) + 1
    BY <1>1, <1>2 DEF Command
  <2> DEFINE l == Link(x, i)
  <2> HIDE DEF l
  <2>4. l \in Links /\ Command(x, i) = SetSlot(i, l)
    BY <2>2, <2>3 DEF l
  <2>5. /\ SetSlot(i, l) \in Commands
        /\ SetSlot(i, l).cmd = "set d"
        /\ SetSlot(i, l).slot = i /\ SetSlot(i, l).link = l
    BY <2>2, <2>4, CommandKinds
  <2>6. l = Link(x, i)
    BY DEF l
  <2>. QED  BY <2>3, <2>4, <2>5, <2>6
<1>3. CASE i = Len(x) + 1
  <2>1. Command(x, i) = SetNextMap /\ ~(i <= Len(x))
    BY <1>1, <1>3 DEF Command
  <2>. QED  BY <2>1, CommandKinds
<1>. QED  BY <1>1, <1>2, <1>3

-----------------------------------------------------------------------------
(* What a command does to the engine.                                      *)

EngineOK ==
    /\ d \in [Slots -> Links \cup {Unset}]
    /\ nextmap \in Slots \cup {Unset}
    /\ live \in Entries
    /\ late \in Seq(Commands)

\* What becomes of the chain when c is executed, or is not.
Touch(c) ==
    \/ UNCHANGED <<d, nextmap>>
    \/ c.cmd = "set d" /\ d' = [d EXCEPT ![c.slot] = c.link] /\ nextmap' = nextmap
    \/ c = SetNextMap /\ nextmap' = 1 /\ d' = d
    \/ /\ c = Advance
       /\ d' = d
       /\ nextmap \in Slots /\ d[nextmap] \in Links
       /\ nextmap' = d[nextmap].next

\* Only c comes to the datagrams that wait.
Adds(c) ==
    \A j \in DOMAIN late' :
        late'[j] = c \/ \E i \in DOMAIN late : late'[j] = late[i]

LEMMA FollowEffect ==
    ASSUME EngineOK, Follow
    PROVE  /\ d' = d /\ nextmap' \in Slots \cup {Unset} /\ live' \in Entries
           /\ Touch(Advance)
<1>1. CASE nextmap # Unset /\ d[nextmap] # Unset
  <2>1. nextmap \in Slots /\ d[nextmap] \in Links
    BY <1>1 DEF EngineOK
  <2>2. d[nextmap].entry \in Entries /\ d[nextmap].next \in Slots
    BY <2>1 DEF Links
  <2>. QED  BY <1>1, <2>1, <2>2 DEF Follow, Touch
<1>2. CASE ~(nextmap # Unset /\ d[nextmap] # Unset)
  BY <1>2 DEF Follow, Touch, EngineOK
<1>. QED  BY <1>1, <1>2

LEMMA ExecuteEffect ==
    ASSUME EngineOK, NEW c \in Commands, Execute(c)
    PROVE  /\ d' \in [Slots -> Links \cup {Unset}]
           /\ nextmap' \in Slots \cup {Unset}
           /\ live' \in Entries
           /\ Touch(c)
<1>1. CASE /\ c.cmd = "set d"
           /\ d' = [d EXCEPT ![c.slot] = c.link]
           /\ UNCHANGED <<nextmap, live>>
  <2>1. c.slot \in Slots /\ c.link \in Links
    BY <1>1, CommandShape
  <2>. QED  BY <1>1, <2>1 DEF EngineOK, Touch
<1>2. CASE c = SetNextMap /\ nextmap' = 1 /\ UNCHANGED <<d, live>>
  <2>1. 1 \in Slots
    BY RotationAssumption DEF Slots
  <2>. QED  BY <1>2, <2>1 DEF EngineOK, Touch
<1>3. CASE c = Advance /\ Follow
  BY <1>3, FollowEffect DEF EngineOK
<1>. QED  BY <1>1, <1>2, <1>3 DEF Execute

LEMMA SendEffect ==
    ASSUME EngineOK, NEW c \in Commands, TimedOut(c)
    PROVE  EngineOK' /\ Touch(c) /\ Adds(c)
<1>1. CASE Executed(c)
  BY <1>1, ExecuteEffect DEF Executed, EngineOK, Adds
<1>2. CASE UNCHANGED engine
  BY <1>2 DEF engine, EngineOK, Touch, Adds
<1>3. CASE late' = Append(late, c) /\ UNCHANGED <<d, nextmap, live>>
  <2>1. late' \in Seq(Commands) /\ Len(late') = Len(late) + 1
    BY <1>3 DEF EngineOK
  <2>2. \A i \in DOMAIN late' : late'[i] = IF i = Len(late) + 1 THEN c ELSE late[i]
    BY <1>3, <2>1 DEF EngineOK
  <2>3. \A i \in DOMAIN late' : i = Len(late) + 1 \/ i \in DOMAIN late
    BY <2>1 DEF EngineOK
  <2>. QED  BY <1>3, <2>1, <2>2, <2>3 DEF EngineOK, Touch, Adds
<1>. QED  BY <1>1, <1>2, <1>3 DEF TimedOut

LEMMA LateEffect ==
    ASSUME EngineOK, ExecuteLate
    PROVE  /\ EngineOK'
           /\ 1 \in DOMAIN late /\ late[1] \in Commands
           /\ Touch(late[1]) /\ Adds(late[1])
<1>1. /\ Head(late) \in Commands /\ Head(late) = late[1] /\ 1 \in DOMAIN late
      /\ late' \in Seq(Commands)
      /\ \A i \in DOMAIN late' : i + 1 \in DOMAIN late /\ late'[i] = late[i + 1]
  BY DEF ExecuteLate, EngineOK
<1>2. Execute(late[1])
  BY <1>1 DEF ExecuteLate
<1>3. /\ d' \in [Slots -> Links \cup {Unset}]
      /\ nextmap' \in Slots \cup {Unset}
      /\ live' \in Entries
      /\ Touch(late[1])
  BY <1>1, <1>2, ExecuteEffect
<1>4. Adds(late[1])
  BY <1>1 DEF Adds
<1>. QED  BY <1>1, <1>3, <1>4 DEF EngineOK

-----------------------------------------------------------------------------
(* What one conjunct needs to survive a step.                              *)

\* A command that r's chain allows: what others may put there, or no slot.
Lawful(r, c) ==
    job[r].at > 1 /\ c.cmd = "set d" =>
        \E y \in others[r] : c.slot <= Len(y) /\ c.link = Link(y, c.slot)

\* r goes on where it was.
Same(r) == pc'[r] = pc[r] /\ job'[r] = job[r] /\ others'[r] = others[r]

LEMMA Facts ==
    ASSUME IInv
    PROVE  /\ EngineOK
           /\ \A r \in Requests :
                 pc[r] \in Applying =>
                    /\ job[r].rotation \in Rotations
                    /\ Len(job[r].rotation) \in Slots
                    /\ job[r].at \in 1 .. Len(job[r].rotation) + 1
           /\ \A r \in Requests : others[r] \in SUBSET Rotations
<1>1. EngineOK /\ \A r \in Requests : others[r] \in SUBSET Rotations
  BY DEF IInv, TypeOK, EngineOK
<1>2. ASSUME NEW r \in Requests, pc[r] \in Applying
      PROVE  /\ job[r].rotation \in Rotations
             /\ Len(job[r].rotation) \in Slots
             /\ job[r].at \in 1 .. Len(job[r].rotation) + 1
  BY <1>2, RotationAssumption DEF IInv, StepsOK, Jobs
<1>. QED  BY <1>1, <1>2

\* The next command of another one who is applying is lawful.
LEMMA OthersLawful ==
    ASSUME IInv, NEW r \in Requests, NEW q \in Requests, r # q,
           pc[r] \in Applying, pc[q] \in Applying
    PROVE  Lawful(r, Command(job[q].rotation, job[q].at))
<1>1. job[q].rotation \in Rotations
      /\ job[q].at \in 1 .. Len(job[q].rotation) + 1
      /\ Len(job[q].rotation) \in Nat
  BY Facts DEF Slots
<1>2. job[q].rotation \in others[r]
  BY DEF IInv, OthersOK
<1>3. CASE job[q].at <= Len(job[q].rotation)
  <2> DEFINE c == Command(job[q].rotation, job[q].at)
  <2>1. c.slot = job[q].at /\ c.link = Link(job[q].rotation, job[q].at)
    BY <1>1, <1>3, CommandOf
  <2>. QED  BY <1>2, <1>3, <2>1 DEF Lawful
<1>4. CASE job[q].at = Len(job[q].rotation) + 1
  BY <1>1, <1>4, CommandOf, CommandKinds DEF Lawful
<1>. QED  BY <1>1, <1>3, <1>4

LEMMA OthersKept ==
    ASSUME IInv,
           \A r \in Requests : pc'[r] \in Applying =>
              /\ pc[r] \in Applying /\ others'[r] = others[r]
              /\ job'[r].rotation = job[r].rotation
    PROVE  OthersOK'
BY DEF IInv, OthersOK

LEMMA InstalledKept ==
    ASSUME IInv, NEW r \in Requests, pc[r] \in Applying,
           NEW c \in Commands, Touch(c), Lawful(r, c)
    PROVE  \A i \in 1 .. job[r].at - 1 : d'[i] \in MayHold(r, i)
<1> SUFFICES ASSUME NEW i \in 1 .. job[r].at - 1
             PROVE  d'[i] \in MayHold(r, i)
  OBVIOUS
<1>1. /\ EngineOK
      /\ job[r].at \in 1 .. Len(job[r].rotation) + 1
      /\ Len(job[r].rotation) \in 1 .. MaxSlots
      /\ MaxSlots \in Nat
  BY Facts, RotationAssumption DEF Slots
<1>2. i \in Slots /\ job[r].at > 1
  BY <1>1 DEF Slots
<1>3. d[i] \in MayHold(r, i)
  BY DEF IInv, InstalledOK
<1>4. CASE d'[i] = d[i]
  BY <1>3, <1>4
<1>5. CASE c.cmd = "set d" /\ d' = [d EXCEPT ![c.slot] = c.link] /\ c.slot = i
  <2>1. d'[i] = c.link
    BY <1>1, <1>2, <1>5 DEF EngineOK
  <2>2. PICK y \in others[r] : c.slot <= Len(y) /\ c.link = Link(y, c.slot)
    BY <1>2, <1>5 DEF Lawful
  <2>. QED  BY <1>5, <2>1, <2>2 DEF MayHold
<1>6. CASE c.cmd = "set d" /\ d' = [d EXCEPT ![c.slot] = c.link] /\ c.slot # i
  BY <1>1, <1>2, <1>4, <1>6 DEF EngineOK
<1>. QED  BY <1>4, <1>5, <1>6 DEF Touch

LEMMA LateKept ==
    ASSUME IInv, NEW r \in Requests, pc[r] \in Applying,
           NEW c \in Commands, Adds(c), Lawful(r, c), job[r].at > 1
    PROVE  \A j \in DOMAIN late' :
              late'[j].cmd = "set d" =>
                 \E y \in others[r] : /\ late'[j].slot <= Len(y)
                                      /\ late'[j].link = Link(y, late'[j].slot)
BY DEF IInv, LateOK, Adds, Lawful

LEMMA SoloKept ==
    ASSUME IInv, NEW r \in Requests, pc[r] = "verify", others[r] = {},
           NEW c \in Commands, Touch(c), Lawful(r, c)
    PROVE  nextmap' \in 1 .. Len(job[r].rotation)
<1> DEFINE x == job[r].rotation
<1>1. x \in Rotations /\ Len(x) \in 1 .. MaxSlots /\ MaxSlots \in Nat
  BY Facts, RotationAssumption DEF Applying, Slots
<1>2. job[r].at = Len(x) + 1 /\ nextmap \in 1 .. Len(x)
  BY DEF IInv, StepsOK, SoloOK
<1>3. CASE nextmap' = nextmap
  BY <1>2, <1>3
<1>4. CASE nextmap' = 1
  BY <1>1, <1>4
<1>5. CASE nextmap' = d[nextmap].next
  <2>1. nextmap \in 1 .. job[r].at - 1
    BY <1>1, <1>2
  <2>2. d[nextmap] \in MayHold(r, nextmap)
    BY <2>1 DEF IInv, InstalledOK, Applying
  <2>3. d[nextmap] = Link(x, nextmap)
    BY <2>2 DEF MayHold
  <2>. QED  BY <1>1, <1>2, <1>5, <2>3, LinkShape
<1>. QED  BY <1>3, <1>4, <1>5 DEF Touch

-----------------------------------------------------------------------------
(* The chain.                                                              *)

\* While the same ones are installing, the chain can only be followed.
LEMMA ClosedKept ==
    ASSUME IInv, NEW N \in 0 .. MaxSlots, Closed(N), Touch(Advance),
           Installing' = Installing,
           \A q \in Installing : job'[q] = job[q]
    PROVE  Closed(N)'
<1>1. d' = d
  BY CommandKinds DEF Touch
<1>2. \A n : Reaches(n, N) => Reaches(n, N)'
  BY DEF Reaches
<1>3. Installing = {} /\ nextmap' # Unset => nextmap' <= N
  <2>1. CASE nextmap' = nextmap
    BY <2>1 DEF Closed
  <2>2. CASE /\ nextmap \in Slots /\ d[nextmap] \in Links
             /\ nextmap' = d[nextmap].next /\ Installing = {}
    <3>1. nextmap \in 1 .. N
      BY <2>2, RotationAssumption DEF Closed, Slots
    <3>2. Reaches(d[nextmap].next, N)
      BY <3>1 DEF Closed
    <3>. QED  BY <2>2, <3>2 DEF Reaches
  <2>. QED  BY <2>1, <2>2, CommandKinds DEF Touch
<1>. QED  BY <1>1, <1>2, <1>3 DEF Closed

LEMMA ChainKept ==
    ASSUME IInv, Touch(Advance), Adds(Advance), gaveUp' = gaveUp,
           Installing' = Installing,
           \A q \in Installing : job'[q] = job[q]
    PROVE  ChainOK'
<1> SUFFICES ASSUME ~gaveUp
             PROVE  OnlyAdvances' /\ \E N \in 0 .. MaxSlots : Closed(N)'
  BY DEF ChainOK
<1>1. OnlyAdvances'
  BY DEF IInv, ChainOK, OnlyAdvances, Adds
<1>2. PICK N \in 0 .. MaxSlots : Closed(N)
  BY DEF IInv, ChainOK
<1>. QED  BY <1>1, <1>2, ClosedKept

-----------------------------------------------------------------------------
(* The conjuncts that speak of every handler, when none goes on applying.  *)

LEMMA HandlersKept ==
    ASSUME IInv, NEW c \in Commands, Touch(c), Adds(c),
           \A r \in Requests : pc'[r] \in Applying =>
              pc[r] \in Applying /\ Same(r) /\ Lawful(r, c)
    PROVE  /\ OthersOK'
           /\ \A r \in Requests : (InstalledOK(r) /\ LateOK(r) /\ SoloOK(r))'
<1>1. OthersOK'
  BY OthersKept DEF Same
<1>2. ASSUME NEW r \in Requests, pc'[r] \in Applying
      PROVE  InstalledOK(r)'
  <2>1. pc[r] \in Applying /\ Same(r) /\ Lawful(r, c)
    BY <1>2
  <2>2. \A i \in 1 .. job[r].at - 1 : d'[i] \in MayHold(r, i)
    BY <2>1, InstalledKept
  <2>. QED  BY <2>1, <2>2 DEF InstalledOK, MayHold, Same
<1>3. ASSUME NEW r \in Requests, pc'[r] \in Applying, job'[r].at > 1
      PROVE  LateOK(r)'
  <2>1. pc[r] \in Applying /\ Same(r) /\ Lawful(r, c) /\ job[r].at > 1
    BY <1>3 DEF Same
  <2>2. \A j \in DOMAIN late' :
           late'[j].cmd = "set d" =>
              \E y \in others[r] : /\ late'[j].slot <= Len(y)
                                   /\ late'[j].link = Link(y, late'[j].slot)
    BY <2>1, LateKept
  <2>. QED  BY <2>1, <2>2 DEF LateOK, Same
<1>4. ASSUME NEW r \in Requests, pc'[r] = "verify", others'[r] = {}
      PROVE  SoloOK(r)'
  <2>1. Same(r) /\ Lawful(r, c)
    BY <1>4 DEF Applying
  <2>2. nextmap' \in 1 .. Len(job[r].rotation)
    BY <1>4, <2>1, SoloKept DEF Same
  <2>. QED  BY <2>1, <2>2 DEF SoloOK, Same
<1>. QED  BY <1>1, <1>2, <1>3, <1>4 DEF InstalledOK, LateOK, SoloOK

\* An engine that is left alone, or only follows its chain.
LEMMA ChainFollowed ==
    ASSUME IInv, Touch(Advance), Adds(Advance), gaveUp' = gaveUp,
           \A r \in Requests :
              /\ pc'[r] \in Applying => pc[r] \in Applying /\ Same(r)
              /\ pc[r] = "install" => Same(r)
    PROVE  /\ OthersOK'
           /\ \A r \in Requests : (InstalledOK(r) /\ LateOK(r) /\ SoloOK(r))'
           /\ ChainOK'
<1>1. Advance \in Commands /\ \A r \in Requests : Lawful(r, Advance)
  BY CommandKinds DEF Lawful
<1>2. Installing' = Installing /\ \A q \in Installing : job'[q] = job[q]
  BY DEF Installing, Same, Applying
<1>. QED  BY <1>1, <1>2, HandlersKept, ChainKept

LEMMA EngineAlone ==
    ASSUME IInv, UNCHANGED <<d, nextmap, late>>
    PROVE  Touch(Advance) /\ Adds(Advance)
BY DEF Touch, Adds

LEMMA LeaveEffect ==
    ASSUME IInv, NEW r \in Requests, Leave(r)
    PROVE  /\ pc' \in [Requests -> Steps]
           /\ job' \in [Requests -> Jobs \cup {NoJob}]
           /\ pc'[r] = "idle"
           /\ \A q \in Requests \ {r} : pc'[q] = pc[q] /\ job'[q] = job[q]
           /\ StepsOK'
<1>1. /\ pc' \in [Requests -> Steps]
      /\ job' \in [Requests -> Jobs \cup {NoJob}]
      /\ pc'[r] = "idle"
      /\ \A q \in Requests \ {r} : pc'[q] = pc[q] /\ job'[q] = job[q]
  BY DEF IInv, TypeOK, Leave, Goto, Steps
<1>2. StepsOK'
  BY <1>1 DEF IInv, StepsOK, Applying
<1>. QED  BY <1>1, <1>2

LEMMA NoOthersEffect ==
    ASSUME IInv, NEW r \in Requests, NoOthers(r)
    PROVE  /\ others' \in [Requests -> SUBSET Rotations]
           /\ \A q \in Requests \ {r} : others'[q] = others[q]
BY DEF IInv, TypeOK, NoOthers

-----------------------------------------------------------------------------
(* applyRotation.                                                          *)

LEMMA ApplyKeeps ==
    ASSUME IInv, NEW r \in Requests, Apply(r)
    PROVE  IInv'
<1> DEFINE new == [rotation |-> rotation, at |-> 1]
<1>1. /\ pc[r] = "idle"
      /\ pc' \in [Requests -> Steps] /\ pc'[r] = "install"
      /\ \A q \in Requests \ {r} : pc'[q] = pc[q]
  BY DEF Apply, Goto, IInv, TypeOK, Steps, Applying
<1>2. new \in Jobs
  BY RotationAssumption DEF IInv, TypeOK, Jobs
<1>3. /\ job' \in [Requests -> Jobs \cup {NoJob}] /\ job'[r] = new
      /\ \A q \in Requests \ {r} : job'[q] = job[q]
  BY <1>2 DEF Apply, IInv, TypeOK
<1>4. /\ \A p \in Requests :
            p # r /\ pc[p] \in Applying => job[p].rotation \in others'[r]
      /\ \A q \in Requests \ {r} :
            pc[q] \in Applying => others'[q] = others[q] \cup {rotation}
  BY DEF Apply
<1>5. others' \in [Requests -> SUBSET Rotations]
  BY Facts DEF Apply, IInv, TypeOK
<1>6. TypeOK'
  BY <1>1, <1>3, <1>5 DEF Apply, IInv, TypeOK, engine
<1>7. StepsOK'
  <2>1. new.rotation = rotation /\ new.at = 1 /\ Len(rotation) \in Slots
    BY RotationAssumption DEF IInv, TypeOK
  <2>. QED  BY <1>1, <1>2, <1>3, <2>1, RotationAssumption
               DEF IInv, StepsOK, Applying, Slots
<1>8. OthersOK'
  BY <1>1, <1>3, <1>4 DEF IInv, OthersOK
<1>9. ASSUME NEW q \in Requests
      PROVE  (InstalledOK(q) /\ LateOK(q) /\ SoloOK(q))'
  <2>1. CASE q = r
    <3>1. pc'[q] = "install" /\ job'[q].at = 1 /\ 1 .. job'[q].at - 1 = {}
      BY <1>1, <1>3, <2>1
    <3>. QED  BY <3>1 DEF InstalledOK, LateOK, SoloOK
  <2>2. CASE q # r /\ pc[q] \in Applying
    <3>1. /\ pc'[q] = pc[q] /\ job'[q] = job[q]
          /\ others[q] \subseteq others'[q] /\ others'[q] # {}
          /\ d' = d /\ late' = late
      BY <1>1, <1>3, <1>4, <2>2 DEF Apply, engine
    <3>2. \A i : MayHold(q, i) \subseteq MayHold(q, i)'
      BY <3>1 DEF MayHold
    <3>3. InstalledOK(q) /\ LateOK(q)
      BY DEF IInv
    <3>4. InstalledOK(q)'
      BY <2>2, <3>1, <3>2, <3>3 DEF InstalledOK
    <3>5. LateOK(q)'
      BY <2>2, <3>1, <3>3 DEF LateOK
    <3>. QED  BY <3>1, <3>4, <3>5 DEF SoloOK
  <2>3. CASE q # r /\ pc[q] \notin Applying
    BY <1>1, <2>3 DEF InstalledOK, LateOK, SoloOK, Applying
  <2>. QED  BY <2>1, <2>2, <2>3
<1>10. ChainOK'
  <2> SUFFICES ASSUME ~gaveUp
               PROVE  OnlyAdvances' /\ \E N \in 0 .. MaxSlots : Closed(N)'
    BY DEF Apply, ChainOK
  <2>1. OnlyAdvances'
    BY DEF Apply, engine, IInv, ChainOK, OnlyAdvances
  <2>2. PICK N \in 0 .. MaxSlots : Closed(N)
    BY DEF IInv, ChainOK
  <2>3. /\ Installing' = Installing \cup {r} /\ r \notin Installing
        /\ \A q \in Installing : job'[q] = job[q]
        /\ d' = d
    BY <1>1, <1>3 DEF Installing, Apply, engine
  <2>4. \A n : Reaches(n, N) => Reaches(n, N)'
    BY <2>3 DEF Reaches
  <2>5. job'[r].at = 1
    BY <1>3
  <2>6. Closed(N)'
    BY <2>2, <2>3, <2>4, <2>5 DEF Closed
  <2>. QED  BY <2>1, <2>6
<1>. QED  BY <1>6, <1>7, <1>8, <1>9, <1>10 DEF IInv

\* What Install does when the command is accepted, whichever it is.
LEMMA AcceptedEffect ==
    ASSUME IInv, NEW r \in Requests, pc[r] = "install",
           Accepted(Command(job[r].rotation, job[r].at)),
           UNCHANGED <<others, gaveUp>>
    PROVE  /\ EngineOK' /\ late = <<>> /\ late' = <<>>
           /\ Execute(Command(job[r].rotation, job[r].at))
           /\ Touch(Command(job[r].rotation, job[r].at))
           /\ OnlyAdvances'
<1> DEFINE c == Command(job[r].rotation, job[r].at)
<1>1. pc[r] \in Applying /\ EngineOK
  BY Facts DEF Applying
<1>2. c \in Commands
  BY <1>1, Facts, CommandOf
<1>3. Execute(c) /\ late = <<>> /\ late' = <<>>
  BY DEF Accepted, Executed
<1> HIDE DEF c
<1>4. EngineOK' /\ Touch(c)
  BY <1>1, <1>2, <1>3, ExecuteEffect DEF EngineOK
<1>. QED  BY <1>3, <1>4 DEF c, OnlyAdvances

\* An accepted step of r leaves what the other handlers count on.
LEMMA OtherHandlersKept ==
    ASSUME IInv, NEW r \in Requests, pc[r] = "install", late' = <<>>,
           Touch(Command(job[r].rotation, job[r].at)), others' = others,
           NEW q \in Requests, q # r, pc'[q] = pc[q], job'[q] = job[q]
    PROVE  (InstalledOK(q) /\ LateOK(q) /\ SoloOK(q))'
<1> DEFINE c == Command(job[r].rotation, job[r].at)
<1>1. pc[r] \in Applying
  BY DEF Applying
<1>2. c \in Commands
  BY <1>1, Facts, CommandOf
<1>3. pc[q] \in Applying => Lawful(q, c)
  BY <1>1, OthersLawful
<1> HIDE DEF c
<1>4. Touch(c)
  BY DEF c
<1>5. InstalledOK(q)'
  <2>1. pc[q] \in Applying =>
           \A i \in 1 .. job[q].at - 1 : d'[i] \in MayHold(q, i)
    BY <1>2, <1>3, <1>4, InstalledKept
  <2>. QED  BY <2>1 DEF InstalledOK, MayHold
<1>6. LateOK(q)'
  <2>1. DOMAIN late' = {}
    OBVIOUS
  <2>. QED  BY <2>1 DEF LateOK
<1>7. SoloOK(q)'
  <2>1. pc[q] = "verify" /\ others[q] = {} =>
           nextmap' \in 1 .. Len(job[q].rotation)
    BY <1>2, <1>3, <1>4, SoloKept DEF Applying
  <2>. QED  BY <2>1 DEF SoloOK
<1>. QED  BY <1>5, <1>6, <1>7

\* A slot is filled.
InstallSlot(r) ==
    /\ pc[r] = "install"
    /\ job[r].at <= Len(job[r].rotation)
    /\ Accepted(Command(job[r].rotation, job[r].at))
    /\ job' = [job EXCEPT ![r].at = @ + 1]
    /\ UNCHANGED <<rotation, botOps, pc, others, gaveUp>>

\* The chain is started.
InstallLast(r) ==
    /\ pc[r] = "install"
    /\ job[r].at > Len(job[r].rotation)
    /\ Accepted(Command(job[r].rotation, job[r].at))
    /\ Goto(r, "verify")
    /\ UNCHANGED <<rotation, botOps, job, others, gaveUp>>

GiveUp(r) ==
    /\ pc[r] = "install"
    /\ TimedOut(Command(job[r].rotation, job[r].at))
    /\ Leave(r)
    /\ NoOthers(r)
    /\ gaveUp' = TRUE
    /\ UNCHANGED <<rotation, botOps>>

LEMMA InstallCases ==
    ASSUME IInv, NEW r \in Requests, Install(r)
    PROVE  InstallSlot(r) \/ InstallLast(r) \/ GiveUp(r)
<1>1. Len(job[r].rotation) \in Nat /\ job[r].at \in Nat
  BY Facts DEF Install, Applying, Slots
<1>. QED  BY <1>1 DEF Install, InstallSlot, InstallLast, GiveUp

LEMMA InstallSlotKeeps ==
    ASSUME IInv, NEW r \in Requests, InstallSlot(r)
    PROVE  IInv'
<1> DEFINE x == job[r].rotation
           i == job[r].at
<1>1. /\ pc[r] = "install" /\ pc[r] \in Applying
      /\ x \in Rotations /\ Len(x) \in 1 .. MaxSlots /\ MaxSlots \in Nat
      /\ i \in 1 .. Len(x) /\ i \in Slots
      /\ job[r] \in Jobs
  <2>1. pc[r] \in Applying /\ pc[r] = "install" /\ i <= Len(x)
    BY DEF InstallSlot, Applying
  <2>2. x \in Rotations /\ Len(x) \in Slots /\ i \in 1 .. Len(x) + 1
    BY <2>1, Facts
  <2>. QED  BY <2>1, <2>2, RotationAssumption DEF IInv, StepsOK, Slots
<1>2. /\ job' \in [Requests -> Jobs \cup {NoJob}]
      /\ job'[r].rotation = x /\ job'[r].at = i + 1 /\ job'[r] \in Jobs
      /\ \A q \in Requests \ {r} : job'[q] = job[q]
  <2>1. job[r] = [rotation |-> x, at |-> i]
    BY <1>1 DEF Jobs
  <2>2. [rotation |-> x, at |-> i + 1] \in Jobs
    BY <1>1 DEF Jobs
  <2>3. [job[r] EXCEPT !.at = @ + 1] = [rotation |-> x, at |-> i + 1]
    BY <2>1
  <2>4. job' = [job EXCEPT ![r] = [job[r] EXCEPT !.at = @ + 1]]
    BY DEF InstallSlot
  <2>. QED  BY <2>2, <2>3, <2>4 DEF IInv, TypeOK
<1>3. /\ EngineOK' /\ late' = <<>> /\ OnlyAdvances'
      /\ Execute(Command(x, i)) /\ Touch(Command(x, i))
      /\ others' = others /\ gaveUp' = gaveUp /\ pc' = pc
      /\ rotation' = rotation /\ botOps' = botOps
  BY <1>1, AcceptedEffect DEF InstallSlot
<1>4. \A q \in Requests \ {r} : (InstalledOK(q) /\ LateOK(q) /\ SoloOK(q))'
  BY <1>1, <1>2, <1>3, OtherHandlersKept
<1>5. InstalledOK(r) /\ EngineOK
  BY Facts DEF IInv
<1> DEFINE c == Command(x, i)
<1>6. job[r].rotation = x /\ job[r].at = i
  OBVIOUS
<1> HIDE DEF x, i
<1>7. /\ c \in Commands /\ c.cmd = "set d" /\ c.slot = i /\ c.link = Link(x, i)
      /\ Link(x, i) \in Links /\ Link(x, i).next \in 1 .. Len(x)
  <2>1. i \in 1 .. Len(x) + 1 /\ i <= Len(x)
    BY <1>1
  <2>. QED  BY <1>1, <2>1, CommandOf, LinkShape
<1>8. d' = [d EXCEPT ![i] = Link(x, i)]
  <2>1. c # SetNextMap /\ c # Advance
    BY <1>7, CommandKinds
  <2>. QED  BY <1>3, <1>7, <2>1 DEF Execute
<1> HIDE DEF c
<1>9. d'[i] = Link(x, i) /\ \A k \in Slots \ {i} : d'[k] = d[k]
  BY <1>1, <1>5, <1>8 DEF EngineOK
<1>10. TypeOK'
  BY <1>2, <1>3 DEF IInv, TypeOK, EngineOK
<1>11. StepsOK'
  <2>1. job'[r].at \in 1 .. Len(job'[r].rotation) + 1
    BY <1>1, <1>2
  <2>. QED  BY <1>1, <1>2, <1>3, <2>1 DEF IInv, StepsOK
<1>12. OthersOK'
  BY <1>2, <1>3, <1>6, OthersKept
<1>13. (InstalledOK(r) /\ LateOK(r) /\ SoloOK(r))'
  <2>1. ASSUME NEW k \in 1 .. i + 1 - 1
        PROVE  d'[k] \in MayHold(r, k)'
    <3>1. MayHold(r, k)' = MayHold(r, k) /\ Link(x, k) \in MayHold(r, k)
      BY <1>2, <1>3, <1>6 DEF MayHold
    <3>2. CASE k = i
      BY <1>9, <3>1, <3>2
    <3>3. CASE k # i
      <4>1. k \in 1 .. i - 1 /\ k \in Slots
        BY <1>1, <3>3 DEF Slots
      <4>. QED  BY <1>1, <1>5, <1>6, <1>9, <3>1, <3>3, <4>1 DEF InstalledOK
    <3>. QED  BY <3>2, <3>3
  <2>2. DOMAIN late' = {}
    BY <1>3
  <2>. QED  BY <1>1, <1>2, <1>3, <2>1, <2>2 DEF InstalledOK, LateOK, SoloOK
<1>14. ChainOK'
  <2> SUFFICES ASSUME ~gaveUp
               PROVE  \E N \in 0 .. MaxSlots : Closed(N)'
    BY <1>3 DEF ChainOK
  <2>1. PICK N \in 0 .. MaxSlots : Closed(N)
    BY DEF IInv, ChainOK
  <2>2. Installing' = Installing /\ r \in Installing
    BY <1>1, <1>3 DEF Installing
  <2>3. \A n : Reaches(n, N) => Reaches(n, N)'
    BY <1>2, <1>6, <2>2 DEF Reaches, Installing
  <2>4. \A k \in Slots : k = i => Reaches(d[k].next, N)'
    <3>1. ASSUME NEW k \in Slots, k = i
          PROVE  Reaches(d[k].next, N)'
      <4>1. Link(x, i).next <= Len(x)
        BY <1>1, LinkShape
      <4>4. d'[k] = Link(x, i)
        BY <1>9, <3>1
      <4>3. d'[k].next <= Len(job'[r].rotation)
        BY <1>2, <4>1, <4>4
      <4>2. r \in Installing'
        BY <2>2
      <4>. QED  BY <4>2, <4>3 DEF Reaches
    <3>. QED  BY <3>1
  <2>5. \A k \in Slots \ {i} : Reaches(d[k].next, N) => Reaches(d[k].next, N)'
    BY <1>9, <2>3
  <2>6. ASSUME NEW k \in 1 .. N
        PROVE  d'[k] \in Links /\ Reaches(d[k].next, N)'
    <3>1. k \in Slots
      BY <1>1 DEF Slots
    <3>. QED  BY <1>7, <1>9, <2>1, <2>4, <2>5, <3>1 DEF Closed
  <2>7. ASSUME NEW q \in Installing, NEW k \in 1 .. job'[q].at - 1
        PROVE  Reaches(d[k].next, N)'
    <3>1. k \in Slots /\ (k # i \/ q # r => k \in 1 .. job[q].at - 1)
      <4>1. job[q].at \in 1 .. Len(job[q].rotation) + 1
            /\ Len(job[q].rotation) \in Slots
        BY Facts DEF Installing, Applying
      <4>2. CASE q = r
        BY <1>1, <1>2, <1>6, <4>2 DEF Slots
      <4>3. CASE q # r
        <5>1. job'[q] = job[q]
          BY <1>2, <4>3 DEF Installing
        <5>. QED  BY <1>1, <4>1, <4>3, <5>1 DEF Slots
      <4>. QED  BY <4>2, <4>3
    <3>2. CASE k = i
      BY <2>4, <3>1, <3>2
    <3>3. CASE k # i
      BY <2>1, <2>5, <3>1, <3>3 DEF Closed
    <3>. QED  BY <3>2, <3>3
  <2>8. Closed(N)'
    BY <2>2, <2>6, <2>7 DEF Closed
  <2>. QED  BY <2>8
<1>. QED  BY <1>4, <1>10, <1>11, <1>12, <1>13, <1>14 DEF IInv

LEMMA InstallLastKeeps ==
    ASSUME IInv, NEW r \in Requests, InstallLast(r)
    PROVE  IInv'
<1> DEFINE x == job[r].rotation
<1>1. /\ pc[r] = "install" /\ pc[r] \in Applying
      /\ x \in Rotations /\ Len(x) \in 1 .. MaxSlots /\ MaxSlots \in Nat
      /\ job[r].at = Len(x) + 1 /\ Len(x) + 1 > 1
  <2>1. pc[r] \in Applying /\ pc[r] = "install" /\ job[r].at > Len(x)
    BY DEF InstallLast, Applying
  <2>2. x \in Rotations /\ Len(x) \in Slots /\ job[r].at \in 1 .. Len(x) + 1
    BY <2>1, Facts
  <2>. QED  BY <2>1, <2>2, RotationAssumption DEF Slots
<1>2. /\ EngineOK' /\ late' = <<>> /\ OnlyAdvances'
      /\ Execute(Command(x, job[r].at)) /\ Touch(Command(x, job[r].at))
  BY <1>1, AcceptedEffect DEF InstallLast
<1>3. /\ others' = others /\ gaveUp' = gaveUp /\ job' = job
      /\ rotation' = rotation /\ botOps' = botOps
      /\ pc' \in [Requests -> Steps] /\ pc'[r] = "verify"
      /\ \A q \in Requests \ {r} : pc'[q] = pc[q]
  BY DEF InstallLast, Goto, IInv, TypeOK, Steps, Applying
<1>4. \A q \in Requests \ {r} : (InstalledOK(q) /\ LateOK(q) /\ SoloOK(q))'
  BY <1>1, <1>2, <1>3, OtherHandlersKept
<1>5. InstalledOK(r) /\ EngineOK
  BY Facts DEF IInv
<1>6. job[r].rotation = x
  OBVIOUS
<1> HIDE DEF x
<1>7. d' = d /\ nextmap' = 1
  <2>1. Command(x, job[r].at) = SetNextMap
    <3>1. ~(job[r].at <= Len(x))
      BY <1>1
    <3>. QED  BY <3>1 DEF Command
  <2>. QED  BY <1>2, <2>1, CommandKinds DEF Execute
<1>8. TypeOK'
  BY <1>2, <1>3 DEF IInv, TypeOK, EngineOK
<1>9. StepsOK'
  BY <1>1, <1>3, <1>6 DEF IInv, StepsOK
<1>10. OthersOK'
  BY <1>1, <1>3, OthersKept
<1>11. (InstalledOK(r) /\ LateOK(r) /\ SoloOK(r))'
  <2>1. DOMAIN late' = {} /\ 1 \in 1 .. Len(x)
    BY <1>1, <1>2
  <2>2. \A k : MayHold(r, k)' = MayHold(r, k)
    BY <1>3 DEF MayHold
  <2>. QED  BY <1>1, <1>3, <1>5, <1>6, <1>7, <2>1, <2>2
            DEF InstalledOK, LateOK, SoloOK
<1>12. ChainOK'
  <2> SUFFICES ASSUME ~gaveUp
               PROVE  \E N \in 0 .. MaxSlots : Closed(N)'
    BY <1>2, <1>3 DEF ChainOK
  <2>1. PICK N \in 0 .. MaxSlots : Closed(N)
    BY DEF IInv, ChainOK
  <2>2. PICK M \in 0 .. MaxSlots :
           /\ N <= M /\ Len(x) <= M /\ 1 <= M
           /\ \A k \in 1 .. M : k \in 1 .. N \/ k \in 1 .. Len(x)
    <3>1. CASE N <= Len(x)
      BY <1>1, <3>1
    <3>2. CASE ~(N <= Len(x))
      BY <1>1, <3>2
    <3>. QED  BY <3>1, <3>2
  <2>3. Installing' = Installing \ {r} /\ r \in Installing
    BY <1>1, <1>3 DEF Installing
  <2>4. ASSUME NEW k \in Slots, d[k] \in Links, Reaches(d[k].next, N)
        PROVE  Reaches(d[k].next, M)'
    <3> DEFINE n == d[k].next
    <3>1. n \in Slots /\ d'[k].next = n
      BY <1>7, <2>4 DEF Links
    <3>2. n \in Nat /\ MaxSlots \in Nat
      BY <3>1, RotationAssumption DEF Slots
    <3> HIDE DEF n
    <3>3. n <= M \/ \E q \in Installing' : n <= Len(job'[q].rotation)
      <4>1. CASE n <= N
        BY <2>2, <3>2, <4>1
      <4>2. ASSUME NEW q \in Installing, n <= Len(job[q].rotation)
            PROVE  n <= M \/ \E p \in Installing' : n <= Len(job'[p].rotation)
        <5>1. CASE q = r
          BY <1>1, <1>6, <2>2, <3>2, <4>2, <5>1
        <5>2. CASE q # r
          BY <1>3, <2>3, <4>2, <5>2
        <5>. QED  BY <5>1, <5>2
      <4>3. Reaches(n, N)
        BY <2>4 DEF n
      <4>. QED  BY <4>1, <4>2, <4>3 DEF Reaches
    <3>. QED  BY <3>1, <3>3 DEF Reaches
  <2>5. \A k \in Slots : k \in 1 .. N \/ k \in 1 .. Len(x) =>
           d[k] \in Links /\ Reaches(d[k].next, N)
    <3>1. ASSUME NEW k \in Slots, k \in 1 .. Len(x)
          PROVE  d[k] \in Links /\ Reaches(d[k].next, N)
      <4>1. k \in 1 .. job[r].at - 1
        BY <1>1, <3>1
      <4>2. d[k] \in MayHold(r, k)
        BY <1>1, <1>5, <4>1 DEF InstalledOK
      <4>3. PICK y \in Rotations : k <= Len(y) /\ d[k] = Link(y, k)
        <5>1. others[r] \in SUBSET Rotations
          BY Facts
        <5>. QED  BY <1>1, <1>6, <3>1, <4>2, <5>1 DEF MayHold
      <4>4. k \in 1 .. Len(y)
        BY <1>1, <3>1, <4>3, RotationAssumption DEF Slots
      <4>. QED  BY <2>1, <2>3, <4>1, <4>3, <4>4, LinkShape DEF Closed
    <3>. QED  BY <2>1, <3>1 DEF Closed
  <2>6. ASSUME NEW k \in 1 .. M
        PROVE  d'[k] \in Links /\ Reaches(d[k].next, M)'
    <3>1. k \in Slots
      BY <1>1 DEF Slots
    <3>. QED  BY <1>7, <2>2, <2>4, <2>5, <3>1
  <2>7. ASSUME NEW q \in Installing', NEW k \in 1 .. job'[q].at - 1
        PROVE  Reaches(d[k].next, M)'
    <3>1. q \in Installing /\ k \in 1 .. job[q].at - 1
      BY <1>3, <2>3
    <3>2. /\ pc[q] \in Applying /\ Len(job[q].rotation) \in Slots
          /\ job[q].at \in 1 .. Len(job[q].rotation) + 1
      BY <3>1, Facts DEF Installing, Applying
    <3>3. k \in Slots
      BY <1>1, <3>1, <3>2 DEF Slots
    <3>4. d[k] \in Links
      <4>1. d[k] \in MayHold(q, k)
        BY <3>1, <3>2 DEF IInv, InstalledOK, Installing
      <4>2. PICK y \in Rotations : k <= Len(y) /\ d[k] = Link(y, k)
        <5>1. others[q] \in SUBSET Rotations /\ job[q].rotation \in Rotations
              /\ k <= Len(job[q].rotation)
          BY <1>1, <3>1, <3>2, Facts DEF Installing, Slots
        <5>. QED  BY <4>1, <5>1 DEF MayHold
      <4>3. k \in 1 .. Len(y)
        BY <1>1, <3>3, <4>2, RotationAssumption DEF Slots
      <4>. QED  BY <4>2, <4>3, LinkShape
    <3>5. Reaches(d[k].next, N)
      BY <2>1, <3>1 DEF Closed
    <3>. QED  BY <2>4, <3>3, <3>4, <3>5
  <2>8. Closed(M)'
    BY <1>7, <2>2, <2>6, <2>7 DEF Closed
  <2>. QED  BY <2>8
<1>. QED  BY <1>4, <1>8, <1>9, <1>10, <1>11, <1>12 DEF IInv

LEMMA GiveUpKeeps ==
    ASSUME IInv, NEW r \in Requests, GiveUp(r)
    PROVE  IInv'
<1> DEFINE c == Command(job[r].rotation, job[r].at)
<1>1. pc[r] \in Applying /\ EngineOK
  BY Facts DEF GiveUp, Applying
<1>2. c \in Commands
  BY <1>1, Facts, CommandOf
<1>3. EngineOK' /\ Touch(c) /\ Adds(c)
  BY <1>1, <1>2, SendEffect DEF GiveUp
<1>4. /\ pc' \in [Requests -> Steps]
      /\ job' \in [Requests -> Jobs \cup {NoJob}]
      /\ pc'[r] = "idle"
      /\ \A q \in Requests \ {r} : pc'[q] = pc[q] /\ job'[q] = job[q]
      /\ StepsOK'
  BY LeaveEffect DEF GiveUp
<1>5. /\ others' \in [Requests -> SUBSET Rotations]
      /\ \A q \in Requests \ {r} : others'[q] = others[q]
  BY NoOthersEffect DEF GiveUp
<1>6. TypeOK'
  BY <1>3, <1>4, <1>5 DEF GiveUp, IInv, TypeOK, EngineOK
<1>7. ASSUME NEW q \in Requests, pc'[q] \in Applying
      PROVE  pc[q] \in Applying /\ Same(q) /\ Lawful(q, c)
  <2>1. q # r
    BY <1>4, <1>7 DEF Applying
  <2>2. Same(q)
    BY <1>4, <1>5, <2>1 DEF Same
  <2>. QED  BY <1>1, <1>7, <2>1, <2>2, OthersLawful DEF Same
<1> HIDE DEF c
<1>8. /\ OthersOK'
      /\ \A q \in Requests : (InstalledOK(q) /\ LateOK(q) /\ SoloOK(q))'
  BY <1>2, <1>3, <1>7, HandlersKept
<1>9. ChainOK'
  BY DEF GiveUp, ChainOK
<1>. QED  BY <1>4, <1>6, <1>8, <1>9 DEF IInv

LEMMA VerifyInstalledKeeps ==
    ASSUME IInv, NEW r \in Requests, VerifyInstalled(r)
    PROVE  IInv'
<1>1. pc[r] = "verify" /\ pc[r] \in Applying /\ EngineOK
  BY Facts DEF VerifyInstalled, Applying
<1>2. /\ pc' \in [Requests -> Steps]
      /\ job' \in [Requests -> Jobs \cup {NoJob}]
      /\ pc'[r] = "idle"
      /\ \A q \in Requests \ {r} : pc'[q] = pc[q] /\ job'[q] = job[q]
      /\ StepsOK'
  BY LeaveEffect DEF VerifyInstalled
<1>3. /\ others' \in [Requests -> SUBSET Rotations]
      /\ \A q \in Requests \ {r} : others'[q] = others[q]
  BY NoOthersEffect DEF VerifyInstalled
<1>4. /\ UNCHANGED <<rotation, botOps, d, nextmap, live, late>>
      /\ gaveUp' = (gaveUp /\ others[r] # {}) /\ late = <<>>
  BY DEF VerifyInstalled, engine
<1>5. TypeOK'
  BY <1>2, <1>3, <1>4 DEF IInv, TypeOK
<1>6. Touch(Advance) /\ Adds(Advance)
  BY <1>4, EngineAlone
<1>7. ASSUME NEW q \in Requests
      PROVE  /\ pc'[q] \in Applying => pc[q] \in Applying /\ Same(q)
             /\ pc[q] = "install" => Same(q)
  BY <1>1, <1>2, <1>3 DEF Same, Applying
<1>8. /\ OthersOK'
      /\ \A q \in Requests : (InstalledOK(q) /\ LateOK(q) /\ SoloOK(q))'
  BY <1>6, <1>7, HandlersKept, CommandKinds DEF Lawful
<1>9. ChainOK'
  <2>1. CASE gaveUp' = gaveUp
    BY <1>6, <1>7, <2>1, ChainFollowed
  <2>2. CASE gaveUp' # gaveUp
    <3> DEFINE x == job[r].rotation
    <3>1. others[r] = {}
      BY <1>4, <2>2 DEF IInv, TypeOK
    <3>2. \A q \in Requests \ {r} : pc[q] \notin Applying
      BY <1>1, <3>1 DEF IInv, OthersOK
    <3>3. Installing' = {}
      BY <1>2, <3>2 DEF Installing, Applying
    <3>4. x \in Rotations /\ Len(x) \in 0 .. MaxSlots /\ job[r].at = Len(x) + 1
          /\ Len(x) \in Slots
      BY <1>1, Facts, RotationAssumption DEF IInv, StepsOK, Slots
    <3>5. nextmap \in 1 .. Len(x)
      BY <1>1, <3>1 DEF IInv, SoloOK
    <3>6. ASSUME NEW k \in 1 .. Len(x)
          PROVE  d[k] \in Links /\ d[k].next <= Len(x)
      <4>1. k \in 1 .. job[r].at - 1
        BY <3>4 DEF Slots
      <4>2. d[k] \in MayHold(r, k)
        BY <1>1, <4>1 DEF IInv, InstalledOK
      <4>3. d[k] = Link(x, k)
        BY <3>1, <4>2 DEF MayHold
      <4>. QED  BY <3>4, <4>3, LinkShape
    <3>7. nextmap <= Len(x)
      BY <3>4, <3>5 DEF Slots
    <3> DEFINE N == Len(x)
    <3>8. N \in 0 .. MaxSlots /\ nextmap <= N
          /\ \A k \in 1 .. N : d[k] \in Links /\ d[k].next <= N
      BY <3>4, <3>6, <3>7
    <3> HIDE DEF N
    <3>9. PICK M \in 0 .. MaxSlots :
             nextmap <= M /\ \A k \in 1 .. M : d[k] \in Links /\ d[k].next <= M
      BY <3>8
    <3>10. Closed(M)'
      BY <1>4, <3>3, <3>9 DEF Closed, Reaches
    <3>11. OnlyAdvances'
      BY <1>4 DEF OnlyAdvances
    <3>. QED  BY <3>10, <3>11 DEF ChainOK
  <2>. QED  BY <2>1, <2>2
<1>. QED  BY <1>2, <1>5, <1>8, <1>9 DEF IInv

LEMMA VerifyFailedKeeps ==
    ASSUME IInv, NEW r \in Requests, VerifyFailed(r)
    PROVE  IInv'
<1>1. /\ pc' \in [Requests -> Steps]
      /\ job' \in [Requests -> Jobs \cup {NoJob}]
      /\ pc'[r] = "idle"
      /\ \A q \in Requests \ {r} : pc'[q] = pc[q] /\ job'[q] = job[q]
      /\ StepsOK'
  BY LeaveEffect DEF VerifyFailed
<1>2. /\ others' \in [Requests -> SUBSET Rotations]
      /\ \A q \in Requests \ {r} : others'[q] = others[q]
  BY NoOthersEffect DEF VerifyFailed
<1>3. pc[r] = "verify" /\ UNCHANGED <<rotation, botOps, d, nextmap, live, late, gaveUp>>
  BY DEF VerifyFailed, engine
<1>4. TypeOK'
  BY <1>1, <1>2, <1>3 DEF IInv, TypeOK
<1>5. \A q \in Requests : /\ pc'[q] \in Applying => pc[q] \in Applying /\ Same(q)
                          /\ pc[q] = "install" => Same(q)
  BY <1>1, <1>2, <1>3 DEF Same, Applying
<1>6. Touch(Advance) /\ Adds(Advance)
  BY <1>3, EngineAlone
<1>. QED  BY <1>1, <1>3, <1>4, <1>5, <1>6, ChainFollowed DEF IInv

-----------------------------------------------------------------------------
(* nextMap, and the rest of the world.                                     *)

\* r is not applying; the engine at most follows its chain.
LEMMA BystanderKeeps ==
    ASSUME IInv, NEW r \in Requests, pc[r] \notin Applying,
           pc'[r] \notin Applying,
           pc' \in [Requests -> Steps],
           job' \in [Requests -> Jobs \cup {NoJob}],
           pc'[r] = "query" => job'[r] \in Jobs,
           \A q \in Requests \ {r} : pc'[q] = pc[q] /\ job'[q] = job[q],
           EngineOK', Touch(Advance), Adds(Advance),
           UNCHANGED <<rotation, others, gaveUp>>, botOps' \in BOOLEAN
    PROVE  IInv'
<1>1. TypeOK'
  BY DEF IInv, TypeOK, EngineOK
<1>2. StepsOK'
  BY DEF IInv, StepsOK, Applying
<1>3. \A q \in Requests : /\ pc'[q] \in Applying => pc[q] \in Applying /\ Same(q)
                          /\ pc[q] = "install" => Same(q)
  BY DEF Same, Applying
<1>. QED  BY <1>1, <1>2, <1>3, ChainFollowed DEF IInv

LEMMA NextMapKeeps ==
    ASSUME IInv, NEW r \in Requests, NextMap(r)
    PROVE  IInv'
<1>1. [rotation |-> rotation, at |-> 0] \in Jobs
  BY RotationAssumption DEF IInv, TypeOK, Jobs
<1>2. /\ pc[r] \notin Applying /\ pc'[r] \notin Applying
      /\ pc' \in [Requests -> Steps]
      /\ \A q \in Requests \ {r} : pc'[q] = pc[q]
  BY DEF NextMap, Goto, IInv, TypeOK, Steps, Applying
<1>3. /\ job' \in [Requests -> Jobs \cup {NoJob}] /\ job'[r] \in Jobs
      /\ \A q \in Requests \ {r} : job'[q] = job[q]
  BY <1>1 DEF NextMap, IInv, TypeOK
<1>4. /\ EngineOK' /\ Touch(Advance) /\ Adds(Advance)
      /\ UNCHANGED <<rotation, others, gaveUp>> /\ botOps' \in BOOLEAN
  BY EngineAlone DEF NextMap, engine, history, IInv, TypeOK, EngineOK
<1>. QED  BY <1>2, <1>3, <1>4, BystanderKeeps

\* The handler is done, whatever it sent.
LEMMA FinishKeeps ==
    ASSUME IInv, NEW r \in Requests, pc[r] \notin Applying, Finish(r),
           UNCHANGED <<rotation, engine, others, gaveUp>>
    PROVE  IInv'
<1>1. /\ pc' \in [Requests -> Steps]
      /\ job' \in [Requests -> Jobs \cup {NoJob}]
      /\ pc'[r] = "idle"
      /\ \A q \in Requests \ {r} : pc'[q] = pc[q] /\ job'[q] = job[q]
  BY LeaveEffect DEF Finish
<1>2. /\ EngineOK' /\ Touch(Advance) /\ Adds(Advance)
      /\ UNCHANGED <<rotation, others, gaveUp>> /\ botOps' \in BOOLEAN
  BY EngineAlone DEF Finish, engine, IInv, TypeOK, EngineOK
<1>. QED  BY <1>1, <1>2, BystanderKeeps DEF Applying

LEMMA QueryChainKeeps ==
    ASSUME IInv, NEW r \in Requests, QueryChain(r)
    PROVE  IInv'
<1>1. CASE Finish(r) /\ UNCHANGED <<rotation, engine, others, gaveUp>>
  BY <1>1, FinishKeeps DEF QueryChain, Applying
<1>2. CASE /\ nextmap # Unset
           /\ nextmap <= Len(job[r].rotation)
           /\ job' = [job EXCEPT ![r].at = nextmap]
           /\ Goto(r, "advance")
           /\ UNCHANGED botOps
           /\ UNCHANGED <<rotation, engine, others, gaveUp>>
  <2>1. job[r] \in Jobs /\ pc[r] = "query"
    BY DEF QueryChain, IInv, StepsOK
  <2>2. nextmap \in 0 .. MaxSlots + 1
    BY <1>2, RotationAssumption DEF IInv, TypeOK, Slots
  <2>3. [job[r] EXCEPT !.at = nextmap] \in Jobs
    BY <2>1, <2>2 DEF Jobs
  <2>4. job' = [job EXCEPT ![r] = [job[r] EXCEPT !.at = nextmap]]
    BY <1>2
  <2>5. /\ job' \in [Requests -> Jobs \cup {NoJob}]
        /\ \A q \in Requests \ {r} : job'[q] = job[q]
    BY <2>3, <2>4 DEF IInv, TypeOK
  <2>6. /\ pc' \in [Requests -> Steps] /\ pc'[r] = "advance"
        /\ \A q \in Requests \ {r} : pc'[q] = pc[q]
    BY <1>2 DEF Goto, IInv, TypeOK, Steps
  <2>7. /\ EngineOK' /\ Touch(Advance) /\ Adds(Advance)
        /\ UNCHANGED <<rotation, others, gaveUp>> /\ botOps' \in BOOLEAN
    BY <1>2, EngineAlone DEF engine, IInv, TypeOK, EngineOK
  <2>. QED  BY <2>1, <2>5, <2>6, <2>7, BystanderKeeps DEF Applying
<1>. QED  BY <1>1, <1>2 DEF QueryChain

LEMMA SendAdvanceKeeps ==
    ASSUME IInv, NEW r \in Requests, SendAdvance(r)
    PROVE  IInv'
<1>1. CASE UNCHANGED engine /\ Finish(r)
  BY <1>1, FinishKeeps DEF SendAdvance, Applying
<1>2. CASE TimedOut(Advance) /\ Goto(r, "poll") /\ UNCHANGED <<job, botOps>>
  <2>1. EngineOK' /\ Touch(Advance) /\ Adds(Advance)
    BY <1>2, Facts, SendEffect, CommandKinds
  <2>2. /\ pc[r] = "advance" /\ pc' \in [Requests -> Steps] /\ pc'[r] = "poll"
        /\ \A q \in Requests \ {r} : pc'[q] = pc[q]
    BY <1>2 DEF SendAdvance, Goto, IInv, TypeOK, Steps
  <2>. QED  BY <1>2, <2>1, <2>2, BystanderKeeps
            DEF SendAdvance, Applying, IInv, TypeOK
<1>. QED  BY <1>1, <1>2 DEF SendAdvance

LEMMA StepKeeps ==
    ASSUME IInv, NEW r \in Requests, Step(r)
    PROVE  IInv'
<1>1. CASE Apply(r)
  BY <1>1, ApplyKeeps
<1>2. CASE Install(r)
  BY <1>2, InstallCases, InstallSlotKeeps, InstallLastKeeps, GiveUpKeeps
<1>3. CASE VerifyInstalled(r)
  BY <1>3, VerifyInstalledKeeps
<1>4. CASE VerifyFailed(r)
  BY <1>4, VerifyFailedKeeps
<1>5. CASE NextMap(r)
  BY <1>5, NextMapKeeps
<1>6. CASE QueryChain(r)
  BY <1>6, QueryChainKeeps
<1>7. CASE SendAdvance(r)
  BY <1>7, SendAdvanceKeeps
<1>8. CASE SeesTarget(r) \/ StopsLooking(r)
  BY <1>8, FinishKeeps DEF SeesTarget, StopsLooking, Applying
<1>. QED  BY <1>1, <1>2, <1>3, <1>4, <1>5, <1>6, <1>7, <1>8 DEF Step

\* The handlers are where they were, and the engine only follows its chain.
LEMMA EngineKeeps ==
    ASSUME IInv, UNCHANGED <<pc, job, botOps, others, gaveUp>>,
           rotation' \in Rotations,
           EngineOK', Touch(Advance), Adds(Advance)
    PROVE  IInv'
<1>1. TypeOK' /\ StepsOK'
  BY DEF IInv, TypeOK, StepsOK, EngineOK
<1>2. \A q \in Requests : Same(q)
  BY DEF Same
<1>. QED  BY <1>1, <1>2, ChainFollowed DEF IInv, Same

LEMMA ExecuteLateKeeps ==
    ASSUME IInv, ExecuteLate
    PROVE  IInv'
<1> DEFINE c == late[1]
<1>1. /\ EngineOK' /\ 1 \in DOMAIN late /\ c \in Commands
      /\ Touch(c) /\ Adds(c)
  BY Facts, LateEffect
<1>2. UNCHANGED <<rotation, botOps, pc, job, others, gaveUp>>
  BY DEF ExecuteLate
<1>3. CASE c = Advance
  BY <1>1, <1>2, <1>3, EngineKeeps DEF IInv, TypeOK
<1>4. CASE c # Advance
  <2>1. gaveUp
    BY <1>1, <1>4 DEF IInv, ChainOK, OnlyAdvances
  <2>2. \A q \in Requests : pc'[q] \in Applying => Same(q) /\ Lawful(q, c)
    BY <1>1, <1>2 DEF Same, Lawful, IInv, LateOK
  <2> HIDE DEF c
  <2>3. /\ OthersOK'
        /\ \A q \in Requests : (InstalledOK(q) /\ LateOK(q) /\ SoloOK(q))'
    BY <1>1, <1>2, <2>2, HandlersKept
  <2>4. TypeOK' /\ StepsOK'
    BY <1>1, <1>2 DEF IInv, TypeOK, StepsOK, EngineOK
  <2>5. ChainOK'
    BY <1>2, <2>1 DEF ChainOK
  <2>. QED  BY <2>3, <2>4, <2>5 DEF IInv
<1>. QED  BY <1>3, <1>4

LEMMA RestartKeeps ==
    ASSUME IInv, Restart
    PROVE  IInv'
<1>1. TypeOK'
  BY DEF Restart, IInv, TypeOK, engine, Steps
<1>2. \A q \in Requests : pc'[q] = "idle"
  BY DEF Restart
<1>3. StepsOK' /\ OthersOK'
      /\ \A q \in Requests : (InstalledOK(q) /\ LateOK(q) /\ SoloOK(q))'
  BY <1>2 DEF StepsOK, OthersOK, InstalledOK, LateOK, SoloOK, Applying
<1>4. CASE gaveUp' = gaveUp /\ \A q \in Requests : pc[q] \notin Applying
  <2>1. Touch(Advance) /\ Adds(Advance)
    BY EngineAlone DEF Restart, engine
  <2>. QED  BY <1>1, <1>2, <1>3, <1>4, <2>1, ChainFollowed DEF IInv, Applying
<1>5. CASE gaveUp'
  BY <1>1, <1>3, <1>5 DEF IInv, ChainOK
<1>6. gaveUp \in BOOLEAN
  BY DEF IInv, TypeOK
<1>. QED  BY <1>4, <1>5, <1>6 DEF Restart

LEMMA InitIInv == Init => IInv
<1> SUFFICES ASSUME Init
             PROVE  IInv
  OBVIOUS
<1>1. \A q \in Requests : pc[q] = "idle"
  BY DEF Init
<1>2. /\ StepsOK /\ OthersOK
      /\ \A q \in Requests : InstalledOK(q) /\ LateOK(q) /\ SoloOK(q)
  BY <1>1 DEF StepsOK, OthersOK, InstalledOK, LateOK, SoloOK, Applying
<1>3. Installing = {} /\ OnlyAdvances
  BY <1>1 DEF Init, Installing, OnlyAdvances
<1>4. /\ pc \in [Requests -> Steps]
      /\ job \in [Requests -> Jobs \cup {NoJob}]
      /\ others \in [Requests -> SUBSET Rotations]
      /\ late \in Seq(Commands)
  BY DEF Init, Steps
<1>5. CASE nextmap = Unset /\ d = [i \in Slots |-> Unset]
  <2>1. d \in [Slots -> Links \cup {Unset}]
    BY <1>5
  <2>2. TypeOK
    BY <1>5, <1>4, <2>1 DEF Init, TypeOK
  <2>3. Closed(0) /\ 0 \in 0 .. MaxSlots
    BY <1>3, <1>5, RotationAssumption DEF Closed
  <2>. QED  BY <1>2, <1>3, <2>2, <2>3 DEF IInv, ChainOK
<1>6. ASSUME NEW x \in Rotations,
             nextmap = 1,
             d = [i \in Slots |-> IF i <= Len(x)
                                  THEN [entry |-> x[i],
                                        next |-> (i % Len(x)) + 1]
                                  ELSE Unset]
      PROVE  IInv
  <2>1. x \in Seq(Entries) /\ Len(x) \in 1 .. MaxSlots /\ MaxSlots \in Nat
    BY RotationAssumption DEF Slots
  <2>2. ASSUME NEW i \in Slots, i <= Len(x)
        PROVE  d[i] \in Links /\ d[i].next <= Len(x)
    <3>1. x[i] \in Entries
      BY <2>1, <2>2 DEF Slots
    <3>2. (i % Len(x)) \in 0 .. Len(x) - 1
      BY <2>1 DEF Slots
    <3>3. (i % Len(x)) + 1 \in Slots /\ (i % Len(x)) + 1 <= Len(x)
      BY <2>1, <3>2 DEF Slots
    <3>. QED  BY <1>6, <2>2, <3>1, <3>3 DEF Links
  <2>3. d \in [Slots -> Links \cup {Unset}]
    <3>1. \A i \in Slots : d[i] \in Links \cup {Unset}
      BY <1>6, <2>2
    <3>. QED  BY <1>6, <3>1
  <2>4. TypeOK
    <3>1. nextmap \in Slots
      BY <1>6, <2>1 DEF Slots
    <3>. QED  BY <1>4, <2>3, <3>1 DEF Init, TypeOK
  <2>5. \A k \in 1 .. Len(x) : d[k] \in Links /\ d[k].next <= Len(x)
    BY <2>1, <2>2 DEF Slots
  <2>6. Closed(Len(x)) /\ Len(x) \in 0 .. MaxSlots
    BY <1>3, <1>6, <2>1, <2>5 DEF Closed, Reaches
  <2>. QED  BY <1>2, <1>3, <2>4, <2>6 DEF IInv, ChainOK
<1>. QED  BY <1>5, <1>6 DEF Init

LEMMA NextIInv == IInv /\ [Next]_vars => IInv'
<1> SUFFICES ASSUME IInv, [Next]_vars
             PROVE  IInv'
  OBVIOUS
<1>1. ASSUME NEW r \in Requests, Step(r)
      PROVE  IInv'
  BY <1>1, StepKeeps
<1>2. CASE SaveRotation
  BY <1>2, Facts, EngineAlone, EngineKeeps
     DEF SaveRotation, engine, history, EngineOK
<1>3. CASE ExecuteLate
  BY <1>3, ExecuteLateKeeps
<1>4. CASE MatchEnds
  <2>1. EngineOK' /\ Touch(Advance) /\ Adds(Advance)
    BY <1>4, Facts, FollowEffect DEF MatchEnds, EngineOK, Adds
  <2>. QED  BY <1>4, <2>1, EngineKeeps DEF MatchEnds, IInv, TypeOK
<1>5. CASE MapLoaded
  <2>1. EngineOK' /\ Touch(Advance) /\ Adds(Advance)
    BY <1>5, Facts, EngineAlone DEF MapLoaded, EngineOK
  <2>. QED  BY <1>5, <2>1, EngineKeeps DEF MapLoaded, IInv, TypeOK
<1>6. CASE Restart
  BY <1>6, RestartKeeps
<1>7. CASE UNCHANGED vars
  <2>1. EngineOK' /\ Touch(Advance) /\ Adds(Advance)
    BY <1>7, Facts, EngineAlone DEF vars, engine, EngineOK
  <2>. QED  BY <1>7, <2>1, EngineKeeps DEF vars, history, IInv, TypeOK
<1>. QED  BY <1>1, <1>2, <1>3, <1>4, <1>5, <1>6, <1>7 DEF Next

\* The inductive invariant.
THEOREM Invariance == Spec => []IInv
BY InitIInv, NextIInv, PTL DEF Spec

\* Every variable keeps its type, for any handlers and rotations.
THEOREM TypeInvariance == Spec => []TypeOK
<1>1. IInv => TypeOK
  BY DEF IInv
<1>. QED  BY <1>1, Invariance, PTL

\* However rotations of any lengths were installed over each other, a server
\* that follows the chain never comes to a slot that is not there, unless one
\* of them was given up on the way.
THEOREM ChainAlwaysCloses == Spec => []ChainCloses
<1>1. ASSUME IInv
      PROVE  ChainCloses
  <2> SUFFICES ASSUME \A r \in Requests : pc[r] \notin Applying,
                      ~gaveUp, nextmap # Unset
               PROVE  Endless(nextmap)
    BY DEF ChainCloses
  <2>1. PICK N \in 0 .. MaxSlots : Closed(N)
    BY <1>1 DEF IInv, ChainOK
  <2>2. Installing = {}
    BY DEF Installing, Applying
  <2> DEFINE loop == 1 .. N
  <2>3. nextmap \in loop /\ loop \in SUBSET Slots
    BY <1>1, <2>1, <2>2, RotationAssumption DEF Closed, IInv, TypeOK, Slots
  <2>4. ASSUME NEW k \in loop
        PROVE  d[k] # Unset /\ d[k].next \in loop
    <3>1. d[k] \in Links /\ d[k].next <= N
      BY <2>1, <2>2 DEF Closed, Reaches
    <3>2. d[k].next \in Slots
      BY <3>1 DEF Links
    <3>. QED  BY <3>1, <3>2, RotationAssumption DEF Links, Slots
  <2>. QED  BY <2>3, <2>4 DEF Endless
<1>. QED  BY <1>1, Invariance, PTL

\* What applyRotation confirms is installed, but for what those who were
\* applying another rotation meanwhile put there.
THEOREM ConfirmedRotationIsInstalled == Spec => ConfirmedIsInstalled
<1> DEFINE A == \A r \in Requests :
                   VerifyInstalled(r) =>
                      \A i \in 1 .. Len(job[r].rotation) :
                         d[i] \in {Link(x, i) : x \in {job[r].rotation} \cup
                                      {y \in others[r] : i <= Len(y)}}
<1>1. ASSUME IInv
      PROVE  A
  <2> SUFFICES ASSUME NEW r \in Requests, VerifyInstalled(r),
                      NEW i \in 1 .. Len(job[r].rotation)
               PROVE  d[i] \in MayHold(r, i)
    BY DEF MayHold
  <2>1. pc[r] = "verify" /\ pc[r] \in Applying
    BY DEF VerifyInstalled, Applying
  <2>2. Len(job[r].rotation) \in Slots /\ job[r].at = Len(job[r].rotation) + 1
    BY <1>1, <2>1, Facts DEF IInv, StepsOK
  <2>3. i \in 1 .. job[r].at - 1
    BY <2>2 DEF Slots
  <2>. QED  BY <1>1, <2>1, <2>3 DEF IInv, InstalledOK
<1>2. IInv /\ [Next]_vars => A
  BY <1>1
<1>3. ConfirmedIsInstalled <=> [][A]_vars
  BY PTL DEF ConfirmedIsInstalled
<1> HIDE DEF A
<1>4. Spec => [][A]_vars
  BY <1>2, Invariance, PTL DEF Spec
<1>. QED  BY <1>3, <1>4
=============================================================================
