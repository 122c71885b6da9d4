-------------------------- MODULE StateStoreProofs ---------------------------
(***************************************************************************)
(* For any handlers, policies, maps and rotations: no request undoes what  *)
(* another saved, and a stored friendly-fire setting is the live one.      *)
(* Then store.File.Save, for any values, any number of temporary files, any *)
(* failures and crashes at any step: it implements AtomicFile.             *)
(***************************************************************************)
EXTENDS StateStore, StoreFile, TLAPS

Jobs == PolicyJobs \cup FireJobs \cup RotationJobs

\* The handlers that take the token.
Gameplay == PolicyJobs \cup FireJobs

\* How far a handler is agrees with what it is about to store.
StepsOK ==
    \A r \in Requests :
        /\ pc[r] = "rebuild" => job[r] \in PolicyJobs
        /\ pc[r] = "send" => job[r] \in FireJobs
        /\ job[r] # NoJob <=> pc[r] # "idle"

\* The token is held by at most one handler, and is out while it works.
TokenOK ==
    /\ \A r \in Requests : job[r] \in Gameplay => botOps
    /\ \A r, q \in Requests :
          job[r] \in Gameplay /\ job[q] \in Gameplay => r = q

\* Once g_friendlyFire was answered, nothing changes it before it is stored.
FireOK ==
    \A r \in Requests :
        job[r] \in FireJobs /\ pc[r] = "store"
        => cvar = job[r].friendlyFire /\ late = <<>>

IInv == TypeOK /\ StepsOK /\ TokenOK /\ FireOK /\ KeepsLastSaved

\* The three kinds of job are told apart by their op.
LEMMA JobKinds ==
    /\ NoJob \notin Jobs
    /\ \A j \in PolicyJobs : j \notin FireJobs \cup RotationJobs
    /\ \A j \in FireJobs : j \notin RotationJobs
    /\ \A j \in PolicyJobs : j.policy \in Policies /\ j.friendlyFire \in BOOLEAN
    /\ \A j \in FireJobs : j.friendlyFire \in BOOLEAN
    /\ \A j \in RotationJobs : j.rotation \in Rotations
BY DEF NoJob, Jobs, PolicyJobs, FireJobs, RotationJobs

LEMMA InitIInv == Init => IInv
<1> SUFFICES ASSUME Init PROVE IInv
  OBVIOUS
<1> USE DEF Init
<1>1. Defaults \in Persisted
  BY StateAssumption
<1>2. TypeOK
  <2>1. /\ Defaults.policy \in Policies
        /\ Defaults.friendlyFire \in BOOLEAN
        /\ Defaults.rotation \in Rotations
    BY <1>1 DEF Persisted
  <2>2. kept \in [policy : SUBSET Policies, friendlyFire : SUBSET BOOLEAN,
                  rotation : SUBSET Rotations]
    BY <2>1 DEF Fields
  <2>3. pc \in [Requests -> Steps]
    BY DEF Steps
  <2>4. job \in [Requests -> {NoJob} \cup PolicyJobs \cup FireJobs
                                \cup RotationJobs]
    OBVIOUS
  <2>5. late \in Seq(BOOLEAN)
    OBVIOUS
  <2>. QED  BY <1>1, <2>2, <2>3, <2>4, <2>5 DEF TypeOK
<1>3. StepsOK /\ TokenOK /\ FireOK
  BY JobKinds DEF StepsOK, TokenOK, FireOK, Gameplay, Jobs
<1>4. KeepsLastSaved
  BY DEF KeepsLastSaved
<1>. QED  BY <1>2, <1>3, <1>4 DEF IInv

\* Store keeps what it stores, and nothing else changes in memory or file.
LEMMA StoreKeeps ==
    ASSUME NEW s \in Persisted, NEW fields \in SUBSET Fields,
           TypeOK, KeepsLastSaved, Store(s, fields),
           \A f \in Fields \ fields : s[f] = state[f]
    PROVE  /\ state' \in Persisted
           /\ file' \in Persisted \cup {NoFile}
           /\ kept' \in [policy : SUBSET Policies,
                         friendlyFire : SUBSET BOOLEAN,
                         rotation : SUBSET Rotations]
           /\ KeepsLastSaved'
<1>1. /\ kept.policy \in SUBSET Policies
      /\ kept.friendlyFire \in SUBSET BOOLEAN
      /\ kept.rotation \in SUBSET Rotations
  BY DEF TypeOK
<1>2. /\ s.policy \in Policies
      /\ s.friendlyFire \in BOOLEAN
      /\ s.rotation \in Rotations
  BY DEF Persisted
<1>3. \A f \in Fields : s[f] \in kept[f] \/ f \in fields
  BY DEF KeepsLastSaved
<1>4. state' = s
  BY DEF Store
<1>5. CASE /\ Saved(s)
           /\ kept' = [f \in Fields |->
                         IF f \in fields THEN {s[f]} ELSE kept[f]]
  <2>1. kept' \in [policy : SUBSET Policies, friendlyFire : SUBSET BOOLEAN,
                   rotation : SUBSET Rotations]
    BY <1>1, <1>2, <1>5 DEF Fields
  <2>2. file' = s
    BY <1>5 DEF Saved
  <2>3. KeepsLastSaved'
    BY <1>3, <1>4, <1>5, <2>2 DEF KeepsLastSaved
  <2>. QED  BY <1>4, <2>1, <2>2, <2>3
<1>6. CASE /\ UNCHANGED file
           /\ kept' = [f \in Fields |->
                         IF f \in fields THEN kept[f] \cup {s[f]} ELSE kept[f]]
  <2>1. kept' \in [policy : SUBSET Policies, friendlyFire : SUBSET BOOLEAN,
                   rotation : SUBSET Rotations]
    BY <1>1, <1>2, <1>6 DEF Fields
  <2>2. KeepsLastSaved'
    BY <1>3, <1>4, <1>6 DEF KeepsLastSaved
  <2>. QED  BY <1>4, <1>6, <2>1, <2>2 DEF TypeOK
<1>. QED  BY <1>5, <1>6 DEF Store

\* A handler that leaves, or the only one at work in its class, keeps the
\* order of the handlers.
LEMMA AnswerKeeps ==
    ASSUME IInv, NEW r \in Requests, Answer(r),
           UNCHANGED botOps \/ job[r] \in Gameplay
    PROVE  /\ pc' \in [Requests -> Steps]
           /\ job' \in [Requests -> {NoJob} \cup PolicyJobs \cup FireJobs
                                         \cup RotationJobs]
           /\ StepsOK'
           /\ TokenOK'
           /\ \A q \in Requests : job'[q] # NoJob => /\ q # r
                                                     /\ job'[q] = job[q]
                                                     /\ pc'[q] = pc[q]
<1>1. pc' \in [Requests -> Steps]
  BY DEF IInv, TypeOK, Answer, Steps
<1>2. job' \in [Requests -> {NoJob} \cup PolicyJobs \cup FireJobs
                                \cup RotationJobs]
  BY DEF IInv, TypeOK, Answer
<1>3. \A q \in Requests : IF q = r THEN pc'[q] = "idle" /\ job'[q] = NoJob
                          ELSE pc'[q] = pc[q] /\ job'[q] = job[q]
  BY DEF IInv, TypeOK, Answer
<1>4. StepsOK'
  BY <1>3 DEF IInv, StepsOK
<1>5. TokenOK'
  BY <1>3, JobKinds DEF IInv, TokenOK, Gameplay, Jobs
<1>. QED  BY <1>1, <1>2, <1>3, <1>4, <1>5

LEMMA StepIInv == ASSUME IInv, NEW r \in Requests, Step(r) PROVE IInv'
<1> USE DEF IInv
<1>1. CASE PutPolicy(r)
  <2>1. PICK p \in PolicyJobs : job' = [job EXCEPT ![r] = p]
    BY <1>1 DEF PutPolicy
  <2>2. /\ \A q \in Requests : job'[q] = IF q = r THEN p ELSE job[q]
        /\ \A q \in Requests : pc'[q] = IF q = r THEN "rebuild" ELSE pc[q]
        /\ ~botOps /\ botOps' = TRUE /\ pc[r] = "idle"
        /\ UNCHANGED <<state, file, catalog, cache, cvar, late, kept>>
    BY <1>1, <2>1 DEF PutPolicy, TypeOK, TakeToken, engine
  <2>3. TypeOK'
    BY <1>1, <2>1, <2>2 DEF TypeOK, PutPolicy, Steps
  <2>4. StepsOK' /\ TokenOK' /\ FireOK'
    BY <2>1, <2>2, JobKinds DEF StepsOK, TokenOK, FireOK, Gameplay, Jobs
  <2>5. KeepsLastSaved'
    BY <2>2 DEF KeepsLastSaved
  <2>. QED  BY <2>3, <2>4, <2>5
<1>2. CASE Rebuild(r)
  <2>1. UNCHANGED <<state, file, catalog, cache, cvar, late, kept>>
    BY <1>2 DEF Rebuild, engine
  <2>2. job[r] \in PolicyJobs
    BY <1>2 DEF Rebuild, StepsOK
  <2>3. CASE Answer(r) /\ botOps' = FALSE
    <3>1. job[r] \in Gameplay
      BY <2>2 DEF Gameplay
    <3>2. TypeOK' /\ StepsOK' /\ TokenOK' /\ FireOK'
      BY <2>1, <2>3, <3>1, AnswerKeeps, JobKinds DEF TypeOK, FireOK, Jobs
    <3>. QED  BY <2>1, <3>2 DEF KeepsLastSaved
  <2>4. CASE pc' = [pc EXCEPT ![r] = "store"] /\ UNCHANGED <<botOps, job>>
    <3>1. \A q \in Requests : pc'[q] = IF q = r THEN "store" ELSE pc[q]
      BY <2>4 DEF TypeOK
    <3>2. TypeOK'
      BY <2>1, <2>4 DEF TypeOK, Steps
    <3>3. StepsOK' /\ TokenOK' /\ FireOK'
      BY <2>1, <2>2, <2>4, <3>1, JobKinds DEF StepsOK, TokenOK, FireOK, Jobs
    <3>. QED  BY <2>1, <3>2, <3>3 DEF KeepsLastSaved
  <2>. QED  BY <1>2, <2>3, <2>4 DEF Rebuild
<1>3. CASE StorePolicy(r)
  <2> DEFINE s == [state EXCEPT !.policy = job[r].policy,
                                !.friendlyFire = job[r].friendlyFire]
  <2>1. /\ job[r] \in PolicyJobs /\ Answer(r)
        /\ Store(s, {"policy", "friendlyFire"})
        /\ UNCHANGED <<catalog, cache, cvar, late>> /\ botOps' = FALSE
    BY <1>3 DEF StorePolicy, engine
  <2>2. s \in Persisted /\ \A f \in Fields \ {"policy", "friendlyFire"} : s[f] = state[f]
    BY <2>1, JobKinds DEF TypeOK, Persisted, Fields
  <2>3. job[r] \in Gameplay
    BY <2>1 DEF Gameplay
  <2> HIDE DEF s
  <2>4. {"policy", "friendlyFire"} \in SUBSET Fields
    BY DEF Fields
  <2>5. /\ state' \in Persisted /\ file' \in Persisted \cup {NoFile}
        /\ kept' \in [policy : SUBSET Policies, friendlyFire : SUBSET BOOLEAN,
                      rotation : SUBSET Rotations]
        /\ KeepsLastSaved'
    BY <2>1, <2>2, <2>4, StoreKeeps
  <2>6. TypeOK' /\ StepsOK' /\ TokenOK' /\ FireOK'
    BY <2>1, <2>3, <2>5, AnswerKeeps, JobKinds DEF TypeOK, FireOK, Jobs
  <2>. QED  BY <2>5, <2>6
<1>4. CASE FriendlyFire(r)
  <2>1. PICK f \in FireJobs : job' = [job EXCEPT ![r] = f]
    BY <1>4 DEF FriendlyFire
  <2>2. /\ \A q \in Requests : job'[q] = IF q = r THEN f ELSE job[q]
        /\ \A q \in Requests : pc'[q] = IF q = r THEN "send" ELSE pc[q]
        /\ ~botOps /\ botOps' = TRUE /\ pc[r] = "idle"
        /\ UNCHANGED <<state, file, catalog, cache, cvar, late, kept>>
    BY <1>4, <2>1 DEF FriendlyFire, TypeOK, TakeToken, engine
  <2>3. TypeOK'
    BY <1>4, <2>1, <2>2 DEF TypeOK, FriendlyFire, Steps
  <2>4. StepsOK' /\ TokenOK' /\ FireOK'
    BY <2>1, <2>2, JobKinds DEF StepsOK, TokenOK, FireOK, Gameplay, Jobs
  <2>5. KeepsLastSaved'
    BY <2>2 DEF KeepsLastSaved
  <2>. QED  BY <2>3, <2>4, <2>5
<1>5. CASE SendFriendlyFire(r)
  <2>1. UNCHANGED <<state, file, catalog, cache, kept>>
    BY <1>5 DEF SendFriendlyFire
  <2>2. job[r] \in FireJobs /\ job[r].friendlyFire \in BOOLEAN
    BY <1>5, JobKinds DEF SendFriendlyFire, StepsOK
  <2>3. job[r] \in Gameplay
    BY <2>2 DEF Gameplay
  <2>4. cvar' \in BOOLEAN /\ late' \in Seq(BOOLEAN)
    BY <1>5, <2>2 DEF SendFriendlyFire, Accepted, Unanswered, Executed,
                      engine, TypeOK
  <2>5. \A q \in Requests \ {r} : job[q] \notin FireJobs
    BY <2>3 DEF TokenOK, Gameplay
  <2>6. CASE Answer(r) /\ botOps' = FALSE
    <3>1. TypeOK' /\ StepsOK' /\ TokenOK'
      BY <2>1, <2>3, <2>4, <2>6, AnswerKeeps DEF TypeOK
    <3>2. FireOK'
      BY <2>3, <2>5, <2>6, AnswerKeeps, JobKinds DEF FireOK, Jobs
    <3>. QED  BY <2>1, <3>1, <3>2 DEF KeepsLastSaved
  <2>7. CASE /\ Accepted(job[r].friendlyFire)
             /\ pc' = [pc EXCEPT ![r] = "store"]
             /\ UNCHANGED <<botOps, job>>
    <3>1. \A q \in Requests : pc'[q] = IF q = r THEN "store" ELSE pc[q]
      BY <2>7 DEF TypeOK
    <3>2. cvar' = job[r].friendlyFire /\ late' = <<>>
      BY <2>7 DEF Accepted, Executed
    <3>3. TypeOK'
      BY <2>1, <2>4, <2>7 DEF TypeOK, Steps
    <3>4. StepsOK' /\ TokenOK'
      BY <2>2, <2>7, <3>1, JobKinds DEF StepsOK, TokenOK, Jobs
    <3>5. FireOK'
      BY <2>5, <2>7, <3>1, <3>2 DEF FireOK
    <3>. QED  BY <2>1, <3>3, <3>4, <3>5 DEF KeepsLastSaved
  <2>. QED  BY <1>5, <2>6, <2>7 DEF SendFriendlyFire
<1>6. CASE StoreFriendlyFire(r)
  <2> DEFINE s == [state EXCEPT !.friendlyFire = job[r].friendlyFire]
  <2>1. /\ job[r] \in FireJobs /\ Answer(r)
        /\ Store(s, {"friendlyFire"})
        /\ UNCHANGED <<catalog, cache, cvar, late>> /\ botOps' = FALSE
    BY <1>6 DEF StoreFriendlyFire, engine
  <2>2. s \in Persisted /\ \A f \in Fields \ {"friendlyFire"} : s[f] = state[f]
    BY <2>1, JobKinds DEF TypeOK, Persisted, Fields
  <2>3. job[r] \in Gameplay
    BY <2>1 DEF Gameplay
  <2> HIDE DEF s
  <2>4. {"friendlyFire"} \in SUBSET Fields
    BY DEF Fields
  <2>5. /\ state' \in Persisted /\ file' \in Persisted \cup {NoFile}
        /\ kept' \in [policy : SUBSET Policies, friendlyFire : SUBSET BOOLEAN,
                      rotation : SUBSET Rotations]
        /\ KeepsLastSaved'
    BY <2>1, <2>2, <2>4, StoreKeeps
  <2>6. TypeOK' /\ StepsOK' /\ TokenOK' /\ FireOK'
    BY <2>1, <2>3, <2>5, AnswerKeeps, JobKinds DEF TypeOK, FireOK, Jobs
  <2>. QED  BY <2>5, <2>6
<1>7. CASE PutRotation(r)
  <2>1. PICK x \in RotationJobs : job' = [job EXCEPT ![r] = x]
    BY <1>7 DEF PutRotation
  <2>2. /\ \A q \in Requests : job'[q] = IF q = r THEN x ELSE job[q]
        /\ \A q \in Requests : pc'[q] = IF q = r THEN "store" ELSE pc[q]
        /\ pc[r] = "idle"
        /\ UNCHANGED <<state, file, catalog, botOps, cvar, late, kept>>
    BY <1>7, <2>1 DEF PutRotation, TypeOK, engine
  <2>3. cache' \in SUBSET Maps
    BY <1>7 DEF PutRotation, ReadCatalog, Available, TypeOK
  <2>4. TypeOK'
    BY <1>7, <2>1, <2>2, <2>3 DEF TypeOK, PutRotation, Steps
  <2>5. StepsOK' /\ TokenOK' /\ FireOK'
    BY <2>1, <2>2, JobKinds DEF StepsOK, TokenOK, FireOK, Gameplay, Jobs
  <2>6. KeepsLastSaved'
    BY <2>2 DEF KeepsLastSaved
  <2>. QED  BY <2>4, <2>5, <2>6
<1>8. CASE StoreRotation(r)
  <2> DEFINE s == [state EXCEPT !.rotation = job[r].rotation]
  <2>1. /\ job[r] \in RotationJobs /\ Answer(r)
        /\ Store(s, {"rotation"})
        /\ UNCHANGED <<catalog, cache, botOps, cvar, late>>
    BY <1>8 DEF StoreRotation, engine
  <2>2. s \in Persisted /\ \A f \in Fields \ {"rotation"} : s[f] = state[f]
    BY <2>1, JobKinds DEF TypeOK, Persisted, Fields
  <2> HIDE DEF s
  <2>3. {"rotation"} \in SUBSET Fields
    BY DEF Fields
  <2>4. /\ state' \in Persisted /\ file' \in Persisted \cup {NoFile}
        /\ kept' \in [policy : SUBSET Policies, friendlyFire : SUBSET BOOLEAN,
                      rotation : SUBSET Rotations]
        /\ KeepsLastSaved'
    BY <2>1, <2>2, <2>3, StoreKeeps
  <2>5. TypeOK' /\ StepsOK' /\ TokenOK' /\ FireOK'
    BY <2>1, <2>4, AnswerKeeps, JobKinds DEF TypeOK, FireOK, Jobs
  <2>. QED  BY <2>4, <2>5
<1>. QED  BY <1>1, <1>2, <1>3, <1>4, <1>5, <1>6, <1>7, <1>8 DEF Step

LEMMA NextIInv == IInv /\ [Next]_vars => IInv'
<1> SUFFICES ASSUME IInv, [Next]_vars PROVE IInv'
  OBVIOUS
<1> USE DEF IInv
<1>1. CASE \E r \in Requests : Step(r)
  BY <1>1, StepIInv
<1>2. CASE ExecuteLate
  <2>1. cvar' \in BOOLEAN /\ late' \in Seq(BOOLEAN)
    BY <1>2 DEF ExecuteLate, TypeOK
  <2>2. TypeOK'
    BY <1>2, <2>1 DEF ExecuteLate, TypeOK
  <2>3. StepsOK' /\ TokenOK' /\ KeepsLastSaved' /\ FireOK'
    BY <1>2 DEF ExecuteLate, StepsOK, TokenOK, KeepsLastSaved, FireOK
  <2>. QED  BY <2>2, <2>3
<1>3. CASE CatalogChanges \/ CacheExpires
  <2>1. TypeOK'
    BY <1>3 DEF CatalogChanges, CacheExpires, TypeOK, engine
  <2>2. StepsOK' /\ TokenOK' /\ KeepsLastSaved' /\ FireOK'
    BY <1>3 DEF CatalogChanges, CacheExpires, engine, StepsOK, TokenOK,
                KeepsLastSaved, FireOK
  <2>. QED  BY <2>1, <2>2
<1>4. CASE Restart
  <2>1. /\ UNCHANGED <<file, catalog, cvar, late>> /\ botOps' = FALSE
        /\ pc' = [r \in Requests |-> "idle"]
        /\ job' = [r \in Requests |-> NoJob]
        /\ cache' = IF file # NoFile THEN catalog ELSE {}
    BY <1>4 DEF Restart, engine
  <2>2. StepsOK' /\ TokenOK' /\ FireOK'
    BY <2>1, JobKinds DEF StepsOK, TokenOK, FireOK, Gameplay, Jobs
  <2>3. CASE Loadable
    <3>1. state' = file /\ kept' = kept /\ file # NoFile
      BY <1>4, <2>3 DEF Restart, Loadable
    <3>2. TypeOK'
      BY <2>1, <3>1 DEF TypeOK, Steps
    <3>. QED  BY <2>1, <2>2, <3>1, <3>2 DEF KeepsLastSaved
  <2>4. CASE ~Loadable
    <3>1. /\ state' = Defaults
          /\ kept' = [f \in Fields |-> kept[f] \cup {Defaults[f]}]
      BY <1>4, <2>4 DEF Restart
    <3>2. /\ Defaults \in Persisted
          /\ Defaults.policy \in Policies
          /\ Defaults.friendlyFire \in BOOLEAN
          /\ Defaults.rotation \in Rotations
      BY StateAssumption DEF Persisted
    <3>3. kept' \in [policy : SUBSET Policies, friendlyFire : SUBSET BOOLEAN,
                     rotation : SUBSET Rotations]
      BY <3>1, <3>2 DEF TypeOK, Fields
    <3>4. TypeOK'
      BY <2>1, <3>1, <3>2, <3>3 DEF TypeOK, Steps
    <3>5. KeepsLastSaved'
      BY <2>1, <3>1 DEF KeepsLastSaved
    <3>. QED  BY <2>2, <3>4, <3>5
  <2>. QED  BY <2>3, <2>4
<1>5. CASE UNCHANGED vars
  BY <1>5 DEF vars, TypeOK, StepsOK, TokenOK, FireOK, KeepsLastSaved
<1>. QED  BY <1>1, <1>2, <1>3, <1>4, <1>5 DEF Next

\* The inductive invariant of StateStore.
THEOREM Invariance == Spec => []IInv
BY InitIInv, NextIInv, PTL DEF Spec

\* The types of memory, file and engine, for any instance.
THEOREM TypeCorrect == Spec => []TypeOK
<1>1. IInv => TypeOK
  BY DEF IInv
<1>. QED  BY <1>1, Invariance, PTL

\* Memory and file hold, field by field, what was saved last.
THEOREM KeepsLast == Spec => []KeepsLastSaved
<1>1. IInv => KeepsLastSaved
  BY DEF IInv
<1>. QED  BY <1>1, Invariance, PTL

\* A friendly-fire setting is stored only while the game has it.
THEOREM StoredFireIsLive == Spec => FriendlyFireAgrees
<1> DEFINE A == \A r \in Requests :
                  StoreFriendlyFire(r) => /\ state'.friendlyFire = cvar
                                          /\ late = <<>>
<1>1. ASSUME IInv, NEW r \in Requests, StoreFriendlyFire(r)
      PROVE  state'.friendlyFire = cvar /\ late = <<>>
  <2>1. job[r] \in FireJobs /\ pc[r] = "store"
    BY <1>1 DEF StoreFriendlyFire
  <2>2. cvar = job[r].friendlyFire /\ late = <<>>
    BY <1>1, <2>1 DEF IInv, FireOK
  <2>3. state' = [state EXCEPT !.friendlyFire = job[r].friendlyFire]
    BY <1>1 DEF StoreFriendlyFire, Store
  <2>. QED  BY <1>1, <2>2, <2>3 DEF IInv, TypeOK, Persisted
<1>2. IInv /\ [Next]_vars => A
  BY <1>1
<1>3. FriendlyFireAgrees <=> [][A]_vars
  BY PTL DEF FriendlyFireAgrees
<1>. QED  BY <1>2, <1>3, Invariance, PTL DEF Spec

-----------------------------------------------------------------------------
(* store.File.Save implements AtomicFile.                                  *)

HasTemp == {"chmod", "write", "close", "check", "rename", "remove"}

\* A save is running exactly while it has a value; a temporary file is whole
\* wherever no error has been met since the write.
SInv ==
    /\ FileTypeOK
    /\ at = "idle" <=> value = Absent
    /\ at \in HasTemp => temp \in Names
    /\ at \notin {"close", "check", "remove"} => ~err
    /\ at \in {"close", "check", "rename"} /\ ~err => temps[temp] = value

LEMMA SInvInit == SaveInit => SInv
BY DEF SaveInit, SInv, FileTypeOK, SaveSteps, HasTemp

\* A call that returns leaves no locals behind.
LEMMA ReturnKeeps ==
    ASSUME SInv, Return, UNCHANGED atPath,
           temps' \in [Names -> Values \cup {Absent, Partial}]
    PROVE  SInv'
BY DEF SInv, FileTypeOK, Return, SaveSteps, HasTemp

LEMMA SInvStep == SInv /\ [SaveNext]_saveVars => SInv'
<1> SUFFICES ASSUME SInv, [SaveNext]_saveVars PROVE SInv'
  OBVIOUS
<1> USE FileAssumption DEF SInv, FileTypeOK, SaveSteps, HasTemp, NoName
<1>1. CASE Call
  BY <1>1 DEF Call
<1>2. CASE MakeDirectory \/ Marshal
  <2>1. CASE Return
    BY <1>2, <2>1, ReturnKeeps DEF MakeDirectory, Marshal
  <2>2. CASE /\ at \in {"mkdir", "marshal"}
             /\ at' \in {"marshal", "create"}
             /\ UNCHANGED <<atPath, temps, value, temp, err>>
    BY <2>2
  <2>. QED  BY <1>2, <2>1, <2>2 DEF MakeDirectory, Marshal
<1>3. CASE CreateTemp
  <2>1. CASE Return
    BY <1>3, <2>1, ReturnKeeps DEF CreateTemp
  <2>2. CASE \E n \in Names : /\ at = "create"
                             /\ temp' = n
                             /\ temps' = [temps EXCEPT ![n] = Partial]
                             /\ at' = "chmod"
                             /\ UNCHANGED <<atPath, value, err>>
    <3>1. PICK n \in Names : /\ temp' = n
                             /\ temps' = [temps EXCEPT ![n] = Partial]
      BY <2>2
    <3>2. temps' \in [Names -> Values \cup {Absent, Partial}]
      BY <3>1
    <3>3. at = "create" /\ at' = "chmod" /\ UNCHANGED <<atPath, value, err>>
      BY <2>2
    <3>4. temp' \in Names
      BY <3>1
    <3>. QED  BY <3>2, <3>3, <3>4
  <2>. QED  BY <1>3, <2>1, <2>2 DEF CreateTemp
<1>4. CASE Chmod
  <2>1. CASE at' = "write" /\ UNCHANGED err
    BY <1>4, <2>1 DEF Chmod
  <2>2. CASE at' = "close" /\ err' = TRUE
    BY <1>4, <2>2 DEF Chmod
  <2>. QED  BY <1>4, <2>1, <2>2 DEF Chmod
<1>5. CASE Write
  BY <1>5 DEF Write
<1>6. CASE Close
  BY <1>6 DEF Close
<1>7. CASE Check
  BY <1>7 DEF Check
<1>8. CASE Rename
  BY <1>8 DEF Rename
<1>9. CASE Remove
  BY <1>9 DEF Remove, Return
<1>10. CASE Killed
  BY <1>10 DEF Killed, Return
<1>11. CASE UNCHANGED saveVars
  BY <1>11 DEF saveVars
<1>. QED  BY <1>1, <1>2, <1>3, <1>4, <1>5, <1>6, <1>7, <1>8, <1>9, <1>10,
             <1>11 DEF SaveNext, SaveStep

THEOREM SaveInvariant == SaveSpec => []SInv
BY SInvInit, SInvStep, PTL DEF SaveSpec

\* What Load reads is always a whole value, or nothing.
THEOREM NeverHalfWritten == SaveSpec => []FileTypeOK
<1>1. SInv => FileTypeOK
  BY DEF SInv
<1>. QED  BY <1>1, SaveInvariant, PTL

LEMMA MapsInit == SaveInit => Atomic!Init
BY DEF SaveInit, Atomic!Init

\* Every step is a step of the atomic file, or leaves it as it is.
LEMMA MapsStep == SInv /\ [SaveNext]_saveVars => [Atomic!Next]_(Atomic!vars)
<1> SUFFICES ASSUME SInv, [SaveNext]_saveVars PROVE [Atomic!Next]_(Atomic!vars)
  OBVIOUS
<1> USE FileAssumption DEF SInv, FileTypeOK, SaveSteps, HasTemp, NoName, Atomic!vars
<1>1. CASE Call
  <2>1. Atomic!Call
    BY <1>1 DEF Call, Atomic!Call
  <2>. QED  BY <2>1 DEF Atomic!Next
<1>2. CASE MakeDirectory \/ Marshal
  <2>1. CASE Return
    <3>1. Atomic!GiveUp
      BY <1>2, <2>1 DEF MakeDirectory, Marshal, Return, Atomic!GiveUp
    <3>. QED  BY <3>1 DEF Atomic!Next
  <2>2. CASE ~Return
    BY <1>2, <2>2 DEF MakeDirectory, Marshal
  <2>. QED  BY <2>1, <2>2
<1>3. CASE CreateTemp
  <2>1. CASE Return
    <3>1. Atomic!GiveUp
      BY <1>3, <2>1 DEF CreateTemp, Return, Atomic!GiveUp
    <3>. QED  BY <3>1 DEF Atomic!Next
  <2>2. CASE ~Return
    BY <1>3, <2>2 DEF CreateTemp
  <2>. QED  BY <2>1, <2>2
<1>4. CASE Chmod \/ Write \/ Close
  BY <1>4 DEF Chmod, Write, Close
<1>5. CASE Check
  BY <1>5 DEF Check
<1>6. CASE Rename
  <2>1. CASE UNCHANGED err
    <3>1. Atomic!Replace
      BY <1>6, <2>1 DEF Rename, Atomic!Replace
    <3>. QED  BY <3>1 DEF Atomic!Next
  <2>2. CASE ~UNCHANGED err
    BY <1>6, <2>2 DEF Rename
  <2>. QED  BY <2>1, <2>2
<1>7. CASE Remove
  <2>1. CASE err
    <3>1. Atomic!GiveUp
      BY <1>7, <2>1 DEF Remove, Return, Atomic!GiveUp
    <3>. QED  BY <3>1 DEF Atomic!Next
  <2>2. CASE ~err
    <3>1. Atomic!Succeed
      BY <1>7, <2>2 DEF Remove, Return, Atomic!Succeed
    <3>. QED  BY <3>1 DEF Atomic!Next
  <2>. QED  BY <2>1, <2>2
<1>8. CASE Killed
  <2>1. Atomic!Crash
    BY <1>8 DEF Killed, Return, Atomic!Crash
  <2>. QED  BY <2>1 DEF Atomic!Next
<1>9. CASE UNCHANGED saveVars
  BY <1>9 DEF saveVars
<1>. QED  BY <1>1, <1>2, <1>3, <1>4, <1>5, <1>6, <1>7, <1>8, <1>9
          DEF SaveNext, SaveStep

\* A save replaces the whole state file in one instant or leaves it alone.
THEOREM SaveIsAtomic == SaveSpec => ReplacesAtomically
<1>1. SaveSpec => Atomic!Init /\ [][Atomic!Next]_(Atomic!vars)
  BY MapsInit, MapsStep, SaveInvariant, PTL DEF SaveSpec
<1>. QED  BY <1>1, PTL DEF ReplacesAtomically, Atomic!Spec
=============================================================================
