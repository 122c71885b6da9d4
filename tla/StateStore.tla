----------------------------- MODULE StateStore ------------------------------
(***************************************************************************)
(* What q3ctl remembers (internal/app/server.go): the policy, the friendly *)
(* fire setting inside it and the map rotation, in memory and in the state *)
(* file, and the live cvar g_friendlyFire they are to agree with.  PUT     *)
(* /bots/policy, POST /gameplay/friendly-fire and PUT /rotation run        *)
(* concurrently; q3ctl may die and load the file again, and the installed  *)
(* maps, against which a rotation is validated, may change.                *)
(*                                                                         *)
(* The rebuild inside PUT /bots/policy is BotDirector's; here it succeeds  *)
(* or fails.  The file is replaced whole or not at all, which is what      *)
(* StoreFile shows of store.File.Save.                                     *)
(***************************************************************************)
EXTENDS Integers, Sequences

CONSTANTS
    Requests,   \* HTTP handlers that may run at the same time
    Policies,   \* what validatePolicy accepts, without FriendlyFire
    Maps,       \* the maps that may be installed
    Rotations,  \* the rotations a request may send
    Defaults,   \* defaults()
    NoFile,     \* there is no state file
    MaxLate     \* bound: datagrams in the engine's receive buffer

\* A Persisted: the policy's FriendlyFire is a field of its own here, because
\* a handler of its own writes it.
Persisted == [policy : Policies, friendlyFire : BOOLEAN, rotation : Rotations]
Fields == {"policy", "friendlyFire", "rotation"}

ASSUME StateAssumption ==
    /\ Rotations \subseteq Seq(Maps)
    /\ Defaults \in Persisted
    /\ NoFile \notin Persisted
ASSUME LateAssumption == MaxLate \in Nat

VARIABLES
    state,      \* server.state
    file,       \* the state file
    catalog,    \* the installed maps; {} also if they cannot be listed
    cache,      \* mapCatalog while it is fresh, else {}
    botOps,     \* the token of the botOps channel is taken
    pc,         \* per request: the step its handler is at
    job,        \* per request: what it is about to store, or NoJob
    cvar,       \* the engine: g_friendlyFire
    late,       \* the engine: values of set g_friendlyFire not executed yet
    kept        \* per field: the value saved last, and those a failed save
                \* left in memory since

engine == <<cvar, late>>
vars == <<state, file, catalog, cache, botOps, pc, job, cvar, late, kept>>

NoJob == [op |-> "none"]
PolicyJobs   == [op : {"policy"}, policy : Policies, friendlyFire : BOOLEAN]
FireJobs     == [op : {"fire"}, friendlyFire : BOOLEAN]
RotationJobs == [op : {"rotation"}, rotation : Rotations]
Steps == {"idle", "rebuild", "send", "store"}

\* The type invariant.
TypeOK ==
    /\ state \in Persisted
    /\ file \in Persisted \cup {NoFile}
    /\ catalog \in SUBSET Maps
    /\ cache \in SUBSET Maps
    /\ botOps \in BOOLEAN
    /\ pc \in [Requests -> Steps]
    /\ job \in [Requests -> {NoJob} \cup PolicyJobs \cup FireJobs \cup RotationJobs]
    /\ cvar \in BOOLEAN
    /\ late \in Seq(BOOLEAN)
    /\ kept \in [policy : SUBSET Policies, friendlyFire : SUBSET BOOLEAN,
                 rotation : SUBSET Rotations]

-----------------------------------------------------------------------------
(* The parts the handlers share.                                           *)

\* Rotation.ValidateWithMaps; modes and limits are not told apart.
ValidRotation(x, maps) ==
    /\ 1 <= Len(x)
    /\ Len(x) <= 12
    /\ \A i \in 1 .. Len(x) : x[i] \in maps

\* availableCatalog: a fresh cache, or the installed maps, which are cached.
Available == IF cache # {} THEN cache ELSE catalog
ReadCatalog == cache' = Available

TakeToken == ~botOps /\ botOps' = TRUE

Answer(r) ==
    /\ pc' = [pc EXCEPT ![r] = "idle"]
    /\ job' = [job EXCEPT ![r] = NoJob]

\* saveLocked writes what is in memory.
\* Mutant: it is called before memory is changed.
SavedBefore(s) == file' = state
Saved(s) == file' = s

\* Under mu: change memory, then save.  If the save fails the request is
\* answered 500, and memory keeps the change.
Store(s, fields) ==
    /\ state' = s
    /\ \/ /\ Saved(s)
          /\ kept' = [f \in Fields |->
                         IF f \in fields THEN {s[f]} ELSE kept[f]]
       \/ /\ UNCHANGED file
          /\ kept' = [f \in Fields |->
                         IF f \in fields THEN kept[f] \cup {s[f]} ELSE kept[f]]

-----------------------------------------------------------------------------
(* policy (PUT).                                                           *)

\* The body is valid and the token is free.
PutPolicy(r) ==
    /\ pc[r] = "idle"
    /\ \E p \in PolicyJobs : job' = [job EXCEPT ![r] = p]
    /\ TakeToken
    /\ pc' = [pc EXCEPT ![r] = "rebuild"]
    /\ UNCHANGED <<state, file, catalog, cache, engine, kept>>

\* rebuildBots is confirmed, by a status answered after everything buffered,
\* or it fails and nothing is stored.
Rebuild(r) ==
    /\ pc[r] = "rebuild"
    /\ \/ /\ late = <<>>
          /\ pc' = [pc EXCEPT ![r] = "store"]
          /\ UNCHANGED <<botOps, job>>
       \/ Answer(r) /\ botOps' = FALSE
    /\ UNCHANGED <<state, file, catalog, cache, engine, kept>>

\* The whole policy is replaced, its FriendlyFire too; no cvar is set.
StorePolicy(r) ==
    /\ pc[r] = "store"
    /\ job[r] \in PolicyJobs
    /\ Store([state EXCEPT !.policy = job[r].policy,
                           !.friendlyFire = job[r].friendlyFire],
             {"policy", "friendlyFire"})
    /\ Answer(r)
    /\ botOps' = FALSE
    /\ UNCHANGED <<catalog, cache, engine>>

-----------------------------------------------------------------------------
(* friendlyFire (POST).                                                    *)

FriendlyFire(r) ==
    /\ pc[r] = "idle"
    /\ \E f \in FireJobs : job' = [job EXCEPT ![r] = f]
    /\ TakeToken
    /\ pc' = [pc EXCEPT ![r] = "send"]
    /\ UNCHANGED <<state, file, catalog, cache, engine, kept>>

\* set g_friendlyFire was executed: at once, or with the reply lost; or it was
\* lost; or it waits in the receive buffer.
Executed(v) == late = <<>> /\ cvar' = v /\ UNCHANGED late
Unanswered(v) ==
    \/ Executed(v)
    \/ UNCHANGED engine
    \/ Len(late) < MaxLate /\ late' = Append(late, v) /\ UNCHANGED cvar

\* Mutant: a timeout is forgiven, as the bot commands forgive it.
AcceptedOrTimeout(v) == Unanswered(v)
\* rcon without an error.
Accepted(v) == Executed(v)

SendFriendlyFire(r) ==
    /\ pc[r] = "send"
    /\ \/ /\ Accepted(job[r].friendlyFire)
          /\ pc' = [pc EXCEPT ![r] = "store"]
          /\ UNCHANGED <<botOps, job>>
       \/ /\ Unanswered(job[r].friendlyFire)
          /\ Answer(r)
          /\ botOps' = FALSE
    /\ UNCHANGED <<state, file, catalog, cache, kept>>

StoreFriendlyFire(r) ==
    /\ pc[r] = "store"
    /\ job[r] \in FireJobs
    /\ Store([state EXCEPT !.friendlyFire = job[r].friendlyFire],
             {"friendlyFire"})
    /\ Answer(r)
    /\ botOps' = FALSE
    /\ UNCHANGED <<catalog, cache, engine>>

-----------------------------------------------------------------------------
(* rotation (PUT), which takes no token.                                   *)

\* The installed maps are read and the body validated before mu is taken.
PutRotation(r) ==
    /\ pc[r] = "idle"
    /\ ReadCatalog
    /\ \E x \in RotationJobs : /\ ValidRotation(x.rotation, Available)
                               /\ job' = [job EXCEPT ![r] = x]
    /\ pc' = [pc EXCEPT ![r] = "store"]
    /\ UNCHANGED <<state, file, catalog, botOps, engine, kept>>

StoreRotation(r) ==
    /\ pc[r] = "store"
    /\ job[r] \in RotationJobs
    /\ Store([state EXCEPT !.rotation = job[r].rotation], {"rotation"})
    /\ Answer(r)
    /\ UNCHANGED <<catalog, cache, botOps, engine>>

-----------------------------------------------------------------------------
(* The rest of the world.                                                  *)

\* A set g_friendlyFire q3ctl gave up on is executed after all.
ExecuteLate ==
    /\ late # <<>>
    /\ cvar' = Head(late)
    /\ late' = Tail(late)
    /\ UNCHANGED <<state, file, catalog, cache, botOps, pc, job, kept>>

\* Packages are added or removed, or become unreadable.
CatalogChanges ==
    /\ catalog' \in SUBSET Maps
    /\ UNCHANGED <<state, file, cache, botOps, pc, job, engine, kept>>

\* The cached catalog is a minute old.
CacheExpires ==
    /\ cache' = {}
    /\ UNCHANGED <<state, file, catalog, botOps, pc, job, engine, kept>>

\* Mutant: a missing file counts as read.
LoadableOrMissing == file = NoFile \/ ValidRotation(file.rotation, catalog)
\* loadState: the file, unless its rotation is not valid for the maps that
\* are installed now.
Loadable == file # NoFile /\ ValidRotation(file.rotation, catalog)

\* q3ctl dies at any point and is started again.  Its defaults take the place
\* of what it will not load.
Restart ==
    /\ state' = IF Loadable THEN file ELSE Defaults
    /\ kept' = IF Loadable THEN kept
               ELSE [f \in Fields |-> kept[f] \cup {Defaults[f]}]
    /\ cache' = IF file # NoFile THEN catalog ELSE {}
    /\ botOps' = FALSE
    /\ pc' = [r \in Requests |-> "idle"]
    /\ job' = [r \in Requests |-> NoJob]
    /\ UNCHANGED <<file, catalog, engine>>

\* The first start, on a server that has been running.
Init ==
    /\ state = Defaults
    /\ file = NoFile
    /\ catalog \in SUBSET Maps
    /\ cache = {}
    /\ botOps = FALSE
    /\ pc = [r \in Requests |-> "idle"]
    /\ job = [r \in Requests |-> NoJob]
    /\ cvar \in BOOLEAN
    /\ late = <<>>
    /\ kept = [f \in Fields |-> {Defaults[f]}]

Step(r) ==
    \/ PutPolicy(r) \/ Rebuild(r) \/ StorePolicy(r)
    \/ FriendlyFire(r) \/ SendFriendlyFire(r) \/ StoreFriendlyFire(r)
    \/ PutRotation(r) \/ StoreRotation(r)

Next ==
    \/ \E r \in Requests : Step(r)
    \/ ExecuteLate \/ CatalogChanges \/ CacheExpires \/ Restart

Spec == Init /\ [][Next]_vars

-----------------------------------------------------------------------------
(* Properties.                                                             *)

\* Nothing saved is lost to a request of another kind: each field of memory
\* and of the file is the one saved last, or one a failed save has left in
\* memory since (which any later save writes), or the default if loadState
\* would not load the file since.
KeepsLastSaved ==
    \A f \in Fields : /\ state[f] \in kept[f]
                      /\ file # NoFile => file[f] \in kept[f]

\* When POST /gameplay/friendly-fire stores the setting, the game has it:
\* no earlier command, answered or given up, is in force or can still arrive.
FriendlyFireAgrees ==
    [][\A r \in Requests :
          StoreFriendlyFire(r) => /\ state'.friendlyFire = cvar
                                  /\ late = <<>>]_vars

(* What the documentation promises beyond that.                            *)

\* "q3ctl also persists the selected value so the dashboard accurately
\* reflects its last command": what is shown changes with the game only.
FriendlyFireShownIsLive ==
    [][\A r \in Requests :
          Step(r) /\ state'.friendlyFire # state.friendlyFire
          => state'.friendlyFire = cvar]_vars
=============================================================================
