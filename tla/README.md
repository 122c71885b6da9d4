# q3ctl in TLA+

`q3ctl` is an HTTP control plane for one ioquake3 server. Nearly everything
that can go wrong in it is in `internal/app/server.go`: HTTP handlers run
concurrently, each of them drives the game server by a sequence of RCON
commands, one UDP datagram each, and reports success only after it has looked at
the result. Datagrams are lost, replies are lost, commands are executed after
the handler gave up on them, players come and go all along, and q3ctl itself may
be killed and started again. These modules model that part of the program, TLC
checks them on small instances, and TLAPS proves the most important results for
instances of every size.

Line numbers are those of `src/internal/app/server.go` where no file is named.

## The parts of the system

| Part | State it keeps | Operations | What makes it correct |
| --- | --- | --- | --- |
| Bot director | the token in `botOps`, `state.Policy`, a roster under construction | PUT policy, reconcile, add a bot; `rebuildBots`, `addAndConfirmBot`, `waitForBotRoster` | one operation at a time; a confirmed roster is exactly the planned one; every operation gives the token back |
| Bot rebalancing | the moves planned from an earlier status | `rebalanceBots`, `replaceBotOnTeam`, `botRebalanceMoves` | fewest moves, of bots only; what is confirmed is balanced |
| Persisted state | `server.state` under `mu`, the state file | PUT policy, friendly fire, PUT rotation, `loadState` | writers of different fields do not undo each other; what is shown is what was set |
| State file | one JSON file, temporary files | `store.File.Save`, `Load` | old content or new, never part of it; success means replaced |
| Map rotation | `state.Rotation`; on the server the chain `d1..dN`, `nextmap` | PUT rotation, apply, next map | the chain is closed and is the one confirmed |
| Live match | the game mode read last and when; on the server the map, mode and limits | load, restart, limits, status | a map is played in the mode it was loaded with; what is confirmed is live and stays so |
| RCON client and gate | `rconMu`, time of the last datagram, one socket per call | `rcon`, `getStatusOnce`, `Execute`, `GetStatus` | datagrams are spaced; an answer means that nothing sent earlier is pending; every call returns |
| Map catalog | a cache under `mu`, one minute | `availableCatalog`, `DiscoverCatalog` | a list invents nothing and lacks nothing of the packages that did not change; a stale one is replaced |
| Audit and event stream | the audit file, the set of subscribers, a channel each | `record`, `readAudit`, `stream` | no event falls between file and channel; no effect before its cause; no handler waits for a browser |
| Game log reader | an offset per stream | `readGameLog`, `populateTeamsFromGameLog` | nothing is skipped, nothing comes a third time, everything arrives |
| Lifecycle | the listener, the handlers that run | `Run`, `main` | a signal ends the process |
| Authentication, configuration, dashboard, parsing, map synchronisation, deployment scripts | - | - | not modelled, see the end |

They interact as follows. Handlers share `mu` (short critical sections around
`state`, the catalog and the subscribers), the one-token channel `botOps` (taken
by the bot operations, friendly fire, limits and next map; refused with 409 when
it is out) and `rconMu` (one datagram at a time). Everything else goes through
the game server: an addition of a bot, a kick and the end of a match all act on
the same client slots. `kick`, `loadMap`, `restartMap`, PUT rotation and apply
take no token.

Hard behaviours, with the lines where they bite, are listed in `PROJECT.json`
under `hazards`: state read before the token is taken, commands executed after
they were given up, retries of commands that may have worked, client slots that
changed hands, several commands of which one fails, a file or a package that is read while it is
written, a channel that is full, and a crash between any two steps.

## How the game server and UDP are modelled

BotDirector, BotRebalance, StateStore, MapRotation and LiveMatch have the same
idea of RCON. A command is *executed* before the handler's deadline (answered, or the
reply lost), or *lost*, or *delayed*: appended to `late`, the server's receive
buffer, and executed later by `ExecuteLate`, even after q3ctl was restarted. The
server executes datagrams in the order it received them, so nothing is answered
while `late` is not empty: an answered command or status shows that everything
sent before it has been executed or lost. That consequence is not assumed but
shown: RconGate models the gate itself (lock, distance, deadline, a socket per
call) and its property `Drained`, checked and proved, is what the guard
`late = <<>>` of the other modules says. RconGate in turn rests on q3ctl and the
server sharing the loopback interface (`rcon_addr`), which does not reorder or
duplicate datagrams. `MaxLate` bounds the buffer in the runs; the proofs hold
for every value.

`rcon` returns an error for a timeout, and the callers differ: `rebuildBots`,
`addAndConfirmBot` and `nextMap` forgive it, `friendlyFire`, `rebalanceBots`,
`replaceBotOnTeam` and `applyRotation` do not. An operation that fails for
certain (a transport error, a rejected addbot) has the outcome "nothing
happened, error".

What the engine does with a command (`Execute`, `Follow`) is modelled from how
the code uses it and is marked external in the map.

## The modules

- **BotPolicy**: pure operators: which policies are valid, the roster a policy
  stands for (`Plan`), which names an ad-hoc addition may use. A name stands for
  a class of spellings, since the code compares without case.
- **BotDirector**: the three token-holding bot handlers. `pc[r]` is the step
  handler `r` is at, between two datagrams or two critical sections; `job[r]`
  holds its locals. `Observed` is the test in `waitForBotRoster`: it sees the
  number and the names of the bots, not their teams. A wait either sees it or
  ends in its error; polling again without effect is stuttering. Kicks, players,
  Quake's auto-fill and `Restart` are actions that can occur between any two
  steps.
- **BotBalance**: the arithmetic of `botRebalanceMoves` on numbers of players.
- **BotRebalance**: the rebalance handler, from the status table over forceteam
  to the replacement of one bot after another. The status table and the teams
  (from the game log) are two reads. It holds the token, so it runs alone among
  bot operations; `kick` and players do not wait for it. Nor does Quake's
  auto-fill, which rebalancing never turns off and which adds bots on either
  team at any moment, or a restart of the game server or of q3ctl. The history
  variable `joined` collects the slots someone came into since the handler last
  looked.
- **AtomicFile** / **StoreFile**: what `internal/store` promises, and what
  `Save` does: one system call per step, each of which may fail, and a process
  that may be killed at any step. `StoreFile` implements `AtomicFile` with
  `replaced <- at = "remove" /\ ~err`. StateStore describes the same file one
  level up and is proved in the same module, so the names of StoreFile are its
  own (`SaveSpec`, `FileTypeOK`, `Absent`).
- **StateStore**: the three handlers that write `server.state`. The policy's
  `FriendlyFire` is a field of its own because two handlers write it. A save
  replaces the file whole or fails (which is what StoreFile shows). The history
  variable `kept` remembers per field the value saved last, and what failed
  saves left in memory since. The rebuild inside PUT policy is one step that
  succeeds or fails: BotDirector has its inside.
- **MapRotation**: `NextMapCommandListWithMaps` as `Command(x, i)`, applied one
  command at a time without the token; `nextMap` with it; the engine following
  the chain when a match ends. History: `others` (rotations applied meanwhile),
  `gaveUp` (an apply stopped part of the way).
- **RconGate**: `rconFor` and `getStatusOnce` with the client below them. A call
  is a step in front of `rconMu` (`Ask`, `Lock`), the sleep (`Rested`), the
  datagram from a socket of its own (`Send`), and a reply to that socket or the
  deadline (`Receive`, `GiveUp`). But for the age of a list in MapCatalog this
  is the only module that counts time: `since` is the age of `rconLast`, `age`
  that of the datagram under way, each up to the last value that makes a
  difference. `quiet` is the age of the last datagram itself, which the code
  does not have. The game server takes one datagram after the other, whenever it
  likes, and may be restarted.
- **LiveMatch**: `loadMap` (mode and map as two commands, without the token),
  `matchLimits` (three commands with it), `restartMap`, and `live` in all of
  them and in the handlers that only look. The engine latches a mode until it
  loads or restarts a map. What `live` read is remembered for the bot handlers
  in a step of its own (`remember`), since other handlers run between the reply
  and `rememberGameType`. `crossed` notes that another request sent a mode or a
  map, or the match ended, between the two commands of a load; `toldMatch` and
  `toldLimits` hold what was confirmed last and not countermanded since.
- **MapCatalog**: `DiscoverCatalog` package by package and, in a package, one
  `.arena` file after the other, with the modes that these declare and those
  that names suggest, and the one-minute cache. Its state is the game data
  directory too, which changes between any two of these steps. Of a `.pk3` the
  list of entries is read once (`OpenArchive`), and so are the BSP files, which
  are only listed; an entry is then as it was listed, or cannot be read because
  the file was written over. A `.pk3dir` is listed in three steps (`OpenDir`,
  `WalkMaps`, `WalkScripts`), and each of its `.arena` files is the one that is
  there when it is read. What cannot be read is left out (`SkipPackage`, the
  second disjunct of `ReadArena`), in a package that has changed since it was
  opened: a failing read counts as a change. `reading` is the package that is
  open and what is left of it; `held` collects what each package held during a
  scan. The parsing of paths and `.arena` files is below the model: a package
  has a set of BSP files, and per `.arena` file a set of declarations.
- **EventStream**: `record` as an append to the audit file and, later, an offer
  to all subscribers under the lock; `stream` as subscribing, reading the file,
  sending what it read, then sending from the channel; `Run` and `main` as
  signal, shutdown and the two ways it ends. `left` has the events a stream had
  no room for, `missing` those the file could not take, `before` the events
  recorded when the handler of an event began.
- **GameLogTail**: `readGameLog` as `stream` calls it: `Stat` takes the size,
  `Scan` reads to the end the file has by then, `Finish` stores the size as the
  next offset. The file grows by parts of lines, is truncated or replaced in
  between. Bytes are pieces of lines, counted. `copies` counts how often each
  piece was sent; `excused` are the pieces the code says it leaves out. Its names
  (`LogSpec`, `LogTypeOK`, `Attach`) differ from those of EventStream, the other
  half of `stream`, because both are proved in one module.

The `MC...` modules give the constants values; the `...Proofs` modules hold the
theorems.

## The runs

| Run | Instance | What it shows |
| --- | --- | --- |
| `director_safety` | 2 requests, 3 slots, 2 names, 3 policies (one invalid, one empty), 1 delayed command; about 600,000 states | `OneBotOperation`, `OnlyPlannedBots`, `NoSurplusBots`, `ConfirmedIsExact`, `AddedToItsTeam`, `PolicyStays` |
| `director_live` | 2 requests, 2 slots, 1 policy, no delayed command | `BotSlotReleased` under fairness |
| `store_file` | 2 values, 2 temporary names | `Save` implements `AtomicFile` |
| `state_store` | 2 requests, 2 policies, 2 maps of which any may be missing, 1 delayed command; about 500,000 states | `KeepsLastSaved`, `FriendlyFireAgrees` |
| `bot_rebalance` | 3 slots, 2 names, of which Quake may add either, 1 delayed command; about 395,000 states | `OnlyNewcomersTouched`, `ConfirmedIsBalanced`, `ReplacedOnItsTeam` |
| `map_rotation` | 2 requests, 2 entries, rotations of 1, 2 and 3 entries, 1 delayed command; about 1,200,000 states | `ChainCloses`, `ConfirmedIsInstalled` |
| `rcon_gate` | 3 callers, one of them of `getStatusOnce`, 4 calls, room for 2 datagrams, a gap of 2 and a deadline of 3 ticks; about 52,000 states | `Drained`, `Spaced`; `CallReturns` under fairness |
| `live_match` | 2 requests, 2 pairs of map and mode, limits, a rotation of 1 entry, 1 delayed command; about 1,000,000 states | `ConfirmedHolds`, `LoadsItsPair`; `ModeForgotten` under fairness |
| `map_catalog` | 2 requests, a `.pk3` and a `.pk3dir` of 2 possible contents, one with 2 `.arena` files, or none, 3 maps, 2 changes, a minute of 2 ticks; about 440,000 states | `TrueOfItsTime`; `CatchesUp` under fairness |
| `event_stream` | 3 events, 1 stream, a channel of 1 and a window of 2; about 190,000 states | `NeverMissed`, `CauseFirst`; `HandlersAnswer`, `StopEnds` under fairness |
| `game_log` | a log of up to 4 pieces, a tail of 2; about 58,000 states | `NothingSkipped`, `AtMostTwice`; `EveryPieceArrives` under fairness |

Why these bounds are enough to meet the interesting cases. Two requests are the
fewest that overlap, and only one can hold the token; a third would only be
refused. Three slots for two planned bots leave room for a second copy of one of
them, a person, or a bot of Quake's own. One delayed command suffices to have a
command of one operation executed inside another; the proofs cover more. A team
of three against none is the smallest case in which rebalancing has to move a
bot; cases with several moves are covered by the proofs (the arithmetic for all
numbers, `OnlyNewcomersTouched` for all sets of slots). Three rotations of
different lengths are the fewest for which a shorter one is installed over a
longer one and the other way round. `Restart` is not bounded.

In `rcon_gate` two datagrams fit the buffer, so one of a call that gave up can
wait in front of another; four names for calls are one more than can be in use
by three callers one of which holds the gate. In `event_stream` the third event
overflows both the channel of one and the window of two, and two events are the
fewest that can come in the wrong order. Streams do not affect one another, so
one is enough. In `map_catalog` two packages can declare modes for one map, and
a map can move from one to the other during a scan; two changes are a removal
and an installation, or a change and its undoing while a package is open, and a
list of the time before both may be stored after both. The run starts with both
packages there (`MCInit`); the proof starts with any directory.
In `game_log` four pieces exceed the tail by a whole line. In `live_match` one
delayed command can belong to a handler that gave up and be executed between the
two commands of another; the proofs cover any number.

Symmetry is used in the safety runs only.

**Fairness.** Nothing is assumed anywhere of the game server, the network, the
players or the browsers.

- BotDirector: weak fairness of each handler's steps. A handler is a goroutine,
  and each of its waits has a deadline (3 seconds per command, 5 seconds per
  roster, 3 attempts per bot), so it always goes on.
- RconGate: the same for a caller, weak fairness of time, and strong fairness of
  `Lock`: a Go mutex hands itself over to a goroutine that has waited for 1 ms,
  so that nobody waits for ever behind others.
- LiveMatch: a handler stores what it has read, and two minutes pass.
- MapCatalog: a handler that reads the packages goes on, and time passes. Nobody
  is assumed to ask: `CatchesUp` is about the requests there are.
- EventStream: a handler goes on and ends in an error or an event, and Shutdown
  looks at its connections and at its deadline. Streams may stand still.
- GameLogTail: the ticker fires every second (`Stat`), and reading does not fail
  for ever (strong fairness of `Scan`, which a failing `os.Open` disables for
  one call). This leaves out a line that is over the limit of the scanner,
  256 KiB (1572): reading it fails every time, and nothing behind it would
  arrive.

One run shows code that does not do what its comment says; it is the finding of
`PROJECT.json`: `friendly_fire_shown_is_live`. q3ctl "persists the selected value
so the dashboard accurately reflects its last command" (675-676), but PUT policy
overwrites the whole saved policy with the setting in it (658) and does not send
it.

Other places where a comment or an answer promises more than the code does were
met while modelling. The models contain the behaviour; no property claims the promise:

- "a later rebuild intentionally restores that exact policy" (803): `reconcile`
  copies the policy before it takes the token (1185), and rebuilds one that was
  replaced meanwhile. `PolicyStays` is what holds: no policy is replaced while an
  operation has the token.
- "a failed rebuild must leave the server clean" (1087): the one cleanup command
  may be lost, and nobody looks. `OnlyPlannedBots` is what holds: the next
  rebuild is not disturbed by what is left.
- "bots were applied but policy could not be persisted" (659): the policy stays in
  memory after the failed save, and the next save of anything writes it. `kept`
  in StateStore has it as one of the values memory and the file may hold.
- "A saved rotation is durable" (`src/README.md:69`): `loadState` drops the file
  if the installed maps cannot be listed at that moment.
- "It never moves a human" (993, 956): commands name slots of an earlier status
  reply. `OnlyNewcomersTouched` is what holds: only somebody who came to a slot
  after the handler looked.
- "the requested entry must become the live map/mode" (1343): `nextMap` forgives
  a timeout and takes the map that is running already for its effect.
- "later calls return only appended lines" (1548): what is appended between
  taking the size and reading is returned twice, and a line may be returned in
  two parts. `AtMostTwice` and `NothingSkipped` are what holds.
- "lists loadable BSP maps" (`pkg/q3/catalog.go:29`): a map that only an `.arena`
  file names is listed too (line 59).

A few promises hold only under conditions, which the properties state.
`ConfirmedIsExact` needs distinct names in the plan, which `validatePolicy` does
not demand, and auto-fill off, which a lost `set bot_minplayers 0` may leave on.
`ReplacedOnItsTeam` needs distinct names of the other bots, and auto-fill off
too: rebalancing never turns it off (only a rebuild does, 1075), and after the
kick (980) Quake may add a bot of the same name on the team it left; if the
`addbot` is lost, `waitForBotRoster` (1141), which does not look at teams, takes
that one for it. `ConfirmedIsBalanced`
needs that nobody came or went between the two reads of `live`. `ChainCloses`
needs that no apply stopped part of the way. `LoadsItsPair` needs that no other
load crossed and the match did not end between the two commands of a load, which
is what it costs to take no token; `NeverMissed` excepts what the file, the
channel or the window had no room for; `NothingSkipped` excepts what lay before
the offset in a replaced file that was not shorter. `TrueOfItsTime` is about the
packages that do not change during a scan: of one that does, and of one with an
`.arena` file that cannot be read (`catalog.go:75-78`, 95), the list may have the
maps without their declared modes, with modes guessed from the names instead. If
nothing changes, it says that the list is exactly `CatalogOf` the directory.
`Spaced` is about the distance of the datagrams q3ctl sends; that the server's
limiter therefore drops none of them is not checked.

## What is proved

For any sets of requests, slots, names, policies and maps, and any number of
delayed commands, from the named assumptions at the head of each module (which
say that a person is not a bot, that policies are of the decoded type, that the
file system's "no file" is not a value, and the like):

- **BotDirectorProofs**. The inductive invariant `IInv` joins `TypeOK`,
  `LocalsOK` (how far a handler is agrees with its locals), `OneBotOperation`,
  and `Owned` for every request (what a rebuild that has counted an empty server
  owns: the buffered commands, the bots, the bot it added), of which
  `OnlyPlannedBots` is a part. The two properties alone are not inductive: that
  a rebuild's server has only its own bots needs that no other handler is past
  the token, and that every command still in the buffer is its own, which an
  answered empty status establishes. From `IInv` follow `MutualExclusion`,
  `OnlyPlanned`, `AddConfirmed`, `PolicyKept` and `RebuildConfirmed`; the last
  needs a counting argument: `n` bots among whom are `n` different names have
  each name once. `NoSurplus` joins `IInv` with its own bound, on bots there and
  in the buffer together, since each try adds at most one to their sum and an
  execution moves one from the buffer to the server.
- **StateStoreProofs**: `IInv` adds to the checked properties that a request at
  its store step has the job of its kind, and that the token holder is the only
  one with a friendly-fire command accepted and not stored: the accepted command
  emptied the buffer, and nobody else may fill it.
  For `store.File.Save` `SInv` says that a temporary file that will be renamed
  holds the value, and every step of `Save` is a step of `AtomicFile` or none
  (`SaveIsAtomic`).
- **BotRebalanceProofs**: `IInv` says that every command planned, sent or
  delayed addresses a slot that holds nobody, a bot, or someone who came later;
  `NewcomersOnly` follows. `ReplacedRight` needs `ReplaceOK` as well: from when
  the table showed the other bots and no more of them than names, no bot of the
  removed one's name is left (`NoneBesides`), so, auto-fill being off, whoever has
  that name afterwards came by an addbot of this replacement, and every addbot still buffered is one of
  those, since the table was an answer. When the table shows one more, it is
  there once (`OneBesides`). `ConfirmedBalance` is a fact about counts: what the
  two reads of `live` add up to is who is there (`TallyIsPresent`).
  The arithmetic of `botRebalanceMoves`, for all numbers: the moves balance the
  teams (`MovesBalance`), no fewer would (`MovesSmallest`), there are bots enough
  for them (`EnoughBots`: no index out of range at line 1031), and the handler
  refuses only what is impossible (`RefusalIsExact`).
- **MapRotationProofs**: `ConfirmedIsInstalled` needs that what a request has put
  in its slots so far is still there or was overwritten by one it knows of
  (`InstalledOK`): its first answered command emptied the buffer, so what is
  buffered later comes of others that were applying at the same time (`LateOK`),
  and each of two that overlap knows of the other (`OthersOK`). `SoloOK` is why an
  apply that was alone and is confirmed ends the damage of one that was given up.
  `ChainCloses` is about the time when nobody applies anything, and is not
  inductive: while a rotation is being applied the chain has holes. `Closed(N)`
  says that the first `N` slots lead to one another but for slots that a running
  apply has yet to fill (`Reaches`), and that `nextmap` is among them unless an
  apply that is going to set it is running. Each answered command keeps it, with a
  larger `N` if need be.
- **RconGateProofs**: `IInv` says that of the buffered datagrams that of the call
  under way is the last (`OwnIsLast`), since only who holds the lock sends; when
  it is replied to, the buffer is empty (`RepliedIsDrained`), and stays so until
  the caller returns. `GapCovers` says that `rconLast` is never older than the
  last datagram once a call is over, from which `KeepsDistance` follows.
- **LiveMatchProofs**: `IInv` adds to `ConfirmedHolds` that no command that could
  undo it is buffered (`MatchHeld`, `LimitsHeld`), and to a load between its two
  commands that its mode is latched and no other mode is buffered (`ModeHeld`).
  All three begin with an answer, which empties the buffer, and end when
  something is sent. `OneSetsLimits` is the token.
- **StreamProofs**: for EventStream, where each recorded event is on its way: it
  is in the file or `missing` (`KnownOK`), and once a stream has read the file
  it was sent, waits in the channel or is excused (`OnItsWay`, from which
  `NothingMissed`). In the file, in a channel and in what was sent each event
  comes after its causes, those of a channel perhaps among what was sent
  (`FileOK`, `ChannelOK`, `SentOK`, from which `CausesFirst`). The two
  properties alone are not inductive: they say nothing of what the file and the
  channel hold before a stream has written it. For GameLogTail, `LogIInv`
  relates per piece the copies sent to the offset and to the size taken
  (`CopiesOK`, `OwedOK`), for files that grow, shrink or are replaced at any
  moment.
- **MapCatalogProofs**: the invariant of one request, `ScanOf`, has a part for
  each direction. `NothingInvented`: for each map and mode found there is a
  package that held it at some moment of the scan. `NothingLost`: of a package
  that is not in `todo` and has held one content all along, each file and each
  declaration is found or `Waiting` in the package that is open. The property
  speaks of scans that are complete only, so it is far from inductive; and the
  parts need `Opened`, that the open package held what it was opened with
  at some moment, from which follows that one that has not changed can be read
  (`AsOpened`). A change ends the claim for the package that changes and no
  other (`ChangeOK`). That modes may be collected entry by entry or from all
  words at once is `ModesInIs`. `TypeInvariance` includes that a list names a map
  once.

So every safety property that a run finds to hold is proved as well. Only
model-checked: liveness (`BotSlotReleased`, `EveryPieceArrives`,
`HandlersAnswer`, `StopEnds`, `CallReturns`, `CatchesUp`, `ModeForgotten`), which
the prover does not reach, and the finding.

Two components that describe one part of the program from two sides share a proof
module: StateStore and StoreFile, EventStream and GameLogTail, BotRebalance and
its arithmetic.

## What is not modelled

Time itself outside RconGate and the age of a list in MapCatalog: elsewhere a
deadline may pass at any point. Contents of replies beyond what a handler tests,
among them that only the first datagram of a long reply is read. Spelling: names
that differ in case are classes or different names. Bot skills and the `Adaptive`
setting, which the code stores and does not use. `announce`, which sends one
command and confirms nothing. The loss of unsynced data in a power failure
(`Save` does not sync); only the process dies. Reading an existing state file is
assumed to succeed.

Whole parts left out, and why:

- Authentication and CSRF: a comparison with two values fixed at the start, in
  front of every handler. No state changes.
- Configuration: read and validated once before anything else starts.
- The dashboard: browser code; what it sends is any valid request of the models.
- Status parsing and metrics: text formats of the engine and of `/proc`; the
  models start from what is parsed.
- Map synchronisation: a sequential tool for another host; its effect on q3ctl is
  the action `Change` of MapCatalog.
- Deployment scripts: straight-line shell, run once by an operator.

## Plan

Done, the most important behaviour first: BotPolicy, BotDirector; StoreFile,
StateStore; BotBalance, BotRebalance; MapRotation; RconGate, on which all of them
rest; LiveMatch; GameLogTail, EventStream, MapCatalog. All of
them are checked and their safety properties proved. What is left:

1. An abstract specification of the bot token and the saved policy (one operation
   at a time, a policy that changes in one instant), and BotDirector shown to
   implement it, checked first and then proved step by step.
2. The same for the packet gate: RconGate as an abstract channel that either
   answers with an empty buffer or times out, which is what the other modules
   take it for.
3. The event stream as an abstract log that each browser reads in order.
