----------------------------- MODULE MapCatalog -----------------------------
(***************************************************************************)
(* The maps q3ctl offers: DiscoverCatalog (pkg/q3/catalog.go), which reads *)
(* the packages of the game data directory one after the other, and        *)
(* availableCatalog (internal/app/server.go), which keeps what it found    *)
(* for a minute.  Packages are installed, removed and overwritten          *)
(* meanwhile (rsync, cp), and requests that find the list too old read the *)
(* packages at the same time, each for itself.                             *)
(*                                                                         *)
(* A package is not read in one go.  Of a .pk3 the list of its entries is  *)
(* read when it is opened and then one .arena entry after the other, from  *)
(* a file that cp may be writing over; the directories of a .pk3dir are    *)
(* listed when the walk comes to them, and each .arena file is read for    *)
(* itself.  An entry that cannot be read is left out without a word.       *)
(*                                                                         *)
(* A name in lower case that mapName matches is in Maps; any other is not. *)
(***************************************************************************)
EXTENDS Integers, FiniteSets

CONSTANTS
    Requests,   \* handlers that call availableMaps or availableCatalog
    Packages,   \* names of .pk3 files and .pk3dir directories, in their order
    Dirs,       \* those of .pk3dir directories
    Contents,   \* what a package may hold, a half-written file included
    FilesOf,    \* per content: the names of its BSP files
    ArenasOf,   \* per content: its .arena files, and per file its entries
    Missing,    \* the package is not there, or not (yet) a readable archive
    Maps,       \* map names
    CtfNamed,   \* those listed as CTF packs, or with "ctf" in the name
    DmNamed,    \* those listed as TDM packs, or with "dm" in the name
    Minute,     \* how long a list is used, in ticks
    MaxChanges  \* bound: how often packages change

GameTypes == {0, 1, 3, 4}

ASSUME CatalogAssumption ==
    /\ Dirs \subseteq Packages
    /\ Packages \subseteq Nat
    /\ Missing \notin Contents
    /\ CtfNamed \cup DmNamed \subseteq Maps
    /\ Minute \in Nat \ {0}
    /\ MaxChanges \in Nat

VARIABLES
    disk,       \* per package: what it holds
    cache,      \* s.mapCatalog: a set of [name, gameTypes]
    age,        \* the time since s.mapCatalogAt
    pc,         \* per request: the step it is at
    todo,       \* per request: the packages it has still to read
    reading,    \* per request: the package it reads, and what is left of it
    found,      \* per request: the maps and the declared modes found so far
    answer,     \* per request: the list it is given
    changes,    \* how often packages changed
    held        \* history, per request: what each package held since ReadDir

request == <<pc, todo, reading, found, answer>>
vars == <<disk, cache, age, request, changes, held>>

Found == [maps : SUBSET Maps, types : SUBSET (Maps \X GameTypes)]
Infos == [name : Maps, gameTypes : SUBSET GameTypes]
Steps == {"idle", "list", "read", "maps", "scripts", "answered", "failed"}

\* A package as it was opened, and the .arena files that are still to read.
ArenaNames == UNION {DOMAIN ArenasOf[c] : c \in Contents}
Readings == [pkg : Packages, was : Contents, left : SUBSET ArenaNames]
Closed   == [left |-> {}]

\* The type invariant; a list names a map once.
TypeOK ==
    /\ disk \in [Packages -> Contents \cup {Missing}]
    /\ cache \in SUBSET Infos
    /\ \A i, j \in cache : i.name = j.name => i = j
    /\ age \in 0 .. Minute
    /\ pc \in [Requests -> Steps]
    /\ todo \in [Requests -> SUBSET Packages]
    /\ reading \in [Requests -> Readings \cup {Closed}]
    /\ found \in [Requests -> Found]
    /\ answer \in [Requests -> SUBSET Infos]
    /\ changes \in 0 .. MaxChanges
    /\ held \in [Requests -> [Packages -> SUBSET (Contents \cup {Missing})]]

-----------------------------------------------------------------------------
(* DiscoverCatalog.                                                        *)

\* gameTypesFromArena
GameTypesFromArena(words) ==
    {gt \in GameTypes :
        \/ gt = 0 /\ words \cap {"ffa", "single"} # {}
        \/ gt = 1 /\ words \cap {"tourney", "tournament"} # {}
        \/ gt = 3 /\ words \cap {"team", "tdm"} # {}
        \/ gt = 4 /\ "ctf" \in words}

\* inferredGameTypes
InferredGameTypes(m) ==
    IF m \in CtfNamed THEN {4} ELSE IF m \in DmNamed THEN {3} ELSE {}

NothingFound == [maps |-> {}, types |-> {}]

\* addMapPath and addMap: a BSP file names a map.
AddedFiles(f, files) == [f EXCEPT !.maps = @ \cup (files \cap Maps)]

\* What the entries of an .arena file declare.
Declared(blocks) ==
    {d \in Maps \X GameTypes :
        \E b \in blocks : b.map = d[1] /\ d[2] \in GameTypesFromArena(b.words)}
NamedBy(blocks) == {b.map : b \in blocks} \cap Maps

\* Mutant: the last .arena entry of a map replaces what others declared.
AddedInstead(f, blocks) ==
    [maps  |-> f.maps \cup NamedBy(blocks),
     types |-> {d \in f.types : d[1] \notin NamedBy(blocks)} \cup Declared(blocks)]
\* addArena: an entry names a map whether or not its BSP is in a package.
AddedArena(f, blocks) ==
    [maps |-> f.maps \cup NamedBy(blocks), types |-> f.types \cup Declared(blocks)]

TypesFound(f, m) == {gt \in GameTypes : <<m, gt>> \in f.types}

\* Mutant: a map appears once for each mode that is declared for it.
PerMode(f) ==
    {[name |-> d[1], gameTypes |-> {d[2]}] : d \in f.types}
\* The list: modes are inferred for a map only when none is declared for it.
Catalog(f) ==
    {[name |-> m,
      gameTypes |-> IF TypesFound(f, m) = {} THEN InferredGameTypes(m)
                                             ELSE TypesFound(f, m)] : m \in f.maps}

-----------------------------------------------------------------------------
(* availableCatalog.                                                       *)

Fresh == cache # {} /\ age < Minute

\* Mutant: a list that is used counts as new.
HitRenews == age' = 0
HitAges == UNCHANGED age

\* Under the read lock: the list is young enough and not empty ...
Hit(r) ==
    /\ pc[r] = "idle"
    /\ Fresh
    /\ HitAges
    /\ answer' = [answer EXCEPT ![r] = cache]
    /\ pc' = [pc EXCEPT ![r] = "answered"]
    /\ UNCHANGED <<disk, cache, todo, reading, found, changes, held>>

\* ... or the packages are read.
Miss(r) ==
    /\ pc[r] = "idle"
    /\ ~Fresh
    /\ pc' = [pc EXCEPT ![r] = "list"]
    /\ UNCHANGED <<disk, cache, age, todo, reading, found, answer, changes, held>>

\* os.ReadDir: what is readable, and perhaps entries that are not yet.
ReadDir(r) ==
    /\ pc[r] = "list"
    /\ \E unready \in SUBSET {p \in Packages : disk[p] = Missing} :
          todo' = [todo EXCEPT ![r] = {p \in Packages : disk[p] # Missing} \cup unready]
    /\ held' = [held EXCEPT ![r] = [p \in Packages |-> {disk[p]}]]
    /\ pc' = [pc EXCEPT ![r] = "read"]
    /\ UNCHANGED <<disk, cache, age, reading, found, answer, changes>>

ReadDirFails(r) ==
    /\ pc[r] = "list"
    /\ pc' = [pc EXCEPT ![r] = "failed"]
    /\ UNCHANGED <<disk, cache, age, todo, reading, found, answer, changes, held>>

\* The next package, when one is done with.  os.ReadDir sorts by name.
IsNext(r, p) ==
    /\ pc[r] = "read"
    /\ reading[r] = Closed
    /\ p \in todo[r]
    /\ \A q \in todo[r] : p <= q
    /\ todo' = [todo EXCEPT ![r] = @ \ {p}]

\* It cannot be opened and is left out.
SkipPackage(r, p) ==
    /\ IsNext(r, p)
    /\ disk[p] = Missing
    /\ UNCHANGED <<disk, cache, age, pc, reading, found, answer, changes, held>>

\* What is still to read of a package, which is closed when nothing is.
Reading(p, c, left) ==
    IF left = {} THEN Closed ELSE [pkg |-> p, was |-> c, left |-> left]

\* zip.OpenReader reads the list of entries; the BSP files are only listed.
OpenArchive(r, p) ==
    /\ IsNext(r, p)
    /\ p \notin Dirs
    /\ disk[p] # Missing
    /\ found' = [found EXCEPT ![r] = AddedFiles(@, FilesOf[disk[p]])]
    /\ reading' = [reading EXCEPT ![r] =
                      Reading(p, disk[p], DOMAIN ArenasOf[disk[p]])]
    /\ UNCHANGED <<disk, cache, age, pc, answer, changes, held>>

\* filepath.WalkDir lists the directory ...
OpenDir(r, p) ==
    /\ IsNext(r, p)
    /\ p \in Dirs
    /\ disk[p] # Missing
    /\ reading' = [reading EXCEPT ![r] = [pkg |-> p, was |-> disk[p], left |-> {}]]
    /\ pc' = [pc EXCEPT ![r] = "maps"]
    /\ UNCHANGED <<disk, cache, age, found, answer, changes, held>>

\* The package is as it was when it was opened.  A read that fails for
\* another reason counts as a change to Missing, and one back.
Intact(r) == disk[reading[r].pkg] = reading[r].was

FilesNow(p)  == IF disk[p] = Missing THEN {} ELSE FilesOf[disk[p]]
ArenasNow(p) == IF disk[p] = Missing THEN {} ELSE DOMAIN ArenasOf[disk[p]]

\* ... then its directory maps, which may be gone or new since ...
WalkMaps(r) ==
    /\ pc[r] = "maps"
    /\ \/ found' = [found EXCEPT ![r] = AddedFiles(@, FilesNow(reading[r].pkg))]
       \/ ~Intact(r) /\ UNCHANGED found
    /\ pc' = [pc EXCEPT ![r] = "scripts"]
    /\ UNCHANGED <<disk, cache, age, todo, reading, answer, changes, held>>

\* ... and then scripts, likewise.
WalkScripts(r) ==
    /\ pc[r] = "scripts"
    /\ \E left \in {ArenasNow(reading[r].pkg), {}} :
          /\ left = {} => ~Intact(r) \/ ArenasNow(reading[r].pkg) = {}
          /\ reading' = [reading EXCEPT ![r] = Reading(@.pkg, @.was, left)]
    /\ pc' = [pc EXCEPT ![r] = "read"]
    /\ UNCHANGED <<disk, cache, age, todo, found, answer, changes, held>>

\* Which content a file is read from.  A .pk3 is open, and its checksums find
\* out what was written over; a file of a .pk3dir is the one that is there now.
Source(r) == IF reading[r].pkg \in Dirs THEN disk[reading[r].pkg] ELSE reading[r].was
Readable(r, a) == Source(r) # Missing /\ a \in DOMAIN ArenasOf[Source(r)]

\* The next .arena file, which is left out if it cannot be opened or read.
ReadArena(r) ==
    /\ pc[r] = "read"
    /\ \E a \in reading[r].left :
          /\ \/ /\ Readable(r, a)
                /\ found' = [found EXCEPT ![r] = AddedArena(@, ArenasOf[Source(r)][a])]
             \/ /\ ~Intact(r) \/ ~Readable(r, a)
                /\ UNCHANGED found
          /\ reading' = [reading EXCEPT ![r] = Reading(@.pkg, @.was, @.left \ {a})]
    /\ UNCHANGED <<disk, cache, age, pc, todo, answer, changes, held>>

\* All are read.
Complete(r) == pc[r] = "read" /\ reading[r] = Closed /\ todo[r] = {}

\* Under the lock, whatever another request has stored since.
Store(r) ==
    /\ Complete(r)
    /\ cache' = Catalog(found[r])
    /\ age' = 0
    /\ answer' = [answer EXCEPT ![r] = Catalog(found[r])]
    /\ pc' = [pc EXCEPT ![r] = "answered"]
    /\ UNCHANGED <<disk, todo, reading, found, changes, held>>

\* The handler goes on with its list, or answers with the error.
Done(r) ==
    /\ pc[r] \in {"answered", "failed"}
    /\ pc' = [pc EXCEPT ![r] = "idle"]
    /\ found' = [found EXCEPT ![r] = NothingFound]
    /\ answer' = [answer EXCEPT ![r] = {}]
    /\ held' = [held EXCEPT ![r] = [p \in Packages |-> {}]]
    /\ UNCHANGED <<disk, cache, age, todo, reading, changes>>

-----------------------------------------------------------------------------
(* The game data directory, and time.                                      *)

Scanning(r) == pc[r] \in {"read", "maps", "scripts"}

\* A package is installed, replaced, removed, half copied or written over.
Change(p, c) ==
    /\ changes < MaxChanges
    /\ disk[p] # c
    /\ changes' = changes + 1
    /\ disk' = [disk EXCEPT ![p] = c]
    /\ held' = [r \in Requests |->
                   IF Scanning(r) THEN [held[r] EXCEPT ![p] = @ \cup {c}]
                                  ELSE held[r]]
    /\ UNCHANGED <<cache, age, request>>

Tick ==
    /\ age < Minute
    /\ age' = age + 1
    /\ UNCHANGED <<disk, cache, request, changes, held>>

Init ==
    /\ disk \in [Packages -> Contents \cup {Missing}]
    /\ cache = {}
    /\ age = Minute
    /\ pc = [r \in Requests |-> "idle"]
    /\ todo = [r \in Requests |-> {}]
    /\ reading = [r \in Requests |-> Closed]
    /\ found = [r \in Requests |-> NothingFound]
    /\ answer = [r \in Requests |-> {}]
    /\ changes = 0
    /\ held = [r \in Requests |-> [p \in Packages |-> {}]]

Next ==
    \/ \E r \in Requests :
          \/ Hit(r) \/ Miss(r) \/ ReadDir(r) \/ ReadDirFails(r)
          \/ \E p \in Packages :
                SkipPackage(r, p) \/ OpenArchive(r, p) \/ OpenDir(r, p)
          \/ WalkMaps(r) \/ WalkScripts(r) \/ ReadArena(r)
          \/ Store(r) \/ Done(r)
    \/ \E p \in Packages, c \in Contents \cup {Missing} : Change(p, c)
    \/ Tick

Spec == Init /\ [][Next]_vars

\* Time passes and a handler goes on.  Nobody needs to ask.
Fairness ==
    /\ WF_vars(Tick)
    /\ \A r \in Requests :
          /\ WF_vars(ReadDir(r) \/ ReadDirFails(r))
          /\ WF_vars(\/ \E p \in Packages :
                           SkipPackage(r, p) \/ OpenArchive(r, p) \/ OpenDir(r, p)
                     \/ WalkMaps(r) \/ WalkScripts(r) \/ ReadArena(r))
          /\ WF_vars(Store(r))
          /\ WF_vars(Done(r))

FairSpec == Spec /\ Fairness

-----------------------------------------------------------------------------
(* Properties.                                                             *)

\* The maps that packages with these contents contain or declare, and the
\* modes that all their .arena files together declare for a map.
BlocksIn(H) ==
    UNION UNION {{ArenasOf[c][a] : a \in DOMAIN ArenasOf[c]} : c \in H \ {Missing}}
MapsIn(H) ==
    {m \in Maps : \/ \E c \in H \ {Missing} : m \in FilesOf[c]
                  \/ \E b \in BlocksIn(H) : b.map = m}
ModesIn(H, m) ==
    GameTypesFromArena(UNION {b.words : b \in {x \in BlocksIn(H) : x.map = m}})

\* What the list should be: each map with all the modes declared for it, else
\* with those its name suggests.
CatalogOf(g) ==
    LET H == {g[p] : p \in Packages} IN
    {[name |-> m,
      gameTypes |-> IF ModesIn(H, m) = {} THEN InferredGameTypes(m)
                                          ELSE ModesIn(H, m)] : m \in MapsIn(H)}

\* What packages that did not change during a scan hold, and what any did.
Steady(r) == {c \in Contents : \E p \in Packages : held[r][p] = {c}}
Ever(r)   == UNION {held[r][p] : p \in Packages}

\* In the list of a scan no map and no mode comes from nowhere, and nothing is
\* missing of the packages that did not change meanwhile, in particular no mode
\* that a package declares for the map of another; modes are guessed only for
\* maps for which no such package declares any.  (Of a package that changes the
\* list may have the maps without the modes.)
TrueOfItsTime ==
    \A r \in Requests : Complete(r) =>
        /\ MapsIn(Steady(r)) \subseteq {i.name : i \in Catalog(found[r])}
        /\ \A i \in Catalog(found[r]) :
              /\ i.name \in MapsIn(Ever(r))
              /\ ModesIn(Steady(r), i.name) \subseteq i.gameTypes
              /\ \/ i.gameTypes # {} /\ i.gameTypes \subseteq ModesIn(Ever(r), i.name)
                 \/ /\ ModesIn(Steady(r), i.name) = {}
                    /\ i.gameTypes = InferredGameTypes(i.name)

\* Packages change MaxChanges times at most.  When they no longer do, every
\* request is in the end given the list of what is there: no list, not even
\* one of an old scan that is stored late, is used for ever.
CatchesUp ==
    <>[] \A r \in Requests : pc[r] = "answered" => answer[r] = CatalogOf(disk)
=============================================================================
