-------------------------- MODULE MapCatalogProofs ---------------------------
(***************************************************************************)
(* For any packages, contents, requests and number of changes: a list      *)
(* names a map once, invents nothing, and lacks nothing of the packages    *)
(* that did not change while it was made.                                  *)
(***************************************************************************)
EXTENDS MapCatalog, TLAPS

States == Contents \cup {Missing}

\* A package with content c names the map m; it declares the mode d[2] for the
\* map d[1].
Naming(c, m) ==
    \/ m \in FilesOf[c]
    \/ \E a \in DOMAIN ArenasOf[c] : m \in NamedBy(ArenasOf[c][a])
Declaring(c, d) == \E a \in DOMAIN ArenasOf[c] : d \in Declared(ArenasOf[c][a])

\* What was found is what some package held at some moment of the scan.
NothingInvented(r) ==
    /\ \A m \in found[r].maps : \E p \in Packages :
          \E c \in held[r][p] \ {Missing} : Naming(c, m)
    /\ \A d \in found[r].types : \E p \in Packages :
          \E c \in held[r][p] \ {Missing} : Declaring(c, d)

\* The .arena file a of package p is still to be read.
Waiting(r, p, a) ==
    /\ reading[r] # Closed
    /\ reading[r].pkg = p
    /\ pc[r] \in {"maps", "scripts"} \/ a \in reading[r].left

\* Of a package that has not changed since the directory was read, everything
\* is found or still to be read.
NothingLost(r) ==
    \A p \in Packages \ todo[r], c \in Contents : held[r][p] = {c} =>
        /\ \/ pc[r] = "maps" /\ reading[r].pkg = p
           \/ FilesOf[c] \cap Maps \subseteq found[r].maps
        /\ \A a \in DOMAIN ArenasOf[c] :
              \/ Waiting(r, p, a)
              \/ /\ NamedBy(ArenasOf[c][a]) \subseteq found[r].maps
                 /\ Declared(ArenasOf[c][a]) \subseteq found[r].types

\* A package that is open held at some moment what it held when it was opened.
Opened(r) ==
    /\ reading[r] # Closed => /\ reading[r].pkg \notin todo[r]
                              /\ reading[r].was \in held[r][reading[r].pkg]
    /\ pc[r] \in {"maps", "scripts"} => /\ reading[r] # Closed
                                        /\ reading[r].pkg \in Dirs

\* The invariant of one request, which is stable while that request is left
\* alone and no package changes.
ScanOf(r) ==
    /\ Scanning(r) => /\ \A p \in Packages : disk[p] \in held[r][p]
                      /\ NothingInvented(r)
                      /\ NothingLost(r)
                      /\ Opened(r)
    /\ ~Scanning(r) => reading[r] = Closed
    /\ pc[r] \in {"idle", "list", "failed"} => found[r] = NothingFound

IInv == TypeOK /\ \A r \in Requests : ScanOf(r)

-----------------------------------------------------------------------------
(* The operators.                                                          *)

LEMMA FoundType ==
    ASSUME NEW f \in Found
    PROVE  /\ \A files : AddedFiles(f, files) \in Found
           /\ \A blocks : AddedArena(f, blocks) \in Found
<1>1. f = [maps |-> f.maps, types |-> f.types]
      /\ f.maps \in SUBSET Maps /\ f.types \in SUBSET (Maps \X GameTypes)
  BY DEF Found
<1>2. ASSUME NEW files PROVE AddedFiles(f, files) \in Found
  <2>1. f.maps \cup (files \cap Maps) \in SUBSET Maps
    BY <1>1
  <2>. QED  BY <1>1, <2>1 DEF AddedFiles, Found
<1>3. ASSUME NEW blocks PROVE AddedArena(f, blocks) \in Found
  <2>1. NamedBy(blocks) \in SUBSET Maps
    BY DEF NamedBy
  <2>2. Declared(blocks) \in SUBSET (Maps \X GameTypes)
    BY DEF Declared
  <2>3. f.maps \cup NamedBy(blocks) \in SUBSET Maps
    BY <1>1, <2>1
  <2>4. f.types \cup Declared(blocks) \in SUBSET (Maps \X GameTypes)
    BY <1>1, <2>2
  <2>. QED  BY <2>3, <2>4 DEF AddedArena, Found
<1>. QED  BY <1>2, <1>3

\* What adding does to the two parts of what was found.
LEMMA Adds ==
    ASSUME NEW f \in Found
    PROVE  /\ \A files :
                 /\ AddedFiles(f, files).maps = f.maps \cup (files \cap Maps)
                 /\ AddedFiles(f, files).types = f.types
           /\ \A blocks :
                 /\ AddedArena(f, blocks).maps = f.maps \cup NamedBy(blocks)
                 /\ AddedArena(f, blocks).types = f.types \cup Declared(blocks)
<1>1. f = [maps |-> f.maps, types |-> f.types]
  BY DEF Found
<1>. QED  BY <1>1 DEF AddedFiles, AddedArena

\* A package that is open and one that is closed can be told apart, and what
\* Reading makes is one or the other.
LEMMA ReadingType ==
    /\ Closed \notin Readings
    /\ \A p \in Packages, c \in Contents, left \in SUBSET ArenaNames :
          /\ Reading(p, c, left) \in Readings \cup {Closed}
          /\ left = {} => Reading(p, c, left) = Closed
          /\ left # {} => Reading(p, c, left)
                             = [pkg |-> p, was |-> c, left |-> left]
          /\ [pkg |-> p, was |-> c, left |-> left] \in Readings
<1>1. Closed \notin Readings
  BY DEF Closed, Readings
<1>. QED  BY <1>1 DEF Readings, Reading

LEMMA ArenaNamesOf == \A c \in Contents : DOMAIN ArenasOf[c] \in SUBSET ArenaNames
BY DEF ArenaNames

\* A list names a map once.
LEMMA CatalogType ==
    ASSUME NEW f \in Found
    PROVE  /\ Catalog(f) \in SUBSET Infos
           /\ \A i, j \in Catalog(f) : i.name = j.name => i = j
<1> DEFINE modes(m) == IF TypesFound(f, m) = {} THEN InferredGameTypes(m)
                                                ELSE TypesFound(f, m)
           info(m) == [name |-> m, gameTypes |-> modes(m)]
<1>1. Catalog(f) = {info(m) : m \in f.maps}
  BY DEF Catalog
<1>2. \A m : modes(m) \in SUBSET GameTypes
  BY DEF TypesFound, InferredGameTypes, GameTypes
<1>3. f.maps \subseteq Maps
  BY DEF Found
<1>4. \A m \in f.maps : info(m) \in Infos
  BY <1>2, <1>3 DEF Infos
<1> HIDE DEF modes
<1>5. ASSUME NEW i \in Catalog(f), NEW j \in Catalog(f), i.name = j.name
      PROVE  i = j
  <2>1. PICK m \in f.maps : i = info(m)
    BY <1>1
  <2>2. PICK n \in f.maps : j = info(n)
    BY <1>1
  <2>. QED  BY <1>5, <2>1, <2>2
<1>. QED  BY <1>1, <1>4, <1>5


LEMMA MapsInIs ==
    ASSUME NEW H, NEW m
    PROVE  m \in MapsIn(H) <=> m \in Maps /\ \E c \in H \ {Missing} : Naming(c, m)
<1>1. \A b : b \in BlocksIn(H) <=> \E c \in H \ {Missing} :
                \E a \in DOMAIN ArenasOf[c] : b \in ArenasOf[c][a]
  BY DEF BlocksIn
<1>2. \A n \in Maps : \A blocks : n \in NamedBy(blocks) <=> \E b \in blocks : b.map = n
  BY DEF NamedBy
<1>. QED  BY <1>1, <1>2 DEF MapsIn, Naming

LEMMA ModesInIs ==
    ASSUME NEW H, NEW m \in Maps, NEW gt \in GameTypes
    PROVE  gt \in ModesIn(H, m) <=> \E c \in H \ {Missing} : Declaring(c, <<m, gt>>)
<1> DEFINE B == {b \in BlocksIn(H) : b.map = m}
           W == {b.words : b \in B}
<1>1. gt \in GameTypesFromArena(UNION W)
      <=> \E w \in W : gt \in GameTypesFromArena(w)
  BY DEF GameTypesFromArena
<1>2. ModesIn(H, m) = GameTypesFromArena(UNION W)
  BY DEF ModesIn
<1>3. gt \in ModesIn(H, m) <=> \E b \in B : gt \in GameTypesFromArena(b.words)
  <2> HIDE DEF B
  <2>1. (\E w \in W : gt \in GameTypesFromArena(w))
        <=> \E b \in B : gt \in GameTypesFromArena(b.words)
    OBVIOUS
  <2>. QED  BY <1>1, <1>2, <2>1
<1>4. \A b : b \in BlocksIn(H) <=> \E c \in H \ {Missing} :
                \E a \in DOMAIN ArenasOf[c] : b \in ArenasOf[c][a]
  BY DEF BlocksIn
<1>5. \A blocks : <<m, gt>> \in Declared(blocks)
         <=> \E b \in blocks : b.map = m /\ gt \in GameTypesFromArena(b.words)
  BY DEF Declared
<1>. QED  BY <1>3, <1>4, <1>5 DEF Declaring

-----------------------------------------------------------------------------
(* The types.                                                              *)

LEMMA InvInit == Init => IInv
<1> SUFFICES ASSUME Init PROVE IInv
  OBVIOUS
<1>1. NothingFound \in Found
  BY DEF NothingFound, Found
<1>2. TypeOK
  BY <1>1, CatalogAssumption DEF Init, TypeOK, Steps, Infos
<1>3. \A r \in Requests : ScanOf(r)
  BY DEF Init, ScanOf, Scanning
<1>. QED  BY <1>2, <1>3 DEF IInv

\* A package that a request has open.
LEMMA OpenType ==
    ASSUME TypeOK, NEW r \in Requests, reading[r] # Closed
    PROVE  /\ reading[r].pkg \in Packages
           /\ reading[r].was \in Contents
           /\ reading[r].left \in SUBSET ArenaNames
<1>1. reading[r] \in Readings
  BY DEF TypeOK
<1>. QED  BY <1>1 DEF Readings

LEMMA TypeStep == IInv /\ [Next]_vars => TypeOK'
<1> SUFFICES ASSUME IInv, [Next]_vars PROVE TypeOK'
  OBVIOUS
<1>a. TypeOK /\ \A r \in Requests : ScanOf(r)
  BY DEF IInv
<1> USE DEF TypeOK, Steps
<1>0. NothingFound \in Found
  BY DEF NothingFound, Found
<1>1. ASSUME NEW r \in Requests, Hit(r) PROVE TypeOK'
  BY <1>a, <1>1 DEF Hit, HitAges
<1>2. ASSUME NEW r \in Requests, Miss(r) PROVE TypeOK'
  BY <1>a, <1>2 DEF Miss
<1>3. ASSUME NEW r \in Requests, ReadDir(r) PROVE TypeOK'
  <2>1. PICK unready \in SUBSET {p \in Packages : disk[p] = Missing} :
           todo' = [todo EXCEPT ![r] =
                       {p \in Packages : disk[p] # Missing} \cup unready]
    BY <1>3 DEF ReadDir
  <2>2. todo' \in [Requests -> SUBSET Packages]
    BY <1>a, <2>1
  <2>3. [p \in Packages |-> {disk[p]}]
           \in [Packages -> SUBSET (Contents \cup {Missing})]
    BY <1>a
  <2>4. held' \in [Requests -> [Packages -> SUBSET (Contents \cup {Missing})]]
    BY <1>a, <1>3, <2>3 DEF ReadDir
  <2>5. pc' \in [Requests -> Steps]
    BY <1>a, <1>3 DEF ReadDir
  <2>. QED  BY <1>a, <1>3, <2>2, <2>4, <2>5 DEF ReadDir
<1>4. ASSUME NEW r \in Requests, ReadDirFails(r) PROVE TypeOK'
  BY <1>a, <1>4 DEF ReadDirFails
<1>5. ASSUME NEW r \in Requests, NEW p \in Packages, IsNext(r, p)
      PROVE  todo' \in [Requests -> SUBSET Packages]
  BY <1>a, <1>5 DEF IsNext
<1>6. ASSUME NEW r \in Requests, NEW p \in Packages, SkipPackage(r, p)
      PROVE  TypeOK'
  BY <1>a, <1>5, <1>6 DEF SkipPackage
<1>7. ASSUME NEW r \in Requests, NEW p \in Packages, OpenArchive(r, p)
      PROVE  TypeOK'
  <2>1. disk[p] \in Contents /\ IsNext(r, p)
    BY <1>a, <1>7 DEF OpenArchive
  <2>2. Reading(p, disk[p], DOMAIN ArenasOf[disk[p]]) \in Readings \cup {Closed}
    BY <2>1, ReadingType, ArenaNamesOf
  <2>3. reading' \in [Requests -> Readings \cup {Closed}]
    BY <1>a, <1>7, <2>2 DEF OpenArchive
  <2>4. AddedFiles(found[r], FilesOf[disk[p]]) \in Found
    BY <1>a, FoundType
  <2>5. found' \in [Requests -> Found]
    BY <1>a, <1>7, <2>4 DEF OpenArchive
  <2>6. todo' \in [Requests -> SUBSET Packages]
    BY <1>5, <2>1
  <2>. QED  BY <1>a, <1>7, <2>3, <2>5, <2>6 DEF OpenArchive
<1>8. ASSUME NEW r \in Requests, NEW p \in Packages, OpenDir(r, p)
      PROVE  TypeOK'
  <2>1. disk[p] \in Contents /\ IsNext(r, p)
    BY <1>a, <1>8 DEF OpenDir
  <2>2. [pkg |-> p, was |-> disk[p], left |-> {}] \in Readings
    BY <2>1, ReadingType
  <2>3. reading' \in [Requests -> Readings \cup {Closed}]
    BY <1>a, <1>8, <2>2 DEF OpenDir
  <2>4. todo' \in [Requests -> SUBSET Packages]
    BY <1>5, <2>1
  <2>5. pc' \in [Requests -> Steps]
    BY <1>a, <1>8 DEF OpenDir
  <2>. QED  BY <1>a, <1>8, <2>3, <2>4, <2>5 DEF OpenDir
<1>9. ASSUME NEW r \in Requests, WalkMaps(r) PROVE TypeOK'
  <2>1. AddedFiles(found[r], FilesNow(reading[r].pkg)) \in Found
    BY <1>a, FoundType
  <2>2. found' \in [Requests -> Found]
    BY <1>a, <1>9, <2>1 DEF WalkMaps
  <2>3. pc' \in [Requests -> Steps]
    BY <1>a, <1>9 DEF WalkMaps
  <2>. QED  BY <1>a, <1>9, <2>2, <2>3 DEF WalkMaps
<1>10. ASSUME NEW r \in Requests, WalkScripts(r) PROVE TypeOK'
  <2>1. PICK left \in {ArenasNow(reading[r].pkg), {}} :
           reading' = [reading EXCEPT ![r] = Reading(@.pkg, @.was, left)]
    BY <1>10 DEF WalkScripts
  <2>2. reading[r] # Closed
    BY <1>a, <1>10 DEF WalkScripts, ScanOf, Scanning, Opened
  <2>3. reading[r].pkg \in Packages /\ reading[r].was \in Contents
    BY <1>a, <2>2, OpenType
  <2>4. ArenasNow(reading[r].pkg) \in SUBSET ArenaNames
    BY <1>a, <2>3, ArenaNamesOf DEF ArenasNow
  <2>5. Reading(reading[r].pkg, reading[r].was, left) \in Readings \cup {Closed}
    BY <2>3, <2>4, ReadingType
  <2>6. reading' \in [Requests -> Readings \cup {Closed}]
    BY <1>a, <2>1, <2>5
  <2>7. pc' \in [Requests -> Steps]
    BY <1>a, <1>10 DEF WalkScripts
  <2>. QED  BY <1>a, <1>10, <2>6, <2>7 DEF WalkScripts
<1>11. ASSUME NEW r \in Requests, ReadArena(r) PROVE TypeOK'
  <2>1. PICK a \in reading[r].left :
           /\ found' = [found EXCEPT ![r] = AddedArena(@, ArenasOf[Source(r)][a])]
              \/ UNCHANGED found
           /\ reading' = [reading EXCEPT ![r] = Reading(@.pkg, @.was, @.left \ {a})]
    BY <1>11 DEF ReadArena
  <2>2. reading[r] # Closed
    BY <2>1 DEF Closed
  <2>3. /\ reading[r].pkg \in Packages
        /\ reading[r].was \in Contents
        /\ reading[r].left \ {a} \in SUBSET ArenaNames
    BY <1>a, <2>2, OpenType
  <2>4. Reading(reading[r].pkg, reading[r].was, reading[r].left \ {a})
           \in Readings \cup {Closed}
    BY <2>3, ReadingType
  <2>5. reading' \in [Requests -> Readings \cup {Closed}]
    BY <1>a, <2>1, <2>4
  <2>6. AddedArena(found[r], ArenasOf[Source(r)][a]) \in Found
    BY <1>a, FoundType
  <2>7. found' \in [Requests -> Found]
    BY <1>a, <2>1, <2>6
  <2>. QED  BY <1>a, <1>11, <2>5, <2>7 DEF ReadArena
<1>12. ASSUME NEW r \in Requests, Store(r) PROVE TypeOK'
  <2>1. /\ Catalog(found[r]) \in SUBSET Infos
        /\ \A i, j \in Catalog(found[r]) : i.name = j.name => i = j
    BY <1>a, CatalogType
  <2>2. age' \in 0 .. Minute
    BY <1>12, CatalogAssumption DEF Store
  <2>. QED  BY <1>a, <1>12, <2>1, <2>2 DEF Store
<1>13. ASSUME NEW r \in Requests, Done(r) PROVE TypeOK'
  <2>1. [p \in Packages |-> {}] \in [Packages -> SUBSET (Contents \cup {Missing})]
    OBVIOUS
  <2>2. held' \in [Requests -> [Packages -> SUBSET (Contents \cup {Missing})]]
    BY <1>a, <1>13, <2>1 DEF Done
  <2>3. found' \in [Requests -> Found]
    BY <1>a, <1>0, <1>13 DEF Done
  <2>. QED  BY <1>a, <1>13, <2>2, <2>3 DEF Done
<1>14. ASSUME NEW p \in Packages, NEW c \in States, Change(p, c)
       PROVE  TypeOK'
  <2>1. c \in Contents \cup {Missing}
    BY DEF States
  <2>2. disk' \in [Packages -> Contents \cup {Missing}]
    BY <1>a, <1>14, <2>1 DEF Change
  <2>3. \A r \in Requests : [held[r] EXCEPT ![p] = @ \cup {c}]
                               \in [Packages -> SUBSET (Contents \cup {Missing})]
    BY <1>a, <2>1
  <2>4. held' \in [Requests -> [Packages -> SUBSET (Contents \cup {Missing})]]
    BY <1>a, <1>14, <2>3 DEF Change
  <2>5. changes' \in 0 .. MaxChanges
    BY <1>a, <1>14, CatalogAssumption DEF Change
  <2>. QED  BY <1>a, <1>14, <2>2, <2>4, <2>5 DEF Change, request
<1>15. CASE Tick
  BY <1>a, <1>15, CatalogAssumption DEF Tick, request
<1>16. CASE UNCHANGED vars
  BY <1>a, <1>16 DEF vars, request
<1>. QED  BY <1>1, <1>2, <1>3, <1>4, <1>6, <1>7, <1>8, <1>9, <1>10, <1>11,
             <1>12, <1>13, <1>14, <1>15, <1>16 DEF Next, States

-----------------------------------------------------------------------------
(* The steps of a scan.                                                    *)

LEMMA Undisturbed ==
    ASSUME NEW r, ScanOf(r), UNCHANGED disk, pc'[r] = pc[r], todo'[r] = todo[r],
           reading'[r] = reading[r], found'[r] = found[r], held'[r] = held[r]
    PROVE  ScanOf(r)'
<1>1. /\ NothingInvented(r) => NothingInvented(r)'
      /\ NothingLost(r) => NothingLost(r)'
      /\ Opened(r) => Opened(r)'
  BY DEF NothingInvented, NothingLost, Waiting, Opened
<1>. QED  BY <1>1 DEF ScanOf, Scanning

\* What is added must be what some package holds or held.
LEMMA StillTrue ==
    ASSUME NEW r, NothingInvented(r), held'[r] = held[r],
           \A m \in found'[r].maps \ found[r].maps : \E p \in Packages :
              \E c \in held[r][p] \ {Missing} : Naming(c, m),
           \A d \in found'[r].types \ found[r].types : \E p \in Packages :
              \E c \in held[r][p] \ {Missing} : Declaring(c, d)
    PROVE  NothingInvented(r)'
BY DEF NothingInvented

\* A package that has not changed is as it was when it was opened, and nothing
\* but the package that is open is still to be read.
LEMMA AsOpened ==
    ASSUME TypeOK, NEW r \in Requests, ScanOf(r), Scanning(r),
           NEW p \in Packages, NEW c, held[r][p] = {c}
    PROVE  /\ disk[p] = c
           /\ reading[r] # Closed /\ reading[r].pkg = p =>
                 /\ reading[r].was = c
                 /\ Intact(r)
                 /\ Source(r) = c
<1>1. disk[p] = c
  BY DEF ScanOf
<1>2. ASSUME reading[r] # Closed, reading[r].pkg = p
      PROVE  reading[r].was = c
  BY <1>2 DEF ScanOf, Opened
<1>. QED  BY <1>1, <1>2 DEF Intact, Source

LEMMA ReadDirOK ==
    ASSUME IInv, NEW r \in Requests, ReadDir(r) PROVE ScanOf(r)'
<1>1. TypeOK /\ ScanOf(r)
  BY DEF IInv
<1>2. /\ todo'[r] \in SUBSET Packages
      /\ \A p \in Packages \ todo'[r] : disk[p] = Missing
  BY <1>1 DEF ReadDir, TypeOK
<1>3. /\ pc[r] = "list" /\ pc'[r] = "read"
      /\ \A p \in Packages : held'[r][p] = {disk[p]}
      /\ UNCHANGED <<disk, reading, found>>
  BY <1>1 DEF ReadDir, TypeOK
<1>4. found'[r] = NothingFound /\ reading'[r] = Closed
  BY <1>1, <1>3 DEF ScanOf, Scanning
<1>5. NothingInvented(r)'
  BY <1>4 DEF NothingInvented, NothingFound
<1>6. NothingLost(r)'
  BY <1>2, <1>3, CatalogAssumption DEF NothingLost
<1>7. Opened(r)'
  BY <1>3, <1>4 DEF Opened
<1>. QED  BY <1>3, <1>5, <1>6, <1>7 DEF ScanOf, Scanning

\* What the three actions on the next package have in common.
LEMMA NextOK ==
    ASSUME IInv, NEW r \in Requests, NEW p \in Packages, IsNext(r, p)
    PROVE  /\ TypeOK /\ ScanOf(r) /\ Scanning(r)
           /\ pc[r] = "read" /\ reading[r] = Closed
           /\ p \in todo[r] /\ todo'[r] = todo[r] \ {p}
           /\ disk[p] \in held[r][p]
           /\ \A k \in Packages \ todo[r], c \in Contents : held[r][k] = {c} =>
                 /\ FilesOf[c] \cap Maps \subseteq found[r].maps
                 /\ \A a \in DOMAIN ArenasOf[c] :
                       /\ NamedBy(ArenasOf[c][a]) \subseteq found[r].maps
                       /\ Declared(ArenasOf[c][a]) \subseteq found[r].types
<1>1. TypeOK /\ ScanOf(r) /\ Scanning(r) /\ pc[r] = "read" /\ reading[r] = Closed
  BY DEF IInv, IsNext, Scanning
<1>2. p \in todo[r] /\ todo'[r] = todo[r] \ {p}
  BY <1>1 DEF IsNext, TypeOK
<1>3. disk[p] \in held[r][p] /\ NothingLost(r)
  BY <1>1 DEF ScanOf
<1>4. \A k, a : ~Waiting(r, k, a)
  BY <1>1 DEF Waiting
<1>. QED  BY <1>1, <1>2, <1>3, <1>4 DEF NothingLost

LEMMA SkipOK ==
    ASSUME IInv, NEW r \in Requests, NEW p \in Packages, SkipPackage(r, p)
    PROVE  ScanOf(r)'
<1>1. /\ IsNext(r, p) /\ disk[p] = Missing
      /\ UNCHANGED <<disk, pc, reading, found, held>>
  BY DEF SkipPackage
<1>2. NothingInvented(r)'
  BY <1>1, NextOK DEF ScanOf, NothingInvented
<1>3. NothingLost(r)'
  <2>1. \A c \in Contents : held[r][p] # {c}
    BY <1>1, NextOK, CatalogAssumption
  <2>. QED  BY <1>1, <2>1, NextOK DEF NothingLost
<1>4. Opened(r)' /\ Scanning(r)' /\ pc'[r] = "read"
  BY <1>1, NextOK DEF Opened, Scanning
<1>5. \A k \in Packages : disk'[k] \in held'[r][k]
  BY <1>1, NextOK DEF ScanOf
<1>. QED  BY <1>2, <1>3, <1>4, <1>5 DEF ScanOf

LEMMA OpenArchiveOK ==
    ASSUME IInv, NEW r \in Requests, NEW p \in Packages, OpenArchive(r, p)
    PROVE  ScanOf(r)'
<1> DEFINE D == disk[p]
           left == DOMAIN ArenasOf[D]
<1>1. IsNext(r, p) /\ D # Missing /\ UNCHANGED <<disk, pc, held>>
  BY DEF OpenArchive
<1>2. /\ TypeOK /\ D \in Contents /\ found[r] \in Found
      /\ left \in SUBSET ArenaNames
  BY <1>1, NextOK, ArenaNamesOf DEF TypeOK
<1>3. /\ reading'[r] = Reading(p, D, left)
      /\ found'[r] = AddedFiles(found[r], FilesOf[D])
  BY <1>2 DEF OpenArchive, TypeOK
<1>4. /\ found'[r].maps = found[r].maps \cup (FilesOf[D] \cap Maps)
      /\ found'[r].types = found[r].types
  BY <1>2, <1>3, Adds
<1>5. /\ left = {} => reading'[r] = Closed
      /\ left # {} => /\ reading'[r] # Closed
                      /\ reading'[r] = [pkg |-> p, was |-> D, left |-> left]
  BY <1>2, <1>3, ReadingType
<1> HIDE DEF left
<1>6. NothingInvented(r)'
  <2>1. \A m \in FilesOf[D] \cap Maps : Naming(D, m)
    BY DEF Naming
  <2>. QED  BY <1>1, <1>4, <2>1, NextOK, StillTrue DEF ScanOf
<1>7. NothingLost(r)'
  <2> SUFFICES ASSUME NEW k \in Packages \ todo'[r], NEW c \in Contents,
                      held[r][k] = {c}
               PROVE  /\ FilesOf[c] \cap Maps \subseteq found'[r].maps
                      /\ \A a \in DOMAIN ArenasOf[c] :
                            \/ Waiting(r, k, a)'
                            \/ /\ NamedBy(ArenasOf[c][a]) \subseteq found'[r].maps
                               /\ Declared(ArenasOf[c][a]) \subseteq found'[r].types
    BY <1>1 DEF NothingLost
  <2>1. CASE k # p
    BY <1>1, <1>4, <2>1, NextOK
  <2>2. CASE k = p
    <3>1. D = c
      BY <1>1, <2>2, NextOK
    <3>2. \A a \in DOMAIN ArenasOf[c] : Waiting(r, k, a)'
      BY <1>5, <2>2, <3>1 DEF Waiting, left
    <3>. QED  BY <1>4, <3>1, <3>2
  <2>. QED  BY <2>1, <2>2
<1>8. Opened(r)' /\ Scanning(r)' /\ pc'[r] = "read"
  BY <1>1, <1>5, NextOK DEF Opened, Scanning
<1>9. \A k \in Packages : disk'[k] \in held'[r][k]
  BY <1>1, NextOK DEF ScanOf
<1>. QED  BY <1>6, <1>7, <1>8, <1>9 DEF ScanOf

LEMMA OpenDirOK ==
    ASSUME IInv, NEW r \in Requests, NEW p \in Packages, OpenDir(r, p)
    PROVE  ScanOf(r)'
<1>1. IsNext(r, p) /\ p \in Dirs /\ disk[p] # Missing /\ UNCHANGED <<disk, found, held>>
  BY DEF OpenDir
<1>2. TypeOK /\ disk[p] \in Contents
  BY <1>1, NextOK DEF TypeOK
<1>3. /\ pc'[r] = "maps"
      /\ reading'[r] = [pkg |-> p, was |-> disk[p], left |-> {}]
  BY <1>2 DEF OpenDir, TypeOK
<1>4. reading'[r] # Closed
  BY <1>2, <1>3, ReadingType
<1>5. NothingInvented(r)'
  BY <1>1, NextOK DEF ScanOf, NothingInvented
<1>6. NothingLost(r)'
  <2>1. \A a : Waiting(r, p, a)'
    BY <1>3, <1>4 DEF Waiting
  <2>2. reading'[r].pkg = p /\ UNCHANGED <<found, held>>
    BY <1>1, <1>3
  <2>3. \A k \in Packages \ todo'[r] : k = p \/ k \in Packages \ todo[r]
    BY <1>1, NextOK
  <2>. QED  BY <1>1, <1>3, <2>1, <2>2, <2>3, NextOK DEF NothingLost
<1>7. Opened(r)' /\ Scanning(r)'
  <2>1. reading'[r].pkg = p /\ reading'[r].was = disk[p]
    BY <1>3
  <2>2. p \notin todo'[r] /\ disk[p] \in held'[r][p]
    BY <1>1, NextOK
  <2>. QED  BY <1>1, <1>3, <1>4, <2>1, <2>2 DEF Opened, Scanning
<1>8. \A k \in Packages : disk'[k] \in held'[r][k]
  BY <1>1, NextOK DEF ScanOf
<1>9. pc'[r] \notin {"idle", "list", "failed"}
  BY <1>3
<1>. QED  BY <1>5, <1>6, <1>7, <1>8, <1>9 DEF ScanOf

LEMMA WalkMapsOK ==
    ASSUME IInv, NEW r \in Requests, WalkMaps(r)
    PROVE  ScanOf(r)'
<1> DEFINE p == reading[r].pkg
<1>1. /\ TypeOK /\ ScanOf(r) /\ Scanning(r)
      /\ pc[r] = "maps" /\ pc'[r] = "scripts"
      /\ UNCHANGED <<disk, todo, reading, held>>
  BY DEF IInv, WalkMaps, Scanning, TypeOK
<1>2. /\ NothingInvented(r) /\ NothingLost(r) /\ Opened(r)
      /\ \A k \in Packages : disk[k] \in held[r][k]
      /\ found[r] \in Found
  BY <1>1 DEF ScanOf, TypeOK
<1>3. reading[r] # Closed /\ p \in Packages
  BY <1>1, <1>2, OpenType DEF Opened
<1>4. /\ \/ /\ found'[r].maps = found[r].maps \cup (FilesNow(p) \cap Maps)
            /\ found'[r].types = found[r].types
         \/ ~Intact(r) /\ found'[r] = found[r]
  <2>1. \/ found'[r] = AddedFiles(found[r], FilesNow(p))
        \/ ~Intact(r) /\ found'[r] = found[r]
    BY <1>1 DEF WalkMaps, TypeOK
  <2>. QED  BY <1>2, <2>1, Adds
<1> HIDE DEF p
<1>5. NothingInvented(r)'
  <2>1. \A m \in FilesNow(p) \cap Maps : disk[p] # Missing /\ Naming(disk[p], m)
    BY DEF FilesNow, Naming
  <2>. QED  BY <1>1, <1>2, <1>3, <1>4, <2>1, StillTrue
<1>6. NothingLost(r)'
  <2> SUFFICES ASSUME NEW k \in Packages \ todo[r], NEW c \in Contents,
                      held[r][k] = {c}
               PROVE  /\ FilesOf[c] \cap Maps \subseteq found'[r].maps
                      /\ \A a \in DOMAIN ArenasOf[c] :
                            \/ Waiting(r, k, a)'
                            \/ /\ NamedBy(ArenasOf[c][a]) \subseteq found'[r].maps
                               /\ Declared(ArenasOf[c][a]) \subseteq found'[r].types
    BY <1>1 DEF NothingLost
  <2>1. CASE k # p
    BY <1>2, <1>4, <2>1 DEF NothingLost, Waiting, p
  <2>2. CASE k = p
    <3>1. disk[p] = c /\ Intact(r)
      BY <1>1, <1>3, <2>2, AsOpened DEF p
    <3>2. FilesNow(p) = FilesOf[c]
      BY <3>1, CatalogAssumption DEF FilesNow
    <3>3. \A a : Waiting(r, k, a)'
      BY <1>1, <1>3, <2>2 DEF Waiting, p
    <3>. QED  BY <1>4, <3>1, <3>2, <3>3
  <2>. QED  BY <2>1, <2>2
<1>7. Opened(r)' /\ Scanning(r)' /\ pc'[r] \notin {"idle", "list", "failed"}
  BY <1>1, <1>2 DEF Opened, Scanning
<1>. QED  BY <1>1, <1>2, <1>5, <1>6, <1>7 DEF ScanOf

LEMMA WalkScriptsOK ==
    ASSUME IInv, NEW r \in Requests, WalkScripts(r)
    PROVE  ScanOf(r)'
<1> DEFINE p == reading[r].pkg
           was == reading[r].was
<1>1. /\ TypeOK /\ ScanOf(r) /\ Scanning(r)
      /\ pc[r] = "scripts" /\ pc'[r] = "read"
      /\ UNCHANGED <<disk, todo, found, held>>
  BY DEF IInv, WalkScripts, Scanning, TypeOK
<1>2. /\ NothingInvented(r) /\ NothingLost(r) /\ Opened(r)
      /\ \A k \in Packages : disk[k] \in held[r][k]
  BY <1>1 DEF ScanOf
<1>3. reading[r] # Closed /\ p \in Packages /\ was \in Contents
  BY <1>1, <1>2, OpenType DEF Opened
<1>4. PICK left \in {ArenasNow(p), {}} :
         /\ left = {} => ~Intact(r) \/ ArenasNow(p) = {}
         /\ reading'[r] = Reading(p, was, left)
  BY <1>1 DEF WalkScripts, TypeOK
<1>5. /\ left = {} => reading'[r] = Closed
      /\ left # {} => /\ reading'[r] # Closed
                      /\ reading'[r] = [pkg |-> p, was |-> was, left |-> left]
  <2>1. ArenasNow(p) \in SUBSET ArenaNames
    BY <1>1, <1>3, ArenaNamesOf DEF ArenasNow, TypeOK
  <2>. QED  BY <1>3, <1>4, <2>1, ReadingType
<1> HIDE DEF p, was
<1>6. NothingInvented(r)'
  BY <1>1, <1>2 DEF NothingInvented
<1>7. NothingLost(r)'
  <2> SUFFICES ASSUME NEW k \in Packages \ todo[r], NEW c \in Contents,
                      held[r][k] = {c}
               PROVE  /\ FilesOf[c] \cap Maps \subseteq found[r].maps
                      /\ \A a \in DOMAIN ArenasOf[c] :
                            \/ Waiting(r, k, a)'
                            \/ /\ NamedBy(ArenasOf[c][a]) \subseteq found[r].maps
                               /\ Declared(ArenasOf[c][a]) \subseteq found[r].types
    BY <1>1 DEF NothingLost
  <2>1. CASE k # p
    BY <1>1, <1>2, <2>1 DEF NothingLost, Waiting, p
  <2>2. CASE k = p
    <3>1. disk[p] = c /\ Intact(r)
      BY <1>1, <1>3, <2>2, AsOpened DEF p
    <3>2. left = DOMAIN ArenasOf[c]
      BY <1>4, <3>1, CatalogAssumption DEF ArenasNow
    <3>3. \A a \in DOMAIN ArenasOf[c] : Waiting(r, k, a)'
      BY <1>5, <2>2, <3>2 DEF Waiting
    <3>. QED  BY <1>1, <1>2, <3>3 DEF NothingLost
  <2>. QED  BY <2>1, <2>2
<1>8. Opened(r)' /\ Scanning(r)' /\ pc'[r] \notin {"idle", "list", "failed"}
  BY <1>1, <1>2, <1>3, <1>5 DEF Opened, Scanning, p, was
<1>. QED  BY <1>1, <1>2, <1>6, <1>7, <1>8 DEF ScanOf

LEMMA ReadArenaOK ==
    ASSUME IInv, NEW r \in Requests, ReadArena(r)
    PROVE  ScanOf(r)'
<1> DEFINE p == reading[r].pkg
           was == reading[r].was
           src == Source(r)
<1>1. /\ TypeOK /\ ScanOf(r) /\ Scanning(r)
      /\ pc[r] = "read"
      /\ UNCHANGED <<disk, pc, todo, held>>
  BY DEF IInv, ReadArena, Scanning
<1>2. /\ NothingInvented(r) /\ NothingLost(r) /\ Opened(r)
      /\ \A k \in Packages : disk[k] \in held[r][k]
      /\ found[r] \in Found
  BY <1>1 DEF ScanOf, TypeOK
<1>3. PICK a \in reading[r].left :
         /\ \/ /\ Readable(r, a)
               /\ found' = [found EXCEPT ![r] = AddedArena(@, ArenasOf[Source(r)][a])]
            \/ /\ ~Intact(r) \/ ~Readable(r, a)
               /\ UNCHANGED found
         /\ reading' = [reading EXCEPT ![r] = Reading(@.pkg, @.was, @.left \ {a})]
  BY DEF ReadArena
<1>4. reading[r] # Closed
  BY <1>3 DEF Closed
<1>5. /\ p \in Packages /\ was \in Contents
      /\ reading[r].left \ {a} \in SUBSET ArenaNames
  BY <1>1, <1>4, OpenType
<1> DEFINE left == reading[r].left \ {a}
           blocks == ArenasOf[src][a]
<1>6. \/ /\ Readable(r, a)
         /\ found'[r].maps = found[r].maps \cup NamedBy(blocks)
         /\ found'[r].types = found[r].types \cup Declared(blocks)
      \/ /\ ~Intact(r) \/ ~Readable(r, a)
         /\ found'[r] = found[r]
  <2>1. \/ Readable(r, a) /\ found'[r] = AddedArena(found[r], blocks)
        \/ (~Intact(r) \/ ~Readable(r, a)) /\ found'[r] = found[r]
    BY <1>1, <1>3 DEF TypeOK
  <2>. QED  BY <1>2, <2>1, Adds
<1>7. /\ left = {} => reading'[r] = Closed
      /\ left # {} => /\ reading'[r] # Closed
                      /\ reading'[r] = [pkg |-> p, was |-> was, left |-> left]
  <2>1. reading'[r] = Reading(p, was, left)
    BY <1>1, <1>3 DEF TypeOK
  <2>. QED  BY <1>5, <2>1, ReadingType
<1>8. src \in held[r][p]
  BY <1>2, <1>4, <1>5 DEF Opened, Source
<1> HIDE DEF p, was, src, left, blocks
<1>9. NothingInvented(r)'
  <2>1. Readable(r, a) => /\ src # Missing
                          /\ \A m \in NamedBy(blocks) : Naming(src, m)
                          /\ \A d \in Declared(blocks) : Declaring(src, d)
    BY DEF Readable, Naming, Declaring, src, blocks
  <2>. QED  BY <1>1, <1>2, <1>5, <1>6, <1>8, <2>1, StillTrue
<1>10. NothingLost(r)'
  <2> SUFFICES ASSUME NEW k \in Packages \ todo[r], NEW c \in Contents,
                      held[r][k] = {c}
               PROVE  /\ FilesOf[c] \cap Maps \subseteq found'[r].maps
                      /\ \A b \in DOMAIN ArenasOf[c] :
                            \/ Waiting(r, k, b)'
                            \/ /\ NamedBy(ArenasOf[c][b]) \subseteq found'[r].maps
                               /\ Declared(ArenasOf[c][b]) \subseteq found'[r].types
    BY <1>1 DEF NothingLost
  <2>1. found[r].maps \subseteq found'[r].maps /\ found[r].types \subseteq found'[r].types
    BY <1>6
  <2>2. FilesOf[c] \cap Maps \subseteq found'[r].maps
    BY <1>1, <1>2, <2>1 DEF NothingLost
  <2>3. ASSUME NEW b \in DOMAIN ArenasOf[c], ~Waiting(r, k, b)'
        PROVE  /\ NamedBy(ArenasOf[c][b]) \subseteq found'[r].maps
               /\ Declared(ArenasOf[c][b]) \subseteq found'[r].types
    <3>1. CASE ~Waiting(r, k, b)
      BY <1>2, <2>1, <3>1 DEF NothingLost
    <3>2. CASE Waiting(r, k, b)
      \* It is the file that is read now, and it can be read.
      <4>1. k = p /\ b \in reading[r].left
        BY <1>1, <3>2 DEF Waiting, p
      <4>2. b = a
        BY <1>1, <1>7, <2>3, <4>1 DEF Waiting, left
      <4>3. Intact(r) /\ src = c
        BY <1>1, <1>4, <1>5, <4>1, AsOpened DEF p, src
      <4>4. Readable(r, a)
        BY <4>2, <4>3, CatalogAssumption DEF Readable, src
      <4>. QED  BY <1>6, <4>2, <4>3, <4>4 DEF blocks
    <3>. QED  BY <3>1, <3>2
  <2>. QED  BY <2>2, <2>3
<1>11. Opened(r)' /\ Scanning(r)' /\ pc'[r] \notin {"idle", "list", "failed"}
  BY <1>1, <1>2, <1>4, <1>7 DEF Opened, Scanning, p, was
<1>. QED  BY <1>1, <1>2, <1>9, <1>10, <1>11 DEF ScanOf

\* The steps of a request that begin or end a scan, or are not part of one.
LEMMA OtherOK ==
    ASSUME IInv, NEW r \in Requests,
           Hit(r) \/ Miss(r) \/ ReadDirFails(r) \/ Store(r) \/ Done(r)
    PROVE  ScanOf(r)'
<1>1. TypeOK /\ ScanOf(r)
  BY DEF IInv
<1>2. ~Scanning(r)' /\ reading'[r] = reading[r]
  BY <1>1 DEF Hit, Miss, ReadDirFails, Store, Done, Scanning, TypeOK
<1>3. reading[r] = Closed
  BY <1>1 DEF Hit, Miss, ReadDirFails, Store, Done, ScanOf, Scanning, Complete
<1>4. pc'[r] \in {"idle", "list", "failed"} => found'[r] = NothingFound
  BY <1>1 DEF Hit, Miss, ReadDirFails, Store, Done, ScanOf, TypeOK
<1>. QED  BY <1>2, <1>3, <1>4 DEF ScanOf

\* A package that changes is no longer one that has not.
LEMMA ChangeOK ==
    ASSUME IInv, NEW r \in Requests, NEW p \in Packages, NEW c \in States,
           Change(p, c)
    PROVE  ScanOf(r)'
<1>1. /\ TypeOK /\ ScanOf(r) /\ UNCHANGED <<pc, todo, reading, found>>
      /\ disk[p] # c
  BY DEF IInv, Change, request
<1>2. CASE ~Scanning(r)
  BY <1>1, <1>2 DEF ScanOf, Scanning
<1>3. CASE Scanning(r)
  <2>1. /\ held'[r] = [held[r] EXCEPT ![p] = @ \cup {c}]
        /\ disk' = [disk EXCEPT ![p] = c]
    BY <1>3 DEF Change
  <2>2. /\ \A k \in Packages : disk[k] \in held[r][k]
        /\ NothingInvented(r) /\ NothingLost(r) /\ Opened(r)
    BY <1>1, <1>3 DEF ScanOf
  <2>3. /\ held'[r][p] = held[r][p] \cup {c}
        /\ \A k \in Packages \ {p} : held'[r][k] = held[r][k]
        /\ disk'[p] = c
        /\ \A k \in Packages \ {p} : disk'[k] = disk[k]
    BY <1>1, <2>1 DEF TypeOK
  <2>4. \A k \in Packages : held[r][k] \subseteq held'[r][k]
    BY <2>3
  <2>5. \A k \in Packages : disk'[k] \in held'[r][k]
    BY <2>2, <2>3
  <2>6. NothingInvented(r)'
    BY <1>1, <2>2, <2>4 DEF NothingInvented
  <2>7. \A d : held'[r][p] # {d}
    BY <1>1, <2>2, <2>3
  <2>8. NothingLost(r)'
    BY <1>1, <2>2, <2>3, <2>7 DEF NothingLost, Waiting
  <2>9. Opened(r)'
    <3>1. reading[r] # Closed => reading[r].pkg \in Packages
      BY <1>1, OpenType
    <3>. QED  BY <1>1, <2>2, <2>4, <3>1 DEF Opened
  <2>. QED  BY <1>1, <1>3, <2>5, <2>6, <2>8, <2>9 DEF ScanOf, Scanning
<1>. QED  BY <1>2, <1>3

\* A request leaves the others alone.
LEMMA OthersStay ==
    ASSUME IInv, NEW r \in Requests, NEW q \in Requests, q # r,
           \/ Hit(r) \/ Miss(r) \/ ReadDir(r) \/ ReadDirFails(r)
           \/ \E p \in Packages :
                 SkipPackage(r, p) \/ OpenArchive(r, p) \/ OpenDir(r, p)
           \/ WalkMaps(r) \/ WalkScripts(r) \/ ReadArena(r)
           \/ Store(r) \/ Done(r)
    PROVE  ScanOf(q)'
<1>1. TypeOK /\ ScanOf(q)
  BY DEF IInv
<1>2. pc'[q] = pc[q] /\ todo'[q] = todo[q]
  BY <1>1 DEF TypeOK, Hit, Miss, ReadDir, ReadDirFails, SkipPackage, OpenArchive,
              OpenDir, IsNext, WalkMaps, WalkScripts, ReadArena, Store, Done
<1>3. reading'[q] = reading[q] /\ UNCHANGED disk
  BY <1>1 DEF TypeOK, Hit, Miss, ReadDir, ReadDirFails, SkipPackage, OpenArchive,
              OpenDir, IsNext, WalkMaps, WalkScripts, ReadArena, Store, Done
<1>4. found'[q] = found[q]
  BY <1>1 DEF TypeOK, Hit, Miss, ReadDir, ReadDirFails, SkipPackage, OpenArchive,
              OpenDir, IsNext, WalkMaps, WalkScripts, ReadArena, Store, Done
<1>5. held'[q] = held[q]
  BY <1>1 DEF TypeOK, Hit, Miss, ReadDir, ReadDirFails, SkipPackage, OpenArchive,
              OpenDir, IsNext, WalkMaps, WalkScripts, ReadArena, Store, Done
<1>. QED  BY <1>1, <1>2, <1>3, <1>4, <1>5, Undisturbed

LEMMA ScanStep == IInv /\ [Next]_vars => \A q \in Requests : ScanOf(q)'
<1> SUFFICES ASSUME IInv, [Next]_vars, NEW q \in Requests PROVE ScanOf(q)'
  OBVIOUS
<1>1. ASSUME NEW r \in Requests,
             \/ Hit(r) \/ Miss(r) \/ ReadDir(r) \/ ReadDirFails(r)
             \/ \E p \in Packages :
                   SkipPackage(r, p) \/ OpenArchive(r, p) \/ OpenDir(r, p)
             \/ WalkMaps(r) \/ WalkScripts(r) \/ ReadArena(r)
             \/ Store(r) \/ Done(r)
      PROVE  ScanOf(q)'
  <2>1. CASE q = r
    BY <1>1, <2>1, ReadDirOK, SkipOK, OpenArchiveOK, OpenDirOK, WalkMapsOK,
       WalkScriptsOK, ReadArenaOK, OtherOK
  <2>2. CASE q # r
    BY <1>1, <2>2, OthersStay
  <2>. QED  BY <2>1, <2>2
<1>2. ASSUME NEW p \in Packages, NEW c \in States, Change(p, c)
      PROVE  ScanOf(q)'
  BY <1>2, ChangeOK
<1>3. CASE Tick \/ UNCHANGED vars
  <2>1. ScanOf(q) /\ UNCHANGED <<disk, pc, todo, reading, found, held>>
    BY <1>3 DEF IInv, Tick, vars, request
  <2>. QED  BY <2>1, Undisturbed
<1>. QED  BY <1>1, <1>2, <1>3 DEF Next, States

LEMMA InvStep == IInv /\ [Next]_vars => IInv'
BY TypeStep, ScanStep DEF IInv

-----------------------------------------------------------------------------
(* The theorems.                                                           *)

\* What is found is what some package held, and nothing of a package that has
\* not changed is passed over.
THEOREM Invariance == Spec => []IInv
BY InvInit, InvStep, PTL DEF Spec

\* The cache and every list given to a request name a map once.
THEOREM TypeInvariance == Spec => []TypeOK
<1>1. IInv => TypeOK
  BY DEF IInv
<1>. QED  BY <1>1, Invariance, PTL

LEMMA CompleteIsTrue ==
    ASSUME IInv, NEW r \in Requests, Complete(r)
    PROVE  /\ MapsIn(Steady(r)) \subseteq found[r].maps
           /\ found[r].maps \subseteq MapsIn(Ever(r))
           /\ \A m \in found[r].maps :
                 /\ ModesIn(Steady(r), m) \subseteq TypesFound(found[r], m)
                 /\ TypesFound(found[r], m) \subseteq ModesIn(Ever(r), m)
<1>1. /\ NothingInvented(r) /\ NothingLost(r) /\ todo[r] = {}
      /\ pc[r] = "read" /\ reading[r] = Closed /\ found[r] \in Found
  BY DEF IInv, Complete, ScanOf, Scanning, TypeOK
<1>2. found[r].maps \subseteq Maps /\ found[r].types \subseteq Maps \X GameTypes
  BY <1>1 DEF Found
<1>3. \A c \in Steady(r) :
         /\ FilesOf[c] \cap Maps \subseteq found[r].maps
         /\ \A a \in DOMAIN ArenasOf[c] :
               /\ NamedBy(ArenasOf[c][a]) \subseteq found[r].maps
               /\ Declared(ArenasOf[c][a]) \subseteq found[r].types
  BY <1>1 DEF NothingLost, Waiting, Steady
<1>4. MapsIn(Steady(r)) \subseteq found[r].maps
  BY <1>3, MapsInIs DEF Naming
<1>5. found[r].maps \subseteq MapsIn(Ever(r))
  <2>1. ASSUME NEW m \in found[r].maps
        PROVE  m \in Maps /\ \E c \in Ever(r) \ {Missing} : Naming(c, m)
    BY <1>1, <1>2 DEF NothingInvented, Ever
  <2>. QED  BY <2>1, MapsInIs
<1>6. ASSUME NEW m \in found[r].maps
      PROVE  /\ ModesIn(Steady(r), m) \subseteq TypesFound(found[r], m)
             /\ TypesFound(found[r], m) \subseteq ModesIn(Ever(r), m)
  <2>1. m \in Maps
    BY <1>2, <1>6
  <2>2. \A H : ModesIn(H, m) \subseteq GameTypes
    BY DEF ModesIn, GameTypesFromArena
  <2>3. ASSUME NEW gt \in GameTypes, gt \in ModesIn(Steady(r), m)
        PROVE  gt \in TypesFound(found[r], m)
    <3>1. \E c \in Steady(r) \ {Missing} : Declaring(c, <<m, gt>>)
      BY <2>1, <2>3, ModesInIs
    <3>2. <<m, gt>> \in found[r].types
      BY <1>3, <3>1 DEF Declaring
    <3>. QED  BY <3>2 DEF TypesFound
  <2>4. ASSUME NEW gt \in GameTypes, <<m, gt>> \in found[r].types
        PROVE  gt \in ModesIn(Ever(r), m)
    <3>1. \E c \in Ever(r) \ {Missing} : Declaring(c, <<m, gt>>)
      BY <1>1, <2>4 DEF NothingInvented, Ever
    <3>. QED  BY <2>1, <3>1, ModesInIs
  <2>. QED  BY <2>2, <2>3, <2>4 DEF TypesFound
<1>. QED  BY <1>4, <1>5, <1>6

\* The list of a scan invents no map and no mode; whatever else changed during
\* the scan, it has every map and every mode of the packages that did not; and
\* it guesses the modes only of maps for which none of these declares any.
THEOREM ListIsTrue == Spec => []TrueOfItsTime
<1>1. ASSUME IInv, NEW r \in Requests, Complete(r)
      PROVE  /\ MapsIn(Steady(r)) \subseteq {i.name : i \in Catalog(found[r])}
             /\ \A i \in Catalog(found[r]) :
                   /\ i.name \in MapsIn(Ever(r))
                   /\ ModesIn(Steady(r), i.name) \subseteq i.gameTypes
                   /\ \/ /\ i.gameTypes # {}
                         /\ i.gameTypes \subseteq ModesIn(Ever(r), i.name)
                      \/ /\ ModesIn(Steady(r), i.name) = {}
                         /\ i.gameTypes = InferredGameTypes(i.name)
  <2> DEFINE f == found[r]
             modes(m) == IF TypesFound(f, m) = {} THEN InferredGameTypes(m)
                                                  ELSE TypesFound(f, m)
  <2>1. /\ MapsIn(Steady(r)) \subseteq f.maps
        /\ f.maps \subseteq MapsIn(Ever(r))
        /\ \A m \in f.maps : /\ ModesIn(Steady(r), m) \subseteq TypesFound(f, m)
                             /\ TypesFound(f, m) \subseteq ModesIn(Ever(r), m)
    BY <1>1, CompleteIsTrue
  <2>2. Catalog(f) = {[name |-> m, gameTypes |-> modes(m)] : m \in f.maps}
    BY DEF Catalog
  <2>3. \A m : /\ TypesFound(f, m) = {} => modes(m) = InferredGameTypes(m)
               /\ TypesFound(f, m) # {} => modes(m) = TypesFound(f, m)
    OBVIOUS
  <2> HIDE DEF f, modes
  <2>4. ASSUME NEW m \in f.maps PROVE \E i \in Catalog(f) : i.name = m
    <3>1. [name |-> m, gameTypes |-> modes(m)] \in Catalog(f)
      BY <2>2
    <3>. QED  BY <3>1
  <2>5. MapsIn(Steady(r)) \subseteq {i.name : i \in Catalog(f)}
    BY <2>1, <2>4
  <2>6. ASSUME NEW i \in Catalog(f)
        PROVE  /\ i.name \in MapsIn(Ever(r))
               /\ ModesIn(Steady(r), i.name) \subseteq i.gameTypes
               /\ \/ /\ i.gameTypes # {}
                     /\ i.gameTypes \subseteq ModesIn(Ever(r), i.name)
                  \/ /\ ModesIn(Steady(r), i.name) = {}
                     /\ i.gameTypes = InferredGameTypes(i.name)
    <3>1. i.name \in f.maps /\ i.gameTypes = modes(i.name)
      BY <2>2
    <3>2. CASE TypesFound(f, i.name) = {}
      BY <2>1, <2>3, <3>1, <3>2
    <3>3. CASE TypesFound(f, i.name) # {}
      BY <2>1, <2>3, <3>1, <3>3
    <3>. QED  BY <3>2, <3>3
  <2>. QED  BY <2>5, <2>6 DEF f
<1>2. IInv => TrueOfItsTime
  BY <1>1 DEF TrueOfItsTime
<1>. QED  BY <1>2, Invariance, PTL
=============================================================================
