------------------------------ MODULE StoreFile ------------------------------
(***************************************************************************)
(* store.File.Save (internal/store/file.go) step by step: one system call  *)
(* per step, any of which may fail, and a process that may be killed       *)
(* between any two, or inside a write.  Callers hold server.mu, so one     *)
(* save runs at a time; temporary files of killed processes remain.        *)
(***************************************************************************)
CONSTANTS
    Values,     \* the values saved
    Absent,     \* there is no file
    Partial,    \* a content that does not decode to a value
    Names       \* the names CreateTemp may choose in the directory

ASSUME FileAssumption ==
    /\ Absent \notin Values
    /\ Partial \notin Values \cup {Absent}

VARIABLES
    atPath,     \* the content at Path
    temps,      \* the content of each temporary file, Absent if there is none
    at,         \* where Save is
    value,      \* its argument
    temp,       \* the name of its temporary file
    err         \* its local err is set

saveVars == <<atPath, temps, at, value, temp, err>>

NoName == "no name"
SaveSteps == {"idle", "mkdir", "marshal", "create", "chmod", "write", "close",
              "check", "rename", "remove"}

\* The type invariant; what Load reads is whole, only a temporary file may be
\* partly written.
FileTypeOK ==
    /\ atPath \in Values \cup {Absent}
    /\ temps \in [Names -> Values \cup {Absent, Partial}]
    /\ at \in SaveSteps
    /\ value \in Values \cup {Absent}
    /\ temp \in Names \cup {NoName}
    /\ err \in BOOLEAN

SaveInit ==
    /\ atPath = Absent
    /\ temps = [n \in Names |-> Absent]
    /\ at = "idle"
    /\ value = Absent
    /\ temp = NoName
    /\ err = FALSE

\* The call returns; its locals are gone.
Return ==
    /\ at' = "idle"
    /\ value' = Absent
    /\ temp' = NoName
    /\ err' = FALSE

Call ==
    /\ at = "idle"
    /\ value' \in Values
    /\ at' = "mkdir"
    /\ UNCHANGED <<atPath, temps, temp, err>>

\* MkdirAll and MarshalIndent: an error is returned at once.
MakeDirectory ==
    /\ at = "mkdir"
    /\ \/ at' = "marshal" /\ UNCHANGED <<value, temp, err>>
       \/ Return
    /\ UNCHANGED <<atPath, temps>>

Marshal ==
    /\ at = "marshal"
    /\ \/ at' = "create" /\ UNCHANGED <<value, temp, err>>
       \/ Return
    /\ UNCHANGED <<atPath, temps>>

\* CreateTemp: an empty file of a name not in use.  From here on every return
\* goes through the deferred Remove.
CreateTemp ==
    /\ at = "create"
    /\ \/ \E n \in Names : /\ temps[n] = Absent
                           /\ temp' = n
                           /\ temps' = [temps EXCEPT ![n] = Partial]
                           /\ at' = "chmod"
                           /\ UNCHANGED <<value, err>>
       \/ Return /\ UNCHANGED temps
    /\ UNCHANGED atPath

\* An error skips the write, and is remembered.
Chmod ==
    /\ at = "chmod"
    /\ \/ at' = "write" /\ UNCHANGED err
       \/ at' = "close" /\ err' = TRUE
    /\ UNCHANGED <<atPath, temps, value, temp>>

\* A write that fails may have written some of it.
Write ==
    /\ at = "write"
    /\ \/ temps' = [temps EXCEPT ![temp] = value] /\ UNCHANGED err
       \/ UNCHANGED temps /\ err' = TRUE
    /\ at' = "close"
    /\ UNCHANGED <<atPath, value, temp>>

\* The file is closed in any case, and its error counts if none came before.
Close ==
    /\ at = "close"
    /\ UNCHANGED err \/ err' = TRUE
    /\ at' = "check"
    /\ UNCHANGED <<atPath, temps, value, temp>>

\* Mutant: the error of Write is forgotten.
CheckNothing ==
    /\ at = "check"
    /\ at' = "rename"
    /\ UNCHANGED <<atPath, temps, value, temp, err>>
Check ==
    /\ at = "check"
    /\ at' = IF err THEN "remove" ELSE "rename"
    /\ UNCHANGED <<atPath, temps, value, temp, err>>

\* Mutant: a failed rename is reported as a success.
RenameUnchecked ==
    /\ at = "rename"
    /\ \/ /\ atPath' = temps[temp]
          /\ temps' = [temps EXCEPT ![temp] = Absent]
       \/ UNCHANGED <<atPath, temps>>
    /\ at' = "remove"
    /\ UNCHANGED <<value, temp, err>>
\* Rename replaces the file at Path, or fails and leaves it.
Rename ==
    /\ at = "rename"
    /\ \/ /\ atPath' = temps[temp]
          /\ temps' = [temps EXCEPT ![temp] = Absent]
          /\ UNCHANGED err
       \/ /\ err' = TRUE
          /\ UNCHANGED <<atPath, temps>>
    /\ at' = "remove"
    /\ UNCHANGED <<value, temp>>

\* The deferred Remove, whose error nobody looks at: after a rename it finds
\* nothing to remove.
Remove ==
    /\ at = "remove"
    /\ UNCHANGED temps \/ temps' = [temps EXCEPT ![temp] = Absent]
    /\ Return
    /\ UNCHANGED atPath

\* The process is killed and started again.  Nothing deferred runs.
Killed == Return /\ UNCHANGED <<atPath, temps>>

SaveStep == \/ MakeDirectory \/ Marshal \/ CreateTemp \/ Chmod \/ Write
            \/ Close \/ Check \/ Rename \/ Remove

SaveNext == Call \/ SaveStep \/ Killed

SaveSpec == SaveInit /\ [][SaveNext]_saveVars

-----------------------------------------------------------------------------
(* Properties.                                                             *)

\* The rename is the instant at which the content changes; err distinguishes
\* a save that will report success from one that will not.
Atomic == INSTANCE AtomicFile WITH
    NoFile   <- Absent,
    content  <- atPath,
    saving   <- value,
    replaced <- at = "remove" /\ ~err

\* A save replaces the whole state file in one instant or leaves it alone,
\* whatever fails and whenever the process dies, and success means replaced.
ReplacesAtomically == Atomic!Spec
=============================================================================
