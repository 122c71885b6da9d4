----------------------------- MODULE AtomicFile ------------------------------
(***************************************************************************)
(* What internal/store promises of the state file ("persists q3ctl state   *)
(* atomically"): a save replaces the whole content in one instant or leaves *)
(* it alone, a save that reports success has replaced it, and a crash at   *)
(* any time leaves the old content or the new.                             *)
(***************************************************************************)
CONSTANTS Values, NoFile

VARIABLES
    content,    \* what Load would read: a value, or NoFile
    saving,     \* the value being saved, or NoFile if no save is running
    replaced    \* the running save has replaced the content

vars == <<content, saving, replaced>>

TypeOK ==
    /\ content \in Values \cup {NoFile}
    /\ saving \in Values \cup {NoFile}
    /\ replaced \in BOOLEAN

Init == content = NoFile /\ saving = NoFile /\ replaced = FALSE

Call ==
    /\ saving = NoFile
    /\ saving' \in Values
    /\ UNCHANGED <<content, replaced>>

Replace ==
    /\ saving # NoFile
    /\ ~replaced
    /\ content' = saving
    /\ replaced' = TRUE
    /\ UNCHANGED saving

\* Save returns: without an error only if the content was replaced.
Succeed ==
    /\ saving # NoFile /\ replaced
    /\ saving' = NoFile
    /\ replaced' = FALSE
    /\ UNCHANGED content

GiveUp ==
    /\ saving # NoFile /\ ~replaced
    /\ saving' = NoFile
    /\ UNCHANGED <<content, replaced>>

Crash ==
    /\ saving' = NoFile
    /\ replaced' = FALSE
    /\ UNCHANGED content

Next == Call \/ Replace \/ Succeed \/ GiveUp \/ Crash

Spec == Init /\ [][Next]_vars
=============================================================================
