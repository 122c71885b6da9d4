----------------------------- MODULE GameLogTail -----------------------------
(***************************************************************************)
(* The tail of the game log in an event stream (internal/app/server.go):   *)
(* readGameLog, which stream calls when a browser connects and once a      *)
(* second afterwards.  It takes the size of the file, opens it, reads to   *)
(* its end and remembers the size as the offset to go on from; the game    *)
(* server writes all along, and the file may be truncated or replaced.     *)
(*                                                                         *)
(* A byte of the file is a piece of a line here: "text", or the "end" of   *)
(* one.  An offset counts pieces, and pieces are told apart by where in    *)
(* the present file they are.                                              *)
(***************************************************************************)
EXTENDS Integers, Sequences

CONSTANTS
    Backlog,    \* what a new stream is sent at most; 128 KiB in the code
    MaxLength   \* bound: the length of the file

ASSUME LengthAssumption == Backlog \in Nat /\ MaxLength \in Nat

VARIABLES
    file,       \* the game log
    at,         \* where stream is in readGameLog; "off" without a browser
    first,      \* the argument initial of the call that is next or under way
    offset,     \* *offset
    size,       \* info.Size()
    start,      \* where this call reads from
    excused,    \* history: the pieces the stream need not get
    copies,     \* history: how often it was sent each piece
    replaced    \* history: the file is not the one of the last os.Stat

reader == <<at, first, offset, size, start>>
history == <<excused, copies, replaced>>
logVars == <<file, at, first, offset, size, start, excused, copies, replaced>>

Positions == 1 .. MaxLength
Lengths   == 0 .. MaxLength

\* The type invariant.
LogTypeOK ==
    /\ file \in Seq({"text", "end"})
    /\ Len(file) \in Lengths
    /\ at \in {"off", "wait", "scan", "finish"}
    /\ first \in BOOLEAN
    /\ {offset, size, start} \subseteq Lengths
    /\ excused \in SUBSET Positions
    /\ copies \in [Positions -> Nat]
    /\ replaced \in BOOLEAN

NoCopies == [p \in Positions |-> 0]

-----------------------------------------------------------------------------
(* stream.                                                                 *)

\* A browser connects: gameOffset is 0 and the first call is the initial one.
Attach ==
    /\ at = "off"
    /\ at' = "wait"
    /\ first' = TRUE
    /\ offset' = 0
    /\ excused' = {}
    /\ copies' = NoCopies
    /\ replaced' = FALSE
    /\ UNCHANGED <<file, size, start>>

Detach ==
    /\ at # "off"
    /\ at' = "off"
    /\ UNCHANGED <<file, first, offset, size, start, history>>

\* Mutants: a shrunk file is not noticed; any change of size is taken for one.
ContinuesBlindly(n) == offset
ContinuesIfSame(n) == IF n # offset THEN 0 ELSE offset
\* A file shorter than what was read of it is another one: from its beginning.
Continues(n) == IF n < offset THEN 0 ELSE offset

\* Mutant: a log shorter than the tail.
TailStartUnchecked(n) == n - Backlog
\* The initial call sends the tail of a long log only.
TailStart(n) == IF n > Backlog THEN n - Backlog ELSE 0

\* os.Stat.  If the file was replaced since the last call, the stream is owed
\* all of the new one when its size gives that away, else what follows offset.
Stat ==
    LET n == Len(file) IN
    /\ at = "wait"
    /\ size' = n
    /\ offset' = Continues(n)
    /\ start' = IF first /\ Continues(n) = 0 THEN TailStart(n) ELSE Continues(n)
    /\ excused' = IF ~replaced THEN excused
                  ELSE IF n < offset THEN {} ELSE 1 .. offset
    /\ replaced' = FALSE
    /\ at' = "scan"
    /\ UNCHANGED <<file, first, copies>>

\* The initial tail might begin halfway through a line: what comes before the
\* first end of one is left out.
Partial ==
    {p \in start + 1 .. Len(file) :
        \A q \in start + 1 .. p - 1 : file[q] # "end"}
LeftOut == IF first /\ start > 0 THEN Partial ELSE {}

\* The scanner reads to the end of the file, wherever that is by now.
Read == (start + 1 .. Len(file)) \ LeftOut

\* The lines are read, and stream will send them.
Scan ==
    /\ at = "scan"
    /\ copies' = [p \in Positions |->
                     IF p \in Read THEN copies[p] + 1 ELSE copies[p]]
    /\ excused' = IF first /\ ~replaced
                  THEN (1 .. start) \cup LeftOut
                  ELSE excused
    /\ at' = "finish"
    /\ UNCHANGED <<file, first, offset, size, start, replaced>>

\* Mutant: the size is taken when all is read.
OffsetIsSizeNow == offset' = Len(file)
\* The offset to go on from is the size taken at the beginning.
Advance == offset' = size

Finish ==
    /\ at = "finish"
    /\ Advance
    /\ first' = FALSE
    /\ at' = "wait"
    /\ UNCHANGED <<file, size, start, history>>

\* The file cannot be looked at, opened or read: nothing is sent, the offset
\* stays, and the next call is no initial one.
Fail ==
    /\ at \in {"wait", "scan"}
    /\ first' = FALSE
    /\ at' = "wait"
    /\ UNCHANGED <<file, offset, size, start, history>>

-----------------------------------------------------------------------------
(* The game server.                                                        *)

\* It writes whole lines or parts of them.
Written(piece) ==
    /\ Len(file) < MaxLength
    /\ file' = Append(file, piece)
    /\ UNCHANGED <<reader, history>>

\* The log is truncated, or another file takes its place.
Replace ==
    /\ file' = <<>>
    /\ copies' = NoCopies
    /\ replaced' = TRUE
    /\ UNCHANGED <<reader, excused>>

LogInit ==
    /\ file \in UNION {[1 .. n -> {"text", "end"}] : n \in Lengths}
    /\ at = "off"
    /\ first = TRUE
    /\ offset = 0
    /\ size = 0
    /\ start = 0
    /\ excused = {}
    /\ copies = NoCopies
    /\ replaced = FALSE

LogNext ==
    \/ Attach \/ Detach \/ Stat \/ Scan \/ Finish \/ Fail \/ Replace
    \/ Written("text") \/ Written("end")

LogSpec == LogInit /\ [][LogNext]_logVars

\* The ticker calls readGameLog every second, and reading the log does not
\* fail for ever.
FairLogSpec == LogSpec /\ WF_logVars(Stat) /\ SF_logVars(Scan) /\ WF_logVars(Finish)

-----------------------------------------------------------------------------
(* Properties.                                                             *)

\* What lies before the offset was sent, whatever was written between taking
\* the size and reading the file, and whatever calls failed: nothing is
\* skipped but the head of the initial tail, and as much of a replaced file as
\* had been read of the file before when the replacement was not noticed.
NothingSkipped ==
    at = "wait" /\ ~replaced =>
        \A p \in (1 .. offset) \ excused : copies[p] >= 1

\* What is written between taking the size and reading the file is sent again
\* by the next call, and never a third time.
AtMostTwice == \A p \in Positions : copies[p] <= 2

\* Whatever is written while a browser is connected reaches it, in parts if
\* need be, unless the file is replaced first.
EveryPieceArrives ==
    \A p \in Positions :
        at # "off" /\ p \in DOMAIN file /\ ~replaced /\ p \notin excused
        ~> copies[p] >= 1 \/ at = "off" \/ replaced \/ p \in excused
=============================================================================
