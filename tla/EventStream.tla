----------------------------- MODULE EventStream -----------------------------
(***************************************************************************)
(* The audit events of q3ctl and the end of the process                    *)
(* (internal/app/server.go, cmd/q3ctl/main.go).  A handler that is done    *)
(* with its operation records it: it appends a line to the audit file and  *)
(* then offers the event to the channel of every open event stream.  A     *)
(* stream subscribes, sends the last events of the file and goes on with   *)
(* its channel.  On a signal, Run stops accepting requests and waits for   *)
(* the handlers that run, ten seconds long.                                *)
(*                                                                         *)
(* record holds the read lock while it offers an event, and a stream is    *)
(* added and removed under the write lock: offering to all is one step.    *)
(***************************************************************************)
EXTENDS Integers, Sequences, FiniteSets

CONSTANTS
    Events,     \* what is recorded, each by a handler of its own
    Streams,    \* connections that ask for the event stream
    Cap,        \* the capacity of a subscriber's channel; 16 in the code
    Window      \* how many events of the file are sent first; 80 in the code

ASSUME StreamAssumption == Cap \in Nat \ {0} /\ Window \in Nat \ {0}

VARIABLES
    handler,    \* per event: how far the handler that records it is
    auditFile,  \* the audit file
    pc,         \* per stream: the step it is at
    ch,         \* per stream: its channel
    sent,       \* per stream: what it wrote or is about to write, in order
    run,        \* what Run is doing
    exit,       \* how the process ended
    left,       \* history, per stream: the events it had no room for
    missing,    \* history: the events the audit file could not be appended to
    before      \* history, per event: those recorded when its handler began

stream == <<pc, ch, sent, left>>
vars == <<handler, auditFile, stream, run, exit, missing, before>>

\* A handler is driving the game server, or in record, or has answered; it
\* records nothing when it failed.
HandlerSteps == {"new", "working", "offer", "done", "failed"}
StreamSteps  == {"new", "connected", "subscribed", "sending", "live", "closed"}

\* The type invariant.
TypeOK ==
    /\ handler \in [Events -> HandlerSteps]
    /\ auditFile \in Seq(Events)
    /\ pc \in [Streams -> StreamSteps]
    /\ ch \in [Streams -> Seq(Events)]
    /\ \A s \in Streams : Len(ch[s]) <= Cap
    /\ sent \in [Streams -> Seq(Events)]
    /\ run \in {"serving", "stopping", "stopped"}
    /\ exit \in {"none", "clean", "error"}
    /\ left \in [Streams -> SUBSET Events]
    /\ missing \in SUBSET Events
    /\ before \in [Events -> SUBSET Events]

In(seq) == {seq[i] : i \in DOMAIN seq}
Recorded == {e \in Events : handler[e] = "done"}
Active == {e \in Events : handler[e] \in {"working", "offer"}}
Open == {s \in Streams : pc[s] \notin {"new", "closed"}}

-----------------------------------------------------------------------------
(* A handler and record.                                                   *)

\* A request is accepted; the rest of its work is in the other modules.
Accept(e) ==
    /\ run = "serving"
    /\ handler[e] = "new"
    /\ handler' = [handler EXCEPT ![e] = "working"]
    /\ before' = [before EXCEPT ![e] = Recorded]
    /\ UNCHANGED <<auditFile, stream, run, exit, missing>>

\* The operation failed and is answered with an error.
Refuse(e) ==
    /\ run # "stopped"
    /\ handler[e] = "working"
    /\ handler' = [handler EXCEPT ![e] = "failed"]
    /\ UNCHANGED <<auditFile, stream, run, exit, missing, before>>

\* record: one appending write, whose failure nobody hears of.
Write(e) ==
    /\ run # "stopped"
    /\ handler[e] = "working"
    /\ handler' = [handler EXCEPT ![e] = "offer"]
    /\ \/ auditFile' = Append(auditFile, e) /\ UNCHANGED missing
       \/ missing' = missing \cup {e} /\ UNCHANGED auditFile
    /\ UNCHANGED <<stream, run, exit, before>>

\* Mutant: a stream subscribes when it has sent what was in the file.
ListeningLive == {s \in Streams : pc[s] = "live"}
Listening == {s \in Streams : pc[s] \in {"subscribed", "sending", "live"}}

HasRoom(s) == Len(ch[s]) < Cap

\* Mutant: the send has no default case, and waits for room.
OfferedWaiting(e) ==
    /\ \A s \in Listening : HasRoom(s)
    /\ ch' = [s \in Streams |-> IF s \in Listening THEN Append(ch[s], e) ELSE ch[s]]
    /\ UNCHANGED left
\* Mutant: a full channel gets the event all the same.
OfferedBeyond(e) ==
    /\ ch' = [s \in Streams |-> IF s \in Listening THEN Append(ch[s], e) ELSE ch[s]]
    /\ UNCHANGED left
\* Every subscriber is offered the event, and none is waited for.
Offered(e) ==
    LET takes == {s \in Listening : HasRoom(s)} IN
    /\ ch' = [s \in Streams |-> IF s \in takes THEN Append(ch[s], e) ELSE ch[s]]
    /\ left' = [s \in Streams |-> IF s \in Listening \ takes THEN left[s] \cup {e}
                                                             ELSE left[s]]

\* record: the loop over the subscribers; then the handler answers.
Offer(e) ==
    /\ run # "stopped"
    /\ handler[e] = "offer"
    /\ handler' = [handler EXCEPT ![e] = "done"]
    /\ Offered(e)
    /\ UNCHANGED <<auditFile, pc, sent, run, exit, missing, before>>

-----------------------------------------------------------------------------
(* stream.                                                                 *)

Connect(s) ==
    /\ run = "serving"
    /\ pc[s] = "new"
    /\ pc' = [pc EXCEPT ![s] = "connected"]
    /\ UNCHANGED <<handler, auditFile, ch, sent, run, exit, left, missing, before>>

\* Its channel is made and added to the subscribers.
Subscribe(s) ==
    /\ run # "stopped"
    /\ pc[s] = "connected"
    /\ pc' = [pc EXCEPT ![s] = "subscribed"]
    /\ UNCHANGED <<handler, auditFile, ch, sent, run, exit, left, missing, before>>

\* readAudit: the last events of the file, and those before them.
Last == {i \in DOMAIN auditFile : i > Len(auditFile) - Window}
LastEvents == [i \in 1 .. Cardinality(Last) |->
                  auditFile[Len(auditFile) - Cardinality(Last) + i]]
Older == {auditFile[i] : i \in DOMAIN auditFile \ Last}

\* The file is read, and its last events are written to the browser ...
ReadAudit(s) ==
    /\ run # "stopped"
    /\ pc[s] = "subscribed"
    /\ sent' = [sent EXCEPT ![s] = LastEvents]
    /\ left' = [left EXCEPT ![s] = @ \cup Older]
    /\ pc' = [pc EXCEPT ![s] = "sending"]
    /\ UNCHANGED <<handler, auditFile, ch, run, exit, missing, before>>

\* ... as fast as that takes them.
BacklogSent(s) ==
    /\ run # "stopped"
    /\ pc[s] = "sending"
    /\ pc' = [pc EXCEPT ![s] = "live"]
    /\ UNCHANGED <<handler, auditFile, ch, sent, run, exit, left, missing, before>>

\* Mutant: the channel is read as soon as there is one.
TakesAtOnce(s) == pc[s] \in {"subscribed", "live"}
\* The channel is read in the loop that follows.
Takes(s) == pc[s] = "live"

\* The next event of the channel is written to the browser.
SendNext(s) ==
    /\ run # "stopped"
    /\ Takes(s)
    /\ ch[s] # <<>>
    /\ sent' = [sent EXCEPT ![s] = Append(@, Head(ch[s]))]
    /\ ch' = [ch EXCEPT ![s] = Tail(@)]
    /\ UNCHANGED <<handler, auditFile, pc, run, exit, left, missing, before>>

\* The browser goes away; the channel is removed from the subscribers.
Close(s) ==
    /\ run # "stopped"
    /\ pc[s] = "live"
    /\ pc' = [pc EXCEPT ![s] = "closed"]
    /\ ch' = [ch EXCEPT ![s] = <<>>]
    /\ UNCHANGED <<handler, auditFile, sent, run, exit, left, missing, before>>

-----------------------------------------------------------------------------
(* Run and main.                                                           *)

\* SIGINT or SIGTERM: Shutdown closes the listener.
Signal ==
    /\ run = "serving"
    /\ run' = "stopping"
    /\ UNCHANGED <<handler, auditFile, stream, exit, missing, before>>

Ends(how) ==
    /\ run' = "stopped"
    /\ exit' = how
    /\ UNCHANGED <<handler, auditFile, stream, missing, before>>

\* The listener fails: Run returns its error and main calls log.Fatal.
ListenerFails == run = "serving" /\ Ends("error")

\* Shutdown looks at the connections now and then.
Idle == Active = {} /\ Open = {}

\* Shutdown saw every connection idle.
ShutdownDone == run = "stopping" /\ Idle /\ Ends("clean")

\* Mutant: Shutdown is called with the parent context, which has no deadline.
WaitsForAll == run = "stopping" /\ Idle /\ Ends("error")
\* Ten seconds have passed: Shutdown gives up and main calls log.Fatal.
ShutdownTimesOut == run = "stopping" /\ ~Idle /\ Ends("error")

\* The supervisor does not start q3ctl again in this model.
Stopped == run = "stopped" /\ UNCHANGED vars

Init ==
    /\ handler = [e \in Events |-> "new"]
    /\ auditFile = <<>>
    /\ pc = [s \in Streams |-> "new"]
    /\ ch = [s \in Streams |-> <<>>]
    /\ sent = [s \in Streams |-> <<>>]
    /\ run = "serving"
    /\ exit = "none"
    /\ left = [s \in Streams |-> {}]
    /\ missing = {}
    /\ before = [e \in Events |-> {}]

Next ==
    \/ \E e \in Events : Accept(e) \/ Refuse(e) \/ Write(e) \/ Offer(e)
    \/ \E s \in Streams :
          \/ Connect(s) \/ Subscribe(s) \/ ReadAudit(s) \/ BacklogSent(s)
          \/ SendNext(s) \/ Close(s)
    \/ Signal \/ ListenerFails \/ ShutdownDone \/ ShutdownTimesOut \/ Stopped

Spec == Init /\ [][Next]_vars

\* Nothing is assumed of the browsers and their streams.  A handler goes on,
\* and Shutdown polls and has a deadline.
FairSpec ==
    /\ Spec
    /\ \A e \in Events : WF_vars(Refuse(e) \/ Write(e)) /\ WF_vars(Offer(e))
    /\ WF_vars(ShutdownDone \/ ShutdownTimesOut)

-----------------------------------------------------------------------------
(* Properties.                                                             *)

\* Between the file and the channel no event falls through: whatever instant
\* a stream began at, an event that was recorded is among those it wrote or
\* waits in its channel.  Excepted are what the file or the channel had no
\* room for and what the window leaves out.
NeverMissed ==
    \A s \in ListeningLive, e \in Recorded :
        e \in In(sent[s]) \cup In(ch[s]) \cup left[s] \cup missing

\* Whenever a browser is told of an event, it was told before of every event
\* whose handler had answered when that of the first one began: the log never
\* shows an operation before the one it followed, though each event comes by
\* two ways and may come twice.  The exceptions are those of NeverMissed.
CauseFirst ==
    \A s \in Streams : \A i \in DOMAIN sent[s] :
        \A c \in before[sent[s][i]] \ (left[s] \cup missing) :
            \E j \in 1 .. i - 1 : sent[s][j] = c

\* A handler answers or the process ends, whatever the browsers that listen
\* do: record waits for none of them.
HandlersAnswer ==
    \A e \in Events :
        handler[e] \in {"working", "offer"}
        ~> handler[e] \in {"done", "failed"} \/ run = "stopped"

\* A signal ends the process, though a browser that keeps its stream open
\* never lets Shutdown see an idle server.
StopEnds == run = "stopping" ~> run = "stopped"
=============================================================================
