------------------------------ MODULE RconGate ------------------------------
(***************************************************************************)
(* The one gate through which every handler of q3ctl talks to the game     *)
(* server: rconFor and getStatusOnce (internal/app/server.go) and the UDP  *)
(* client they use (internal/rcon/client.go).  A call takes rconMu, keeps  *)
(* its distance from the call before it, sends one datagram from a socket  *)
(* of its own and reads one reply, or gives up at its deadline.            *)
(*                                                                         *)
(* The game server is reached over loopback: what it is sent waits in the  *)
(* receive buffer of its socket, in order, or is lost; it takes one        *)
(* datagram after the other, executes it and replies.  A call that gave up *)
(* leaves its datagram there.  The other modules rest on one consequence,  *)
(* Drained: who has a reply knows that nothing is left in the buffer.      *)
(*                                                                         *)
(* Time is counted in ticks, by counters that stop at the last value that  *)
(* makes a difference.                                                     *)
(***************************************************************************)
EXTENDS Integers, Sequences

CONSTANTS
    Callers,        \* goroutines that call rconFor or getStatusOnce
    StatusCallers,  \* those of them that call getStatusOnce
    Calls,          \* names for the calls: each sends one datagram
    None,           \* no caller, no call
    Gap,            \* the distance of two calls; 300 ms in the code
    Timeout,        \* the deadline of a call; 0.7 to 3 s in the code
    MaxQueue        \* bound: the datagrams the receive buffer holds

ASSUME GateAssumption ==
    /\ StatusCallers \subseteq Callers
    /\ None \notin Callers \cup Calls
    /\ Gap \in Nat \ {0}
    /\ Timeout \in Nat \ {0}
    /\ MaxQueue \in Nat \ {0}

VARIABLES
    pc,         \* per caller: the step it is at
    holder,     \* who has locked rconMu
    since,      \* the time since rconLast
    age,        \* the time since the datagram under way was sent
    call,       \* per caller: the call it is making
    reply,      \* per caller: the call whose reply it read
    queue,      \* the game server: the datagrams it received and did not take
    replies,    \* the replies under way, by the call they answer
    quiet       \* history: the time since this process last sent a datagram

caller == <<pc, call, reply>>
vars == <<caller, holder, since, age, queue, replies, quiet>>

Steps == {"idle", "blocked", "pausing", "sent", "returning"}

Inside == {c \in Callers : pc[c] \in {"pausing", "sent", "returning"}}

\* The type invariant; holder is who is between Lock and Unlock.
TypeOK ==
    /\ pc \in [Callers -> Steps]
    /\ holder \in Callers \cup {None}
    /\ since \in 0 .. Gap
    /\ age \in 0 .. Timeout
    /\ call \in [Callers -> Calls \cup {None}]
    /\ reply \in [Callers -> Calls \cup {None}]
    /\ queue \in Seq(Calls)
    /\ Len(queue) <= MaxQueue
    /\ replies \in SUBSET Calls
    /\ quiet \in 0 .. Gap
    /\ \A c \in Inside : holder = c

Waiting == {queue[i] : i \in DOMAIN queue}

\* The calls that a datagram or a socket still stands for.
InUse == Waiting \cup replies \cup {call[c] : c \in Callers}

-----------------------------------------------------------------------------
(* rconFor and getStatusOnce.                                              *)

Ask(c) ==
    /\ pc[c] = "idle"
    /\ pc' = [pc EXCEPT ![c] = "blocked"]
    /\ UNCHANGED <<call, reply, holder, since, age, queue, replies, quiet>>

\* Mutant: getStatusOnce does not wait for the lock.
FreeForStatus(c) == c \in StatusCallers \/ holder = None
Free(c) == holder = None

Lock(c) ==
    /\ pc[c] = "blocked"
    /\ Free(c)
    /\ holder' = c
    /\ pc' = [pc EXCEPT ![c] = "pausing"]
    /\ UNCHANGED <<call, reply, since, age, queue, replies, quiet>>

\* Mutant: getStatusOnce does not sleep.
RestedForRcon(c) == c \in StatusCallers \/ since >= Gap
\* time.Sleep, unless the call before was long enough ago.
Rested(c) == since >= Gap

\* A new socket: nothing under way is from it or to it.
NewCall(k) == k \notin InUse

\* Execute and GetStatus: the socket is opened, the datagram sent.  It may not
\* get into the buffer.
Send(c, k) ==
    /\ pc[c] = "pausing"
    /\ Rested(c)
    /\ NewCall(k)
    /\ call' = [call EXCEPT ![c] = k]
    /\ pc' = [pc EXCEPT ![c] = "sent"]
    /\ age' = 0
    /\ quiet' = 0
    /\ \/ Len(queue) < MaxQueue /\ queue' = Append(queue, k)
       \/ UNCHANGED queue
    /\ UNCHANGED <<reply, holder, since, replies>>

\* The socket cannot be opened or written to.
SendFails(c) ==
    /\ pc[c] = "pausing"
    /\ Rested(c)
    /\ pc' = [pc EXCEPT ![c] = "returning"]
    /\ UNCHANGED <<call, reply, holder, since, age, queue, replies, quiet>>

\* Mutant: one socket, kept open, for every call.
SameSocket(k, own) == TRUE
\* A reply comes to the socket its request was sent from.
ComesTo(k, own) == k = own

\* The socket is read, and closed.
Receive(c, k) ==
    /\ pc[c] = "sent"
    /\ k \in replies
    /\ ComesTo(k, call[c])
    /\ replies' = replies \ {k}
    /\ reply' = [reply EXCEPT ![c] = k]
    /\ pc' = [pc EXCEPT ![c] = "returning"]
    /\ UNCHANGED <<call, holder, since, age, queue, quiet>>

\* Mutant: the socket has no deadline.
NeverExpires == age < 0
Expired == age >= Timeout

\* The deadline passed, or the system reports that nobody takes the datagram.
GiveUp(c) ==
    /\ pc[c] = "sent"
    /\ Expired \/ call[c] \notin Waiting
    /\ pc' = [pc EXCEPT ![c] = "returning"]
    /\ UNCHANGED <<call, reply, holder, since, age, queue, replies, quiet>>

\* rconLast is set, the lock released.
Return(c) ==
    /\ pc[c] = "returning"
    /\ since' = 0
    /\ holder' = None
    /\ pc' = [pc EXCEPT ![c] = "idle"]
    /\ call' = [call EXCEPT ![c] = None]
    /\ reply' = [reply EXCEPT ![c] = None]
    /\ UNCHANGED <<age, queue, replies, quiet>>

\* q3ctl dies and is started again: the sockets are closed, and rconLast is
\* the zero time, long ago.
Crash ==
    /\ pc' = [c \in Callers |-> "idle"]
    /\ call' = [c \in Callers |-> None]
    /\ reply' = [c \in Callers |-> None]
    /\ holder' = None
    /\ since' = Gap
    /\ quiet' = Gap
    /\ UNCHANGED <<age, queue, replies>>

-----------------------------------------------------------------------------
(* The game server, the network and time.                                  *)

\* It takes the next datagram, executes it and sends its reply.
Serve ==
    /\ queue # <<>>
    /\ queue' = Tail(queue)
    /\ replies' = replies \cup {Head(queue)}
    /\ UNCHANGED <<caller, holder, since, age, quiet>>

\* A reply is lost, or comes to a socket that is closed.
ReplyLost(k) ==
    /\ k \in replies
    /\ replies' = replies \ {k}
    /\ UNCHANGED <<caller, holder, since, age, queue, quiet>>

\* It is restarted, and what it had received is gone.
ServerRestarts ==
    /\ queue' = <<>>
    /\ UNCHANGED <<caller, holder, since, age, replies, quiet>>

Later(t, limit) == IF t < limit THEN t + 1 ELSE limit

Tick ==
    /\ since < Gap \/ age < Timeout \/ quiet < Gap
    /\ since' = Later(since, Gap)
    /\ age' = Later(age, Timeout)
    /\ quiet' = Later(quiet, Gap)
    /\ UNCHANGED <<caller, holder, queue, replies>>

Init ==
    /\ pc = [c \in Callers |-> "idle"]
    /\ holder = None
    /\ since = Gap
    /\ age = Timeout
    /\ call = [c \in Callers |-> None]
    /\ reply = [c \in Callers |-> None]
    /\ queue = <<>>
    /\ replies = {}
    /\ quiet = Gap

Next ==
    \/ \E c \in Callers :
          \/ Ask(c) \/ Lock(c) \/ SendFails(c) \/ GiveUp(c) \/ Return(c)
          \/ \E k \in Calls : Send(c, k) \/ Receive(c, k)
    \/ Serve \/ \E k \in Calls : ReplyLost(k)
    \/ ServerRestarts \/ Crash \/ Tick

Spec == Init /\ [][Next]_vars

\* A caller goes on, time passes, and rconMu is given to everybody who waits
\* for it: a sync.Mutex hands itself over to one that waited for 1 ms.
\* Nothing is assumed of the game server.
FairSpec ==
    /\ Spec
    /\ WF_vars(Tick)
    /\ \A c \in Callers :
          /\ SF_vars(Lock(c))
          /\ WF_vars(SendFails(c) \/ \E k \in Calls : Send(c, k))
          /\ WF_vars(GiveUp(c))
          /\ WF_vars(Return(c))

-----------------------------------------------------------------------------
(* Properties.                                                             *)

Answered(c) == pc[c] = "returning" /\ reply[c] # None

\* When a caller has a reply, no command that was given up earlier is left for
\* the game server to take: they were all taken before.  Confirming a
\* roster, a rotation or a limit by a later query relies on it.
Drained == \A c \in Callers : Answered(c) => queue = <<>>

\* Two datagrams of one process are never closer than Gap, whichever handlers
\* send them, so that the game server's limit on requests drops none.
Spaced ==
    [][\A c \in Callers, k \in Calls : Send(c, k) => quiet >= Gap]_vars

\* Every call comes to an end, answered or not, though the lock is contended.
CallReturns == \A c \in Callers : pc[c] = "blocked" ~> pc[c] = "idle"
=============================================================================
