--------------------------- MODULE RconGateProofs ---------------------------
(***************************************************************************)
(* Proofs about RconGate: for any number of callers and calls, whatever is *)
(* lost or late, a reply is the caller's own and leaves nothing behind it, *)
(* and datagrams keep their distance.                                      *)
(***************************************************************************)
EXTENDS RconGate, TLAPS

\* What a caller has read is the reply to its own call, and it has read none
\* before it returns.
ReplyIsOwn ==
    \A c \in Callers :
        /\ pc[c] \in {"sent"} => call[c] \in Calls
        /\ pc[c] # "returning" => reply[c] = None
        /\ reply[c] # None => reply[c] = call[c]

\* The datagram of the call under way is the last of the buffer.
OwnIsLast ==
    \A c \in Callers :
        pc[c] = "sent" =>
            \A i \in DOMAIN queue : queue[i] = call[c] => i = Len(queue)

\* Once it is replied to, the buffer is empty.
RepliedIsDrained ==
    \A c \in Callers :
        pc[c] = "sent" /\ call[c] \in replies => queue = <<>>

\* Between two calls rconLast is not before the last datagram.
GapCovers == (\A c \in Inside : pc[c] = "pausing") => since <= quiet

\* The inductive invariant.
IInv == TypeOK /\ ReplyIsOwn /\ OwnIsLast /\ RepliedIsDrained /\ Drained /\ GapCovers

LEMMA InitIInv == Init => IInv
BY GateAssumption DEF Init, IInv, TypeOK, Inside, ReplyIsOwn, OwnIsLast,
   RepliedIsDrained, Drained, Answered, GapCovers, Steps

\* The steps of a caller that leave the buffer and the time alone.
LEMMA CallerSteps ==
    ASSUME IInv, NEW c \in Callers, Ask(c) \/ Lock(c) \/ SendFails(c) \/ GiveUp(c) \/ Return(c)
    PROVE  IInv'
<1> USE GateAssumption
<1>1. CASE Ask(c)
  BY <1>1 DEF Ask, IInv, TypeOK, Inside, ReplyIsOwn, OwnIsLast,
     RepliedIsDrained, Drained, Answered, GapCovers, Steps
<1>2. CASE Lock(c)
  BY <1>2 DEF Lock, Free, IInv, TypeOK, Inside, ReplyIsOwn, OwnIsLast,
     RepliedIsDrained, Drained, Answered, GapCovers, Steps
<1>3. CASE SendFails(c)
  BY <1>3 DEF SendFails, IInv, TypeOK, Inside, ReplyIsOwn, OwnIsLast,
     RepliedIsDrained, Drained, Answered, GapCovers, Steps
<1>4. CASE GiveUp(c)
  BY <1>4 DEF GiveUp, IInv, TypeOK, Inside, ReplyIsOwn, OwnIsLast,
     RepliedIsDrained, Drained, Answered, GapCovers, Steps
<1>5. CASE Return(c)
  BY <1>5 DEF Return, IInv, TypeOK, Inside, ReplyIsOwn, OwnIsLast,
     RepliedIsDrained, Drained, Answered, GapCovers, Steps
<1> QED  BY <1>1, <1>2, <1>3, <1>4, <1>5

LEMMA SendStep ==
    ASSUME IInv, NEW c \in Callers, NEW k \in Calls, Send(c, k)
    PROVE  IInv'
<1> USE GateAssumption
<1>1. \A d \in Callers : d # c => pc[d] \notin {"pausing", "sent", "returning"}
  BY DEF Send, IInv, TypeOK, Inside
<1>2. TypeOK'
  <2>1. queue' \in Seq(Calls) /\ Len(queue') <= MaxQueue
    BY DEF Send, IInv, TypeOK
  <2> QED  BY <2>1 DEF Send, IInv, TypeOK, Inside, Steps
<1>3. ReplyIsOwn'
  BY DEF Send, IInv, TypeOK, ReplyIsOwn
<1>4. OwnIsLast'
  <2>1. \A d \in Callers : pc'[d] = "sent" => d = c /\ call'[d] = k
    BY <1>1 DEF Send, IInv, TypeOK
  <2>2. \A i \in DOMAIN queue : queue[i] # k
    BY DEF Send, NewCall, InUse, Waiting
  <2>3. \A i \in DOMAIN queue' : queue'[i] = k => i = Len(queue')
    BY <2>2 DEF Send, IInv, TypeOK
  <2> QED  BY <2>1, <2>3 DEF OwnIsLast
<1>5. RepliedIsDrained'
  <2>1. \A d \in Callers : pc'[d] = "sent" => d = c /\ call'[d] = k
    BY <1>1 DEF Send, IInv, TypeOK
  <2>2. k \notin replies'
    BY DEF Send, NewCall, InUse
  <2> QED  BY <2>1, <2>2 DEF RepliedIsDrained
<1>6. Drained'
  BY <1>1 DEF Send, IInv, TypeOK, Drained, Answered
<1>7. GapCovers'
  BY DEF Send, IInv, TypeOK, Inside, GapCovers
<1> QED  BY <1>2, <1>3, <1>4, <1>5, <1>6, <1>7 DEF IInv

LEMMA ReceiveStep ==
    ASSUME IInv, NEW c \in Callers, NEW k \in Calls, Receive(c, k)
    PROVE  IInv'
<1> USE GateAssumption
<1>1. queue = <<>>
  BY DEF Receive, ComesTo, IInv, RepliedIsDrained
<1> QED
  BY <1>1 DEF Receive, ComesTo, IInv, TypeOK, Inside, ReplyIsOwn, OwnIsLast,
     RepliedIsDrained, Drained, Answered, GapCovers, Steps

LEMMA ServeStep ==
    ASSUME IInv, Serve
    PROVE  IInv'
<1> USE GateAssumption
<1>1. /\ queue \in Seq(Calls) /\ Len(queue) \in Nat \ {0}
      /\ Head(queue) = queue[1] /\ queue[1] \in Calls
      /\ Tail(queue) \in Seq(Calls) /\ Len(Tail(queue)) = Len(queue) - 1
      /\ \A i \in 1 .. Len(queue) - 1 : Tail(queue)[i] = queue[i + 1]
      /\ Len(queue) = 1 => Tail(queue) = <<>>
  BY DEF Serve, IInv, TypeOK
<1>2. TypeOK'
  BY <1>1 DEF Serve, caller, IInv, TypeOK, Inside
<1>3. ReplyIsOwn'
  BY DEF Serve, caller, IInv, ReplyIsOwn
<1>4. OwnIsLast'
  <2> SUFFICES ASSUME NEW c \in Callers, pc[c] = "sent",
                      NEW i \in DOMAIN queue', queue'[i] = call[c]
               PROVE  i = Len(queue')
    BY DEF Serve, caller, OwnIsLast
  <2>1. i \in 1 .. Len(queue) - 1 /\ queue[i + 1] = call[c] /\ i + 1 \in DOMAIN queue
    BY <1>1 DEF Serve
  <2> QED  BY <1>1, <2>1 DEF Serve, IInv, OwnIsLast
<1>5. RepliedIsDrained'
  <2> SUFFICES ASSUME NEW c \in Callers, pc[c] = "sent", call[c] \in replies'
               PROVE  queue' = <<>>
    BY DEF Serve, caller, RepliedIsDrained
  <2>1. call[c] \notin replies
    BY DEF Serve, IInv, RepliedIsDrained
  <2>2. queue[1] = call[c] /\ 1 \in DOMAIN queue
    BY <1>1, <2>1 DEF Serve
  <2>3. Len(queue) = 1
    BY <2>2 DEF IInv, OwnIsLast
  <2> QED  BY <1>1, <2>3 DEF Serve
<1>6. Drained'
  BY DEF Serve, caller, IInv, Drained, Answered
<1>7. GapCovers'
  BY DEF Serve, caller, IInv, GapCovers, Inside
<1> QED  BY <1>2, <1>3, <1>4, <1>5, <1>6, <1>7 DEF IInv

\* The game server, the network, a crash of q3ctl and time.
LEMMA OtherSteps ==
    ASSUME IInv,
           (\E k \in Calls : ReplyLost(k)) \/ ServerRestarts \/ Crash \/ Tick \/ UNCHANGED vars
    PROVE  IInv'
<1> USE GateAssumption
<1>1. CASE \E k \in Calls : ReplyLost(k)
  BY <1>1 DEF ReplyLost, caller, IInv, TypeOK, Inside, ReplyIsOwn, OwnIsLast,
     RepliedIsDrained, Drained, Answered, GapCovers
<1>2. CASE ServerRestarts
  BY <1>2 DEF ServerRestarts, caller, IInv, TypeOK, Inside, ReplyIsOwn, OwnIsLast,
     RepliedIsDrained, Drained, Answered, GapCovers
<1>3. CASE Crash
  BY <1>3 DEF Crash, IInv, TypeOK, Inside, ReplyIsOwn, OwnIsLast,
     RepliedIsDrained, Drained, Answered, GapCovers, Steps
<1>4. CASE Tick
  BY <1>4 DEF Tick, Later, caller, IInv, TypeOK, Inside, ReplyIsOwn, OwnIsLast,
     RepliedIsDrained, Drained, Answered, GapCovers
<1>5. CASE UNCHANGED vars
  BY <1>5 DEF vars, caller, IInv, TypeOK, Inside, ReplyIsOwn, OwnIsLast,
     RepliedIsDrained, Drained, Answered, GapCovers
<1> QED  BY <1>1, <1>2, <1>3, <1>4, <1>5

LEMMA NextIInv == IInv /\ [Next]_vars => IInv'
BY CallerSteps, SendStep, ReceiveStep, ServeStep, OtherSteps DEF Next

LEMMA Inductive == Spec => []IInv
<1>1. Init => IInv  BY InitIInv
<1>2. IInv /\ [Next]_vars => IInv'  BY NextIInv
<1> QED  BY <1>1, <1>2, PTL DEF Spec

\* Every variable of the gate keeps its type, and rconMu admits one call at a
\* time: Lock and the deferred Unlock of rconFor and getStatusOnce.
THEOREM TypeCorrect == Spec => []TypeOK
<1>1. IInv => TypeOK  BY DEF IInv
<1> QED  BY <1>1, Inductive, PTL

\* When a call has its reply, the game server has taken every datagram sent
\* before: what the other modules conclude from an answered query.
THEOREM AnsweredIsDrained == Spec => []Drained
<1>1. IInv => Drained  BY DEF IInv
<1> QED  BY <1>1, Inductive, PTL

\* Two datagrams of one process are at least Gap apart (rconLast and the
\* sleep in rconFor and getStatusOnce).
THEOREM KeepsDistance == Spec => Spaced
<1>1. IInv /\ [Next]_vars => [\A c \in Callers, k \in Calls : Send(c, k) => quiet >= Gap]_vars
  <2> SUFFICES ASSUME IInv, NEW c \in Callers, NEW k \in Calls, Send(c, k)
               PROVE  quiet >= Gap
    OBVIOUS
  <2>1. \A d \in Inside : pc[d] = "pausing"
    BY DEF Send, IInv, TypeOK, Inside
  <2>2. since <= quiet /\ since >= Gap
    BY <2>1 DEF Send, Rested, IInv, GapCovers
  <2> QED  BY <2>2, GateAssumption DEF IInv, TypeOK
<1> QED  BY <1>1, Inductive, PTL DEF Spec, Spaced
=============================================================================
