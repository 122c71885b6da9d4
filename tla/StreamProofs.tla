----------------------------- MODULE StreamProofs -----------------------------
(***************************************************************************)
(* What an event stream shows, for any number of events, streams, channel  *)
(* sizes and windows.  Audit events: none falls through between the file   *)
(* and the channel, and none comes before its cause.  The game log, of any *)
(* length, written, truncated and replaced at any moment: nothing of it is *)
(* skipped and nothing is sent a third time.                               *)
(***************************************************************************)
EXTENDS EventStream, GameLogTail, SequenceTheorems, FiniteSetTheorems, TLAPS

Known == {e \in Events : handler[e] \in {"offer", "done"}}

\* Only what a handler recorded is in the file or in a stream, and all of it
\* that the file could take is in the file.
KnownOK ==
    /\ In(auditFile) \subseteq Known
    /\ \A s \in Streams : In(ch[s]) \cup In(sent[s]) \subseteq Known
    /\ Known \subseteq In(auditFile) \cup missing

\* What was recorded when a handler began stays recorded.
BeforeOK == \A e \in Events : before[e] \subseteq Recorded

\* The file has every cause before its effect.
FileOK ==
    \A i \in DOMAIN auditFile : \A c \in before[auditFile[i]] \ missing :
        \E j \in 1 .. i - 1 : auditFile[j] = c

\* What a stream need not show.
Excused(s) == left[s] \cup missing

\* Once the file was read, everything recorded is on its way to the browser.
OnItsWay(s) ==
    pc[s] \in {"sending", "live"} =>
        Recorded \subseteq In(sent[s]) \cup In(ch[s]) \cup Excused(s)

SentOK(s) ==
    \A i \in DOMAIN sent[s] : \A c \in before[sent[s][i]] \ Excused(s) :
        \E j \in 1 .. i - 1 : sent[s][j] = c

\* What waits in the channel follows its causes, shown or waiting before it.
ChannelOK(s) ==
    pc[s] \in {"sending", "live"} =>
        \A i \in DOMAIN ch[s] : \A c \in before[ch[s][i]] \ Excused(s) :
            c \in In(sent[s]) \/ \E j \in 1 .. i - 1 : ch[s][j] = c

IInv ==
    /\ TypeOK
    /\ KnownOK
    /\ BeforeOK
    /\ FileOK
    /\ \A s \in Streams : OnItsWay(s) /\ SentOK(s) /\ ChannelOK(s)

-----------------------------------------------------------------------------
(* Sequences of events.                                                    *)

LEMMA AppendFacts ==
    ASSUME NEW seq \in Seq(Events), NEW e \in Events
    PROVE  /\ Append(seq, e) \in Seq(Events)
           /\ Len(Append(seq, e)) = Len(seq) + 1
           /\ \A i \in DOMAIN seq : /\ i \in DOMAIN Append(seq, e)
                                    /\ Append(seq, e)[i] = seq[i]
           /\ \A i \in DOMAIN Append(seq, e) :
                 i \in DOMAIN seq \/ (i = Len(seq) + 1 /\ Append(seq, e)[i] = e)
           /\ In(Append(seq, e)) = In(seq) \cup {e}
<1>1. /\ Append(seq, e) \in Seq(Events)
      /\ Len(Append(seq, e)) = Len(seq) + 1
      /\ \A i \in DOMAIN seq : /\ i \in DOMAIN Append(seq, e)
                               /\ Append(seq, e)[i] = seq[i]
      /\ \A i \in DOMAIN Append(seq, e) :
            i \in DOMAIN seq \/ (i = Len(seq) + 1 /\ Append(seq, e)[i] = e)
      /\ Len(seq) + 1 \in DOMAIN Append(seq, e)
      /\ Append(seq, e)[Len(seq) + 1] = e
  OBVIOUS
<1>2. In(Append(seq, e)) = In(seq) \cup {e}
  BY <1>1 DEF In
<1>. QED  BY <1>1, <1>2

LEMMA TailFacts ==
    ASSUME NEW seq \in Seq(Events), seq # <<>>
    PROVE  /\ Tail(seq) \in Seq(Events) /\ Len(Tail(seq)) = Len(seq) - 1
           /\ 1 \in DOMAIN seq /\ Head(seq) = seq[1] /\ Head(seq) \in Events
           /\ \A i \in DOMAIN Tail(seq) : /\ i + 1 \in DOMAIN seq
                                          /\ Tail(seq)[i] = seq[i + 1]
           /\ \A i \in DOMAIN seq : i = 1 \/ /\ i - 1 \in DOMAIN Tail(seq)
                                             /\ Tail(seq)[i - 1] = seq[i]
           /\ In(seq) = {Head(seq)} \cup In(Tail(seq))
<1>1. /\ Tail(seq) \in Seq(Events) /\ Len(Tail(seq)) = Len(seq) - 1
      /\ 1 \in DOMAIN seq /\ Head(seq) = seq[1] /\ Head(seq) \in Events
      /\ \A i \in DOMAIN Tail(seq) : /\ i + 1 \in DOMAIN seq
                                     /\ Tail(seq)[i] = seq[i + 1]
  OBVIOUS
<1>2. \A i \in DOMAIN seq : i = 1 \/ i - 1 \in DOMAIN Tail(seq)
  BY <1>1
<1>3. \A i \in DOMAIN seq : i = 1 \/ Tail(seq)[i - 1] = seq[i]
  BY <1>1, <1>2
<1>4. In(seq) = {Head(seq)} \cup In(Tail(seq))
  BY <1>1, <1>2, <1>3 DEF In
<1>. QED  BY <1>1, <1>2, <1>3, <1>4

LEMMA InFacts ==
    ASSUME NEW seq \in Seq(Events)
    PROVE  /\ In(seq) \subseteq Events
           /\ \A i \in DOMAIN seq : seq[i] \in In(seq) /\ seq[i] \in Events
           /\ \A e \in In(seq) : \E i \in DOMAIN seq : seq[i] = e
           /\ DOMAIN seq = 1 .. Len(seq) /\ Len(seq) \in Nat
BY DEF In

\* What a stream reads of the file: the events from some place on.
LEMMA WindowFacts ==
    ASSUME auditFile \in Seq(Events)
    PROVE  \E k \in 0 .. Len(auditFile) :
              /\ LastEvents = [i \in 1 .. Len(auditFile) - k |-> auditFile[k + i]]
              /\ Older = {auditFile[i] : i \in 1 .. k}
<1> DEFINE n == Len(auditFile)
           k == IF n > Window THEN n - Window ELSE 0
<1>1. n \in Nat /\ Window \in Nat /\ DOMAIN auditFile = 1 .. n
  BY StreamAssumption
<1>2. k \in 0 .. n /\ k \in Int /\ n \in Int
  BY <1>1
<1>3. Last = k + 1 .. n
  BY <1>1 DEF Last
<1>4. DOMAIN auditFile \ Last = 1 .. k
  BY <1>1, <1>2, <1>3
<1> HIDE DEF k, n
<1>5. Cardinality(Last) = n - k
  <2>1. Cardinality(k + 1 .. n) = IF k + 1 > n THEN 0 ELSE n - (k + 1) + 1
    BY <1>2, FS_Interval
  <2>. QED  BY <1>2, <1>3, <2>1
<1>6. n - Cardinality(Last) = k
  BY <1>2, <1>5
<1>7. n = Len(auditFile)
  BY DEF n
<1>. QED  BY <1>2, <1>4, <1>5, <1>6, <1>7 DEF LastEvents, Older

-----------------------------------------------------------------------------
(* What a step leaves alone.                                               *)

LEMMA Facts ==
    ASSUME IInv
    PROVE  /\ Recorded \subseteq Known /\ Known \subseteq Events
           /\ auditFile \in Seq(Events)
           /\ \A s \in Streams : ch[s] \in Seq(Events) /\ sent[s] \in Seq(Events)
           /\ \A e \in Events : before[e] \subseteq Recorded
BY DEF IInv, TypeOK, BeforeOK, Recorded, Known

LEMMA StreamKept ==
    ASSUME IInv, NEW s \in Streams,
           \A e \in Known : before'[e] = before[e],
           Recorded' = Recorded,
           ch'[s] = ch[s], sent'[s] = sent[s], Excused(s) \subseteq Excused(s)',
           pc'[s] \in {"sending", "live"} => pc[s] \in {"sending", "live"}
    PROVE  (OnItsWay(s) /\ SentOK(s) /\ ChannelOK(s))'
<1>1. OnItsWay(s) /\ SentOK(s) /\ ChannelOK(s)
  BY DEF IInv
<1>2. \A e \in In(ch[s]) \cup In(sent[s]) : before'[e] = before[e]
  BY DEF IInv, KnownOK
<1>3. /\ \A i \in DOMAIN ch[s] : ch[s][i] \in In(ch[s])
      /\ \A i \in DOMAIN sent[s] : sent[s][i] \in In(sent[s])
  BY DEF In
<1>4. OnItsWay(s)'
  BY <1>1 DEF OnItsWay
<1>5. SentOK(s)'
  BY <1>1, <1>2, <1>3 DEF SentOK
<1>6. ChannelOK(s)'
  BY <1>1, <1>2, <1>3 DEF ChannelOK
<1>. QED  BY <1>4, <1>5, <1>6

LEMMA FileKept ==
    ASSUME IInv, \A e \in Known : before'[e] = before[e],
           auditFile' = auditFile, missing \subseteq missing'
    PROVE  FileOK'
<1>1. \A i \in DOMAIN auditFile : before'[auditFile[i]] = before[auditFile[i]]
  BY DEF IInv, KnownOK, In
<1>. QED  BY <1>1 DEF IInv, FileOK

\* The handlers and the file are left alone.
LEMMA RecordsKept ==
    ASSUME IInv, UNCHANGED <<handler, auditFile, missing, before>>,
           \A s \in Streams : In(ch'[s]) \cup In(sent'[s]) \subseteq Known
    PROVE  KnownOK' /\ BeforeOK' /\ FileOK'
<1>1. Known' = Known /\ Recorded' = Recorded
  BY DEF Known, Recorded
<1>2. \A s \in Streams : (In(ch[s]) \cup In(sent[s]))' \subseteq Known
  BY DEF In
<1>3. In(auditFile)' = In(auditFile)
  BY DEF In
<1>4. KnownOK'
  BY <1>1, <1>2, <1>3 DEF IInv, KnownOK
<1>. QED  BY <1>1, <1>4, FileKept DEF IInv, BeforeOK

\* Only where streams and Run are changes.
LEMMA PlacesKept ==
    ASSUME IInv, UNCHANGED <<handler, auditFile, ch, sent, left, missing, before>>,
           pc' \in [Streams -> StreamSteps],
           run' \in {"serving", "stopping", "stopped"},
           exit' \in {"none", "clean", "error"},
           \A s \in Streams :
              pc'[s] \in {"sending", "live"} => pc[s] \in {"sending", "live"}
    PROVE  IInv'
<1>1. TypeOK'
  BY DEF IInv, TypeOK
<1>2. KnownOK' /\ BeforeOK' /\ FileOK'
  BY RecordsKept DEF IInv, KnownOK
<1>3. Recorded' = Recorded
  BY DEF Recorded
<1>4. \A s \in Streams : (OnItsWay(s) /\ SentOK(s) /\ ChannelOK(s))'
  BY <1>3, StreamKept DEF Excused
<1>. QED  BY <1>1, <1>2, <1>4 DEF IInv

-----------------------------------------------------------------------------
(* Handlers.                                                               *)

LEMMA AcceptKeeps ==
    ASSUME IInv, NEW e \in Events, Accept(e)
    PROVE  IInv'
<1>1. /\ UNCHANGED <<auditFile, pc, ch, sent, left, run, exit, missing>>
      /\ e \notin Known
      /\ handler' \in [Events -> HandlerSteps]
      /\ before' \in [Events -> SUBSET Events]
  BY DEF Accept, stream, Known, IInv, TypeOK, HandlerSteps, Recorded
<1>2. Known' = Known /\ Recorded' = Recorded
  BY DEF Accept, Known, Recorded, IInv, TypeOK
<1>3. /\ \A x \in Known : before'[x] = before[x]
      /\ \A x \in Events : before'[x] \subseteq Recorded
  BY <1>1, Facts DEF Accept, IInv, TypeOK
<1>4. TypeOK'
  BY <1>1 DEF IInv, TypeOK
<1>5. KnownOK'
  BY <1>1, <1>2 DEF IInv, KnownOK, In
<1>6. BeforeOK' /\ FileOK'
  BY <1>1, <1>2, <1>3, FileKept DEF BeforeOK
<1>7. \A s \in Streams : (OnItsWay(s) /\ SentOK(s) /\ ChannelOK(s))'
  BY <1>1, <1>2, <1>3, StreamKept DEF Excused
<1>. QED  BY <1>4, <1>5, <1>6, <1>7 DEF IInv

LEMMA RefuseKeeps ==
    ASSUME IInv, NEW e \in Events, Refuse(e)
    PROVE  IInv'
<1>1. /\ UNCHANGED <<auditFile, pc, ch, sent, left, run, exit, missing, before>>
      /\ handler' \in [Events -> HandlerSteps]
  BY DEF Refuse, stream, IInv, TypeOK, HandlerSteps
<1>2. Known' = Known /\ Recorded' = Recorded
  BY DEF Refuse, Known, Recorded, IInv, TypeOK
<1>3. TypeOK'
  BY <1>1 DEF IInv, TypeOK
<1>4. KnownOK' /\ BeforeOK' /\ FileOK'
  BY <1>1, <1>2, FileKept DEF IInv, KnownOK, BeforeOK, In
<1>5. \A s \in Streams : (OnItsWay(s) /\ SentOK(s) /\ ChannelOK(s))'
  BY <1>1, <1>2, StreamKept DEF Excused
<1>. QED  BY <1>3, <1>4, <1>5 DEF IInv

LEMMA WriteKeeps ==
    ASSUME IInv, NEW e \in Events, Write(e)
    PROVE  IInv'
<1>1. /\ UNCHANGED <<pc, ch, sent, left, run, exit, before>>
      /\ handler' \in [Events -> HandlerSteps]
      /\ missing \subseteq missing' /\ missing' \in SUBSET Events
  BY DEF Write, stream, IInv, TypeOK, HandlerSteps
<1>2. Known' = Known \cup {e} /\ Recorded' = Recorded
  BY DEF Write, Known, Recorded, IInv, TypeOK
<1>3. \/ auditFile' = Append(auditFile, e) /\ missing' = missing
      \/ auditFile' = auditFile /\ missing' = missing \cup {e}
  BY DEF Write
<1>4. auditFile' \in Seq(Events)
      /\ (In(auditFile') = In(auditFile) \/ In(auditFile') = In(auditFile) \cup {e})
      /\ (In(auditFile') = In(auditFile) \cup {e} \/ missing' = missing \cup {e})
  BY <1>3, Facts, AppendFacts
<1>5. TypeOK'
  BY <1>1, <1>4 DEF IInv, TypeOK
<1>6. KnownOK'
  <2>1. In(auditFile)' = In(auditFile')
    BY DEF In
  <2>2. \A s \in Streams : In(ch[s])' = In(ch[s]) /\ In(sent[s])' = In(sent[s])
    BY <1>1 DEF In
  <2>. QED  BY <1>1, <1>2, <1>4, <2>1, <2>2 DEF IInv, KnownOK
<1>7. BeforeOK'
  BY <1>1, <1>2 DEF IInv, BeforeOK
<1>8. FileOK'
  <2>1. CASE auditFile' = auditFile
    BY <1>1, <2>1, FileKept
  <2>2. CASE auditFile' = Append(auditFile, e) /\ missing' = missing
    <3> SUFFICES ASSUME NEW i \in DOMAIN auditFile',
                        NEW c \in before[auditFile'[i]] \ missing
                 PROVE  \E j \in 1 .. i - 1 : auditFile'[j] = c
      BY <1>1, <2>2 DEF FileOK
    <3>1. CASE i \in DOMAIN auditFile
      <4>1. auditFile'[i] = auditFile[i]
        BY <2>2, <3>1, Facts, AppendFacts
      <4>2. PICK j \in 1 .. i - 1 : auditFile[j] = c
        BY <3>1, <4>1 DEF IInv, FileOK
      <4>3. j \in DOMAIN auditFile
        BY <3>1, Facts
      <4>4. auditFile'[j] = c
        BY <2>2, <4>2, <4>3, Facts, AppendFacts
      <4>. QED  BY <4>4
    <3>2. CASE i = Len(auditFile) + 1 /\ auditFile'[i] = e
      <4>1. c \in In(auditFile)
        BY <3>2, Facts DEF IInv, KnownOK
      <4>2. PICK j \in DOMAIN auditFile : auditFile[j] = c
        BY <4>1 DEF In
      <4>3. j \in 1 .. i - 1
        BY <3>2, Facts
      <4>4. auditFile'[j] = c
        BY <2>2, <4>2, Facts, AppendFacts
      <4>. QED  BY <4>3, <4>4
    <3>. QED  BY <2>2, <3>1, <3>2, Facts, AppendFacts
  <2>. QED  BY <1>3, <2>1, <2>2
<1>9. \A s \in Streams : (OnItsWay(s) /\ SentOK(s) /\ ChannelOK(s))'
  BY <1>1, <1>2, StreamKept DEF Excused
<1>. QED  BY <1>5, <1>6, <1>7, <1>8, <1>9 DEF IInv

\* A subscriber has the event in its channel or does without it.
LEMMA OfferedTo ==
    ASSUME IInv, NEW e \in Events, Offer(e), NEW s \in Streams
    PROVE  /\ \/ ch'[s] = Append(ch[s], e) /\ Len(ch[s]) < Cap /\ left'[s] = left[s]
              \/ ch'[s] = ch[s] /\ left'[s] = left[s] \cup {e}
              \/ /\ ch'[s] = ch[s] /\ left'[s] = left[s]
                 /\ pc[s] \notin {"sending", "live"}
           /\ pc'[s] = pc[s] /\ sent'[s] = sent[s]
BY DEF Offer, Offered, Listening, HasRoom

LEMMA OfferKeeps ==
    ASSUME IInv, NEW e \in Events, Offer(e)
    PROVE  IInv'
<1>1. /\ UNCHANGED <<auditFile, pc, sent, run, exit, missing, before>>
      /\ handler' \in [Events -> HandlerSteps]
      /\ e \in Known
  BY DEF Offer, Known, IInv, TypeOK, HandlerSteps
<1>2. Known' = Known /\ Recorded' = Recorded \cup {e}
  BY DEF Offer, Known, Recorded, IInv, TypeOK
<1>3. /\ ch' \in [Streams -> Seq(Events)] /\ left' \in [Streams -> SUBSET Events]
      /\ \A s \in Streams : Len(ch'[s]) <= Cap
  <2>1. \A s \in Streams :
           /\ ch'[s] \in Seq(Events) /\ left'[s] \in SUBSET Events
           /\ Len(ch'[s]) <= Cap
    <3> SUFFICES ASSUME NEW s \in Streams
                 PROVE  /\ ch'[s] \in Seq(Events) /\ left'[s] \in SUBSET Events
                        /\ Len(ch'[s]) <= Cap
      OBVIOUS
    <3>1. /\ ch[s] \in Seq(Events) /\ left[s] \in SUBSET Events
          /\ Len(ch[s]) <= Cap /\ Len(ch[s]) \in Nat /\ Cap \in Nat
      BY StreamAssumption DEF IInv, TypeOK
    <3>2. CASE ch'[s] = ch[s]
      BY <3>1, <3>2, OfferedTo
    <3>3. CASE ch'[s] = Append(ch[s], e) /\ Len(ch[s]) < Cap /\ left'[s] = left[s]
      <4>1. ch'[s] \in Seq(Events) /\ Len(ch'[s]) = Len(ch[s]) + 1
        BY <3>1, <3>3, AppendFacts
      <4>. QED  BY <3>1, <3>3, <4>1
    <3>. QED  BY <3>2, <3>3, OfferedTo
  <2>2. /\ ch' = [s \in Streams |-> ch'[s]]
        /\ left' = [s \in Streams |-> left'[s]]
    BY DEF Offer, Offered
  <2>. QED  BY <2>1, <2>2
<1>4. TypeOK'
  BY <1>1, <1>3 DEF IInv, TypeOK
<1>5. KnownOK'
  <2>1. ASSUME NEW s \in Streams
        PROVE  In(ch'[s]) \subseteq Known
    <3>1. In(ch[s]) \subseteq Known /\ ch[s] \in Seq(Events)
      BY Facts DEF IInv, KnownOK
    <3>2. In(Append(ch[s], e)) = In(ch[s]) \cup {e}
      BY <3>1, AppendFacts
    <3>3. ch'[s] = ch[s] \/ ch'[s] = Append(ch[s], e)
      BY OfferedTo
    <3>4. CASE ch'[s] = ch[s]
      BY <3>1, <3>4
    <3>5. CASE ch'[s] = Append(ch[s], e)
      BY <1>1, <3>1, <3>2, <3>5
    <3>. QED  BY <3>3, <3>4, <3>5
  <2>2. \A s \in Streams : In(ch[s])' = In(ch'[s]) /\ In(sent[s])' = In(sent[s])
    BY <1>1 DEF In
  <2>3. In(auditFile)' = In(auditFile)
    BY <1>1 DEF In
  <2>. QED  BY <1>1, <1>2, <2>1, <2>2, <2>3 DEF IInv, KnownOK
<1>6. BeforeOK' /\ FileOK'
  BY <1>1, <1>2, FileKept DEF IInv, BeforeOK
<1>7. ASSUME NEW s \in Streams
      PROVE  (OnItsWay(s) /\ SentOK(s) /\ ChannelOK(s))'
  <2>1. OnItsWay(s) /\ SentOK(s) /\ ChannelOK(s) /\ ch[s] \in Seq(Events)
    BY Facts DEF IInv
  <2>2. pc'[s] = pc[s] /\ sent'[s] = sent[s] /\ Excused(s) \subseteq Excused(s)'
    BY <1>1, OfferedTo DEF Excused
  <2>3. SentOK(s)'
    BY <1>1, <2>1, <2>2 DEF SentOK
  <2>4. CASE ch'[s] = Append(ch[s], e)
    <3>1. In(ch'[s]) = In(ch[s]) \cup {e}
      BY <2>1, <2>4, AppendFacts
    <3>2. OnItsWay(s)'
      <4>1. In(ch[s])' = In(ch'[s]) /\ In(sent[s])' = In(sent[s])
        BY <2>2 DEF In
      <4>. QED  BY <1>2, <2>1, <2>2, <3>1, <4>1 DEF OnItsWay
    <3>3. ChannelOK(s)'
      <4> SUFFICES ASSUME pc[s] \in {"sending", "live"},
                          NEW i \in DOMAIN ch'[s],
                          NEW c \in before[ch'[s][i]] \ Excused(s)'
                   PROVE  c \in In(sent[s]) \/ \E j \in 1 .. i - 1 : ch'[s][j] = c
        BY <1>1, <2>2 DEF ChannelOK, In
      <4>1. CASE i \in DOMAIN ch[s]
        <5>1. ch'[s][i] = ch[s][i]
          BY <2>1, <2>4, <4>1, AppendFacts
        <5>2. c \in In(sent[s]) \/ \E j \in 1 .. i - 1 : ch[s][j] = c
          BY <2>1, <2>2, <4>1, <5>1 DEF ChannelOK
        <5>3. \A j \in 1 .. i - 1 : j \in DOMAIN ch[s]
          BY <2>1, <4>1
        <5>. QED  BY <2>1, <2>4, <5>2, <5>3, AppendFacts
      <4>2. CASE i = Len(ch[s]) + 1 /\ ch'[s][i] = e
        <5>1. c \in Recorded /\ c \notin Excused(s)
          BY <2>2, <4>2, Facts
        <5>2. c \in In(sent[s]) \cup In(ch[s])
          BY <2>1, <5>1 DEF OnItsWay
        <5>3. ASSUME c \in In(ch[s])
              PROVE  \E j \in 1 .. i - 1 : ch'[s][j] = c
          <6>1. PICK j \in DOMAIN ch[s] : ch[s][j] = c
            BY <5>3 DEF In
          <6>2. j \in 1 .. i - 1 /\ ch'[s][j] = c
            BY <2>1, <2>4, <4>2, <6>1, AppendFacts
          <6>. QED  BY <6>2
        <5>. QED  BY <5>2, <5>3
      <4>. QED  BY <2>1, <2>4, <4>1, <4>2, AppendFacts
    <3>. QED  BY <2>3, <3>2, <3>3
  <2>5. CASE ch'[s] = ch[s]
    <3>1. OnItsWay(s)'
      <4>1. In(ch[s])' = In(ch[s]) /\ In(sent[s])' = In(sent[s])
        BY <2>2, <2>5 DEF In
      <4>2. CASE left'[s] = left[s] \cup {e}
        BY <1>1, <1>2, <2>1, <2>2, <4>1, <4>2 DEF OnItsWay, Excused
      <4>3. CASE ch'[s] = Append(ch[s], e)
        BY <2>1, <2>5, <4>3, AppendFacts
      <4>. QED  BY <2>2, <4>2, <4>3, OfferedTo DEF OnItsWay
    <3>2. ChannelOK(s)'
      BY <1>1, <2>1, <2>2, <2>5 DEF ChannelOK, In
    <3>. QED  BY <2>3, <3>1, <3>2
  <2>. QED  BY <2>4, <2>5, OfferedTo
<1>. QED  BY <1>4, <1>5, <1>6, <1>7 DEF IInv

-----------------------------------------------------------------------------
(* Streams.                                                                *)

\* The file is read: it has everything that was recorded, causes first, and
\* what waits in the channel by now follows everything in the file.
LEMMA ReadAuditKeeps ==
    ASSUME IInv, NEW s \in Streams, ReadAudit(s)
    PROVE  IInv'
<1>1. /\ UNCHANGED <<handler, auditFile, ch, run, exit, missing, before>>
      /\ pc' \in [Streams -> StreamSteps] /\ pc'[s] = "sending"
      /\ sent'[s] = LastEvents /\ left'[s] = left[s] \cup Older
      /\ \A q \in Streams \ {s} :
            pc'[q] = pc[q] /\ sent'[q] = sent[q] /\ left'[q] = left[q]
  BY DEF ReadAudit, IInv, TypeOK, StreamSteps
<1>2. PICK k \in 0 .. Len(auditFile) :
         /\ LastEvents = [i \in 1 .. Len(auditFile) - k |-> auditFile[k + i]]
         /\ Older = {auditFile[i] : i \in 1 .. k}
  BY Facts, WindowFacts
<1>3. Len(auditFile) \in Nat /\ k \in Nat /\ k <= Len(auditFile)
      /\ \A i \in 1 .. Len(auditFile) : auditFile[i] \in Events
  BY Facts
<1>4. /\ LastEvents \in Seq(Events) /\ DOMAIN LastEvents = 1 .. Len(auditFile) - k
      /\ Older \subseteq Events
      /\ In(auditFile) = In(LastEvents) \cup Older
  <2>1. LastEvents \in [1 .. Len(auditFile) - k -> Events]
    <3>1. \A i \in 1 .. Len(auditFile) - k : k + i \in 1 .. Len(auditFile)
      BY <1>3
    <3>. QED  BY <1>2, <1>3, <3>1
  <2>2. Len(auditFile) - k \in Nat
    BY <1>3
  <2>3. LastEvents \in Seq(Events)
    BY <2>1, <2>2
  <2>4. In(auditFile) \subseteq In(LastEvents) \cup Older
    <3>1. ASSUME NEW i \in DOMAIN auditFile
          PROVE  auditFile[i] \in In(LastEvents) \cup Older
      <4>1. i \in 1 .. Len(auditFile)
        BY Facts
      <4>2. CASE i <= k
        BY <1>2, <1>3, <4>1, <4>2
      <4>3. CASE i > k
        <5>1. i - k \in 1 .. Len(auditFile) - k /\ k + (i - k) = i
          BY <1>3, <4>1, <4>3
        <5>2. LastEvents[i - k] = auditFile[i]
          BY <1>2, <5>1
        <5>3. i - k \in DOMAIN LastEvents
          BY <2>1, <5>1
        <5>. QED  BY <5>2, <5>3 DEF In
      <4>. QED  BY <1>3, <4>1, <4>2, <4>3
    <3>. QED  BY <3>1 DEF In
  <2>5. In(LastEvents) \cup Older \subseteq In(auditFile)
    <3>1. \A i \in 1 .. Len(auditFile) - k : k + i \in DOMAIN auditFile
      BY <1>3, Facts
    <3>2. \A i \in 1 .. k : i \in DOMAIN auditFile
      BY <1>3, Facts
    <3>. QED  BY <1>2, <2>1, <3>1, <3>2 DEF In
  <2>6. Older \subseteq Events
    BY <2>5, Facts, InFacts
  <2>. QED  BY <2>1, <2>3, <2>4, <2>5, <2>6
<1>5. sent' \in [Streams -> Seq(Events)] /\ left' \in [Streams -> SUBSET Events]
  BY <1>4 DEF ReadAudit, IInv, TypeOK
<1>6. TypeOK'
  BY <1>1, <1>5 DEF IInv, TypeOK
<1>7. KnownOK' /\ BeforeOK' /\ FileOK'
  <2>1. \A q \in Streams : In(ch'[q]) \cup In(sent'[q]) \subseteq Known
    BY <1>1, <1>4 DEF IInv, KnownOK
  <2>. QED  BY <1>1, <2>1, RecordsKept
<1>8. Recorded' = Recorded
  BY <1>1 DEF Recorded
<1>9. \A q \in Streams \ {s} : (OnItsWay(q) /\ SentOK(q) /\ ChannelOK(q))'
  BY <1>1, <1>8, StreamKept DEF Excused
<1>10. Recorded \subseteq In(sent'[s]) \cup Excused(s)'
  BY <1>1, <1>4, Facts DEF IInv, KnownOK, Excused
<1>11. In(sent[s])' = In(sent'[s])
  BY DEF In
<1>12. OnItsWay(s)'
  BY <1>8, <1>10, <1>11 DEF OnItsWay
<1>13. SentOK(s)'
  <2> SUFFICES ASSUME NEW i \in DOMAIN LastEvents,
                      NEW c \in before[LastEvents[i]] \ Excused(s)'
               PROVE  \E j \in 1 .. i - 1 : LastEvents[j] = c
    BY <1>1 DEF SentOK
  <2>1. i \in 1 .. Len(auditFile) - k /\ LastEvents[i] = auditFile[k + i]
    BY <1>2, <1>4
  <2>2. k + i \in DOMAIN auditFile /\ c \notin missing /\ c \notin Older
    BY <1>1, <1>3, <2>1, Facts DEF Excused
  <2>3. PICK j \in 1 .. k + i - 1 : auditFile[j] = c
    BY <2>1, <2>2 DEF IInv, FileOK
  <2>4. j > k
    BY <1>2, <1>3, <2>1, <2>2, <2>3
  <2>5. j - k \in 1 .. i - 1 /\ j - k \in 1 .. Len(auditFile) - k
        /\ k + (j - k) = j
    BY <1>3, <2>1, <2>3, <2>4
  <2>6. LastEvents[j - k] = c
    BY <1>2, <2>3, <2>5
  <2>. QED  BY <2>5, <2>6
<1>14. ChannelOK(s)'
  <2> SUFFICES ASSUME NEW i \in DOMAIN ch[s],
                      NEW c \in before[ch[s][i]] \ Excused(s)'
               PROVE  c \in In(sent'[s])
    BY <1>1, <1>11 DEF ChannelOK
  <2>1. ch[s][i] \in Events
    BY Facts, InFacts
  <2>2. c \in Recorded
    BY <2>1, Facts
  <2>. QED  BY <1>10, <2>2
<1>. QED  BY <1>6, <1>7, <1>9, <1>12, <1>13, <1>14 DEF IInv

LEMMA SendNextKeeps ==
    ASSUME IInv, NEW s \in Streams, SendNext(s)
    PROVE  IInv'
<1> DEFINE e == Head(ch[s])
<1>1. /\ UNCHANGED <<handler, auditFile, pc, run, exit, left, missing, before>>
      /\ ch[s] # <<>> /\ ch[s] \in Seq(Events) /\ sent[s] \in Seq(Events)
      /\ ch'[s] = Tail(ch[s]) /\ sent'[s] = Append(sent[s], e)
      /\ \A q \in Streams \ {s} : ch'[q] = ch[q] /\ sent'[q] = sent[q]
      /\ pc[s] \in {"sending", "live"}
  BY DEF SendNext, Takes, IInv, TypeOK
<1>2. /\ e \in Events /\ e = ch[s][1] /\ 1 \in DOMAIN ch[s]
      /\ In(ch[s]) = {e} \cup In(ch'[s])
      /\ In(sent'[s]) = In(sent[s]) \cup {e}
      /\ ch'[s] \in Seq(Events) /\ Len(ch'[s]) = Len(ch[s]) - 1
      /\ sent'[s] \in Seq(Events)
  BY <1>1, TailFacts, AppendFacts
<1>3. TypeOK'
  <2>1. ch' \in [Streams -> Seq(Events)] /\ sent' \in [Streams -> Seq(Events)]
    BY <1>1, <1>2 DEF SendNext, IInv, TypeOK
  <2>2. \A q \in Streams : Len(ch'[q]) <= Cap
    <3>1. Len(ch[s]) \in Nat /\ Len(ch[s]) <= Cap /\ Cap \in Nat
      BY <1>1, StreamAssumption DEF IInv, TypeOK
    <3>2. Len(ch'[s]) <= Cap
      BY <1>2, <3>1
    <3>3. \A q \in Streams : Len(ch[q]) <= Cap
      BY DEF IInv, TypeOK
    <3>. QED  BY <1>1, <3>2, <3>3
  <2>. QED  BY <1>1, <2>1, <2>2 DEF IInv, TypeOK
<1> HIDE DEF e
<1>4. KnownOK' /\ BeforeOK' /\ FileOK'
  <2>1. \A q \in Streams : In(ch'[q]) \cup In(sent'[q]) \subseteq Known
    BY <1>1, <1>2 DEF IInv, KnownOK
  <2>. QED  BY <1>1, <2>1, RecordsKept
<1>5. Recorded' = Recorded /\ \A q \in Streams : Excused(q)' = Excused(q)
  BY <1>1 DEF Recorded, Excused
<1>6. \A q \in Streams \ {s} : (OnItsWay(q) /\ SentOK(q) /\ ChannelOK(q))'
  BY <1>1, <1>5, StreamKept
<1>7. In(sent[s])' = In(sent'[s]) /\ In(ch[s])' = In(ch'[s])
  BY DEF In
<1>8. OnItsWay(s) /\ SentOK(s) /\ ChannelOK(s)
  BY DEF IInv
<1>9. OnItsWay(s)'
  BY <1>1, <1>2, <1>5, <1>7, <1>8 DEF OnItsWay
<1>10. SentOK(s)'
  <2> SUFFICES ASSUME NEW i \in DOMAIN sent'[s],
                      NEW c \in before[sent'[s][i]] \ Excused(s)
               PROVE  \E j \in 1 .. i - 1 : sent'[s][j] = c
    BY <1>1, <1>5 DEF SentOK
  <2>1. CASE i \in DOMAIN sent[s]
    <3>1. sent'[s][i] = sent[s][i]
      BY <1>1, <1>2, <2>1, AppendFacts
    <3>2. PICK j \in 1 .. i - 1 : sent[s][j] = c
      BY <1>8, <2>1, <3>1 DEF SentOK
    <3>3. j \in DOMAIN sent[s]
      BY <1>1, <2>1
    <3>. QED  BY <1>1, <1>2, <3>2, <3>3, AppendFacts
  <2>2. CASE i = Len(sent[s]) + 1 /\ sent'[s][i] = e
    <3>1. c \in In(sent[s])
      BY <1>1, <1>2, <1>8, <2>2 DEF ChannelOK
    <3>2. PICK j \in DOMAIN sent[s] : sent[s][j] = c
      BY <3>1 DEF In
    <3>3. j \in 1 .. i - 1
      BY <1>1, <2>2
    <3>. QED  BY <1>1, <1>2, <3>2, <3>3, AppendFacts
  <2>. QED  BY <1>1, <1>2, <2>1, <2>2, AppendFacts
<1>11. ChannelOK(s)'
  <2> SUFFICES ASSUME NEW i \in DOMAIN ch'[s],
                      NEW c \in before[ch'[s][i]] \ Excused(s)
               PROVE  c \in In(sent'[s]) \/ \E j \in 1 .. i - 1 : ch'[s][j] = c
    BY <1>1, <1>5, <1>7 DEF ChannelOK
  <2>1. i + 1 \in DOMAIN ch[s] /\ ch'[s][i] = ch[s][i + 1] /\ i \in Nat
    BY <1>1, TailFacts
  <2>2. c \in In(sent[s]) \/ \E j \in 1 .. i + 1 - 1 : ch[s][j] = c
    BY <1>1, <1>8, <2>1 DEF ChannelOK
  <2>3. ASSUME NEW j \in 1 .. i, ch[s][j] = c, j # 1
        PROVE  j - 1 \in 1 .. i - 1 /\ ch'[s][j - 1] = c
    <3>1. j \in DOMAIN ch[s] /\ j - 1 \in 1 .. i - 1
      BY <1>1, <2>1, <2>3
    <3>. QED  BY <1>1, <2>3, <3>1, TailFacts
  <2>. QED  BY <1>2, <2>1, <2>2, <2>3
<1>. QED  BY <1>3, <1>4, <1>6, <1>9, <1>10, <1>11 DEF IInv

LEMMA CloseKeeps ==
    ASSUME IInv, NEW s \in Streams, Close(s)
    PROVE  IInv'
<1>1. /\ UNCHANGED <<handler, auditFile, sent, run, exit, left, missing, before>>
      /\ pc' \in [Streams -> StreamSteps] /\ pc'[s] = "closed"
      /\ ch' \in [Streams -> Seq(Events)] /\ ch'[s] = <<>>
      /\ \A q \in Streams \ {s} : pc'[q] = pc[q] /\ ch'[q] = ch[q]
  BY DEF Close, IInv, TypeOK, StreamSteps
<1>2. TypeOK'
  <2>1. Len(ch'[s]) <= Cap
    <3>1. Len(ch'[s]) = 0
      BY <1>1
    <3>. QED  BY <3>1, StreamAssumption
  <2>2. \A q \in Streams : Len(ch'[q]) <= Cap
    BY <1>1, <2>1 DEF IInv, TypeOK
  <2>. QED  BY <1>1, <2>2 DEF IInv, TypeOK
<1>3. KnownOK' /\ BeforeOK' /\ FileOK'
  <2>1. \A q \in Streams : In(ch'[q]) \cup In(sent'[q]) \subseteq Known
    BY <1>1 DEF IInv, KnownOK, In
  <2>. QED  BY <1>1, <2>1, RecordsKept
<1>4. Recorded' = Recorded
  BY <1>1 DEF Recorded
<1>5. \A q \in Streams \ {s} : (OnItsWay(q) /\ SentOK(q) /\ ChannelOK(q))'
  BY <1>1, <1>4, StreamKept DEF Excused
<1>6. (OnItsWay(s) /\ SentOK(s) /\ ChannelOK(s))'
  BY <1>1 DEF IInv, OnItsWay, SentOK, ChannelOK, Excused
<1>. QED  BY <1>2, <1>3, <1>5, <1>6 DEF IInv

-----------------------------------------------------------------------------

LEMMA InitIInv == Init => IInv
<1> SUFFICES ASSUME Init
             PROVE  IInv
  OBVIOUS
<1>1. TypeOK
  BY StreamAssumption DEF Init, TypeOK, HandlerSteps, StreamSteps
<1>2. KnownOK /\ BeforeOK /\ FileOK
  BY DEF Init, KnownOK, BeforeOK, FileOK, Known, Recorded, In
<1>3. \A s \in Streams : OnItsWay(s) /\ SentOK(s) /\ ChannelOK(s)
  BY DEF Init, OnItsWay, SentOK, ChannelOK
<1>. QED  BY <1>1, <1>2, <1>3 DEF IInv

LEMMA NextIInv == IInv /\ [Next]_vars => IInv'
<1> SUFFICES ASSUME IInv, [Next]_vars
             PROVE  IInv'
  OBVIOUS
<1>1. ASSUME NEW e \in Events, Accept(e) \/ Refuse(e) \/ Write(e) \/ Offer(e)
      PROVE  IInv'
  BY <1>1, AcceptKeeps, RefuseKeeps, WriteKeeps, OfferKeeps
<1>2. ASSUME NEW s \in Streams, ReadAudit(s) \/ SendNext(s) \/ Close(s)
      PROVE  IInv'
  BY <1>2, ReadAuditKeeps, SendNextKeeps, CloseKeeps
<1>3. ASSUME NEW s \in Streams, Connect(s) \/ Subscribe(s) \/ BacklogSent(s)
      PROVE  IInv'
  <2>1. /\ pc' \in [Streams -> StreamSteps]
        /\ \A q \in Streams :
              pc'[q] \in {"sending", "live"} => pc[q] \in {"sending", "live"}
    BY <1>3 DEF Connect, Subscribe, BacklogSent, IInv, TypeOK, StreamSteps
  <2>2. /\ UNCHANGED <<handler, auditFile, ch, sent, left, missing, before>>
        /\ run' \in {"serving", "stopping", "stopped"}
        /\ exit' \in {"none", "clean", "error"}
    BY <1>3 DEF Connect, Subscribe, BacklogSent, IInv, TypeOK
  <2>. QED  BY <2>1, <2>2, PlacesKept
<1>4. CASE Signal \/ ListenerFails \/ ShutdownDone \/ ShutdownTimesOut
           \/ Stopped \/ UNCHANGED vars
  <2>1. /\ UNCHANGED <<handler, auditFile, pc, ch, sent, left, missing, before>>
        /\ run' \in {"serving", "stopping", "stopped"}
        /\ exit' \in {"none", "clean", "error"}
    BY <1>4 DEF Signal, ListenerFails, ShutdownDone, ShutdownTimesOut, Stopped,
                Ends, vars, stream, IInv, TypeOK
  <2>. QED  BY <2>1, PlacesKept DEF IInv, TypeOK
<1>. QED  BY <1>1, <1>2, <1>3, <1>4 DEF Next

\* The inductive invariant.
THEOREM Invariance == Spec => []IInv
BY InitIInv, NextIInv, PTL DEF Spec

\* Every variable keeps its type, and no channel takes more than its capacity.
THEOREM TypeInvariance == Spec => []TypeOK
<1>1. IInv => TypeOK
  BY DEF IInv
<1>. QED  BY <1>1, Invariance, PTL

\* Between the file and the channel no event falls through, whenever a stream
\* began and however many there are.
THEOREM NothingMissed == Spec => []NeverMissed
<1>1. IInv => NeverMissed
  BY DEF IInv, OnItsWay, NeverMissed, ListeningLive, Excused
<1>. QED  BY <1>1, Invariance, PTL

\* No event is shown before one that it followed.
THEOREM CausesFirst == Spec => []CauseFirst
<1>1. IInv => CauseFirst
  BY DEF IInv, SentOK, CauseFirst, Excused
<1>. QED  BY <1>1, Invariance, PTL

-----------------------------------------------------------------------------
(* The game log.                                                           *)

\* What is read on later calls only is read from the offset.
PlaceOK ==
    /\ first => offset = 0
    /\ at = "scan" => offset <= start /\ offset <= size
    /\ at = "scan" /\ ~first => start = offset

\* A file that was not replaced has not shrunk.
LengthOK ==
    ~replaced => /\ at = "wait" => offset <= Len(file)
                 /\ at \in {"scan", "finish"} => size <= Len(file)

\* A piece may have been sent twice only if the next call does not read it.
CopiesOK ==
    \A p \in Positions :
        /\ copies[p] > 0 => p <= Len(file)
        /\ copies[p] <= 2
        /\ at = "wait" /\ (p > offset \/ replaced) => copies[p] <= 1
        /\ at = "scan" /\ p > offset => copies[p] <= 1
        /\ at = "scan" /\ (p > size \/ replaced) => copies[p] = 0
        /\ at = "finish" /\ (p > size \/ replaced) => copies[p] <= 1

\* What lies before the offset to come was sent.
OwedOK ==
    ~replaced =>
        /\ at \in {"wait", "scan"} =>
              \A p \in (1 .. offset) \ excused : copies[p] >= 1
        /\ at = "finish" =>
              \A p \in (1 .. size) \ excused : copies[p] >= 1

LogIInv == LogTypeOK /\ PlaceOK /\ LengthOK /\ CopiesOK /\ OwedOK

LEMMA FileFacts ==
    ASSUME LogTypeOK
    PROVE  Len(file) \in Nat /\ Len(file) <= MaxLength /\ MaxLength \in Nat
BY LengthAssumption DEF LogTypeOK, Lengths

LEMMA LogInitIInv == LogInit => LogIInv
<1> SUFFICES ASSUME LogInit PROVE LogIInv
  OBVIOUS
<1> USE LengthAssumption DEF LogInit, Lengths
<1>1. PICK n \in Lengths : file \in [1 .. n -> {"text", "end"}]
  BY DEF LogInit
<1>2. file \in Seq({"text", "end"}) /\ Len(file) = n
  BY <1>1
<1>3. copies \in [Positions -> Nat] /\ \A p \in Positions : copies[p] = 0
  BY DEF NoCopies
<1>4. {offset, size, start} \subseteq Lengths /\ Len(file) \in Lengths
  BY <1>2
<1>5. LogTypeOK
  BY <1>2, <1>3, <1>4 DEF LogTypeOK
<1>. QED  BY <1>3, <1>5 DEF LogIInv, PlaceOK, LengthOK, CopiesOK, OwedOK

LEMMA AttachIInv == LogIInv /\ Attach => LogIInv'
<1> SUFFICES ASSUME LogIInv, Attach PROVE LogIInv'
  OBVIOUS
<1>1. copies' \in [Positions -> Nat] /\ \A p \in Positions : copies'[p] = 0
  BY DEF Attach, NoCopies
<1>2. LogTypeOK'
  <2>1. {offset', size', start'} \subseteq Lengths
    BY LengthAssumption DEF LogIInv, LogTypeOK, Attach, Lengths
  <2>. QED  BY <1>1, <2>1 DEF LogIInv, LogTypeOK, Attach
<1>3. PlaceOK' /\ LengthOK' /\ OwedOK'
  BY FileFacts DEF LogIInv, Attach, PlaceOK, LengthOK, OwedOK
<1>4. CopiesOK'
  BY <1>1, FileFacts DEF LogIInv, Attach, CopiesOK
<1>. QED  BY <1>2, <1>3, <1>4 DEF LogIInv

\* The size is taken: the offset is within it, and nothing behind it was sent.
LEMMA StatIInv == LogIInv /\ Stat => LogIInv'
<1> SUFFICES ASSUME LogIInv, Stat PROVE LogIInv'
  OBVIOUS
<1> DEFINE n == Len(file)
<1>1. /\ n \in Nat /\ n <= MaxLength /\ MaxLength \in Nat /\ Backlog \in Nat
      /\ offset \in Nat /\ offset <= MaxLength
  BY FileFacts, LengthAssumption DEF LogIInv, LogTypeOK, Lengths
<1>2. /\ size' = n /\ at = "wait" /\ at' = "scan" /\ ~replaced'
      /\ UNCHANGED <<file, first, copies>>
      /\ offset' = IF n < offset THEN 0 ELSE offset
  BY DEF Stat, Continues, LogIInv, LogTypeOK
<1>3. n < offset => replaced
  BY <1>1, <1>2 DEF LogIInv, LengthOK
<1>4. /\ start' \in Nat /\ start' <= n /\ offset' <= start'
      /\ ~first => start' = offset'
  BY <1>1 DEF Stat, Continues, TailStart
<1>5. excused' \in SUBSET Positions
  BY <1>1 DEF Stat, LogIInv, LogTypeOK, Positions
<1>6. LogTypeOK'
  <2>1. {offset', size', start'} \subseteq Lengths
    BY <1>1, <1>2, <1>4 DEF Lengths
  <2>2. /\ file' \in Seq({"text", "end"}) /\ Len(file') \in Lengths
        /\ first' \in BOOLEAN /\ copies' \in [Positions -> Nat]
    BY <1>2 DEF LogIInv, LogTypeOK
  <2>3. at' \in {"off", "wait", "scan", "finish"} /\ replaced' \in BOOLEAN
    BY DEF Stat
  <2>. QED  BY <1>5, <2>1, <2>2, <2>3 DEF LogTypeOK
<1>7. PlaceOK' /\ LengthOK'
  BY <1>1, <1>2, <1>4 DEF LogIInv, PlaceOK, LengthOK
<1>8. CopiesOK'
  BY <1>1, <1>2, <1>3 DEF LogIInv, CopiesOK, Positions, LogTypeOK
<1>9. OwedOK'
  <2>1. CASE ~replaced
    <3>1. offset' = offset /\ excused' = excused
      BY <1>2, <1>3, <2>1 DEF Stat
    <3>. QED  BY <1>2, <2>1, <3>1 DEF LogIInv, OwedOK
  <2>2. CASE replaced
    <3>1. (1 .. offset') \ excused' = {}
      BY <1>1, <1>2, <2>2 DEF Stat
    <3>. QED  BY <1>2, <3>1 DEF OwedOK
  <2>. QED  BY <2>1, <2>2
<1>. QED  BY <1>6, <1>7, <1>8, <1>9 DEF LogIInv

\* The file is read to its end: each piece behind the start, up to it or past
\* the size that was taken, is sent once more.
LEMMA ScanIInv == LogIInv /\ Scan => LogIInv'
<1> SUFFICES ASSUME LogIInv, Scan PROVE LogIInv'
  OBVIOUS
<1>1. /\ Len(file) \in Nat /\ Len(file) <= MaxLength /\ MaxLength \in Nat
      /\ offset \in Nat /\ start \in Nat /\ size \in Nat
      /\ start <= MaxLength
  BY FileFacts DEF LogIInv, LogTypeOK, Lengths
<1>2. /\ at = "scan" /\ at' = "finish"
      /\ UNCHANGED <<file, first, offset, size, start, replaced>>
  BY DEF Scan
<1>3. LeftOut \subseteq start + 1 .. Len(file) /\ (~first => LeftOut = {})
  BY DEF LeftOut, Partial
<1>4. Read = (start + 1 .. Len(file)) \ LeftOut
  BY DEF Read
<1>5. \A p \in Positions :
         copies'[p] = IF p \in Read THEN copies[p] + 1 ELSE copies[p]
  BY DEF Scan
<1>6. copies' \in [Positions -> Nat]
  BY DEF Scan, LogIInv, LogTypeOK
<1>7. excused' \in SUBSET Positions
  BY <1>1, <1>3 DEF Scan, LogIInv, LogTypeOK, Positions
<1>8. LogTypeOK'
  BY <1>2, <1>6, <1>7 DEF LogIInv, LogTypeOK
<1>9. PlaceOK' /\ LengthOK'
  BY <1>2 DEF LogIInv, PlaceOK, LengthOK
<1>10. CopiesOK'
  <2> SUFFICES ASSUME NEW p \in Positions
               PROVE  /\ copies'[p] > 0 => p <= Len(file)
                      /\ copies'[p] <= 2
                      /\ p > size \/ replaced => copies'[p] <= 1
    BY <1>2 DEF CopiesOK
  <2>1. copies[p] \in Nat /\ p \in Nat
    BY DEF LogIInv, LogTypeOK, Positions
  <2>2. /\ copies[p] > 0 => p <= Len(file)
        /\ copies[p] <= 2
        /\ p > offset => copies[p] <= 1
        /\ p > size \/ replaced => copies[p] = 0
    BY <1>2 DEF LogIInv, CopiesOK
  <2>3. p \in Read => p > start /\ p <= Len(file)
    BY <1>1, <1>3, <1>4
  <2>4. offset <= start
    BY <1>2 DEF LogIInv, PlaceOK
  <2>. QED  BY <1>1, <1>5, <2>1, <2>2, <2>3, <2>4
<1>11. OwedOK'
  <2> SUFFICES ASSUME ~replaced, NEW p \in (1 .. size) \ excused'
               PROVE  copies'[p] >= 1
    BY <1>2 DEF OwedOK
  <2>1. size <= Len(file)
    BY <1>2 DEF LogIInv, LengthOK
  <2>2. p \in Positions /\ p \in Nat /\ p <= Len(file) /\ p >= 1
    BY <1>1, <2>1 DEF Positions
  <2>3. copies[p] \in Nat
    BY <2>2 DEF LogIInv, LogTypeOK
  <2>4. CASE p \in Read
    BY <1>5, <2>2, <2>3, <2>4
  <2>5. CASE p \notin Read
    <3>1. p <= start \/ p \in LeftOut
      BY <1>1, <1>4, <2>2, <2>5
    <3>2. ~first
      BY <3>1, <1>1, <2>2 DEF Scan
    <3>3. p \in (1 .. offset) \ excused
      BY <3>1, <3>2, <1>1, <1>2, <1>3, <2>2 DEF Scan, LogIInv, PlaceOK
    <3>4. copies[p] >= 1
      BY <1>2, <3>3 DEF LogIInv, OwedOK
    <3>. QED  BY <1>5, <2>2, <2>5, <3>4
  <2>. QED  BY <2>4, <2>5
<1>. QED  BY <1>8, <1>9, <1>10, <1>11 DEF LogIInv

LEMMA FinishIInv == LogIInv /\ Finish => LogIInv'
<1> SUFFICES ASSUME LogIInv, Finish PROVE LogIInv'
  OBVIOUS
<1>1. /\ at = "finish" /\ at' = "wait" /\ offset' = size /\ first' = FALSE
      /\ UNCHANGED <<file, size, start, excused, copies, replaced>>
  BY DEF Finish, Advance, history
<1>2. LogTypeOK'
  BY <1>1 DEF LogIInv, LogTypeOK
<1>3. PlaceOK' /\ LengthOK' /\ OwedOK'
  BY <1>1 DEF LogIInv, PlaceOK, LengthOK, OwedOK
<1>4. CopiesOK'
  BY <1>1 DEF LogIInv, CopiesOK
<1>. QED  BY <1>2, <1>3, <1>4 DEF LogIInv

\* A call that fails leaves the offset, and has sent nothing.
LEMMA FailIInv == LogIInv /\ Fail => LogIInv'
<1> SUFFICES ASSUME LogIInv, Fail PROVE LogIInv'
  OBVIOUS
<1>1. /\ at \in {"wait", "scan"} /\ at' = "wait" /\ first' = FALSE
      /\ UNCHANGED <<file, offset, size, start, excused, copies, replaced>>
  BY DEF Fail, history
<1>2. LogTypeOK'
  BY <1>1 DEF LogIInv, LogTypeOK
<1>3. PlaceOK' /\ OwedOK'
  BY <1>1 DEF LogIInv, PlaceOK, OwedOK
<1>4. LengthOK'
  BY <1>1, FileFacts DEF LogIInv, PlaceOK, LengthOK, LogTypeOK, Lengths
<1>5. CopiesOK'
  BY <1>1 DEF LogIInv, CopiesOK, LogTypeOK
<1>. QED  BY <1>2, <1>3, <1>4, <1>5 DEF LogIInv

\* The game server appends, or starts another file.
LEMMA ServerIInv ==
    ASSUME LogIInv, Replace \/ Written("text") \/ Written("end")
    PROVE  LogIInv'
<1>1. CASE Replace
  <2>1. /\ file' = <<>> /\ replaced'
        /\ UNCHANGED <<at, first, offset, size, start, excused>>
    BY <1>1 DEF Replace, reader
  <2>2. copies' \in [Positions -> Nat] /\ \A p \in Positions : copies'[p] = 0
    BY <1>1 DEF Replace, NoCopies
  <2>3. LogTypeOK'
    BY <2>1, <2>2, LengthAssumption, <1>1 DEF LogIInv, LogTypeOK, Lengths, Replace
  <2>4. PlaceOK' /\ LengthOK' /\ CopiesOK' /\ OwedOK'
    BY <2>1, <2>2 DEF LogIInv, PlaceOK, LengthOK, CopiesOK, OwedOK
  <2>. QED  BY <2>3, <2>4 DEF LogIInv
<1>2. ASSUME NEW piece \in {"text", "end"}, Written(piece)
      PROVE  LogIInv'
  <2>1. /\ file' = Append(file, piece) /\ Len(file) < MaxLength
        /\ UNCHANGED <<at, first, offset, size, start, excused, copies,
                       replaced>>
    BY <1>2 DEF Written, reader, history
  <2>2. file' \in Seq({"text", "end"}) /\ Len(file') = Len(file) + 1
    BY <2>1 DEF LogIInv, LogTypeOK
  <2>3. LogTypeOK'
    BY <2>1, <2>2, FileFacts DEF LogIInv, LogTypeOK, Lengths
  <2>4. PlaceOK' /\ OwedOK'
    BY <2>1 DEF LogIInv, PlaceOK, OwedOK
  <2>5. LengthOK'
    BY <2>1, <2>2, FileFacts DEF LogIInv, LengthOK, LogTypeOK, Lengths
  <2>6. CopiesOK'
    BY <2>1, <2>2, FileFacts DEF LogIInv, CopiesOK, LogTypeOK, Positions
  <2>. QED  BY <2>3, <2>4, <2>5, <2>6 DEF LogIInv
<1>. QED  BY <1>1, <1>2

LEMMA LogNextIInv == LogIInv /\ [LogNext]_logVars => LogIInv'
<1> SUFFICES ASSUME LogIInv, [LogNext]_logVars PROVE LogIInv'
  OBVIOUS
<1>1. CASE Detach
  <2>1. at' = "off"
        /\ UNCHANGED <<file, first, offset, size, start, excused, copies,
                       replaced>>
    BY <1>1 DEF Detach, history
  <2>. QED  BY <2>1 DEF LogIInv, LogTypeOK, PlaceOK, LengthOK, CopiesOK, OwedOK
<1>2. CASE UNCHANGED logVars
  BY <1>2 DEF logVars, LogIInv, LogTypeOK, PlaceOK, LengthOK, CopiesOK, OwedOK
<1>. QED  BY <1>1, <1>2, AttachIInv, StatIInv, ScanIInv, FinishIInv, FailIInv,
             ServerIInv DEF LogNext

\* The inductive invariant of GameLogTail.
THEOREM LogInvariance == LogSpec => []LogIInv
BY LogInitIInv, LogNextIInv, PTL DEF LogSpec

\* The types of reader and file, for logs of any length.
THEOREM LogTypeCorrect == LogSpec => []LogTypeOK
<1>1. LogIInv => LogTypeOK
  BY DEF LogIInv
<1>. QED  BY <1>1, LogInvariance, PTL

\* What lies before the offset was sent, but for the head of the initial tail
\* and of a file whose replacement was not noticed.
THEOREM SkipsNothing == LogSpec => []NothingSkipped
<1>1. LogIInv => NothingSkipped
  BY DEF LogIInv, OwedOK, NothingSkipped
<1>. QED  BY <1>1, LogInvariance, PTL

\* Nothing is sent a third time.
THEOREM SentTwiceAtMost == LogSpec => []AtMostTwice
<1>1. LogIInv => AtMostTwice
  BY DEF LogIInv, CopiesOK, AtMostTwice
<1>. QED  BY <1>1, LogInvariance, PTL
=============================================================================
