----------------------------- MODULE FeedProofs -----------------------------
(***************************************************************************)
(* No change is lost on its way from the tree to a client, and none is     *)
(* told twice or overtaken: Telemetry implements ChangeFeed.  And nothing  *)
(* on that way comes to a standstill, unless a channel is full.            *)
(***************************************************************************)
EXTENDS ServedProofs, SequenceTheorems

USE EventCtrlAssumption, TelemetryAssumption

\* None of the events mentions q.
Quiet(told, q) == \A i \in DOMAIN told : told[i][q] = Same

\* What the responses of a channel tell to s.
ToldIn(s, msgs) == [i \in 1 .. Len(msgs) |-> ToldTo(s, msgs[i])]

\* The front of the pipeline of s: the responses msgs, the one being sent m, and
\* what the client knows.  The last of them that says something of q says v.
Front(s, msgs, m, known, q, v) ==
    \/ LastMention(ToldIn(s, msgs), q, v)
    \/ /\ Quiet(ToldIn(s, msgs), q)
       /\ ToldTo(s, m)[q] = v \/ (ToldTo(s, m)[q] = Same /\ known[q] = v)

\* The end of it: the events queued and the one being assembled.
Queued(evs, e, q, v) == e[q] = v \/ (e[q] = Same /\ LastMention(evs, q, v))
NotQueued(evs, e, q) == e[q] = Same /\ Quiet(evs, q)

\* Nothing was told to s.
Untold(s, msgs, m, known) ==
    /\ \A i \in DOMAIN msgs : msgs[i].to # s
    /\ m.to # s
    /\ \A q \in Paths : known[q] = Absent

-----------------------------------------------------------------------------
(* Sequences of events. *)

LEMMA QuietAppend ==
    ASSUME NEW told \in Seq(Events), NEW e \in Events, NEW q, e[q] = Same, Quiet(told, q)
    PROVE  Quiet(Append(told, e), q)
BY DEF Quiet

LEMMA LastAppend ==
    ASSUME NEW told \in Seq(Events), NEW e \in Events, NEW q, NEW v,
           e[q] = v \/ (e[q] = Same /\ LastMention(told, q, v))
    PROVE  LastMention(Append(told, e), q, v)
<1> DEFINE a == Append(told, e)
<1>1. /\ Len(a) = Len(told) + 1 /\ a[Len(told) + 1] = e
      /\ \A i \in 1 .. Len(told) : a[i] = told[i]
      /\ DOMAIN a = 1 .. Len(told) + 1
      /\ Len(told) \in Nat /\ DOMAIN told = 1 .. Len(told)
  OBVIOUS
<1> HIDE DEF a
<1>2. CASE e[q] = v
  <2>1. Len(told) + 1 \in DOMAIN a /\ \A j \in (Len(told) + 1) + 1 .. Len(a) : a[j][q] = Same
    BY <1>1
  <2>2. LastMention(a, q, v)
    BY <1>1, <1>2, <2>1 DEF LastMention
  <2> QED BY <2>2 DEF a
<1>3. CASE e[q] = Same /\ LastMention(told, q, v)
  <2>1. PICK i \in DOMAIN told :
          told[i][q] = v /\ \A j \in i + 1 .. Len(told) : told[j][q] = Same
    BY <1>3 DEF LastMention
  <2>2. \A j \in i + 1 .. Len(a) : a[j][q] = Same
    <3> SUFFICES ASSUME NEW j \in i + 1 .. Len(a) PROVE a[j][q] = Same
      OBVIOUS
    <3>1. CASE j = Len(told) + 1
      BY <1>1, <1>3, <3>1
    <3>2. CASE j # Len(told) + 1
      <4>1. j \in i + 1 .. Len(told) /\ j \in 1 .. Len(told)
        BY <1>1, <2>1, <3>2
      <4> QED
        BY <1>1, <2>1, <4>1
    <3> QED
      BY <3>1, <3>2
  <2>3. LastMention(a, q, v)
    BY <1>1, <2>1, <2>2 DEF LastMention
  <2> QED BY <2>3 DEF a
<1> QED
  BY <1>2, <1>3

LEMMA QuietTail ==
    ASSUME NEW told \in Seq(Events), told # <<>>, NEW q, Quiet(told, q)
    PROVE  Head(told)[q] = Same /\ Quiet(Tail(told), q)
BY DEF Quiet

LEMMA LastTail ==
    ASSUME NEW told \in Seq(Events), told # <<>>, NEW q, NEW v, LastMention(told, q, v)
    PROVE  LastMention(Tail(told), q, v) \/ (Quiet(Tail(told), q) /\ Head(told)[q] = v)
<1> DEFINE t == Tail(told)
<1>1. /\ Len(t) = Len(told) - 1 /\ DOMAIN t = 1 .. Len(told) - 1
      /\ \A i \in 1 .. Len(told) - 1 : t[i] = told[i + 1]
      /\ Head(told) = told[1]
      /\ Len(told) \in Nat /\ Len(told) > 0 /\ DOMAIN told = 1 .. Len(told)
  OBVIOUS
<1> HIDE DEF t
<1>2. PICK i \in DOMAIN told :
        told[i][q] = v /\ \A j \in i + 1 .. Len(told) : told[j][q] = Same
  BY DEF LastMention
<1>3. CASE i = 1
  <2>1. Quiet(t, q)
    BY <1>1, <1>2, <1>3 DEF Quiet
  <2> QED BY <1>1, <1>2, <1>3, <2>1 DEF t
<1>4. CASE i # 1
  <2>1. i - 1 \in DOMAIN t /\ t[i - 1][q] = v
    BY <1>1, <1>2, <1>4
  <2>2. \A j \in (i - 1) + 1 .. Len(t) : t[j][q] = Same
    BY <1>1, <1>2, <1>4
  <2>3. LastMention(t, q, v)
    BY <2>1, <2>2 DEF LastMention
  <2> QED BY <2>3 DEF t
<1> QED
  BY <1>3, <1>4

\* Of two sequences the second has the last word.
LEMMA LastConcat ==
    ASSUME NEW A \in Seq(Events), NEW B \in Seq(Events), NEW q, NEW v,
           LastMention(B, q, v) \/ (Quiet(B, q) /\ LastMention(A, q, v))
    PROVE  LastMention(A \o B, q, v)
<1> DEFINE c == A \o B
<1>1. /\ Len(c) = Len(A) + Len(B) /\ DOMAIN c = 1 .. Len(A) + Len(B)
      /\ \A i \in 1 .. Len(A) : c[i] = A[i]
      /\ \A i \in 1 .. Len(B) : c[Len(A) + i] = B[i]
      /\ Len(A) \in Nat /\ Len(B) \in Nat /\ DOMAIN A = 1 .. Len(A) /\ DOMAIN B = 1 .. Len(B)
  OBVIOUS
<1>2. \A j \in Len(A) + 1 .. Len(c) : j - Len(A) \in 1 .. Len(B) /\ c[j] = B[j - Len(A)]
  BY <1>1
<1> HIDE DEF c
<1>3. CASE LastMention(B, q, v)
  <2>1. PICK i \in DOMAIN B : B[i][q] = v /\ \A j \in i + 1 .. Len(B) : B[j][q] = Same
    BY <1>3 DEF LastMention
  <2>2. Len(A) + i \in DOMAIN c /\ c[Len(A) + i][q] = v
    BY <1>1, <2>1
  <2>3. \A j \in (Len(A) + i) + 1 .. Len(c) : c[j][q] = Same
    <3> SUFFICES ASSUME NEW j \in (Len(A) + i) + 1 .. Len(c) PROVE c[j][q] = Same
      OBVIOUS
    <3>1. i \in Nat /\ j \in Int /\ Len(c) \in Int
      BY <1>1, <2>1
    <3>2. j \in Len(A) + 1 .. Len(c) /\ j - Len(A) \in i + 1 .. Len(B)
      BY <1>1, <3>1
    <3> QED
      BY <1>2, <2>1, <3>2
  <2>4. LastMention(c, q, v)
    BY <2>2, <2>3 DEF LastMention
  <2> QED BY <2>4 DEF c
<1>4. CASE Quiet(B, q) /\ LastMention(A, q, v)
  <2>1. PICK i \in DOMAIN A : A[i][q] = v /\ \A j \in i + 1 .. Len(A) : A[j][q] = Same
    BY <1>4 DEF LastMention
  <2>2. i \in DOMAIN c /\ c[i][q] = v
    BY <1>1, <2>1
  <2>3. \A j \in i + 1 .. Len(c) : c[j][q] = Same
    <3> SUFFICES ASSUME NEW j \in i + 1 .. Len(c) PROVE c[j][q] = Same
      OBVIOUS
    <3>1. CASE j <= Len(A)
      BY <1>1, <2>1, <3>1
    <3>2. CASE ~ (j <= Len(A))
      <4>1. j \in Len(A) + 1 .. Len(c)
        BY <1>1, <2>1, <3>2
      <4>2. j - Len(A) \in DOMAIN B /\ c[j] = B[j - Len(A)]
        BY <1>1, <1>2, <4>1
      <4> QED
        BY <1>4, <4>2 DEF Quiet
    <3> QED BY <3>1, <3>2
  <2>4. LastMention(c, q, v)
    BY <2>2, <2>3 DEF LastMention
  <2> QED BY <2>4 DEF c
<1> QED
  BY <1>3, <1>4

-----------------------------------------------------------------------------
(* The front of the pipeline. *)

LEMMA ToldType ==
    ASSUME NEW s, NEW m, m \in Messages \/ m = NoMessage
    PROVE  ToldTo(s, m) \in Events
BY NoEventType DEF ToldTo, Messages, NoMessage

LEMMA ToldInType ==
    ASSUME NEW s, NEW msgs \in Seq(Messages)
    PROVE  /\ ToldIn(s, msgs) \in Seq(Events)
           /\ Len(ToldIn(s, msgs)) = Len(msgs)
           /\ \A i \in 1 .. Len(msgs) : ToldIn(s, msgs)[i] = ToldTo(s, msgs[i])
<1>1. \A i \in 1 .. Len(msgs) : msgs[i] \in Messages
  OBVIOUS
<1>2. \A i \in 1 .. Len(msgs) : ToldTo(s, msgs[i]) \in Events
  BY <1>1, ToldType
<1>3. /\ DOMAIN ToldIn(s, msgs) = 1 .. Len(msgs)
      /\ \A i \in 1 .. Len(msgs) : ToldIn(s, msgs)[i] = ToldTo(s, msgs[i])
  BY DEF ToldIn
<1>4. ToldIn(s, msgs) \in Seq(Events)
  BY <1>2 DEF ToldIn
<1>5. Len(ToldIn(s, msgs)) = Len(msgs)
  <2>1. DOMAIN ToldIn(s, msgs) = 1 .. Len(ToldIn(s, msgs)) /\ Len(ToldIn(s, msgs)) \in Nat
    BY <1>4
  <2>2. Len(msgs) \in Nat
    OBVIOUS
  <2> QED
    BY <1>3, <2>1, <2>2
<1> QED
  BY <1>3, <1>4, <1>5

LEMMA ToldInAppend ==
    ASSUME NEW s, NEW msgs \in Seq(Messages), NEW m \in Messages
    PROVE  ToldIn(s, Append(msgs, m)) = Append(ToldIn(s, msgs), ToldTo(s, m))
<1>1. ToldIn(s, msgs) \in Seq(Events) /\ Len(ToldIn(s, msgs)) = Len(msgs)
  BY ToldInType
<1>2. Append(msgs, m) \in Seq(Messages) /\ Len(Append(msgs, m)) = Len(msgs) + 1
  OBVIOUS
<1>3. ToldIn(s, Append(msgs, m)) \in Seq(Events)
      /\ Len(ToldIn(s, Append(msgs, m))) = Len(msgs) + 1
  BY <1>2, ToldInType
<1>4. ToldTo(s, m) \in Events
  BY ToldType
<1>5. Append(ToldIn(s, msgs), ToldTo(s, m)) \in Seq(Events)
      /\ Len(Append(ToldIn(s, msgs), ToldTo(s, m))) = Len(msgs) + 1
  BY <1>1, <1>4
<1>6. ASSUME NEW i \in 1 .. Len(msgs) + 1
      PROVE  ToldIn(s, Append(msgs, m))[i] = Append(ToldIn(s, msgs), ToldTo(s, m))[i]
  <2>1. ToldIn(s, Append(msgs, m))[i] = ToldTo(s, Append(msgs, m)[i])
    BY <1>2, <1>6 DEF ToldIn
  <2>2. CASE i = Len(msgs) + 1
    <3>1. Append(msgs, m)[i] = m
      BY <2>2
    <3>2. Append(ToldIn(s, msgs), ToldTo(s, m))[i] = ToldTo(s, m)
      BY <1>1, <1>4, <2>2
    <3> QED BY <2>1, <3>1, <3>2
  <2>3. CASE i # Len(msgs) + 1
    <3>1. i \in 1 .. Len(msgs)
      BY <2>3
    <3>2. Append(msgs, m)[i] = msgs[i]
      BY <3>1
    <3>3. Append(ToldIn(s, msgs), ToldTo(s, m))[i] = ToldIn(s, msgs)[i]
      BY <1>1, <1>4, <3>1
    <3>4. ToldIn(s, msgs)[i] = ToldTo(s, msgs[i])
      BY <3>1 DEF ToldIn
    <3> QED BY <2>1, <3>2, <3>3, <3>4
  <2> QED BY <2>2, <2>3
<1> QED
  BY <1>3, <1>5, <1>6

LEMMA ToldInTail ==
    ASSUME NEW s, NEW msgs \in Seq(Messages), msgs # <<>>
    PROVE  /\ ToldIn(s, msgs) # <<>>
           /\ Head(ToldIn(s, msgs)) = ToldTo(s, Head(msgs))
           /\ Tail(ToldIn(s, msgs)) = ToldIn(s, Tail(msgs))
<1>1. Len(msgs) \in Nat /\ Len(msgs) > 0 /\ Head(msgs) = msgs[1]
  OBVIOUS
<1>2. Tail(msgs) \in Seq(Messages) /\ Len(Tail(msgs)) = Len(msgs) - 1
      /\ \A i \in 1 .. Len(msgs) - 1 : Tail(msgs)[i] = msgs[i + 1]
  OBVIOUS
<1>3. ToldIn(s, msgs) \in Seq(Events) /\ Len(ToldIn(s, msgs)) = Len(msgs)
      /\ \A i \in 1 .. Len(msgs) : ToldIn(s, msgs)[i] = ToldTo(s, msgs[i])
  BY ToldInType
<1>4. ToldIn(s, Tail(msgs)) \in Seq(Events) /\ Len(ToldIn(s, Tail(msgs))) = Len(msgs) - 1
      /\ \A i \in 1 .. Len(msgs) - 1 : ToldIn(s, Tail(msgs))[i] = ToldTo(s, Tail(msgs)[i])
  <2> DEFINE t == Tail(msgs)
  <2>1. t \in Seq(Messages) /\ Len(t) = Len(msgs) - 1
    BY <1>2
  <2> HIDE DEF t
  <2>2. /\ ToldIn(s, t) \in Seq(Events) /\ Len(ToldIn(s, t)) = Len(t)
        /\ \A i \in 1 .. Len(t) : ToldIn(s, t)[i] = ToldTo(s, t[i])
    BY <2>1, ToldInType
  <2> QED
    BY <2>1, <2>2 DEF t
<1>5. ToldIn(s, msgs) # <<>> /\ Head(ToldIn(s, msgs)) = ToldTo(s, Head(msgs))
  BY <1>1, <1>3
<1>6. Tail(ToldIn(s, msgs)) \in Seq(Events) /\ Len(Tail(ToldIn(s, msgs))) = Len(msgs) - 1
      /\ \A i \in 1 .. Len(msgs) - 1 : Tail(ToldIn(s, msgs))[i] = ToldIn(s, msgs)[i + 1]
  BY <1>1, <1>3, <1>5
<1>7. \A i \in 1 .. Len(msgs) - 1 : Tail(ToldIn(s, msgs))[i] = ToldIn(s, Tail(msgs))[i]
  <2> SUFFICES ASSUME NEW i \in 1 .. Len(msgs) - 1
               PROVE  Tail(ToldIn(s, msgs))[i] = ToldIn(s, Tail(msgs))[i]
    OBVIOUS
  <2>1. i + 1 \in 1 .. Len(msgs)
    BY <1>1
  <2>2. Tail(ToldIn(s, msgs))[i] = ToldTo(s, msgs[i + 1])
    BY <1>3, <1>6, <2>1
  <2> QED
    BY <1>2, <1>4, <2>2
<1>8. Tail(ToldIn(s, msgs)) = ToldIn(s, Tail(msgs))
  <2> DEFINE a == Tail(ToldIn(s, msgs))
             b == ToldIn(s, Tail(msgs))
  <2>1. /\ a \in Seq(Events) /\ b \in Seq(Events) /\ Len(a) = Len(b)
        /\ \A i \in 1 .. Len(a) : a[i] = b[i]
    BY <1>4, <1>6, <1>7
  <2> HIDE DEF a, b
  <2>2. a = b
    BY <2>1
  <2> QED
    BY <2>2 DEF a, b
<1> QED
  BY <1>5, <1>8

\* A response that agrees, or that says nothing of q, is added.
LEMMA FrontAppend ==
    ASSUME NEW s, NEW msgs \in Seq(Messages), NEW m, NEW known, NEW q, NEW v, NEW n \in Messages,
           \/ ToldTo(s, n)[q] = v
           \/ ToldTo(s, n)[q] = Same /\ Front(s, msgs, m, known, q, v)
    PROVE  Front(s, Append(msgs, n), m, known, q, v)
<1>1. ToldIn(s, Append(msgs, n)) = Append(ToldIn(s, msgs), ToldTo(s, n))
  BY ToldInAppend
<1>2. ToldIn(s, msgs) \in Seq(Events) /\ ToldTo(s, n) \in Events
  BY ToldInType, ToldType
<1>3. CASE ToldTo(s, n)[q] = v
  BY <1>1, <1>2, <1>3, LastAppend DEF Front
<1>4. CASE ToldTo(s, n)[q] = Same /\ Front(s, msgs, m, known, q, v)
  BY <1>1, <1>2, <1>4, LastAppend, QuietAppend DEF Front
<1> QED
  BY <1>3, <1>4

\* The responder takes a response.
LEMMA FrontTake ==
    ASSUME NEW s, NEW msgs \in Seq(Messages), msgs # <<>>, NEW known, NEW q \in Paths, NEW v,
           Front(s, msgs, NoMessage, known, q, v), s # Nobody
    PROVE  Front(s, Tail(msgs), Head(msgs), known, q, v)
<1>1. /\ ToldIn(s, msgs) \in Seq(Events) /\ ToldIn(s, msgs) # <<>>
      /\ Head(ToldIn(s, msgs)) = ToldTo(s, Head(msgs))
      /\ Tail(ToldIn(s, msgs)) = ToldIn(s, Tail(msgs))
  BY ToldInType, ToldInTail
<1>2. CASE LastMention(ToldIn(s, msgs), q, v)
  <2> DEFINE t == ToldIn(s, msgs)
  <2>1. t \in Seq(Events) /\ t # <<>> /\ LastMention(t, q, v)
    BY <1>1, <1>2
  <2> HIDE DEF t
  <2>2. LastMention(Tail(t), q, v) \/ (Quiet(Tail(t), q) /\ Head(t)[q] = v)
    BY <2>1, LastTail
  <2> QED
    BY <1>1, <2>2 DEF Front, t
<1>3. CASE Quiet(ToldIn(s, msgs), q)
           /\ (ToldTo(s, NoMessage)[q] = v \/ (ToldTo(s, NoMessage)[q] = Same /\ known[q] = v))
  <2>1. Quiet(ToldIn(s, Tail(msgs)), q) /\ ToldTo(s, Head(msgs))[q] = Same
    <3> DEFINE t == ToldIn(s, msgs)
    <3>1. t \in Seq(Events) /\ t # <<>> /\ Quiet(t, q)
      BY <1>1, <1>3
    <3> HIDE DEF t
    <3>2. Head(t)[q] = Same /\ Quiet(Tail(t), q)
      BY <3>1, QuietTail
    <3> QED
      BY <1>1, <3>2 DEF t
  <2>2. ToldTo(s, NoMessage)[q] = Same
    BY DEF ToldTo, NoMessage, NoEvent
  <2> QED BY <1>3, <2>1, <2>2 DEF Front
<1> QED
  BY <1>2, <1>3 DEF Front

\* The client has it.
LEMMA FrontSend ==
    ASSUME NEW s, NEW msgs, NEW m, NEW known, NEW q \in Paths, NEW v, v # Same,
           Front(s, msgs, m, known, q, v), s # Nobody
    PROVE  Front(s, msgs, NoMessage, IF m.to = s THEN Overlay(known, m.chg) ELSE known, q, v)
<1>1. ToldTo(s, NoMessage)[q] = Same
  BY DEF ToldTo, NoMessage, NoEvent
<1>2. m.to # s => ToldTo(s, m)[q] = Same
  BY DEF ToldTo, NoEvent
<1>3. m.to = s => ToldTo(s, m) = m.chg
                  /\ Overlay(known, m.chg)[q] = IF m.chg[q] = Same THEN known[q] ELSE m.chg[q]
  BY DEF ToldTo, Overlay
<1> QED
  BY <1>1, <1>2, <1>3 DEF Front

\* To a client that was told nothing every leaf is absent.
LEMMA FrontUntold ==
    ASSUME NEW s, NEW msgs \in Seq(Messages), NEW m, NEW known, NEW q \in Paths,
           Untold(s, msgs, m, known)
    PROVE  Front(s, msgs, m, known, q, Absent)
<1>1. \A i \in 1 .. Len(msgs) : ToldTo(s, msgs[i])[q] = Same
  BY DEF Untold, ToldTo, NoEvent
<1>2. Quiet(ToldIn(s, msgs), q)
  BY <1>1 DEF Quiet, ToldIn
<1>3. ToldTo(s, m)[q] = Same /\ known[q] = Absent
  BY DEF Untold, ToldTo, NoEvent
<1> QED
  BY <1>2, <1>3 DEF Front
-----------------------------------------------------------------------------
(* The inductive invariant. *)

\* A call that changes the tree has Lock, and then nobody has RLock.
LockOK ==
    /\ \A p \in Procs : wpc[p] \in {"event", "complete"} => wlock = p
    /\ wlock # Nobody => readers = {}

\* Outside SetEvent() a pending event has nothing but what a failed call left in
\* it, and before its registration a subscriber has no events.
QueueOK ==
    /\ ready \subseteq receivers
    /\ \A s \in Subs, q \in Paths :
         pending[s][q] # Same => q \in silent \/ (ec # Nobody /\ s \in ready)
    /\ \A s \in Subs : s \notin receivers /\ hpc[SessOf[s]] \notin Joint
         => runpc[s] = "none" /\ pending[s] = NoEvent /\ onchange[s] = <<>>

\* Goroutines at rest have nothing in hand, and responses stay in their session.
RouteOK ==
    /\ \A s \in Subs : runpc[s] \notin {"rlock", "send"} => runev[s] = NoEvent
    /\ \A x \in Sess :
         /\ rpc[x] # "send" => rmsg[x] = NoMessage
         /\ rmsg[x].to \in SubsOf(x) \cup {Nobody}
         /\ \A i \in DOMAIN respchan[x] : respchan[x][i].to \in SubsOf(x)

\* initTelemetryUpdate() works on a registered subscriber, and while it sends the
\* snapshot its RLock keeps the tree as it is.
InitAt(x) ==
    LET s == hcur[x]
    IN  /\ hpc[x] \in {"sync", "init"} => s \in receivers
        /\ hpc[x] = "init" =>
             /\ s \notin UpdatesOnly => x \in readers
             /\ \/ hout[x] = <<>> \/ hout[x] = <<SyncResponse(s)>>
                \/ s \notin UpdatesOnly
                   /\ hout[x] = <<Response(s, Snapshot(s)), SyncResponse(s)>>
InitOK == \A x \in Sess : InitAt(x)

\* initTelemetryUpdate() has sent the snapshot of s, or had none to send.
Shown(s) ==
    LET x == SessOf[s]
    IN  hpc[x] = "init" /\ hcur[x] = s /\ Len(hout[x]) < 2

\* Before run() starts the client was told nothing, or the tree as it is.
ToldAt(s) ==
    LET x == SessOf[s]
    IN  runpc[s] = "none" =>
          IF Shown(s)
          THEN \A q \in Watch[s] : Front(s, respchan[x], rmsg[x], view[s], q, root[q])
          ELSE Untold(s, respchan[x], rmsg[x], view[s])
ToldOK == \A s \in Subs \ UpdatesOnly : ToldAt(s)

\* NothingLost, part by part, for whoever is registered: before run() starts the
\* queue has the changes since the registration.
FeedAt(s, q) ==
    LET x == SessOf[s]
    IN  \/ Queued(onchange[s], pending[s], q, root[q])
        \/ /\ NotQueued(onchange[s], pending[s], q)
           /\ runpc[s] # "none" =>
                \/ runev[s][q] = root[q]
                \/ runev[s][q] = Same
                   /\ Front(s, respchan[x], rmsg[x], view[s], q, root[q])
FeedOK == \A s \in receivers \ UpdatesOnly : \A q \in Watch[s] \ silent : FeedAt(s, q)

FeedInv == LockOK /\ QueueOK /\ RouteOK /\ InitOK /\ ToldOK /\ FeedOK

-----------------------------------------------------------------------------
(* A call has Lock while it changes the tree. *)

LEMMA LockWriter ==
    ASSUME LockOK, TypeOK, NEW p \in Procs, WriterStep(p), readers' = readers
    PROVE  LockOK'
<1> USE DEF LockOK, TypeOK, EventCtrlTypeOK
<1>1. CASE Lock(p)
  <2>1. wlock = Nobody /\ wlock' = p /\ readers = {} /\ p # Nobody
        /\ \A r \in Procs : r # p => wpc'[r] = wpc[r]
    BY <1>1 DEF Lock
  <2>2. \A r \in Procs : wpc[r] \notin {"event", "complete"}
    BY <2>1
  <2> QED
    BY <2>1, <2>2
<1>2. CASE SetEvent(p) \/ SetEventFails(p) \/ EndEvents(p) \/ \E s \in Subs : EventComplete(p, s)
  <2>1. /\ wlock' = wlock /\ wpc[p] \in {"event", "complete"}
        /\ \A r \in Procs : wpc'[r] \in {"event", "complete"} => r = p \/ wpc'[r] = wpc[r]
    BY <1>2 DEF SetEvent, SetEventFails, EndEvents, EventComplete, lockVars, writerVars
  <2> QED
    BY <2>1
<1>3. CASE Unlock(p)
  <2>1. /\ wlock = p /\ wlock' = Nobody /\ wpc' = [wpc EXCEPT ![p] = "out"]
    BY <1>3 DEF Unlock
  <2>2. \A r \in Procs : r # p => wpc'[r] = wpc[r] /\ wpc[r] \notin {"event", "complete"}
    BY <2>1
  <2> QED
    BY <2>1, <2>2
<1> QED
  BY <1>1, <1>2, <1>3 DEF WriterStep

LEMMA LockFrame ==
    ASSUME LockOK, UNCHANGED <<wlock, wpc>>, readers' \subseteq readers
    PROVE  LockOK'
BY DEF LockOK

LEMMA LockBegin ==
    ASSUME LockOK, TypeOK, NEW p, NEW c, Begin(p, c)
    PROVE  LockOK'
BY DEF LockOK, TypeOK, EventCtrlTypeOK, Begin, lockVars

LEMMA LockRLock ==
    ASSUME LockOK, NEW r, RLock(r)
    PROVE  LockOK'
BY DEF LockOK, RLock, writerVars

-----------------------------------------------------------------------------
(* The events of SetEvent(). *)

\* A leaf that is not mentioned by an event keeps its value and its place in the
\* queues; one that is gets its new value in the pending event of whoever
\* watches it.
LEMMA RaiseSays ==
    ASSUME TypeOK, NEW c \in Events, NEW Q, Raise(Restriction(Effective(c), Q)),
           NEW s \in Subs, NEW q \in Paths
    PROVE  /\ s \notin receivers => pending'[s] = pending[s]
           /\ pending'[s] # pending[s] => s \in ready'
           /\ q \notin Mentioned(Effective(c)) => pending'[s][q] = pending[s][q]
           /\ s \in receivers /\ q \in Watch[s] \cap Mentioned(Effective(c)) \cap Q /\ pending[s][q] = Same
                => pending'[s][q] = c[q]
<1> USE DEF TypeOK, EventCtrlTypeOK
<1> DEFINE e == Restriction(Effective(c), Q)
           r == Restriction(e, Watch[s])
<1>1. e \in Events /\ r \in Events /\ pending[s] \in Events
  BY EffectiveType, RestrictionType
<1>2. \/ s \in receivers /\ r # NoEvent /\ s \in ready' /\ pending'[s] = Collect(pending[s], r)
      \/ ~ (s \in receivers /\ r # NoEvent) /\ pending'[s] = pending[s]
  BY DEF Raise
<1>3. q \notin Mentioned(Effective(c)) => r[q] = Same
  BY DEF Mentioned, Restriction
<1>4. q \in Watch[s] \cap Mentioned(Effective(c)) \cap Q => r[q] = c[q] /\ c[q] # Same
  BY DEF Mentioned, Effective, Restriction
<1>5. r[q] = Same => Collect(pending[s], r)[q] = pending[s][q]
  BY DEF Collect
<1>6. pending[s][q] = Same => Collect(pending[s], r)[q] = r[q]
  BY DEF Collect
<1>7. NoEvent[q] = Same
  BY DEF NoEvent
<1> HIDE DEF e, r
<1> QED
  BY <1>2, <1>3, <1>4, <1>5, <1>6, <1>7

\* SetEvent() raises the whole of the change.
LEMMA RaiseWhole ==
    ASSUME NEW c \in Events
    PROVE  Restriction(Effective(c), Paths) = Effective(c)
BY DEF Restriction, Effective, Events

\* What a change of the tree leaves alone, and what it does.
LEMMA OverlaySays ==
    ASSUME TypeOK, NEW c \in Events, NEW q \in Paths
    PROVE  /\ q \notin Mentioned(Effective(c)) => Overlay(root, c)[q] = root[q]
           /\ q \in Mentioned(Effective(c)) => Overlay(root, c)[q] = c[q]
BY DEF Overlay, Mentioned, Effective

-----------------------------------------------------------------------------
(* The steps of the system, one part of the invariant after the other. *)

\* LockOK: only Lock() and RLock() take the RWMutex.
LEMMA LockStep ==
    ASSUME IInv, FeedInv, [Next]_vars
    PROVE  LockOK'
<1> USE DEF IInv, FeedInv, lockVars, queueVars, writerVars, eventVars, treeVars, handlerVars, runVars,
            responderVars, telemetryVars
<1>1. ASSUME NEW p \in Procs, CallStep(p)
      PROVE  LockOK'
  BY <1>1, LockWriter DEF CallStep, WriterStep, Lock, SetEvent, SetEventFails,
     EventComplete, EndEvents, Unlock
<1>2. ASSUME NEW x \in Sess,
             StartSubSession(x) \/ RegisterSub(x) \/ InitSend(x)
             \/ StartRun(x) \/ InitFails(x) \/ Joined(x)
             \/ DeleteSubscription(x) \/ CloseResponses(x)
             \/ LeaveSubSession(x) \/ RespondTake(x) \/ RespondSend(x)
             \/ RespondShutdown(x)
      PROVE  LockOK'
  BY <1>2, LockFrame DEF StartSubSession, RegisterSub, InitSend, StartRun, InitFails,
     Joined, DeleteSubscription, CloseResponses, LeaveSubSession, RespondTake,
     RespondSend, RespondShutdown, Register, RUnlock
<1>3. ASSUME NEW x \in Sess, InitTelemetryUpdate(x)
      PROVE  LockOK'
  BY <1>3, LockFrame, LockRLock DEF InitTelemetryUpdate
<1>4. ASSUME NEW x \in Sess, DeleteDynamic(x)
      PROVE  LockOK'
  BY <1>4, LockBegin DEF DeleteDynamic
<1>5. ASSUME NEW x \in Sess, NEW S \in SUBSET Subs, ProcessSubscribe(x, S) \/ EndOfStream(x, S)
      PROVE  LockOK'
  BY <1>5, LockFrame DEF ProcessSubscribe, EndOfStream
<1>6. ASSUME NEW x \in Sess, NEW s \in Subs, AddDynamic(x, s)
      PROVE  LockOK'
  BY <1>6, LockBegin, LockFrame DEF AddDynamic, AddEntry, eventVars
<1>7. ASSUME NEW x \in Sess, NEW s \in Subs, UnregisterSub(x, s)
      PROVE  LockOK'
  BY <1>7, LockFrame DEF UnregisterSub, Unregister
<1>8. ASSUME NEW x \in Sess, NEW c \in SUBSET Events, SyncCallback(x, c)
      PROVE  LockOK'
  BY <1>8, LockBegin DEF SyncCallback
<1>9. ASSUME NEW s \in Subs,
             RunShutdown(s) \/ RunReceive(s) \/ RunSend(s) \/ RunFails(s)
      PROVE  LockOK'
  BY <1>9, LockFrame DEF RunShutdown, RunReceive, RunSend, RunFails, RUnlock
<1>10. ASSUME NEW s \in Subs, RunRLock(s)
       PROVE  LockOK'
  BY <1>10, LockRLock DEF RunRLock
<1>11. ASSUME NEW p \in Writers, NEW c \in SUBSET Events, Write(p, c)
       PROVE  LockOK'
  BY <1>11, LockBegin DEF Write
<1>12. ASSUME NEW m \in Events, SetRPC(m)
       PROVE  LockOK'
  BY <1>12, LockFrame DEF SetRPC
<1>13. CASE UNCHANGED vars
  BY <1>13, LockFrame DEF vars
<1> QED
  BY NextCases, <1>1, <1>2, <1>3, <1>4, <1>5, <1>6, <1>7, <1>8, <1>9, <1>10,
     <1>11, <1>12, <1>13

LEMMA QueueFrame ==
    ASSUME QueueOK, UNCHANGED <<receivers, ready, pending, onchange, ec>>, silent \subseteq silent',
           \A s \in Subs : runpc'[s] = runpc[s] \/ runpc[s] # "none" \/ s \in receivers,
           \A s \in Subs : hpc[SessOf[s]] \in Joint => hpc'[SessOf[s]] \in Joint
    PROVE  QueueOK'
BY DEF QueueOK

LEMMA QueueWriter ==
    ASSUME QueueOK, TypeOK, NEW p \in Procs, WriterStep(p), UNCHANGED <<runpc, hpc>>
    PROVE  QueueOK'
<1> USE DEF TypeOK, EventCtrlTypeOK
<1>1. CASE Lock(p) \/ Unlock(p)
  BY <1>1, QueueFrame DEF Lock, Unlock, treeVars, queueVars
<1>2. CASE SetEvent(p)
  <2>1. PICK c \in job[p] :
          /\ silent' = silent \ {q \in Mentioned(Effective(c)) : \A s \in Subs : pending[s][q] = Same}
          /\ Raise(Effective(c))
    BY <1>2 DEF SetEvent
  <2>2. c \in Events /\ Raise(Restriction(Effective(c), Paths))
    BY <2>1, RaiseWhole
  <2>3. /\ ec' = p /\ p # Nobody /\ ec = Nobody
        /\ UNCHANGED <<receivers, onchange>>
    BY <1>2 DEF SetEvent
  <2>4. ready' \subseteq receivers /\ ready \subseteq ready'
    BY <2>1 DEF QueueOK, Raise
  <2>5. ASSUME NEW s \in Subs, NEW q \in Paths, pending'[s][q] # Same
        PROVE  q \in silent' \/ s \in ready'
    BY <2>1, <2>2, <2>3, <2>5, RaiseSays DEF QueueOK
  <2>6. \A s \in Subs : s \notin receivers => pending'[s] = pending[s]
    BY <2>2, RaiseSays
  <2> QED
    BY <2>3, <2>4, <2>5, <2>6 DEF QueueOK
<1>3. CASE SetEventFails(p)
  <2>1. PICK c \in job[p], Q \in SUBSET Paths :
          /\ silent' = silent \cup Mentioned(Effective(c))
          /\ Raise(Restriction(Effective(c), Q))
    BY <1>3 DEF SetEventFails
  <2>2. c \in Events
    BY <2>1
  <2>3. ec' = ec /\ ec = Nobody /\ UNCHANGED <<receivers, onchange>>
    BY <1>3 DEF SetEventFails
  <2>4. ready' \subseteq receivers
    BY <2>1 DEF QueueOK, Raise
  <2>5. ASSUME NEW s \in Subs, NEW q \in Paths, pending'[s][q] # Same
        PROVE  q \in silent'
    <3>1. CASE q \in Mentioned(Effective(c))
      BY <2>1, <3>1
    <3>2. CASE q \notin Mentioned(Effective(c))
      <4>1. pending'[s][q] = pending[s][q]
        BY <2>1, <2>2, <3>2, RaiseSays
      <4> QED
        BY <2>1, <2>3, <2>5, <4>1 DEF QueueOK
    <3> QED
      BY <3>1, <3>2
  <2>6. \A s \in Subs : s \notin receivers => pending'[s] = pending[s]
    BY <2>1, <2>2, RaiseSays
  <2> QED
    BY <2>3, <2>4, <2>5, <2>6 DEF QueueOK
<1>4. ASSUME NEW s \in Subs, EventComplete(p, s)
      PROVE  QueueOK'
  <2>1. /\ s \in ready /\ ready' = ready \ {s} /\ UNCHANGED <<receivers, ec, silent>>
        /\ pending' = [pending EXCEPT ![s] = NoEvent]
        /\ \A t \in Subs : t # s => onchange'[t] = onchange[t]
    BY <1>4 DEF EventComplete, treeVars
  <2>2. \A q \in Paths : NoEvent[q] = Same
    BY DEF NoEvent
  <2>3. pending'[s] = NoEvent /\ \A t \in Subs : t # s => pending'[t] = pending[t]
    BY <2>1
  <2>4. \A t \in Subs, q \in Paths : pending'[t][q] # Same => q \in silent' \/ (ec' # Nobody /\ t \in ready')
    BY <2>1, <2>2, <2>3 DEF QueueOK
  <2> QED
    BY <2>1, <2>3, <2>4 DEF QueueOK
<1>5. CASE EndEvents(p)
  BY <1>5 DEF EndEvents, QueueOK, treeVars, queueVars
<1> QED
  BY <1>1, <1>2, <1>3, <1>4, <1>5 DEF WriterStep

\* QueueOK.
LEMMA QueueStep ==
    ASSUME IInv, FeedInv, [Next]_vars
    PROVE  QueueOK'
<1> USE DEF IInv, FeedInv, lockVars, queueVars, writerVars, eventVars, treeVars, handlerVars, runVars,
            responderVars, telemetryVars
<1>1. ASSUME NEW p \in Procs, CallStep(p)
      PROVE  QueueOK'
  BY <1>1, QueueWriter DEF CallStep
<1>2. ASSUME NEW x \in Sess, RegisterSub(x)
      PROVE  QueueOK'
  <2>1. hcur[x] \in Subs /\ SessOf[hcur[x]] = x
    BY <1>2 DEF RegisterSub, HandlerOK, Settling, SubsOf
  <2>2. /\ receivers' = receivers \cup {hcur[x]} /\ UNCHANGED <<ready, pending, onchange, ec, silent, runpc>>
        /\ hpc' = [hpc EXCEPT ![x] = "sync"] /\ hpc[x] = "register"
    BY <1>2 DEF RegisterSub, Register
  <2>3. \A s \in Subs : hpc'[SessOf[s]] \notin Joint => hpc[SessOf[s]] \notin Joint
    BY <2>2 DEF Joint, TypeOK
  <2> QED
    BY <2>2, <2>3 DEF QueueOK
<1>3. ASSUME NEW x \in Sess, StartRun(x)
      PROVE  QueueOK'
  <2>1. hcur[x] \in receivers
    BY <1>3 DEF StartRun, InitOK, InitAt
  <2>2. /\ \A s \in Subs : s # hcur[x] => runpc'[s] = runpc[s]
        /\ UNCHANGED <<receivers, ready, pending, onchange, ec, silent>>
    BY <1>3 DEF StartRun, RUnlock, TypeOK
  <2>3. \A s \in Subs : hpc[SessOf[s]] \in Joint => hpc'[SessOf[s]] \in Joint
    BY <1>3 DEF StartRun, TypeOK, Joint
  <2> QED
    BY <2>1, <2>2, <2>3, QueueFrame
<1>4. ASSUME NEW x \in Sess, DeleteSubscription(x)
      PROVE  QueueOK'
  <2>1. /\ hcur[x] \in Subs /\ SessOf[hcur[x]] = x /\ hpc' = [hpc EXCEPT ![x] = "unregister"]
        /\ onchange' = [onchange EXCEPT ![hcur[x]] = <<>>] /\ hpc[x] = "delsub"
        /\ UNCHANGED <<receivers, ready, pending, ec, silent, runpc>>
    BY <1>4 DEF DeleteSubscription, HandlerOK, Settling, SubsOf
  <2>2. \A s \in Subs : hpc'[SessOf[s]] \notin Joint =>
          hpc[SessOf[s]] \notin Joint /\ onchange'[s] = onchange[s]
    BY <2>1 DEF Joint, TypeOK, EventCtrlTypeOK
  <2> QED
    BY <2>1, <2>2 DEF QueueOK
<1>5. ASSUME NEW x \in Sess, NEW s \in Subs, UnregisterSub(x, s)
      PROVE  QueueOK'
  <2>1. /\ ec = Nobody /\ receivers' = receivers \ {s} /\ ready' = ready \ {s}
        /\ UNCHANGED <<pending, onchange, ec, silent, runpc>>
        /\ SessOf[s] = x /\ hpc[x] = "unregister" /\ hpc' = [hpc EXCEPT ![x] = "delinfo"]
    BY <1>5 DEF UnregisterSub, Unregister, SubsOf
  <2>2. /\ hpc'[SessOf[s]] \in Joint
        /\ \A t \in Subs : hpc'[SessOf[t]] \notin Joint =>
             hpc[SessOf[t]] \notin Joint /\ t # s
    BY <2>1 DEF Joint, TypeOK
  <2> QED
    BY <2>1, <2>2 DEF QueueOK
<1>6. ASSUME NEW x \in Sess,
             StartSubSession(x) \/ InitTelemetryUpdate(x) \/ InitSend(x)
             \/ InitFails(x) \/ Joined(x) \/ DeleteDynamic(x)
             \/ CloseResponses(x) \/ LeaveSubSession(x) \/ RespondTake(x)
             \/ RespondSend(x) \/ RespondShutdown(x)
      PROVE  QueueOK'
  BY <1>6, QueueFrame DEF StartSubSession, InitTelemetryUpdate, InitSend, InitFails,
     Joined, DeleteDynamic, CloseResponses, LeaveSubSession, RespondTake, RespondSend,
     RespondShutdown, RUnlock, RLock, Begin, Joint, Stopping, TypeOK
<1>7. ASSUME NEW x \in Sess, NEW S \in SUBSET Subs, ProcessSubscribe(x, S) \/ EndOfStream(x, S)
      PROVE  QueueOK'
  BY <1>7, QueueFrame DEF ProcessSubscribe, EndOfStream, Joint, TypeOK
<1>8. ASSUME NEW x \in Sess, NEW s \in Subs, AddDynamic(x, s)
      PROVE  QueueOK'
  BY <1>8, QueueFrame DEF AddDynamic, AddEntry, Begin, eventVars, Joint, TypeOK
<1>9. ASSUME NEW x \in Sess, NEW c \in SUBSET Events, SyncCallback(x, c)
      PROVE  QueueOK'
  BY <1>9, QueueFrame DEF SyncCallback, Begin
<1>10. ASSUME NEW s \in Subs, RunShutdown(s) \/ RunRLock(s) \/ RunSend(s) \/ RunFails(s)
       PROVE  QueueOK'
  BY <1>10, QueueFrame DEF RunShutdown, RunRLock, RunSend, RunFails, RLock, RUnlock,
     TypeOK
<1>11. ASSUME NEW s \in Subs, RunReceive(s)
       PROVE  QueueOK'
  <2>1. /\ UNCHANGED <<receivers, ready, pending, ec, silent, hpc>>
        /\ \A t \in Subs : t # s => onchange'[t] = onchange[t] /\ runpc'[t] = runpc[t]
    BY <1>11 DEF RunReceive, TypeOK, EventCtrlTypeOK
  <2>2. hpc[SessOf[s]] \notin Joint => s \in receivers
    BY <1>11 DEF RunReceive, QueueOK
  <2> QED
    BY <2>1, <2>2 DEF QueueOK
<1>12. ASSUME NEW p \in Writers, NEW c \in SUBSET Events, Write(p, c)
       PROVE  QueueOK'
  BY <1>12, QueueFrame DEF Write, Begin
<1>13. ASSUME NEW m \in Events, SetRPC(m)
       PROVE  QueueOK'
  BY <1>13, QueueFrame DEF SetRPC
<1>14. CASE UNCHANGED vars
  BY <1>14, QueueFrame DEF vars
<1> QED
  BY NextCases, <1>1, <1>2, <1>3, <1>4, <1>5, <1>6, <1>7, <1>8, <1>9, <1>10,
     <1>11, <1>12, <1>13, <1>14

LEMMA RouteFrame ==
    ASSUME RouteOK, UNCHANGED <<runev, respchan, rmsg>>,
           \A s \in Subs : runpc'[s] \notin {"rlock", "send"} => runpc[s] \notin {"rlock", "send"},
           \A x \in Sess : rpc'[x] # "send" => rpc[x] # "send"
    PROVE  RouteOK'
BY DEF RouteOK

\* A response is sent to a subscriber of the session.
LEMMA RouteAppend ==
    ASSUME TypeOK, RouteOK, NEW x \in Sess, NEW m \in Messages, m.to \in SubsOf(x),
           respchan' = [respchan EXCEPT ![x] = Append(@, m)],
           UNCHANGED <<rpc, rmsg>>,
           \A s \in Subs : runpc'[s] \notin {"rlock", "send"} => runev'[s] = NoEvent
    PROVE  RouteOK'
<1> USE DEF TypeOK
<1>1. respchan[x] \in Seq(Messages) /\ respchan'[x] = Append(respchan[x], m)
      /\ \A y \in Sess \ {x} : respchan'[y] = respchan[y]
  OBVIOUS
<1>2. \A i \in DOMAIN respchan'[x] :
        (i \in DOMAIN respchan[x] /\ respchan'[x][i] = respchan[x][i]) \/ respchan'[x][i] = m
  BY <1>1
<1>3. \A y \in Sess : \A i \in DOMAIN respchan'[y] : respchan'[y][i].to \in SubsOf(y)
  BY <1>1, <1>2 DEF RouteOK
<1> QED
  BY <1>3 DEF RouteOK

\* RouteOK.
LEMMA RouteStep ==
    ASSUME IInv, FeedInv, [Next]_vars
    PROVE  RouteOK'
<1> USE DEF IInv, FeedInv, TypeOK, EventCtrlTypeOK, lockVars, queueVars, writerVars, eventVars,
            treeVars, handlerVars, runVars,
            responderVars, telemetryVars
<1>1. ASSUME NEW p \in Procs, CallStep(p)
      PROVE  RouteOK'
  BY <1>1, RouteFrame DEF CallStep
<1>2. ASSUME NEW x \in Sess,
             RegisterSub(x) \/ InitTelemetryUpdate(x) \/ InitFails(x)
             \/ Joined(x) \/ DeleteDynamic(x) \/ DeleteSubscription(x)
             \/ LeaveSubSession(x)
      PROVE  RouteOK'
  BY <1>2, RouteFrame DEF RegisterSub, InitTelemetryUpdate, InitFails, Joined,
     DeleteDynamic, DeleteSubscription, LeaveSubSession
<1>3. ASSUME NEW x \in Sess, StartSubSession(x) \/ RespondShutdown(x)
      PROVE  RouteOK'
  <2>1. UNCHANGED <<runpc, runev, respchan, rmsg>>
    BY <1>3 DEF StartSubSession, RespondShutdown
  <2>2. \A y \in Sess : rpc'[y] # "send" => rpc[y] # "send"
    BY <1>3 DEF StartSubSession, RespondShutdown, SubsOK, TypeOK
  <2> QED
    BY <2>1, <2>2, RouteFrame
<1>4. ASSUME NEW x \in Sess, StartRun(x)
      PROVE  RouteOK'
  <2>1. UNCHANGED <<runev, respchan, rmsg, rpc>>
    BY <1>4 DEF StartRun
  <2>2. \A s \in Subs : runpc'[s] \notin {"rlock", "send"} => runpc[s] \notin {"rlock", "send"}
    BY <1>4 DEF StartRun, Streaming, TypeOK
  <2> QED
    BY <2>1, <2>2, RouteFrame
<1>5. ASSUME NEW x \in Sess, InitSend(x)
      PROVE  RouteOK'
  <2>1. hout[x] # <<>> /\ Head(hout[x]) \in Messages
    BY <1>5 DEF InitSend, TypeOK
  <2>2. Head(hout[x]).to = hcur[x]
    <3>1. \A m, n : Head(<<m, n>>) = m /\ Head(<<m>>) = m
      OBVIOUS
    <3>2. hpc[x] = "init" /\ InitAt(x)
      BY <1>5 DEF InitSend, InitOK
    <3>3. Head(hout[x]) = SyncResponse(hcur[x]) \/ Head(hout[x]) = Response(hcur[x], Snapshot(hcur[x]))
      BY <2>1, <3>1, <3>2 DEF InitAt
    <3> QED
      BY <3>3 DEF Response, SyncResponse
  <2>3. hcur[x] \in SubsOf(x)
    BY <1>5 DEF InitSend, HandlerOK, Settling
  <2>4. respchan' = [respchan EXCEPT ![x] = Append(@, Head(hout[x]))]
        /\ UNCHANGED <<rpc, rmsg, runpc, runev>>
    BY <1>5 DEF InitSend
  <2>5. \A s \in Subs : runpc'[s] \notin {"rlock", "send"} => runev'[s] = NoEvent
    BY <2>4 DEF RouteOK
  <2> QED
    BY <2>1, <2>2, <2>3, <2>4, <2>5, RouteAppend
<1>6. ASSUME NEW x \in Sess, CloseResponses(x)
      PROVE  RouteOK'
  <2>1. respchan' = [respchan EXCEPT ![x] = <<>>] /\ UNCHANGED <<rpc, rmsg, runpc, runev>>
    BY <1>6 DEF CloseResponses
  <2>2. \A y \in Sess : \A i \in DOMAIN respchan'[y] :
          i \in DOMAIN respchan[y] /\ respchan'[y][i] = respchan[y][i]
    BY <2>1 DEF TypeOK
  <2> QED
    BY <2>1, <2>2 DEF RouteOK
<1>7. ASSUME NEW x \in Sess, RespondTake(x)
      PROVE  RouteOK'
  <2>1. /\ respchan[x] # <<>> /\ respchan[x] \in Seq(Messages)
        /\ rmsg' = [rmsg EXCEPT ![x] = Head(respchan[x])]
        /\ respchan' = [respchan EXCEPT ![x] = Tail(@)]
        /\ rpc' = [rpc EXCEPT ![x] = "send"]
        /\ UNCHANGED <<runpc, runev>>
    BY <1>7 DEF RespondTake, TypeOK
  <2>2. \A i \in DOMAIN Tail(respchan[x]) :
          i + 1 \in DOMAIN respchan[x] /\ Tail(respchan[x])[i] = respchan[x][i + 1]
    BY <2>1
  <2>3. \A i \in DOMAIN Tail(respchan[x]) : Tail(respchan[x])[i].to \in SubsOf(x)
    BY <2>2 DEF RouteOK
  <2>4. Head(respchan[x]) = respchan[x][1] /\ 1 \in DOMAIN respchan[x]
    BY <2>1
  <2>5. Head(respchan[x]).to \in SubsOf(x)
    BY <2>4 DEF RouteOK
  <2>6. respchan'[x] = Tail(respchan[x]) /\ rmsg'[x] = Head(respchan[x])
        /\ \A y \in Sess \ {x} : respchan'[y] = respchan[y] /\ rmsg'[y] = rmsg[y] /\ rpc'[y] = rpc[y]
    BY <2>1 DEF TypeOK
  <2>7. rpc'[x] = "send"
    BY <2>1 DEF TypeOK
  <2> QED
    BY <2>1, <2>3, <2>5, <2>6, <2>7 DEF RouteOK
<1>8. ASSUME NEW x \in Sess, RespondSend(x)
      PROVE  RouteOK'
  <2>1. rmsg' = [rmsg EXCEPT ![x] = NoMessage] /\ rpc' = [rpc EXCEPT ![x] = "select"]
        /\ UNCHANGED <<runpc, runev, respchan>>
    BY <1>8 DEF RespondSend
  <2>2. NoMessage.to = Nobody
    BY DEF NoMessage
  <2> QED
    BY <2>1, <2>2 DEF RouteOK, TypeOK
<1>9. ASSUME NEW x \in Sess, NEW S \in SUBSET Subs, ProcessSubscribe(x, S) \/ EndOfStream(x, S)
      PROVE  RouteOK'
  BY <1>9, RouteFrame DEF ProcessSubscribe, EndOfStream
<1>10. ASSUME NEW x \in Sess, NEW s \in Subs, AddDynamic(x, s)
       PROVE  RouteOK'
  BY <1>10, RouteFrame DEF AddDynamic, AddEntry
<1>11. ASSUME NEW x \in Sess, NEW s \in Subs, UnregisterSub(x, s)
       PROVE  RouteOK'
  BY <1>11, RouteFrame DEF UnregisterSub
<1>12. ASSUME NEW x \in Sess, NEW c \in SUBSET Events, SyncCallback(x, c)
       PROVE  RouteOK'
  BY <1>12, RouteFrame DEF SyncCallback
<1>13. ASSUME NEW s \in Subs, RunShutdown(s) \/ RunReceive(s) \/ RunRLock(s)
       PROVE  RouteOK'
  <2>1. UNCHANGED <<rpc, rmsg, respchan>>
    BY <1>13 DEF RunShutdown, RunReceive, RunRLock
  <2>2. \A t \in Subs : runpc'[t] \notin {"rlock", "send"} => runev'[t] = NoEvent
    <3>1. \A t \in Subs : t # s => runpc'[t] = runpc[t] /\ runev'[t] = runev[t]
      BY <1>13 DEF RunShutdown, RunReceive, RunRLock
    <3>2. runpc'[s] \notin {"rlock", "send"} => runpc[s] \notin {"rlock", "send"} /\ runev'[s] = runev[s]
      BY <1>13 DEF RunShutdown, RunReceive, RunRLock
    <3> QED
      BY <3>1, <3>2 DEF RouteOK
  <2> QED
    BY <2>1, <2>2 DEF RouteOK
<1>14. ASSUME NEW s \in Subs, RunSend(s)
       PROVE  RouteOK'
  <2> DEFINE x == SessOf[s]
             m == Response(s, runev[s])
  <2>1. m \in Messages /\ m.to = s
    BY DEF Response, Messages
  <2>2. x \in Sess /\ s \in SubsOf(x)
    BY DEF SubsOf
  <2>3. /\ respchan' = [respchan EXCEPT ![x] = Append(@, m)]
        /\ UNCHANGED <<rpc, rmsg>>
    BY <1>14 DEF RunSend
  <2>4. \A t \in Subs : runpc'[t] \notin {"rlock", "send"} => runev'[t] = NoEvent
    BY <1>14 DEF RunSend, RouteOK
  <2> HIDE DEF x, m
  <2> QED
    BY <2>1, <2>2, <2>3, <2>4, RouteAppend
<1>15. ASSUME NEW s \in Subs, RunFails(s)
       PROVE  RouteOK'
  <2>1. UNCHANGED <<rpc, rmsg, respchan>>
    BY <1>15 DEF RunFails
  <2>2. \A t \in Subs : runpc'[t] \notin {"rlock", "send"} => runev'[t] = NoEvent
    BY <1>15 DEF RunFails, RouteOK, TypeOK
  <2> QED
    BY <2>1, <2>2 DEF RouteOK
<1>16. ASSUME NEW p \in Writers, NEW c \in SUBSET Events, Write(p, c)
       PROVE  RouteOK'
  BY <1>16, RouteFrame DEF Write
<1>17. ASSUME NEW m \in Events, SetRPC(m)
       PROVE  RouteOK'
  BY <1>17, RouteFrame DEF SetRPC
<1>18. CASE UNCHANGED vars
  BY <1>18, RouteFrame DEF vars
<1> QED
  BY NextCases, <1>1, <1>2, <1>3, <1>4, <1>5, <1>6, <1>7, <1>8, <1>9, <1>10,
     <1>11, <1>12, <1>13, <1>14, <1>15, <1>16, <1>17, <1>18

\* The tree changes only while nobody has RLock.
LEMMA TreeSteps ==
    ASSUME LockOK, NEW p \in Procs, WriterStep(p)
    PROVE  root' = root \/ readers = {}
BY DEF LockOK, WriterStep, Lock, SetEvent, SetEventFails, EventComplete, EndEvents, Unlock, treeVars

LEMMA InitFrame ==
    ASSUME InitOK, UNCHANGED <<hpc, hcur, hout, receivers>>,
           \A x \in Sess : x \in readers => x \in readers',
           root' = root \/ readers = {}
    PROVE  InitOK'
<1> SUFFICES ASSUME NEW x \in Sess PROVE InitAt(x)'
  BY DEF InitOK
<1>1. root' = root => Snapshot(hcur[x])' = Snapshot(hcur[x])
  BY DEF Snapshot
<1> QED
  BY <1>1 DEF InitOK, InitAt

\* The same for a handler that goes on; the others have other subscribers.
LEMMA InitOther ==
    ASSUME InitOK, \A y \in Sess : HandlerOK(y), NEW x \in Sess, InitAt(x)', root' = root,
           \A y \in Sess \ {x} : /\ hpc'[y] = hpc[y] /\ hcur'[y] = hcur[y] /\ hout'[y] = hout[y]
                                 /\ y \in readers => y \in readers',
           receivers \ SubsOf(x) \subseteq receivers'
    PROVE  InitOK'
<1> SUFFICES ASSUME NEW y \in Sess \ {x} PROVE InitAt(y)'
  BY DEF InitOK
<1>1. Snapshot(hcur[y])' = Snapshot(hcur[y])
  BY DEF Snapshot
<1>2. InitAt(y) /\ hpc'[y] = hpc[y] /\ hcur'[y] = hcur[y] /\ hout'[y] = hout[y]
  BY DEF InitOK
<1>3. hpc[y] \in {"sync", "init"} /\ hcur[y] \in receivers => hcur[y] \in receivers'
  BY DEF HandlerOK, Settling, SubsOf
<1> QED
  BY <1>1, <1>2, <1>3 DEF InitAt

\* InitOK.
LEMMA InitStep ==
    ASSUME IInv, FeedInv, [Next]_vars
    PROVE  InitOK'
<1> USE DEF IInv, FeedInv, TypeOK, lockVars, queueVars, writerVars, eventVars, treeVars, handlerVars, runVars,
            responderVars, telemetryVars
<1>1. ASSUME NEW p \in Procs, CallStep(p)
      PROVE  InitOK'
  <2>1. UNCHANGED <<hpc, hcur, hout>> /\ readers' = readers /\ receivers' = receivers
    BY <1>1 DEF CallStep, WriterStep, Lock, SetEvent, SetEventFails, EventComplete, EndEvents, Unlock
  <2>2. root' = root \/ readers = {}
    BY <1>1, TreeSteps DEF CallStep
  <2> QED
    BY <2>1, <2>2, InitFrame
<1>2. ASSUME NEW x \in Sess, RegisterSub(x)
      PROVE  InitOK'
  <2>1. /\ hpc' = [hpc EXCEPT ![x] = "sync"] /\ UNCHANGED <<hcur, hout, readers, root>>
        /\ receivers' = receivers \cup {hcur[x]}
    BY <1>2 DEF RegisterSub, Register
  <2>2. InitAt(x)'
    BY <2>1 DEF InitAt
  <2>3. receivers \ SubsOf(x) \subseteq receivers' /\ \A y \in Sess : HandlerOK(y)
    BY <2>1
  <2> QED
    BY <2>1, <2>2, <2>3, InitOther
<1>3. ASSUME NEW x \in Sess, InitTelemetryUpdate(x)
      PROVE  InitOK'
  <2>1. /\ hpc[x] = "sync" /\ hpc' = [hpc EXCEPT ![x] = "init"] /\ hcur' = hcur
        /\ receivers' = receivers /\ root' = root /\ readers \subseteq readers'
        /\ \A y \in Sess \ {x} : hout'[y] = hout[y]
    BY <1>3 DEF InitTelemetryUpdate, RLock
  <2>2. Snapshot(hcur[x])' = Snapshot(hcur[x])
    BY <2>1 DEF Snapshot
  <2>3. \/ hcur[x] \in UpdatesOnly /\ hout'[x] = <<SyncResponse(hcur[x])>>
        \/ /\ hcur[x] \notin UpdatesOnly /\ x \in readers'
           /\ \/ hout'[x] = <<SyncResponse(hcur[x])>>
              \/ hout'[x] = <<Response(hcur[x], Snapshot(hcur[x])), SyncResponse(hcur[x])>>
    BY <1>3 DEF InitTelemetryUpdate, RLock
  <2>4. InitAt(x)'
    BY <2>1, <2>2, <2>3 DEF InitAt, InitOK
  <2> QED
    BY <2>1, <2>4, InitOther
<1>4. ASSUME NEW x \in Sess, InitSend(x)
      PROVE  InitOK'
  <2>1. /\ hpc[x] = "init" /\ hout[x] # <<>> /\ hout' = [hout EXCEPT ![x] = Tail(@)]
        /\ UNCHANGED <<hpc, hcur, receivers, readers, root>>
    BY <1>4 DEF InitSend
  <2>2. \A m, n : Tail(<<m, n>>) = <<n>> /\ Tail(<<m>>) = <<>>
    OBVIOUS
  <2>3. hout'[x] = Tail(hout[x]) /\ \A y \in Sess \ {x} : hout'[y] = hout[y]
    BY <2>1
  <2>4. hout'[x] = <<SyncResponse(hcur[x])>> \/ hout'[x] = <<>>
    <3>1. InitAt(x)
      BY DEF InitOK
    <3>2. CASE hout[x] = <<SyncResponse(hcur[x])>>
      BY <2>2, <2>3, <3>2
    <3>3. CASE hout[x] = <<Response(hcur[x], Snapshot(hcur[x])), SyncResponse(hcur[x])>>
      BY <2>2, <2>3, <3>3
    <3> QED
      BY <2>1, <3>1, <3>2, <3>3 DEF InitAt
  <2>5. InitAt(x)'
    BY <2>1, <2>4 DEF InitOK, InitAt
  <2> QED
    BY <2>1, <2>3, <2>5, InitOther
<1>5. ASSUME NEW x \in Sess, StartRun(x)
      PROVE  InitOK'
  <2>1. /\ hpc'[x] \notin {"sync", "init"} /\ UNCHANGED <<hout, receivers, root>>
        /\ \A y \in Sess \ {x} : /\ hpc'[y] = hpc[y] /\ hcur'[y] = hcur[y]
                                 /\ y \in readers => y \in readers'
    BY <1>5 DEF StartRun, RUnlock
  <2>2. InitAt(x)'
    BY <2>1 DEF InitAt
  <2>3. receivers \ SubsOf(x) \subseteq receivers' /\ \A y \in Sess : HandlerOK(y)
    BY <2>1
  <2> QED
    BY <2>1, <2>2, <2>3, InitOther
<1>6. ASSUME NEW x \in Sess,
             StartSubSession(x) \/ InitFails(x) \/ Joined(x)
             \/ DeleteDynamic(x) \/ DeleteSubscription(x)
             \/ CloseResponses(x) \/ LeaveSubSession(x)
      PROVE  InitOK'
  <2>1. /\ hpc'[x] \notin {"sync", "init"} /\ receivers' = receivers /\ root' = root
        /\ \A y \in Sess \ {x} : /\ hpc'[y] = hpc[y] /\ hcur'[y] = hcur[y] /\ hout'[y] = hout[y]
                                 /\ y \in readers => y \in readers'
    BY <1>6 DEF StartSubSession, InitFails, Joined, DeleteDynamic, DeleteSubscription,
       CloseResponses, LeaveSubSession, Begin, RUnlock
  <2>2. InitAt(x)'
    BY <2>1 DEF InitAt
  <2>3. receivers \ SubsOf(x) \subseteq receivers' /\ \A y \in Sess : HandlerOK(y)
    BY <2>1
  <2> QED
    BY <2>1, <2>2, <2>3, InitOther
<1>7. ASSUME NEW x \in Sess, RespondTake(x) \/ RespondSend(x) \/ RespondShutdown(x)
      PROVE  InitOK'
  BY <1>7, InitFrame DEF RespondTake, RespondSend, RespondShutdown
<1>8. ASSUME NEW x \in Sess, NEW S \in SUBSET Subs, ProcessSubscribe(x, S) \/ EndOfStream(x, S)
      PROVE  InitOK'
  <2>1. /\ hpc'[x] \notin {"sync", "init"} /\ UNCHANGED <<receivers, root, readers, hcur, hout>>
        /\ \A y \in Sess \ {x} : hpc'[y] = hpc[y]
    BY <1>8 DEF ProcessSubscribe, EndOfStream
  <2>2. InitAt(x)'
    BY <2>1 DEF InitAt
  <2>3. receivers \ SubsOf(x) \subseteq receivers' /\ \A y \in Sess : HandlerOK(y)
    BY <2>1
  <2> QED
    BY <2>1, <2>2, <2>3, InitOther
<1>9. ASSUME NEW x \in Sess, NEW s \in Subs, AddDynamic(x, s)
      PROVE  InitOK'
  <2>1. /\ hpc'[x] \notin {"sync", "init"} /\ UNCHANGED <<receivers, root, readers, hout>>
        /\ \A y \in Sess \ {x} : hpc'[y] = hpc[y] /\ hcur'[y] = hcur[y]
    BY <1>9 DEF AddDynamic, AddEntry, Begin, eventVars
  <2>2. InitAt(x)'
    BY <2>1 DEF InitAt
  <2>3. receivers \ SubsOf(x) \subseteq receivers' /\ \A y \in Sess : HandlerOK(y)
    BY <2>1
  <2> QED
    BY <2>1, <2>2, <2>3, InitOther
<1>10. ASSUME NEW x \in Sess, NEW s \in Subs, UnregisterSub(x, s)
       PROVE  InitOK'
  <2>1. /\ hpc'[x] \notin {"sync", "init"} /\ UNCHANGED <<root, readers, hout>>
        /\ s \in SubsOf(x) /\ receivers' = receivers \ {s}
        /\ \A y \in Sess \ {x} : hpc'[y] = hpc[y] /\ hcur'[y] = hcur[y]
    BY <1>10 DEF UnregisterSub, Unregister
  <2>2. InitAt(x)'
    BY <2>1 DEF InitAt
  <2>3. receivers \ SubsOf(x) \subseteq receivers' /\ \A y \in Sess : HandlerOK(y)
    BY <2>1
  <2> QED
    BY <2>1, <2>2, <2>3, InitOther
<1>11. ASSUME NEW x \in Sess, NEW c \in SUBSET Events, SyncCallback(x, c)
       PROVE  InitOK'
  BY <1>11, InitFrame DEF SyncCallback, Begin
<1>12. ASSUME NEW s \in Subs,
              RunShutdown(s) \/ RunReceive(s) \/ RunRLock(s) \/ RunSend(s)
              \/ RunFails(s)
       PROVE  InitOK'
  BY <1>12, InitFrame DEF RunShutdown, RunReceive, RunRLock, RunSend, RunFails, RLock,
     RUnlock
<1>13. ASSUME NEW p \in Writers, NEW c \in SUBSET Events, Write(p, c)
       PROVE  InitOK'
  BY <1>13, InitFrame DEF Write, Begin
<1>14. ASSUME NEW m \in Events, SetRPC(m)
       PROVE  InitOK'
  BY <1>14, InitFrame DEF SetRPC
<1>15. CASE UNCHANGED vars
  BY <1>15, InitFrame DEF vars
<1> QED
  BY NextCases, <1>1, <1>2, <1>3, <1>4, <1>5, <1>6, <1>7, <1>8, <1>9, <1>10,
     <1>11, <1>12, <1>13, <1>14, <1>15

-----------------------------------------------------------------------------
(* What the steps of the responses keep. *)

LEMMA UntoldSteps ==
    ASSUME NEW s \in Subs, NEW msgs \in Seq(Messages), NEW m, NEW known, Untold(s, msgs, m, known)
    PROVE  /\ \A n \in Messages : n.to # s => Untold(s, Append(msgs, n), m, known)
           /\ msgs # <<>> => Untold(s, Tail(msgs), Head(msgs), known)
           /\ Untold(s, msgs, NoMessage, IF m.to = s THEN Overlay(known, m.chg) ELSE known)
<1>1. ASSUME NEW n \in Messages, n.to # s
      PROVE  Untold(s, Append(msgs, n), m, known)
  <2>1. \A i \in DOMAIN Append(msgs, n) :
          Append(msgs, n)[i] = n \/ (i \in DOMAIN msgs /\ Append(msgs, n)[i] = msgs[i])
    OBVIOUS
  <2> QED
    BY <1>1, <2>1 DEF Untold
<1>2. ASSUME msgs # <<>>
      PROVE  Untold(s, Tail(msgs), Head(msgs), known)
  <2>1. /\ \A i \in DOMAIN Tail(msgs) : i + 1 \in DOMAIN msgs /\ Tail(msgs)[i] = msgs[i + 1]
        /\ Head(msgs) = msgs[1] /\ 1 \in DOMAIN msgs
    BY <1>2
  <2> QED
    BY <2>1 DEF Untold
<1>3. Untold(s, msgs, NoMessage, IF m.to = s THEN Overlay(known, m.chg) ELSE known)
  <2>1. NoMessage.to = Nobody /\ s # Nobody
    BY DEF NoMessage
  <2> QED
    BY <2>1 DEF Untold
<1> QED
  BY <1>1, <1>2, <1>3

\* Whatever the pipeline of s says at its front it says after the step.
Keeps(s, msgs, m, known, msgs1, m1, known1) ==
    /\ \A q \in Paths, v \in Leaves : Front(s, msgs, m, known, q, v) => Front(s, msgs1, m1, known1, q, v)
    /\ Untold(s, msgs, m, known) => Untold(s, msgs1, m1, known1)

\* A response to somebody else.
LEMMA AppendKeeps ==
    ASSUME NEW s \in Subs, NEW msgs \in Seq(Messages), NEW m, NEW known, NEW n \in Messages, n.to # s
    PROVE  Keeps(s, msgs, m, known, Append(msgs, n), m, known)
<1>1. \A q \in Paths : ToldTo(s, n)[q] = Same
  BY DEF ToldTo, NoEvent
<1> QED
  BY <1>1, FrontAppend, UntoldSteps DEF Keeps

LEMMA TakeKeeps ==
    ASSUME TypeOK, RouteOK, NEW x \in Sess, RespondTake(x), NEW s \in Subs
    PROVE  LET y == SessOf[s]
           IN  Keeps(s, respchan[y], rmsg[y], view[s], respchan'[y], rmsg'[y], view'[s])
<1> DEFINE y == SessOf[s]
<1> USE DEF TypeOK
<1>1. /\ respchan[x] # <<>> /\ rmsg[x] = NoMessage /\ view' = view
      /\ rmsg' = [rmsg EXCEPT ![x] = Head(respchan[x])]
      /\ respchan' = [respchan EXCEPT ![x] = Tail(@)]
  BY DEF RespondTake, RouteOK
<1>2. y \in Sess /\ respchan[y] \in Seq(Messages) /\ s # Nobody
  OBVIOUS
<1>3. CASE y # x
  BY <1>1, <1>2, <1>3 DEF Keeps
<1>4. CASE y = x
  <2>1. /\ respchan'[y] = Tail(respchan[y]) /\ rmsg'[y] = Head(respchan[y])
        /\ view'[s] = view[s] /\ rmsg[y] = NoMessage
    BY <1>1, <1>2, <1>4
  <2>2. respchan[y] # <<>>
    BY <1>1, <1>4
  <2> HIDE DEF y
  <2>3. \A q \in Paths, v \in Leaves :
          Front(s, respchan[y], NoMessage, view[s], q, v)
            => Front(s, Tail(respchan[y]), Head(respchan[y]), view[s], q, v)
    BY <1>2, <2>2, FrontTake
  <2>4. Untold(s, respchan[y], NoMessage, view[s]) => Untold(s, Tail(respchan[y]), Head(respchan[y]), view[s])
    BY <1>2, <2>2, UntoldSteps
  <2> QED
    BY <2>1, <2>3, <2>4 DEF Keeps, y
<1> QED
  BY <1>3, <1>4

LEMMA SendKeeps ==
    ASSUME TypeOK, RouteOK, NEW x \in Sess, RespondSend(x), NEW s \in Subs
    PROVE  LET y == SessOf[s]
           IN  Keeps(s, respchan[y], rmsg[y], view[s], respchan'[y], rmsg'[y], view'[s])
<1> DEFINE y == SessOf[s]
<1> USE DEF TypeOK
<1>1. /\ respchan' = respchan /\ rmsg' = [rmsg EXCEPT ![x] = NoMessage]
      /\ view' = [view EXCEPT ![rmsg[x].to] = Overlay(@, rmsg[x].chg)]
  BY DEF RespondSend
<1>2. y \in Sess /\ respchan[y] \in Seq(Messages) /\ s # Nobody /\ \A v \in Leaves : v # Same
  BY DEF Leaves
<1>3. rmsg[x].to \in SubsOf(x) \cup {Nobody}
  BY DEF RouteOK
<1>4. view'[s] = IF rmsg[x].to = s THEN Overlay(view[s], rmsg[x].chg) ELSE view[s]
  BY <1>1
<1>5. CASE y # x
  <2>1. rmsg[x].to # s
    BY <1>2, <1>3, <1>5 DEF SubsOf
  <2> QED
    BY <1>1, <1>2, <1>4, <1>5, <2>1 DEF Keeps
<1>6. CASE y = x
  <2>1. rmsg'[y] = NoMessage /\ respchan'[y] = respchan[y]
        /\ view'[s] = IF rmsg[y].to = s THEN Overlay(view[s], rmsg[y].chg) ELSE view[s]
    BY <1>1, <1>2, <1>4, <1>6
  <2> HIDE DEF y
  <2> DEFINE k == IF rmsg[y].to = s THEN Overlay(view[s], rmsg[y].chg) ELSE view[s]
  <2>2. \A q \in Paths, v \in Leaves :
          Front(s, respchan[y], rmsg[y], view[s], q, v) => Front(s, respchan[y], NoMessage, k, q, v)
    BY <1>2, FrontSend
  <2>3. Untold(s, respchan[y], rmsg[y], view[s]) => Untold(s, respchan[y], NoMessage, k)
    BY <1>2, UntoldSteps
  <2>4. view'[s] = k
    BY <2>1
  <2> HIDE DEF k
  <2> QED
    BY <2>1, <2>2, <2>3, <2>4 DEF Keeps, y
<1> QED
  BY <1>5, <1>6

\* Somebody sends a response to t.
LEMMA OthersKeep ==
    ASSUME TypeOK, NEW x \in Sess, NEW m \in Messages, NEW s \in Subs, m.to # s,
           respchan' = [respchan EXCEPT ![x] = Append(@, m)], UNCHANGED <<rmsg, view>>
    PROVE  LET y == SessOf[s]
           IN  Keeps(s, respchan[y], rmsg[y], view[s], respchan'[y], rmsg'[y], view'[s])
<1> DEFINE y == SessOf[s]
<1> USE DEF TypeOK
<1>1. y \in Sess /\ respchan[y] \in Seq(Messages)
  OBVIOUS
<1>2. respchan'[y] = IF y = x THEN Append(respchan[y], m) ELSE respchan[y]
  BY <1>1
<1> HIDE DEF y
<1>3. Keeps(s, respchan[y], rmsg[y], view[s], Append(respchan[y], m), rmsg[y], view[s])
  BY <1>1, AppendKeeps
<1> QED
  BY <1>2, <1>3 DEF Keeps, y

LEMMA RunKeeps ==
    ASSUME TypeOK, NEW r \in Subs, RunSend(r), NEW s \in Subs \ {r}
    PROVE  LET y == SessOf[s]
           IN  Keeps(s, respchan[y], rmsg[y], view[s], respchan'[y], rmsg'[y], view'[s])
<1> DEFINE x == SessOf[r]
           m == Response(r, runev[r])
<1>1. x \in Sess /\ m \in Messages /\ m.to # s
  BY DEF TypeOK, Messages, Response
<1>2. respchan' = [respchan EXCEPT ![x] = Append(@, m)] /\ UNCHANGED <<rmsg, view>>
  BY DEF RunSend, responderVars
<1> HIDE DEF x, m
<1> QED
  BY <1>1, <1>2, OthersKeep

-----------------------------------------------------------------------------
(* What the client is told before run() starts. *)

LEMMA ToldFrame ==
    ASSUME ToldOK, InitOK, UNCHANGED <<hpc, hcur, hout>>,
           root' = root \/ readers = {},
           \A s \in Subs : runpc'[s] = "none" => runpc[s] = "none",
           \A s \in Subs : runpc[s] = "none" =>
               LET y == SessOf[s]
               IN  Keeps(s, respchan[y], rmsg[y], view[s], respchan'[y], rmsg'[y], view'[s]),
           TypeOK
    PROVE  ToldOK'
<1> SUFFICES ASSUME NEW s \in Subs \ UpdatesOnly, runpc'[s] = "none"
             PROVE  ToldAt(s)'
  BY DEF ToldOK, ToldAt
<1> DEFINE y == SessOf[s]
<1>1. Keeps(s, respchan[y], rmsg[y], view[s], respchan'[y], rmsg'[y], view'[s])
      /\ runpc[s] = "none" /\ y \in Sess
  OBVIOUS
<1>2. Shown(s)' <=> Shown(s)
  BY DEF Shown
<1>3. CASE Shown(s)
  <2>1. root' = root
    BY <1>1, <1>3 DEF Shown, InitOK, InitAt
  <2>2. \A q \in Watch[s] : q \in Paths /\ root[q] \in Leaves
    BY DEF TypeOK, EventCtrlTypeOK
  <2>3. \A q \in Watch[s] : Front(s, respchan[y], rmsg[y], view[s], q, root[q])
    BY <1>1, <1>3 DEF ToldOK, ToldAt
  <2>4. \A q \in Watch[s] : Front(s, respchan'[y], rmsg'[y], view'[s], q, root'[q])
    BY <1>1, <2>1, <2>2, <2>3 DEF Keeps
  <2> QED
    BY <1>2, <1>3, <2>4 DEF ToldAt
<1>4. CASE ~ Shown(s)
  <2>1. Untold(s, respchan[y], rmsg[y], view[s])
    BY <1>1, <1>4 DEF ToldOK, ToldAt
  <2>2. Untold(s, respchan'[y], rmsg'[y], view'[s])
    BY <1>1, <2>1 DEF Keeps
  <2> QED
    BY <1>2, <1>4, <2>2 DEF ToldAt
<1> QED
  BY <1>3, <1>4

LEMMA ToldStill ==
    ASSUME ToldOK, InitOK, TypeOK, UNCHANGED <<hpc, hcur, hout, respchan, rmsg, view>>,
           root' = root \/ readers = {},
           \A s \in Subs : runpc'[s] = "none" => runpc[s] = "none"
    PROVE  ToldOK'
<1>1. \A s \in Subs : LET y == SessOf[s]
                     IN  Keeps(s, respchan[y], rmsg[y], view[s], respchan'[y], rmsg'[y], view'[s])
  BY DEF Keeps
<1> QED
  BY <1>1, ToldFrame

\* A handler goes from one place to another, none of them the snapshot.
LEMMA ToldMove ==
    ASSUME ToldOK, NEW x \in Sess, hpc[x] # "init", hpc'[x] # "init",
           \A y \in Sess \ {x} : hpc'[y] = hpc[y] /\ hcur'[y] = hcur[y] /\ hout'[y] = hout[y],
           UNCHANGED <<root, respchan, rmsg, view, runpc>>
    PROVE  ToldOK'
<1> SUFFICES ASSUME NEW s \in Subs \ UpdatesOnly
             PROVE  ToldAt(s)'
  BY DEF ToldOK
<1>1. SessOf[s] \in Sess
  OBVIOUS
<1>2. Shown(s)' <=> Shown(s)
  BY <1>1 DEF Shown
<1> QED
  BY <1>2 DEF ToldOK, ToldAt

\* Only the subscriber in hand is concerned.
LEMMA ToldInHand ==
    ASSUME ToldOK, TypeOK, NEW x \in Sess, hcur[x] \in Subs,
           \A y \in Sess \ {x} : hpc'[y] = hpc[y] /\ hcur'[y] = hcur[y] /\ hout'[y] = hout[y],
           hpc'[x] = "init" => hcur'[x] = hcur[x],
           UNCHANGED <<root, runpc>>,
           \A s \in Subs \ {hcur[x]} :
               LET y == SessOf[s]
               IN  Keeps(s, respchan[y], rmsg[y], view[s], respchan'[y], rmsg'[y], view'[s]),
           SessOf[hcur[x]] = x,
           \A s \in Subs \ UpdatesOnly : s = hcur[x] /\ runpc[s] = "none" => ToldAt(s)'
    PROVE  ToldOK'
<1> SUFFICES ASSUME NEW s \in Subs \ UpdatesOnly, runpc'[s] = "none", s # hcur[x]
             PROVE  ToldAt(s)'
  BY DEF ToldOK, ToldAt
<1> DEFINE y == SessOf[s]
<1>1. Keeps(s, respchan[y], rmsg[y], view[s], respchan'[y], rmsg'[y], view'[s])
      /\ runpc[s] = "none" /\ y \in Sess
  OBVIOUS
<1>2. Shown(s)' <=> Shown(s)
  BY <1>1 DEF Shown
<1>3. \A q \in Watch[s] : q \in Paths /\ root[q] \in Leaves
  BY DEF TypeOK, EventCtrlTypeOK
<1>4. CASE Shown(s)
  BY <1>1, <1>2, <1>3, <1>4 DEF Keeps, ToldOK, ToldAt
<1>5. CASE ~ Shown(s)
  BY <1>1, <1>2, <1>5 DEF Keeps, ToldOK, ToldAt
<1> QED
  BY <1>4, <1>5

\* ToldOK.
LEMMA ToldStep ==
    ASSUME IInv, FeedInv, [Next]_vars
    PROVE  ToldOK'
<1> USE DEF IInv, FeedInv, lockVars, queueVars, writerVars, eventVars, treeVars, handlerVars, runVars,
            responderVars, telemetryVars
<1>1. ASSUME NEW p \in Procs, CallStep(p)
      PROVE  ToldOK'
  <2>1. /\ UNCHANGED <<hpc, hcur, hout, respchan, rmsg, view, runpc>>
        /\ root' = root \/ readers = {}
    BY <1>1, TreeSteps DEF CallStep
  <2> QED
    BY <2>1, ToldStill
<1>2. ASSUME NEW x \in Sess,
             StartSubSession(x) \/ RegisterSub(x) \/ Joined(x)
             \/ DeleteDynamic(x) \/ DeleteSubscription(x)
             \/ LeaveSubSession(x)
      PROVE  ToldOK'
  <2>1. /\ hpc[x] # "init" /\ hpc'[x] # "init" /\ UNCHANGED <<root, respchan, rmsg, view, runpc>>
        /\ \A y \in Sess \ {x} : hpc'[y] = hpc[y] /\ hcur'[y] = hcur[y] /\ hout'[y] = hout[y]
    BY <1>2 DEF StartSubSession, RegisterSub, Joined,
               DeleteDynamic, DeleteSubscription, LeaveSubSession,
               Register, Begin, TypeOK
  <2> QED
    BY <2>1, ToldMove
<1>3. ASSUME NEW x \in Sess, CloseResponses(x)
      PROVE  ToldOK'
  <2>1. /\ hpc[x] = "unregister" /\ hpc' = [hpc EXCEPT ![x] = "leave"]
        /\ respchan' = [respchan EXCEPT ![x] = <<>>]
        /\ UNCHANGED <<root, rmsg, view, runpc, hcur, hout>>
    BY <1>3 DEF CloseResponses
  <2> SUFFICES ASSUME NEW s \in Subs \ UpdatesOnly
               PROVE  ToldAt(s)'
    BY DEF ToldOK
  <2>2. (Shown(s)' <=> Shown(s)) /\ (SessOf[s] = x => ~ Shown(s)) /\ SessOf[s] \in Sess
    BY <2>1 DEF Shown, TypeOK
  <2>3. Untold(s, respchan[x], rmsg[x], view[s]) => Untold(s, <<>>, rmsg[x], view[s])
    BY DEF Untold
  <2>4. SessOf[s] = x => respchan'[x] = <<>>
    BY <2>1 DEF TypeOK
  <2>5. SessOf[s] # x => respchan'[SessOf[s]] = respchan[SessOf[s]]
    BY <2>1, <2>2
  <2> QED
    BY <2>1, <2>2, <2>3, <2>4, <2>5 DEF ToldOK, ToldAt
<1>4. ASSUME NEW x \in Sess, InitTelemetryUpdate(x)
      PROVE  ToldOK'
  <2>1. /\ hpc[x] = "sync" /\ hpc' = [hpc EXCEPT ![x] = "init"] /\ hcur' = hcur
        /\ UNCHANGED <<root, respchan, rmsg, view, runpc>>
        /\ \A y \in Sess \ {x} : hout'[y] = hout[y]
    BY <1>4 DEF InitTelemetryUpdate, RLock, TypeOK
  <2>2. hcur[x] \in Subs /\ SessOf[hcur[x]] = x
    BY <2>1 DEF HandlerOK, Settling, SubsOf
  <2>3. \A t \in Subs : LET y == SessOf[t]
                       IN  Keeps(t, respchan[y], rmsg[y], view[t], respchan'[y], rmsg'[y], view'[t])
    BY <2>1 DEF Keeps
  <2>4. ASSUME NEW s \in Subs \ UpdatesOnly, s = hcur[x], runpc[s] = "none"
        PROVE  ToldAt(s)'
    <3>1. Untold(s, respchan[x], rmsg[x], view[s])
      BY <2>1, <2>2, <2>4 DEF ToldOK, ToldAt, Shown
    <3>2. CASE hout'[x] = <<SyncResponse(s)>> /\ Snapshot(s) = NoEvent
      <4>1. \A q \in Watch[s] : q \in Paths /\ root[q] = Absent
        BY <3>2 DEF Snapshot, NoEvent, TypeOK, EventCtrlTypeOK, Leaves
      <4>2. \A q \in Watch[s] : Front(s, respchan[x], rmsg[x], view[s], q, root[q])
        BY <3>1, <4>1, FrontUntold DEF TypeOK
      <4>3. \A q \in Watch[s] : Front(s, respchan'[x], rmsg'[x], view'[s], q, root'[q])
        BY <2>1, <4>2
      <4>4. Len(hout'[x]) < 2 /\ hpc'[x] = "init" /\ hcur'[x] = s /\ SessOf[s] = x
        BY <2>1, <2>2, <2>4, <3>2 DEF TypeOK
      <4>5. Shown(s)'
        BY <4>4 DEF Shown
      <4> QED
        BY <2>2, <2>4, <4>3, <4>5 DEF ToldAt
    <3>3. CASE hout'[x] = <<Response(s, Snapshot(s)), SyncResponse(s)>>
      <4>0. Len(hout'[x]) = 2 /\ SessOf[s] = x
        BY <2>2, <2>4, <3>3
      <4>1. ~ Shown(s)'
        BY <4>0 DEF Shown
      <4>2. Untold(s, respchan'[x], rmsg'[x], view'[s])
        BY <2>1, <3>1
      <4> QED
        BY <2>2, <2>4, <4>1, <4>2 DEF ToldAt
    <3> QED
      BY <1>4, <2>4, <3>2, <3>3 DEF InitTelemetryUpdate, TypeOK
  <2> QED
    BY <2>1, <2>2, <2>3, <2>4, ToldInHand DEF TypeOK
<1>5. ASSUME NEW x \in Sess, InitSend(x)
      PROVE  ToldOK'
  <2> DEFINE s == hcur[x]
             m == Head(hout[x])
  <2>1. /\ hpc[x] = "init" /\ hout[x] # <<>> /\ hout' = [hout EXCEPT ![x] = Tail(@)]
        /\ respchan' = [respchan EXCEPT ![x] = Append(@, m)]
        /\ UNCHANGED <<root, rmsg, view, runpc, hpc, hcur>>
    BY <1>5 DEF InitSend
  <2>2. s \in Subs /\ SessOf[s] = x
    BY <2>1 DEF HandlerOK, Settling, SubsOf
  <2>3. \A a, b : Head(<<a, b>>) = a /\ Tail(<<a, b>>) = <<b>> /\ Head(<<a>>) = a /\ Tail(<<a>>) = <<>>
    OBVIOUS
  <2>4. \/ hout[x] = <<SyncResponse(s)>> /\ m = SyncResponse(s) /\ hout'[x] = <<>>
        \/ s \notin UpdatesOnly /\ hout[x] = <<Response(s, Snapshot(s)), SyncResponse(s)>>
           /\ m = Response(s, Snapshot(s)) /\ hout'[x] = <<SyncResponse(s)>>
    <3>1. hout'[x] = Tail(hout[x])
      BY <2>1 DEF TypeOK
    <3>2. \/ hout[x] = <<SyncResponse(s)>>
          \/ s \notin UpdatesOnly /\ hout[x] = <<Response(s, Snapshot(s)), SyncResponse(s)>>
      BY <2>1 DEF InitOK, InitAt
    <3>3. CASE hout[x] = <<SyncResponse(s)>>
      BY <2>3, <3>1, <3>3
    <3>4. CASE s \notin UpdatesOnly /\ hout[x] = <<Response(s, Snapshot(s)), SyncResponse(s)>>
      BY <2>3, <3>1, <3>4
    <3> QED
      BY <3>2, <3>3, <3>4
  <2>5. m \in Messages /\ m.to = s
    BY <2>1, <2>4 DEF TypeOK, Response, SyncResponse
  <2>6. \A t \in Subs \ {hcur[x]} : LET y == SessOf[t]
              IN  Keeps(t, respchan[y], rmsg[y], view[t], respchan'[y], rmsg'[y], view'[t])
    <3> HIDE DEF m
    <3> QED
      BY <2>1, <2>2, <2>5, OthersKeep
  <2>7. ASSUME s \notin UpdatesOnly, runpc[s] = "none"
        PROVE  \A q \in Watch[s] : Front(s, respchan'[x], rmsg'[x], view'[s], q, root'[q])
    <3>1. /\ respchan[x] \in Seq(Messages) /\ respchan'[x] = Append(respchan[x], m)
          /\ \A q \in Watch[s] : q \in Paths /\ root[q] \in Leaves
      BY <2>1, <2>2 DEF TypeOK, EventCtrlTypeOK
    <3>2. CASE hout[x] = <<SyncResponse(s)>> /\ m = SyncResponse(s)
      <4>1. Shown(s)
        BY <2>1, <2>2, <3>2 DEF Shown
      <4>2. \A q \in Watch[s] : Front(s, respchan[x], rmsg[x], view[s], q, root[q])
        BY <2>2, <2>7, <4>1 DEF ToldOK, ToldAt
      <4>3. \A q \in Paths : ToldTo(s, m)[q] = Same
        BY <3>2 DEF ToldTo, SyncResponse, Response, NoEvent
      <4> HIDE DEF m, s
      <4> QED
        BY <2>1, <2>5, <3>1, <4>2, <4>3, FrontAppend
    <3>3. CASE hout[x] = <<Response(s, Snapshot(s)), SyncResponse(s)>> /\ m = Response(s, Snapshot(s))
      <4>1. ~ Shown(s)
        BY <2>1, <2>2, <3>3 DEF Shown
      <4>2. Untold(s, respchan[x], rmsg[x], view[s])
        BY <2>2, <2>7, <4>1 DEF ToldOK, ToldAt
      <4>3. \A q \in Watch[s] : ToldTo(s, m)[q] = IF root[q] = Absent THEN Same ELSE root[q]
        BY <3>1, <3>3 DEF ToldTo, Response, Snapshot
      <4> HIDE DEF m, s
      <4>4. \A q \in Watch[s] : root[q] = Absent => Front(s, respchan[x], rmsg[x], view[s], q, root[q])
        BY <3>1, <4>2, FrontUntold
      <4> QED
        BY <2>1, <2>5, <3>1, <4>3, <4>4, FrontAppend
    <3> QED
      BY <2>4, <3>2, <3>3
  <2>8. \A a : Len(<<a>>) = 1 /\ Len(<<>>) = 0
    OBVIOUS
  <2>9. ASSUME NEW t \in Subs \ UpdatesOnly, t = hcur[x], runpc[t] = "none"
        PROVE  ToldAt(t)'
    <3>1. Len(hout'[x]) < 2
      BY <2>4, <2>8
    <3>2. hpc'[x] = "init" /\ hcur'[x] = t /\ SessOf[t] = x
      BY <2>1, <2>2, <2>9
    <3>3. Shown(t)'
      BY <3>1, <3>2 DEF Shown
    <3> QED
      BY <2>2, <2>7, <2>9, <3>3 DEF ToldAt
  <2> QED
    BY <2>1, <2>2, <2>6, <2>9, ToldInHand DEF TypeOK
<1>6. ASSUME NEW x \in Sess, StartRun(x)
      PROVE  ToldOK'
  <2>1. /\ hpc[x] = "init" /\ hpc'[x] # "init"
        /\ UNCHANGED <<root, respchan, rmsg, view, hout>>
        /\ \A y \in Sess \ {x} : hpc'[y] = hpc[y] /\ hcur'[y] = hcur[y]
        /\ \A t \in Subs : t # hcur[x] => runpc'[t] = runpc[t]
        /\ \A t \in Subs : t = hcur[x] => runpc'[t] # "none"
    BY <1>6 DEF StartRun, RUnlock, TypeOK, Streaming
  <2> SUFFICES ASSUME NEW t \in Subs \ UpdatesOnly, runpc'[t] = "none"
               PROVE  ToldAt(t)'
    BY DEF ToldOK, ToldAt
  <2>2. t # hcur[x] /\ runpc[t] = "none" /\ SessOf[t] \in Sess
    BY <2>1
  <2>3. Shown(t)' <=> Shown(t)
    BY <2>1, <2>2 DEF Shown
  <2> QED
    BY <2>1, <2>2, <2>3 DEF ToldOK, ToldAt
<1>7. ASSUME NEW x \in Sess, InitFails(x)
      PROVE  ToldOK'
  <2>1. /\ hpc[x] = "init" /\ hpc'[x] # "init" /\ Len(hout[x]) = 2
        /\ UNCHANGED <<root, respchan, rmsg, view, runpc>>
        /\ \A y \in Sess \ {x} : hpc'[y] = hpc[y] /\ hcur'[y] = hcur[y] /\ hout'[y] = hout[y]
    BY <1>7 DEF InitFails, RUnlock, TypeOK
  <2> SUFFICES ASSUME NEW t \in Subs \ UpdatesOnly
               PROVE  ToldAt(t)'
    BY DEF ToldOK
  <2>2. (Shown(t)' <=> Shown(t)) /\ SessOf[t] \in Sess
    BY <2>1 DEF Shown
  <2> QED
    BY <2>1, <2>2 DEF ToldOK, ToldAt
<1>8. ASSUME NEW x \in Sess, RespondTake(x)
      PROVE  ToldOK'
  <2>1. UNCHANGED <<hpc, hcur, hout, root, runpc>>
    BY <1>8 DEF RespondTake
  <2> QED
    BY <1>8, <2>1, TakeKeeps, ToldFrame
<1>9. ASSUME NEW x \in Sess, RespondSend(x)
      PROVE  ToldOK'
  <2>1. UNCHANGED <<hpc, hcur, hout, root, runpc>>
    BY <1>9 DEF RespondSend
  <2> QED
    BY <1>9, <2>1, SendKeeps, ToldFrame
<1>10. ASSUME NEW x \in Sess, RespondShutdown(x)
       PROVE  ToldOK'
  <2>1. UNCHANGED <<hpc, hcur, hout, root, runpc, respchan, rmsg, view>>
    BY <1>10 DEF RespondShutdown
  <2> QED
    BY <2>1, ToldStill
<1>11. ASSUME NEW x \in Sess, NEW S \in SUBSET Subs, ProcessSubscribe(x, S) \/ EndOfStream(x, S)
       PROVE  ToldOK'
  <2>1. /\ hpc[x] # "init" /\ hpc'[x] # "init" /\ UNCHANGED <<root, respchan, rmsg, view, runpc>>
        /\ \A y \in Sess \ {x} : hpc'[y] = hpc[y] /\ hcur'[y] = hcur[y] /\ hout'[y] = hout[y]
    BY <1>11 DEF ProcessSubscribe, EndOfStream, TypeOK
  <2> QED
    BY <2>1, ToldMove
<1>12. ASSUME NEW x \in Sess, NEW s \in Subs, AddDynamic(x, s) \/ UnregisterSub(x, s)
       PROVE  ToldOK'
  <2>1. /\ hpc[x] # "init" /\ hpc'[x] # "init" /\ UNCHANGED <<root, respchan, rmsg, view, runpc>>
        /\ \A y \in Sess \ {x} : hpc'[y] = hpc[y] /\ hcur'[y] = hcur[y] /\ hout'[y] = hout[y]
    BY <1>12 DEF AddDynamic, AddEntry, UnregisterSub, Unregister, Begin, eventVars, TypeOK
  <2> QED
    BY <2>1, ToldMove
<1>13. ASSUME NEW x \in Sess, NEW c \in SUBSET Events, SyncCallback(x, c)
       PROVE  ToldOK'
  <2>1. UNCHANGED <<hpc, hcur, hout, root, runpc, respchan, rmsg, view>>
    BY <1>13 DEF SyncCallback, Begin
  <2> QED
    BY <2>1, ToldStill
<1>14. ASSUME NEW s \in Subs,
              RunShutdown(s) \/ RunReceive(s) \/ RunRLock(s) \/ RunFails(s)
       PROVE  ToldOK'
  <2>1. UNCHANGED <<hpc, hcur, hout, root, respchan, rmsg, view>>
        /\ \A t \in Subs : runpc'[t] = "none" => runpc[t] = "none"
    BY <1>14 DEF RunShutdown, RunReceive, RunRLock, RunFails, RLock, TypeOK
  <2> QED
    BY <2>1, ToldStill
<1>15. ASSUME NEW s \in Subs, RunSend(s)
       PROVE  ToldOK'
  <2>1. /\ UNCHANGED <<hpc, hcur, hout, root>> /\ runpc[s] # "none"
        /\ \A t \in Subs : runpc'[t] = "none" => runpc[t] = "none"
    BY <1>15 DEF RunSend, RUnlock, TypeOK
  <2>2. \A t \in Subs \ {s} : LET y == SessOf[t]
              IN  Keeps(t, respchan[y], rmsg[y], view[t], respchan'[y], rmsg'[y], view'[t])
    BY <1>15, RunKeeps
  <2> QED
    BY <2>1, <2>2, ToldFrame
<1>16. ASSUME NEW p \in Writers, NEW c \in SUBSET Events, Write(p, c)
       PROVE  ToldOK'
  <2>1. UNCHANGED <<hpc, hcur, hout, root, runpc, respchan, rmsg, view>>
    BY <1>16 DEF Write, Begin
  <2> QED
    BY <2>1, ToldStill
<1>17. ASSUME NEW m \in Events, SetRPC(m)
       PROVE  ToldOK'
  <2>1. UNCHANGED <<hpc, hcur, hout, runpc, respchan, rmsg, view>> /\ readers = {}
    BY <1>17 DEF SetRPC
  <2> QED
    BY <2>1, ToldStill
<1>18. CASE UNCHANGED vars
  <2>1. UNCHANGED <<hpc, hcur, hout, root, runpc, respchan, rmsg, view>>
    BY <1>18 DEF vars
  <2> QED
    BY <2>1, ToldStill
<1> QED
  BY NextCases, <1>1, <1>2, <1>3, <1>4, <1>5, <1>6, <1>7, <1>8, <1>9, <1>10,
     <1>11, <1>12, <1>13, <1>14, <1>15, <1>16, <1>17, <1>18

-----------------------------------------------------------------------------
(* No change is lost. *)

\* The queue and the tree are left alone, and the front says what it said.
LEMMA FeedFrame ==
    ASSUME FeedOK, TypeOK, UNCHANGED <<root, onchange, pending, runev>>,
           receivers' \subseteq receivers, silent \subseteq silent',
           \A s \in Subs : runpc'[s] # "none" => runpc[s] # "none",
           \A s \in receivers \ UpdatesOnly : \A q \in Watch[s] : runpc[s] # "none" =>
               LET y == SessOf[s]
               IN  Front(s, respchan[y], rmsg[y], view[s], q, root[q])
                     => Front(s, respchan'[y], rmsg'[y], view'[s], q, root[q])
    PROVE  FeedOK'
<1> SUFFICES ASSUME NEW s \in receivers' \ UpdatesOnly, NEW q \in Watch[s] \ silent'
             PROVE  FeedAt(s, q)'
  BY DEF FeedOK
<1> DEFINE y == SessOf[s]
<1>1. s \in receivers \ UpdatesOnly /\ q \in Watch[s] \ silent /\ FeedAt(s, q)
  BY DEF FeedOK
<1>2. s \in Subs => (runpc'[s] # "none" => runpc[s] # "none")
  OBVIOUS
<1>3. runpc[s] # "none" /\ Front(s, respchan[y], rmsg[y], view[s], q, root[q])
        => Front(s, respchan'[y], rmsg'[y], view'[s], q, root[q])
  BY <1>1
<1>4. s \in Subs
  BY <1>1 DEF TypeOK, EventCtrlTypeOK
<1> QED
  BY <1>1, <1>2, <1>3, <1>4 DEF FeedAt

LEMMA FeedKeeps ==
    ASSUME FeedOK, TypeOK, UNCHANGED <<root, onchange, pending, runev>>,
           receivers' \subseteq receivers, silent \subseteq silent',
           \A s \in Subs : runpc'[s] # "none" => runpc[s] # "none",
           \A s \in receivers : LET y == SessOf[s]
                IN  Keeps(s, respchan[y], rmsg[y], view[s], respchan'[y], rmsg'[y], view'[s])
    PROVE  FeedOK'
<1>1. \A s \in receivers : \A q \in Watch[s] : s \in Subs /\ q \in Paths /\ root[q] \in Leaves
  BY DEF TypeOK, EventCtrlTypeOK
<1>2. \A s \in receivers \ UpdatesOnly : \A q \in Watch[s] : runpc[s] # "none" =>
        LET y == SessOf[s]
        IN  Front(s, respchan[y], rmsg[y], view[s], q, root[q])
              => Front(s, respchan'[y], rmsg'[y], view'[s], q, root[q])
  BY <1>1 DEF Keeps
<1> QED
  BY <1>2, FeedFrame

LEMMA FeedStill ==
    ASSUME FeedOK, TypeOK, UNCHANGED <<root, onchange, pending, runev, respchan, rmsg, view>>,
           receivers' \subseteq receivers, silent \subseteq silent',
           \A s \in Subs : runpc'[s] # "none" => runpc[s] # "none"
    PROVE  FeedOK'
BY FeedFrame

\* A change of the tree and its event.
LEMMA FeedRaise ==
    ASSUME FeedOK, TypeOK, QueueOK, ec = Nobody, NEW c \in Events, NEW Q,
           Raise(Restriction(Effective(c), Q)),
           UNCHANGED <<receivers, onchange, runpc, runev, respchan, rmsg, view>>,
           \A q \in Paths \ silent' :
               \/ /\ q \notin Mentioned(Effective(c)) /\ q \notin silent
                  /\ root'[q] = root[q]
               \/ /\ q \in Mentioned(Effective(c)) \cap Q /\ root'[q] = c[q]
                  /\ \A s \in Subs : pending[s][q] = Same
    PROVE  FeedOK'
<1> SUFFICES ASSUME NEW s \in receivers \ UpdatesOnly, NEW q \in Watch[s] \ silent'
             PROVE  FeedAt(s, q)'
  BY DEF FeedOK
<1>1. s \in Subs /\ q \in Paths
  BY DEF TypeOK, EventCtrlTypeOK
<1>2. CASE q \notin Mentioned(Effective(c)) /\ q \notin silent /\ root'[q] = root[q]
  <2>1. pending'[s][q] = pending[s][q]
    BY <1>1, <1>2, RaiseSays
  <2>2. FeedAt(s, q)
    BY <1>2 DEF FeedOK
  <2> QED
    BY <1>2, <2>1, <2>2 DEF FeedAt, Queued, NotQueued
<1>3. CASE q \in Mentioned(Effective(c)) \cap Q /\ root'[q] = c[q] /\ pending[s][q] = Same
  <2>1. pending'[s][q] = c[q]
    BY <1>1, <1>3, RaiseSays
  <2> QED
    BY <1>3, <2>1 DEF FeedAt, Queued
<1> QED
  BY <1>1, <1>2, <1>3

LEMMA FeedWriter ==
    ASSUME FeedOK, TypeOK, QueueOK, NEW p \in Procs, WriterStep(p),
           UNCHANGED <<runpc, runev, respchan, rmsg, view>>
    PROVE  FeedOK'
<1> USE DEF TypeOK, EventCtrlTypeOK
<1>1. CASE Lock(p) \/ Unlock(p) \/ EndEvents(p)
  BY <1>1, FeedStill DEF Lock, Unlock, EndEvents, treeVars, queueVars
<1>2. CASE SetEvent(p)
  <2>1. PICK c \in job[p] :
          /\ root' = Overlay(root, c)
          /\ silent' = silent \ {q \in Mentioned(Effective(c)) : \A s \in Subs : pending[s][q] = Same}
          /\ Raise(Effective(c))
    BY <1>2 DEF SetEvent
  <2>2. c \in Events /\ Raise(Restriction(Effective(c), Paths))
    BY <2>1, RaiseWhole
  <2>3. ec = Nobody /\ UNCHANGED <<receivers, onchange>>
    BY <1>2 DEF SetEvent
  <2>4. \A q \in Paths : q \in silent \/ \A s \in Subs : pending[s][q] = Same
    BY <2>3 DEF QueueOK
  <2>5. ASSUME NEW q \in Paths \ silent'
        PROVE  \/ /\ q \notin Mentioned(Effective(c)) /\ q \notin silent
                  /\ root'[q] = root[q]
               \/ /\ q \in Mentioned(Effective(c)) \cap Paths /\ root'[q] = c[q]
                  /\ \A s \in Subs : pending[s][q] = Same
    BY <2>1, <2>2, <2>4, OverlaySays
  <2> QED
    BY <2>2, <2>3, <2>5, FeedRaise
<1>3. CASE SetEventFails(p)
  <2>1. PICK c \in job[p], Q \in SUBSET Paths :
          /\ root' = IF IsDelete(c) THEN root ELSE Overlay(root, c)
          /\ silent' = silent \cup Mentioned(Effective(c))
          /\ Raise(Restriction(Effective(c), Q))
    BY <1>3 DEF SetEventFails
  <2>2. c \in Events /\ ec = Nobody /\ UNCHANGED <<receivers, onchange>>
    BY <1>3, <2>1 DEF SetEventFails
  <2>3. \A q \in Paths \ silent' : /\ q \notin Mentioned(Effective(c)) /\ q \notin silent
                                  /\ root'[q] = root[q]
    <3> SUFFICES ASSUME NEW q \in Paths \ silent'
                 PROVE  /\ q \notin Mentioned(Effective(c)) /\ q \notin silent
                        /\ root'[q] = root[q]
      OBVIOUS
    <3>1. q \notin Mentioned(Effective(c)) /\ q \notin silent
      BY <2>1
    <3>2. Overlay(root, c)[q] = root[q]
      BY <2>2, <3>1, OverlaySays
    <3> QED
      BY <2>1, <3>1, <3>2
  <2>4. Raise(Restriction(Effective(c), Q))
    BY <2>1
  <2>5. \A q \in Paths \ silent' :
          \/ /\ q \notin Mentioned(Effective(c)) /\ q \notin silent
             /\ root'[q] = root[q]
          \/ /\ q \in Mentioned(Effective(c)) \cap Q /\ root'[q] = c[q]
             /\ \A s \in Subs : pending[s][q] = Same
    BY <2>3
  <2> QED
    BY <2>2, <2>4, <2>5, FeedRaise
<1>4. ASSUME NEW s \in Subs, EventComplete(p, s)
      PROVE  FeedOK'
  <2>1. /\ onchange' = [onchange EXCEPT ![s] = Append(@, pending[s])]
        /\ pending' = [pending EXCEPT ![s] = NoEvent]
        /\ UNCHANGED <<root, silent, receivers>>
    BY <1>4 DEF EventComplete, treeVars
  <2> SUFFICES ASSUME NEW t \in receivers \ UpdatesOnly, NEW q \in Watch[t] \ silent
               PROVE  FeedAt(t, q)'
    BY <2>1 DEF FeedOK
  <2>2. FeedAt(t, q) /\ t \in Subs /\ q \in Paths
    BY DEF FeedOK
  <2>3. CASE t # s
    BY <2>1, <2>2, <2>3 DEF FeedAt
  <2>4. CASE t = s
    <3>1. onchange'[t] = Append(onchange[t], pending[t]) /\ pending'[t] = NoEvent /\ NoEvent[q] = Same
      BY <2>1, <2>2, <2>4 DEF NoEvent
    <3>2. onchange[t] \in Seq(Events) /\ pending[t] \in Events
      BY <2>2
    <3>3. Queued(onchange[t], pending[t], q, root[q]) => Queued(onchange'[t], pending'[t], q, root[q])
      BY <3>1, <3>2, LastAppend DEF Queued
    <3>4. NotQueued(onchange[t], pending[t], q) => NotQueued(onchange'[t], pending'[t], q)
      BY <3>1, <3>2, QuietAppend DEF NotQueued
    <3> QED
      BY <2>1, <2>2, <3>3, <3>4 DEF FeedAt
  <2> QED
    BY <2>3, <2>4
<1> QED
  BY <1>1, <1>2, <1>3, <1>4 DEF WriterStep

\* FeedOK.
LEMMA FeedStep ==
    ASSUME IInv, FeedInv, [Next]_vars
    PROVE  FeedOK'
<1> USE DEF IInv, FeedInv, lockVars, queueVars, writerVars, eventVars, treeVars, handlerVars, runVars,
            responderVars, telemetryVars
<1>1. ASSUME NEW p \in Procs, CallStep(p)
      PROVE  FeedOK'
  BY <1>1, FeedWriter DEF CallStep
<1>2. ASSUME NEW x \in Sess,
             StartSubSession(x) \/ InitTelemetryUpdate(x) \/ InitFails(x)
             \/ Joined(x) \/ DeleteDynamic(x) \/ LeaveSubSession(x)
             \/ RespondShutdown(x)
      PROVE  FeedOK'
  BY <1>2, FeedStill DEF StartSubSession, InitTelemetryUpdate, InitFails, Joined,
     DeleteDynamic, LeaveSubSession, RespondShutdown, RLock, RUnlock, Begin
<1>3. ASSUME NEW x \in Sess, RegisterSub(x)
      PROVE  FeedOK'
  <2>1. /\ receivers' = receivers \cup {hcur[x]}
        /\ UNCHANGED <<root, silent, onchange, pending, runpc, runev, respchan, rmsg, view>>
    BY <1>3 DEF RegisterSub, Register
  <2>2. hcur[x] \in Subs /\ SessOf[hcur[x]] = x /\ hpc[x] \notin Joint
    BY <1>3 DEF RegisterSub, HandlerOK, Settling, SubsOf, Joint
  <2> SUFFICES ASSUME NEW s \in receivers' \ UpdatesOnly, NEW q \in Watch[s] \ silent, s \notin receivers
               PROVE  FeedAt(s, q)'
    BY <2>1 DEF FeedOK, FeedAt
  <2>3. s = hcur[x] /\ q \in Paths
    BY <2>1, <2>2 DEF TypeOK, EventCtrlTypeOK
  <2>4. runpc[s] = "none" /\ pending[s] = NoEvent /\ onchange[s] = <<>>
    BY <2>2, <2>3 DEF QueueOK
  <2>5. NotQueued(onchange[s], pending[s], q)
    BY <2>3, <2>4 DEF NotQueued, NoEvent, Quiet
  <2> QED
    BY <2>1, <2>4, <2>5 DEF FeedAt
<1>4. ASSUME NEW x \in Sess, InitSend(x)
      PROVE  FeedOK'
  <2> DEFINE s == hcur[x]
             m == Head(hout[x])
  <2>1. /\ hpc[x] = "init" /\ hout[x] # <<>> /\ respchan' = [respchan EXCEPT ![x] = Append(@, m)]
        /\ UNCHANGED <<root, silent, receivers, onchange, pending, runpc, runev, rmsg, view>>
    BY <1>4 DEF InitSend
  <2>2. s \in Subs /\ SessOf[s] = x
    BY <2>1 DEF HandlerOK, Settling, SubsOf
  <2>3. \A a, b : Head(<<a, b>>) = a /\ Head(<<a>>) = a
    OBVIOUS
  <2>4. m = SyncResponse(s) \/ (s \notin UpdatesOnly /\ m = Response(s, Snapshot(s)))
    BY <2>1, <2>3 DEF InitOK, InitAt
  <2>5. m \in Messages /\ m.to = s
    BY <2>1, <2>4 DEF TypeOK, Response, SyncResponse
  <2>6. \A q \in Watch[s] : ToldTo(s, m)[q] = Same \/ ToldTo(s, m)[q] = root[q]
    <3>1. \A q \in Watch[s] : q \in Paths
      BY <2>2
    <3> QED
      BY <2>4, <3>1 DEF ToldTo, Response, SyncResponse, Snapshot, NoEvent
  <2> HIDE DEF m, s
  <2>7. ASSUME NEW t \in receivers \ UpdatesOnly, NEW q \in Watch[t], NEW y, y = SessOf[t],
               Front(t, respchan[y], rmsg[y], view[t], q, root[q])
        PROVE  Front(t, respchan'[y], rmsg'[y], view'[t], q, root[q])
    <3>1. t \in Subs /\ q \in Paths /\ root[q] \in Leaves /\ respchan[y] \in Seq(Messages) /\ y \in Sess
      BY <2>7 DEF TypeOK, EventCtrlTypeOK
    <3>2. CASE t = s
      <4>1. y = x
        BY <2>2, <2>7, <3>2
      <4>2. respchan'[y] = Append(respchan[y], m) /\ rmsg'[y] = rmsg[y] /\ view'[t] = view[t]
        BY <2>1, <3>1, <4>1 DEF TypeOK
      <4>3. ToldTo(t, m)[q] = Same \/ ToldTo(t, m)[q] = root[q]
        BY <2>6, <3>2
      <4> QED
        BY <2>5, <2>7, <3>1, <4>2, <4>3, FrontAppend
    <3>3. CASE t # s
      <4>1. Keeps(t, respchan[y], rmsg[y], view[t], respchan'[y], rmsg'[y], view'[t])
        BY <2>1, <2>5, <2>7, <3>1, <3>3, OthersKeep
      <4> QED
        BY <2>7, <3>1, <4>1 DEF Keeps
    <3> QED
      BY <3>2, <3>3
  <2> QED
    BY <2>1, <2>7, FeedFrame
<1>5. ASSUME NEW x \in Sess, StartRun(x)
      PROVE  FeedOK'
  <2>1. /\ hpc[x] = "init" /\ hout[x] = <<>>
        /\ UNCHANGED <<root, silent, receivers, onchange, pending, runev, respchan, rmsg, view>>
        /\ \A t \in Subs : t # hcur[x] => runpc'[t] = runpc[t]
    BY <1>5 DEF StartRun, RUnlock, TypeOK
  <2>2. hcur[x] \in Subs /\ SessOf[hcur[x]] = x
    BY <2>1 DEF HandlerOK, Settling, SubsOf
  <2> SUFFICES ASSUME NEW s \in receivers \ UpdatesOnly, NEW q \in Watch[s] \ silent
               PROVE  FeedAt(s, q)'
    BY <2>1 DEF FeedOK
  <2>3. FeedAt(s, q) /\ s \in Subs /\ q \in Paths
    BY DEF FeedOK, TypeOK, EventCtrlTypeOK
  <2>4. CASE s # hcur[x] \/ runpc[s] # "none"
    BY <2>1, <2>3, <2>4 DEF FeedAt
  <2>5. CASE s = hcur[x] /\ runpc[s] = "none"
    <3>1. Shown(s)
      BY <2>1, <2>2, <2>5 DEF Shown
    <3>2. Front(s, respchan[x], rmsg[x], view[s], q, root[q])
      BY <2>2, <2>3, <2>5, <3>1 DEF ToldOK, ToldAt
    <3>3. runev[s][q] = Same
      BY <2>3, <2>5 DEF RouteOK, NoEvent
    <3> QED
      BY <2>1, <2>2, <2>3, <2>5, <3>2, <3>3 DEF FeedAt
  <2> QED
    BY <2>4, <2>5
<1>6. ASSUME NEW x \in Sess, DeleteSubscription(x)
      PROVE  FeedOK'
  <2>1. /\ onchange' = [onchange EXCEPT ![hcur[x]] = <<>>] /\ hpc[x] = "delsub"
        /\ UNCHANGED <<root, silent, receivers, pending, runpc, runev, respchan, rmsg, view>>
    BY <1>6 DEF DeleteSubscription
  <2>2. hcur[x] \notin receivers
    BY <2>1 DEF SubsOK
  <2>3. \A s \in receivers : onchange'[s] = onchange[s]
    BY <2>1, <2>2 DEF TypeOK, EventCtrlTypeOK
  <2> QED
    BY <2>1, <2>3 DEF FeedOK, FeedAt
<1>7. ASSUME NEW x \in Sess, CloseResponses(x)
      PROVE  FeedOK'
  <2>1. /\ respchan' = [respchan EXCEPT ![x] = <<>>] /\ \A s \in SubsOf(x) : sub[s] # "live"
        /\ UNCHANGED <<root, silent, receivers, onchange, pending, runpc, runev, rmsg, view>>
    BY <1>7 DEF CloseResponses
  <2>2. \A s \in receivers : s \in Subs /\ SessOf[s] # x
    BY <2>1 DEF LiveReceivers, SubsOf
  <2>3. \A s \in receivers : respchan'[SessOf[s]] = respchan[SessOf[s]]
    BY <2>1, <2>2 DEF TypeOK
  <2> QED
    BY <2>1, <2>3 DEF FeedOK, FeedAt
<1>8. ASSUME NEW x \in Sess, RespondTake(x)
      PROVE  FeedOK'
  <2>1. UNCHANGED <<root, silent, receivers, onchange, pending, runpc, runev>>
    BY <1>8 DEF RespondTake
  <2>2. \A s \in receivers : s \in Subs
    BY DEF TypeOK, EventCtrlTypeOK
  <2> QED
    BY <1>8, <2>1, <2>2, TakeKeeps, FeedKeeps
<1>9. ASSUME NEW x \in Sess, RespondSend(x)
      PROVE  FeedOK'
  <2>1. UNCHANGED <<root, silent, receivers, onchange, pending, runpc, runev>>
    BY <1>9 DEF RespondSend
  <2>2. \A s \in receivers : s \in Subs
    BY DEF TypeOK, EventCtrlTypeOK
  <2> QED
    BY <1>9, <2>1, <2>2, SendKeeps, FeedKeeps
<1>10. ASSUME NEW x \in Sess, NEW S \in SUBSET Subs, ProcessSubscribe(x, S) \/ EndOfStream(x, S)
       PROVE  FeedOK'
  BY <1>10, FeedStill DEF ProcessSubscribe, EndOfStream
<1>11. ASSUME NEW x \in Sess, NEW s \in Subs, AddDynamic(x, s) \/ UnregisterSub(x, s)
       PROVE  FeedOK'
  BY <1>11, FeedStill DEF AddDynamic, AddEntry, UnregisterSub, Unregister, Begin, eventVars
<1>12. ASSUME NEW x \in Sess, NEW c \in SUBSET Events, SyncCallback(x, c)
       PROVE  FeedOK'
  BY <1>12, FeedStill DEF SyncCallback, Begin
<1>13. ASSUME NEW s \in Subs, RunShutdown(s) \/ RunRLock(s)
       PROVE  FeedOK'
  BY <1>13, FeedStill DEF RunShutdown, RunRLock, RLock, TypeOK
<1>14. ASSUME NEW s \in Subs, RunReceive(s)
       PROVE  FeedOK'
  <2>1. /\ runpc[s] = "select" /\ onchange[s] # <<>>
        /\ runev' = [runev EXCEPT ![s] = Head(onchange[s])]
        /\ onchange' = [onchange EXCEPT ![s] = Tail(@)]
        /\ UNCHANGED <<root, silent, receivers, pending, respchan, rmsg, view>>
        /\ \A t \in Subs : t # s => runpc'[t] = runpc[t]
    BY <1>14 DEF RunReceive, TypeOK
  <2> SUFFICES ASSUME NEW t \in receivers \ UpdatesOnly, NEW q \in Watch[t] \ silent
               PROVE  FeedAt(t, q)'
    BY <2>1 DEF FeedOK
  <2>2. FeedAt(t, q) /\ t \in Subs /\ q \in Paths
    BY DEF FeedOK, TypeOK, EventCtrlTypeOK
  <2>3. CASE t # s
    BY <2>1, <2>2, <2>3 DEF FeedAt, TypeOK, EventCtrlTypeOK
  <2>4. CASE t = s
    <3> DEFINE evs == onchange[s]
    <3>1. evs \in Seq(Events) /\ evs # <<>> /\ onchange'[s] = Tail(evs) /\ runev'[s] = Head(evs)
      BY <2>1 DEF TypeOK, EventCtrlTypeOK
    <3>2. runev[s][q] = Same
      BY <2>1, <2>2 DEF RouteOK, NoEvent
    <3> HIDE DEF evs
    <3>3. CASE Queued(evs, pending[s], q, root[q])
      <4>1. Queued(Tail(evs), pending[s], q, root[q])
            \/ (NotQueued(Tail(evs), pending[s], q) /\ Head(evs)[q] = root[q])
        BY <3>1, <3>3, LastTail DEF Queued, NotQueued
      <4> QED
        BY <2>1, <2>4, <3>1, <4>1 DEF FeedAt
    <3>4. CASE NotQueued(evs, pending[s], q) /\ ~ Queued(evs, pending[s], q, root[q])
      <4>1. NotQueued(Tail(evs), pending[s], q) /\ Head(evs)[q] = Same
        BY <3>1, <3>4, QuietTail DEF NotQueued
      <4>2. LET y == SessOf[s]
            IN  runev[s][q] = root[q] \/ Front(s, respchan[y], rmsg[y], view[s], q, root[q])
        BY <2>1, <2>2, <2>4, <3>4 DEF FeedAt, evs
      <4>3. root[q] # Same
        BY <2>2 DEF TypeOK, EventCtrlTypeOK, Leaves
      <4> QED
        BY <2>1, <2>4, <3>1, <3>2, <4>1, <4>2, <4>3 DEF FeedAt
    <3> QED
      BY <2>2, <2>4, <3>3, <3>4 DEF FeedAt, evs
  <2> QED
    BY <2>3, <2>4
<1>15. ASSUME NEW s \in Subs, RunSend(s)
       PROVE  FeedOK'
  <2> DEFINE x == SessOf[s]
             m == Response(s, runev[s])
  <2>1. /\ runpc[s] = "send" /\ runev' = [runev EXCEPT ![s] = NoEvent]
        /\ respchan' = [respchan EXCEPT ![x] = Append(@, m)]
        /\ UNCHANGED <<root, silent, receivers, onchange, pending, rmsg, view>>
        /\ \A t \in Subs : t # s => runpc'[t] = runpc[t]
    BY <1>15 DEF RunSend, RUnlock, TypeOK
  <2> SUFFICES ASSUME NEW t \in receivers \ UpdatesOnly, NEW q \in Watch[t] \ silent
               PROVE  FeedAt(t, q)'
    BY <2>1 DEF FeedOK
  <2>2. FeedAt(t, q) /\ t \in Subs /\ q \in Paths /\ root[q] \in Leaves
    BY DEF FeedOK, TypeOK, EventCtrlTypeOK
  <2>3. CASE t # s
    <3> DEFINE y == SessOf[t]
    <3>1. Keeps(t, respchan[y], rmsg[y], view[t], respchan'[y], rmsg'[y], view'[t])
      BY <1>15, <2>2, <2>3, RunKeeps
    <3>2. runev'[t] = runev[t] /\ runpc'[t] = runpc[t]
      BY <2>1, <2>2, <2>3
    <3> QED
      BY <2>1, <2>2, <3>1, <3>2 DEF FeedAt, Keeps
  <2>4. CASE t = s
    <3>1. /\ m \in Messages /\ ToldTo(s, m) = runev[s] /\ respchan[x] \in Seq(Messages) /\ x \in Sess
          /\ runev'[s] = NoEvent /\ NoEvent[q] = Same
      BY <2>1, <2>2 DEF TypeOK, Messages, Response, ToldTo, NoEvent
    <3>2. respchan'[x] = Append(respchan[x], m)
      BY <2>1, <3>1 DEF TypeOK
    <3> HIDE DEF m, x
    <3>3. (runev[s][q] = root[q] \/ (runev[s][q] = Same /\ Front(s, respchan[x], rmsg[x], view[s], q, root[q])))
            => Front(s, respchan'[x], rmsg[x], view[s], q, root[q])
      BY <3>1, <3>2, FrontAppend
    <3> QED
      BY <2>1, <2>2, <2>4, <3>1, <3>3 DEF FeedAt, x
  <2> QED
    BY <2>3, <2>4
<1>16. ASSUME NEW s \in Subs, RunFails(s)
       PROVE  FeedOK'
  <2>1. /\ runpc[s] = "send" /\ runev' = [runev EXCEPT ![s] = NoEvent]
        /\ silent' = silent \cup Mentioned(runev[s])
        /\ UNCHANGED <<root, receivers, onchange, pending, respchan, rmsg, view>>
        /\ \A t \in Subs : t # s => runpc'[t] = runpc[t]
    BY <1>16 DEF RunFails, TypeOK
  <2> SUFFICES ASSUME NEW t \in receivers \ UpdatesOnly, NEW q \in Watch[t] \ silent'
               PROVE  FeedAt(t, q)'
    BY <2>1 DEF FeedOK
  <2>2. FeedAt(t, q) /\ t \in Subs /\ q \in Paths
    BY <2>1 DEF FeedOK, TypeOK, EventCtrlTypeOK
  <2>3. CASE t # s
    BY <2>1, <2>2, <2>3 DEF FeedAt, TypeOK
  <2>4. CASE t = s
    <3>1. runev[s][q] = Same /\ runev'[s][q] = Same /\ root[q] # Same
      BY <2>1, <2>2, <2>4 DEF Mentioned, NoEvent, TypeOK, EventCtrlTypeOK, Leaves
    <3> QED
      BY <2>1, <2>2, <2>4, <3>1 DEF FeedAt
  <2> QED
    BY <2>3, <2>4
<1>17. ASSUME NEW p \in Writers, NEW c \in SUBSET Events, Write(p, c)
       PROVE  FeedOK'
  BY <1>17, FeedStill DEF Write, Begin
<1>18. ASSUME NEW m \in Events, SetRPC(m)
       PROVE  FeedOK'
  <2>1. /\ root' = Overlay(root, m) /\ silent' = silent \cup Mentioned(Effective(m))
        /\ UNCHANGED <<receivers, onchange, pending, runpc, runev, respchan, rmsg, view>>
    BY <1>18 DEF SetRPC
  <2> SUFFICES ASSUME NEW t \in receivers \ UpdatesOnly, NEW q \in Watch[t] \ silent'
               PROVE  FeedAt(t, q)'
    BY <2>1 DEF FeedOK
  <2>2. FeedAt(t, q) /\ q \in Paths
    BY <2>1 DEF FeedOK, TypeOK, EventCtrlTypeOK
  <2>3. root'[q] = root[q]
    BY <2>1, <2>2, OverlaySays
  <2> QED
    BY <2>1, <2>2, <2>3 DEF FeedAt
<1>19. CASE UNCHANGED vars
  BY <1>19, FeedStill DEF vars
<1> QED
  BY NextCases, <1>1, <1>2, <1>3, <1>4, <1>5, <1>6, <1>7, <1>8, <1>9, <1>10,
     <1>11, <1>12, <1>13, <1>14, <1>15, <1>16, <1>17, <1>18, <1>19

-----------------------------------------------------------------------------
LEMMA FeedInit == Init => FeedInv
<1> SUFFICES ASSUME Init PROVE FeedInv
  OBVIOUS
<1> USE DEF Init, EventCtrlInit
<1>1. LockOK
  BY DEF LockOK
<1>2. QueueOK
  BY DEF QueueOK, NoEvent
<1>3. RouteOK
  BY DEF RouteOK, NoMessage
<1>4. InitOK
  BY DEF InitOK, InitAt
<1>5. ToldOK
  <2>1. \A s \in Subs : ~ Shown(s)
    BY DEF Shown
  <2>2. NoMessage.to = Nobody
    BY DEF NoMessage
  <2>3. \A s \in Subs : Untold(s, respchan[SessOf[s]], rmsg[SessOf[s]], view[s])
    BY <2>2 DEF Untold
  <2> QED
    BY <2>1, <2>3 DEF ToldOK, ToldAt
<1>6. FeedOK
  BY DEF FeedOK
<1> QED
  BY <1>1, <1>2, <1>3, <1>4, <1>5, <1>6 DEF FeedInv

LEMMA FeedInvStep == IInv /\ FeedInv /\ [Next]_vars => FeedInv'
BY LockStep, QueueStep, RouteStep, InitStep, ToldStep, FeedStep DEF FeedInv

\* The parts of the invariant are those of the pipeline.
LEMMA FeedPipeline ==
    ASSUME IInv, FeedInv
    PROVE  NothingLost
<1> USE DEF IInv, FeedInv
<1> SUFFICES ASSUME NEW s \in Subs, Streaming(s), s \notin UpdatesOnly, NEW q \in Watch[s] \ silent
             PROVE  LastMention(Pipeline(s), q, root[q])
  BY DEF NothingLost
<1> DEFINE x == SessOf[s]
           A == <<view[s], ToldTo(s, rmsg[x])>>
           B == ToldIn(s, respchan[x])
           C == <<runev[s]>>
           D == onchange[s]
           E == <<pending[s]>>
<1>1. s \in receivers /\ runpc[s] # "none"
  <2>1. hpc[SessOf[s]] \notin Joint
    BY DEF JoinedOK, SubsOf
  <2> QED
    BY <2>1 DEF QueueOK, Streaming
<1>2. FeedAt(s, q)
  BY <1>1 DEF FeedOK
<1>3. x \in Sess /\ q \in Paths /\ root[q] \in Leaves /\ root[q] # Same
  BY DEF TypeOK, EventCtrlTypeOK, Leaves
<1>4. view[s] \in Events /\ ToldTo(s, rmsg[x]) \in Events /\ runev[s] \in Events /\ pending[s] \in Events
  BY <1>3, ToldType DEF TypeOK, EventCtrlTypeOK, Events
<1>5. A \in Seq(Events) /\ C \in Seq(Events) /\ E \in Seq(Events)
  BY <1>4
<1>6. B \in Seq(Events) /\ D \in Seq(Events)
  BY <1>3, ToldInType DEF TypeOK, EventCtrlTypeOK
<1>7. Pipeline(s) = A \o B \o C \o D \o E
  BY DEF Pipeline, ToldIn
<1>8. ASSUME NEW e \in Events
      PROVE  (e[q] = root[q] => LastMention(<<e>>, q, root[q])) /\ (e[q] = Same => Quiet(<<e>>, q))
  BY DEF LastMention, Quiet
<1>9. ASSUME NEW d \in Events, NEW e \in Events, e[q] = root[q] \/ (e[q] = Same /\ d[q] = root[q])
      PROVE  LastMention(<<d, e>>, q, root[q])
  <2>1. Len(<<d, e>>) = 2 /\ <<d, e>>[1] = d /\ <<d, e>>[2] = e /\ DOMAIN <<d, e>> = 1 .. 2
    OBVIOUS
  <2> QED
    BY <1>9, <2>1 DEF LastMention
<1>10. /\ A \o B \in Seq(Events) /\ A \o B \o C \in Seq(Events) /\ A \o B \o C \o D \in Seq(Events)
  BY <1>5, <1>6
<1>11. Front(s, respchan[x], rmsg[x], view[s], q, root[q]) => LastMention(A \o B, q, root[q])
  <2>1. LastMention(B, q, root[q]) \/ (Quiet(B, q) /\ LastMention(A, q, root[q]))
          => LastMention(A \o B, q, root[q])
    <3> HIDE DEF A, B
    <3> QED
      BY <1>5, <1>6, LastConcat
  <2> QED
    BY <1>4, <1>9, <2>1 DEF Front
<1>12. runev[s][q] = root[q] \/ (runev[s][q] = Same /\ Front(s, respchan[x], rmsg[x], view[s], q, root[q]))
         => LastMention(A \o B \o C, q, root[q])
  <2>1. LastMention(C, q, root[q]) \/ (Quiet(C, q) /\ LastMention(A \o B, q, root[q]))
          => LastMention(A \o B \o C, q, root[q])
    <3> HIDE DEF A, B, C
    <3> QED
      BY <1>5, <1>10, LastConcat
  <2> QED
    BY <1>4, <1>8, <1>11, <2>1
<1>13. LastMention(D, q, root[q]) \/ (Quiet(D, q) /\ LastMention(A \o B \o C, q, root[q]))
         => LastMention(A \o B \o C \o D, q, root[q])
  <2> HIDE DEF A, B, C, D
  <2> QED
    BY <1>6, <1>10, LastConcat
<1>14. LastMention(E, q, root[q]) \/ (Quiet(E, q) /\ LastMention(A \o B \o C \o D, q, root[q]))
         => LastMention(A \o B \o C \o D \o E, q, root[q])
  <2> HIDE DEF A, B, C, D, E
  <2> QED
    BY <1>5, <1>10, LastConcat
<1>15. pending[s][q] = root[q] => LastMention(E, q, root[q])
  BY <1>4, <1>8
<1>16. pending[s][q] = Same => Quiet(E, q)
  BY <1>4, <1>8
<1> HIDE DEF A, B, C, E
<1> QED
  BY <1>1, <1>2, <1>7, <1>12, <1>13, <1>14, <1>15, <1>16 DEF FeedAt, Queued, NotQueued

\* For every leaf that a subscriber watches, the last that its client was told, or
\* will be told from what is on its way, is what the tree holds: the event being
\* assembled, the events of onchange, the one run() has, the responses of respchan
\* and the one being sent lose and overtake nothing, and the snapshot of
\* initTelemetryUpdate fits in.  (SetEvent, EventReceive, EventComplete, run,
\* telemetryUpdate, initTelemetryUpdate, Subscribe)
THEOREM ClientsMissNothing == Spec => []NothingLost
<1>1. Init => FeedInv
  BY FeedInit
<1>2. IInv /\ FeedInv => NothingLost
  BY FeedPipeline
<1> QED
  BY <1>1, <1>2, FeedInvStep, Invariance, PTL DEF Spec

-----------------------------------------------------------------------------
(* The parts together are one queue: ChangeFeed.                            *)

\* A subscriber has a pending event only while it is in ready, and unless something
\* failed nobody is there outside SetEvent().
PendingOK ==
    /\ \A s \in receivers \ ready : pending[s] = NoEvent
    /\ ~ Faults /\ ec = Nobody => ready = {}

LEMMA PendingFrame ==
    ASSUME PendingOK, UNCHANGED <<ec, receivers, ready, pending>>
    PROVE  PendingOK'
BY DEF PendingOK

LEMMA PendingRaise ==
    ASSUME TypeOK, PendingOK, NEW chg, Raise(chg), receivers' = receivers, Faults \/ ec' # Nobody
    PROVE  PendingOK'
<1> DEFINE hit == {s \in receivers : Restriction(chg, Watch[s]) # NoEvent}
<1>1. /\ ready' = ready \cup hit
      /\ \A s \in Subs : pending'[s] =
           IF s \in hit THEN Collect(pending[s], Restriction(chg, Watch[s])) ELSE pending[s]
  BY DEF Raise
<1> HIDE DEF hit
<1>2. receivers \subseteq Subs
  BY DEF TypeOK, EventCtrlTypeOK
<1> QED
  BY <1>1, <1>2 DEF PendingOK

LEMMA PendingCall ==
    ASSUME IInv, PendingOK, NEW p \in Procs, CallStep(p)
    PROVE  PendingOK'
<1> USE DEF IInv, TypeOK, EventCtrlTypeOK, queueVars, CallStep
<1>1. CASE Lock(p) \/ Unlock(p)
  BY <1>1, PendingFrame DEF Lock, Unlock
<1>2. CASE SetEvent(p)
  <2>1. PICK c \in job[p] : Raise(Effective(c))
    BY <1>2 DEF SetEvent
  <2>2. receivers' = receivers /\ ec' = p
    BY <1>2 DEF SetEvent
  <2> QED
    BY <2>1, <2>2, PendingRaise
<1>3. CASE SetEventFails(p)
  <2>1. PICK c \in job[p], Q \in SUBSET Paths : Raise(Restriction(Effective(c), Q))
    BY <1>3 DEF SetEventFails
  <2>2. receivers' = receivers /\ Faults
    BY <1>3 DEF SetEventFails
  <2> QED
    BY <2>1, <2>2, PendingRaise
<1>4. CASE \E s \in Subs : EventComplete(p, s)
  <2>1. PICK s \in Subs : EventComplete(p, s)
    BY <1>4
  <2>2. /\ pending' = [pending EXCEPT ![s] = NoEvent] /\ ready' = ready \ {s}
        /\ UNCHANGED <<ec, receivers>>
    BY <2>1 DEF EventComplete
  <2> QED
    BY <2>2 DEF PendingOK
<1>5. CASE EndEvents(p)
  BY <1>5 DEF EndEvents, PendingOK
<1> QED
  BY <1>1, <1>2, <1>3, <1>4, <1>5 DEF WriterStep

\* PendingOK.
LEMMA PendingStep ==
    ASSUME IInv, FeedInv, PendingOK, [Next]_vars
    PROVE  PendingOK'
<1> USE DEF IInv, TypeOK, EventCtrlTypeOK, lockVars, queueVars, writerVars, eventVars, treeVars
<1>1. ASSUME NEW p \in Procs, CallStep(p)
      PROVE  PendingOK'
  BY <1>1, PendingCall
<1>2. ASSUME NEW x \in Sess, RegisterSub(x)
      PROVE  PendingOK'
  <2> DEFINE s == hcur[x]
  <2>1. s \in Subs /\ SessOf[s] = x /\ hpc[x] = "register"
    BY <1>2 DEF RegisterSub, HandlerOK, Settling, SubsOf
  <2>2. receivers' = receivers \cup {s} /\ UNCHANGED <<ec, ready, pending>>
    BY <1>2 DEF RegisterSub, Register
  <2>3. s \notin receivers => pending[s] = NoEvent
    BY <2>1 DEF FeedInv, QueueOK, Joint
  <2> QED
    BY <2>2, <2>3 DEF PendingOK
<1>3. ASSUME NEW x \in Sess, NEW s \in Subs, UnregisterSub(x, s)
      PROVE  PendingOK'
  BY <1>3 DEF UnregisterSub, Unregister, PendingOK
<1>4. ASSUME NEW x \in Sess,
             \/ StartSubSession(x) \/ InitTelemetryUpdate(x) \/ InitSend(x) \/ StartRun(x)
             \/ Joined(x) \/ DeleteDynamic(x) \/ DeleteSubscription(x) \/ CloseResponses(x)
             \/ LeaveSubSession(x) \/ InitFails(x)
             \/ RespondTake(x) \/ RespondSend(x) \/ RespondShutdown(x)
      PROVE  PendingOK'
  BY <1>4, PendingFrame DEF StartSubSession, InitTelemetryUpdate, InitSend, StartRun,
     Joined, DeleteDynamic, DeleteSubscription, CloseResponses, LeaveSubSession, InitFails,
     RespondTake, RespondSend, RespondShutdown, RLock, RUnlock, Begin
<1>5. ASSUME NEW x \in Sess, NEW S \in SUBSET Subs, ProcessSubscribe(x, S) \/ EndOfStream(x, S)
      PROVE  PendingOK'
  BY <1>5, PendingFrame DEF ProcessSubscribe, EndOfStream
<1>6. ASSUME NEW x \in Sess, NEW s \in Subs, AddDynamic(x, s)
      PROVE  PendingOK'
  BY <1>6, PendingFrame DEF AddDynamic, AddEntry, Begin, eventVars
<1>7. ASSUME NEW x \in Sess, NEW c \in SUBSET Events, SyncCallback(x, c)
      PROVE  PendingOK'
  BY <1>7, PendingFrame DEF SyncCallback, Begin
<1>8. ASSUME NEW s \in Subs,
             RunShutdown(s) \/ RunReceive(s) \/ RunRLock(s) \/ RunSend(s) \/ RunFails(s)
      PROVE  PendingOK'
  BY <1>8, PendingFrame DEF RunShutdown, RunReceive, RunRLock, RunSend, RunFails, RLock, RUnlock
<1>9. ASSUME NEW p \in Writers, NEW c \in SUBSET Events, Write(p, c)
      PROVE  PendingOK'
  BY <1>9, PendingFrame DEF Write, Begin
<1>10. ASSUME NEW m \in Events, SetRPC(m)
       PROVE  PendingOK'
  BY <1>10, PendingFrame DEF SetRPC
<1>11. CASE UNCHANGED vars
  BY <1>11, PendingFrame DEF vars
<1> QED
  BY NextCases, <1>1, <1>2, <1>3, <1>4, <1>5, <1>6, <1>7, <1>8, <1>9, <1>10, <1>11

\* The variables of ChangeFeed.
DueNow == [s \in Subs |-> Due(s)]
Streams == {s \in Subs : Streaming(s)}
Mapped == <<root, receivers, DueNow, Streams, Unsent, ready, Sent, view>>

\* One step of ChangeFeed, or none.
Follows == Feed!Next \/ UNCHANGED Mapped

\* The definitions that ChangeFeed has of its own.
LEMMA FeedSame ==
    /\ Feed!NoEvent = NoEvent /\ Feed!Trees = [Paths -> Leaves]
    /\ \A s : Feed!Snapshot(s) = Snapshot(s)
    /\ \A old, chg : Feed!Overlay(old, chg) = Overlay(old, chg)
    /\ \A old, chg : Feed!Collect(old, chg) = Collect(old, chg)
BY DEF Feed!NoEvent, NoEvent, Feed!Trees, Feed!Leaves, Leaves, Feed!Snapshot, Snapshot,
       Feed!Overlay, Overlay, Feed!Collect, Collect

LEMMA DueAt ==
    ASSUME NEW s \in Subs,
           NEW x, x = SessOf[s], hpc'[x] = hpc[x], hcur'[x] = hcur[x], hout'[x] = hout[x]
    PROVE  Due(s)' = Due(s)
<1>1. CASE hpc[x] = "init" /\ hcur[x] = s
  BY <1>1 DEF Due
<1>2. CASE ~ (hpc[x] = "init" /\ hcur[x] = s)
  BY <1>2 DEF Due
<1> QED
  BY <1>1, <1>2

\* The handler leaves its subscribers alone.
LEMMA DueFrame ==
    ASSUME NEW x, \A y \in Sess \ {x} : hpc'[y] = hpc[y] /\ hcur'[y] = hcur[y] /\ hout'[y] = hout[y],
           hpc[x] # "init", hpc'[x] # "init"
    PROVE  DueNow' = DueNow
<1>1. ASSUME NEW s \in Subs PROVE Due(s)' = Due(s)
  <2>1. SessOf[s] \in Sess
    OBVIOUS
  <2>2. CASE SessOf[s] = x
    BY <2>2 DEF Due
  <2>3. CASE SessOf[s] # x
    BY <2>1, <2>3, DueAt
  <2> QED
    BY <2>2, <2>3
<1> QED
  BY <1>1 DEF DueNow

LEMMA DueStill ==
    ASSUME UNCHANGED <<hpc, hcur, hout>>
    PROVE  DueNow' = DueNow
BY DueAt DEF DueNow

LEMMA StreamsStill ==
    ASSUME \A s \in Subs : Streaming(s)' <=> Streaming(s)
    PROVE  Streams' = Streams
BY DEF Streams

LEMMA UnsentStill ==
    ASSUME \A s \in Subs : Unsent'[s] = Unsent[s]
    PROVE  Unsent' = Unsent
BY DEF Unsent

LEMMA SentStill ==
    ASSUME UNCHANGED <<rpc, rmsg, respchan>>
    PROVE  Sent' = Sent
BY DEF Sent

\* Whether run() has an event in hand does not change.
LEMMA QueuesStill ==
    ASSUME UNCHANGED <<runev, onchange, pending, ready>>,
           \A s \in Subs : runpc'[s] \in {"rlock", "send"} <=> runpc[s] \in {"rlock", "send"}
    PROVE  Unsent' = Unsent
BY DEF Unsent, InHand, Assembled

\* What the queues of ChangeFeed are made of.
LEMMA UnsentIs ==
    \A s \in Subs : /\ Unsent[s] = InHand(s) \o onchange[s] \o Assembled(s)
                    /\ Unsent'[s] = InHand(s)' \o onchange'[s] \o Assembled(s)'
BY DEF Unsent

LEMMA JoinNothing == \A T : \A A \in Seq(T) : A \o <<>> = A /\ <<>> \o A = A
OBVIOUS

LEMMA JoinEvent ==
    ASSUME NEW A \in Seq(Events), NEW B \in Seq(Events), NEW e \in Events
    PROVE  A \o B \o <<e>> = Append(A \o B, e) /\ A \o Append(B, e) = Append(A \o B, e)
OBVIOUS

LEMMA JoinLen == \A A, B \in Seq(Events) : Len(A \o B) = Len(A) + Len(B)
OBVIOUS

LEMMA JoinFirst ==
    ASSUME NEW T, NEW B \in Seq(T), NEW e \in T
    PROVE  Head(<<e>> \o B) = e /\ Tail(<<e>> \o B) = B /\ <<e>> \o B # <<>>
<1>1. Len(<<e>> \o B) = Len(B) + 1 /\ <<e>> \o B \in Seq(T)
  OBVIOUS
<1>2. Head(<<e>> \o B) = e /\ <<e>> \o B # <<>>
  BY <1>1
<1>3. Tail(<<e>> \o B) = B
  OBVIOUS
<1> QED
  BY <1>2, <1>3

LEMMA JoinTail ==
    ASSUME NEW W \in Seq(Events), W # <<>>, NEW D \in Seq(Events)
    PROVE  W \o D # <<>> /\ Head(W \o D) = Head(W) /\ Tail(W \o D) = Tail(W) \o D
<1>1. /\ W \o D \in Seq(Events) /\ Len(W \o D) = Len(W) + Len(D) /\ Len(W) > 0
      /\ Tail(W) \in Seq(Events) /\ Len(Tail(W)) = Len(W) - 1
  OBVIOUS
<1>2. W \o D # <<>> /\ Head(W \o D) = Head(W)
  BY <1>1
<1>3. Tail(W \o D) = Tail(W) \o D
  BY <1>1
<1> QED
  BY <1>2, <1>3

\* The last of the changes, and those before it.
LEMMA BegunIs ==
    ASSUME NEW W \in Seq(Events), NEW e \in Events
    PROVE  /\ Feed!Begun(Append(W, e)) = W
           /\ Append(W, e)[Len(Append(W, e))] = e
           /\ Append(W, e) \in Seq(Events) /\ Len(Append(W, e)) = Len(W) + 1
<1>1. /\ Append(W, e) \in Seq(Events) /\ Len(Append(W, e)) = Len(W) + 1
      /\ Append(W, e)[Len(W) + 1] = e /\ \A i \in 1 .. Len(W) : Append(W, e)[i] = W[i]
      /\ Len(W) \in Nat
  OBVIOUS
<1>2. SubSeq(Append(W, e), 1, Len(W)) = W
  BY <1>1
<1> QED
  BY <1>1, <1>2 DEF Feed!Begun

LEMMA InHandType ==
    ASSUME TypeOK, NEW s \in Subs
    PROVE  /\ InHand(s) \in Seq(Events) /\ onchange[s] \in Seq(Events)
           /\ Assembled(s) \in Seq(Events) /\ pending[s] \in Events
           /\ InHand(s) \o onchange[s] \in Seq(Events)
<1>1. runev[s] \in Events /\ pending[s] \in Events /\ onchange[s] \in Seq(Events)
  BY DEF TypeOK, EventCtrlTypeOK
<1>2. InHand(s) \in Seq(Events)
  BY <1>1 DEF InHand
<1>3. Assembled(s) \in Seq(Events)
  BY <1>1 DEF Assembled
<1> QED
  BY <1>1, <1>2, <1>3

\* The queue of s ends with what is being assembled, if there is anything.
LEMMA UnsentEnds ==
    ASSUME TypeOK, NEW s \in Subs
    PROVE  Unsent[s] = IF s \in ready THEN Append(InHand(s) \o onchange[s], pending[s])
                       ELSE InHand(s) \o onchange[s]
<1> DEFINE A == InHand(s)
           B == onchange[s]
           e == pending[s]
<1>1. A \in Seq(Events) /\ B \in Seq(Events) /\ e \in Events /\ A \o B \in Seq(Events)
  BY InHandType
<1>2. Unsent[s] = A \o B \o (IF s \in ready THEN <<e>> ELSE <<>>)
  BY DEF Unsent, Assembled
<1> HIDE DEF A, B, e
<1>3. A \o B \o <<e>> = Append(A \o B, e) /\ A \o B \o <<>> = A \o B
  BY <1>1, JoinEvent, JoinNothing
<1>4. Unsent[s] = IF s \in ready THEN Append(A \o B, e) ELSE A \o B
  BY <1>2, <1>3
<1> QED
  BY <1>4 DEF A, B, e

\* The event of a change as ChangeFeed has it.
LEMMA NewsSame ==
    ASSUME TypeOK, NEW c \in Events, NEW s \in Subs, NEW Q \in SUBSET Paths
    PROVE  Feed!News(s, Overlay(root, c), Q) = Restriction(Restriction(Effective(c), Q), Watch[s])
<1>1. \A q \in Paths : c[q] = Same \/ c[q] \in Leaves
  BY DEF Events
<1>2. \A q \in Paths : root[q] # Same
  BY DEF TypeOK, EventCtrlTypeOK, Leaves
<1>3. \A q \in Paths : Overlay(root, c)[q] = IF c[q] = Same THEN root[q] ELSE c[q]
  BY DEF Overlay
<1>4. \A q \in Paths : Effective(c)[q] = IF c[q] = root[q] THEN Same ELSE c[q]
  BY DEF Effective
<1> QED
  BY <1>1, <1>2, <1>3, <1>4 DEF Feed!News, Restriction

\* What SetEvent() does to one queue.
LEMMA RaiseOne ==
    ASSUME TypeOK, PendingOK, NEW c \in Events, NEW Q \in SUBSET Paths,
           Raise(Restriction(Effective(c), Q)),
           UNCHANGED <<receivers, onchange, runev, runpc>>,
           NEW s \in Subs, NEW n, n = Feed!News(s, Overlay(root, c), Q)
    PROVE  /\ s \in ready' <=> s \in ready \/ (s \in receivers /\ n # NoEvent)
           /\ Unsent'[s] =
                IF s \in receivers /\ n # NoEvent
                THEN IF s \in ready
                     THEN Append(Feed!Begun(Unsent[s]), Collect(Unsent[s][Len(Unsent[s])], n))
                     ELSE Append(Unsent[s], n)
                ELSE Unsent[s]
<1> DEFINE W == InHand(s) \o onchange[s]
           hit == {t \in receivers : Restriction(Restriction(Effective(c), Q), Watch[t]) # NoEvent}
<1>1. n = Restriction(Restriction(Effective(c), Q), Watch[s]) /\ n \in Events
  BY NewsSame, EffectiveType, RestrictionType
<1>2. ready' = ready \cup hit
      /\ pending'[s] = IF s \in hit THEN Collect(pending[s], n) ELSE pending[s]
  BY <1>1 DEF Raise
<1>3. s \in hit <=> s \in receivers /\ n # NoEvent
  BY <1>1
<1> HIDE DEF hit
<1>4. /\ W \in Seq(Events) /\ InHand(s) \in Seq(Events) /\ onchange[s] \in Seq(Events)
      /\ pending[s] \in Events /\ pending'[s] \in Events
  <2>1. Collect(pending[s], n) \in Events
    BY <1>1, InHandType, CollectType
  <2> QED
    BY <1>2, <2>1, InHandType
<1>5. Unsent'[s] = IF s \in ready' THEN Append(W, pending'[s]) ELSE W
  <2>1. InHand(s)' = InHand(s) /\ onchange'[s] = onchange[s]
    BY DEF InHand
  <2>2. Unsent'[s] = W \o (IF s \in ready' THEN <<pending'[s]>> ELSE <<>>)
    BY <2>1, UnsentIs DEF Assembled
  <2>3. W \o <<pending'[s]>> = Append(W, pending'[s]) /\ W \o <<>> = W
    BY <1>4, JoinEvent, JoinNothing
  <2> QED
    BY <2>2, <2>3
<1>6. Unsent[s] = IF s \in ready THEN Append(W, pending[s]) ELSE W
  BY UnsentEnds
<1> HIDE DEF W
<1>7. CASE s \notin hit
  BY <1>2, <1>3, <1>5, <1>6, <1>7
<1>8. CASE s \in hit /\ s \in ready
  <2>1. Unsent'[s] = Append(W, Collect(pending[s], n)) /\ Unsent[s] = Append(W, pending[s])
    BY <1>2, <1>5, <1>6, <1>8
  <2>2. Feed!Begun(Append(W, pending[s])) = W
        /\ Append(W, pending[s])[Len(Append(W, pending[s]))] = pending[s]
    BY <1>4, BegunIs
  <2> QED
    BY <1>2, <1>3, <1>8, <2>1, <2>2
<1>9. CASE s \in hit /\ s \notin ready
  <2>1. pending[s] = NoEvent
    BY <1>3, <1>9 DEF PendingOK
  <2>2. Collect(NoEvent, n) = n
    BY <1>1 DEF Collect, NoEvent, Events, Leaves
  <2> QED
    BY <1>2, <1>3, <1>5, <1>6, <1>9, <2>1, <2>2
<1> QED
  BY <1>7, <1>8, <1>9

LEMMA RaiseTells ==
    ASSUME TypeOK, PendingOK, NEW c \in Events, NEW Q \in SUBSET Paths,
           Raise(Restriction(Effective(c), Q)),
           UNCHANGED <<receivers, onchange, runev, runpc, view, hpc, hcur, hout, rpc, rmsg, respchan>>
    PROVE  /\ Feed!Tell(Overlay(root, c), Q)
           /\ UNCHANGED <<DueNow, Streams, Sent>>
<1> DEFINE tree == Overlay(root, c)
           told == {s \in receivers : Feed!News(s, tree, Q) # Feed!NoEvent}
<1>1. UNCHANGED <<DueNow, Streams, Sent>>
  BY DueStill, StreamsStill, SentStill DEF Streaming
<1>2. Feed!NoEvent = NoEvent /\ receivers \subseteq Subs /\ ready \subseteq Subs /\ ready' \subseteq Subs
  BY FeedSame DEF TypeOK, EventCtrlTypeOK, Raise
<1>3. ready' = ready \cup told
  <2>1. \A s \in Subs : s \in ready' <=> s \in ready \/ s \in told
    BY <1>2, RaiseOne
  <2> QED
    BY <1>2, <2>1
<1>4. ASSUME NEW s \in Subs
      PROVE  Unsent'[s] =
               CASE s \in told \ ready -> Append(Unsent[s], Feed!News(s, tree, Q))
                 [] s \in told \cap ready ->
                      Append(Feed!Begun(Unsent[s]),
                             Feed!Collect(Unsent[s][Len(Unsent[s])], Feed!News(s, tree, Q)))
                 [] OTHER -> Unsent[s]
  <2> DEFINE n == Feed!News(s, tree, Q)
  <2>1. Unsent'[s] =
          IF s \in receivers /\ n # NoEvent
          THEN IF s \in ready
               THEN Append(Feed!Begun(Unsent[s]), Collect(Unsent[s][Len(Unsent[s])], n))
               ELSE Append(Unsent[s], n)
          ELSE Unsent[s]
    BY RaiseOne
  <2>2. s \in told <=> s \in receivers /\ n # NoEvent
    BY <1>2
  <2>3. Feed!Collect(Unsent[s][Len(Unsent[s])], n) = Collect(Unsent[s][Len(Unsent[s])], n)
    BY FeedSame
  <2> HIDE DEF told, n
  <2>4. CASE s \in told \ ready
    BY <2>1, <2>2, <2>4 DEF n
  <2>5. CASE s \in told \cap ready
    BY <2>1, <2>2, <2>3, <2>5 DEF n
  <2>6. CASE s \notin told
    BY <2>1, <2>2, <2>6
  <2> QED
    BY <2>4, <2>5, <2>6
<1>5. Unsent' = [s \in Subs |->
        CASE s \in told \ ready -> Append(Unsent[s], Feed!News(s, tree, Q))
          [] s \in told \cap ready ->
               Append(Feed!Begun(Unsent[s]),
                      Feed!Collect(Unsent[s][Len(Unsent[s])], Feed!News(s, tree, Q)))
          [] OTHER -> Unsent[s]]
  <2> HIDE DEF told, tree
  <2>1. Unsent' = [s \in Subs |-> Unsent'[s]]
    BY DEF Unsent
  <2> QED
    BY <1>4, <2>1, Zenon
<1> QED
  BY <1>1, <1>3, <1>5 DEF Feed!Tell, DueNow, Streams

\* SetEvent() changes the tree, unless the change makes no difference.
LEMMA MapSetEvent ==
    ASSUME IInv, PendingOK, NEW p \in Procs, SetEvent(p), UNCHANGED telemetryVars
    PROVE  Follows
<1> USE DEF IInv, TypeOK, EventCtrlTypeOK, handlerVars, runVars, responderVars, telemetryVars
<1>1. PICK c \in job[p] : root' = Overlay(root, c) /\ Raise(Effective(c))
  BY DEF SetEvent
<1>2. c \in Events /\ Restriction(Effective(c), Paths) = Effective(c)
  BY <1>1 DEF Restriction, Effective
<1> DEFINE tree == Overlay(root, c)
<1>3. tree \in [Paths -> Leaves] /\ (Faults \/ ready = {})
  BY <1>2, OverlayTree DEF SetEvent, PendingOK
<1>4. UNCHANGED <<receivers, onchange, runev, view, runpc, hpc, hcur, hout, rpc, rmsg, respchan>>
  BY DEF SetEvent
<1>5. Feed!Tell(tree, Paths) /\ UNCHANGED <<DueNow, Streams, Sent>>
  BY <1>1, <1>2, <1>4, RaiseTells
<1>6. CASE tree # root
  <2>1. Feed!Change
    BY <1>1, <1>3, <1>5, <1>6, FeedSame DEF Feed!Change
  <2> QED
    BY <2>1 DEF Follows, Feed!Next
<1>7. CASE tree = root
  <2>1. ASSUME NEW s \in Subs
        PROVE  Unsent'[s] = Unsent[s] /\ (s \in ready' <=> s \in ready)
    <3>1. Feed!News(s, tree, Paths) = NoEvent
      BY <1>7 DEF Feed!News, NoEvent
    <3> QED
      BY <1>1, <1>2, <1>4, <3>1, RaiseOne
  <2>2. ready' = ready /\ UNCHANGED Unsent
    BY <1>1, <2>1, UnsentStill DEF Raise
  <2> QED
    BY <1>1, <1>4, <1>5, <1>7, <2>2 DEF Follows, Mapped
<1> QED
  BY <1>6, <1>7

\* SetEvent() fails: some are told of some of the leaves.
LEMMA MapSetEventFails ==
    ASSUME IInv, PendingOK, NEW p \in Procs, SetEventFails(p), UNCHANGED telemetryVars
    PROVE  Follows
<1> USE DEF IInv, TypeOK, EventCtrlTypeOK, handlerVars, runVars, responderVars, telemetryVars
<1>1. PICK c \in job[p], Q \in SUBSET Paths :
        root' \in {root, Overlay(root, c)} /\ Raise(Restriction(Effective(c), Q))
  BY DEF SetEventFails
<1>2. c \in Events
  BY <1>1
<1> DEFINE tree == Overlay(root, c)
<1>3. tree \in [Paths -> Leaves] /\ Faults
  BY <1>2, OverlayTree DEF SetEventFails
<1>4. UNCHANGED <<receivers, onchange, runev, view, runpc, hpc, hcur, hout, rpc, rmsg, respchan>>
  BY DEF SetEventFails
<1>5. Feed!Tell(tree, Q) /\ UNCHANGED <<DueNow, Streams, Sent>>
  BY <1>1, <1>2, <1>4, RaiseTells
<1>6. CASE UNCHANGED <<root, Unsent, ready>>
  BY <1>4, <1>5, <1>6 DEF Follows, Mapped
<1>7. CASE ~ UNCHANGED <<root, Unsent, ready>>
  <2>1. tree # root
    <3> SUFFICES ASSUME tree = root PROVE FALSE
      OBVIOUS
    <3>1. ASSUME NEW s \in Subs
          PROVE  Unsent'[s] = Unsent[s] /\ (s \in ready' <=> s \in ready)
      <4>1. Feed!News(s, tree, Q) = NoEvent
        BY DEF Feed!News, NoEvent
      <4> QED
        BY <1>1, <1>2, <1>4, <4>1, RaiseOne
    <3>2. ready' = ready /\ UNCHANGED Unsent
      BY <1>1, <3>1, UnsentStill DEF Raise
    <3> QED
      BY <1>1, <1>7, <3>2
  <2>2. tree \in Feed!Trees
    BY <1>3, FeedSame
  <2> HIDE DEF tree
  <2>3. \E t \in Feed!Trees, R \in SUBSET Paths :
          t # root /\ root' \in {root, t} /\ Feed!Tell(t, R)
    BY <1>1, <1>5, <2>1, <2>2 DEF tree
  <2>4. Feed!ChangeFails
    BY <1>3, <1>7, <2>3 DEF Feed!ChangeFails
  <2> QED
    BY <2>4 DEF Follows, Feed!Next
<1> QED
  BY <1>6, <1>7

\* EventComplete() completes an event.
LEMMA MapEventComplete ==
    ASSUME IInv, NEW p \in Procs, NEW s \in Subs, EventComplete(p, s), UNCHANGED telemetryVars
    PROVE  Follows
<1> USE DEF handlerVars, runVars, responderVars, telemetryVars, treeVars
<1>1. TypeOK /\ onchange \in [Subs -> Seq(Events)] /\ pending \in [Subs -> Events]
  BY DEF IInv, TypeOK, EventCtrlTypeOK
<1>2. /\ onchange' = [onchange EXCEPT ![s] = Append(@, pending[s])]
      /\ s \in ready /\ ready' = ready \ {s} /\ pending' = [pending EXCEPT ![s] = NoEvent]
      /\ UNCHANGED <<root, receivers, runev, view, runpc, hpc, hcur, hout, rpc, rmsg, respchan>>
  BY DEF EventComplete
<1>3. UNCHANGED <<DueNow, Streams, Sent>>
  BY <1>2, DueStill, StreamsStill, SentStill DEF Streaming
<1>4. ASSUME NEW t \in Subs PROVE Unsent'[t] = Unsent[t]
  <2>1. InHand(t)' = InHand(t)
    BY <1>2 DEF InHand
  <2>2. CASE t # s
    <3>1. onchange'[t] = onchange[t] /\ Assembled(t)' = Assembled(t)
      BY <1>1, <1>2, <2>2 DEF Assembled
    <3> QED
      BY <2>1, <3>1, UnsentIs
  <2>3. CASE t = s
    <3> DEFINE A == InHand(s)
               B == onchange[s]
               e == pending[s]
    <3>1. A \in Seq(Events) /\ B \in Seq(Events) /\ e \in Events /\ A \o B \in Seq(Events)
      BY <1>1, InHandType
    <3>2. Unsent[s] = A \o B \o <<e>> /\ Unsent'[s] = A \o Append(B, e) \o <<>>
      <4>1. onchange'[s] = Append(B, e) /\ Assembled(s) = <<e>> /\ Assembled(s)' = <<>>
        BY <1>1, <1>2 DEF Assembled
      <4> QED
        BY <2>1, <2>3, <4>1, UnsentIs
    <3> HIDE DEF A, B, e
    <3>3. A \o B \o <<e>> = Append(A \o B, e) /\ A \o Append(B, e) = Append(A \o B, e)
          /\ Append(A \o B, e) \in Seq(Events)
      BY <3>1, JoinEvent
    <3>4. Append(A \o B, e) \o <<>> = Append(A \o B, e)
      BY <3>3, JoinNothing
    <3> QED
      BY <2>3, <3>2, <3>3, <3>4
  <2> QED
    BY <2>2, <2>3
<1>5. Unsent' = Unsent
  BY <1>4, UnsentStill
<1>6. Feed!Complete(s)
  BY <1>2, <1>3, <1>5 DEF Feed!Complete, DueNow, Streams
<1> QED
  BY <1>6 DEF Follows, Feed!Next

\* run() takes an event in hand.
LEMMA MapRunReceive ==
    ASSUME IInv, NEW s \in Subs, RunReceive(s)
    PROVE  Follows
<1> USE DEF handlerVars, responderVars, treeVars
<1>1. /\ onchange \in [Subs -> Seq(Events)] /\ runpc \in [Subs -> {"none", "select", "rlock", "send", "done"}]
      /\ runev \in [Subs -> Events] /\ Assembled(s) \in Seq(Events)
  BY InHandType DEF IInv, TypeOK, EventCtrlTypeOK
<1>2. /\ runpc[s] = "select" /\ runpc' = [runpc EXCEPT ![s] = "rlock"]
      /\ onchange[s] # <<>> /\ onchange' = [onchange EXCEPT ![s] = Tail(@)]
      /\ runev' = [runev EXCEPT ![s] = Head(onchange[s])]
      /\ UNCHANGED <<root, receivers, ready, pending, view, hpc, hcur, hout, rpc, rmsg, respchan>>
  BY DEF RunReceive
<1>3. UNCHANGED <<DueNow, Streams, Sent>>
  <2>1. \A t \in Subs : Streaming(t)' <=> Streaming(t)
    BY <1>1, <1>2 DEF Streaming
  <2> QED
    BY <1>2, <2>1, DueStill, StreamsStill, SentStill
<1>4. ASSUME NEW t \in Subs PROVE Unsent'[t] = Unsent[t]
  <2>1. Assembled(t)' = Assembled(t)
    BY <1>2 DEF Assembled
  <2>2. CASE t # s
    <3>1. onchange'[t] = onchange[t] /\ InHand(t)' = InHand(t)
      BY <1>1, <1>2, <2>2 DEF InHand
    <3> QED
      BY <2>1, <3>1, UnsentIs
  <2>3. CASE t = s
    <3> DEFINE C == onchange[s]
    <3>1. C \in Seq(Events) /\ C # <<>>
      BY <1>1, <1>2
    <3>2. InHand(s) = <<>> /\ InHand(s)' = <<Head(C)>> /\ onchange'[s] = Tail(C)
      BY <1>1, <1>2 DEF InHand
    <3> HIDE DEF C
    <3>3. <<Head(C)>> \o Tail(C) = C /\ <<>> \o C = C
      BY <3>1
    <3>4. Unsent[s] = <<>> \o C \o Assembled(s)
          /\ Unsent'[s] = <<Head(C)>> \o Tail(C) \o Assembled(s)
      BY <2>1, <2>3, <3>2, UnsentIs DEF C
    <3> QED
      BY <2>3, <3>3, <3>4
  <2> QED
    BY <2>2, <2>3
<1> QED
  BY <1>2, <1>3, <1>4, UnsentStill DEF Follows, Mapped

LEMMA SentIs ==
    /\ Sent = [y \in Sess |-> Sent[y]]
    /\ Sent' = [y \in Sess |-> Sent'[y]]
    /\ \A y \in Sess : UNCHANGED <<rpc[y], rmsg[y], respchan[y]>> => Sent'[y] = Sent[y]
<1>1. Sent = [y \in Sess |-> Sent[y]]
  BY Zenon DEF Sent
<1>2. Sent' = [y \in Sess |-> Sent'[y]]
  BY Zenon DEF Sent
<1>3. ASSUME NEW y \in Sess, UNCHANGED <<rpc[y], rmsg[y], respchan[y]>>
      PROVE  Sent'[y] = Sent[y]
  <2>1. Sent[y] = (IF rpc[y] = "send" THEN <<rmsg[y]>> ELSE <<>>) \o respchan[y]
    BY Zenon DEF Sent
  <2>2. Sent'[y] = (IF rpc'[y] = "send" THEN <<rmsg'[y]>> ELSE <<>>) \o respchan'[y]
    BY Zenon DEF Sent
  <2> QED
    BY <1>3, <2>1, <2>2, Zenon
<1> QED
  BY <1>1, <1>2, <1>3

\* Whoever sends a response adds it to the stream of its session.
LEMMA SentAppend ==
    ASSUME TypeOK, NEW x \in Sess, NEW m \in Messages, rpc[x] = "send" => rmsg[x] \in Messages,
           respchan' = [respchan EXCEPT ![x] = Append(@, m)], UNCHANGED <<rpc, rmsg>>
    PROVE  Sent' = [Sent EXCEPT ![x] = Append(@, m)]
<1> DEFINE A == IF rpc[x] = "send" THEN <<rmsg[x]>> ELSE <<>>
           B == respchan[x]
<1>1. A \in Seq(Messages) /\ B \in Seq(Messages)
  BY DEF TypeOK
<1>2. respchan'[x] = Append(B, m) /\ \A y \in Sess \ {x} : respchan'[y] = respchan[y]
  BY DEF TypeOK
<1>3. Sent[x] = A \o B /\ Sent'[x] = A \o Append(B, m)
  BY <1>2 DEF Sent
<1> HIDE DEF A, B
<1>4. Sent'[x] = Append(Sent[x], m)
  BY <1>1, <1>3
<1>5. \A y \in Sess \ {x} : Sent'[y] = Sent[y]
  BY <1>2, SentIs
<1> QED
  BY <1>4, <1>5, SentIs

\* run() leaves the place where it sends the event it has in hand.
LEMMA RunTakes ==
    ASSUME TypeOK, NEW s \in Subs, runpc[s] = "send",
           NEW to \in {"select", "done"}, runpc' = [runpc EXCEPT ![s] = to],
           runev' = [runev EXCEPT ![s] = NoEvent],
           UNCHANGED <<root, receivers, onchange, pending, ready, view, hpc, hcur, hout, rpc>>
    PROVE  Feed!Take(s) /\ Head(Unsent[s]) = runev[s] /\ s \in Streams
<1>1. /\ runpc \in [Subs -> {"none", "select", "rlock", "send", "done"}] /\ runev \in [Subs -> Events]
      /\ onchange[s] \in Seq(Events) /\ Assembled(s) \in Seq(Events)
  BY InHandType DEF TypeOK
<1>2. UNCHANGED DueNow /\ s \in Streams
  BY DueStill DEF Streams, Streaming
<1>3. InHand(s) = <<runev[s]>> /\ InHand(s)' = <<>> /\ \A t \in Subs : Assembled(t)' = Assembled(t)
  BY <1>1 DEF InHand, Assembled
<1>4. /\ Unsent[s] # <<>> /\ Head(Unsent[s]) = runev[s] /\ Unsent'[s] = Tail(Unsent[s])
      /\ s \in ready => Len(Unsent[s]) > 1
  <2> DEFINE C == onchange[s]
             D == Assembled(s)
             e == runev[s]
             W == <<e>> \o C
  <2>1. C \in Seq(Events) /\ D \in Seq(Events) /\ e \in Events /\ (s \in ready => Len(D) = 1)
    BY <1>1 DEF Assembled
  <2>2. Unsent[s] = W \o D /\ Unsent'[s] = <<>> \o C \o D
    BY <1>3, UnsentIs
  <2> HIDE DEF C, D, e
  <2>3. <<>> \o C = C /\ W \in Seq(Events) /\ Len(W) = Len(C) + 1 /\ W # <<>>
    BY <2>1, JoinNothing
  <2>4. Head(W) = e /\ Tail(W) = C
    BY <2>1, JoinFirst
  <2> HIDE DEF W
  <2>5. W \o D # <<>> /\ Head(W \o D) = Head(W) /\ Tail(W \o D) = Tail(W) \o D
    BY <2>1, <2>3, JoinTail
  <2>6. s \in ready => Len(W \o D) > 1
    <3>1. Len(W \o D) = Len(W) + Len(D)
      BY <2>1, <2>3, JoinLen
    <3>2. Len(C) \in Nat
      BY <2>1
    <3> QED
      BY <2>1, <2>3, <3>1, <3>2
  <2> QED
    BY <2>2, <2>3, <2>4, <2>5, <2>6 DEF e
<1>5. \A t \in Subs \ {s} : Unsent'[t] = Unsent[t]
  <2>1. \A t \in Subs \ {s} : InHand(t)' = InHand(t)
    BY <1>1 DEF InHand
  <2> QED
    BY <1>3, <2>1, UnsentIs
<1>6. Unsent' = [Unsent EXCEPT ![s] = Tail(@)]
  BY <1>4, <1>5 DEF Unsent
<1> QED
  BY <1>2, <1>4, <1>6 DEF Feed!Take, DueNow, Streams

\* run() sends the change it has.
LEMMA MapRunSend ==
    ASSUME IInv, NEW s \in Subs, RunSend(s)
    PROVE  Follows
<1> USE DEF handlerVars, responderVars, treeVars, queueVars
<1> DEFINE x == SessOf[s]
           m == Response(s, runev[s])
<1>1. /\ runpc[s] = "send" /\ runpc' = [runpc EXCEPT ![s] = "select"]
      /\ respchan' = [respchan EXCEPT ![x] = Append(@, m)]
      /\ runev' = [runev EXCEPT ![s] = NoEvent]
      /\ UNCHANGED <<root, receivers, onchange, pending, ready, view, hpc, hcur, hout, rpc, rmsg>>
  BY DEF RunSend, RUnlock
<1>2. /\ m = [to |-> s, chg |-> runev[s]] /\ m \in Messages /\ x \in Sess /\ TypeOK
      /\ rpc[x] = "send" => rmsg[x] \in Messages
  BY DEF Response, Messages, IInv, TypeOK, HandlerOK
<1>3. Feed!Take(s) /\ Head(Unsent[s]) = runev[s]
  BY <1>1, <1>2, RunTakes
<1>4. Sent' = [Sent EXCEPT ![x] = Append(@, m)]
  BY <1>1, <1>2, SentAppend
<1>5. UNCHANGED Streams
  <2>1. \A t \in Subs : Streaming(t)' <=> Streaming(t)
    BY <1>1, <1>2 DEF Streaming, TypeOK
  <2> QED
    BY <2>1, StreamsStill
<1>6. Feed!SendChange(s)
  BY <1>2, <1>3, <1>4, <1>5 DEF Feed!SendChange, Feed!Respond, Streams
<1> QED
  BY <1>6 DEF Follows, Feed!Next

\* run() fails and ends.
LEMMA MapRunFails ==
    ASSUME IInv, NEW s \in Subs, RunFails(s)
    PROVE  Follows
<1> USE DEF handlerVars, responderVars, treeVars, queueVars
<1>1. /\ Faults /\ runpc[s] = "send" /\ runpc' = [runpc EXCEPT ![s] = "done"]
      /\ runev' = [runev EXCEPT ![s] = NoEvent]
      /\ UNCHANGED <<root, receivers, onchange, pending, ready, view, hpc, hcur, hout, rpc, rmsg, respchan>>
  BY DEF RunFails
<1>2. TypeOK /\ runpc \in [Subs -> {"none", "select", "rlock", "send", "done"}]
  BY DEF IInv, TypeOK
<1>3. Feed!Take(s)
  BY <1>1, <1>2, RunTakes
<1>4. Sent' = Sent /\ Streams' = Streams \ {s}
  BY <1>1, <1>2, SentStill DEF Streams, Streaming
<1>5. Feed!SendChangeFails(s)
  BY <1>1, <1>3, <1>4 DEF Feed!SendChangeFails, Streams
<1> QED
  BY <1>5 DEF Follows, Feed!Next

\* Nothing that ChangeFeed sees changes.
LEMMA MapStill ==
    ASSUME UNCHANGED <<root, receivers, runev, onchange, pending, ready, rpc, rmsg, respchan, view,
                       hpc, hcur, hout>>,
           \A s \in Subs : runpc'[s] \in {"rlock", "send"} <=> runpc[s] \in {"rlock", "send"},
           \A s \in Subs : Streaming(s)' <=> Streaming(s)
    PROVE  Follows
BY DueStill, StreamsStill, QueuesStill, SentStill DEF Follows, Mapped

\* The handler of a session goes on, with no snapshot.
LEMMA MapHandler ==
    ASSUME UNCHANGED <<root, receivers, runpc, runev, onchange, pending, ready, rpc, rmsg, respchan, view>>,
           NEW x, \A y \in Sess \ {x} : hpc'[y] = hpc[y] /\ hcur'[y] = hcur[y] /\ hout'[y] = hout[y],
           hpc[x] # "init", hpc'[x] # "init"
    PROVE  Follows
BY DueFrame, StreamsStill, QueuesStill, SentStill DEF Follows, Mapped, Streaming

\* The same as DueFrame when the handler has s in hand: the others are left alone.
LEMMA DueOthers ==
    ASSUME NEW x \in Sess, NEW s \in Subs,
           \A y \in Sess \ {x} : hpc'[y] = hpc[y] /\ hcur'[y] = hcur[y] /\ hout'[y] = hout[y],
           hpc[x] # "init" \/ hcur[x] = s, hpc'[x] # "init" \/ hcur'[x] = s
    PROVE  \A t \in Subs \ {s} : Due(t)' = Due(t)
<1> SUFFICES ASSUME NEW t \in Subs \ {s} PROVE Due(t)' = Due(t)
  OBVIOUS
<1>1. CASE SessOf[t] = x
  BY <1>1 DEF Due
<1>2. CASE SessOf[t] # x
  <2>1. SessOf[t] \in Sess \ {x}
    BY <1>2
  <2> QED
    BY <2>1, DueAt
<1> QED
  BY <1>1, <1>2

LEMMA DueOne ==
    ASSUME NEW s \in Subs, \A t \in Subs \ {s} : Due(t)' = Due(t)
    PROVE  DueNow' = [DueNow EXCEPT ![s] = Due(s)']
BY DEF DueNow

\* What is due to the subscriber that the handler has in hand.
LEMMA DueInHand ==
    ASSUME NEW s \in Subs, NEW x, x = SessOf[s], hpc[x] = "init", hcur[x] = s
    PROVE  /\ Len(hout[x]) = 2 => Due(s) = "tree"
           /\ Len(hout[x]) = 1 => Due(s) = "sync"
           /\ Len(hout[x]) = 0 => Due(s) = "changes"
<1>1. Due(s) = IF Len(hout[x]) = 2 THEN "tree" ELSE IF Len(hout[x]) = 1 THEN "sync" ELSE "changes"
  BY Zenon DEF Due
<1>2. 0 # 1 /\ 0 # 2 /\ 1 # 2
  OBVIOUS
<1> QED
  BY <1>1, <1>2, Zenon

LEMMA DueInHandNext ==
    ASSUME NEW s \in Subs, NEW x, x = SessOf[s], hpc'[x] = "init", hcur'[x] = s
    PROVE  /\ Len(hout'[x]) = 2 => Due(s)' = "tree"
           /\ Len(hout'[x]) = 1 => Due(s)' = "sync"
           /\ Len(hout'[x]) = 0 => Due(s)' = "changes"
<1>1. Due(s)' = IF Len(hout'[x]) = 2 THEN "tree" ELSE IF Len(hout'[x]) = 1 THEN "sync" ELSE "changes"
  BY Zenon DEF Due
<1>2. 0 # 1 /\ 0 # 2 /\ 1 # 2
  OBVIOUS
<1> QED
  BY <1>1, <1>2, Zenon

LEMMA MapRegister ==
    ASSUME IInv, NEW x \in Sess, RegisterSub(x), NEW s, s = hcur[x]
    PROVE  Follows
<1> USE DEF IInv, TypeOK, EventCtrlTypeOK, eventVars, treeVars, queueVars, runVars, responderVars
<1>1. s \in Subs
  BY DEF RegisterSub, HandlerOK, Settling, SubsOf
<1>2. /\ receivers' = receivers \cup {s} /\ hpc[x] = "register" /\ hpc' = [hpc EXCEPT ![x] = "sync"]
      /\ UNCHANGED <<root, hcur, hout, runpc, runev, onchange, pending, ready, rpc, rmsg, respchan, view>>
  BY DEF RegisterSub, Register
<1>3. UNCHANGED <<DueNow, Streams, Unsent, Sent>>
  BY <1>2, DueFrame, StreamsStill, QueuesStill, SentStill DEF Streaming
<1>4. CASE s \in receivers
  BY <1>2, <1>3, <1>4 DEF Follows, Mapped
<1>5. CASE s \notin receivers
  <2>1. Feed!Register(s)
    BY <1>2, <1>3, <1>5 DEF Feed!Register, Feed!feedVars, DueNow, Streams
  <2> QED
    BY <1>1, <2>1 DEF Follows, Feed!Next
<1> QED
  BY <1>4, <1>5

LEMMA MapUnregister ==
    ASSUME IInv, QueueOK, PendingOK, NEW x \in Sess, NEW s \in Subs, UnregisterSub(x, s)
    PROVE  Follows
<1> USE DEF eventVars, treeVars, queueVars, runVars, responderVars
<1>1. /\ receivers' = receivers \ {s} /\ ready' = ready \ {s} /\ ec = Nobody
      /\ hpc[x] = "unregister" /\ hpc'[x] = "delinfo"
      /\ \A y \in Sess \ {x} : hpc'[y] = hpc[y] /\ hcur'[y] = hcur[y] /\ hout'[y] = hout[y]
      /\ UNCHANGED <<root, hout, runpc, runev, onchange, pending, rpc, rmsg, respchan, view>>
  BY DEF UnregisterSub, Unregister, IInv, TypeOK
<1>2. UNCHANGED <<DueNow, Streams, Sent>>
  BY <1>1, DueFrame, StreamsStill, SentStill DEF Streaming
<1>3. ASSUME NEW t \in Subs \ {s} PROVE Unsent'[t] = Unsent[t]
  <2>1. InHand(t)' = InHand(t) /\ Assembled(t)' = Assembled(t) /\ onchange'[t] = onchange[t]
    BY <1>1 DEF InHand, Assembled
  <2> QED
    BY <2>1, UnsentIs, Zenon
<1>4. Unsent'[s] = IF s \in ready THEN Feed!Begun(Unsent[s]) ELSE Unsent[s]
  <2> DEFINE W == InHand(s) \o onchange[s]
  <2>1. TypeOK
    BY DEF IInv
  <2>2. W \in Seq(Events) /\ pending[s] \in Events
    BY <2>1, InHandType
  <2>3. InHand(s)' = InHand(s) /\ Assembled(s)' = <<>> /\ onchange'[s] = onchange[s]
    BY <1>1 DEF InHand, Assembled
  <2>4. Unsent'[s] = W \o <<>>
    BY <2>3, UnsentIs
  <2>5. Unsent[s] = IF s \in ready THEN Append(W, pending[s]) ELSE W
    BY <2>1, UnsentEnds
  <2> HIDE DEF W
  <2>6. W \o <<>> = W /\ Feed!Begun(Append(W, pending[s])) = W
    BY <2>2, BegunIs, JoinNothing
  <2> QED
    BY <2>4, <2>5, <2>6
<1>5. CASE s \notin receivers
  <2>1. s \notin ready
    BY <1>5 DEF QueueOK
  <2>2. UNCHANGED <<receivers, ready, Unsent>>
    BY <1>1, <1>3, <1>4, <1>5, <2>1, UnsentStill
  <2> QED
    BY <1>1, <1>2, <2>2 DEF Follows, Mapped
<1>6. CASE s \in receivers
  <2>1. s \notin ready \/ Faults
    BY <1>1 DEF PendingOK
  <2>2. Unsent' = [Unsent EXCEPT ![s] = IF s \in ready THEN Feed!Begun(@) ELSE @]
    BY <1>3, <1>4 DEF Unsent
  <2>3. Feed!Unregister(s)
    BY <1>1, <1>2, <1>6, <2>1, <2>2 DEF Feed!Unregister, DueNow, Streams
  <2> QED
    BY <2>3 DEF Follows, Feed!Next
<1> QED
  BY <1>5, <1>6

\* initTelemetryUpdate() begins.
LEMMA MapAsk ==
    ASSUME IInv, InitOK, NEW x \in Sess, InitTelemetryUpdate(x), NEW s, s = hcur[x]
    PROVE  Follows
<1> USE DEF IInv, TypeOK, EventCtrlTypeOK, eventVars, treeVars, queueVars, runVars, responderVars
<1> DEFINE silence == s \in UpdatesOnly \/ Snapshot(s) = NoEvent
<1>1. s \in Subs /\ SessOf[s] = x
  BY DEF InitTelemetryUpdate, HandlerOK, Settling, SubsOf
<1>2. s \in receivers
  BY DEF InitTelemetryUpdate, InitOK, InitAt
<1>3. /\ hpc[x] = "sync" /\ hpc' = [hpc EXCEPT ![x] = "init"]
      /\ UNCHANGED <<root, receivers, hcur, runpc, runev, onchange, pending, ready, rpc, rmsg, respchan, view>>
      /\ hout' = [hout EXCEPT ![x] =
                    IF silence THEN <<SyncResponse(s)>>
                    ELSE <<Response(s, Snapshot(s)), SyncResponse(s)>>]
  BY DEF InitTelemetryUpdate, RLock
<1>4. UNCHANGED <<Streams, Unsent, Sent>>
  BY <1>3, StreamsStill, QueuesStill, SentStill DEF Streaming
<1> HIDE DEF silence
<1>5. Due(s)' = IF silence THEN "sync" ELSE "tree"
  <2>1. hpc'[x] = "init" /\ hcur'[x] = s
    BY <1>3
  <2>2. hout'[x] = IF silence THEN <<SyncResponse(s)>> ELSE <<Response(s, Snapshot(s)), SyncResponse(s)>>
    BY <1>3
  <2>3. Len(hout'[x]) = IF silence THEN 1 ELSE 2
    BY <2>2
  <2> QED
    BY <1>1, <2>1, <2>3 DEF Due
<1>6. DueNow' = [DueNow EXCEPT ![s] = IF silence THEN "sync" ELSE "tree"]
  <2>1. \A t \in Subs \ {s} : Due(t)' = Due(t)
    BY <1>1, <1>3, DueOthers
  <2> QED
    BY <1>1, <1>5, <2>1, DueOne
<1>7. silence <=> s \in UpdatesOnly \/ Feed!Snapshot(s) = Feed!NoEvent
  BY FeedSame DEF silence
<1> HIDE DEF silence
<1>8. DueNow[s] = "nothing"
  BY <1>1, <1>3 DEF DueNow, Due
<1>9. Feed!Ask(s)
  BY <1>2, <1>3, <1>4, <1>6, <1>7, <1>8 DEF Feed!Ask, DueNow, Streams
<1> QED
  BY <1>1, <1>9 DEF Follows, Feed!Next

\* It sends the tree, and then the sync_response.
LEMMA MapInitSend ==
    ASSUME IInv, InitOK, NEW x \in Sess, InitSend(x), NEW s, s = hcur[x]
    PROVE  Follows
<1> USE DEF IInv, TypeOK, EventCtrlTypeOK, eventVars, treeVars, queueVars, runVars, responderVars
<1> DEFINE m == Head(hout[x])
<1>1. s \in Subs /\ SessOf[s] = x
  BY DEF InitSend, HandlerOK, Settling, SubsOf
<1>2. /\ s \in receivers
      /\ hout[x] = <<SyncResponse(s)>> \/ hout[x] = <<Response(s, Snapshot(s)), SyncResponse(s)>>
  BY DEF InitSend, InitOK, InitAt
<1>3. /\ hpc[x] = "init" /\ hout[x] # <<>> /\ hout' = [hout EXCEPT ![x] = Tail(@)]
      /\ respchan' = [respchan EXCEPT ![x] = Append(@, m)]
      /\ UNCHANGED <<root, receivers, hpc, hcur, runpc, runev, onchange, pending, ready, rpc, rmsg, view>>
  BY DEF InitSend
<1>4. UNCHANGED <<Streams, Unsent>>
  BY <1>3, StreamsStill, QueuesStill DEF Streaming
<1>5. m \in Messages
  BY <1>3
<1>6. Sent' = [Sent EXCEPT ![x] = Append(@, m)]
  BY <1>3, <1>5, SentAppend DEF HandlerOK
<1>7. \A t \in Subs \ {s} : Due(t)' = Due(t)
  BY <1>1, <1>3, DueOthers
<1>8. hpc'[x] = "init" /\ hcur'[x] = s /\ hout'[x] = Tail(hout[x])
  BY <1>3
<1> HIDE DEF m
<1>9. CASE hout[x] = <<SyncResponse(s)>>
  <2>1. m = [to |-> s, chg |-> Feed!NoEvent]
    BY <1>9, FeedSame DEF m, SyncResponse, Response
  <2>2. Len(hout[x]) = 1 /\ Len(hout'[x]) = 0
    BY <1>8, <1>9
  <2>3. Due(s) = "sync" /\ Due(s)' = "changes"
    BY <1>1, <1>3, <1>8, <2>2, DueInHand, DueInHandNext
  <2>4. DueNow' = [DueNow EXCEPT ![s] = "changes"] /\ DueNow[s] = "sync"
    BY <1>1, <1>7, <2>3, DueOne DEF DueNow
  <2>5. Feed!SendSync(s)
    BY <1>1, <1>2, <1>3, <1>4, <1>6, <2>1, <2>4 DEF Feed!SendSync, Feed!Respond, DueNow, Streams
  <2> QED
    BY <1>1, <2>5 DEF Follows, Feed!Next
<1>10. CASE hout[x] = <<Response(s, Snapshot(s)), SyncResponse(s)>>
  <2>1. m = [to |-> s, chg |-> Feed!Snapshot(s)]
    BY <1>10, FeedSame DEF m, Response
  <2>2. Len(hout[x]) = 2 /\ Len(hout'[x]) = 1
    BY <1>8, <1>10
  <2>3. Due(s) = "tree" /\ Due(s)' = "sync"
    BY <1>1, <1>3, <1>8, <2>2, DueInHand, DueInHandNext
  <2>4. DueNow' = [DueNow EXCEPT ![s] = "sync"] /\ DueNow[s] = "tree"
    BY <1>1, <1>7, <2>3, DueOne DEF DueNow
  <2>5. Feed!SendTree(s)
    BY <1>1, <1>2, <1>3, <1>4, <1>6, <2>1, <2>4 DEF Feed!SendTree, Feed!Respond, DueNow, Streams
  <2> QED
    BY <1>1, <2>5 DEF Follows, Feed!Next
<1> QED
  BY <1>2, <1>9, <1>10

\* run() starts, unless it runs already.
LEMMA MapStartRun ==
    ASSUME IInv, InitOK, NEW x \in Sess, StartRun(x), NEW s, s = hcur[x]
    PROVE  Follows
<1> USE DEF IInv, TypeOK, EventCtrlTypeOK, treeVars, queueVars, responderVars
<1>1. s \in Subs /\ SessOf[s] = x
  BY DEF StartRun, HandlerOK, Settling, SubsOf
<1>2. s \in receivers
  BY DEF StartRun, InitOK, InitAt
<1>3. /\ hpc[x] = "init" /\ hout[x] = <<>> /\ hpc'[x] \in {"recv", "dynamic"}
      /\ \A y \in Sess \ {x} : hpc'[y] = hpc[y] /\ hcur'[y] = hcur[y] /\ hout'[y] = hout[y]
      /\ runpc' = [runpc EXCEPT ![s] = IF Streaming(s) THEN @ ELSE "select"]
      /\ UNCHANGED <<root, receivers, runev, onchange, pending, ready, rpc, rmsg, respchan, view>>
  BY DEF StartRun, RUnlock
<1>4. UNCHANGED <<Unsent, Sent>>
  <2>1. \A t \in Subs : runpc'[t] \in {"rlock", "send"} <=> runpc[t] \in {"rlock", "send"}
    BY <1>1, <1>3 DEF Streaming
  <2> QED
    BY <1>3, <2>1, QueuesStill, SentStill
<1>5. Due(s) = "changes" /\ Due(s)' = "nothing"
  <2>1. Len(hout[x]) = 0 /\ hpc'[x] # "init"
    BY <1>3
  <2>2. Due(s) = "changes"
    BY <1>1, <1>3, <2>1, DueInHand
  <2> QED
    BY <1>1, <2>1, <2>2 DEF Due
<1>6. \A t \in Subs \ {s} : Due(t)' = Due(t)
  BY <1>1, <1>3, DueOthers
<1>7. DueNow' = [DueNow EXCEPT ![s] = "nothing"] /\ DueNow[s] = "changes"
  BY <1>1, <1>5, <1>6, DueOne DEF DueNow
<1>8. Streams' = Streams \cup {s}
  BY <1>1, <1>3 DEF Streams, Streaming
<1>9. Feed!Start(s)
  BY <1>2, <1>3, <1>4, <1>7, <1>8 DEF Feed!Start, DueNow, Streams
<1> QED
  BY <1>1, <1>9 DEF Follows, Feed!Next

\* The tree cannot be converted, and the RPC ends.
LEMMA MapInitFails ==
    ASSUME IInv, NEW x \in Sess, InitFails(x), NEW s, s = hcur[x]
    PROVE  Follows
<1> USE DEF treeVars, queueVars, runVars, responderVars
<1>1. /\ Faults /\ hpc[x] = "init" /\ Len(hout[x]) = 2 /\ hpc'[x] # "init"
      /\ \A y \in Sess \ {x} : hpc'[y] = hpc[y] /\ hcur'[y] = hcur[y] /\ hout'[y] = hout[y]
      /\ UNCHANGED <<root, receivers, runpc, runev, onchange, pending, ready, rpc, rmsg, respchan, view>>
  BY DEF InitFails, RUnlock, IInv, TypeOK
<1>2. s \in Subs /\ SessOf[s] = x
  BY <1>1 DEF IInv, HandlerOK, Settling, SubsOf
<1>3. UNCHANGED <<Unsent, Sent, Streams>>
  BY <1>1, QueuesStill, SentStill, StreamsStill DEF Streaming
<1>4. Due(s) = "tree"
  BY <1>1, <1>2, DueInHand
<1>5. Due(s)' = "nothing"
  BY <1>1, <1>2 DEF Due
<1>6. \A t \in Subs \ {s} : Due(t)' = Due(t)
  BY <1>1, <1>2, DueOthers
<1>7. DueNow' = [DueNow EXCEPT ![s] = "nothing"] /\ DueNow[s] = "tree"
  BY <1>2, <1>4, <1>5, <1>6, DueOne DEF DueNow
<1>8. Feed!SendTreeFails(s)
  BY <1>1, <1>3, <1>7 DEF Feed!SendTreeFails, DueNow, Streams
<1> QED
  BY <1>2, <1>8 DEF Follows, Feed!Next

\* run() leaves at the shutdown.
LEMMA MapRunShutdown ==
    ASSUME IInv, NEW s \in Subs, RunShutdown(s)
    PROVE  Follows
<1> USE DEF IInv, TypeOK, EventCtrlTypeOK, eventVars, treeVars, queueVars, handlerVars, responderVars
<1>1. /\ runpc[s] = "select" /\ runpc' = [runpc EXCEPT ![s] = "done"]
      /\ UNCHANGED <<root, receivers, runev, onchange, pending, ready, hpc, hcur, hout, rpc, rmsg, respchan, view>>
  BY DEF RunShutdown
<1>2. UNCHANGED <<DueNow, Unsent, Sent>>
  BY <1>1, DueStill, QueuesStill, SentStill
<1>3. s \in Streams /\ Streams' = Streams \ {s}
  BY <1>1 DEF Streams, Streaming
<1>4. Feed!Stop(s)
  BY <1>1, <1>2, <1>3 DEF Feed!Stop, DueNow, Streams
<1> QED
  BY <1>4 DEF Follows, Feed!Next

\* deleteSubscription() closes onchange when s is not registered and has no run().
LEMMA MapDeleteSubscription ==
    ASSUME IInv, NEW x \in Sess, DeleteSubscription(x), NEW s, s = hcur[x]
    PROVE  Follows
<1> USE DEF IInv, TypeOK, EventCtrlTypeOK, treeVars, runVars, responderVars
<1>1. s \in Subs /\ SessOf[s] = x
  BY DEF DeleteSubscription, HandlerOK, Settling, SubsOf
<1>2. /\ hpc[x] = "delsub" /\ hpc' = [hpc EXCEPT ![x] = "unregister"]
      /\ hcur' = [hcur EXCEPT ![x] = Nobody] /\ onchange' = [onchange EXCEPT ![s] = <<>>]
      /\ UNCHANGED <<root, receivers, hout, runpc, runev, pending, ready, rpc, rmsg, respchan, view>>
  BY DEF DeleteSubscription
<1>3. UNCHANGED <<DueNow, Streams, Sent>>
  BY <1>2, DueFrame, StreamsStill, SentStill DEF Streaming
<1>4. s \notin receivers /\ s \notin ready /\ ~ Streaming(s)
  BY <1>1, <1>2 DEF SubsOK, JoinedOK, Joint, SubsOf
<1>5. \A t \in Subs : InHand(t)' = InHand(t) /\ Assembled(t)' = Assembled(t)
  BY <1>2 DEF InHand, Assembled
<1>6. InHand(s) = <<>> /\ Assembled(s) = <<>> /\ onchange'[s] = <<>>
  BY <1>1, <1>2, <1>4 DEF InHand, Assembled, Streaming
<1>7. Unsent'[s] = <<>>
  BY <1>1, <1>5, <1>6, UnsentIs
<1>8. ASSUME NEW t \in Subs \ {s} PROVE Unsent'[t] = Unsent[t]
  <2>1. InHand(t)' = InHand(t) /\ Assembled(t)' = Assembled(t)
    BY <1>5
  <2>2. onchange \in [Subs -> Seq(Events)]
    OBVIOUS
  <2> HIDE DEF IInv, TypeOK, EventCtrlTypeOK
  <2>3. onchange'[t] = onchange[t]
    BY <1>2, <2>2
  <2> QED
    BY <2>1, <2>3, UnsentIs, Zenon
<1>9. CASE Unsent[s] = <<>>
  BY <1>2, <1>3, <1>7, <1>8, <1>9, UnsentStill DEF Follows, Mapped
<1>10. CASE Unsent[s] # <<>>
  <2>1. Unsent' = [Unsent EXCEPT ![s] = <<>>]
    BY <1>7, <1>8 DEF Unsent
  <2>2. s \notin Streams
    BY <1>4 DEF Streams
  <2>3. Feed!DropChanges(s)
    BY <1>2, <1>3, <1>4, <1>10, <2>1, <2>2 DEF Feed!DropChanges, DueNow, Streams
  <2> QED
    BY <1>1, <2>3 DEF Follows, Feed!Next
<1> QED
  BY <1>9, <1>10

\* Stop() closes respchan when the goroutines of the session have ended.
LEMMA MapCloseResponses ==
    ASSUME IInv, NEW x \in Sess, CloseResponses(x)
    PROVE  Follows
<1> USE DEF IInv, TypeOK, EventCtrlTypeOK, eventVars, treeVars, queueVars, runVars, responderVars
<1>1. /\ hpc[x] = "unregister" /\ hpc' = [hpc EXCEPT ![x] = "leave"]
      /\ respchan' = [respchan EXCEPT ![x] = <<>>] /\ \A s \in SubsOf(x) : sub[s] # "live"
      /\ UNCHANGED <<root, receivers, hcur, hout, runpc, runev, onchange, pending, ready, rpc, rmsg, view>>
  BY DEF CloseResponses
<1>2. UNCHANGED <<DueNow, Streams, Unsent>>
  BY <1>1, DueFrame, StreamsStill, QueuesStill DEF Streaming
<1>3. rpc[x] # "send" /\ \A s \in SubsOf(x) : ~ Streaming(s)
  BY <1>1 DEF JoinedOK, Joint
<1>4. \A s \in receivers \cup Streams : SessOf[s] # x
  BY <1>1, <1>3 DEF LiveReceivers, SubsOf, Streams
<1>5. Sent'[x] = <<>>
  <2>1. Sent'[x] = (IF rpc'[x] = "send" THEN <<rmsg'[x]>> ELSE <<>>) \o respchan'[x]
    BY Zenon DEF Sent
  <2>2. respchan'[x] = <<>> /\ rpc'[x] # "send"
    BY <1>1, <1>3
  <2> QED
    BY <2>1, <2>2
<1>6. \A y \in Sess \ {x} : Sent'[y] = Sent[y]
  BY <1>1, SentIs
<1>7. CASE Sent[x] = <<>>
  <2>1. Sent' = Sent
    BY <1>5, <1>6, <1>7, SentIs
  <2> QED
    BY <1>1, <1>2, <2>1 DEF Follows, Mapped
<1>8. CASE Sent[x] # <<>>
  <2>1. Sent' = [Sent EXCEPT ![x] = <<>>]
    BY <1>5, <1>6, SentIs
  <2>2. Feed!DropResponses(x)
    BY <1>1, <1>2, <1>4, <1>8, <2>1 DEF Feed!DropResponses, DueNow, Streams
  <2> QED
    BY <2>2 DEF Follows, Feed!Next
<1> QED
  BY <1>7, <1>8

\* The responder takes a response, which stays the first of the stream.
LEMMA MapRespondTake ==
    ASSUME IInv, NEW x \in Sess, RespondTake(x)
    PROVE  Follows
<1> USE DEF IInv, TypeOK, EventCtrlTypeOK, eventVars, treeVars, queueVars, handlerVars, runVars
<1>1. /\ rpc[x] = "select" /\ rpc' = [rpc EXCEPT ![x] = "send"]
      /\ respchan[x] # <<>> /\ respchan' = [respchan EXCEPT ![x] = Tail(@)]
      /\ rmsg' = [rmsg EXCEPT ![x] = Head(respchan[x])]
      /\ UNCHANGED <<root, receivers, hpc, hcur, hout, runpc, runev, onchange, pending, ready, view>>
  BY DEF RespondTake
<1>2. UNCHANGED <<DueNow, Streams, Unsent>>
  BY <1>1, DueStill, StreamsStill, QueuesStill DEF Streaming
<1>3. Sent'[x] = Sent[x]
  <2>1. /\ Sent[x] = (IF rpc[x] = "send" THEN <<rmsg[x]>> ELSE <<>>) \o respchan[x]
        /\ Sent'[x] = (IF rpc'[x] = "send" THEN <<rmsg'[x]>> ELSE <<>>) \o respchan'[x]
    BY Zenon DEF Sent
  <2>2. respchan[x] \in Seq(Messages)
    OBVIOUS
  <2>3. <<Head(respchan[x])>> \o Tail(respchan[x]) = respchan[x] /\ <<>> \o respchan[x] = respchan[x]
    BY <1>1, <2>2
  <2> QED
    BY <1>1, <2>1, <2>3
<1>4. \A y \in Sess \ {x} : Sent'[y] = Sent[y]
  BY <1>1, SentIs
<1>5. Sent' = Sent
  BY <1>3, <1>4, SentIs
<1> QED
  BY <1>1, <1>2, <1>5 DEF Follows, Mapped

\* The client has it.
LEMMA MapRespondSend ==
    ASSUME IInv, NEW x \in Sess, RespondSend(x)
    PROVE  Follows
<1> USE DEF IInv, TypeOK, EventCtrlTypeOK, eventVars, treeVars, queueVars, handlerVars, runVars
<1> DEFINE m == rmsg[x]
<1>1. /\ rpc[x] = "send" /\ rpc' = [rpc EXCEPT ![x] = "select"]
      /\ view' = [view EXCEPT ![m.to] = Overlay(@, m.chg)]
      /\ UNCHANGED <<root, receivers, hpc, hcur, hout, runpc, runev, onchange, pending, ready, respchan>>
      /\ \A y \in Sess \ {x} : rmsg'[y] = rmsg[y]
  BY DEF RespondSend
<1>2. UNCHANGED <<DueNow, Streams, Unsent>>
  BY <1>1, DueStill, StreamsStill, QueuesStill DEF Streaming
<1>3. Sent[x] # <<>> /\ Head(Sent[x]) = m /\ Sent'[x] = Tail(Sent[x])
  <2>1. /\ Sent[x] = (IF rpc[x] = "send" THEN <<rmsg[x]>> ELSE <<>>) \o respchan[x]
        /\ Sent'[x] = (IF rpc'[x] = "send" THEN <<rmsg'[x]>> ELSE <<>>) \o respchan'[x]
    BY Zenon DEF Sent
  <2>2. respchan[x] \in Seq(Messages) /\ m \in Messages
    BY <1>1 DEF HandlerOK
  <2>3. Sent[x] = <<m>> \o respchan[x] /\ Sent'[x] = <<>> \o respchan[x]
    BY <1>1, <2>1
  <2> HIDE DEF m
  <2>4. Head(<<m>> \o respchan[x]) = m /\ Tail(<<m>> \o respchan[x]) = respchan[x]
        /\ <<m>> \o respchan[x] # <<>>
    BY <2>2, JoinFirst
  <2>5. <<>> \o respchan[x] = respchan[x]
    BY <2>2, JoinNothing
  <2> QED
    BY <2>3, <2>4, <2>5
<1> HIDE DEF m
<1>4. \A y \in Sess \ {x} : Sent'[y] = Sent[y]
  BY <1>1, SentIs
<1>5. Sent' = [Sent EXCEPT ![x] = Tail(@)]
  BY <1>3, <1>4, SentIs
<1>6. view' = [view EXCEPT ![Head(Sent[x]).to] = Feed!Overlay(@, Head(Sent[x]).chg)]
  BY <1>1, <1>3, FeedSame
<1>7. Feed!Receive(x)
  BY <1>1, <1>2, <1>3, <1>5, <1>6 DEF Feed!Receive, DueNow, Streams
<1> QED
  BY <1>7 DEF Follows, Feed!Next

\* The responder comes or goes with nothing in hand.
LEMMA MapResponder ==
    ASSUME UNCHANGED <<root, receivers, runpc, runev, onchange, pending, ready, rmsg, respchan, view>>,
           UNCHANGED <<hcur, hout>>,
           \A x \in Sess : rpc'[x] = "send" <=> rpc[x] = "send",
           NEW x, \A y \in Sess \ {x} : hpc'[y] = hpc[y],
           hpc' = hpc \/ (hpc[x] # "init" /\ hpc'[x] # "init")
    PROVE  Follows
<1>1. DueNow' = DueNow
  BY DueStill, DueFrame
<1>2. UNCHANGED <<Streams, Unsent>>
  BY StreamsStill, QueuesStill DEF Streaming
<1>3. Sent' = Sent
  BY DEF Sent
<1> QED
  BY <1>1, <1>2, <1>3 DEF Follows, Mapped

\* A Set RPC changes the tree without an event, if it changes it.
LEMMA MapSetRPC ==
    ASSUME IInv, NEW c \in Events, SetRPC(c)
    PROVE  Follows
<1> USE DEF IInv, TypeOK, EventCtrlTypeOK, queueVars, handlerVars, runVars, responderVars
<1>1. /\ root' = Overlay(root, c) /\ root' \in [Paths -> Leaves]
      /\ UNCHANGED <<receivers, runpc, runev, onchange, pending, ready, hpc, hcur, hout, rpc, rmsg, respchan, view>>
  BY OverlayTree DEF SetRPC
<1>2. UNCHANGED <<DueNow, Streams, Unsent, Sent>>
  BY <1>1, DueStill, StreamsStill, QueuesStill, SentStill DEF Streaming
<1>3. CASE root' = root
  BY <1>1, <1>2, <1>3 DEF Follows, Mapped
<1>4. CASE root' # root
  <2>1. Feed!SilentChange
    BY <1>1, <1>2, <1>4, FeedSame DEF Feed!SilentChange, Feed!feedVars, DueNow, Streams
  <2> QED
    BY <2>1 DEF Follows, Feed!Next
<1> QED
  BY <1>3, <1>4


\* Every step is one of ChangeFeed, or none.
LEMMA MapStep ==
    ASSUME IInv, FeedInv, PendingOK, [Next]_vars
    PROVE  Follows
<1> USE DEF IInv, FeedInv, TypeOK, EventCtrlTypeOK, lockVars, queueVars, writerVars, eventVars, treeVars,
            handlerVars, runVars, responderVars, telemetryVars
<1>1. ASSUME NEW p \in Procs, CallStep(p)
      PROVE  Follows
  <2>1. CASE Lock(p) \/ EndEvents(p) \/ Unlock(p)
    BY <1>1, <2>1, MapStill DEF CallStep, Lock, EndEvents, Unlock, Streaming
  <2> QED
    BY <1>1, <2>1, MapSetEvent, MapSetEventFails, MapEventComplete DEF CallStep, WriterStep
<1>2. ASSUME NEW x \in Sess, StartSubSession(x)
      PROVE  Follows
  <2>1. hpc[x] = "new" /\ rpc[x] = "none"
    BY <1>2 DEF StartSubSession, SubsOK
  <2>2. /\ UNCHANGED <<root, receivers, runpc, runev, onchange, pending, ready, rmsg, respchan, view, hcur, hout>>
        /\ \A y \in Sess : rpc'[y] = "send" <=> rpc[y] = "send"
        /\ \A y \in Sess \ {x} : hpc'[y] = hpc[y]
        /\ hpc'[x] # "init"
    BY <1>2, <2>1 DEF StartSubSession
  <2> QED
    BY <2>1, <2>2, MapResponder
<1>3. ASSUME NEW x \in Sess, RespondShutdown(x)
      PROVE  Follows
  BY <1>3, MapResponder DEF RespondShutdown
<1>4. ASSUME NEW x \in Sess,
             RegisterSub(x) \/ InitTelemetryUpdate(x) \/ InitSend(x) \/ InitFails(x) \/ StartRun(x)
             \/ DeleteSubscription(x) \/ CloseResponses(x) \/ RespondTake(x) \/ RespondSend(x)
      PROVE  Follows
  BY <1>4, MapRegister, MapAsk, MapInitSend, MapInitFails, MapStartRun, MapDeleteSubscription, MapCloseResponses,
     MapRespondTake, MapRespondSend
<1>5. ASSUME NEW x \in Sess, Joined(x) \/ DeleteDynamic(x) \/ LeaveSubSession(x)
      PROVE  Follows
  <2>1. /\ UNCHANGED <<root, receivers, runpc, runev, onchange, pending, ready, rpc, rmsg, respchan, view>>
        /\ UNCHANGED <<hcur, hout>>
        /\ \A y \in Sess \ {x} : hpc'[y] = hpc[y]
        /\ hpc[x] # "init" /\ hpc'[x] # "init"
    BY <1>5 DEF Joined, DeleteDynamic, LeaveSubSession, Begin
  <2> QED
    BY <2>1, MapHandler
<1>6. ASSUME NEW x \in Sess, NEW S \in SUBSET Subs, ProcessSubscribe(x, S) \/ EndOfStream(x, S)
      PROVE  Follows
  <2>1. /\ UNCHANGED <<root, receivers, runpc, runev, onchange, pending, ready, rpc, rmsg, respchan, view>>
        /\ UNCHANGED <<hcur, hout>>
        /\ \A y \in Sess \ {x} : hpc'[y] = hpc[y]
        /\ hpc[x] # "init" /\ hpc'[x] # "init"
    BY <1>6 DEF ProcessSubscribe, EndOfStream
  <2> QED
    BY <2>1, MapHandler
<1>7. ASSUME NEW x \in Sess, NEW s \in Subs, AddDynamic(x, s)
      PROVE  Follows
  BY <1>7, MapHandler DEF AddDynamic, AddEntry, Begin, eventVars
<1>8. ASSUME NEW x \in Sess, NEW s \in Subs, UnregisterSub(x, s)
      PROVE  Follows
  BY <1>8, MapUnregister
<1>9. ASSUME NEW x \in Sess, NEW c \in SUBSET Events, SyncCallback(x, c)
      PROVE  Follows
  BY <1>9, MapStill DEF SyncCallback, Begin, Streaming
<1>10. ASSUME NEW s \in Subs, RunShutdown(s) \/ RunReceive(s) \/ RunSend(s) \/ RunFails(s)
       PROVE  Follows
  BY <1>10, MapRunShutdown, MapRunReceive, MapRunSend, MapRunFails
<1>11. ASSUME NEW s \in Subs, RunRLock(s)
       PROVE  Follows
  BY <1>11, MapStill DEF RunRLock, RLock, Streaming
<1>12. ASSUME NEW p \in Writers, NEW c \in SUBSET Events, Write(p, c)
       PROVE  Follows
  BY <1>12, MapStill DEF Write, Begin, Streaming
<1>13. ASSUME NEW m \in Events, SetRPC(m)
       PROVE  Follows
  BY <1>13, MapSetRPC
<1>14. CASE UNCHANGED vars
  BY <1>14, MapStill DEF vars, Streaming
<1> QED
  BY NextCases, <1>1, <1>2, <1>3, <1>4, <1>5, <1>6, <1>7, <1>8, <1>9, <1>10,
     <1>11, <1>12, <1>13, <1>14

LEMMA MapInit == Init => PendingOK /\ Feed!Init
<1> SUFFICES ASSUME Init PROVE PendingOK /\ Feed!Init
  OBVIOUS
<1> USE DEF Init, EventCtrlInit
<1>1. PendingOK
  BY DEF PendingOK
<1>2. DueNow = [s \in Subs |-> "nothing"]
  <2>1. \A s \in Subs : Due(s) = "nothing"
    BY DEF Due
  <2> QED
    BY <2>1 DEF DueNow
<1>3. Streams = {}
  BY DEF Streams, Streaming
<1>4. Unsent = [s \in Subs |-> <<>>]
  <2>1. \A s \in Subs : InHand(s) = <<>> /\ onchange[s] = <<>> /\ Assembled(s) = <<>>
    BY DEF InHand, Assembled
  <2> QED
    BY <2>1 DEF Unsent
<1>5. Sent = [x \in Sess |-> <<>>]
  BY DEF Sent
<1>6. Feed!Init
  BY <1>2, <1>3, <1>4, <1>5 DEF Feed!Init, DueNow, Streams
<1> QED
  BY <1>1, <1>6

\* The changes of the tree come to the clients as ChangeFeed says: the tree first,
\* then every change since the registration, each once and in their order, as one
\* stream for each RPC, although they go through pending events, two channels and
\* three goroutines.  If a call of SetEvent() or a conversion fails, what it had in
\* hand is lost and nothing else.  (SetEvent, EventReceive, EventComplete, run,
\* telemetryUpdate, initTelemetryUpdate, Subscribe, Stop)
THEOREM ServerFeedsClients == Spec => FeedSpec
<1>1. Init => FeedInv /\ PendingOK /\ Feed!Init
  BY FeedInit, MapInit
<1>2. IInv /\ FeedInv /\ PendingOK /\ [Next]_vars => PendingOK'
  BY PendingStep
<1>3. IInv /\ FeedInv /\ PendingOK /\ [Next]_vars => [UNCHANGED Feed!vars \/ Feed!Next]_Feed!vars
  <2> SUFFICES ASSUME IInv, FeedInv, PendingOK, [Next]_vars
               PROVE  [UNCHANGED Feed!vars \/ Feed!Next]_Feed!vars
    OBVIOUS
  <2>1. UNCHANGED Mapped => UNCHANGED Feed!vars
    BY DEF Mapped, Feed!vars, Feed!feedVars, DueNow, Streams
  <2> QED
    BY <2>1, MapStep DEF Follows
<1> QED
  BY <1>1, <1>2, <1>3, FeedInvStep, Invariance, PTL DEF Spec, FeedSpec, Feed!Spec

-----------------------------------------------------------------------------
(* Only full channels bring the server to a standstill.                     *)

\* Whoever holds a lock is at a place where it lets go of it, and the responder and
\* the loop over startingList fit the place of the handler.
PlaceOK(x) ==
    /\ rpc[x] = "none" => hpc[x] \in {"new", "done"}
    /\ rpc[x] = "done" => Shutdown(x)
    /\ x \in readers => hpc[x] = "init"
    /\ hpc[x] = "dynamic" => hlist[x] # {}
HoldersOK ==
    /\ \A p \in Procs : wpc[p] = "complete" => ec = p
    /\ ec # Nobody => wpc[ec] = "complete"
    /\ wlock # Nobody => wpc[wlock] \in {"event", "complete"}
PlacesOK == HoldersOK /\ \A x \in Sess : PlaceOK(x)

\* Nobody can go on, and no channel is the reason.
Standstill ==
    /\ ~ Busy
    /\ \A x \in Sess : ~ Clogged(x)
    /\ \A p \in Procs : ~ Blocked(p)

LEMMA HoldersCall ==
    ASSUME TypeOK, HoldersOK, NEW p \in Procs, WriterStep(p)
    PROVE  HoldersOK'
<1> USE DEF TypeOK, EventCtrlTypeOK, HoldersOK
<1>1. p # Nobody
  BY EventCtrlAssumption DEF EventCtrlAssumption
<1>2. CASE Lock(p)
  BY <1>1, <1>2 DEF Lock
<1>3. CASE SetEvent(p)
  BY <1>1, <1>3 DEF SetEvent, lockVars
<1>4. CASE SetEventFails(p)
  BY <1>4 DEF SetEventFails, lockVars
<1>5. CASE \E s \in Subs : EventComplete(p, s)
  BY <1>5 DEF EventComplete, lockVars, writerVars
<1>6. CASE EndEvents(p)
  BY <1>6 DEF EndEvents, lockVars
<1>7. CASE Unlock(p)
  BY <1>7 DEF Unlock
<1> QED
  BY <1>2, <1>3, <1>4, <1>5, <1>6, <1>7 DEF WriterStep

\* The beginning of a call takes no lock.
LEMMA HoldersFrame ==
    ASSUME TypeOK, HoldersOK, UNCHANGED <<ec, wlock>>,
           wpc' = wpc \/ \E p \in Procs : wpc[p] = "out" /\ wpc' = [wpc EXCEPT ![p] = "lock"]
    PROVE  HoldersOK'
<1> USE DEF TypeOK, EventCtrlTypeOK, HoldersOK
<1>1. CASE wpc' = wpc
  BY <1>1
<1>2. CASE \E p \in Procs : wpc[p] = "out" /\ wpc' = [wpc EXCEPT ![p] = "lock"]
  <2>1. PICK p \in Procs : wpc[p] = "out" /\ wpc' = [wpc EXCEPT ![p] = "lock"]
    BY <1>2
  <2>2. \A r \in Procs : r # p => wpc'[r] = wpc[r]
    BY <2>1
  <2> QED
    BY <2>1, <2>2
<1> QED
  BY <1>1, <1>2

LEMMA PlaceFrame ==
    ASSUME PlacesOK, readers' \cap Sess \subseteq readers, UNCHANGED <<hpc, hlist>>,
           \A x \in Sess : rpc'[x] = rpc[x] \/ rpc'[x] \in {"select", "send"}
    PROVE  \A x \in Sess : PlaceOK(x)'
BY DEF PlacesOK, PlaceOK, Shutdown

\* One handler moves, and the others stay where they are.
LEMMA PlaceMove ==
    ASSUME PlacesOK, NEW x \in Sess,
           \A y \in Sess \ {x} : UNCHANGED <<hpc[y], rpc[y], hlist[y], y \in readers>>,
           PlaceOK(x)'
    PROVE  \A y \in Sess : PlaceOK(y)'
BY DEF PlacesOK, PlaceOK, Shutdown

\* PlacesOK.
LEMMA PlacesStep ==
    ASSUME TypeOK, PlacesOK, [Next]_vars
    PROVE  PlacesOK'
<1> USE DEF lockVars, queueVars, writerVars, eventVars, treeVars,
            handlerVars, runVars, responderVars, telemetryVars
<1>1. HoldersOK /\ Sess \subseteq Procs /\ Subs \cap Sess = {}
  BY TelemetryAssumption DEF TelemetryAssumption, PlacesOK
<1>2. ASSUME NEW p \in Procs, CallStep(p)
      PROVE  PlacesOK'
  <2>1. HoldersOK'
    BY <1>1, <1>2, HoldersCall DEF CallStep
  <2>2. readers' = readers
    BY <1>2 DEF CallStep, WriterStep, Lock, SetEvent, SetEventFails, EventComplete, EndEvents, Unlock
  <2> QED
    BY <1>2, <2>1, <2>2, PlaceFrame DEF CallStep, PlacesOK
<1>3. ASSUME NEW x \in Sess,
             \/ StartSubSession(x) \/ RegisterSub(x) \/ InitTelemetryUpdate(x)
             \/ StartRun(x) \/ InitFails(x) \/ Joined(x) \/ DeleteSubscription(x)
             \/ CloseResponses(x) \/ LeaveSubSession(x) \/ RespondShutdown(x)
      PROVE  PlacesOK'
  <2>1. UNCHANGED <<ec, wlock, wpc>>
    BY <1>3 DEF StartSubSession, RegisterSub, Register, InitTelemetryUpdate, StartRun, InitFails,
       Joined, DeleteSubscription, CloseResponses, LeaveSubSession, RespondShutdown, RLock, RUnlock
  <2>2. \A y \in Sess \ {x} : UNCHANGED <<hpc[y], rpc[y], hlist[y], y \in readers>>
    BY <1>3 DEF StartSubSession, RegisterSub, Register, InitTelemetryUpdate, StartRun, InitFails,
       Joined, DeleteSubscription, CloseResponses, LeaveSubSession, RespondShutdown, RLock, RUnlock, TypeOK
  <2>3. PlaceOK(x)'
    BY <1>3 DEF StartSubSession, RegisterSub, Register, InitTelemetryUpdate, StartRun, InitFails,
       Joined, DeleteSubscription, CloseResponses, LeaveSubSession, RespondShutdown, RLock, RUnlock, TypeOK,
       PlacesOK, PlaceOK, Shutdown, Stopping
  <2> QED
    BY <1>1, <2>1, <2>2, <2>3, HoldersFrame, PlaceMove DEF PlacesOK
<1>4. ASSUME NEW x \in Sess, NEW s \in Subs, UnregisterSub(x, s) \/ AddDynamic(x, s)
      PROVE  PlacesOK'
  <2>1. UNCHANGED <<ec, wlock, readers>>
        /\ (wpc' = wpc \/ (wpc[x] = "out" /\ wpc' = [wpc EXCEPT ![x] = "lock"]))
    <3>1. CASE UnregisterSub(x, s)
      BY <3>1 DEF UnregisterSub, Unregister
    <3>2. CASE AddDynamic(x, s)
      BY <3>2 DEF AddDynamic, AddEntry, Begin, eventVars
    <3> QED
      BY <1>4, <3>1, <3>2
  <2>2. \A y \in Sess \ {x} : UNCHANGED <<hpc[y], rpc[y], hlist[y], y \in readers>>
    BY <1>4, <2>1 DEF UnregisterSub, AddDynamic, AddEntry, TypeOK
  <2>3. PlaceOK(x)'
    BY <1>4, <2>1 DEF UnregisterSub, AddDynamic, AddEntry, TypeOK, PlacesOK, PlaceOK, Shutdown, Stopping
  <2> QED
    BY <1>1, <2>1, <2>2, <2>3, HoldersFrame, PlaceMove DEF PlacesOK
<1>5. ASSUME NEW x \in Sess, NEW S \in SUBSET Subs, ProcessSubscribe(x, S) \/ EndOfStream(x, S)
      PROVE  PlacesOK'
  <2>1. UNCHANGED <<ec, wlock, wpc, readers>>
    BY <1>5 DEF ProcessSubscribe, EndOfStream
  <2>2. \A y \in Sess \ {x} : UNCHANGED <<hpc[y], rpc[y], hlist[y], y \in readers>>
    BY <1>5, <2>1 DEF ProcessSubscribe, EndOfStream, TypeOK
  <2>3. PlaceOK(x)'
    BY <1>5, <2>1 DEF ProcessSubscribe, EndOfStream, TypeOK, PlacesOK, PlaceOK, Shutdown, Stopping
  <2> QED
    BY <1>1, <2>1, <2>2, <2>3, HoldersFrame, PlaceMove DEF PlacesOK
<1>6. ASSUME NEW x \in Sess, DeleteDynamic(x)
      PROVE  PlacesOK'
  <2>1. UNCHANGED <<ec, wlock, readers>> /\ wpc[x] = "out" /\ wpc' = [wpc EXCEPT ![x] = "lock"]
    BY <1>6 DEF DeleteDynamic, Begin
  <2>2. \A y \in Sess \ {x} : UNCHANGED <<hpc[y], rpc[y], hlist[y], y \in readers>>
    BY <1>6, <2>1 DEF DeleteDynamic, TypeOK
  <2>3. PlaceOK(x)'
    BY <1>6, <2>1 DEF DeleteDynamic, TypeOK, PlacesOK, PlaceOK, Shutdown, Stopping
  <2> QED
    BY <1>1, <2>1, <2>2, <2>3, HoldersFrame, PlaceMove DEF PlacesOK
<1>7. ASSUME NEW x \in Sess, InitSend(x) \/ RespondTake(x) \/ RespondSend(x)
      PROVE  PlacesOK'
  <2>1. /\ UNCHANGED <<ec, wlock, wpc, readers, hpc, hlist>>
        /\ \A y \in Sess : rpc'[y] = rpc[y] \/ rpc'[y] \in {"select", "send"}
    BY <1>7 DEF InitSend, RespondTake, RespondSend, TypeOK
  <2> QED
    BY <1>1, <2>1, HoldersFrame, PlaceFrame DEF PlacesOK
<1>8. ASSUME NEW p \in Procs, NEW c \in SUBSET Events,
             (p \in Sess /\ SyncCallback(p, c)) \/ Write(p, c)
      PROVE  PlacesOK'
  <2>1. /\ UNCHANGED <<ec, wlock, readers, hpc, hlist, rpc>>
        /\ wpc[p] = "out" /\ wpc' = [wpc EXCEPT ![p] = "lock"]
    BY <1>8 DEF SyncCallback, Write, Begin
  <2> QED
    BY <1>1, <2>1, HoldersFrame, PlaceFrame DEF PlacesOK
<1>9. ASSUME NEW s \in Subs,
             RunShutdown(s) \/ RunReceive(s) \/ RunRLock(s) \/ RunSend(s) \/ RunFails(s)
      PROVE  PlacesOK'
  <2>1. /\ UNCHANGED <<ec, wlock, wpc, hpc, hlist, rpc>>
        /\ readers' \subseteq readers \cup {s}
    BY <1>9 DEF RunShutdown, RunReceive, RunRLock, RunSend, RunFails, RLock, RUnlock
  <2> QED
    BY <1>1, <2>1, HoldersFrame, PlaceFrame DEF PlacesOK
<1>10. ASSUME NEW m \in Events, SetRPC(m)
       PROVE  PlacesOK'
  <2>1. UNCHANGED <<ec, wlock, wpc, readers, hpc, hlist, rpc>>
    BY <1>10 DEF SetRPC
  <2> QED
    BY <1>1, <2>1, HoldersFrame, PlaceFrame DEF PlacesOK
<1>11. CASE UNCHANGED vars
  <2>1. UNCHANGED <<ec, wlock, wpc, readers, hpc, hlist, rpc>>
    BY <1>11 DEF vars
  <2> QED
    BY <1>1, <2>1, HoldersFrame, PlaceFrame DEF PlacesOK
<1>12. Writers \subseteq Procs /\ Sess \subseteq Procs
  BY TelemetryAssumption DEF TelemetryAssumption
<1> QED
  BY NextCases, <1>2, <1>3, <1>4, <1>5, <1>6, <1>7, <1>8, <1>9, <1>10, <1>11, <1>12

\* The responder and run() never wait for each other: a run() that cannot send its
\* response is in a session whose responder has left.
LEMMA SendersGoOn ==
    ASSUME IInv, PlacesOK, ~ Busy, \A x \in Sess : ~ Clogged(x)
    PROVE  /\ \A s \in Subs : runpc[s] # "send"
           /\ \A x \in Sess : hpc[x] # "init"
           /\ readers = {}
<1> USE DEF IInv, TypeOK
<1>1. ASSUME NEW s \in Subs PROVE runpc[s] # "send"
  <2> SUFFICES ASSUME runpc[s] = "send" PROVE FALSE
    OBVIOUS
  <2> DEFINE x == SessOf[s]
  <2>1. x \in Sess /\ s \in SubsOf(x) /\ Streaming(s) /\ Len(respchan[x]) \in Nat
    BY DEF SubsOf, Streaming
  <2>2. ~ (Len(respchan[x]) < RespCap) /\ ~ ResponderCan(x)
    BY <2>1 DEF Busy, RunCan
  <2>3. respchan[x] # <<>>
    BY <2>1, <2>2
  <2>4. rpc[x] \in {"none", "done"}
    BY <2>1, <2>2, <2>3 DEF ResponderCan
  <2>5. CASE rpc[x] = "none"
    <3>1. hpc[x] \in {"new", "done"}
      BY <2>1, <2>5 DEF PlacesOK, PlaceOK
    <3> QED
      BY <2>1, <3>1 DEF SubsOK, JoinedOK, Joint
  <2>6. CASE rpc[x] = "done"
    <3>1. Len(respchan[x]) >= RespCap
      BY <2>1, <2>2, TelemetryAssumption DEF TelemetryAssumption
    <3>2. Clogged(x)
      BY <2>1, <2>6, <3>1 DEF Clogged
    <3> QED
      BY <2>1, <3>2
  <2> QED
    BY <2>4, <2>5, <2>6
<1>2. ASSUME NEW x \in Sess PROVE hpc[x] # "init"
  <2> SUFFICES ASSUME hpc[x] = "init" PROVE FALSE
    OBVIOUS
  <2>1. ~ HandlerCan(x) /\ ~ ResponderCan(x) /\ Len(respchan[x]) \in Nat
    BY DEF Busy
  <2>2. respchan[x] # <<>>
    BY <2>1 DEF HandlerCan
  <2>3. rpc[x] \in {"none", "done"}
    BY <2>1, <2>2 DEF ResponderCan
  <2> QED
    BY <2>3 DEF PlacesOK, PlaceOK, Shutdown, Stopping
<1>3. readers = {}
  <2>1. \A x \in Sess : x \notin readers
    BY <1>2 DEF PlacesOK, PlaceOK
  <2>2. \A s \in Subs : s \notin readers
    BY <1>1 DEF ReadersOK
  <2>3. readers \subseteq Sess \cup Subs
    OBVIOUS
  <2> HIDE DEF IInv, TypeOK
  <2> QED
    BY <2>1, <2>2, <2>3
<1> QED
  BY <1>1, <1>2, <1>3

\* Then every call has returned: EventComplete() finds room, or its run() empties
\* the queue, the one that holds EventCtrl.mutex goes on, and so Lock is free.
LEMMA CallsGoOn ==
    ASSUME IInv, FeedInv, PlacesOK, ReceiversServed, Standstill
    PROVE  /\ \A p \in Procs : wpc[p] = "out"
           /\ wlock = Nobody /\ readers = {} /\ ec = Nobody
<1> USE DEF IInv, TypeOK, EventCtrlTypeOK
<1>1. readers = {} /\ \A s \in Subs : runpc[s] # "send"
  BY SendersGoOn DEF Standstill
<1>2. \A p \in Procs : ~ CallCan(p)
  BY DEF Standstill, Busy
<1>3. ASSUME NEW p \in Procs PROVE wpc[p] # "complete"
  <2> SUFFICES ASSUME wpc[p] = "complete" PROVE FALSE
    OBVIOUS
  <2>1. wlock = p /\ ec = p
    BY DEF FeedInv, LockOK, PlacesOK, HoldersOK
  <2>2. ready # {} /\ \A s \in ready : ~ (Len(onchange[s]) < OnchangeCap)
    BY <1>2 DEF CallCan
  <2>3. ASSUME NEW s \in ready PROVE Len(onchange[s]) >= OnchangeCap /\ AwayFromQueue(s)
    <3>1. s \in Subs /\ SessOf[s] \in Sess /\ Len(onchange[s]) \in Nat
      BY <2>3
    <3>2. onchange[s] # <<>> /\ Len(onchange[s]) >= OnchangeCap
      BY <2>2, <3>1
    <3>3. runpc[s] # "select"
      BY <3>1, <3>2 DEF Standstill, Busy, RunCan
    <3>4. s \in receivers
      BY DEF FeedInv, QueueOK
    <3>5. Started(s) \/ hcur[SessOf[s]] = s \/ Shutdown(SessOf[s])
      BY <3>4 DEF ReceiversServed
    <3>6. ~ Starting(s)
      <4>1. hpc[SessOf[s]] # "init" /\ ~ HandlerCan(SessOf[s])
        BY <3>1, SendersGoOn DEF Standstill, Busy
      <4> HIDE DEF IInv, TypeOK
      <4> QED
        BY <4>1 DEF Starting, HandlerCan
    <3> HIDE DEF IInv, TypeOK
    <3> QED
      BY <1>1, <3>1, <3>2, <3>3, <3>5, <3>6 DEF AwayFromQueue, Streaming
  <2>4. Blocked(p)
    BY <2>1, <2>2, <2>3 DEF Blocked
  <2> QED
    BY <2>4 DEF Standstill
<1>4. ec = Nobody
  BY <1>3 DEF PlacesOK, HoldersOK
<1>5. \A p \in Procs : wpc[p] # "event"
  BY <1>2, <1>4 DEF CallCan
<1>6. wlock = Nobody
  BY <1>3, <1>5 DEF PlacesOK, HoldersOK
<1>7. \A p \in Procs : wpc[p] # "lock"
  BY <1>1, <1>2, <1>6 DEF CallCan
<1> QED
  BY <1>1, <1>3, <1>4, <1>5, <1>6, <1>7

\* And every handler waits for its client, or has ended.
LEMMA HandlersGoOn ==
    ASSUME IInv, FeedInv, PlacesOK, ReceiversServed, Standstill, NEW x \in Sess
    PROVE  hpc[x] \in {"new", "recv", "done"}
<1> USE DEF IInv, TypeOK
<1>1. /\ \A p \in Procs : wpc[p] = "out"
      /\ wlock = Nobody /\ readers = {} /\ ec = Nobody
  BY CallsGoOn
<1>2. x \in Procs /\ ~ HandlerCan(x) /\ ~ ResponderCan(x)
  BY TelemetryAssumption DEF Standstill, Busy, TelemetryAssumption
<1>3. hpc[x] # "dynamic"
  BY <1>1, <1>2 DEF HandlerCan, PlacesOK, PlaceOK
<1>4. hpc[x] \notin {"register", "sync", "unregister", "delinfo", "delsub", "leave"}
  BY <1>1, <1>2 DEF HandlerCan
<1>5. hpc[x] # "init"
  BY SendersGoOn DEF Standstill
<1>6. hpc[x] # "wait"
  <2> SUFFICES ASSUME hpc[x] = "wait" PROVE FALSE
    OBVIOUS
  <2>1. Shutdown(x)
    BY DEF Shutdown, Stopping
  <2>2. rpc[x] = "done"
    BY <1>2, <2>1 DEF ResponderCan, PlacesOK, PlaceOK
  <2>3. PICK s \in SubsOf(x) : Streaming(s)
    BY <1>2, <2>2 DEF HandlerCan
  <2>4. s \in Subs /\ SessOf[s] = x /\ ~ RunCan(s)
    BY <2>3 DEF SubsOf, Standstill, Busy
  <2>5. runpc[s] = "send"
    BY <1>1, <2>1, <2>3, <2>4 DEF RunCan, Streaming
  <2> QED
    BY <2>4, <2>5, SendersGoOn DEF Standstill
<1> QED
  BY <1>3, <1>4, <1>5, <1>6 DEF Stopping

\* Nothing is on its way to a client any more, which has all.
LEMMA ClientsHaveAll ==
    ASSUME IInv, FeedInv, PlacesOK, ReceiversServed, Standstill,
           NEW s \in Subs \ UpdatesOnly, Streaming(s), NEW q \in Watch[s] \ silent
    PROVE  view[s][q] = root[q]
<1> USE DEF IInv, TypeOK, EventCtrlTypeOK
<1> DEFINE x == SessOf[s]
<1>1. x \in Sess /\ s \in SubsOf(x) /\ q \in Paths
  BY DEF SubsOf
<1>2. ec = Nobody /\ hpc[x] \in {"new", "recv", "done"}
  BY <1>1, CallsGoOn, HandlersGoOn
<1>3. hpc[x] = "recv"
  BY <1>1, <1>2 DEF SubsOK, JoinedOK, Joint
<1>4. rpc[x] = "select" /\ respchan[x] = <<>> /\ rmsg[x] = NoMessage
  <2>1. rpc[x] = "select"
    BY <1>1, <1>3 DEF PlacesOK, PlaceOK, Shutdown, Stopping, Standstill, Busy, ResponderCan
  <2>2. respchan[x] = <<>>
    BY <1>1, <2>1 DEF Standstill, Busy, ResponderCan
  <2> QED
    BY <1>1, <2>1, <2>2 DEF FeedInv, RouteOK
<1>5. runpc[s] = "select" /\ onchange[s] = <<>> /\ runev[s] = NoEvent
  <2>1. runpc[s] # "send" /\ ~ RunCan(s) /\ wlock = Nobody
    BY SendersGoOn, CallsGoOn DEF Standstill, Busy
  <2>2. runpc[s] = "select" /\ onchange[s] = <<>>
    BY <2>1 DEF RunCan, Streaming
  <2> QED
    BY <2>2 DEF FeedInv, RouteOK
<1>6. s \in receivers
  BY <1>3, <1>5 DEF FeedInv, QueueOK, Joint
<1>7. FeedAt(s, q)
  BY <1>6 DEF FeedInv, FeedOK
<1>8. root[q] # Same
  BY <1>1, EventCtrlAssumption DEF Leaves, EventCtrlAssumption
<1>9. pending[s][q] = Same
  BY <1>1, <1>2 DEF FeedInv, QueueOK
<1>10. ~ Queued(onchange[s], pending[s], q, root[q])
  BY <1>5, <1>8, <1>9 DEF Queued, LastMention
<1>11. Front(s, <<>>, NoMessage, view[s], q, root[q])
  BY <1>1, <1>4, <1>5, <1>7, <1>8, <1>10 DEF FeedAt, NoEvent
<1>12. ~ LastMention(ToldIn(s, <<>>), q, root[q])
  BY DEF LastMention, ToldIn
<1>13. ToldTo(s, NoMessage)[q] = Same
  BY <1>1 DEF ToldTo, NoMessage, NoEvent
<1> QED
  BY <1>8, <1>11, <1>12, <1>13 DEF Front

\* Handlers, run() goroutines, responders and calls of Write, Merge and Delete, of
\* which there may be any number, never all wait for each other: the guard of one
\* of their steps holds, or nothing is left to do and every client has the tree, or
\* a run() waits for a responder that has left, or all wait for one call whose events
\* find no room.  (Server.Lock, RLock, EventCtrl.mutex, onchange, respchan, shutdown,
\* waitgroup)
THEOREM StandstillOnlyHung == Spec => []OnlyHangs
<1>1. Init => FeedInv /\ PlacesOK
  <2>1. Init => PlacesOK
    BY DEF Init, EventCtrlInit, PlacesOK, PlaceOK, HoldersOK
  <2> QED
    BY <2>1, FeedInit
<1>2. IInv /\ PlacesOK /\ [Next]_vars => PlacesOK'
  BY PlacesStep DEF IInv
<1>3. IInv /\ FeedInv /\ PlacesOK /\ ReceiversServed => OnlyHangs
  <2> SUFFICES ASSUME IInv, FeedInv, PlacesOK, ReceiversServed, Standstill PROVE Settled
    BY DEF OnlyHangs, Standstill
  <2>1. \A s \in Subs : Streaming(s) /\ s \notin UpdatesOnly =>
          \A q \in Watch[s] \ silent : view[s][q] = root[q]
    BY ClientsHaveAll
  <2> QED
    BY <2>1, CallsGoOn, HandlersGoOn DEF Settled
<1> QED
  BY <1>1, <1>2, <1>3, FeedInvStep, Invariance, SomebodyServes, PTL DEF Spec
-----------------------------------------------------------------------------
(* A hang is for good.                                                      *)

\* What a blocked call waits for, without the reasons for which there is no run().
StuckAt(s) ==
    /\ Len(onchange[s]) >= OnchangeCap
    /\ runpc[s] = "rlock" \/ (~ Streaming(s) /\ ~ Starting(s))
StuckCall(p) ==
    /\ wpc[p] = "complete" /\ wlock = p /\ ec = p
    /\ ready # {} /\ \A s \in ready : StuckAt(s)

LEMMA BlockedIsStuck ==
    ASSUME NEW p \in Procs, Blocked(p)
    PROVE  StuckCall(p)
BY DEF Blocked, AwayFromQueue, StuckCall, StuckAt

LEMMA StuckIsBlocked ==
    ReceiversServed /\ QueueOK => \A p \in Procs : StuckCall(p) => Blocked(p)
BY DEF ReceiversServed, QueueOK, StuckCall, StuckAt, Blocked, AwayFromQueue

LEMMA StuckFrame ==
    ASSUME NEW p \in Procs, StuckCall(p), UNCHANGED <<wlock, ec, ready>>, wpc'[p] = wpc[p],
           \A s \in ready : /\ onchange'[s] = onchange[s] /\ runpc'[s] = runpc[s]
                            /\ Starting(s)' => Starting(s)
    PROVE  StuckCall(p)'
BY DEF StuckCall, StuckAt, Streaming

\* No call makes a step while one is stuck.
LEMMA CallsWait ==
    ASSUME TypeOK, LockOK, HoldersOK, NEW p \in Procs, StuckCall(p), NEW r \in Procs
    PROVE  ~ WriterStep(r)
<1> USE DEF TypeOK, EventCtrlTypeOK
<1>1. p # Nobody /\ OnchangeCap \in Nat
  BY EventCtrlAssumption DEF EventCtrlAssumption
<1>2. ~ Lock(r) /\ ~ SetEvent(r) /\ ~ SetEventFails(r) /\ ~ EndEvents(r)
  BY <1>1 DEF StuckCall, Lock, SetEvent, SetEventFails, EndEvents
<1>3. \A s \in Subs : ~ EventComplete(r, s)
  BY <1>1 DEF StuckCall, StuckAt, EventComplete
<1>4. ~ Unlock(r)
  BY DEF StuckCall, LockOK, Unlock
<1> QED
  BY <1>2, <1>3, <1>4 DEF WriterStep

\* One handler moves.  It does not come to the start of a run() without a lock.
LEMMA StuckHandler ==
    ASSUME TypeOK, NEW p \in Procs, StuckCall(p), UNCHANGED <<wlock, ec, ready>>, NEW x \in Sess,
           \A y \in Sess \ {x} : UNCHANGED <<hpc[y], hcur[y], wpc[y]>>,
           \A r \in Procs : wpc'[r] = wpc[r] \/ (r = x /\ wpc[r] = "out"),
           hpc'[x] \notin {"sync", "init"},
           \A s \in ready : onchange'[s] = onchange[s] /\ runpc'[s] = runpc[s]
    PROVE  StuckCall(p)'
<1>1. wpc'[p] = wpc[p]
  BY DEF StuckCall
<1>2. ASSUME NEW s \in ready, Starting(s)' PROVE Starting(s)
  <2>1. SessOf[s] \in Sess /\ SessOf[s] # x
    BY <1>2, TelemetryAssumption DEF TelemetryAssumption, TypeOK, EventCtrlTypeOK, Starting
  <2> QED
    BY <1>2, <2>1 DEF Starting
<1> QED
  BY <1>1, <1>2, StuckFrame

LEMMA StuckStep ==
    ASSUME IInv, LockOK, PlacesOK, NEW p \in Procs, StuckCall(p), [Next]_vars
    PROVE  StuckCall(p)'
<1> USE DEF lockVars, queueVars, writerVars, eventVars, treeVars,
            handlerVars, runVars, responderVars, telemetryVars
<1>1. /\ TypeOK /\ HoldersOK /\ Sess \subseteq Procs /\ Writers \subseteq Procs
      /\ wlock # Nobody /\ ec # Nobody
  BY TelemetryAssumption, EventCtrlAssumption
  DEF TelemetryAssumption, EventCtrlAssumption, PlacesOK, IInv, StuckCall
<1>2. ASSUME NEW r \in Procs, CallStep(r) PROVE FALSE
  BY <1>1, <1>2, CallsWait DEF CallStep
<1>3. ASSUME NEW x \in Sess,
             \/ RegisterSub(x) \/ LeaveSubSession(x) \/ \E s \in Subs : UnregisterSub(x, s)
      PROVE  FALSE
  BY <1>1, <1>3 DEF RegisterSub, Register, LeaveSubSession, UnregisterSub, Unregister
<1>4. ASSUME NEW x \in Sess,
             \/ StartSubSession(x) \/ InitFails(x) \/ Joined(x) \/ CloseResponses(x)
             \/ \E S \in SUBSET Subs : ProcessSubscribe(x, S) \/ EndOfStream(x, S)
      PROVE  StuckCall(p)'
  <2>1. UNCHANGED <<wlock, ec, ready, wpc, onchange, runpc>>
    BY <1>4 DEF StartSubSession, InitFails, RUnlock, Joined, CloseResponses, ProcessSubscribe,
                EndOfStream
  <2>2. \A y \in Sess \ {x} : UNCHANGED <<hpc[y], hcur[y]>>
    BY <1>1, <1>4 DEF StartSubSession, InitFails, Joined, CloseResponses, ProcessSubscribe,
                EndOfStream, TypeOK
  <2>3. hpc'[x] \notin {"sync", "init"}
    BY <1>1, <1>4 DEF StartSubSession, InitFails, Joined, CloseResponses, ProcessSubscribe,
                EndOfStream, TypeOK
  <2> QED
    BY <1>1, <2>1, <2>2, <2>3, StuckHandler
<1>5. ASSUME NEW x \in Sess, DeleteDynamic(x) \/ \E s \in Subs : AddDynamic(x, s)
      PROVE  StuckCall(p)'
  <2>1. UNCHANGED <<wlock, ec, ready, onchange, runpc>>
    BY <1>5 DEF DeleteDynamic, AddDynamic, AddEntry, Begin, eventVars
  <2>2. wpc[x] = "out" /\ wpc' \in {wpc, [wpc EXCEPT ![x] = "lock"]}
    BY <1>5 DEF DeleteDynamic, AddDynamic, AddEntry, Begin, eventVars
  <2>3. /\ \A y \in Sess \ {x} : UNCHANGED <<hpc[y], hcur[y]>>
        /\ hpc'[x] \notin {"sync", "init"}
    <3>1. CASE DeleteDynamic(x)
      BY <1>1, <3>1 DEF DeleteDynamic, TypeOK
    <3>2. ASSUME NEW s \in Subs, AddDynamic(x, s)
          PROVE  /\ \A y \in Sess \ {x} : UNCHANGED <<hpc[y], hcur[y]>>
                 /\ hpc'[x] \notin {"sync", "init"}
      BY <1>1, <3>2 DEF AddDynamic, TypeOK
    <3> QED
      BY <1>5, <3>1, <3>2
  <2>5. \A r \in Procs : r # x => wpc'[r] = wpc[r]
    BY <1>1, <2>2 DEF TypeOK, EventCtrlTypeOK
  <2> QED
    BY <1>1, <2>1, <2>2, <2>3, <2>5, StuckHandler
<1>6. ASSUME NEW x \in Sess, DeleteSubscription(x)
      PROVE  StuckCall(p)'
  <2>1. UNCHANGED <<wlock, ec, ready, wpc, runpc>> /\ hpc[x] = "delsub"
        /\ onchange' = [onchange EXCEPT ![hcur[x]] = <<>>]
    BY <1>6 DEF DeleteSubscription
  <2>2. hcur[x] \notin ready
    BY <2>1 DEF IInv, SubsOK
  <2>3. \A s \in ready : onchange'[s] = onchange[s]
    BY <1>1, <2>1, <2>2 DEF TypeOK, EventCtrlTypeOK
  <2>4. \A y \in Sess \ {x} : UNCHANGED <<hpc[y], hcur[y]>>
    BY <1>1, <1>6 DEF DeleteSubscription, TypeOK
  <2>5. hpc'[x] \notin {"sync", "init"}
    BY <1>1, <1>6 DEF DeleteSubscription, TypeOK
  <2> QED
    BY <1>1, <2>1, <2>3, <2>4, <2>5, StuckHandler
<1>7. ASSUME NEW x \in Sess, StartRun(x)
      PROVE  StuckCall(p)'
  <2>1. UNCHANGED <<wlock, ec, ready, wpc, onchange>> /\ hpc[x] = "init"
        /\ runpc' = [runpc EXCEPT ![hcur[x]] = IF Streaming(hcur[x]) THEN @ ELSE "select"]
    BY <1>7 DEF StartRun, RUnlock
  <2>2. hcur[x] \in Subs /\ SessOf[hcur[x]] = x
    BY <2>1 DEF IInv, HandlerOK, Settling, SubsOf
  <2>3. hcur[x] \in ready => Streaming(hcur[x])
    BY <2>1, <2>2 DEF StuckCall, StuckAt, Starting, Streaming
  <2>4. \A s \in ready : runpc'[s] = runpc[s]
    BY <1>1, <2>1, <2>2, <2>3 DEF TypeOK, EventCtrlTypeOK
  <2>5. \A y \in Sess \ {x} : UNCHANGED <<hpc[y], hcur[y]>>
    BY <1>1, <1>7 DEF StartRun, TypeOK
  <2>6. hpc'[x] \notin {"sync", "init"}
    BY <1>1, <1>7 DEF StartRun, TypeOK
  <2> QED
    BY <1>1, <2>1, <2>4, <2>5, <2>6, StuckHandler
<1>8. ASSUME NEW x \in Sess, InitTelemetryUpdate(x)
      PROVE  StuckCall(p)'
  <2>1. /\ hpc[x] = "sync" /\ wpc[x] = "out" /\ hcur[x] \in UpdatesOnly
        /\ UNCHANGED <<wlock, ec, ready, wpc, onchange, runpc, hcur>>
    BY <1>1, <1>8 DEF InitTelemetryUpdate, RLock
  <2>2. \A y \in Sess \ {x} : hpc'[y] = hpc[y]
    BY <1>1, <1>8 DEF InitTelemetryUpdate, TypeOK
  <2>3. ASSUME NEW s \in ready, Starting(s)' PROVE Starting(s)
    <3>1. SessOf[s] \in Sess
      BY <1>1, TelemetryAssumption DEF TelemetryAssumption, TypeOK, EventCtrlTypeOK
    <3> QED
      BY <2>1, <2>2, <2>3, <3>1 DEF Starting
  <2> QED
    BY <2>1, <2>3, StuckFrame
<1>9. ASSUME NEW x \in Sess, InitSend(x) \/ RespondTake(x) \/ RespondSend(x) \/ RespondShutdown(x)
      PROVE  StuckCall(p)'
  <2>1. UNCHANGED <<wlock, ec, ready, wpc, onchange, runpc, hcur, hpc>>
    BY <1>9 DEF InitSend, RespondTake, RespondSend, RespondShutdown
  <2> QED
    BY <2>1, StuckFrame DEF Starting
<1>10. ASSUME NEW r \in Procs, NEW c \in SUBSET Events,
              (r \in Sess /\ SyncCallback(r, c)) \/ Write(r, c)
       PROVE  StuckCall(p)'
  <2>1. /\ UNCHANGED <<wlock, ec, ready, onchange, runpc, hcur, hpc>>
        /\ wpc[r] = "out" /\ wpc' = [wpc EXCEPT ![r] = "lock"]
    BY <1>10 DEF SyncCallback, Write, Begin
  <2>2. \A q \in Procs : wpc'[q] = wpc[q] \/ (wpc[q] = "out" /\ wpc'[q] # "out")
    BY <1>1, <2>1 DEF TypeOK, EventCtrlTypeOK
  <2>3. wpc'[p] = wpc[p]
    BY <2>2 DEF StuckCall
  <2>4. ASSUME NEW s \in ready, Starting(s)' PROVE Starting(s)
    <3>1. SessOf[s] \in Procs
      BY <1>1, TelemetryAssumption DEF TelemetryAssumption, TypeOK, EventCtrlTypeOK
    <3> QED
      BY <2>1, <2>2, <2>4, <3>1 DEF Starting
  <2> QED
    BY <2>1, <2>3, <2>4, StuckFrame
<1>11. ASSUME NEW s \in Subs,
              RunShutdown(s) \/ RunReceive(s) \/ RunRLock(s) \/ RunSend(s) \/ RunFails(s)
       PROVE  StuckCall(p)'
  <2>1. ~ RunRLock(s)
    BY <1>1 DEF RunRLock, RLock
  <2>2. UNCHANGED <<wlock, ec, ready, wpc, hcur, hpc>> /\ runpc[s] \in {"select", "send"}
    BY <1>11, <2>1 DEF RunShutdown, RunReceive, RunSend, RunFails, RUnlock
  <2>3. \A k \in Subs \ {s} : onchange'[k] = onchange[k] /\ runpc'[k] = runpc[k]
    BY <1>1, <1>11, <2>1 DEF RunShutdown, RunReceive, RunSend, RunFails, RUnlock, TypeOK,
                             EventCtrlTypeOK
  <2>4. s \notin ready
    BY <2>2 DEF StuckCall, StuckAt, Streaming
  <2>5. ready \subseteq Subs
    BY <1>1 DEF TypeOK, EventCtrlTypeOK
  <2> QED
    BY <2>2, <2>3, <2>4, <2>5, StuckFrame DEF Starting
<1>12. ASSUME NEW m \in Events, SetRPC(m) PROVE FALSE
  BY <1>1, <1>12 DEF SetRPC
<1>13. CASE UNCHANGED vars
  <2>1. UNCHANGED <<wlock, ec, ready, wpc, onchange, runpc, hcur, hpc>>
    BY <1>13 DEF vars
  <2> QED
    BY <2>1, StuckFrame DEF Starting
<1> QED
  BY NextCases, <1>1, <1>2, <1>3, <1>4, <1>5, <1>6, <1>7, <1>8, <1>9, <1>10, <1>11, <1>12, <1>13

LEMMA CloggedFrame ==
    ASSUME NEW x \in Sess, Clogged(x), rpc'[x] = rpc[x], respchan'[x] = respchan[x],
           \A s \in SubsOf(x) : runpc[s] = "send" => runpc'[s] = "send"
    PROVE  Clogged(x)'
BY DEF Clogged, SubsOf

\* A run() that waits for a responder that has left waits for ever: nobody takes from
\* respchan, and Stop() waits for the run() before it closes the channel.
LEMMA CloggedStep ==
    ASSUME IInv, ~ Faults, NEW x \in Sess, Clogged(x), [Next]_vars
    PROVE  Clogged(x)'
<1> USE DEF lockVars, queueVars, writerVars, eventVars, treeVars,
            handlerVars, runVars, responderVars, telemetryVars
<1>1. /\ TypeOK /\ SubsOf(x) \subseteq Subs /\ Sess \subseteq Procs /\ Writers \subseteq Procs
      /\ rpc[x] = "done" /\ ~ (Len(respchan[x]) < RespCap)
  BY TelemetryAssumption DEF TelemetryAssumption, IInv, Clogged, SubsOf, TypeOK
<1>2. hpc[x] \notin Joint \cup {"new"}
  <2>1. \E s \in SubsOf(x) : Streaming(s)
    BY DEF Clogged, Streaming
  <2> QED
    BY <1>1, <2>1 DEF IInv, JoinedOK, SubsOK
<1>3. ASSUME UNCHANGED <<rpc, respchan, runpc>> PROVE Clogged(x)'
  BY <1>3, CloggedFrame
<1>4. ASSUME NEW r \in Procs, CallStep(r) PROVE UNCHANGED <<rpc, respchan, runpc>>
  BY <1>4 DEF CallStep
<1>5. ASSUME NEW y \in Sess,
             \/ RegisterSub(y) \/ LeaveSubSession(y) \/ InitTelemetryUpdate(y) \/ InitFails(y)
             \/ Joined(y) \/ DeleteDynamic(y) \/ DeleteSubscription(y)
      PROVE  UNCHANGED <<rpc, respchan, runpc>>
  BY <1>5 DEF RegisterSub, LeaveSubSession, InitTelemetryUpdate, InitFails, Joined,
              DeleteDynamic, DeleteSubscription
<1>6. ASSUME NEW y \in Sess, NEW s \in Subs, UnregisterSub(y, s) \/ AddDynamic(y, s)
      PROVE  UNCHANGED <<rpc, respchan, runpc>>
  BY <1>6 DEF UnregisterSub, AddDynamic, AddEntry
<1>7. ASSUME NEW y \in Sess, NEW S \in SUBSET Subs, ProcessSubscribe(y, S) \/ EndOfStream(y, S)
      PROVE  UNCHANGED <<rpc, respchan, runpc>>
  BY <1>7 DEF ProcessSubscribe, EndOfStream
<1>8. ASSUME NEW r \in Procs, NEW c \in SUBSET Events,
             (r \in Sess /\ SyncCallback(r, c)) \/ Write(r, c)
      PROVE  UNCHANGED <<rpc, respchan, runpc>>
  BY <1>8 DEF SyncCallback, Write
<1>9. ASSUME NEW m \in Events, SetRPC(m) PROVE UNCHANGED <<rpc, respchan, runpc>>
  BY <1>9 DEF SetRPC
<1>10. ASSUME NEW y \in Sess,
              \/ StartSubSession(y) \/ CloseResponses(y) \/ InitSend(y)
              \/ RespondTake(y) \/ RespondSend(y) \/ RespondShutdown(y)
       PROVE  Clogged(x)'
  <2>1. runpc' = runpc
    BY <1>10 DEF StartSubSession, CloseResponses, InitSend, RespondTake, RespondSend,
                 RespondShutdown
  <2>2. y # x \/ RespondSend(y) \/ RespondShutdown(y)
    BY <1>1, <1>2, <1>10 DEF StartSubSession, CloseResponses, InitSend, RespondTake, Joint
  <2>3. y # x
    BY <1>1, <2>2 DEF RespondSend, RespondShutdown
  <2>4. rpc'[x] = rpc[x] /\ respchan'[x] = respchan[x]
    BY <1>1, <1>10, <2>3 DEF StartSubSession, CloseResponses, InitSend, RespondTake, RespondSend,
                 RespondShutdown, TypeOK
  <2> QED
    BY <2>1, <2>4, CloggedFrame
<1>11. ASSUME NEW y \in Sess, StartRun(y) PROVE Clogged(x)'
  <2>1. UNCHANGED <<rpc, respchan>>
        /\ runpc' = [runpc EXCEPT ![hcur[y]] = IF Streaming(hcur[y]) THEN @ ELSE "select"]
    BY <1>11 DEF StartRun
  <2>2. \A s \in Subs : runpc[s] = "send" => runpc'[s] = "send"
    BY <1>1, <2>1 DEF TypeOK, Streaming
  <2> QED
    BY <1>1, <2>1, <2>2, CloggedFrame
<1>12. ASSUME NEW s \in Subs,
              RunShutdown(s) \/ RunReceive(s) \/ RunRLock(s) \/ RunSend(s) \/ RunFails(s)
       PROVE  Clogged(x)'
  <2>1. ~ RunFails(s)
    BY DEF RunFails
  <2>2. CASE RunSend(s)
    <3>1. SessOf[s] # x
      BY <1>1, <2>2 DEF RunSend
    <3>2. s \notin SubsOf(x)
      BY <3>1 DEF SubsOf
    <3>3. rpc' = rpc /\ respchan'[x] = respchan[x] /\ \A k \in Subs \ {s} : runpc'[k] = runpc[k]
      BY <1>1, <2>2, <3>1 DEF RunSend, TypeOK
    <3> QED
      BY <1>1, <3>2, <3>3, CloggedFrame
  <2>3. CASE RunShutdown(s) \/ RunReceive(s) \/ RunRLock(s)
    <3>1. UNCHANGED <<rpc, respchan>> /\ runpc[s] # "send"
          /\ \A k \in Subs \ {s} : runpc'[k] = runpc[k]
      BY <1>1, <2>3 DEF RunShutdown, RunReceive, RunRLock, TypeOK
    <3> QED
      BY <1>1, <3>1, CloggedFrame
  <2> QED
    BY <1>12, <2>1, <2>2, <2>3
<1>13. CASE UNCHANGED vars
  BY <1>3, <1>13 DEF vars
<1> QED
  BY NextCases, <1>1, <1>3, <1>4, <1>5, <1>6, <1>7, <1>8, <1>9, <1>10, <1>11, <1>12, <1>13

\* Neither of the two is ever undone, whatever clients and program do: the call keeps
\* Lock and EventCtrl.mutex, and the run() its RLock.  (subscribe.go:226, 127; a
\* conversion fails before Send(), which the model does not tell apart, so that of
\* Clogged it is said of a system without failures.)
HangsLast ==
    [][/\ \A p \in Procs : Blocked(p) => Blocked(p)'
       /\ ~ Faults => \A x \in Sess : Clogged(x) => Clogged(x)']_vars

THEOREM HangsAreForGood == Spec => HangsLast
<1>1. Init => FeedInv /\ PlacesOK
  <2>1. Init => PlacesOK
    BY DEF Init, EventCtrlInit, PlacesOK, PlaceOK, HoldersOK
  <2> QED
    BY <2>1, FeedInit
<1>2. IInv /\ PlacesOK /\ [Next]_vars => PlacesOK'
  BY PlacesStep DEF IInv
<1>3. IInv /\ FeedInv /\ PlacesOK /\ [Next]_vars
        => /\ \A p \in Procs : Blocked(p) => StuckCall(p)'
           /\ ~ Faults => \A x \in Sess : Clogged(x) => Clogged(x)'
  BY StuckStep, BlockedIsStuck, CloggedStep DEF FeedInv
<1>4. FeedInv /\ ReceiversServed => \A p \in Procs : StuckCall(p) => Blocked(p)
  BY StuckIsBlocked DEF FeedInv
<1>5. /\ \A p \in Procs : Blocked(p) => StuckCall(p)'
      /\ ~ Faults => \A x \in Sess : Clogged(x) => Clogged(x)'
      /\ (\A p \in Procs : StuckCall(p) => Blocked(p))'
      => /\ \A p \in Procs : Blocked(p) => Blocked(p)'
         /\ ~ Faults => \A x \in Sess : Clogged(x) => Clogged(x)'
  OBVIOUS
<1> QED
  BY <1>1, <1>2, <1>3, <1>4, <1>5, FeedInvStep, Invariance, SomebodyServes, PTL
  DEF Spec, HangsLast
=============================================================================
