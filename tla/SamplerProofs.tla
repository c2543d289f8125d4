--------------------------- MODULE SamplerProofs ---------------------------
(***************************************************************************)
(* What the races of run() and EventReceive() can lose, for any            *)
(* subscription, any leaves, values and capacities of the channels, and    *)
(* any number of changes, ticks, polls and replacements of the root.       *)
(***************************************************************************)
EXTENDS Sampler, TLAPS

\* The events that are not sent yet: the one that Clear() is about to empty is
\* none of them although it may be pending, or in onchange.
Unsent ==
    IF pc = "update" THEN Waiting \cup {pending, event}
    ELSE (Waiting \cup {pending}) \ (IF pc = "clear" THEN {event} ELSE {})

\* The last of them that mentions q.
Newest(q, k) ==
    /\ k \in Unsent /\ q \in Mentioned(k)
    /\ \A j \in Unsent : j > k => q \notin Mentioned(j)

\* EventComplete() takes away the event that EventReceive() fills, and this is
\* the last one that was made.
PendingOK ==
    /\ pending # 0 => pending = Len(events)
    /\ OnChange => (pending # 0 <=> writer = "receive")

\* In ON_CHANGE mode an event has a value for what it updates, and what it
\* mentions without a value it deletes.
EventsOK ==
    \A k \in DOMAIN events, q \in Paths :
        /\ events[k].changes[q] # Absent => q \in events[k].updated
        /\ OnChange /\ q \in Mentioned(k) /\ events[k].changes[q] = Absent
             => q \in events[k].deleted

\* What the last event that mentions a leaf says of it is true.
NewestAt(q) ==
    \A k \in 1 .. Len(events) :
        Newest(q, k) =>
          IF OnChange THEN events[k].changes[q] = root[q]
          ELSE root[q] # Absent \/ q \in events[k].deleted \/ view[q] = root[q]
NewestOK == \A q \in Paths \ raced : NewestAt(q)

\* OnlyRacesLose, without the event that is about to be cleared.
UnsentAt(q) == view[q] # root[q] => \E k \in Unsent : q \in Mentioned(k)
UnsentOK == \A q \in Paths \ raced : UnsentAt(q)

LossInv == TypeOK /\ PendingOK /\ EventsOK /\ NewestOK /\ UnsentOK

USE SamplerAssumption, StartupsAssumption

Objects == [updated : SUBSET Paths, deleted : SUBSET Paths, changes : Trees]

-----------------------------------------------------------------------------
(* Types.                                                                   *)

\* What EventReceive() makes of an event is an event.
LEMMA ReceivedType ==
    ASSUME TypeOK, NEW e \in Objects, NEW q \in Paths, NEW v \in Leaves
    PROVE  Received(e, q, v) \in Objects
<1>1. [e.changes EXCEPT ![q] = v] \in Trees
  BY DEF Objects, Trees
<1> QED
  BY <1>1 DEF Received, Objects

\* Sequences of events and of their numbers.
LEMMA ExceptType ==
    ASSUME NEW s \in Seq(Objects), NEW k \in 1 .. Len(s), NEW e \in Objects
    PROVE  [s EXCEPT ![k] = e] \in Seq(Objects) /\ Len([s EXCEPT ![k] = e]) = Len(s)
OBVIOUS

LEMMA HeadTailType ==
    ASSUME NEW n \in Nat, NEW s \in Seq(1 .. n), s # <<>>
    PROVE  /\ Head(s) \in 1 .. n /\ Tail(s) \in Seq(1 .. n) /\ Len(Tail(s)) <= Len(s)
           /\ {Tail(s)[i] : i \in DOMAIN Tail(s)} \subseteq 0 .. n
<1>1. Head(s) \in 1 .. n /\ Tail(s) \in Seq(1 .. n) /\ Len(Tail(s)) <= Len(s)
  OBVIOUS
<1>2. \A i \in DOMAIN Tail(s) : Tail(s)[i] \in 1 .. n
  BY <1>1
<1> QED
  BY <1>1, <1>2

LEMMA NoChangeType == NoChange \in Objects
BY DEF NoChange, Objects, Trees, Leaves

LEMMA LossInit == Init => LossInv
<1> SUFFICES ASSUME Init PROVE LossInv
  OBVIOUS
<1>1. TypeOK
  <2>1. config \in Configurations /\ root \in Trees /\ view \in Trees
    BY DEF Init
  <2>2. /\ \A S : <<>> \in Seq(S)
        /\ Len(<<>>) = 0 /\ DOMAIN <<>> = {}
    OBVIOUS
  <2>3. events = <<>> /\ onchange = <<>> /\ expired = <<>> /\ Waiting = {} /\ Len(events) = 0
    BY <2>2 DEF Init, Waiting
  <2>4. /\ events \in Seq(Objects) /\ onchange \in Seq(1 .. Len(events))
        /\ expired \in Seq(BOOLEAN) /\ Len(onchange) = 0 /\ Len(expired) = 0
    BY <2>2, <2>3
  <2>5. pending = 0 /\ event = 0 /\ 0 \in 0 .. Len(events)
    BY <2>3 DEF Init
  <2>6. {pending, event} \cup Waiting \subseteq 0 .. Len(events)
    BY <2>3, <2>5
  <2>7. {sample, heart, stop} \subseteq BOOLEAN /\ raced \subseteq Paths
    BY DEF Init
  <2>8. /\ Len(onchange) <= OnchangeCap /\ Len(expired) <= ExpiredCap
        /\ writes \in 0 .. MaxWrites /\ loads \in 0 .. MaxLoads
    BY <2>4 DEF Init
  <2>9. /\ old = <<>> /\ writer = "idle" /\ pc = "select"
    BY DEF Init
  <2> QED
    BY <2>1, <2>4, <2>6, <2>7, <2>8, <2>9 DEF TypeOK, Objects
<1>2. PendingOK
  BY DEF Init, PendingOK
<1>3. EventsOK /\ NewestOK /\ UnsentOK
  BY DEF Init, EventsOK, NewestOK, NewestAt, UnsentOK, UnsentAt
<1> QED
  BY <1>1, <1>2, <1>3 DEF LossInv

\* A change fills the pending event, or a new one.
LEMMA ChangeType ==
    ASSUME TypeOK, PendingOK, NEW q \in Paths, NEW v \in Leaves, Change(q, v)
    PROVE  TypeOK'
<1> USE DEF TypeOK, treeVars, timerVars
<1>1. config' \in Configurations /\ root' \in Trees /\ view' \in Trees
      /\ (old' = <<>> \/ \E tree \in Trees : old' = <<tree>>)
      /\ {sample', heart', stop'} \subseteq BOOLEAN
      /\ writer' \in {"idle", "receive", "complete"}
  BY DEF Change, Trees
<1>2. events \in Seq(Objects) /\ pending \in 0 .. Len(events)
  BY DEF Objects
<1>3. events' \in Seq(Objects) /\ Len(events') >= Len(events) /\ pending' \in 0 .. Len(events')
  <2>1. CASE pending = 0
    <3>1. Received(NoChange, q, v) \in Objects
      BY ReceivedType, NoChangeType
    <3>2. events' = Append(events, Received(NoChange, q, v)) /\ pending' = Len(events) + 1
      BY <2>1 DEF Change
    <3> QED
      BY <1>2, <3>1, <3>2
  <2>2. CASE pending # 0
    <3>1. events[pending] \in Objects
      BY <1>2, <2>2
    <3>2. Received(events[pending], q, v) \in Objects
      BY <3>1, ReceivedType
    <3>3. /\ events' = [events EXCEPT ![pending] = Received(events[pending], q, v)]
          /\ pending' = pending
      BY <2>2 DEF Change
    <3>4. pending \in 1 .. Len(events)
      BY <1>2, <2>2
    <3>5. events' \in Seq(Objects) /\ Len(events') = Len(events)
      BY <1>2, <3>2, <3>3, <3>4, ExceptType
    <3> QED
      BY <3>3, <3>4, <3>5
  <2> QED
    BY <2>1, <2>2
<1>4. {pending', event'} \cup Waiting' \subseteq 0 .. Len(events')
  <2>1. Waiting' = Waiting /\ event' = event
    BY DEF Change, Waiting
  <2>2. 0 .. Len(events) \subseteq 0 .. Len(events')
    BY <1>3
  <2>3. {event} \cup Waiting \subseteq 0 .. Len(events)
    OBVIOUS
  <2> QED
    BY <1>3, <2>1, <2>2, <2>3
<1>5. onchange' \in Seq(1 .. Len(events')) /\ Len(onchange') <= OnchangeCap
  BY <1>3 DEF Change
<1>6. raced' \subseteq Paths
  BY DEF Change
<1>7. /\ pc' \in {"select", "sync", "heart", "update", "clear", "done"}
      /\ expired' \in Seq(BOOLEAN) /\ Len(expired') <= ExpiredCap
      /\ writes' \in 0 .. MaxWrites /\ loads' \in 0 .. MaxLoads
  BY DEF Change
<1> QED
  BY <1>1, <1>3, <1>4, <1>5, <1>6, <1>7 DEF Objects

\* EventComplete() has an event to hand on.
LEMMA CompleteType ==
    ASSUME TypeOK, PendingOK, EventComplete
    PROVE  TypeOK'
<1> USE DEF TypeOK, treeVars, timerVars, clientVars
<1>1. CASE OnChange
  <2>1. pending \in 1 .. Len(events) /\ Len(onchange) < OnchangeCap
        /\ onchange' = Append(onchange, pending) /\ pending' = 0 /\ events' = events
    BY <1>1 DEF EventComplete, PendingOK
  <2>2. onchange' \in Seq(1 .. Len(events')) /\ Len(onchange') <= OnchangeCap
    BY <2>1
  <2>3. {pending', event'} \cup Waiting' \subseteq 0 .. Len(events')
    BY <2>1, <2>2 DEF EventComplete, Waiting
  <2> QED
    BY <2>1, <2>2, <2>3 DEF EventComplete
<1>2. CASE ~ OnChange
  BY <1>2 DEF EventComplete, Waiting
<1> QED
  BY <1>1, <1>2

\* What is told to the client is a tree.
LEMMA UpdateType ==
    ASSUME TypeOK, Update
    PROVE  TypeOK'
<1> USE DEF TypeOK, pendingVars, timerVars
<1>1. Sent \in Trees
  <2>1. CASE ~ FromRoot
    <3>1. event \in 0 .. Len(events) /\ event # 0 /\ events \in Seq(Objects)
      BY <2>1 DEF FromRoot, Objects
    <3>2. events[event] \in Objects
      BY <3>1
    <3> QED
      BY <2>1, <3>2 DEF Sent, Objects
  <2>2. CASE FromRoot
    BY <2>2 DEF Sent
  <2> QED
    BY <2>1, <2>2
<1>2. view' \in Trees
  BY <1>1 DEF Update, Told, Trees, Leaves
<1>3. raced' \subseteq Paths
  <2>1. event \in 0 .. Len(events) /\ events \in Seq(Objects)
    BY DEF Objects
  <2>2. event # 0 => events[event] \in Objects
    BY <2>1
  <2>3. Mentioned(event) \subseteq Paths
    BY <2>2 DEF Mentioned, Objects
  <2> QED
    BY <2>3 DEF Update, Races, Overtaken
<1>4. Waiting' = Waiting /\ events' = events
  BY DEF Update, Waiting
<1> QED
  BY <1>2, <1>3, <1>4 DEF Update

LEMMA LoadType ==
    ASSUME TypeOK, NEW tree \in Startups, Load(tree)
    PROVE  TypeOK'
<1> USE DEF TypeOK, pendingVars, timerVars
<1>1. root' \in Trees /\ raced' \subseteq Paths
  BY DEF Load
<1>2. old' = <<>> \/ \E t \in Trees : old' = <<t>>
  BY DEF Load
<1>3. Waiting' = Waiting /\ events' = events
  BY DEF Load, Waiting
<1> QED
  BY <1>1, <1>2, <1>3 DEF Load

LEMMA ClearType ==
    ASSUME TypeOK, Clear
    PROVE  TypeOK'
<1> USE DEF TypeOK, treeVars, timerVars, clientVars
<1>1. events' \in Seq(Objects) /\ Len(events') = Len(events)
  BY NoChangeType DEF Clear, Objects
<1>2. Waiting' = Waiting
  BY DEF Clear, Waiting
<1> QED
  BY <1>1, <1>2 DEF Clear, Objects

\* The steps that touch neither the tree nor what the events say.
Moves ==
    \/ TakeSample \/ PushSample \/ TakeHeart \/ PushHeart \/ TakeEvent \/ TakeExpired
    \/ ReadPending \/ TakeShutdown
    \/ EventComplete \/ Unlock \/ SampleTick \/ HeartTick \/ Poll \/ Shutdown
    \/ UNCHANGED vars

LEMMA NextCases ==
    ASSUME [Next]_vars
    PROVE  \/ \E q \in Paths, v \in Leaves : Change(q, v)
           \/ \E tree \in Startups : Load(tree)
           \/ Update \/ Clear \/ Moves
BY DEF Next, RunStep, Moves

LEMMA MovesType ==
    ASSUME TypeOK, PendingOK, Moves
    PROVE  TypeOK'
<1> USE DEF TypeOK, treeVars, pendingVars, timerVars, clientVars
<1>1. CASE EventComplete
  BY <1>1, CompleteType
<1>2. CASE TakeSample \/ TakeHeart \/ Unlock \/ SampleTick \/ HeartTick \/ Poll \/ Shutdown
           \/ TakeShutdown \/ ReadPending
  BY <1>2 DEF TakeSample, TakeHeart, Unlock, SampleTick, HeartTick, Poll, Shutdown, TakeShutdown,
     ReadPending, Waiting
<1>3. CASE PushSample \/ PushHeart
  <2>1. \A m \in BOOLEAN : Append(expired, m) \in Seq(BOOLEAN)
                           /\ Len(Append(expired, m)) = Len(expired) + 1
    OBVIOUS
  <2>2. config.suppress \in BOOLEAN
    BY DEF Configurations
  <2>3. \E m \in BOOLEAN : Len(expired) < ExpiredCap /\ expired' = Append(expired, m)
    BY <1>3, <2>2 DEF PushSample, PushHeart
  <2>4. expired' \in Seq(BOOLEAN) /\ Len(expired') <= ExpiredCap
    BY <2>1, <2>3
  <2> QED
    BY <1>3, <2>4 DEF PushSample, PushHeart, Waiting
<1>4. CASE TakeEvent
  <2>1. Len(events) \in Nat /\ onchange \in Seq(1 .. Len(events)) /\ onchange # <<>>
    BY <1>4 DEF TakeEvent
  <2>2. /\ Head(onchange) \in 1 .. Len(events) /\ Tail(onchange) \in Seq(1 .. Len(events))
        /\ Len(Tail(onchange)) <= Len(onchange)
        /\ {Tail(onchange)[i] : i \in DOMAIN Tail(onchange)} \subseteq 0 .. Len(events)
    BY <2>1, HeadTailType
  <2>3. /\ Waiting' \subseteq 0 .. Len(events) /\ event' \in 0 .. Len(events)
        /\ onchange' \in Seq(1 .. Len(events)) /\ Len(onchange') <= OnchangeCap
        /\ pc' = "update"
    BY <1>4, <2>2 DEF TakeEvent, Waiting
  <2> QED
    BY <1>4, <2>3 DEF TakeEvent
<1>5. CASE TakeExpired
  <2>1. \A s \in Seq(BOOLEAN) :
          Len(s) \in Nat /\ (s # <<>> => Tail(s) \in Seq(BOOLEAN) /\ Len(Tail(s)) <= Len(s))
    OBVIOUS
  <2>2. expired # <<>> /\ expired' = Tail(expired)
    BY <1>5 DEF TakeExpired
  <2>3. expired' \in Seq(BOOLEAN) /\ Len(expired') <= ExpiredCap
    BY <2>1, <2>2
  <2> QED
    BY <1>5, <2>3 DEF TakeExpired, Waiting
<1>6. CASE UNCHANGED vars
  BY <1>6 DEF vars, Waiting
<1> QED
  BY <1>1, <1>2, <1>3, <1>4, <1>5, <1>6 DEF Moves

LEMMA TypeStep == LossInv /\ [Next]_vars => TypeOK'
BY NextCases, ChangeType, LoadType, UpdateType, ClearType, MovesType DEF LossInv

-----------------------------------------------------------------------------
(* The events.                                                              *)

\* A change goes to the pending event, the last one, or to one that it makes.
LEMMA ChangeEvents ==
    ASSUME TypeOK, PendingOK, NEW q \in Paths, NEW v \in Leaves, Change(q, v)
    PROVE  /\ Len(events') >= Len(events)
           /\ pending' \in 1 .. Len(events') /\ pending' = Len(events')
           /\ \A k \in 1 .. Len(events') :
                k # pending' => k \in 1 .. Len(events) /\ events'[k] = events[k]
           /\ \E e \in Objects :
                /\ events'[pending'] = Received(e, q, v)
                /\ \/ pending = 0 /\ e = NoChange /\ pending' = Len(events) + 1
                   \/ pending # 0 /\ e = events[pending] /\ pending' = pending
<1>1. /\ events \in Seq(Objects) /\ pending \in 0 .. Len(events)
      /\ (pending # 0 => pending = Len(events))
  BY DEF TypeOK, PendingOK, Objects
<1>2. CASE pending = 0
  <2>1. events' = Append(events, Received(NoChange, q, v)) /\ pending' = Len(events) + 1
    BY <1>2 DEF Change
  <2> QED
    BY <1>1, <1>2, <2>1, NoChangeType
<1>3. CASE pending # 0
  <2>1. /\ events' = [events EXCEPT ![pending] = Received(events[pending], q, v)]
        /\ pending' = pending
    BY <1>3 DEF Change
  <2>2. events[pending] \in Objects
    BY <1>1, <1>3
  <2> QED
    BY <1>1, <1>3, <2>1, <2>2
<1> QED
  BY <1>2, <1>3

LEMMA PendingStep == LossInv /\ [Next]_vars => PendingOK'
<1> SUFFICES ASSUME LossInv, [Next]_vars PROVE PendingOK'
  OBVIOUS
<1> USE DEF LossInv, PendingOK, OnChange
<1>1. ASSUME NEW q \in Paths, NEW v \in Leaves, Change(q, v) PROVE PendingOK'
  <2>1. pending' # 0 /\ pending' = Len(events')
    BY <1>1, ChangeEvents
  <2> QED
    BY <1>1, <2>1 DEF Change
<1>2. ASSUME NEW tree \in Startups, Load(tree) PROVE PendingOK'
  BY <1>2 DEF Load, pendingVars
<1>3. CASE Update
  BY <1>3 DEF Update, pendingVars
<1>4. CASE Clear
  <2>1. Len(events') = Len(events)
    BY <1>4 DEF Clear, TypeOK
  <2> QED
    BY <1>4, <2>1 DEF Clear, treeVars
<1>5. CASE Moves
  BY <1>5 DEF Moves, TakeSample, PushSample, TakeHeart, PushHeart, TakeEvent, TakeExpired,
     ReadPending, TakeShutdown, EventComplete, Unlock, SampleTick, HeartTick, Poll, Shutdown, vars,
     treeVars, pendingVars
<1> QED
  BY NextCases, <1>1, <1>2, <1>3, <1>4, <1>5

LEMMA EventsStep == LossInv /\ [Next]_vars => EventsOK'
<1> SUFFICES ASSUME LossInv, [Next]_vars PROVE EventsOK'
  OBVIOUS
<1> USE DEF LossInv, OnChange
<1> DEFINE Good(e) == \A p \in Paths :
               /\ e.changes[p] # Absent => p \in e.updated
               /\ OnChange /\ p \in e.updated \cup e.deleted /\ e.changes[p] = Absent
                    => p \in e.deleted
<1>1. events \in Seq(Objects) /\ \A k \in 1 .. Len(events) : Good(events[k])
  <2>1. events \in Seq(Objects)
    BY DEF TypeOK, Objects
  <2> QED
    BY <2>1 DEF EventsOK, Mentioned
<1>2. Good(NoChange)
  BY DEF NoChange
<1>3. config' = config /\ (\A k \in DOMAIN events' : k \in Nat \ {0} /\ Good(events'[k])) => EventsOK'
  BY DEF EventsOK, Mentioned
<1>4. ASSUME NEW q \in Paths, NEW v \in Leaves, Change(q, v) PROVE EventsOK'
  <2>1. events' \in Seq(Objects)
    BY <1>4, ChangeType DEF TypeOK, Objects
  <2>2. PICK e \in Objects : Good(e) /\ events'[pending'] = Received(e, q, v)
    <3>1. PICK e \in Objects :
            /\ events'[pending'] = Received(e, q, v)
            /\ e = NoChange \/ (pending # 0 /\ e = events[pending])
      BY <1>4, ChangeEvents
    <3>2. pending \in 0 .. Len(events)
      BY DEF TypeOK
    <3> QED
      BY <1>1, <1>2, <3>1, <3>2
  <2>3. root[q] # v /\ e.changes \in [Paths -> Leaves]
    BY <1>4 DEF Change, Objects, Trees
  <2>4. Good(Received(e, q, v))
    BY <2>2, <2>3 DEF Received
  <2>5. \A k \in 1 .. Len(events') : Good(events'[k])
    BY <1>1, <1>4, <2>2, <2>4, ChangeEvents
  <2> QED
    BY <1>3, <1>4, <2>1, <2>5 DEF Change
<1>5. CASE Clear
  <2>1. /\ DOMAIN events' = DOMAIN events
        /\ \A k \in DOMAIN events : events'[k] \in {events[k], NoChange}
    BY <1>1, <1>5 DEF Clear
  <2> QED
    BY <1>1, <1>2, <1>3, <1>5, <2>1 DEF Clear, treeVars
<1>6. ASSUME UNCHANGED <<config, events>> PROVE EventsOK'
  BY <1>1, <1>3, <1>6
<1>7. ASSUME NEW tree \in Startups, Load(tree) PROVE EventsOK'
  BY <1>6, <1>7 DEF Load, pendingVars
<1>8. CASE Update
  BY <1>6, <1>8 DEF Update, pendingVars
<1>9. CASE Moves
  <2>1. UNCHANGED <<config, events>>
    BY <1>9 DEF Moves, TakeSample, PushSample, TakeHeart, PushHeart, TakeEvent, TakeExpired,
       ReadPending, TakeShutdown, EventComplete, Unlock, SampleTick, HeartTick, Poll, Shutdown, vars,
       treeVars, pendingVars
  <2> QED
    BY <1>6, <2>1
<1> QED
  BY NextCases, <1>4, <1>5, <1>7, <1>8, <1>9

-----------------------------------------------------------------------------
(* What is lost.                                                            *)

\* Steps that leave a leaf and what is to be sent of it as they are.
LEMMA LeafStill ==
    ASSUME TypeOK, TypeOK', NEW p \in Paths, NewestAt(p), UnsentAt(p),
           UNCHANGED <<config, root[p], view[p]>>,
           Len(events') >= Len(events),
           \A k \in 1 .. Len(events') :
             (k \in Unsent' /\ p \in Mentioned(k)')
               <=> (k \in 1 .. Len(events) /\ k \in Unsent /\ p \in Mentioned(k)),
           \A k \in 1 .. Len(events) : k \in Unsent' /\ p \in Mentioned(k)' =>
             /\ events'[k].changes[p] = events[k].changes[p]
             /\ p \in events'[k].deleted <=> p \in events[k].deleted
    PROVE  NewestAt(p)' /\ UnsentAt(p)'
<1>1. Unsent \subseteq 0 .. Len(events) /\ Unsent' \subseteq 0 .. Len(events')
  BY DEF TypeOK, Unsent
<1>2. Len(events) \in Nat /\ Len(events') \in Nat
  BY DEF TypeOK
<1>3. NewestAt(p)'
  <2> SUFFICES ASSUME NEW k \in 1 .. Len(events'), Newest(p, k)'
               PROVE  IF OnChange' THEN events'[k].changes[p] = root'[p]
                      ELSE root'[p] # Absent \/ p \in events'[k].deleted \/ view'[p] = root'[p]
    BY DEF NewestAt
  <2>1. k \in Unsent' /\ p \in Mentioned(k)' /\ \A j \in Unsent' : j > k => p \notin Mentioned(j)'
    BY DEF Newest
  <2>2. k \in 1 .. Len(events) /\ k \in Unsent /\ p \in Mentioned(k)
    BY <2>1
  <2>3. ASSUME NEW j \in Unsent, j > k PROVE p \notin Mentioned(j)
    <3>1. j \in 1 .. Len(events) /\ j \in 1 .. Len(events')
      BY <1>1, <1>2, <2>3
    <3> QED
      BY <2>1, <2>3, <3>1
  <2>4. Newest(p, k)
    BY <2>2, <2>3 DEF Newest
  <2> QED
    BY <2>1, <2>2, <2>4 DEF NewestAt, OnChange
<1>4. UnsentAt(p)'
  <2> SUFFICES ASSUME view'[p] # root'[p] PROVE \E k \in Unsent' : p \in Mentioned(k)'
    BY DEF UnsentAt
  <2>1. PICK k \in Unsent : p \in Mentioned(k)
    BY DEF UnsentAt
  <2>2. k \in 1 .. Len(events) /\ k \in 1 .. Len(events')
    BY <1>1, <1>2, <2>1 DEF Mentioned
  <2> QED
    BY <2>1, <2>2
<1> QED
  BY <1>3, <1>4

\* The leaf that changes is in the event that EventReceive() filled, unless that
\* is about to be cleared.
LEMMA ChangeLeaf ==
    ASSUME LossInv, TypeOK', NEW q \in Paths, NEW v \in Leaves, Change(q, v), q \notin raced'
    PROVE  NewestAt(q)' /\ UnsentAt(q)'
<1>1. ~ (pc = "clear" /\ event # 0 /\ event = pending)
  BY DEF Change
<1>2. /\ pending' \in 1 .. Len(events') /\ pending' = Len(events')
      /\ (pending # 0 => pending' = pending) /\ (pending = 0 => pending' = Len(events) + 1)
  BY ChangeEvents DEF LossInv
<1>3. event \in 0 .. Len(events) /\ event' = event /\ pc' = pc /\ root'[q] = v /\ root[q] # v
  BY DEF Change, LossInv, TypeOK, Trees
<1>4. pending' # event \/ pc # "clear"
  BY <1>1, <1>2, <1>3
<1>5. pending' \in Unsent'
  BY <1>3, <1>4 DEF Unsent
<1>6. /\ OnChange => events'[pending'].changes[q] = v
      /\ \A k : k = pending' => q \in Mentioned(k)'
      /\ v # Absent \/ q \in events'[pending'].deleted
  <2>1. PICK e \in Objects : events'[pending'] = Received(e, q, v)
    BY ChangeEvents DEF LossInv
  <2>2. e.changes \in [Paths -> Leaves]
    BY DEF Objects, Trees
  <2>3. /\ OnChange => Received(e, q, v).changes[q] = v
        /\ q \in Received(e, q, v).updated \cup Received(e, q, v).deleted
        /\ v # Absent \/ q \in Received(e, q, v).deleted
    BY <1>3, <2>2 DEF Received
  <2> QED
    BY <1>2, <2>1, <2>3 DEF Mentioned
<1>7. Unsent' \subseteq 0 .. Len(events')
  BY DEF TypeOK, Unsent
<1>8. UnsentAt(q)'
  BY <1>5, <1>6 DEF UnsentAt
<1>9. ASSUME NEW k \in 1 .. Len(events'), Newest(q, k)' PROVE k = pending'
  <2>1. ~ (pending' > k)
    BY <1>5, <1>6, <1>9 DEF Newest
  <2> QED
    BY <1>2, <2>1
<1>10. OnChange' <=> OnChange
  BY DEF Change, OnChange
<1>11. NewestAt(q)'
  BY <1>3, <1>6, <1>9, <1>10 DEF NewestAt
<1> QED
  BY <1>8, <1>11

\* No other leaf is.
LEMMA ChangeOthers ==
    ASSUME LossInv, TypeOK', NEW q \in Paths, NEW v \in Leaves, Change(q, v),
           NEW p \in Paths \ {q}, p \notin raced
    PROVE  NewestAt(p)' /\ UnsentAt(p)'
<1>1. /\ Len(events') >= Len(events)
      /\ pending' \in 1 .. Len(events')
      /\ \A k \in 1 .. Len(events') :
           k # pending' => k \in 1 .. Len(events) /\ events'[k] = events[k]
  BY ChangeEvents DEF LossInv
<1>2. PICK e \in Objects :
        /\ events'[pending'] = Received(e, q, v)
        /\ \/ pending = 0 /\ e = NoChange /\ pending' = Len(events) + 1
           \/ pending # 0 /\ e = events[pending] /\ pending' = pending
  BY ChangeEvents DEF LossInv
<1>3. LET r == Received(e, q, v)
      IN  /\ p \in r.updated <=> p \in e.updated
          /\ p \in r.deleted <=> p \in e.deleted
          /\ r.changes[p] = e.changes[p]
  BY DEF Received, Objects, Trees
<1>4. ASSUME NEW k \in 1 .. Len(events)
      PROVE  /\ p \in Mentioned(k)' <=> p \in Mentioned(k)
             /\ events'[k].changes[p] = events[k].changes[p]
             /\ p \in events'[k].deleted <=> p \in events[k].deleted
  <2>1. CASE k = pending'
    <3>1. e = events[k]
      BY <1>2, <2>1
    <3> QED
      BY <1>2, <1>3, <2>1, <3>1 DEF Mentioned
  <2>2. CASE k # pending'
    <3>1. events'[k] = events[k]
      BY <1>1, <2>2 DEF LossInv, TypeOK
    <3> QED
      BY <3>1 DEF Mentioned
  <2> QED
    BY <2>1, <2>2
<1>5. ASSUME NEW k \in 1 .. Len(events'), k \notin 1 .. Len(events) PROVE p \notin Mentioned(k)'
  <2>1. k = pending' /\ e = NoChange
    BY <1>1, <1>2, <1>5 DEF LossInv, TypeOK
  <2> QED
    BY <1>2, <1>3, <2>1 DEF Mentioned, NoChange
<1>6. ASSUME NEW k \in 1 .. Len(events) PROVE k \in Unsent' <=> k \in Unsent
  <2>1. k # 0 /\ (pending' = k <=> pending = k)
    BY <1>2, <1>6
  <2> QED
    BY <2>1 DEF Change, Unsent, Waiting
<1>7. UNCHANGED <<config, root[p], view[p]>>
  BY DEF Change, LossInv, TypeOK, Trees
<1>8. NewestAt(p) /\ UnsentAt(p)
  BY DEF LossInv, NewestOK, UnsentOK
<1>9. \A k \in 1 .. Len(events') :
        (k \in Unsent' /\ p \in Mentioned(k)')
          <=> (k \in 1 .. Len(events) /\ k \in Unsent /\ p \in Mentioned(k))
  BY <1>4, <1>5, <1>6
<1> QED
  BY <1>1, <1>4, <1>7, <1>8, <1>9, LeafStill DEF LossInv

\* What an update leaves unsaid is caught in a race or in another event.
LEMMA UpdateUnsent ==
    ASSUME LossInv, Update, NEW q \in Paths, q \notin raced'
    PROVE  UnsentAt(q)'
<1> SUFFICES ASSUME view'[q] # root[q]
             PROVE  \E k \in Unsent' : q \in Mentioned(k)
  BY DEF Update, pendingVars, UnsentAt, Mentioned
<1>1. /\ pc = "update" /\ pc' = "clear" /\ event' = event
      /\ Unsent = Waiting \cup {pending, event}
      /\ Unsent' = (Waiting \cup {pending}) \ {event}
  BY DEF Update, Unsent, Waiting, pendingVars
<1>2. q \notin raced /\ old = <<>>
  BY DEF Update, Races
<1>3. view'[q] = IF Sent[q] # Absent THEN Sent[q]
                 ELSE IF event # 0 /\ q \in events[event].deleted THEN Absent ELSE view[q]
  BY DEF Update, Told
<1>4. /\ FromRoot => Sent = root
      /\ ~ FromRoot => OnChange /\ event # 0 /\ Sent = events[event].changes
  BY <1>2 DEF Sent, FromRoot
<1>5. /\ event \in 0 .. Len(events) /\ Unsent \subseteq 0 .. Len(events)
      /\ DOMAIN events = 1 .. Len(events) /\ Len(events) \in Nat
  BY DEF LossInv, TypeOK, Unsent
<1>6. event # 0 =>
        /\ events[event].changes[q] # Absent => q \in events[event].updated
        /\ OnChange /\ q \in Mentioned(event) /\ events[event].changes[q] = Absent
             => q \in events[event].deleted
  BY <1>5 DEF LossInv, EventsOK
<1>7. CASE q \notin Mentioned(event)
  <2>1. event # 0 => q \notin events[event].updated /\ q \notin events[event].deleted
    BY <1>7 DEF Mentioned
  <2>2. view'[q] = view[q]
    BY <1>3, <1>4, <1>6, <2>1
  <2>3. PICK k \in Unsent : q \in Mentioned(k)
    BY <1>2, <2>2 DEF LossInv, UnsentOK, UnsentAt
  <2>4. k # event
    BY <1>7, <2>3
  <2> QED
    BY <1>1, <2>3, <2>4
<1>8. CASE q \in Mentioned(event)
  <2>1. event \in 1 .. Len(events)
    BY <1>5, <1>8 DEF Mentioned
  <2>2. CASE \E j \in Unsent : j > event /\ q \in Mentioned(j)
    <3>1. PICK j \in Unsent : j > event /\ q \in Mentioned(j)
      BY <2>2
    <3>2. j # event
      BY <1>5, <3>1
    <3> QED
      BY <1>1, <3>1, <3>2
  <2>3. CASE \A j \in Unsent : j > event => q \notin Mentioned(j)
    <3>1. Newest(q, event)
      BY <1>1, <1>8, <2>3 DEF Newest
    <3>2. IF OnChange THEN events[event].changes[q] = root[q]
          ELSE root[q] # Absent \/ q \in events[event].deleted \/ view[q] = root[q]
      BY <1>2, <2>1, <3>1 DEF LossInv, NewestOK, NewestAt
    <3>3. event # 0
      BY <2>1
    <3>4. view'[q] = root[q]
      BY <1>3, <1>4, <1>6, <1>8, <3>2, <3>3
    <3> QED
      BY <3>4
  <2> QED
    BY <2>2, <2>3
<1> QED
  BY <1>7, <1>8

\* An older event of a leaf that an update was about makes a race.
LEMMA UpdateNewest ==
    ASSUME LossInv, Update, NEW q \in Paths, q \notin raced'
    PROVE  NewestAt(q)'
<1> SUFFICES ASSUME NEW k \in 1 .. Len(events), Newest(q, k)'
             PROVE  IF OnChange THEN events[k].changes[q] = root[q]
                    ELSE root[q] # Absent \/ q \in events[k].deleted \/ view'[q] = root[q]
  BY DEF Update, pendingVars, NewestAt, OnChange
<1>1. /\ pc = "update" /\ pc' = "clear" /\ event' = event
      /\ Unsent = Waiting \cup {pending, event}
      /\ Unsent' = (Waiting \cup {pending}) \ {event}
      /\ \A j : Mentioned(j)' = Mentioned(j)
  BY DEF Update, Unsent, Waiting, Mentioned, pendingVars
<1>2. /\ k \in Waiting \cup {pending} /\ k # event /\ q \in Mentioned(k)
      /\ \A j \in Unsent' : j > k => q \notin Mentioned(j)
  BY <1>1 DEF Newest
<1>3. /\ q \in raced => view'[q] = root[q] /\ k \notin Waiting
      /\ old # <<>> => view'[q] = root[q]
      /\ k \in Waiting /\ k < event => q \notin Mentioned(event)
  BY <1>2 DEF Update, Races, Overtaken
<1>4. /\ event \in 0 .. Len(events) /\ Len(events) \in Nat
      /\ (pending # 0 => pending = Len(events))
      /\ (OnChange => pending = 0)
  BY DEF LossInv, TypeOK, PendingOK, Update
<1>5. k # pending => k \in Waiting
  BY <1>2
<1>6. ~ (event > k /\ q \in Mentioned(event))
  BY <1>3, <1>4, <1>5
<1>7. Newest(q, k)
  <2>1. ASSUME NEW j \in Unsent, j > k PROVE q \notin Mentioned(j)
    <3>1. CASE j = event
      BY <1>6, <2>1, <3>1
    <3>2. CASE j # event
      BY <1>1, <1>2, <2>1, <3>2
    <3> QED
      BY <3>1, <3>2
  <2> QED
    BY <1>1, <1>2, <2>1 DEF Newest
<1>8. q \notin raced =>
        IF OnChange THEN events[k].changes[q] = root[q]
        ELSE root[q] # Absent \/ q \in events[k].deleted \/ view[q] = root[q]
  BY <1>7 DEF LossInv, NewestOK, NewestAt
<1>9. CASE OnChange
  <2>1. k \in Waiting
    BY <1>4, <1>5, <1>9
  <2> QED
    BY <1>3, <1>8, <1>9, <2>1
<1>10. CASE ~ OnChange /\ view'[q] = root[q]
  BY <1>10
<1>11. CASE ~ OnChange /\ view'[q] # root[q]
  <2>1. q \notin raced /\ old = <<>> /\ Sent = root
    BY <1>3, <1>11 DEF Sent, FromRoot
  <2>2. view'[q] = IF root[q] # Absent THEN root[q]
                   ELSE IF event # 0 /\ q \in events[event].deleted THEN Absent ELSE view[q]
    BY <2>1 DEF Update, Told
  <2> QED
    BY <1>8, <1>11, <2>1, <2>2
<1> QED
  BY <1>9, <1>10, <1>11

\* Between two steps that send or clear nothing, the events that are to be sent
\* stay the same, wherever they are.
LEMMA MovesStill ==
    ASSUME TypeOK, Moves
    PROVE  /\ UNCHANGED <<config, events, root, view, raced>>
           /\ \A k \in 1 .. Len(events) : k \in Unsent' <=> k \in Unsent
<1> USE DEF treeVars, pendingVars, timerVars, clientVars, Unsent
<1>1. CASE EventComplete
  <2>1. CASE OnChange
    <3>1. onchange' = Append(onchange, pending) /\ pending' = 0
      BY <1>1, <2>1 DEF EventComplete
    <3>2. onchange \in Seq(1 .. Len(events))
      BY DEF TypeOK
    <3>3. Waiting' = Waiting \cup {pending}
      <4>1. /\ DOMAIN onchange' = 1 .. Len(onchange) + 1 /\ onchange'[Len(onchange) + 1] = pending
            /\ \A i \in 1 .. Len(onchange) : onchange'[i] = onchange[i]
            /\ DOMAIN onchange = 1 .. Len(onchange) /\ Len(onchange) \in Nat
        BY <3>1, <3>2
      <4> QED
        BY <4>1 DEF Waiting
    <3> QED
      BY <1>1, <3>1, <3>3 DEF EventComplete
  <2>2. CASE ~ OnChange
    BY <1>1, <2>2 DEF EventComplete, Waiting
  <2> QED
    BY <2>1, <2>2
<1>2. CASE TakeEvent
  <2>1. /\ pc = "select" /\ pc' = "update" /\ pending' = pending
        /\ event' = Head(onchange) /\ onchange' = Tail(onchange) /\ onchange # <<>>
    BY <1>2 DEF TakeEvent
  <2>2. onchange \in Seq(1 .. Len(events))
    BY DEF TypeOK
  <2>3. Waiting = Waiting' \cup {Head(onchange)}
    <3>1. /\ DOMAIN onchange = 1 .. Len(onchange) /\ Len(onchange) \in Nat /\ Len(onchange) > 0
          /\ DOMAIN Tail(onchange) = 1 .. Len(onchange) - 1
          /\ \A i \in 1 .. Len(onchange) - 1 : Tail(onchange)[i] = onchange[i + 1]
          /\ Head(onchange) = onchange[1]
      BY <2>1, <2>2
    <3>2. \A i \in DOMAIN onchange : i = 1 \/ (i - 1 \in DOMAIN Tail(onchange) /\ (i - 1) + 1 = i)
      BY <3>1
    <3>3. \A i \in DOMAIN Tail(onchange) : i + 1 \in DOMAIN onchange
      BY <3>1
    <3>4. ASSUME NEW k \in Waiting PROVE k \in Waiting' \cup {Head(onchange)}
      <4>1. PICK i \in DOMAIN onchange : k = onchange[i]
        BY <3>4 DEF Waiting
      <4> QED
        BY <2>1, <3>1, <3>2, <4>1 DEF Waiting
    <3>5. ASSUME NEW k \in Waiting' PROVE k \in Waiting
      <4>1. PICK i \in DOMAIN Tail(onchange) : k = Tail(onchange)[i]
        BY <2>1, <3>5 DEF Waiting
      <4> QED
        BY <3>1, <3>3, <4>1 DEF Waiting
    <3>6. Head(onchange) \in Waiting
      BY <3>1 DEF Waiting
    <3> QED
      BY <3>4, <3>5, <3>6
  <2> QED
    BY <1>2, <2>1, <2>3 DEF TakeEvent
<1>3. CASE TakeExpired \/ ReadPending
  BY <1>3 DEF TakeExpired, ReadPending, Waiting
<1>4. CASE TakeSample \/ PushSample \/ TakeHeart \/ PushHeart \/ TakeShutdown \/ Unlock
           \/ SampleTick \/ HeartTick \/ Poll \/ Shutdown \/ UNCHANGED vars
  BY <1>4 DEF TakeSample, PushSample, TakeHeart, PushHeart, TakeShutdown, Unlock, SampleTick,
     HeartTick, Poll, Shutdown, vars, Waiting
<1> QED
  BY <1>1, <1>2, <1>3, <1>4 DEF Moves

LEMMA LossStep == LossInv /\ [Next]_vars => NewestOK' /\ UnsentOK'
<1> SUFFICES ASSUME LossInv, [Next]_vars, NEW p \in Paths, p \notin raced'
             PROVE  NewestAt(p)' /\ UnsentAt(p)'
  BY DEF NewestOK, UnsentOK
<1>1. TypeOK /\ TypeOK' /\ (p \notin raced => NewestAt(p) /\ UnsentAt(p))
  BY TypeStep DEF LossInv, NewestOK, UnsentOK
<1>2. ASSUME NEW q \in Paths, NEW v \in Leaves, Change(q, v)
      PROVE  NewestAt(p)' /\ UnsentAt(p)'
  <2>1. CASE p = q
    BY <1>1, <1>2, <2>1, ChangeLeaf
  <2>2. CASE p # q
    <3>1. p \notin raced
      BY <1>2, <2>2 DEF Change
    <3> QED
      BY <1>1, <1>2, <2>2, <3>1, ChangeOthers
  <2> QED
    BY <2>1, <2>2
<1>3. ASSUME NEW tree \in Startups, Load(tree)
      PROVE  NewestAt(p)' /\ UnsentAt(p)'
  <2>1. p \notin raced /\ root'[p] = root[p] /\ UNCHANGED <<config, events, view>>
    BY <1>3 DEF Load, pendingVars
  <2>2. Unsent' = Unsent
    BY <1>3 DEF Load, pendingVars, Unsent, Waiting
  <2>3. Len(events') >= Len(events) /\ Len(events') = Len(events)
    BY <1>1, <2>1 DEF TypeOK
  <2>4. \A k : Mentioned(k)' = Mentioned(k)
    BY <2>1 DEF Mentioned
  <2> QED
    BY <1>1, <2>1, <2>2, <2>3, <2>4, LeafStill
<1>4. CASE Update
  BY <1>4, UpdateUnsent, UpdateNewest
<1>5. CASE Clear
  <2>1. /\ pc = "clear" /\ pc' = "select" /\ UNCHANGED <<config, root, view, raced, pending>>
        /\ Waiting' = Waiting
    BY <1>5 DEF Clear, treeVars, clientVars, Waiting
  <2>2. Unsent = (Waiting \cup {pending}) \ {event} /\ Unsent' = Waiting \cup {pending}
    BY <2>1 DEF Unsent
  <2>3. /\ Len(events') = Len(events) /\ Len(events) \in Nat /\ event \in 0 .. Len(events)
        /\ \A k \in 1 .. Len(events) : k # event => events'[k] = events[k]
        /\ event # 0 => events'[event] = NoChange
    <3>1. events \in Seq(Objects) /\ event \in 0 .. Len(events)
      BY <1>1 DEF TypeOK, Objects
    <3>2. events' = IF event = 0 THEN events ELSE [events EXCEPT ![event] = NoChange]
      BY <1>5 DEF Clear
    <3> QED
      BY <3>1, <3>2
  <2>4. ASSUME NEW k \in 1 .. Len(events) PROVE
          /\ k = event => p \notin Mentioned(k)'
          /\ k # event => Mentioned(k)' = Mentioned(k) /\ events'[k] = events[k]
    <3>1. CASE k = event
      <4>1. events'[k] = NoChange /\ k # 0
        BY <2>3, <3>1
      <4>2. NoChange.updated = {} /\ NoChange.deleted = {}
        BY DEF NoChange
      <4> QED
        BY <3>1, <4>1, <4>2 DEF Mentioned
    <3>2. CASE k # event
      BY <2>3, <3>2 DEF Mentioned
    <3> QED
      BY <3>1, <3>2
  <2>5. \A k \in 1 .. Len(events') :
          (k \in Unsent' /\ p \in Mentioned(k)')
            <=> (k \in 1 .. Len(events) /\ k \in Unsent /\ p \in Mentioned(k))
    BY <2>2, <2>3, <2>4
  <2>6. \A k \in 1 .. Len(events) : k \in Unsent' /\ p \in Mentioned(k)' => events'[k] = events[k]
    BY <2>4
  <2>7. Len(events') >= Len(events) /\ p \notin raced
    BY <2>1, <2>3
  <2> QED
    BY <1>1, <2>1, <2>5, <2>6, <2>7, LeafStill
<1>6. CASE Moves
  <2>1. /\ UNCHANGED <<config, events, root, view, raced>>
        /\ \A k \in 1 .. Len(events) : k \in Unsent' <=> k \in Unsent
    BY <1>1, <1>6, MovesStill
  <2>2. Len(events') >= Len(events) /\ Len(events') = Len(events)
    BY <1>1, <2>1 DEF TypeOK
  <2>3. \A k : Mentioned(k)' = Mentioned(k)
    BY <2>1 DEF Mentioned
  <2> QED
    BY <1>1, <2>1, <2>2, <2>3, LeafStill
<1> QED
  BY NextCases, <1>2, <1>3, <1>4, <1>5, <1>6

-----------------------------------------------------------------------------
\* The invariant holds in every behaviour of run(), its timers and the writers
\* (run, EventReceive, EventComplete, telemetryUpdate, Clear, setLoad).
THEOREM Invariance == Spec => []LossInv
<1>1. LossInv /\ [Next]_vars => LossInv'
  BY TypeStep, PendingStep, EventsStep, LossStep DEF LossInv
<1> QED
  BY LossInit, <1>1, PTL DEF Spec

\* The variables keep their types; expired and onchange keep to their capacities.
THEOREM TypeCorrect == Spec => []TypeOK
<1>1. LossInv => TypeOK
  BY DEF LossInv
<1> QED
  BY Invariance, <1>1, PTL

\* A client that has not the last value of a leaf will be sent an event with it,
\* unless one of the four races caught its last change (subscribe.go:398, 375
\* and 542, set.go:365): run() and EventReceive() have no other.
THEOREM RacesOnly == Spec => []OnlyRacesLose
<1>1. LossInv => OnlyRacesLose
  <2>1. Unsent \subseteq ToSend
    BY DEF Unsent, ToSend
  <2>2. ASSUME LossInv, NEW q \in Paths, view[q] # root[q], q \notin raced
        PROVE  q \in UNION {Mentioned(k) : k \in ToSend}
    BY <2>1, <2>2 DEF LossInv, UnsentOK, UnsentAt
  <2> QED
    BY <2>2 DEF OnlyRacesLose
<1> QED
  BY Invariance, <1>1, PTL
=============================================================================
