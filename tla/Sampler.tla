------------------------------ MODULE Sampler ------------------------------
(***************************************************************************)
(* One subscriber: the timers, the channels expired and onchange, the      *)
(* event objects that EventReceive fills while run() reads and clears      *)
(* them, and what the client is told.  In SAMPLE mode there is one object, *)
(* pending; in ON_CHANGE mode one for each event, which a heartbeat may    *)
(* take while it is pending.                                               *)
(*                                                                         *)
(* src/server/subscribe.go  run, EventReceive, EventComplete, getDeletes,  *)
(*                          telemetryUpdate, initTelemetryUpdate, and the  *)
(*                          poll part of processSubscribeRequest           *)
(* src/server/set.go        setLoad and what else replaces Server.Root     *)
(*                                                                         *)
(* The tree is guarded by the RWMutex, pending is not: the step that sends *)
(* an update is atomic, the ones that read and clear pending are others.   *)
(***************************************************************************)
EXTENDS Integers, FiniteSets, Sequences

CONSTANTS
    Paths,          \* the leaves the subscriber covers
    Vals,           \* their values
    Absent,         \* no such leaf
    Subscriptions,  \* what the request may ask for: see Configurations
    Startups,       \* the trees that a Load puts in place
    ExpiredCap,     \* the capacity of the channel expired (2 in the code)
    OnchangeCap,    \* the capacity of onchange (16 in the code)
    MaxWrites,      \* bound: the changes of leaves
    MaxLoads        \* bound: the replacements of the root

\* Subscriber.Mode, StreamMode, StreamConfig.SuppressRedundant and
\* StreamConfig.HeartbeatInterval > 0.
Configurations ==
    [mode : {"STREAM", "POLL"}, submode : {"SAMPLE", "ON_CHANGE"},
     suppress : BOOLEAN, heartbeat : BOOLEAN]

ASSUME SamplerAssumption ==
    /\ Absent \notin Vals
    /\ Subscriptions \subseteq Configurations
    /\ ExpiredCap \in Nat \ {0} /\ OnchangeCap \in Nat \ {0}
    /\ MaxWrites \in Nat /\ MaxLoads \in Nat

Leaves == Vals \cup {Absent}
Trees  == [Paths -> Leaves]

ASSUME StartupsAssumption == Startups \subseteq Trees

VARIABLES
    config,     \* the subscription, which never changes
    root,       \* the leaves in Server.Root
    old,        \* the tree that telemetryUpdate got hold of, if it was replaced
    writer,     \* the call that has Lock: "idle", in EventReceive, after EventComplete
    events,     \* the changeEvent objects that were made
    pending,    \* subscriber.pending: one of them, 0 is nil
    onchange,   \* the channel onchange
    pc,         \* where run(), or the handler of a poll, stands
    sample,     \* a tick waits in samplingTimer.C
    heart,      \* a tick waits in heartbeatTimer.C
    expired,    \* the channel: its elements say mustSend
    event,      \* the local variable event of run(), 0 is nil
    stop,       \* shutdown is closed
    view,       \* what the client was told
    raced,      \* history: leaves whose last change was caught in a race, see OnlyRacesLose
    writes,     \* changes so far
    loads       \* replacements so far

treeVars    == <<config, root, old, writes, loads>>
pendingVars == <<writer, events, pending>>
timerVars   == <<sample, heart>>
clientVars  == <<view, raced>>
vars == <<treeVars, pendingVars, onchange, pc, timerVars, expired, event, stop, clientVars>>

NoChange == [updated |-> {}, deleted |-> {}, changes |-> [q \in Paths |-> Absent]]

\* The leaves in the tries of an event.
Mentioned(k) == IF k = 0 THEN {} ELSE events[k].updated \cup events[k].deleted

Waiting == {onchange[i] : i \in DOMAIN onchange}

OnChange == config.submode = "ON_CHANGE"
Stream   == config.mode = "STREAM"

-----------------------------------------------------------------------------
\* After Register() and the snapshot of initTelemetryUpdate().
Init ==
    /\ config \in Subscriptions
    /\ root \in Startups /\ old = <<>>
    /\ writer = "idle" /\ events = <<>> /\ pending = 0
    /\ onchange = <<>>
    /\ pc = "select"
    /\ sample = FALSE /\ heart = FALSE
    /\ expired = <<>>
    /\ event = 0
    /\ stop = FALSE
    /\ view = root
    /\ raced = {}
    /\ writes = 0 /\ loads = 0

-----------------------------------------------------------------------------
(* Write, Merge, Delete and Load.                                           *)

\* What EventReceive() adds to an event: a create, a replace or a delete.
Received(e, q, v) ==
    [updated |-> IF v # Absent THEN e.updated \cup {q} ELSE e.updated,
     deleted |-> IF root[q] # Absent THEN e.deleted \cup {q} ELSE e.deleted,
     changes |-> IF OnChange THEN [e.changes EXCEPT ![q] = v] ELSE e.changes]

\* A leaf changes and EventReceive() is told.  In ON_CHANGE mode a call of
\* SetEvent has each leaf once.
Change(q, v) ==
    /\ writes < MaxWrites /\ v # root[q]
    /\ ~ (OnChange /\ writer = "receive" /\ q \in Mentioned(pending))
    /\ root' = [root EXCEPT ![q] = v]
    /\ writes' = writes + 1
    /\ writer' = "receive"
    /\ IF pending = 0
       THEN /\ events' = Append(events, Received(NoChange, q, v))
            /\ pending' = Len(events) + 1
       ELSE /\ events' = [events EXCEPT ![pending] = Received(@, q, v)]
            /\ UNCHANGED pending
    /\ raced' = IF pc = "clear" /\ event # 0 /\ event = pending
                THEN raced \cup {q} ELSE raced \ {q}
    /\ UNCHANGED <<config, old, loads, onchange, pc, timerVars, expired, event, stop, view>>

\* EventComplete() hands the event on in ON_CHANGE mode, of a POLL subscription too.
EventComplete ==
    /\ writer = "receive"
    /\ IF OnChange
       THEN /\ Len(onchange) < OnchangeCap
            /\ onchange' = Append(onchange, pending)
            /\ pending' = 0
       ELSE UNCHANGED <<onchange, pending>>
    /\ writer' = "complete"
    /\ UNCHANGED <<treeVars, events, pc, timerVars, expired, event, stop, clientVars>>

Unlock ==
    /\ writer = "complete"
    /\ writer' = "idle"
    /\ UNCHANGED <<treeVars, events, pending, onchange, pc, timerVars, expired, event, stop,
                   clientVars>>

\* Whether the tree that is sent is Server.Root.
FromRoot == ~ Stream \/ ~ OnChange \/ event = 0

\* Server.Root is replaced under Lock, without events: telemetryUpdate() may
\* have read it already, for it does so before RLock.
Load(tree) ==
    /\ loads < MaxLoads /\ writer = "idle" /\ tree # root
    /\ root' = tree
    /\ loads' = loads + 1
    /\ old' \in IF Stream /\ pc = "update" /\ FromRoot /\ old = <<>>
                THEN {<<>>, <<root>>} ELSE {old}
    /\ raced' = raced \cup {q \in Paths : tree[q] # root[q]}
    /\ UNCHANGED <<config, writes, pendingVars, onchange, pc, timerVars, expired, event, stop, view>>

-----------------------------------------------------------------------------
(* The timers and the select of run().                                      *)

\* A ticker fires; it drops the tick when the last one was not taken.
SampleTick ==
    /\ Stream /\ ~ OnChange /\ ~ sample
    /\ sample' = TRUE
    /\ UNCHANGED <<treeVars, pendingVars, onchange, pc, heart, expired, event, stop, clientVars>>

HeartTick ==
    /\ Stream /\ config.heartbeat /\ ~ heart
    /\ heart' = TRUE
    /\ UNCHANGED <<treeVars, pendingVars, onchange, pc, sample, expired, event, stop, clientVars>>

\* The select takes a tick of the sampling timer: SyncRequest() follows, and
\* the program writes what it likes (Change) before it returns.
TakeSample ==
    /\ pc = "select" /\ sample
    /\ sample' = FALSE
    /\ pc' = "sync"
    /\ UNCHANGED <<treeVars, pendingVars, onchange, heart, expired, event, stop, clientVars>>

\* expired <- !SuppressRedundant: it blocks while the channel is full, and run()
\* is the only one to empty it.
PushSample ==
    /\ Stream /\ pc = "sync"
    /\ Len(expired) < ExpiredCap
    /\ expired' = Append(expired, ~ config.suppress)
    /\ pc' = "select"
    /\ UNCHANGED <<treeVars, pendingVars, onchange, timerVars, event, stop, clientVars>>

TakeHeart ==
    /\ pc = "select" /\ heart
    /\ heart' = FALSE
    /\ pc' = "heart"
    /\ UNCHANGED <<treeVars, pendingVars, onchange, sample, expired, event, stop, clientVars>>

\* Mutant: the channel takes more than it holds.
PushHeartOver ==
    /\ pc = "heart"
    /\ expired' = Append(expired, TRUE)
    /\ pc' = "select"
    /\ UNCHANGED <<treeVars, pendingVars, onchange, timerVars, event, stop, clientVars>>

PushHeart ==
    /\ pc = "heart"
    /\ Len(expired) < ExpiredCap
    /\ expired' = Append(expired, TRUE)
    /\ pc' = "select"
    /\ UNCHANGED <<treeVars, pendingVars, onchange, timerVars, event, stop, clientVars>>

\* An event comes out of onchange.
TakeEvent ==
    /\ pc = "select" /\ Stream /\ onchange # <<>>
    /\ event' = Head(onchange)
    /\ onchange' = Tail(onchange)
    /\ pc' = "update"
    /\ UNCHANGED <<treeVars, pendingVars, timerVars, expired, stop, clientVars>>

\* Mutant: what is skipped is cleared.
TakeExpiredClears ==
    /\ pc = "select" /\ expired # <<>>
    /\ expired' = Tail(expired)
    /\ event' = pending
    /\ pc' = IF Head(expired) THEN "update" ELSE "clear"
    /\ UNCHANGED <<treeVars, pendingVars, onchange, timerVars, stop, clientVars>>

\* mustSend := <-expired, event := subscriber.pending, and the test of the tries.
TakeExpired ==
    /\ pc = "select" /\ expired # <<>>
    /\ expired' = Tail(expired)
    /\ IF Head(expired) \/ Mentioned(pending) # {}
       THEN event' = pending /\ pc' = "update"
       ELSE UNCHANGED <<event, pc>>
    /\ UNCHANGED <<treeVars, pendingVars, onchange, timerVars, stop, clientVars>>

\* A poll request: SyncRequest(), then the pending event is read.
Poll ==
    /\ ~ Stream /\ pc = "select" /\ ~ stop
    /\ pc' = "sync"
    /\ UNCHANGED <<treeVars, pendingVars, onchange, timerVars, expired, event, stop, clientVars>>

ReadPending ==
    /\ ~ Stream /\ pc = "sync"
    /\ event' = pending
    /\ pc' = "update"
    /\ UNCHANGED <<treeVars, pendingVars, onchange, timerVars, expired, stop, clientVars>>

-----------------------------------------------------------------------------
(* telemetryUpdate() or initTelemetryUpdate(), and Clear().                 *)

\* The leaves that are sent.
Sent == IF ~ FromRoot THEN events[event].changes ELSE IF old # <<>> THEN old[1] ELSE root

\* The client after the deletes of the event and the updates.
Told(sent) ==
    [q \in Paths |-> IF sent[q] # Absent THEN sent[q]
                     ELSE IF event # 0 /\ q \in events[event].deleted THEN Absent
                     ELSE view[q]]

\* Leaves of which an older event is still in onchange.
Overtaken == Mentioned(event) \cap UNION {Mentioned(k) : k \in {w \in Waiting : w < event}}

\* A race is over when the client is up to date and no event of it is left.
Races ==
    {q \in raced : view'[q] # root[q] \/ \E k \in Waiting : q \in Mentioned(k)}
      \cup Overtaken
      \cup {q \in Paths : old # <<>> /\ view'[q] # root[q]}

\* Mutant: only the changed leaves are sent.
UpdateChanged ==
    /\ pc = "update" /\ writer = "idle"
    /\ view' = Told([q \in Paths |-> IF q \in Mentioned(event) THEN Sent[q] ELSE Absent])
    /\ raced' = Races
    /\ old' = <<>>
    /\ pc' = "clear"
    /\ UNCHANGED <<config, root, writes, loads, pendingVars, onchange, timerVars, expired, event, stop>>

\* Between RLock and RUnlock: the deletes of the event, then the leaves that are
\* in the tree, or in the changes of the event.
Update ==
    /\ pc = "update" /\ writer = "idle"
    /\ view' = Told(Sent)
    /\ raced' = Races
    /\ old' = <<>>
    /\ pc' = "clear"
    /\ UNCHANGED <<config, root, writes, loads, pendingVars, onchange, timerVars, expired, event, stop>>

\* event.Clear().
Clear ==
    /\ pc = "clear"
    /\ events' = IF event = 0 THEN events ELSE [events EXCEPT ![event] = NoChange]
    /\ event' = 0
    /\ pc' = "select"
    /\ UNCHANGED <<treeVars, writer, pending, onchange, timerVars, expired, stop, clientVars>>

\* The session is stopped; the select may take the shutdown at any time.
Shutdown ==
    /\ ~ stop
    /\ stop' = TRUE
    /\ UNCHANGED <<treeVars, pendingVars, onchange, pc, timerVars, expired, event, clientVars>>

\* Mutant: the timers come before the shutdown.
TakeShutdownLast ==
    /\ pc = "select" /\ stop
    /\ ~ sample /\ ~ heart /\ expired = <<>>
    /\ pc' = "done"
    /\ UNCHANGED <<treeVars, pendingVars, onchange, timerVars, expired, event, stop, clientVars>>

TakeShutdown ==
    /\ pc = "select" /\ stop
    /\ pc' = "done"
    /\ UNCHANGED <<treeVars, pendingVars, onchange, timerVars, expired, event, stop, clientVars>>

RunStep ==
    \/ TakeSample \/ PushSample \/ TakeHeart \/ PushHeart \/ TakeEvent \/ TakeExpired
    \/ ReadPending \/ Update \/ Clear \/ TakeShutdown

Next ==
    \/ RunStep
    \/ \E q \in Paths, v \in Leaves : Change(q, v)
    \/ EventComplete \/ Unlock
    \/ \E tree \in Startups : Load(tree)
    \/ SampleTick \/ HeartTick \/ Poll \/ Shutdown

Spec == Init /\ [][Next]_vars

\* The timers keep firing, a writer and run() go on while they can, and a select
\* that comes back to a ready case takes it in the end: Go chooses among them at
\* random.
Fairness ==
    /\ WF_vars(SampleTick) /\ WF_vars(HeartTick)
    /\ WF_vars(EventComplete) /\ WF_vars(Unlock)
    /\ WF_vars(RunStep)
    /\ SF_vars(TakeSample) /\ SF_vars(TakeHeart) /\ SF_vars(TakeEvent)
    /\ SF_vars(TakeExpired) /\ SF_vars(TakeShutdown)

FairSpec == Spec /\ Fairness

-----------------------------------------------------------------------------
TypeOK ==
    /\ config \in Configurations
    /\ root \in Trees /\ view \in Trees
    /\ old = <<>> \/ \E tree \in Trees : old = <<tree>>
    /\ {sample, heart, stop} \subseteq BOOLEAN
    /\ writer \in {"idle", "receive", "complete"}
    /\ events \in Seq([updated : SUBSET Paths, deleted : SUBSET Paths, changes : Trees])
    /\ {pending, event} \cup Waiting \subseteq 0 .. Len(events)
    /\ onchange \in Seq(1 .. Len(events)) /\ Len(onchange) <= OnchangeCap
    /\ raced \subseteq Paths
    /\ pc \in {"select", "sync", "heart", "update", "clear", "done"}
    /\ expired \in Seq(BOOLEAN) /\ Len(expired) <= ExpiredCap
    /\ writes \in 0 .. MaxWrites /\ loads \in 0 .. MaxLoads

\* The events whose content run() has yet to send.
ToSend == Waiting \cup {pending} \cup IF pc = "update" THEN {event} ELSE {}

\* A leaf the client has not up to date is in an event that is still to be sent,
\* or its last change was caught in one of the races of the code: it came
\* between the update and event.Clear() (subscribe.go:398, 787); a heartbeat
\* sent it before an older event (subscribe.go:375); the root was replaced after
\* telemetryUpdate read it (subscribe.go:542); or it raised no event (set.go:365).
OnlyRacesLose ==
    \A q \in Paths :
        view[q] # root[q] => q \in raced \cup UNION {Mentioned(k) : k \in ToSend}

\* subscribe.go:377 "suppress_redundant - skips the telemetry update if no
\* changes": a sample is skipped only when the client is up to date.
SkipsOnlyUnchanged ==
    [][expired # <<>> /\ expired' = Tail(expired) /\ pc' = "select" => view = root]_vars

\* run() waits for itself to empty the channel, or a writer for room in onchange.
Stuck ==
    \/ pc \in {"sync", "heart"} /\ Stream /\ Len(expired) = ExpiredCap
    \/ writer = "receive" /\ OnChange /\ Len(onchange) = OnchangeCap

\* A subscriber that is not stuck has its samples, or its heartbeats, sent, as
\* long as the session lasts: the values the tree keeps get to the client, those
\* caught in a race included.  With suppress_redundant it takes a heartbeat, for
\* a sample may be skipped when it should not.
Repairing == Stream /\ (config.heartbeat \/ (~ OnChange /\ ~ config.suppress))
SamplesArrive ==
    \/ ~ Repairing
    \/ <>[]Stuck
    \/ <>stop
    \/ \A q \in Paths, v \in Vals : <>[](root[q] = v) => <>[](view[q] = v)

\* Stop() "shutdown all goroutines for subscription" (subscribe.go:121).
RunEnds == stop ~> pc = "done"

\* run() comes to its end after the shutdown although the timers keep firing,
\* unless it is stuck; so does the loop of a handler that is polled.
RunEndsUnlessStuck == <>[]Stuck \/ RunEnds
=============================================================================
