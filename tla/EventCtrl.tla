----------------------------- MODULE EventCtrl -----------------------------
(***************************************************************************)
(* The data tree of the gNMI server, the RWMutex that guards it, and the   *)
(* event controller that tells the subscribers of ON_CHANGE telemetry      *)
(* which nodes changed.                                                    *)
(*                                                                         *)
(* src/server/data.go    Write, Merge and Delete: Lock, change the tree,   *)
(*                       SetEvent, Unlock                                  *)
(* src/server/event.go   Register, Unregister, SetEvent, setReady          *)
(* src/server/subscribe.go  EventReceive and EventComplete of Subscriber   *)
(*                                                                         *)
(* The module has the actions only; Telemetry composes them with the       *)
(* sessions that register the subscribers and drain their queues.          *)
(***************************************************************************)
EXTENDS ChangeEvents, Integers, Sequences, FiniteSets

CONSTANTS
    Procs,        \* the goroutines that call Write, Merge or Delete
    Subs,         \* the subscribers: EventReceivers in ON_CHANGE mode
    Nobody,       \* no goroutine holds the mutex
    Watch,        \* Watch[s]: the leaves EventPath() of s covers
    OnchangeCap,  \* the capacity of the channel onchange (16 in the code)
    Faults        \* whether SetEvent may fail, and in Telemetry what handlers and run() call

ASSUME EventCtrlAssumption ==
    /\ Absent \notin Vals /\ Same \notin Vals /\ Absent # Same
    /\ Nobody \notin Procs \cup Subs
    /\ Watch \in [Subs -> SUBSET Paths]
    /\ OnchangeCap \in Nat \ {0}
    /\ Faults \in BOOLEAN

VARIABLES
    root,         \* Server.Root
    silent,       \* history: leaves whose last change raised no event, or one that was lost
    wlock,        \* the holder of Server.Lock()
    readers,      \* the holders of Server.RLock()
    ec,           \* the holder of EventCtrl.mutex
    receivers,    \* EventCtrl.receivers: the registered subscribers
    ready,        \* EventCtrl.ready: those with an event set to complete
    pending,      \* Subscriber.pending
    onchange,     \* Subscriber.onchange
    wpc,          \* where a call of Write, Merge or Delete stands
    job           \* the calls of SetEvent that are left to it

treeVars   == <<root, silent>>
lockVars   == <<wlock, readers>>
queueVars  == <<ready, pending, onchange>>
writerVars == <<wpc, job>>
eventVars  == <<treeVars, lockVars, ec, receivers, queueVars, writerVars>>

-----------------------------------------------------------------------------
(* What the calls of SetEvent make of an event. *)

\* The part of a change that differs from the tree: what SetDiff and MergeDiff
\* return as created and replaced nodes.
Effective(chg) == [q \in Paths |-> IF chg[q] = root[q] THEN Same ELSE chg[q]]

\* The leaves an event mentions.
Mentioned(chg) == {q \in Paths : chg[q] # Same}

Assign(q, v) == [NoEvent EXCEPT ![q] = v]
Restriction(chg, Q) == [q \in Paths |-> IF q \in Q THEN chg[q] ELSE Same]

IsDelete(chg) == \E q \in Paths : chg = Assign(q, Absent)

-----------------------------------------------------------------------------
EventCtrlInit ==
    /\ root = [q \in Paths |-> Absent]
    /\ silent = {}
    /\ wlock = Nobody
    /\ readers = {}
    /\ ec = Nobody
    /\ receivers = {}
    /\ ready = {}
    /\ pending = [s \in Subs |-> NoEvent]
    /\ onchange = [s \in Subs |-> <<>>]
    /\ wpc = [p \in Procs |-> "out"]
    /\ job = [p \in Procs |-> {}]

\* A call of Write or Merge (one SetEvent for all the nodes) or of Delete (one
\* SetEvent for each node).
Begin(p, changes) ==
    /\ wpc[p] = "out"
    /\ wpc' = [wpc EXCEPT ![p] = "lock"]
    /\ job' = [job EXCEPT ![p] = changes]
    /\ UNCHANGED <<treeVars, lockVars, ec, receivers, queueVars>>

\* s.Lock() returns.  Delete looks its nodes up now, under the lock.
Lock(p) ==
    /\ wpc[p] = "lock"
    /\ wlock = Nobody /\ readers = {}
    /\ wlock' = p
    /\ wpc' = [wpc EXCEPT ![p] = "event"]
    /\ job' = [job EXCEPT ![p] = {c \in @ : IsDelete(c) => Effective(c) # NoEvent}]
    /\ UNCHANGED <<treeVars, readers, ec, receivers, queueVars>>

\* setReady() and EventReceive(): every receiver that covers a changed node
\* gets it added to its pending event.
Raise(chg) ==
    LET hit == {s \in receivers : Restriction(chg, Watch[s]) # NoEvent}
    IN  /\ ready' = ready \cup hit
        /\ pending' = [s \in Subs |->
                         IF s \in hit
                         THEN Collect(pending[s], Restriction(chg, Watch[s]))
                         ELSE pending[s]]

\* SetEvent() up to its last loop.  Nobody reads the tree while wlock is held,
\* so that the change of the tree and the event are one step, though Write
\* changes the tree before it and Delete after it.  A leaf is no longer silent,
\* unless its event joins what a failed one has left in a pending event.
SetEvent(p) ==
    /\ wpc[p] = "event" /\ ec = Nobody
    /\ \E c \in job[p] :
         /\ root' = Overlay(root, c)
         /\ silent' = silent \ {q \in Mentioned(Effective(c)) : \A s \in Subs : pending[s][q] = Same}
         /\ Raise(Effective(c))
         /\ job' = [job EXCEPT ![p] = @ \ {c}]
    /\ ec' = p
    /\ wpc' = [wpc EXCEPT ![p] = "complete"]
    /\ UNCHANGED <<lockVars, receivers, onchange>>

\* SetEvent() meets an invalid node: the receivers of the nodes before it stay
\* in ready, Write keeps its change of the tree, Delete returns before Remove().
SetEventFails(p) ==
    /\ Faults
    /\ wpc[p] = "event" /\ ec = Nobody
    /\ \E c \in job[p], Q \in SUBSET Paths :
         /\ root' = IF IsDelete(c) THEN root ELSE Overlay(root, c)
         /\ silent' = silent \cup Mentioned(Effective(c))
         /\ Raise(Restriction(Effective(c), Q))
    /\ job' = [job EXCEPT ![p] = {}]
    /\ UNCHANGED <<lockVars, ec, receivers, onchange, wpc>>

\* Mutant: the event is dropped when the queue is full.
EventDropped(p, s) ==
    /\ wpc[p] = "complete" /\ s \in ready
    /\ onchange' = [onchange EXCEPT ![s] =
                      IF Len(@) < OnchangeCap THEN Append(@, pending[s]) ELSE @]
    /\ pending' = [pending EXCEPT ![s] = NoEvent]
    /\ ready' = ready \ {s}
    /\ UNCHANGED <<treeVars, lockVars, ec, receivers, writerVars>>

\* EventComplete() of one ready receiver: it blocks while the queue is full.
EventComplete(p, s) ==
    /\ wpc[p] = "complete" /\ s \in ready
    /\ Len(onchange[s]) < OnchangeCap
    /\ onchange' = [onchange EXCEPT ![s] = Append(@, pending[s])]
    /\ pending' = [pending EXCEPT ![s] = NoEvent]
    /\ ready' = ready \ {s}
    /\ UNCHANGED <<treeVars, lockVars, ec, receivers, writerVars>>

\* Mutant: SetEvent() returns without releasing the mutex.
EndEventsLocked(p) ==
    /\ wpc[p] = "complete" /\ ready = {}
    /\ wpc' = [wpc EXCEPT ![p] = "event"]
    /\ UNCHANGED <<treeVars, lockVars, ec, receivers, queueVars, job>>

\* SetEvent() returns and releases EventCtrl.mutex.
EndEvents(p) ==
    /\ wpc[p] = "complete" /\ ready = {}
    /\ ec' = Nobody
    /\ wpc' = [wpc EXCEPT ![p] = "event"]
    /\ UNCHANGED <<treeVars, lockVars, receivers, queueVars, job>>

\* Write, Merge or Delete returns.
Unlock(p) ==
    /\ wpc[p] = "event" /\ job[p] = {}
    /\ wlock' = Nobody
    /\ wpc' = [wpc EXCEPT ![p] = "out"]
    /\ UNCHANGED <<treeVars, readers, ec, receivers, queueVars, job>>

WriterStep(p) ==
    \/ Lock(p)
    \/ SetEvent(p)
    \/ SetEventFails(p)
    \/ \E s \in Subs : EventComplete(p, s)
    \/ EndEvents(p)
    \/ Unlock(p)

\* Register() and Unregister() hold EventCtrl.mutex throughout.
Register(s) ==
    /\ ec = Nobody
    /\ receivers' = receivers \cup {s}
    /\ UNCHANGED <<treeVars, lockVars, ec, queueVars, writerVars>>

\* Mutant: Unregister() leaves the subscriber in ready.
UnregisterKeepsReady(s) ==
    /\ ec = Nobody
    /\ receivers' = receivers \ {s}
    /\ UNCHANGED <<treeVars, lockVars, ec, queueVars, writerVars>>

Unregister(s) ==
    /\ ec = Nobody
    /\ receivers' = receivers \ {s}
    /\ ready' = ready \ {s}
    /\ UNCHANGED <<treeVars, lockVars, ec, pending, onchange, writerVars>>

\* Server.RLock() and RUnlock().  A waiting Lock() does not keep readers out as
\* Go's RWMutex does: that would only take behaviours away.
RLock(r) ==
    /\ wlock = Nobody
    /\ readers' = readers \cup {r}
    /\ UNCHANGED <<treeVars, wlock, ec, receivers, queueVars, writerVars>>

RUnlock(r) ==
    /\ readers' = readers \ {r}
    /\ UNCHANGED <<treeVars, wlock, ec, receivers, queueVars, writerVars>>

-----------------------------------------------------------------------------
EventCtrlTypeOK ==
    /\ root \in [Paths -> Leaves]
    /\ silent \subseteq Paths
    /\ wlock \in Procs \cup {Nobody}
    /\ ec \in Procs \cup {Nobody}
    /\ receivers \subseteq Subs
    /\ ready \subseteq Subs
    /\ pending \in [Subs -> Events]
    /\ onchange \in [Subs -> Seq(Events)]
    /\ wpc \in [Procs -> {"out", "lock", "event", "complete"}]
    /\ job \in [Procs -> SUBSET Events]
=============================================================================
