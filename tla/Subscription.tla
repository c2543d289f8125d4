---------------------------- MODULE Subscription ----------------------------
(***************************************************************************)
(* What becomes of the subscriptions of a SubscribeRequest: those with the *)
(* same options share a subscriber, each subscriber gets an ID, an entry   *)
(* in the tree, a place among the event receivers and a run().             *)
(*                                                                         *)
(* src/server/subscribe.go  addSubscription, processSubscribeRequest, run, *)
(*                          deleteSubscription, Stop                       *)
(* src/server/internal.go   addDynamicSubscription and its inverse         *)
(*                                                                         *)
(* Three things block: Server.Lock(), the mutex of a subscriber, and the   *)
(* channel onchange.  Telemetry has what is sent to the client.            *)
(***************************************************************************)
EXTENDS Integers, Sequences, FiniteSets

CONSTANTS
    Sess,          \* the Subscribe RPCs
    Writers,       \* goroutines of the program that change the tree
    Nobody,        \* holds no lock
    Paths,         \* what a subscription may ask for
    InfoPath,      \* the path of the entries of the subscribers
    Requests,      \* Requests[x]: what the client of x may ask for
    MinimumInterval, DefaultInterval,
    OnchangeCap,   \* the capacity of the channel onchange (16 in the code)
    InfoChanges,   \* what the program may do to the entries: those of the IDs of a
                   \* change list the paths of the change from then on
    MaxRequests,   \* bound: MaxRequests[x] requests of a session
    MaxSubs,       \* bound: subscribers made
    MaxWrites      \* bound: changes of the tree by others, and failures

Submodes == {"TARGET_DEFINED", "ON_CHANGE", "SAMPLE"}

\* A subscription of the list; the prefix, encoding, use_aliases and
\* allow_aggregation are the same for the whole list and are one value of it.
Items == [path : Paths, submode : Submodes, sample : Nat, heartbeat : Nat, suppress : BOOLEAN]
Lists == [mode : {"STREAM", "POLL"}, list : Nat, items : Seq(Items)]

ASSUME SubscriptionAssumption ==
    /\ Nobody \notin Sess \cup Writers /\ Sess \cap Writers = {}
    /\ (Sess \cup Writers \cup {Nobody}) \cap Nat = {}
    /\ \A x \in Sess : Requests[x] \subseteq Lists /\ \A r \in Requests[x] : r.items # <<>>
    /\ InfoPath \in Paths
    /\ MinimumInterval \in Nat \ {0} /\ DefaultInterval \in Nat \ {0}
    /\ OnchangeCap \in Nat \ {0}
    /\ InfoChanges \subseteq [ids : SUBSET Nat, paths : SUBSET Paths]
    /\ MaxRequests \in [Sess -> Nat] /\ MaxSubs \in Nat /\ MaxWrites \in Nat

VARIABLES
    subID,        \* the global counter
    made,         \* the Subscriber structs made so far, numbered from 1
    obj,          \* obj[n]: the n-th of them
    Sub,          \* SubSession.Sub: the subscribers of a session
    registered,   \* the subscribers among the receivers of EventCtrl
    queue,        \* queue[n]: the number of events in onchange
    lock,         \* the holder of Server.Lock(), and of EventCtrl.mutex in SetEvent
    left,         \* EventCtrl.ready: the receivers whose EventComplete is still to be called
    info,         \* the entries in the tree: an ID and a path that it lists
    mutex,        \* mutex[n]: who holds subscriber.mutex
    run,          \* run[n]: where run() stands
    hpc,          \* hpc[x]: where the handler stands
    req,          \* the request it works on ...
    pos,          \* ... and the subscription in its list
    tmp,          \* what it read of subID
    starting,     \* startingList; in Stop(): the subscriber it deletes
    asked,        \* history: the subscriptions accepted, with mode and list
    shown,        \* history: the paths initTelemetryUpdate was called with
    raced,        \* history: two handlers have dealt with subID at once
    astray,       \* history: the IDs whose entry the program changed, or whose merge or
                  \* deletion failed
    requests,     \* the requests of a session so far
    writes        \* the changes of the tree by others, and the failures, so far

objVars     == <<made, obj, Sub>>
eventVars   == <<registered, queue, lock, left>>
requestVars == <<req, pos, tmp, starting>>
history     == <<asked, shown, raced, astray>>
bounds      == <<requests, writes>>
vars == <<subID, objVars, eventVars, info, mutex, run, hpc, requestVars, history, bounds>>

Objs == 1 .. MaxSubs
NoItem    == [path |-> InfoPath, submode |-> "TARGET_DEFINED", sample |-> 0,
              heartbeat |-> 0, suppress |-> FALSE]
NoRequest == [mode |-> "POLL", list |-> 0, items |-> <<>>]

\* The item is the subscription that a subscriber was made for: it has the
\* options of the struct.
Subscribers == [sess : Sess \cup {Nobody}, mode : {"STREAM", "POLL"}, list : Nat, item : Items,
                id : Nat, path : SUBSET Paths, fullpath : SUBSET Paths]
NoSubscriber == [sess |-> Nobody, mode |-> "POLL", list |-> 0, item |-> NoItem,
                 id |-> 0, path |-> {}, fullpath |-> {}]

-----------------------------------------------------------------------------
(* The pure part of addSubscription().                                      *)

\* Mutant: the heartbeat is left out of the key.
KeyNoHeartbeat(mode, list, item) ==
    IF mode = "POLL" THEN <<mode, list>>
    ELSE <<mode, list, item.submode, item.sample, item.suppress>>

\* The key of a subscription in SubSession.Sub.
Key(mode, list, item) ==
    IF mode = "POLL" THEN <<mode, list>>
    ELSE <<mode, list, item.submode, item.sample, item.heartbeat, item.suppress>>

\* Not below the minimum, unless it is not given.
Interval(t) == t = 0 \/ t >= MinimumInterval

\* Whether a new subscriber can be made for it.
Acceptable(mode, item) ==
    \/ mode = "POLL"
    \/ item.submode = "TARGET_DEFINED"
    \/ item.submode = "ON_CHANGE" /\ Interval(item.heartbeat) /\ item.sample = 0
    \/ /\ item.submode = "SAMPLE" /\ Interval(item.sample) /\ Interval(item.heartbeat)
       /\ item.heartbeat # 0 => item.sample <= item.heartbeat

Config(submode, sample, heartbeat, suppress) ==
    [submode |-> submode, sample |-> sample, heartbeat |-> heartbeat, suppress |-> suppress]

\* Subscriber.StreamConfig, which a POLL subscription leaves empty.
StreamConfig(mode, item) ==
    IF mode = "POLL" THEN Config("TARGET_DEFINED", 0, 0, FALSE)
    ELSE CASE item.submode = "TARGET_DEFINED" -> Config("SAMPLE", DefaultInterval, 0, TRUE)
           [] item.submode = "ON_CHANGE"      -> Config("ON_CHANGE", 0, item.heartbeat, FALSE)
           [] item.submode = "SAMPLE" ->
                Config("SAMPLE", IF item.sample = 0 THEN MinimumInterval ELSE item.sample,
                       item.heartbeat, item.suppress)

-----------------------------------------------------------------------------
Init ==
    /\ subID = 0
    /\ made = 0 /\ obj = [n \in Objs |-> NoSubscriber] /\ Sub = [x \in Sess |-> {}]
    /\ registered = {} /\ queue = [n \in Objs |-> 0] /\ lock = Nobody /\ left = {}
    /\ info = {}
    /\ mutex = [n \in Objs |-> Nobody]
    /\ run = [n \in Objs |-> "none"]
    /\ hpc = [x \in Sess |-> "recv"]
    /\ req = [x \in Sess |-> NoRequest] /\ pos = [x \in Sess |-> 1]
    /\ tmp = [x \in Sess |-> 0] /\ starting = [x \in Sess |-> <<>>]
    /\ asked = {} /\ shown = [n \in Objs |-> {}] /\ raced = FALSE /\ astray = {}
    /\ requests = [x \in Sess |-> 0] /\ writes = 0

-----------------------------------------------------------------------------
(* processSubscribeRequest(): the loop over the list, with addSubscription. *)

Receive(x, r) ==
    /\ hpc[x] = "recv" /\ requests[x] < MaxRequests[x]
    /\ req' = [req EXCEPT ![x] = r]
    /\ pos' = [pos EXCEPT ![x] = 1]
    /\ hpc' = [hpc EXCEPT ![x] = "add"]
    /\ requests' = [requests EXCEPT ![x] = @ + 1]
    /\ UNCHANGED <<subID, objVars, eventVars, info, mutex, run, tmp, starting, history, writes>>

Item(x) == req[x].items[pos[x]]

\* The subscriber of the session that has the key of the subscription.
Existing(x) ==
    {n \in Sub[x] : Key(obj[n].mode, obj[n].list, obj[n].item)
                      = Key(req[x].mode, req[x].list, Item(x))}

\* The subscriber of the subscription is known: it is put in startingList.
Accept(x, n) ==
    /\ starting' = [starting EXCEPT ![x] = Append(@, n)]
    /\ pos' = [pos EXCEPT ![x] = @ + 1]
    /\ hpc' = [hpc EXCEPT ![x] = IF pos[x] < Len(req[x].items) THEN "add" ELSE "start"]
    /\ asked' = asked \cup {<<x, req[x].mode, req[x].list, Item(x)>>}

\* addSubscription(): an existing subscriber gets the path, under its mutex.
AddPath(x, n) ==
    /\ hpc[x] = "add" /\ n \in Existing(x)
    /\ mutex[n] = Nobody
    /\ obj' = [obj EXCEPT ![n].path = @ \cup {Item(x).path}]
    /\ Accept(x, n)
    /\ UNCHANGED <<subID, made, Sub, eventVars, info, mutex, run, req, tmp, shown, raced, astray, bounds>>

\* subID++ reads the counter, which has no lock ...
ReadID(x) ==
    /\ hpc[x] = "add" /\ Existing(x) = {}
    /\ tmp' = [tmp EXCEPT ![x] = subID]
    /\ raced' = (raced \/ \E y \in Sess \ {x} : hpc[y] \in {"count", "make"})
    /\ hpc' = [hpc EXCEPT ![x] = "count"]
    /\ UNCHANGED <<subID, objVars, eventVars, info, mutex, run, req, pos, starting, asked, shown,
                   astray, bounds>>

\* ... and writes it.
WriteID(x) ==
    /\ hpc[x] = "count"
    /\ subID' = tmp[x] + 1
    /\ hpc' = [hpc EXCEPT ![x] = "make"]
    /\ UNCHANGED <<objVars, eventVars, info, mutex, run, requestVars, history, bounds>>

\* A new subscriber.  Its ID is read again, or still at hand from subID++.
Create(x, id) ==
    /\ hpc[x] = "make" /\ Acceptable(req[x].mode, Item(x)) /\ made < MaxSubs
    /\ made' = made + 1
    /\ obj' = [obj EXCEPT ![made + 1] =
                 [sess |-> x, mode |-> req[x].mode, list |-> req[x].list, item |-> Item(x),
                  id |-> id, path |-> {Item(x).path}, fullpath |-> {Item(x).path}]]
    /\ Sub' = [Sub EXCEPT ![x] = @ \cup {made + 1}]
    /\ Accept(x, made + 1)
    /\ UNCHANGED <<subID, eventVars, info, mutex, run, req, tmp, shown, raced, astray, bounds>>

\* The subscription is refused: the RPC ends with those before it in SubSession.Sub.
Refuse(x) ==
    /\ hpc[x] = "make" /\ ~ Acceptable(req[x].mode, Item(x))
    /\ starting' = [starting EXCEPT ![x] = <<>>]
    /\ hpc' = [hpc EXCEPT ![x] = "wait"]
    /\ UNCHANGED <<subID, objVars, eventVars, info, mutex, run, req, pos, tmp, history, bounds>>

-----------------------------------------------------------------------------
(* processSubscribeRequest(): the loop over startingList.                   *)

Receivers(q) == {n \in registered : q \in obj[n].fullpath}

\* Server.Lock() is had, and SetEvent() for the change of q, if there is one,
\* has gone through its receivers.  It completes what is ready from before, too.
LockAndRaise(p, q, changed) ==
    /\ lock = Nobody
    /\ lock' = p
    /\ left' = left \cup (IF changed THEN Receivers(q) ELSE {})
    /\ UNCHANGED <<registered, queue>>

\* SetEvent() fails after the events for R, and completes none.
RaiseSome(q, R) ==
    /\ lock = Nobody
    /\ R \subseteq Receivers(q)
    /\ left' = left \cup R
    /\ UNCHANGED <<registered, queue, lock>>

\* Mutant: the event is put in a channel that is full.
EventCompleteOver(n) ==
    /\ lock # Nobody /\ n \in left
    /\ queue' = [queue EXCEPT ![n] = IF obj[n].item.submode = "ON_CHANGE" THEN @ + 1 ELSE @]
    /\ left' = left \ {n}
    /\ UNCHANGED <<subID, objVars, registered, lock, info, mutex, run, hpc, requestVars, history,
                   bounds>>

\* EventComplete() of a receiver: onchange takes the event if its submode is
\* ON_CHANGE, also in a POLL subscription.
EventComplete(n) ==
    /\ lock # Nobody /\ n \in left
    /\ obj[n].item.submode = "ON_CHANGE" => queue[n] < OnchangeCap
    /\ queue' = [queue EXCEPT ![n] = IF obj[n].item.submode = "ON_CHANGE" THEN @ + 1 ELSE @]
    /\ left' = left \ {n}
    /\ UNCHANGED <<subID, objVars, registered, lock, info, mutex, run, hpc, requestVars, history,
                   bounds>>

\* The defers of Merge, Delete and Write.
UnlockServer(p) ==
    /\ lock = p /\ left = {}
    /\ lock' = Nobody
    /\ UNCHANGED <<registered, queue, left>>

\* addDynamicSubscription() takes the mutex of the subscriber ...
LockMutex(x) ==
    /\ hpc[x] = "start" /\ starting[x] # <<>>
    /\ mutex[Head(starting[x])] = Nobody
    /\ mutex' = [mutex EXCEPT ![Head(starting[x])] = x]
    /\ hpc' = [hpc EXCEPT ![x] = "merge"]
    /\ UNCHANGED <<subID, objVars, eventVars, info, run, requestVars, history, bounds>>

Entry(n) == {<<obj[n].id, q>> : q \in obj[n].path}

\* Mutant: the entry lists the paths of the events only.
MergeFullpath(x) ==
    LET n == Head(starting[x])
        e == {<<obj[n].id, q>> : q \in obj[n].fullpath}
    IN  /\ hpc[x] = "merge"
        /\ LockAndRaise(x, InfoPath, ~ (e \subseteq info))
        /\ info' = info \cup e
        /\ hpc' = [hpc EXCEPT ![x] = "merging"]
        /\ UNCHANGED <<subID, objVars, mutex, run, requestVars, history, bounds>>

\* ... and, with it, Server.Lock() to merge the entry into the tree.
MergeInfo(x) ==
    LET n == Head(starting[x])
    IN  /\ hpc[x] = "merge"
        /\ LockAndRaise(x, InfoPath, ~ (Entry(n) \subseteq info))
        /\ info' = info \cup Entry(n)
        /\ hpc' = [hpc EXCEPT ![x] = "merging"]
        /\ UNCHANGED <<subID, objVars, mutex, run, requestVars, history, bounds>>

\* A change of the tree by others, or a failure.
Disturb(ids) ==
    /\ writes < MaxWrites
    /\ writes' = writes + 1
    /\ astray' = astray \cup ids

\* An error before the Merge.  The caller ignores it, as it does every other.
AddFails(x) ==
    LET n == Head(starting[x])
    IN  /\ hpc[x] = "start" /\ starting[x] # <<>> /\ mutex[n] = Nobody
        /\ Disturb({obj[n].id})
        /\ hpc' = [hpc EXCEPT ![x] = "register"]
        /\ UNCHANGED <<subID, objVars, eventVars, info, mutex, run, requestVars, asked, shown, raced,
                       requests>>

\* The Merge fails: there is no entry, or there is and not all hear of it.
MergeFails(x, R) ==
    LET n == Head(starting[x])
    IN  /\ hpc[x] = "merge"
        /\ RaiseSome(InfoPath, R)
        /\ info' = info \cup Entry(n) \/ (R = {} /\ UNCHANGED info)
        /\ Disturb({obj[n].id})
        /\ mutex' = [mutex EXCEPT ![n] = Nobody]
        /\ hpc' = [hpc EXCEPT ![x] = "register"]
        /\ UNCHANGED <<subID, objVars, run, requestVars, asked, shown, raced, requests>>

\* Mutant: the mutex is not released.
MergedKeepsMutex(x) ==
    /\ hpc[x] = "merging"
    /\ UnlockServer(x)
    /\ hpc' = [hpc EXCEPT ![x] = "register"]
    /\ UNCHANGED <<subID, objVars, info, mutex, run, requestVars, history, bounds>>

Merged(x) ==
    /\ hpc[x] = "merging"
    /\ UnlockServer(x)
    /\ mutex' = [mutex EXCEPT ![Head(starting[x])] = Nobody]
    /\ hpc' = [hpc EXCEPT ![x] = "register"]
    /\ UNCHANGED <<subID, objVars, info, run, requestVars, history, bounds>>

\* The loop goes on with the next subscriber, or the request is done.
Started(x) ==
    /\ starting' = [starting EXCEPT ![x] = Tail(@)]
    /\ hpc' = [hpc EXCEPT ![x] = IF Tail(starting[x]) = <<>> THEN "recv" ELSE "start"]
    /\ UNCHANGED <<req, pos, tmp>>

\* Register() waits for EventCtrl.mutex.  Nothing else is done for a POLL
\* subscription.
RegisterSub(x) ==
    LET n == Head(starting[x])
    IN  /\ hpc[x] = "register" /\ lock = Nobody
        /\ registered' = registered \cup {n}
        /\ IF obj[n].mode = "POLL"
           THEN Started(x)
           ELSE hpc' = [hpc EXCEPT ![x] = "init"] /\ UNCHANGED requestVars
        /\ UNCHANGED <<subID, objVars, queue, lock, left, info, mutex, run, history, bounds>>

\* Mutant: the snapshot has the paths that events are matched with, not those asked for.
InitFullpath(x) ==
    LET n == Head(starting[x])
    IN  /\ hpc[x] = "init" /\ lock = Nobody
        /\ \/ /\ shown' = [shown EXCEPT ![n] = @ \cup obj[n].fullpath]
              /\ hpc' = [hpc EXCEPT ![x] = "run"]
              /\ UNCHANGED starting
           \/ /\ starting' = [starting EXCEPT ![x] = <<>>]
              /\ hpc' = [hpc EXCEPT ![x] = "wait"]
              /\ UNCHANGED shown
        /\ UNCHANGED <<subID, objVars, eventVars, info, mutex, run, req, pos, tmp, asked, raced,
                       astray, bounds>>

\* initTelemetryUpdate(), under RLock; it fails if a value cannot be converted.
InitTelemetryUpdate(x) ==
    LET n == Head(starting[x])
    IN  /\ hpc[x] = "init" /\ lock = Nobody
        /\ \/ /\ shown' = [shown EXCEPT ![n] = @ \cup obj[n].path]
              /\ hpc' = [hpc EXCEPT ![x] = "run"]
              /\ UNCHANGED starting
           \/ /\ starting' = [starting EXCEPT ![x] = <<>>]
              /\ hpc' = [hpc EXCEPT ![x] = "wait"]
              /\ UNCHANGED shown
        /\ UNCHANGED <<subID, objVars, eventVars, info, mutex, run, req, pos, tmp, asked, raced,
                       astray, bounds>>

Running(n) == run[n] \notin {"none", "done"}

\* run() starts unless it is running.
StartRun(x) ==
    LET n == Head(starting[x])
    IN  /\ hpc[x] = "run"
        /\ run' = [run EXCEPT ![n] = IF Running(n) THEN @ ELSE "select"]
        /\ Started(x)
        /\ UNCHANGED <<subID, objVars, eventVars, info, mutex, history, bounds>>

-----------------------------------------------------------------------------
(* The end of the RPC: Stop().                                              *)

EndOfStream(x) ==
    /\ hpc[x] = "recv"
    /\ hpc' = [hpc EXCEPT ![x] = "wait"]
    /\ UNCHANGED <<subID, objVars, eventVars, info, mutex, run, requestVars, history, bounds>>

Shutdown(x) == hpc[x] \in {"wait", "stop", "delete", "deleting", "done"}

\* waitgroup.Wait() returns.
Joined(x) ==
    /\ hpc[x] = "wait"
    /\ \A n \in Sub[x] : ~ Running(n)
    /\ hpc' = [hpc EXCEPT ![x] = "stop"]
    /\ UNCHANGED <<subID, objVars, eventVars, info, mutex, run, requestVars, history, bounds>>

\* Mutant: Unregister() does not wait for EventCtrl.mutex.
UnregisterAtOnce(x, n) ==
    /\ hpc[x] = "stop" /\ n \in Sub[x]
    /\ registered' = registered \ {n}
    /\ left' = left \ {n}
    /\ starting' = [starting EXCEPT ![x] = <<n>>]
    /\ hpc' = [hpc EXCEPT ![x] = "delete"]
    /\ UNCHANGED <<subID, objVars, queue, lock, info, mutex, run, req, pos, tmp, history, bounds>>

\* The next subscriber in any order; Unregister() waits for EventCtrl.mutex.
UnregisterSub(x, n) ==
    /\ hpc[x] = "stop" /\ n \in Sub[x] /\ lock = Nobody
    /\ registered' = registered \ {n}
    /\ left' = left \ {n}
    /\ starting' = [starting EXCEPT ![x] = <<n>>]
    /\ hpc' = [hpc EXCEPT ![x] = "delete"]
    /\ UNCHANGED <<subID, objVars, queue, lock, info, mutex, run, req, pos, tmp, history, bounds>>

EntryOf(id) == {e \in info : e[1] = id}

\* deleteDynamicSubscriptionInfo() deletes the entry with the ID.
DeleteInfo(x) ==
    LET e == EntryOf(obj[Head(starting[x])].id)
    IN  /\ hpc[x] = "delete" /\ e # {}
        /\ LockAndRaise(x, InfoPath, TRUE)
        /\ info' = info \ e
        /\ hpc' = [hpc EXCEPT ![x] = "deleting"]
        /\ UNCHANGED <<subID, objVars, mutex, run, requestVars, history, bounds>>

\* deleteSubscription() after it, whether it failed or not.
DeleteSubscription(x) ==
    LET n == Head(starting[x])
    IN  /\ obj' = [obj EXCEPT ![n].path = {}]
        /\ Sub' = [Sub EXCEPT ![x] = @ \ {n}]
        /\ starting' = [starting EXCEPT ![x] = <<>>]
        /\ hpc' = [hpc EXCEPT ![x] = "stop"]
        /\ UNCHANGED <<made, mutex, run, req, pos, tmp, asked, shown, raced, requests>>

\* Mutant: the ID is given back.
DeletedReuses(x) ==
    /\ hpc[x] = "deleting"
    /\ UnlockServer(x)
    /\ DeleteSubscription(x)
    /\ subID' = subID - 1
    /\ UNCHANGED <<info, astray, writes>>

Deleted(x) ==
    /\ hpc[x] = "deleting"
    /\ UnlockServer(x)
    /\ DeleteSubscription(x)
    /\ UNCHANGED <<subID, info, astray, writes>>

\* There is no entry: Delete() takes the lock and raises nothing.
NothingToDelete(x) ==
    /\ hpc[x] = "delete" /\ lock = Nobody
    /\ EntryOf(obj[Head(starting[x])].id) = {}
    /\ DeleteSubscription(x)
    /\ UNCHANGED <<subID, eventVars, info, astray, writes>>

\* Delete() fails at SetEvent(): the entry stays.
DeleteFails(x, R) ==
    LET id == obj[Head(starting[x])].id
    IN  /\ hpc[x] = "delete" /\ EntryOf(id) # {}
        /\ RaiseSome(InfoPath, R)
        /\ Disturb({id})
        /\ DeleteSubscription(x)
        /\ UNCHANGED <<subID, info>>

\* Under Lock, the session is taken out of Server.subSession.
Leave(x) ==
    /\ hpc[x] = "stop" /\ Sub[x] = {} /\ lock = Nobody
    /\ hpc' = [hpc EXCEPT ![x] = "done"]
    /\ UNCHANGED <<subID, objVars, eventVars, info, mutex, run, requestVars, history, bounds>>

-----------------------------------------------------------------------------
(* What the program does to the tree.                                       *)

\* A call of Write, Merge or Delete that leaves the entries alone.
Write(w, q) ==
    /\ LockAndRaise(w, q, TRUE)
    /\ Disturb({})
    /\ UNCHANGED <<subID, objVars, info, mutex, run, hpc, requestVars, asked, shown, raced, requests>>

\* Its SetEvent fails.
WriteFails(q, R) ==
    /\ RaiseSome(q, R)
    /\ Disturb({})
    /\ UNCHANGED <<subID, objVars, info, mutex, run, hpc, requestVars, asked, shown, raced, requests>>

Changed(c) == {e \in info : e[1] \notin c.ids} \cup (c.ids \X c.paths)

\* A call that deletes or overwrites entries, with what is above them or without.
WriteInfo(w, c) ==
    /\ LockAndRaise(w, InfoPath, TRUE)
    /\ Disturb(c.ids)
    /\ info' = Changed(c)
    /\ UNCHANGED <<subID, objVars, mutex, run, hpc, requestVars, asked, shown, raced, requests>>

\* A Set or a Load does it, which raise no events, or a call whose SetEvent fails.
ReplaceInfo(c, R) ==
    /\ RaiseSome(InfoPath, R)
    /\ Disturb(c.ids)
    /\ info' = Changed(c)
    /\ UNCHANGED <<subID, objVars, mutex, run, hpc, requestVars, asked, shown, raced, requests>>

WriteDone(w) ==
    /\ UnlockServer(w)
    /\ UNCHANGED <<subID, objVars, info, mutex, run, hpc, requestVars, history, bounds>>

-----------------------------------------------------------------------------
(* run(): what it locks.  Sampler has its timers, Telemetry what it sends.  *)

RunTo(n, state) ==
    /\ run' = [run EXCEPT ![n] = state]
    /\ UNCHANGED <<subID, objVars, registered, left, info, hpc, requestVars, history, requests>>

RunShutdown(n) ==
    /\ run[n] = "select" /\ Shutdown(obj[n].sess)
    /\ RunTo(n, "done")
    /\ UNCHANGED <<queue, lock, mutex, writes>>

RunReceive(n) ==
    /\ run[n] = "select" /\ queue[n] > 0
    /\ queue' = [queue EXCEPT ![n] = @ - 1]
    /\ RunTo(n, "event")
    /\ UNCHANGED <<lock, mutex, writes>>

\* An update is due: the sampling or the heartbeat timer has put it in expired.
RunExpired(n) ==
    /\ run[n] = "select"
    /\ LET c == StreamConfig(obj[n].mode, obj[n].item) IN c.sample > 0 \/ c.heartbeat > 0
    /\ RunTo(n, "due")
    /\ UNCHANGED <<queue, lock, mutex, writes>>

\* A tick of the sampling timer: SyncRequest() for the subscriber.
RunSampling(n) ==
    /\ run[n] = "select" /\ StreamConfig(obj[n].mode, obj[n].item).sample > 0
    /\ RunTo(n, "sample")
    /\ UNCHANGED <<queue, lock, mutex, writes>>

\* Both take the mutex of the subscriber.
RunLock(n) ==
    /\ mutex[n] = Nobody
    /\ mutex' = [mutex EXCEPT ![n] = n]
    /\ \/ run[n] = "due" /\ RunTo(n, "update")
       \/ run[n] = "sample" /\ RunTo(n, "sync")
    /\ UNCHANGED <<queue, lock, writes>>

\* telemetryUpdate(), under RLock: run() goes on, or ends if it fails.  The
\* mutex is held unless it is for an event.
RunUpdate(n, next) ==
    /\ run[n] \in {"event", "update"} /\ lock = Nobody
    /\ mutex' = [mutex EXCEPT ![n] = IF run[n] = "update" THEN Nobody ELSE @]
    /\ RunTo(n, next)
    /\ UNCHANGED <<queue, lock, writes>>

\* SyncCallback writes, if the interval of a path is over ...
RunSync(n, q) ==
    /\ run[n] = "sync"
    /\ LockAndRaise(n, q, TRUE)
    /\ Disturb({})
    /\ run' = [run EXCEPT ![n] = "syncing"]
    /\ UNCHANGED <<subID, objVars, info, mutex, hpc, requestVars, asked, shown, raced, requests>>

\* ... and the mutex is released.
RunSynced(n) ==
    /\ \/ run[n] = "sync" /\ UNCHANGED lock
       \/ run[n] = "syncing" /\ lock = n /\ left = {} /\ lock' = Nobody
    /\ mutex' = [mutex EXCEPT ![n] = Nobody]
    /\ RunTo(n, "select")
    /\ UNCHANGED <<queue, writes>>

-----------------------------------------------------------------------------
HandlerStep(x) ==
    \/ \E n \in Objs : AddPath(x, n)
    \/ ReadID(x)
    \/ WriteID(x)
    \/ \E id \in {tmp[x] + 1, subID} : Create(x, id)
    \/ Refuse(x)
    \/ LockMutex(x)
    \/ MergeInfo(x)
    \/ Merged(x)
    \/ RegisterSub(x)
    \/ InitTelemetryUpdate(x)
    \/ StartRun(x)
    \/ Joined(x)
    \/ \E n \in Objs : UnregisterSub(x, n)
    \/ DeleteInfo(x)
    \/ Deleted(x)
    \/ NothingToDelete(x)
    \/ Leave(x)

Failure(x) ==
    \/ AddFails(x)
    \/ \E R \in SUBSET registered : MergeFails(x, R) \/ DeleteFails(x, R)

SessionStep(x) ==
    \/ \E r \in Requests[x] : Receive(x, r)
    \/ EndOfStream(x)
    \/ HandlerStep(x)
    \/ Failure(x)

RunStep(n) ==
    \/ RunShutdown(n)
    \/ RunReceive(n)
    \/ RunExpired(n)
    \/ RunSampling(n)
    \/ RunLock(n)
    \/ \E q \in Paths : RunSync(n, q)
    \/ RunSynced(n)
    \/ \E next \in {"select", "done"} : RunUpdate(n, next)

Next ==
    \/ \E x \in Sess : SessionStep(x)
    \/ \E n \in Objs : RunStep(n)
    \/ \E w \in Writers : \/ WriteDone(w)
                           \/ \E q \in Paths : Write(w, q)
                           \/ \E c \in InfoChanges : WriteInfo(w, c)
    \/ \E R \in SUBSET registered : \/ \E q \in Paths : WriteFails(q, R)
                                    \/ \E c \in InfoChanges : ReplaceInfo(c, R)
    \/ \E n \in Objs : EventComplete(n)

Spec == Init /\ [][Next]_vars

-----------------------------------------------------------------------------
(* The properties.                                                          *)

States == {"recv", "add", "count", "make", "start", "merge", "merging", "register", "init",
           "run", "wait", "stop", "delete", "deleting", "done"}

\* All variables keep their types; in particular no channel holds more events
\* than its capacity.
TypeOK ==
    /\ subID \in Nat /\ made \in 0 .. MaxSubs
    /\ obj \in [Objs -> Subscribers]
    /\ Sub \in [Sess -> SUBSET Objs]
    /\ registered \subseteq Objs /\ left \subseteq Objs
    /\ queue \in [Objs -> 0 .. OnchangeCap]
    /\ lock \in Sess \cup Writers \cup Objs \cup {Nobody}
    /\ info \subseteq Nat \X Paths
    /\ mutex \in [Objs -> Sess \cup Objs \cup {Nobody}]
    /\ run \in [Objs -> {"none", "select", "event", "due", "update", "sample", "sync", "syncing",
                         "done"}]
    /\ hpc \in [Sess -> States]
    /\ req \in [Sess -> Lists]
    /\ pos \in [Sess -> Nat] /\ tmp \in [Sess -> Nat]
    /\ starting \in [Sess -> Seq(Objs)]
    /\ asked \subseteq Sess \X {"STREAM", "POLL"} \X Nat \X Items
    /\ shown \in [Objs -> SUBSET Paths] /\ raced \in BOOLEAN /\ astray \subseteq Nat
    /\ requests \in [Sess -> Nat] /\ writes \in Nat

\* The subscriber has the path, in the mode and with the intervals that are asked for.
Serves(n, a) ==
    /\ a[4].path \in obj[n].path
    /\ obj[n].mode = a[2] /\ obj[n].list = a[3]
    /\ StreamConfig(obj[n].mode, obj[n].item) = StreamConfig(a[2], a[4])

\* What a client asked for and was not refused is served by a subscriber of the
\* session, whatever subscription that subscriber was made for.
ServedAsAsked ==
    \A a \in asked : hpc[a[1]] = "recv" => \E n \in Sub[a[1]] : Serves(n, a)

\* It is registered and, in STREAM mode, all its paths were sent and a run() began.
Complete(n) ==
    /\ n \in registered
    /\ obj[n].mode = "STREAM" => obj[n].path \subseteq shown[n] /\ run[n] # "none"

\* When a request is done, all subscribers of the session are set up.
RequestComplete ==
    \A x \in Sess : hpc[x] = "recv" => \A n \in Sub[x] : Complete(n)

Made      == 1 .. made
Alone(n)  == \A k \in Made : obj[k].id = obj[n].id => k = n
Listed(n) == {q \in Paths : <<obj[n].id, q>> \in info}

\* The entry is its own, was always merged and deleted as it should, and the
\* program did not touch it.
Own(n) == Alone(n) /\ obj[n].id \notin astray

\* Between requests the entry of a subscriber in the tree lists the paths it
\* has; after the end of the RPC it is gone.  Not so for an ID of several, after
\* an error of addDynamicSubscription() or deleteDynamicSubscriptionInfo(), which
\* their callers ignore, and for entries that the program overwrites or deletes,
\* as a Set or a Load of the root does.
EntryUnlessShared ==
    \A n \in Made : Own(n) =>
        /\ hpc[obj[n].sess] = "recv" => Listed(n) = obj[n].path
        /\ hpc[obj[n].sess] = "done" => Listed(n) = {}

\* Subscribers have different IDs as long as no two handlers deal with the
\* counter at once.
IdsUniqueUnlessRaced ==
    ~ raced => \A n \in Made : Alone(n)

\* Not kept: event.go:48 "EventPath must return the paths on which the events become raised."
EventPathComplete ==
    \A x \in Sess : hpc[x] = "recv" => \A n \in Sub[x] :
        obj[n].item.submode = "ON_CHANGE" => obj[n].path \subseteq obj[n].fullpath

Elements(s) == {s[i] : i \in DOMAIN s}

\* run() does not come to its queue: it waits for RLock, or for the mutex that a
\* handler holds to merge the entry; or there is none and no handler is about to
\* start it.  It has ended, or it never was: for a POLL subscription, before the
\* handler gets to it, after the end of the RPC.
AwayFromQueue(n) ==
    \/ run[n] \in {"event", "update"}
    \/ run[n] = "due" /\ \E x \in Sess : mutex[n] = x /\ hpc[x] \in {"merge", "merging"}
    \/ /\ ~ Running(n) /\ hpc[obj[n].sess] # "run"
       /\ \/ run[n] = "done"
          \/ obj[n].mode = "POLL"
          \/ n \in Elements(starting[obj[n].sess])
          \/ Shutdown(obj[n].sess)

\* A change of the tree waits in EventComplete with the tree locked: everybody it
\* has still to tell takes events, has a full channel, and does not come to it.
Jammed ==
    /\ left # {} /\ lock # Nobody
    /\ \A n \in left : /\ obj[n].item.submode = "ON_CHANGE" /\ queue[n] >= OnchangeCap
                       /\ AwayFromQueue(n)

\* What goes on without a client, a timer or the program beginning something.
Internal ==
    \/ \E x \in Sess : HandlerStep(x)
    \/ \E w \in Writers : WriteDone(w)
    \/ \E n \in Objs : EventComplete(n) \/ RunShutdown(n) \/ RunReceive(n) \/ RunLock(n)
                       \/ RunSynced(n)
                       \/ \E next \in {"select", "done"} : RunUpdate(n, next)

\* Everybody has finished: the handlers wait for their clients, every run() for
\* its timers, and nothing is locked or queued for a run().
Quiet ==
    /\ lock = Nobody
    /\ \A x \in Sess : hpc[x] \in {"recv", "done"}
    /\ \A n \in Objs : mutex[n] = Nobody /\ (Running(n) => run[n] = "select" /\ queue[n] = 0)

\* Server.Lock(), the mutexes of the subscribers and onchange never bring handlers,
\* run() goroutines and writers to a standstill with something unfinished, but for
\* a full onchange.
StandstillOnlyJammed == ~ ENABLED Internal => Quiet \/ Jammed

\* A jam is never undone, whatever clients, timers and the program do: the tree stays
\* locked by the same goroutine, which goes on waiting for the same receivers.
\* (subscribe.go:226, and the waits of Server.Lock() and RLock())
JamsForGood == [][Jammed => Jammed' /\ UNCHANGED <<lock, left>>]_vars

-----------------------------------------------------------------------------
(* The inductive invariant.                                                 *)

Counting == {"count", "make"}
Adding   == {"add"} \cup Counting
AtHead   == {"start", "merge", "merging", "register", "init", "run", "delete", "deleting"}
Stopping == {"wait", "stop", "delete", "deleting", "done"}

\* The request, the subscription and startingList fit the place of the handler.
HandlerOK(x) ==
    /\ hpc[x] \in Adding => req[x] \in Requests[x] /\ pos[x] \in DOMAIN req[x].items
    /\ hpc[x] \in AtHead => starting[x] # <<>>
    /\ hpc[x] = "recv" => starting[x] = <<>>
    /\ hpc[x] \in {"delete", "deleting"} => Len(starting[x]) = 1
    /\ Elements(starting[x]) \subseteq Sub[x]
    /\ hpc[x] = "done" => Sub[x] = {}

\* Subscribers belong to one session, and a live one to its SubSession.Sub.
MembersOK ==
    /\ \A n \in Made : obj[n].sess \in Sess
    /\ \A x \in Sess : \A n \in Sub[x] : n \in Made /\ obj[n].sess = x
    /\ \A n \in Made : n \in Sub[obj[n].sess] \/ (hpc[obj[n].sess] \in Stopping /\ obj[n].path = {})

\* One handler at most is between its reads of subID, and nobody has an ID above it.
CounterOK ==
    ~ raced =>
        /\ \A x, y \in Sess : hpc[x] \in Counting /\ hpc[y] \in Counting => x = y
        /\ \A x \in Sess : hpc[x] = "count" => tmp[x] = subID
        /\ \A x \in Sess : hpc[x] = "make" => subID = tmp[x] + 1
                                              /\ \A n \in Made : obj[n].id <= tmp[x]
        /\ \A n \in Made : obj[n].id <= subID
        /\ \A n \in Made : Alone(n)

\* What is asked is served, and who is not in startingList is set up.
ServiceOK(x) ==
    /\ hpc[x] \notin Stopping =>
         /\ \A a \in asked : a[1] = x => \E n \in Sub[x] : Serves(n, a)
         /\ \A n \in Sub[x] : n \in Elements(starting[x]) \/ Complete(n)
    /\ hpc[x] \in {"init", "run"} => Head(starting[x]) \in registered
    /\ hpc[x] = "run" => LET n == Head(starting[x]) IN obj[n].path \subseteq shown[n]

\* The entry of a subscriber lists no path that it does not have, and all it has
\* from its merge until its deletion.
EntriesOK ==
    /\ \A e \in info : e[1] \in astray \/ \E n \in Made : obj[n].id = e[1]
    /\ \A n \in Made : Own(n) =>
         /\ Listed(n) \subseteq obj[n].path
         /\ hpc[obj[n].sess] \notin Stopping =>
              n \in Elements(starting[obj[n].sess]) \/ Listed(n) = obj[n].path
    /\ \A x \in Sess :
         /\ hpc[x] \in {"merging", "register", "init", "run"} /\ Own(Head(starting[x])) =>
              Listed(Head(starting[x])) = obj[Head(starting[x])].path
         /\ hpc[x] = "deleting" /\ Own(Head(starting[x])) => Listed(Head(starting[x])) = {}

\* Server.Lock() is held by whoever merges, deletes or synchronizes.
LockOK ==
    /\ \A x \in Sess : hpc[x] \in {"merging", "deleting"} <=> lock = x
    /\ \A n \in Objs : run[n] = "syncing" <=> lock = n

\* The mutex of a subscriber is held by the handler that merges its entry, by its own
\* run() while it samples or synchronizes, or by nobody.
MutexOK ==
    /\ \A x \in Sess : hpc[x] \in {"merge", "merging"} => mutex[Head(starting[x])] = x
    /\ \A n \in Objs : run[n] \in {"update", "sync", "syncing"} => mutex[n] = n
    /\ \A n \in Objs :
         \/ mutex[n] = Nobody
         \/ mutex[n] = n /\ run[n] \in {"update", "sync", "syncing"}
         \/ \E x \in Sess : mutex[n] = x /\ hpc[x] \in {"merge", "merging"} /\ Head(starting[x]) = n

\* Only a registered subscriber is told of a change, and only a subscriber that was
\* made is registered or has a run(); the run() of an ON_CHANGE one samples nothing.
RunsOK ==
    /\ left \subseteq registered /\ registered \subseteq Made
    /\ \A n \in Objs : run[n] # "none" => n \in Made
    /\ \A n \in Objs : run[n] \in {"sample", "sync", "syncing"} =>
                         obj[n].item.submode # "ON_CHANGE"

IInv ==
    /\ TypeOK
    /\ \A x \in Sess : HandlerOK(x) /\ ServiceOK(x)
    /\ MembersOK
    /\ CounterOK
    /\ EntriesOK
    /\ LockOK
    /\ MutexOK
    /\ RunsOK
=============================================================================
