----------------------------- MODULE Telemetry -----------------------------
(***************************************************************************)
(* The Subscribe RPC with STREAM subscriptions in ON_CHANGE mode: the      *)
(* handler of each session, the goroutine run() of each subscriber, the    *)
(* goroutine that answers the client, Stop(), and the program's own calls  *)
(* of Write, Merge, Delete and Load, and the Set RPC.                      *)
(*                                                                         *)
(* src/server/subscribe.go  startSubSession, processSubscribeRequest,      *)
(*                          initTelemetryUpdate, run, telemetryUpdate,     *)
(*                          deleteSubscription, Stop                       *)
(* src/server/server.go     Subscribe, subscribe                           *)
(* src/server/internal.go   addDynamicSubscription and its inverse         *)
(*                                                                         *)
(* What is sent to the client is followed into its own copy of the data    *)
(* (view), so that the properties can say what the client knows.           *)
(***************************************************************************)
EXTENDS EventCtrl

CONSTANTS
    Writers,        \* goroutines of the program that change the tree
    Sess,           \* the Subscribe RPCs
    SessOf,         \* SessOf[s]: the session of subscriber s
    UpdatesOnly,    \* the subscribers whose request says updates_only
    InfoPath,       \* InfoPath[s]: the entry of s under dynamic-subscriptions
    InfoVal,        \* the value of that entry
    Batches,        \* the sets of paths that one call of a writer touches
    RespCap,        \* the capacity of respchan (32 in the code)
    MaxSubSession,  \* Server.maxSubSession
    SetChanges,     \* what a Load, or a Set RPC that stays, may change
    MaxWrites       \* bound: calls of Write, Merge, Delete, Set and Load

ASSUME TelemetryAssumption ==
    /\ Procs = Writers \cup Sess
    /\ Writers \cap Sess = {} /\ Subs \cap Sess = {}
    /\ SessOf \in [Subs -> Sess]
    /\ UpdatesOnly \subseteq Subs
    /\ InfoPath \in [Subs -> Paths]
    /\ \A s, t \in Subs : InfoPath[s] = InfoPath[t] => s = t
    /\ InfoVal \in Vals
    /\ Batches \subseteq SUBSET Paths
    /\ RespCap \in Nat \ {0}
    /\ MaxSubSession \in Nat
    /\ SetChanges \subseteq Events
    /\ MaxWrites \in Nat

VARIABLES
    subSession,   \* Server.subSession
    hpc,          \* hpc[x]: where the handler of session x stands
    hlist,        \* startingList, the part the handler has not come to
    hcur,         \* the subscriber the handler deals with
    hout,         \* the responses it has still to send
    sub,          \* sub[s]: "none", "live" (in SubSession.Sub) or "deleted"
    runpc,        \* runpc[s]: where run() of s stands
    runev,        \* the event it took from onchange
    respchan,     \* respchan[x]: the responses on their way to the client
    rpc,          \* rpc[x]: where the responder stands
    rmsg,         \* the response it took from respchan
    view,         \* view[s]: what the client of s was told of the leaves
    writes        \* the writers' calls so far

handlerVars   == <<subSession, hpc, hlist, hcur, hout, sub>>
runVars       == <<runpc, runev>>
responderVars == <<rpc, rmsg, view>>
telemetryVars == <<handlerVars, runVars, respchan, responderVars, writes>>
vars          == <<eventVars, telemetryVars>>

-----------------------------------------------------------------------------
Messages == [to : Subs, chg : Events]
NoMessage == [to |-> Nobody, chg |-> NoEvent]
Response(s, chg) == [to |-> s, chg |-> chg]
SyncResponse(s) == Response(s, NoEvent)

SubsOf(x) == {s \in Subs : SessOf[s] = x}
Streaming(s) == runpc[s] \in {"select", "rlock", "send"}

\* SubSession.shutdown is closed: the handler is in Stop() or past it.
Stopping == {"wait", "unregister", "delinfo", "delsub", "leave", "done"}
\* Mutant: Stop() closes shutdown only after waitgroup.Wait().
ShutdownAfterWait(x) == hpc[x] \in Stopping \ {"wait"}

Shutdown(x) == hpc[x] \in Stopping

\* Mutant: the whole tree.
SnapshotWhole(s) == [q \in Paths |-> IF root[q] # Absent THEN root[q] ELSE Same]

\* What Find() returns for the paths of s: the leaves that are in the tree.
Snapshot(s) ==
    [q \in Paths |-> IF q \in Watch[s] /\ root[q] # Absent THEN root[q] ELSE Same]

-----------------------------------------------------------------------------
Init ==
    /\ EventCtrlInit
    /\ subSession = {}
    /\ hpc = [x \in Sess |-> "new"]
    /\ hlist = [x \in Sess |-> {}]
    /\ hcur = [x \in Sess |-> Nobody]
    /\ hout = [x \in Sess |-> <<>>]
    /\ sub = [s \in Subs |-> "none"]
    /\ runpc = [s \in Subs |-> "none"]
    /\ runev = [s \in Subs |-> NoEvent]
    /\ respchan = [x \in Sess |-> <<>>]
    /\ rpc = [x \in Sess |-> "none"]
    /\ rmsg = [x \in Sess |-> NoMessage]
    /\ view = [s \in Subs |-> [q \in Paths |-> Absent]]
    /\ writes = 0

-----------------------------------------------------------------------------
(* The handler: Subscribe(), processSubscribeRequest(), Stop().             *)

\* startSubSession(), under Lock, and the start of the responder.
StartSubSession(x) ==
    /\ hpc[x] = "new"
    /\ wlock = Nobody /\ readers = {}
    /\ IF Cardinality(subSession) > MaxSubSession
       THEN /\ hpc' = [hpc EXCEPT ![x] = "done"]
            /\ UNCHANGED <<subSession, rpc>>
       ELSE /\ hpc' = [hpc EXCEPT ![x] = "recv"]
            /\ subSession' = subSession \cup {x}
            /\ rpc' = [rpc EXCEPT ![x] = "select"]
    /\ UNCHANGED <<eventVars, hlist, hcur, hout, sub, runVars, respchan,
                   rmsg, view, writes>>

AddSubscriptions(S) ==
    sub' = [s \in Subs |-> IF s \in S THEN "live" ELSE sub[s]]

\* A request whose subscriptions are all accepted by addSubscription().
ProcessSubscribe(x, S) ==
    /\ hpc[x] = "recv" /\ S \subseteq SubsOf(x) /\ S # {}
    /\ AddSubscriptions(S)
    /\ hlist' = [hlist EXCEPT ![x] = S]
    /\ hpc' = [hpc EXCEPT ![x] = "dynamic"]
    /\ UNCHANGED <<eventVars, subSession, hcur, hout, runVars, respchan,
                   responderVars, writes>>

\* The stream ends, or a request is refused: those of its subscriptions that
\* precede the refused one are in SubSession.Sub.  close(shutdown) follows.
EndOfStream(x, S) ==
    /\ hpc[x] = "recv" /\ S \subseteq SubsOf(x)
    /\ AddSubscriptions(S)
    /\ hpc' = [hpc EXCEPT ![x] = "wait"]
    /\ UNCHANGED <<eventVars, subSession, hlist, hcur, hout, runVars,
                   respchan, responderVars, writes>>

\* addDynamicSubscription() begins its Merge, or fails before it: the handler goes on
\* and the subscriber has no entry.
AddEntry(x, s) ==
    \/ Begin(x, {Assign(InfoPath[s], InfoVal)})
    \/ Faults /\ UNCHANGED eventVars

\* Mutant: the loop over startingList does not advance its subscriber.
AddDynamicStays(x, s) ==
    /\ hpc[x] = "dynamic" /\ wpc[x] = "out" /\ s \in hlist[x]
    /\ AddEntry(x, s)
    /\ hlist' = [hlist EXCEPT ![x] = @ \ {s}]
    /\ hpc' = [hpc EXCEPT ![x] = "register"]
    /\ UNCHANGED <<subSession, hcur, hout, sub, runVars, respchan, responderVars,
                   writes>>

\* The next of the starting list.
AddDynamic(x, s) ==
    /\ hpc[x] = "dynamic" /\ wpc[x] = "out" /\ s \in hlist[x]
    /\ AddEntry(x, s)
    /\ hlist' = [hlist EXCEPT ![x] = @ \ {s}]
    /\ hcur' = [hcur EXCEPT ![x] = s]
    /\ hpc' = [hpc EXCEPT ![x] = "register"]
    /\ UNCHANGED <<subSession, hout, sub, runVars, respchan, responderVars,
                   writes>>

RegisterSub(x) ==
    /\ hpc[x] = "register" /\ wpc[x] = "out"
    /\ Register(hcur[x])
    /\ hpc' = [hpc EXCEPT ![x] = "sync"]
    /\ UNCHANGED <<subSession, hlist, hcur, hout, sub, runVars, respchan,
                   responderVars, writes>>

\* SyncRequest() calls the program's sync callback, which writes what it finds.
SyncCallback(x, changes) ==
    /\ hpc[x] = "sync"
    /\ writes < MaxWrites
    /\ Begin(x, changes)
    /\ writes' = writes + 1
    /\ UNCHANGED <<handlerVars, runVars, respchan, responderVars>>

\* initTelemetryUpdate() up to its first Send().
InitTelemetryUpdate(x) ==
    LET s == hcur[x]
    IN  /\ hpc[x] = "sync" /\ wpc[x] = "out"
        /\ IF s \in UpdatesOnly
           THEN /\ hout' = [hout EXCEPT ![x] = <<SyncResponse(s)>>]
                /\ UNCHANGED eventVars
           ELSE /\ RLock(x)
                /\ hout' = [hout EXCEPT ![x] =
                              IF Snapshot(s) = NoEvent
                              THEN <<SyncResponse(s)>>
                              ELSE <<Response(s, Snapshot(s)), SyncResponse(s)>>]
        /\ hpc' = [hpc EXCEPT ![x] = "init"]
        /\ UNCHANGED <<subSession, hlist, hcur, sub, runVars, respchan,
                       responderVars, writes>>

\* respchan.Send() blocks while the channel is full.
InitSend(x) ==
    /\ hpc[x] = "init" /\ hout[x] # <<>>
    /\ Len(respchan[x]) < RespCap
    /\ respchan' = [respchan EXCEPT ![x] = Append(@, Head(hout[x]))]
    /\ hout' = [hout EXCEPT ![x] = Tail(@)]
    /\ UNCHANGED <<eventVars, subSession, hpc, hlist, hcur, sub, runVars,
                   responderVars, writes>>

\* Mutant: run() does not start after an updates_only request.
StartNoUpdatesOnly(x) ==
    /\ hpc[x] = "init" /\ hout[x] = <<>>
    /\ RUnlock(x)
    /\ runpc' = [runpc EXCEPT ![hcur[x]] =
                   IF Streaming(hcur[x]) \/ hcur[x] \in UpdatesOnly THEN @ ELSE "select"]
    /\ hcur' = [hcur EXCEPT ![x] = Nobody]
    /\ hpc' = [hpc EXCEPT ![x] = IF hlist[x] = {} THEN "recv" ELSE "dynamic"]
    /\ UNCHANGED <<subSession, hlist, hout, sub, runev, respchan,
                   responderVars, writes>>

\* RUnlock, then run() starts unless it runs already.
StartRun(x) ==
    /\ hpc[x] = "init" /\ hout[x] = <<>>
    /\ RUnlock(x)
    /\ runpc' = [runpc EXCEPT ![hcur[x]] = IF Streaming(hcur[x]) THEN @ ELSE "select"]
    /\ hcur' = [hcur EXCEPT ![x] = Nobody]
    /\ hpc' = [hpc EXCEPT ![x] = IF hlist[x] = {} THEN "recv" ELSE "dynamic"]
    /\ UNCHANGED <<subSession, hlist, hout, sub, runev, respchan,
                   responderVars, writes>>

\* A conversion of getUpdates() fails: the RPC ends and Stop() begins.
InitFails(x) ==
    /\ Faults
    /\ hpc[x] = "init" /\ hcur[x] \notin UpdatesOnly /\ Len(hout[x]) = 2
    /\ RUnlock(x)
    /\ hout' = [hout EXCEPT ![x] = <<>>]
    /\ hcur' = [hcur EXCEPT ![x] = Nobody]
    /\ hpc' = [hpc EXCEPT ![x] = "wait"]
    /\ UNCHANGED <<subSession, hlist, sub, runVars, respchan, responderVars,
                   writes>>

\* Mutant: the waitgroup counts the responder only.
JoinedEarly(x) ==
    /\ hpc[x] = "wait"
    /\ rpc[x] = "done"
    /\ hpc' = [hpc EXCEPT ![x] = "unregister"]
    /\ UNCHANGED <<eventVars, subSession, hlist, hcur, hout, sub, runVars,
                   respchan, responderVars, writes>>

\* Stop(): waitgroup.Wait() returns.
Joined(x) ==
    /\ hpc[x] = "wait"
    /\ rpc[x] = "done"
    /\ \A s \in SubsOf(x) : ~ Streaming(s)
    /\ hpc' = [hpc EXCEPT ![x] = "unregister"]
    /\ UNCHANGED <<eventVars, subSession, hlist, hcur, hout, sub, runVars,
                   respchan, responderVars, writes>>

\* Mutant: Stop() does not unregister the subscriber.
UnregisterSkipped(x, s) ==
    /\ hpc[x] = "unregister" /\ s \in SubsOf(x) /\ sub[s] = "live"
    /\ hcur' = [hcur EXCEPT ![x] = s]
    /\ hpc' = [hpc EXCEPT ![x] = "delinfo"]
    /\ UNCHANGED <<eventVars, subSession, hlist, hout, sub, runVars, respchan,
                   responderVars, writes>>

UnregisterSub(x, s) ==
    /\ hpc[x] = "unregister" /\ s \in SubsOf(x) /\ sub[s] = "live"
    /\ Unregister(s)
    /\ hcur' = [hcur EXCEPT ![x] = s]
    /\ hpc' = [hpc EXCEPT ![x] = "delinfo"]
    /\ UNCHANGED <<subSession, hlist, hout, sub, runVars, respchan,
                   responderVars, writes>>

\* deleteDynamicSubscriptionInfo() begins its Delete.
DeleteDynamic(x) ==
    /\ hpc[x] = "delinfo"
    /\ Begin(x, {Assign(InfoPath[hcur[x]], Absent)})
    /\ hpc' = [hpc EXCEPT ![x] = "delsub"]
    /\ UNCHANGED <<subSession, hlist, hcur, hout, sub, runVars, respchan,
                   responderVars, writes>>

\* deleteSubscription() closes onchange and forgets the session.
DeleteSubscription(x) ==
    /\ hpc[x] = "delsub" /\ wpc[x] = "out"
    /\ sub' = [sub EXCEPT ![hcur[x]] = "deleted"]
    /\ onchange' = [onchange EXCEPT ![hcur[x]] = <<>>]
    /\ hcur' = [hcur EXCEPT ![x] = Nobody]
    /\ hpc' = [hpc EXCEPT ![x] = "unregister"]
    /\ UNCHANGED <<treeVars, lockVars, ec, receivers, ready, pending, writerVars,
                   subSession, hlist, hout, runVars, respchan, responderVars,
                   writes>>

\* respchan is closed; the map of the aliases is the business of Aliases.
CloseResponses(x) ==
    /\ hpc[x] = "unregister" /\ \A s \in SubsOf(x) : sub[s] # "live"
    /\ respchan' = [respchan EXCEPT ![x] = <<>>]
    /\ hpc' = [hpc EXCEPT ![x] = "leave"]
    /\ UNCHANGED <<eventVars, subSession, hlist, hcur, hout, sub, runVars,
                   responderVars, writes>>

\* Mutant: the session is not taken out of the map.
LeaveForgets(x) ==
    /\ hpc[x] = "leave"
    /\ wlock = Nobody /\ readers = {}
    /\ hpc' = [hpc EXCEPT ![x] = "done"]
    /\ UNCHANGED <<eventVars, subSession, hlist, hcur, hout, sub, runVars, respchan,
                   responderVars, writes>>

\* Under Lock, the session is taken out of Server.subSession.
LeaveSubSession(x) ==
    /\ hpc[x] = "leave"
    /\ wlock = Nobody /\ readers = {}
    /\ subSession' = subSession \ {x}
    /\ hpc' = [hpc EXCEPT ![x] = "done"]
    /\ UNCHANGED <<eventVars, hlist, hcur, hout, sub, runVars, respchan,
                   responderVars, writes>>

-----------------------------------------------------------------------------
(* run(): its select, and telemetryUpdate() for an event of onchange.       *)

RunShutdown(s) ==
    /\ runpc[s] = "select" /\ Shutdown(SessOf[s])
    /\ runpc' = [runpc EXCEPT ![s] = "done"]
    /\ UNCHANGED <<eventVars, handlerVars, runev, respchan, responderVars, writes>>

RunReceive(s) ==
    /\ runpc[s] = "select" /\ onchange[s] # <<>>
    /\ runev' = [runev EXCEPT ![s] = Head(onchange[s])]
    /\ onchange' = [onchange EXCEPT ![s] = Tail(@)]
    /\ runpc' = [runpc EXCEPT ![s] = "rlock"]
    /\ UNCHANGED <<treeVars, lockVars, ec, receivers, ready, pending, writerVars,
                   handlerVars, respchan, responderVars, writes>>

\* Mutant: run() drops its event when the tree is locked.
RunTryRLock(s) ==
    /\ runpc[s] = "rlock"
    /\ IF wlock = Nobody
       THEN /\ RLock(s)
            /\ runpc' = [runpc EXCEPT ![s] = "send"]
            /\ UNCHANGED runev
       ELSE /\ runpc' = [runpc EXCEPT ![s] = "select"]
            /\ runev' = [runev EXCEPT ![s] = NoEvent]
            /\ UNCHANGED eventVars
    /\ UNCHANGED <<handlerVars, respchan, responderVars, writes>>

RunRLock(s) ==
    /\ runpc[s] = "rlock"
    /\ RLock(s)
    /\ runpc' = [runpc EXCEPT ![s] = "send"]
    /\ UNCHANGED <<handlerVars, runev, respchan, responderVars, writes>>

RunSend(s) ==
    LET x == SessOf[s]
    IN  /\ runpc[s] = "send"
        /\ Len(respchan[x]) < RespCap
        /\ respchan' = [respchan EXCEPT ![x] = Append(@, Response(s, runev[s]))]
        /\ RUnlock(s)
        /\ runev' = [runev EXCEPT ![s] = NoEvent]
        /\ runpc' = [runpc EXCEPT ![s] = "select"]
        /\ UNCHANGED <<handlerVars, responderVars, writes>>

\* Mutant: run() goes on after the failure.
RunFailsGoesOn(s) ==
    /\ Faults
    /\ runpc[s] = "send"
    /\ readers' = readers \ {s}
    /\ silent' = silent \cup Mentioned(runev[s])
    /\ UNCHANGED <<root, wlock, ec, receivers, queueVars, writerVars>>
    /\ runev' = [runev EXCEPT ![s] = NoEvent]
    /\ runpc' = [runpc EXCEPT ![s] = "select"]
    /\ UNCHANGED <<handlerVars, respchan, responderVars, writes>>

\* A conversion of getDeletes() or getUpdates() fails: run() returns, and its
\* event is gone.
RunFails(s) ==
    /\ Faults
    /\ runpc[s] = "send"
    /\ readers' = readers \ {s}
    /\ silent' = silent \cup Mentioned(runev[s])
    /\ UNCHANGED <<root, wlock, ec, receivers, queueVars, writerVars>>
    /\ runev' = [runev EXCEPT ![s] = NoEvent]
    /\ runpc' = [runpc EXCEPT ![s] = "done"]
    /\ UNCHANGED <<handlerVars, respchan, responderVars, writes>>

-----------------------------------------------------------------------------
(* The responder: the goroutine Subscribe() starts.                         *)

RespondTake(x) ==
    /\ rpc[x] = "select" /\ respchan[x] # <<>>
    /\ rmsg' = [rmsg EXCEPT ![x] = Head(respchan[x])]
    /\ respchan' = [respchan EXCEPT ![x] = Tail(@)]
    /\ rpc' = [rpc EXCEPT ![x] = "send"]
    /\ UNCHANGED <<eventVars, handlerVars, runVars, view, writes>>

\* stream.Send() returns: the client has the response.
RespondSend(x) ==
    LET m == rmsg[x]
    IN  /\ rpc[x] = "send"
        /\ view' = [view EXCEPT ![m.to] = Overlay(@, m.chg)]
        /\ rmsg' = [rmsg EXCEPT ![x] = NoMessage]
        /\ rpc' = [rpc EXCEPT ![x] = "select"]
        /\ UNCHANGED <<eventVars, handlerVars, runVars, respchan, writes>>

RespondShutdown(x) ==
    /\ rpc[x] = "select" /\ Shutdown(x)
    /\ rpc' = [rpc EXCEPT ![x] = "done"]
    /\ UNCHANGED <<eventVars, handlerVars, runVars, respchan, rmsg, view, writes>>

-----------------------------------------------------------------------------
(* The program's own changes of the tree.                                   *)

Merges == {[q \in Paths |-> IF q \in Q THEN f[q] ELSE Same] :
             f \in [Paths -> Vals], Q \in Batches}
WriteJobs  == {{m} : m \in Merges}
DeleteJobs == {{Assign(q, Absent) : q \in Q} : Q \in Batches}

Write(p, changes) ==
    /\ writes < MaxWrites
    /\ Begin(p, changes)
    /\ writes' = writes + 1
    /\ UNCHANGED <<handlerVars, runVars, respchan, responderVars>>

\* A Load, or a Set RPC whose data stays (SetUpdatedByServer): leaves are set, removed
\* and replaced, the entries of the subscribers among them.  All is done under Lock,
\* and nothing calls SetEvent.
SetRPC(m) ==
    /\ writes < MaxWrites
    /\ wlock = Nobody /\ readers = {}
    /\ root' = Overlay(root, m)
    /\ silent' = silent \cup Mentioned(Effective(m))
    /\ writes' = writes + 1
    /\ UNCHANGED <<lockVars, ec, receivers, queueVars, writerVars,
                   handlerVars, runVars, respchan, responderVars>>

CallStep(p) == WriterStep(p) /\ UNCHANGED telemetryVars

-----------------------------------------------------------------------------
\* What the server does by itself, and what its clients and the program decide.
HandlerStep(x) ==
    \/ \E s \in Subs : AddDynamic(x, s)
    \/ RegisterSub(x)
    \/ InitTelemetryUpdate(x)
    \/ InitSend(x)
    \/ StartRun(x)
    \/ Joined(x)
    \/ \E s \in Subs : UnregisterSub(x, s)
    \/ DeleteDynamic(x)
    \/ DeleteSubscription(x)
    \/ CloseResponses(x)

RunStep(s) == RunShutdown(s) \/ RunReceive(s) \/ RunRLock(s) \/ RunSend(s)

ResponderStep(x) == RespondTake(x) \/ RespondSend(x) \/ RespondShutdown(x)

Environment ==
    \/ \E x \in Sess :
         \/ StartSubSession(x)
         \/ \E S \in SUBSET Subs : ProcessSubscribe(x, S) \/ EndOfStream(x, S)
         \/ \E c \in WriteJobs : SyncCallback(x, c)
         \/ InitFails(x)
    \/ \E s \in Subs : RunFails(s)
    \/ \E p \in Writers, c \in WriteJobs \cup DeleteJobs : Write(p, c)
    \/ \E m \in SetChanges : SetRPC(m)

Next ==
    \/ \E p \in Procs : CallStep(p)
    \/ \E x \in Sess : HandlerStep(x) \/ LeaveSubSession(x) \/ ResponderStep(x)
    \/ \E s \in Subs : RunStep(s)
    \/ Environment

Spec == Init /\ [][Next]_vars

\* Every goroutine that can go on does.  Strong fairness of the steps that wait
\* for the RWMutex, or for a place in respchan, is what sync.RWMutex (a waiting
\* Lock keeps new readers out) and Go's channels (first come, first served) give.
\* The client asks and closes as it likes, the program writes when it likes.
Fairness ==
    /\ \A p \in Procs : WF_vars(CallStep(p)) /\ SF_vars(Lock(p) /\ UNCHANGED telemetryVars)
    /\ \A x \in Sess : WF_vars(HandlerStep(x)) /\ SF_vars(LeaveSubSession(x))
                       /\ SF_vars(RegisterSub(x) \/ InitTelemetryUpdate(x) \/ InitSend(x))
                       /\ WF_vars(ResponderStep(x)) /\ SF_vars(RespondShutdown(x))
    /\ \A s \in Subs : WF_vars(RunStep(s)) /\ SF_vars(RunShutdown(s))
                       /\ SF_vars(RunRLock(s)) /\ SF_vars(RunSend(s))

FairSpec == Spec /\ Fairness

-----------------------------------------------------------------------------
TypeOK ==
    /\ EventCtrlTypeOK
    /\ readers \subseteq Sess \cup Subs
    /\ subSession \subseteq Sess
    /\ hpc \in [Sess -> {"new", "recv", "dynamic", "register", "sync", "init"} \cup Stopping]
    /\ hlist \in [Sess -> SUBSET Subs]
    /\ hcur \in [Sess -> Subs \cup {Nobody}]
    /\ hout \in [Sess -> Seq(Messages)]
    /\ sub \in [Subs -> {"none", "live", "deleted"}]
    /\ runpc \in [Subs -> {"none", "select", "rlock", "send", "done"}]
    /\ runev \in [Subs -> Events]
    /\ respchan \in [Sess -> Seq(Messages)]
    /\ rpc \in [Sess -> {"none", "select", "send", "done"}]
    /\ rmsg \in [Sess -> Messages \cup {NoMessage}]
    /\ view \in [Subs -> [Paths -> Leaves]]
    /\ writes \in 0 .. MaxWrites

\* What was or will be told to the client of s, oldest first: its own copy, the
\* response being sent, the responses queued, the event run() works on, the
\* events queued, the event being assembled.
ToldTo(s, m) == IF m.to = s THEN m.chg ELSE NoEvent
Pipeline(s) ==
    LET x == SessOf[s]
    IN  <<view[s], ToldTo(s, rmsg[x])>>
        \o [i \in 1 .. Len(respchan[x]) |-> ToldTo(s, respchan[x][i])]
        \o <<runev[s]>> \o onchange[s] \o <<pending[s]>>

\* The last of the events of a sequence that mentions q gives it the value v.
LastMention(told, q, v) ==
    \E i \in DOMAIN told :
        told[i][q] = v /\ \A j \in i + 1 .. Len(told) : told[j][q] = Same

\* No change is lost and none overtakes another: for a subscriber whose run()
\* is alive, the last thing its client was or will be told of every leaf it
\* watches is what the tree holds.  Only the leaves that a Set changed without an
\* event, or whose event failed on its way, are excepted, and these until the next event.
\* (SetEvent, EventReceive, EventComplete, run, telemetryUpdate; and Register
\* before the snapshot of initTelemetryUpdate.)
NothingLost ==
    \A s \in Subs : Streaming(s) /\ s \notin UpdatesOnly =>
        \A q \in Watch[s] \ silent : LastMention(Pipeline(s), q, root[q])

\* The changes s is still to be sent: the event run() has in hand, those queued and
\* the one being assembled.  And the responses still to come to the client of x.
InHand(s) == IF runpc[s] \in {"rlock", "send"} THEN <<runev[s]>> ELSE <<>>
Assembled(s) == IF s \in ready THEN <<pending[s]>> ELSE <<>>
Unsent == [s \in Subs |-> InHand(s) \o onchange[s] \o Assembled(s)]
Sent == [x \in Sess |-> (IF rpc[x] = "send" THEN <<rmsg[x]>> ELSE <<>>) \o respchan[x]]

\* Where the answer to s stands: the handler in initTelemetryUpdate() has a snapshot
\* and the sync_response left, the latter, or only to start run().
Due(s) ==
    LET x == SessOf[s]
    IN  IF hpc[x] = "init" /\ hcur[x] = s
        THEN IF Len(hout[x]) = 2 THEN "tree" ELSE IF Len(hout[x]) = 1 THEN "sync" ELSE "changes"
        ELSE "nothing"

Feed == INSTANCE ChangeFeed WITH
    due       <- [s \in Subs |-> Due(s)],
    streaming <- {s \in Subs : Streaming(s)},
    unsent    <- Unsent,
    open      <- ready,
    sent      <- Sent

\* All that a client is sent, through the pending events, onchange, run(), respchan
\* and the responder, comes to it as if it stood in one queue: the tree first, then
\* the changes, in order, each once.  A failure loses what it says and no more.
FeedSpec == Feed!Spec

\* EventComplete is never called on a subscriber that deleteSubscription has
\* been at: its onchange is closed and its session is nil.
LiveReceivers == receivers \cup ready \subseteq {s \in Subs : sub[s] = "live"}

\* run() was started, and has not ended or ended because a conversion failed.
Started(s) == Streaming(s) \/ (Faults /\ runpc[s] = "done")

\* Whoever is registered has a run() that empties its queue, unless it failed, or will
\* have it from the handler that registered it, or its session is being stopped.
ReceiversServed ==
    \A s \in receivers :
        Started(s) \/ hcur[SessOf[s]] = s \/ Shutdown(SessOf[s])

\* When Stop() closes respchan, nobody is left that could send to it: the
\* session's goroutines have ended and its subscribers are unregistered.
TornDown ==
    \A x \in Sess : hpc[x] \in {"leave", "done"} =>
        /\ rpc[x] \in {"none", "done"}
        /\ \A s \in SubsOf(x) : ~ Streaming(s) /\ s \notin readers \cup receivers

\* A session takes a place in Server.subSession from its start to the end of
\* Stop(), and there are never more than one above the maximum.
SessionsCounted ==
    /\ subSession = {x \in Sess : hpc[x] \notin {"new", "done"}}
    /\ Cardinality(subSession) <= MaxSubSession + 1

\* Not kept: server.go:114 "MaxSubSession is the maximum number of subscription session",
\* and the message of startSubSession: "(must be <=%d)".
SessionLimit == Cardinality(subSession) <= MaxSubSession

\* Stop() "shutdown all goroutines for subscription" (subscribe.go:121): it ends.
StopTerminates == \A x \in Sess : hpc[x] = "wait" ~> hpc[x] = "done"

\* "current event consumed at the end" (event.go:137): SetEvent hands over its
\* events and returns, and so does the call of Write, Merge or Delete.
EventsConsumed == \A p \in Procs : wpc[p] # "out" ~> wpc[p] = "out"

\* The client of a subscriber that stays ends up with what the tree holds.
Converges ==
    \A s \in Subs : <>[](Streaming(s) /\ s \notin UpdatesOnly =>
                            \A q \in Watch[s] : view[s][q] = root[q])

\* The two ways in which full channels stop the server.  The responder left at
\* the shutdown, and a run() waits in Send() with RLock held.
Clogged(x) ==
    /\ rpc[x] = "done" /\ Len(respchan[x]) >= RespCap
    /\ \E s \in SubsOf(x) : runpc[s] = "send"

\* A writer waits in EventComplete with Lock held for a run() that cannot come
\* to its queue: it waits for RLock, has ended, or has not been started.
Jammed(p) ==
    /\ wpc[p] = "complete"
    /\ \E s \in ready : Len(onchange[s]) >= OnchangeCap /\ runpc[s] # "select"

Hung == (\E x \in Sess : Clogged(x)) \/ (\E p \in Procs : Jammed(p))

\* Who can go on by itself: the guards of HandlerStep and LeaveSubSession, RunStep,
\* ResponderStep and CallStep.
HandlerCan(x) ==
    \/ hpc[x] = "dynamic" /\ wpc[x] = "out" /\ hlist[x] # {}
    \/ hpc[x] = "register" /\ wpc[x] = "out" /\ ec = Nobody
    \/ hpc[x] = "sync" /\ wpc[x] = "out" /\ (wlock = Nobody \/ hcur[x] \in UpdatesOnly)
    \/ hpc[x] = "init" /\ (hout[x] = <<>> \/ Len(respchan[x]) < RespCap)
    \/ hpc[x] = "wait" /\ rpc[x] = "done" /\ \A s \in SubsOf(x) : ~ Streaming(s)
    \/ hpc[x] = "unregister" /\ (ec = Nobody \/ \A s \in SubsOf(x) : sub[s] # "live")
    \/ hpc[x] \in {"delinfo", "delsub"} /\ wpc[x] = "out"
    \/ hpc[x] = "leave" /\ wlock = Nobody /\ readers = {}

RunCan(s) ==
    \/ runpc[s] = "select" /\ (onchange[s] # <<>> \/ Shutdown(SessOf[s]))
    \/ runpc[s] = "rlock" /\ wlock = Nobody
    \/ runpc[s] = "send" /\ Len(respchan[SessOf[s]]) < RespCap

ResponderCan(x) ==
    \/ rpc[x] = "select" /\ (respchan[x] # <<>> \/ Shutdown(x))
    \/ rpc[x] = "send"

CallCan(p) ==
    \/ wpc[p] = "lock" /\ wlock = Nobody /\ readers = {}
    \/ wpc[p] = "event" /\ (job[p] = {} \/ ec = Nobody)
    \/ wpc[p] = "complete" /\ (ready = {} \/ \E s \in ready : Len(onchange[s]) < OnchangeCap)

Busy ==
    \/ \E x \in Sess : HandlerCan(x) \/ ResponderCan(x)
    \/ \E s \in Subs : RunCan(s)
    \/ \E p \in Procs : CallCan(p)

\* All calls have returned, the handlers wait for their clients or have ended, and
\* what a client knows is what the tree holds, but for what a Set changed without an
\* event or a failure lost.
Settled ==
    /\ \A p \in Procs : wpc[p] = "out"
    /\ wlock = Nobody /\ readers = {} /\ ec = Nobody
    /\ \A x \in Sess : hpc[x] \in {"new", "recv", "done"}
    /\ \A s \in Subs : Streaming(s) /\ s \notin UpdatesOnly =>
         \A q \in Watch[s] \ silent : view[s][q] = root[q]

\* The handler is about to start the run() of s, and needs no lock any more.
Starting(s) ==
    LET x == SessOf[s]
    IN  /\ hcur[x] = s
        /\ hpc[x] = "init" \/ (hpc[x] = "sync" /\ s \in UpdatesOnly /\ wpc[x] = "out")

\* run() does not come to its queue: it waits for RLock; or there is none, because it
\* failed, has not been started by the handler yet, or was shut down.
AwayFromQueue(s) ==
    \/ runpc[s] = "rlock"
    \/ /\ ~ Streaming(s) /\ ~ Starting(s)
       /\ Started(s) \/ hcur[SessOf[s]] = s \/ Shutdown(SessOf[s])

\* One call has Lock and EventCtrl.mutex, and every subscriber that it has yet to hand
\* its event to has a full queue and a run() that does not come to it.
Blocked(p) ==
    /\ wpc[p] = "complete" /\ wlock = p /\ ec = p
    /\ ready # {}
    /\ \A s \in ready : Len(onchange[s]) >= OnchangeCap /\ AwayFromQueue(s)

\* Handlers, run() goroutines, responders and calls of Write, Merge or Delete never
\* come to a standstill with anything unfinished, whatever fails, but for the two
\* kinds of full channels.  (The RWMutex, EventCtrl.mutex, onchange, respchan,
\* shutdown, waitgroup)
OnlyHangs == Busy \/ (\E x \in Sess : Clogged(x)) \/ (\E p \in Procs : Blocked(p)) \/ Settled

\* Full channels are the only reason why Stop() may not end, a call of Write,
\* Merge or Delete may not return, or a client may not catch up with the tree.
StopTerminatesUnlessHung == StopTerminates \/ <>[]Hung
EventsConsumedUnlessHung == EventsConsumed \/ <>[]Hung
ConvergesUnlessHung      == Converges \/ <>[]Hung
-----------------------------------------------------------------------------
(* The inductive invariant: what the handler of a session knows of its      *)
(* subscribers at each place.                                               *)

SetUp    == {"dynamic", "register", "sync", "init"}
Joint    == {"unregister", "delinfo", "delsub", "leave", "done"}
Settling == {"register", "sync", "init", "delinfo", "delsub"}

\* The handler's own variables fit the place it has come to.
HandlerOK(x) ==
    /\ hlist[x] \subseteq SubsOf(x)
    /\ hpc[x] \in Settling => hcur[x] \in SubsOf(x)
    /\ rpc[x] = "send" => rmsg[x] \in Messages

\* The subscribers of a session are added, live and are deleted in step with it.
SubsOK(x) ==
    /\ hpc[x] = "new" => rpc[x] = "none" /\ \A s \in SubsOf(x) : sub[s] = "none" /\ ~ Streaming(s)
    /\ hpc[x] \in {"recv", "wait"} \cup SetUp => \A s \in SubsOf(x) : sub[s] # "deleted"
    /\ hpc[x] \in SetUp => \A s \in hlist[x] : sub[s] = "live"
    /\ hpc[x] \in {"register", "sync", "init"} => sub[hcur[x]] = "live"
    /\ hpc[x] \in {"delinfo", "delsub"} => hcur[x] \notin receivers \cup ready
    /\ hpc[x] \in {"leave", "done"} => \A s \in SubsOf(x) : sub[s] # "live"

\* After waitgroup.Wait() the goroutines of the session have ended.
JoinedOK(x) ==
    hpc[x] \in Joint =>
        rpc[x] \in {"none", "done"} /\ \A s \in SubsOf(x) : ~ Streaming(s)

\* run() holds RLock only while it sends.
ReadersOK == \A s \in Subs : s \in readers => runpc[s] = "send"

IInv ==
    /\ TypeOK
    /\ LiveReceivers
    /\ ReadersOK
    /\ \A x \in Sess : HandlerOK(x) /\ SubsOK(x) /\ JoinedOK(x)
=============================================================================
