-------------------------- MODULE TelemetryProofs --------------------------
(***************************************************************************)
(* Theorems about Telemetry, for all values of its constants.              *)
(***************************************************************************)
EXTENDS Telemetry, FiniteSetTheorems, TLAPS

USE EventCtrlAssumption, TelemetryAssumption

-----------------------------------------------------------------------------
(* The operators on events. *)

LEMMA QueueType ==
    ASSUME NEW T, NEW q \in Seq(T)
    PROVE  /\ \A e \in T : Append(q, e) \in Seq(T)
           /\ q # <<>> => Head(q) \in T /\ Tail(q) \in Seq(T)
OBVIOUS

LEMMA NoEventType == NoEvent \in Events
BY DEF NoEvent, Events

LEMMA CollectType ==
    ASSUME NEW old \in Events, NEW chg \in Events
    PROVE  Collect(old, chg) \in Events
BY DEF Collect, Events, Leaves

LEMMA OverlayTree ==
    ASSUME NEW old \in [Paths -> Leaves], NEW chg \in Events
    PROVE  Overlay(old, chg) \in [Paths -> Leaves]
BY DEF Overlay, Events, Leaves

LEMMA RestrictionType ==
    ASSUME NEW chg \in Events, NEW Q
    PROVE  Restriction(chg, Q) \in Events
BY DEF Restriction, Events

LEMMA AssignType ==
    ASSUME NEW q \in Paths, NEW v \in Leaves
    PROVE  Assign(q, v) \in Events
BY DEF Assign, NoEvent, Events

LEMMA EffectiveType ==
    ASSUME NEW chg \in Events
    PROVE  Effective(chg) \in Events
BY DEF Effective, Events

LEMMA SnapshotType ==
    ASSUME NEW s, root \in [Paths -> Leaves]
    PROVE  Snapshot(s) \in Events
BY DEF Snapshot, Events

\* What Raise leaves of ready and pending, for any event.
LEMMA RaiseType ==
    ASSUME NEW chg \in Events, Raise(chg),
           receivers \subseteq Subs, ready \subseteq Subs, pending \in [Subs -> Events]
    PROVE  ready' \subseteq Subs /\ pending' \in [Subs -> Events]
<1>1. ready' \subseteq Subs
  BY DEF Raise
<1>2. \A s \in Subs : Restriction(chg, Watch[s]) \in Events
  BY RestrictionType
<1>3. \A s \in Subs : Collect(pending[s], Restriction(chg, Watch[s])) \in Events
  BY <1>2, CollectType
<1>4. pending' \in [Subs -> Events]
  BY <1>3 DEF Raise
<1> QED BY <1>1, <1>4

-----------------------------------------------------------------------------
(* Types: the steps of Write, Merge and Delete, then all others.            *)

LEMMA WriterTypes ==
    ASSUME EventCtrlTypeOK, NEW p \in Procs, WriterStep(p)
    PROVE  EventCtrlTypeOK'
<1> USE DEF EventCtrlTypeOK, treeVars, lockVars, queueVars, writerVars
<1>1. CASE Lock(p)
  BY <1>1 DEF Lock
<1>2. CASE SetEvent(p)
  <2>1. PICK c \in job[p] :
          root' = Overlay(root, c) /\ Raise(Effective(c))
          /\ job' = [job EXCEPT ![p] = @ \ {c}]
    BY <1>2 DEF SetEvent
  <2>2. c \in Events
    BY <2>1
  <2>3. root' \in [Paths -> Leaves]
    BY <2>1, <2>2, OverlayTree
  <2>4. ready' \subseteq Subs /\ pending' \in [Subs -> Events]
    BY <2>1, <2>2, EffectiveType, RaiseType
  <2>5. job' \in [Procs -> SUBSET Events]
    BY <2>1
  <2>6. silent' \subseteq Paths
    BY <1>2 DEF SetEvent
  <2> QED
    BY <1>2, <2>3, <2>4, <2>5, <2>6 DEF SetEvent
<1>3. CASE SetEventFails(p)
  <2>1. PICK c \in job[p], Q \in SUBSET Paths :
          /\ root' = IF IsDelete(c) THEN root ELSE Overlay(root, c)
          /\ Raise(Restriction(Effective(c), Q))
    BY <1>3 DEF SetEventFails
  <2>2. c \in Events
    BY <2>1
  <2>3. root' \in [Paths -> Leaves]
    BY <2>1, <2>2, OverlayTree
  <2>4. ready' \subseteq Subs /\ pending' \in [Subs -> Events]
    BY <2>1, <2>2, EffectiveType, RestrictionType, RaiseType
  <2>5. silent' \subseteq Paths
    BY <1>3 DEF SetEventFails, Mentioned
  <2> QED
    BY <1>3, <2>3, <2>4, <2>5 DEF SetEventFails
<1>4. ASSUME NEW s \in Subs, EventComplete(p, s)
      PROVE  EventCtrlTypeOK'
  <2>1. Append(onchange[s], pending[s]) \in Seq(Events)
    OBVIOUS
  <2> QED
    BY <1>4, <2>1, NoEventType DEF EventComplete
<1>5. CASE EndEvents(p)
  BY <1>5 DEF EndEvents
<1>6. CASE Unlock(p)
  BY <1>6 DEF Unlock
<1> QED
  BY <1>1, <1>2, <1>3, <1>4, <1>5, <1>6 DEF WriterStep

-----------------------------------------------------------------------------
(* Every step of the system, one operator for each kind of actor.           *)

\* The disjuncts of Next, and the events that the program's calls are made of.
LEMMA NextCases ==
    ASSUME [Next]_vars
    PROVE  \/ \E p \in Procs : CallStep(p)
           \/ \E x \in Sess : \/ StartSubSession(x)
                              \/ \E S \in SUBSET Subs : ProcessSubscribe(x, S)
                              \/ \E S \in SUBSET Subs : EndOfStream(x, S)
                              \/ \E s \in Subs : AddDynamic(x, s)
                              \/ RegisterSub(x)
                              \/ \E c \in SUBSET Events : SyncCallback(x, c)
                              \/ InitTelemetryUpdate(x)
                              \/ InitSend(x)
                              \/ StartRun(x)
                              \/ InitFails(x)
                              \/ Joined(x)
                              \/ \E s \in Subs : UnregisterSub(x, s)
                              \/ DeleteDynamic(x)
                              \/ DeleteSubscription(x)
                              \/ CloseResponses(x)
                              \/ LeaveSubSession(x)
                              \/ RespondTake(x)
                              \/ RespondSend(x)
                              \/ RespondShutdown(x)
           \/ \E s \in Subs : RunShutdown(s) \/ RunReceive(s) \/ RunRLock(s)
                              \/ RunSend(s) \/ RunFails(s)
           \/ \E p \in Writers, c \in SUBSET Events : Write(p, c)
           \/ \E m \in Events : SetRPC(m)
           \/ UNCHANGED vars
<1>1. Merges \subseteq Events
  BY DEF Merges, Events, Leaves
<1>2. WriteJobs \subseteq SUBSET Events
  BY <1>1 DEF WriteJobs
<1>3. DeleteJobs \subseteq SUBSET Events
  <2>1. \A q \in Paths : Assign(q, Absent) \in Events
    BY AssignType DEF Leaves
  <2> QED BY <2>1 DEF DeleteJobs
<1>4. CASE Environment
  BY <1>1, <1>2, <1>3, <1>4 DEF Environment
<1>5. ASSUME NEW x \in Sess, HandlerStep(x) \/ LeaveSubSession(x) \/ ResponderStep(x)
      PROVE  \/ \E s \in Subs : AddDynamic(x, s) \/ UnregisterSub(x, s)
             \/ RegisterSub(x) \/ InitTelemetryUpdate(x) \/ InitSend(x) \/ StartRun(x)
             \/ Joined(x) \/ DeleteDynamic(x) \/ DeleteSubscription(x)
             \/ CloseResponses(x) \/ LeaveSubSession(x)
             \/ RespondTake(x) \/ RespondSend(x) \/ RespondShutdown(x)
  BY <1>5 DEF HandlerStep, ResponderStep
<1>6. CASE \E s \in Subs : RunStep(s)
  BY <1>6 DEF RunStep
<1> QED
  BY <1>4, <1>5, <1>6 DEF Next

-----------------------------------------------------------------------------
(* Types. *)

LEMMA TypeStep ==
    ASSUME TypeOK, \A x \in Sess : HandlerOK(x), [Next]_vars
    PROVE  TypeOK'
<1> USE DEF TypeOK, EventCtrlTypeOK, lockVars, queueVars, writerVars, eventVars, treeVars,
            handlerVars, runVars, responderVars, telemetryVars, Stopping
<1>1. ASSUME NEW p \in Procs, CallStep(p)
       PROVE  TypeOK'
  <2>1. EventCtrlTypeOK'
    BY <1>1, WriterTypes DEF CallStep
  <2>2. readers' = readers
    BY <1>1, <2>1 DEF CallStep, WriterStep, Lock, SetEvent, SetEventFails,
                EventComplete, EndEvents, Unlock
  <2> QED
    BY <1>1, <2>1, <2>2 DEF CallStep
<1>2. ASSUME NEW x \in Sess, StartSubSession(x)
       PROVE  TypeOK'
  <2>1. \/ /\ hpc' = [hpc EXCEPT ![x] = "done"]
           /\ UNCHANGED <<subSession, rpc>>
        \/ /\ hpc' = [hpc EXCEPT ![x] = "recv"]
           /\ subSession' = subSession \cup {x}
           /\ rpc' = [rpc EXCEPT ![x] = "select"]
    BY <1>2, Zenon DEF StartSubSession
  <2>2. subSession' \subseteq Sess
    BY <1>2, <2>1
  <2>3. rpc' \in [Sess -> {"none", "select", "send", "done"}]
    BY <1>2, <2>1, <2>2
  <2>4. hpc' \in [Sess -> {"new", "recv", "dynamic", "register", "sync", "init"} \cup Stopping]
    BY <1>2, <2>1, <2>2, <2>3
  <2> QED
    BY <1>2, <2>1, <2>2, <2>3, <2>4 DEF StartSubSession
<1>3. ASSUME NEW x \in Sess, RegisterSub(x)
       PROVE  TypeOK'
  <2>1. hcur[x] \in Subs
    BY <1>3 DEF RegisterSub, HandlerOK, Settling, SubsOf
  <2>2. EventCtrlTypeOK'
    BY <1>3, <2>1 DEF RegisterSub, Register
  <2> QED
    BY <1>3, <2>1, <2>2 DEF RegisterSub, Register
<1>4. ASSUME NEW x \in Sess, InitTelemetryUpdate(x)
       PROVE  TypeOK'
  <2>1. hcur[x] \in Subs
    BY <1>4 DEF InitTelemetryUpdate, HandlerOK, Settling, SubsOf
  <2>2. Response(hcur[x], Snapshot(hcur[x])) \in Messages
    BY <1>4, <2>1, SnapshotType DEF Response, Messages
  <2>3. SyncResponse(hcur[x]) \in Messages
    BY <1>4, <2>1, <2>2, NoEventType DEF SyncResponse, Response, Messages
  <2>4. <<SyncResponse(hcur[x])>> \in Seq(Messages)
    BY <1>4, <2>1, <2>2, <2>3
  <2>5. <<Response(hcur[x], Snapshot(hcur[x])), SyncResponse(hcur[x])>> \in Seq(Messages)
    BY <1>4, <2>1, <2>2, <2>3, <2>4
  <2>6. \/ hout' = [hout EXCEPT ![x] = <<SyncResponse(hcur[x])>>]
        \/ hout' = [hout EXCEPT ![x] =
                      <<Response(hcur[x], Snapshot(hcur[x])), SyncResponse(hcur[x])>>]
    BY <1>4, <2>1, <2>2, <2>3, <2>4, <2>5 DEF InitTelemetryUpdate
  <2>7. hout' \in [Sess -> Seq(Messages)]
    <3>1. PICK r \in Seq(Messages) : hout' = [hout EXCEPT ![x] = r]
      BY <2>4, <2>5, <2>6
    <3> QED BY <3>1
  <2>8. EventCtrlTypeOK' /\ readers' \subseteq Sess \cup Subs
    BY <1>4 DEF InitTelemetryUpdate, RLock
  <2> QED
    BY <1>4, <2>7, <2>8 DEF InitTelemetryUpdate
<1>5. ASSUME NEW x \in Sess, InitSend(x)
       PROVE  TypeOK'
  <2>1. hout' \in [Sess -> Seq(Messages)]
    BY <1>5, QueueType DEF InitSend
  <2>2. Append(respchan[x], Head(hout[x])) \in Seq(Messages)
    BY <1>5, <2>1, QueueType DEF InitSend
  <2>3. respchan' \in [Sess -> Seq(Messages)]
    BY <1>5, <2>1, <2>2 DEF InitSend
  <2> QED
    BY <1>5, <2>1, <2>2, <2>3 DEF InitSend
<1>6. ASSUME NEW x \in Sess, StartRun(x)
       PROVE  TypeOK'
  BY <1>6 DEF StartRun, RUnlock
<1>7. ASSUME NEW x \in Sess, InitFails(x)
       PROVE  TypeOK'
  <2>1. hout' \in [Sess -> Seq(Messages)]
    BY <1>7 DEF InitFails
  <2>2. EventCtrlTypeOK' /\ readers' \subseteq Sess \cup Subs
    BY <1>7, <2>1 DEF InitFails, RUnlock
  <2> QED
    BY <1>7, <2>1, <2>2 DEF InitFails
<1>8. ASSUME NEW x \in Sess, Joined(x)
       PROVE  TypeOK'
  BY <1>8 DEF Joined
<1>9. ASSUME NEW x \in Sess, DeleteDynamic(x)
       PROVE  TypeOK'
  <2>1. hcur[x] \in Subs
    BY <1>9 DEF DeleteDynamic, HandlerOK, Settling, SubsOf
  <2>2. Assign(InfoPath[hcur[x]], Absent) \in Events
    BY <1>9, <2>1, AssignType DEF Leaves
  <2>3. job' \in [Procs -> SUBSET Events]
    BY <1>9, <2>1, <2>2 DEF DeleteDynamic, Begin
  <2>4. EventCtrlTypeOK'
    BY <1>9, <2>1, <2>2, <2>3 DEF DeleteDynamic, Begin
  <2> QED
    BY <1>9, <2>1, <2>2, <2>3, <2>4 DEF DeleteDynamic, Begin
<1>10. ASSUME NEW x \in Sess, DeleteSubscription(x)
        PROVE  TypeOK'
  <2>1. <<>> \in Seq(Events)
    BY <1>10
  <2>2. onchange' \in [Subs -> Seq(Events)]
    BY <1>10, <2>1 DEF DeleteSubscription
  <2>3. EventCtrlTypeOK'
    BY <1>10, <2>1, <2>2 DEF DeleteSubscription
  <2> QED
    BY <1>10, <2>1, <2>2, <2>3 DEF DeleteSubscription
<1>11. ASSUME NEW x \in Sess, CloseResponses(x)
        PROVE  TypeOK'
  <2>1. respchan' \in [Sess -> Seq(Messages)]
    BY <1>11 DEF CloseResponses
  <2> QED
    BY <1>11, <2>1 DEF CloseResponses
<1>12. ASSUME NEW x \in Sess, LeaveSubSession(x)
        PROVE  TypeOK'
  BY <1>12 DEF LeaveSubSession
<1>13. ASSUME NEW x \in Sess, RespondTake(x)
        PROVE  TypeOK'
  <2>1. respchan' \in [Sess -> Seq(Messages)]
    BY <1>13, QueueType DEF RespondTake
  <2>2. rmsg' \in [Sess -> Messages \cup {NoMessage}]
    BY <1>13, <2>1, QueueType DEF RespondTake
  <2> QED
    BY <1>13, <2>1, <2>2 DEF RespondTake
<1>14. ASSUME NEW x \in Sess, RespondSend(x)
        PROVE  TypeOK'
  <2>1. rmsg[x].to \in Subs /\ rmsg[x].chg \in Events
    BY <1>14 DEF RespondSend, HandlerOK, Messages
  <2>2. Overlay(view[rmsg[x].to], rmsg[x].chg) \in [Paths -> Leaves]
    BY <1>14, <2>1, OverlayTree
  <2>3. view' \in [Subs -> [Paths -> Leaves]]
    BY <1>14, <2>1, <2>2 DEF RespondSend
  <2> QED
    BY <1>14, <2>1, <2>2, <2>3 DEF RespondSend
<1>15. ASSUME NEW x \in Sess, RespondShutdown(x)
        PROVE  TypeOK'
  BY <1>15 DEF RespondShutdown
<1>16. ASSUME NEW x \in Sess, NEW S \in SUBSET Subs, ProcessSubscribe(x, S)
        PROVE  TypeOK'
  <2>1. sub' \in [Subs -> {"none", "live", "deleted"}]
    BY <1>16 DEF ProcessSubscribe, AddSubscriptions
  <2> QED
    BY <1>16, <2>1 DEF ProcessSubscribe
<1>17. ASSUME NEW x \in Sess, NEW S \in SUBSET Subs, EndOfStream(x, S)
        PROVE  TypeOK'
  <2>1. sub' \in [Subs -> {"none", "live", "deleted"}]
    BY <1>17 DEF EndOfStream, AddSubscriptions
  <2> QED
    BY <1>17, <2>1 DEF EndOfStream
<1>18. ASSUME NEW x \in Sess, NEW s \in Subs, AddDynamic(x, s)
        PROVE  TypeOK'
  <2>1. Assign(InfoPath[s], InfoVal) \in Events
    BY <1>18, AssignType DEF Leaves
  <2>2. ASSUME Begin(x, {Assign(InfoPath[s], InfoVal)})
        PROVE  EventCtrlTypeOK' /\ UNCHANGED readers
    <3>1. /\ job' = [job EXCEPT ![x] = {Assign(InfoPath[s], InfoVal)}]
          /\ wpc' = [wpc EXCEPT ![x] = "lock"]
          /\ UNCHANGED <<treeVars, lockVars, ec, receivers, queueVars>>
      BY <2>2, Zenon DEF Begin
    <3>2. job' \in [Procs -> SUBSET Events]
      BY <2>1, <3>1
    <3>3. wpc' \in [Procs -> {"out", "lock", "event", "complete"}]
      BY <3>1
    <3> QED
      BY <3>1, <3>2, <3>3
  <2>3. ASSUME UNCHANGED eventVars
        PROVE  EventCtrlTypeOK' /\ UNCHANGED readers
    BY <2>3
  <2>4. Begin(x, {Assign(InfoPath[s], InfoVal)}) \/ UNCHANGED eventVars
    BY <1>18, Zenon DEF AddDynamic, AddEntry
  <2>5. EventCtrlTypeOK' /\ UNCHANGED readers
    BY <2>2, <2>3, <2>4
  <2>6. /\ s \in Subs /\ hlist' = [hlist EXCEPT ![x] = @ \ {s}]
        /\ hcur' = [hcur EXCEPT ![x] = s] /\ hpc' = [hpc EXCEPT ![x] = "register"]
        /\ UNCHANGED <<subSession, hout, sub, runVars, respchan, responderVars, writes>>
    BY <1>18, Zenon DEF AddDynamic
  <2> QED
    BY <2>5, <2>6
<1>19. ASSUME NEW x \in Sess, NEW s \in Subs, UnregisterSub(x, s)
        PROVE  TypeOK'
  <2>1. EventCtrlTypeOK'
    BY <1>19 DEF UnregisterSub, Unregister
  <2> QED
    BY <1>19, <2>1 DEF UnregisterSub, Unregister
<1>20. ASSUME NEW x \in Sess, NEW c \in SUBSET Events, SyncCallback(x, c)
        PROVE  TypeOK'
  <2>1. writes' \in 0 .. MaxWrites
    BY <1>20 DEF SyncCallback
  <2>2. EventCtrlTypeOK'
    BY <1>20, <2>1 DEF SyncCallback, Begin
  <2> QED
    BY <1>20, <2>1, <2>2 DEF SyncCallback, Begin
<1>21. ASSUME NEW s \in Subs, RunShutdown(s)
        PROVE  TypeOK'
  BY <1>21 DEF RunShutdown
<1>22. ASSUME NEW s \in Subs, RunReceive(s)
        PROVE  TypeOK'
  <2>1. onchange' \in [Subs -> Seq(Events)] /\ runev' \in [Subs -> Events]
    BY <1>22, QueueType DEF RunReceive
  <2>2. EventCtrlTypeOK'
    BY <1>22, <2>1 DEF RunReceive
  <2> QED
    BY <1>22, <2>1, <2>2 DEF RunReceive
<1>23. ASSUME NEW s \in Subs, RunRLock(s)
        PROVE  TypeOK'
  BY <1>23 DEF RunRLock, RLock
<1>24. ASSUME NEW s \in Subs, RunSend(s)
        PROVE  TypeOK'
  <2>1. Response(s, runev[s]) \in Messages
    BY <1>24 DEF Response, Messages
  <2>2. SessOf[s] \in Sess
    BY <1>24, <2>1
  <2>3. respchan' \in [Sess -> Seq(Messages)]
    BY <1>24, <2>1, <2>2, QueueType DEF RunSend
  <2>4. runev' \in [Subs -> Events]
    BY <1>24, <2>1, <2>2, <2>3, NoEventType DEF RunSend
  <2>5. EventCtrlTypeOK' /\ readers' \subseteq Sess \cup Subs
    BY <1>24, <2>1, <2>2, <2>3, <2>4 DEF RunSend, RUnlock
  <2> QED
    BY <1>24, <2>1, <2>2, <2>3, <2>4, <2>5 DEF RunSend
<1>25. ASSUME NEW s \in Subs, RunFails(s)
        PROVE  TypeOK'
  <2>1. runev' \in [Subs -> Events]
    BY <1>25, NoEventType DEF RunFails
  <2>2. silent' \subseteq Paths
    BY <1>25 DEF RunFails, Mentioned
  <2> QED
    BY <1>25, <2>1, <2>2 DEF RunFails
<1>26. ASSUME NEW p \in Writers, NEW c \in SUBSET Events, Write(p, c)
        PROVE  TypeOK'
  <2>1. writes' \in 0 .. MaxWrites
    BY <1>26 DEF Write
  <2>2. EventCtrlTypeOK'
    BY <1>26, <2>1 DEF Write, Begin
  <2> QED
    BY <1>26, <2>1, <2>2 DEF Write, Begin
<1>27. ASSUME NEW m \in Events, SetRPC(m)
        PROVE  TypeOK'
  <2>1. writes' \in 0 .. MaxWrites
    BY <1>27 DEF SetRPC
  <2>2. root' \in [Paths -> Leaves]
    BY <1>27, <2>1, OverlayTree DEF SetRPC
  <2>3. silent' \subseteq Paths
    BY <1>27 DEF SetRPC, Mentioned
  <2>4. EventCtrlTypeOK'
    BY <1>27, <2>1, <2>2, <2>3 DEF SetRPC
  <2> QED
    BY <1>27, <2>1, <2>2, <2>3, <2>4 DEF SetRPC
<1>28. CASE UNCHANGED vars
  BY <1>28 DEF vars
<1> QED
  BY NextCases, <1>1, <1>2, <1>3, <1>4, <1>5, <1>6, <1>7, <1>8, <1>9, <1>10,
     <1>11, <1>12, <1>13, <1>14, <1>15, <1>16, <1>17, <1>18, <1>19, <1>20,
     <1>21, <1>22, <1>23, <1>24, <1>25, <1>26, <1>27, <1>28
\* LiveReceivers: who is registered, or ready, is in SubSession.Sub.
LEMMA LiveStep ==
    ASSUME IInv, [Next]_vars
    PROVE  LiveReceivers'
<1> USE DEF LiveReceivers, IInv, lockVars, queueVars, writerVars, eventVars, treeVars, handlerVars, runVars,
            responderVars, telemetryVars
<1>1. ASSUME NEW p \in Procs, CallStep(p)
      PROVE  LiveReceivers'
  BY <1>1 DEF CallStep, WriterStep, Lock, SetEvent, SetEventFails, EventComplete, EndEvents, Unlock, Raise
<1>2. ASSUME NEW x \in Sess, StartSubSession(x)
      PROVE  LiveReceivers'
  BY <1>2 DEF StartSubSession
<1>3. ASSUME NEW x \in Sess, RegisterSub(x)
      PROVE  LiveReceivers'
  BY <1>3 DEF RegisterSub, Register, SubsOK, HandlerOK, Settling, SubsOf
<1>4. ASSUME NEW x \in Sess, InitTelemetryUpdate(x)
      PROVE  LiveReceivers'
  BY <1>4 DEF InitTelemetryUpdate, RLock
<1>5. ASSUME NEW x \in Sess, InitSend(x)
      PROVE  LiveReceivers'
  BY <1>5 DEF InitSend
<1>6. ASSUME NEW x \in Sess, StartRun(x)
      PROVE  LiveReceivers'
  BY <1>6 DEF StartRun, RUnlock
<1>7. ASSUME NEW x \in Sess, InitFails(x)
      PROVE  LiveReceivers'
  BY <1>7 DEF InitFails, RUnlock
<1>8. ASSUME NEW x \in Sess, Joined(x)
      PROVE  LiveReceivers'
  BY <1>8 DEF Joined
<1>9. ASSUME NEW x \in Sess, DeleteDynamic(x)
      PROVE  LiveReceivers'
  BY <1>9 DEF DeleteDynamic, Begin
<1>10. ASSUME NEW x \in Sess, DeleteSubscription(x)
       PROVE  LiveReceivers'
  BY <1>10 DEF DeleteSubscription, SubsOK, TypeOK
<1>11. ASSUME NEW x \in Sess, CloseResponses(x)
       PROVE  LiveReceivers'
  BY <1>11 DEF CloseResponses
<1>12. ASSUME NEW x \in Sess, LeaveSubSession(x)
       PROVE  LiveReceivers'
  BY <1>12 DEF LeaveSubSession
<1>13. ASSUME NEW x \in Sess, RespondTake(x)
       PROVE  LiveReceivers'
  BY <1>13 DEF RespondTake
<1>14. ASSUME NEW x \in Sess, RespondSend(x)
       PROVE  LiveReceivers'
  BY <1>14 DEF RespondSend
<1>15. ASSUME NEW x \in Sess, RespondShutdown(x)
       PROVE  LiveReceivers'
  BY <1>15 DEF RespondShutdown
<1>16. ASSUME NEW x \in Sess, NEW S \in SUBSET Subs, ProcessSubscribe(x, S)
       PROVE  LiveReceivers'
  BY <1>16 DEF ProcessSubscribe, AddSubscriptions
<1>17. ASSUME NEW x \in Sess, NEW S \in SUBSET Subs, EndOfStream(x, S)
       PROVE  LiveReceivers'
  BY <1>17 DEF EndOfStream, AddSubscriptions
<1>18. ASSUME NEW x \in Sess, NEW s \in Subs, AddDynamic(x, s)
       PROVE  LiveReceivers'
  BY <1>18 DEF AddDynamic, AddEntry, Begin, eventVars
<1>19. ASSUME NEW x \in Sess, NEW s \in Subs, UnregisterSub(x, s)
       PROVE  LiveReceivers'
  BY <1>19 DEF UnregisterSub, Unregister
<1>20. ASSUME NEW x \in Sess, NEW c \in SUBSET Events, SyncCallback(x, c)
       PROVE  LiveReceivers'
  BY <1>20 DEF SyncCallback, Begin
<1>21. ASSUME NEW s \in Subs, RunShutdown(s)
       PROVE  LiveReceivers'
  BY <1>21 DEF RunShutdown
<1>22. ASSUME NEW s \in Subs, RunReceive(s)
       PROVE  LiveReceivers'
  BY <1>22 DEF RunReceive
<1>23. ASSUME NEW s \in Subs, RunRLock(s)
       PROVE  LiveReceivers'
  BY <1>23 DEF RunRLock, RLock
<1>24. ASSUME NEW s \in Subs, RunSend(s)
       PROVE  LiveReceivers'
  BY <1>24 DEF RunSend, RUnlock
<1>25. ASSUME NEW s \in Subs, RunFails(s)
       PROVE  LiveReceivers'
  BY <1>25 DEF RunFails, RUnlock
<1>26. ASSUME NEW p \in Writers, NEW c \in SUBSET Events, Write(p, c)
       PROVE  LiveReceivers'
  BY <1>26 DEF Write, Begin
<1>27. ASSUME NEW m \in Events, SetRPC(m)
       PROVE  LiveReceivers'
  BY <1>27 DEF SetRPC
<1>28. CASE UNCHANGED vars
  BY <1>28 DEF vars
<1> QED
  BY NextCases, <1>1, <1>2, <1>3, <1>4, <1>5, <1>6, <1>7, <1>8, <1>9, <1>10,
     <1>11, <1>12, <1>13, <1>14, <1>15, <1>16, <1>17, <1>18, <1>19, <1>20,
     <1>21, <1>22, <1>23, <1>24, <1>25, <1>26, <1>27, <1>28

\* ReadersOK: run() takes RLock and releases it.
LEMMA ReadersStep ==
    ASSUME IInv, [Next]_vars
    PROVE  ReadersOK'
<1> USE DEF ReadersOK, Streaming, IInv, lockVars, queueVars, writerVars, eventVars, treeVars, handlerVars, runVars,
            responderVars, telemetryVars
<1>1. ASSUME NEW p \in Procs, CallStep(p)
      PROVE  ReadersOK'
  BY <1>1 DEF CallStep, WriterStep, Lock, SetEvent, SetEventFails, EventComplete, EndEvents, Unlock, Raise
<1>2. ASSUME NEW x \in Sess, StartSubSession(x)
      PROVE  ReadersOK'
  BY <1>2 DEF StartSubSession
<1>3. ASSUME NEW x \in Sess, RegisterSub(x)
      PROVE  ReadersOK'
  BY <1>3 DEF RegisterSub, Register
<1>4. ASSUME NEW x \in Sess, InitTelemetryUpdate(x)
      PROVE  ReadersOK'
  BY <1>4 DEF InitTelemetryUpdate, RLock
<1>5. ASSUME NEW x \in Sess, InitSend(x)
      PROVE  ReadersOK'
  BY <1>5 DEF InitSend
<1>6. ASSUME NEW x \in Sess, StartRun(x)
      PROVE  ReadersOK'
  BY <1>6 DEF StartRun, RUnlock, TypeOK
<1>7. ASSUME NEW x \in Sess, InitFails(x)
      PROVE  ReadersOK'
  BY <1>7 DEF InitFails, RUnlock
<1>8. ASSUME NEW x \in Sess, Joined(x)
      PROVE  ReadersOK'
  BY <1>8 DEF Joined
<1>9. ASSUME NEW x \in Sess, DeleteDynamic(x)
      PROVE  ReadersOK'
  BY <1>9 DEF DeleteDynamic, Begin
<1>10. ASSUME NEW x \in Sess, DeleteSubscription(x)
       PROVE  ReadersOK'
  BY <1>10 DEF DeleteSubscription
<1>11. ASSUME NEW x \in Sess, CloseResponses(x)
       PROVE  ReadersOK'
  BY <1>11 DEF CloseResponses
<1>12. ASSUME NEW x \in Sess, LeaveSubSession(x)
       PROVE  ReadersOK'
  BY <1>12 DEF LeaveSubSession
<1>13. ASSUME NEW x \in Sess, RespondTake(x)
       PROVE  ReadersOK'
  BY <1>13 DEF RespondTake
<1>14. ASSUME NEW x \in Sess, RespondSend(x)
       PROVE  ReadersOK'
  BY <1>14 DEF RespondSend
<1>15. ASSUME NEW x \in Sess, RespondShutdown(x)
       PROVE  ReadersOK'
  BY <1>15 DEF RespondShutdown
<1>16. ASSUME NEW x \in Sess, NEW S \in SUBSET Subs, ProcessSubscribe(x, S)
       PROVE  ReadersOK'
  BY <1>16 DEF ProcessSubscribe
<1>17. ASSUME NEW x \in Sess, NEW S \in SUBSET Subs, EndOfStream(x, S)
       PROVE  ReadersOK'
  BY <1>17 DEF EndOfStream
<1>18. ASSUME NEW x \in Sess, NEW s \in Subs, AddDynamic(x, s)
       PROVE  ReadersOK'
  BY <1>18 DEF AddDynamic, AddEntry, Begin, eventVars
<1>19. ASSUME NEW x \in Sess, NEW s \in Subs, UnregisterSub(x, s)
       PROVE  ReadersOK'
  BY <1>19 DEF UnregisterSub, Unregister
<1>20. ASSUME NEW x \in Sess, NEW c \in SUBSET Events, SyncCallback(x, c)
       PROVE  ReadersOK'
  BY <1>20 DEF SyncCallback, Begin
<1>21. ASSUME NEW s \in Subs, RunShutdown(s)
       PROVE  ReadersOK'
  BY <1>21 DEF RunShutdown, TypeOK
<1>22. ASSUME NEW s \in Subs, RunReceive(s)
       PROVE  ReadersOK'
  BY <1>22 DEF RunReceive, TypeOK
<1>23. ASSUME NEW s \in Subs, RunRLock(s)
       PROVE  ReadersOK'
  BY <1>23 DEF RunRLock, RLock, TypeOK
<1>24. ASSUME NEW s \in Subs, RunSend(s)
       PROVE  ReadersOK'
  BY <1>24 DEF RunSend, RUnlock, TypeOK
<1>25. ASSUME NEW s \in Subs, RunFails(s)
       PROVE  ReadersOK'
  BY <1>25 DEF RunFails, RUnlock, TypeOK
<1>26. ASSUME NEW p \in Writers, NEW c \in SUBSET Events, Write(p, c)
       PROVE  ReadersOK'
  BY <1>26 DEF Write, Begin
<1>27. ASSUME NEW m \in Events, SetRPC(m)
       PROVE  ReadersOK'
  BY <1>27 DEF SetRPC
<1>28. CASE UNCHANGED vars
  BY <1>28 DEF vars
<1> QED
  BY NextCases, <1>1, <1>2, <1>3, <1>4, <1>5, <1>6, <1>7, <1>8, <1>9, <1>10,
     <1>11, <1>12, <1>13, <1>14, <1>15, <1>16, <1>17, <1>18, <1>19, <1>20,
     <1>21, <1>22, <1>23, <1>24, <1>25, <1>26, <1>27, <1>28

\* HandlerOK: the handler's list, its subscriber and its responses.
LEMMA HandlerInvStep ==
    ASSUME IInv, [Next]_vars, NEW y \in Sess
    PROVE  HandlerOK(y)'
<1> USE DEF HandlerOK, IInv, TypeOK, SetUp, Settling, Stopping, SubsOf, lockVars, queueVars, writerVars, eventVars, treeVars, handlerVars, runVars,
            responderVars, telemetryVars
<1>1. ASSUME NEW p \in Procs, CallStep(p)
      PROVE  HandlerOK(y)'
  BY <1>1 DEF CallStep, WriterStep, Lock, SetEvent, SetEventFails, EventComplete, EndEvents, Unlock, Raise
<1>2. ASSUME NEW x \in Sess, StartSubSession(x)
      PROVE  HandlerOK(y)'
  BY <1>2 DEF StartSubSession
<1>3. ASSUME NEW x \in Sess, RegisterSub(x)
      PROVE  HandlerOK(y)'
  BY <1>3 DEF RegisterSub, Register
<1>4. ASSUME NEW x \in Sess, InitTelemetryUpdate(x)
      PROVE  HandlerOK(y)'
  BY <1>4 DEF InitTelemetryUpdate, RLock
<1>5. ASSUME NEW x \in Sess, InitSend(x)
      PROVE  HandlerOK(y)'
  BY <1>5 DEF InitSend
<1>6. ASSUME NEW x \in Sess, StartRun(x)
      PROVE  HandlerOK(y)'
  BY <1>6 DEF StartRun, RUnlock
<1>7. ASSUME NEW x \in Sess, InitFails(x)
      PROVE  HandlerOK(y)'
  BY <1>7 DEF InitFails, RUnlock
<1>8. ASSUME NEW x \in Sess, Joined(x)
      PROVE  HandlerOK(y)'
  BY <1>8 DEF Joined
<1>9. ASSUME NEW x \in Sess, DeleteDynamic(x)
      PROVE  HandlerOK(y)'
  BY <1>9 DEF DeleteDynamic, Begin
<1>10. ASSUME NEW x \in Sess, DeleteSubscription(x)
       PROVE  HandlerOK(y)'
  BY <1>10 DEF DeleteSubscription
<1>11. ASSUME NEW x \in Sess, CloseResponses(x)
       PROVE  HandlerOK(y)'
  BY <1>11 DEF CloseResponses
<1>12. ASSUME NEW x \in Sess, LeaveSubSession(x)
       PROVE  HandlerOK(y)'
  BY <1>12 DEF LeaveSubSession
<1>13. ASSUME NEW x \in Sess, RespondTake(x)
       PROVE  HandlerOK(y)'
  BY <1>13 DEF RespondTake
<1>14. ASSUME NEW x \in Sess, RespondSend(x)
       PROVE  HandlerOK(y)'
  BY <1>14 DEF RespondSend
<1>15. ASSUME NEW x \in Sess, RespondShutdown(x)
       PROVE  HandlerOK(y)'
  BY <1>15 DEF RespondShutdown
<1>16. ASSUME NEW x \in Sess, NEW S \in SUBSET Subs, ProcessSubscribe(x, S)
       PROVE  HandlerOK(y)'
  BY <1>16 DEF ProcessSubscribe, AddSubscriptions
<1>17. ASSUME NEW x \in Sess, NEW S \in SUBSET Subs, EndOfStream(x, S)
       PROVE  HandlerOK(y)'
  BY <1>17 DEF EndOfStream, AddSubscriptions
<1>18. ASSUME NEW x \in Sess, NEW s \in Subs, AddDynamic(x, s)
       PROVE  HandlerOK(y)'
  BY <1>18 DEF AddDynamic, AddEntry, Begin, eventVars
<1>19. ASSUME NEW x \in Sess, NEW s \in Subs, UnregisterSub(x, s)
       PROVE  HandlerOK(y)'
  BY <1>19 DEF UnregisterSub, Unregister
<1>20. ASSUME NEW x \in Sess, NEW c \in SUBSET Events, SyncCallback(x, c)
       PROVE  HandlerOK(y)'
  BY <1>20 DEF SyncCallback, Begin
<1>21. ASSUME NEW s \in Subs, RunShutdown(s)
       PROVE  HandlerOK(y)'
  BY <1>21 DEF RunShutdown
<1>22. ASSUME NEW s \in Subs, RunReceive(s)
       PROVE  HandlerOK(y)'
  BY <1>22 DEF RunReceive
<1>23. ASSUME NEW s \in Subs, RunRLock(s)
       PROVE  HandlerOK(y)'
  BY <1>23 DEF RunRLock, RLock
<1>24. ASSUME NEW s \in Subs, RunSend(s)
       PROVE  HandlerOK(y)'
  BY <1>24 DEF RunSend, RUnlock
<1>25. ASSUME NEW s \in Subs, RunFails(s)
       PROVE  HandlerOK(y)'
  BY <1>25 DEF RunFails, RUnlock
<1>26. ASSUME NEW p \in Writers, NEW c \in SUBSET Events, Write(p, c)
       PROVE  HandlerOK(y)'
  BY <1>26 DEF Write, Begin
<1>27. ASSUME NEW m \in Events, SetRPC(m)
       PROVE  HandlerOK(y)'
  BY <1>27 DEF SetRPC
<1>28. CASE UNCHANGED vars
  BY <1>28 DEF vars
<1> QED
  BY NextCases, <1>1, <1>2, <1>3, <1>4, <1>5, <1>6, <1>7, <1>8, <1>9, <1>10,
     <1>11, <1>12, <1>13, <1>14, <1>15, <1>16, <1>17, <1>18, <1>19, <1>20,
     <1>21, <1>22, <1>23, <1>24, <1>25, <1>26, <1>27, <1>28

\* JoinedOK: no goroutine of a session outlives Wait().
LEMMA JoinedStep ==
    ASSUME IInv, [Next]_vars, NEW y \in Sess
    PROVE  JoinedOK(y)'
<1> USE DEF JoinedOK, SubsOK, HandlerOK, IInv, TypeOK, Streaming, Shutdown, SetUp, Joint, Settling, Stopping, SubsOf, lockVars, queueVars, writerVars, eventVars, treeVars, handlerVars, runVars,
            responderVars, telemetryVars
<1>1. ASSUME NEW p \in Procs, CallStep(p)
      PROVE  JoinedOK(y)'
  BY <1>1 DEF CallStep, WriterStep, Lock, SetEvent, SetEventFails, EventComplete, EndEvents, Unlock, Raise
<1>2. ASSUME NEW x \in Sess, StartSubSession(x)
      PROVE  JoinedOK(y)'
  BY <1>2 DEF StartSubSession
<1>3. ASSUME NEW x \in Sess, RegisterSub(x)
      PROVE  JoinedOK(y)'
  BY <1>3 DEF RegisterSub, Register
<1>4. ASSUME NEW x \in Sess, InitTelemetryUpdate(x)
      PROVE  JoinedOK(y)'
  BY <1>4 DEF InitTelemetryUpdate, RLock
<1>5. ASSUME NEW x \in Sess, InitSend(x)
      PROVE  JoinedOK(y)'
  BY <1>5 DEF InitSend
<1>6. ASSUME NEW x \in Sess, StartRun(x)
      PROVE  JoinedOK(y)'
  BY <1>6 DEF StartRun, RUnlock
<1>7. ASSUME NEW x \in Sess, InitFails(x)
      PROVE  JoinedOK(y)'
  BY <1>7 DEF InitFails, RUnlock
<1>8. ASSUME NEW x \in Sess, Joined(x)
      PROVE  JoinedOK(y)'
  BY <1>8 DEF Joined
<1>9. ASSUME NEW x \in Sess, DeleteDynamic(x)
      PROVE  JoinedOK(y)'
  BY <1>9 DEF DeleteDynamic, Begin
<1>10. ASSUME NEW x \in Sess, DeleteSubscription(x)
       PROVE  JoinedOK(y)'
  BY <1>10 DEF DeleteSubscription
<1>11. ASSUME NEW x \in Sess, CloseResponses(x)
       PROVE  JoinedOK(y)'
  BY <1>11 DEF CloseResponses
<1>12. ASSUME NEW x \in Sess, LeaveSubSession(x)
       PROVE  JoinedOK(y)'
  BY <1>12 DEF LeaveSubSession
<1>13. ASSUME NEW x \in Sess, RespondTake(x)
       PROVE  JoinedOK(y)'
  BY <1>13 DEF RespondTake
<1>14. ASSUME NEW x \in Sess, RespondSend(x)
       PROVE  JoinedOK(y)'
  BY <1>14 DEF RespondSend
<1>15. ASSUME NEW x \in Sess, RespondShutdown(x)
       PROVE  JoinedOK(y)'
  BY <1>15 DEF RespondShutdown
<1>16. ASSUME NEW x \in Sess, NEW S \in SUBSET Subs, ProcessSubscribe(x, S)
       PROVE  JoinedOK(y)'
  BY <1>16 DEF ProcessSubscribe, AddSubscriptions
<1>17. ASSUME NEW x \in Sess, NEW S \in SUBSET Subs, EndOfStream(x, S)
       PROVE  JoinedOK(y)'
  BY <1>17 DEF EndOfStream, AddSubscriptions
<1>18. ASSUME NEW x \in Sess, NEW s \in Subs, AddDynamic(x, s)
       PROVE  JoinedOK(y)'
  BY <1>18 DEF AddDynamic, AddEntry, Begin, eventVars
<1>19. ASSUME NEW x \in Sess, NEW s \in Subs, UnregisterSub(x, s)
       PROVE  JoinedOK(y)'
  BY <1>19 DEF UnregisterSub, Unregister
<1>20. ASSUME NEW x \in Sess, NEW c \in SUBSET Events, SyncCallback(x, c)
       PROVE  JoinedOK(y)'
  BY <1>20 DEF SyncCallback, Begin
<1>21. ASSUME NEW s \in Subs, RunShutdown(s)
       PROVE  JoinedOK(y)'
  BY <1>21 DEF RunShutdown
<1>22. ASSUME NEW s \in Subs, RunReceive(s)
       PROVE  JoinedOK(y)'
  BY <1>22 DEF RunReceive
<1>23. ASSUME NEW s \in Subs, RunRLock(s)
       PROVE  JoinedOK(y)'
  BY <1>23 DEF RunRLock, RLock
<1>24. ASSUME NEW s \in Subs, RunSend(s)
       PROVE  JoinedOK(y)'
  BY <1>24 DEF RunSend, RUnlock
<1>25. ASSUME NEW s \in Subs, RunFails(s)
       PROVE  JoinedOK(y)'
  BY <1>25 DEF RunFails, RUnlock
<1>26. ASSUME NEW p \in Writers, NEW c \in SUBSET Events, Write(p, c)
       PROVE  JoinedOK(y)'
  BY <1>26 DEF Write, Begin
<1>27. ASSUME NEW m \in Events, SetRPC(m)
       PROVE  JoinedOK(y)'
  BY <1>27 DEF SetRPC
<1>28. CASE UNCHANGED vars
  BY <1>28 DEF vars
<1> QED
  BY NextCases, <1>1, <1>2, <1>3, <1>4, <1>5, <1>6, <1>7, <1>8, <1>9, <1>10,
     <1>11, <1>12, <1>13, <1>14, <1>15, <1>16, <1>17, <1>18, <1>19, <1>20,
     <1>21, <1>22, <1>23, <1>24, <1>25, <1>26, <1>27, <1>28

\* SubsOK: the subscribers keep step with the handler.
LEMMA SubsStep ==
    ASSUME IInv, [Next]_vars, NEW y \in Sess
    PROVE  SubsOK(y)'
<1> USE DEF SubsOK, HandlerOK, JoinedOK, LiveReceivers, IInv, TypeOK, Streaming, Shutdown, SetUp, Joint, Settling, Stopping, SubsOf, lockVars, queueVars, writerVars, eventVars, treeVars, handlerVars, runVars,
            responderVars, telemetryVars
<1>1. ASSUME NEW p \in Procs, CallStep(p)
      PROVE  SubsOK(y)'
  <2>1. UNCHANGED <<receivers, telemetryVars>>
    BY <1>1 DEF CallStep, WriterStep, Lock, SetEvent, SetEventFails, EventComplete, EndEvents, Unlock
  <2>2. ready' \subseteq ready \cup receivers
    BY <1>1 DEF CallStep, WriterStep, Lock, SetEvent, SetEventFails, EventComplete, EndEvents, Unlock, Raise
  <2>3. SubsOK(y) /\ UNCHANGED <<receivers, hpc, hcur, hlist, sub, rpc, runpc>>
    BY <2>1
  <2> HIDE DEF IInv, TypeOK, HandlerOK, JoinedOK, LiveReceivers
  <2> QED
    BY <2>2, <2>3
<1>2. ASSUME NEW x \in Sess, StartSubSession(x)
      PROVE  SubsOK(y)'
  <2>1. UNCHANGED <<eventVars, hlist, hcur, sub, runpc>> /\ hpc[x] = "new"
    BY <1>2, Zenon DEF StartSubSession
  <2>2. \/ hpc' = [hpc EXCEPT ![x] = "done"] /\ UNCHANGED rpc
        \/ hpc' = [hpc EXCEPT ![x] = "recv"] /\ rpc' = [rpc EXCEPT ![x] = "select"]
    BY <1>2, Zenon DEF StartSubSession
  <2>3. SubsOK(y) /\ SubsOK(x) /\ hpc \in [Sess -> {"new", "recv", "dynamic", "register", "sync", "init"} \cup Stopping]
            /\ rpc \in [Sess -> {"none", "select", "send", "done"}]
    OBVIOUS
  <2> HIDE DEF IInv, TypeOK, HandlerOK, JoinedOK, LiveReceivers
  <2>4. CASE y = x
    BY <2>1, <2>2, <2>3, <2>4
  <2>5. CASE y # x
    <3>1. hpc'[y] = hpc[y] /\ rpc'[y] = rpc[y]
      BY <2>2, <2>3, <2>5
    <3>2. UNCHANGED <<hlist, hcur, sub, runpc, receivers, ready>>
      BY <2>1
    <3> QED
      BY <2>3, <3>1, <3>2
  <2> QED
    BY <2>4, <2>5
<1>3. ASSUME NEW x \in Sess, RegisterSub(x)
      PROVE  SubsOK(y)'
  BY <1>3 DEF RegisterSub, Register
<1>4. ASSUME NEW x \in Sess, InitTelemetryUpdate(x)
      PROVE  SubsOK(y)'
  BY <1>4 DEF InitTelemetryUpdate, RLock
<1>5. ASSUME NEW x \in Sess, InitSend(x)
      PROVE  SubsOK(y)'
  BY <1>5 DEF InitSend
<1>6. ASSUME NEW x \in Sess, StartRun(x)
      PROVE  SubsOK(y)'
  BY <1>6 DEF StartRun, RUnlock
<1>7. ASSUME NEW x \in Sess, InitFails(x)
      PROVE  SubsOK(y)'
  BY <1>7 DEF InitFails, RUnlock
<1>8. ASSUME NEW x \in Sess, Joined(x)
      PROVE  SubsOK(y)'
  BY <1>8 DEF Joined
<1>9. ASSUME NEW x \in Sess, DeleteDynamic(x)
      PROVE  SubsOK(y)'
  BY <1>9 DEF DeleteDynamic, Begin
<1>10. ASSUME NEW x \in Sess, DeleteSubscription(x)
       PROVE  SubsOK(y)'
  BY <1>10 DEF DeleteSubscription
<1>11. ASSUME NEW x \in Sess, CloseResponses(x)
       PROVE  SubsOK(y)'
  BY <1>11 DEF CloseResponses
<1>12. ASSUME NEW x \in Sess, LeaveSubSession(x)
       PROVE  SubsOK(y)'
  BY <1>12 DEF LeaveSubSession
<1>13. ASSUME NEW x \in Sess, RespondTake(x)
       PROVE  SubsOK(y)'
  BY <1>13 DEF RespondTake
<1>14. ASSUME NEW x \in Sess, RespondSend(x)
       PROVE  SubsOK(y)'
  BY <1>14 DEF RespondSend
<1>15. ASSUME NEW x \in Sess, RespondShutdown(x)
       PROVE  SubsOK(y)'
  BY <1>15 DEF RespondShutdown
<1>16. ASSUME NEW x \in Sess, NEW S \in SUBSET Subs, ProcessSubscribe(x, S)
       PROVE  SubsOK(y)'
  BY <1>16 DEF ProcessSubscribe, AddSubscriptions
<1>17. ASSUME NEW x \in Sess, NEW S \in SUBSET Subs, EndOfStream(x, S)
       PROVE  SubsOK(y)'
  BY <1>17 DEF EndOfStream, AddSubscriptions
<1>18. ASSUME NEW x \in Sess, NEW s \in Subs, AddDynamic(x, s)
       PROVE  SubsOK(y)'
  BY <1>18 DEF AddDynamic, AddEntry, Begin, eventVars
<1>19. ASSUME NEW x \in Sess, NEW s \in Subs, UnregisterSub(x, s)
       PROVE  SubsOK(y)'
  BY <1>19 DEF UnregisterSub, Unregister
<1>20. ASSUME NEW x \in Sess, NEW c \in SUBSET Events, SyncCallback(x, c)
       PROVE  SubsOK(y)'
  BY <1>20 DEF SyncCallback, Begin
<1>21. ASSUME NEW s \in Subs, RunShutdown(s)
       PROVE  SubsOK(y)'
  BY <1>21 DEF RunShutdown
<1>22. ASSUME NEW s \in Subs, RunReceive(s)
       PROVE  SubsOK(y)'
  BY <1>22 DEF RunReceive
<1>23. ASSUME NEW s \in Subs, RunRLock(s)
       PROVE  SubsOK(y)'
  BY <1>23 DEF RunRLock, RLock
<1>24. ASSUME NEW s \in Subs, RunSend(s)
       PROVE  SubsOK(y)'
  BY <1>24 DEF RunSend, RUnlock
<1>25. ASSUME NEW s \in Subs, RunFails(s)
       PROVE  SubsOK(y)'
  BY <1>25 DEF RunFails, RUnlock
<1>26. ASSUME NEW p \in Writers, NEW c \in SUBSET Events, Write(p, c)
       PROVE  SubsOK(y)'
  BY <1>26 DEF Write, Begin
<1>27. ASSUME NEW m \in Events, SetRPC(m)
       PROVE  SubsOK(y)'
  BY <1>27 DEF SetRPC
<1>28. CASE UNCHANGED vars
  BY <1>28 DEF vars
<1> QED
  BY NextCases, <1>1, <1>2, <1>3, <1>4, <1>5, <1>6, <1>7, <1>8, <1>9, <1>10,
     <1>11, <1>12, <1>13, <1>14, <1>15, <1>16, <1>17, <1>18, <1>19, <1>20,
     <1>21, <1>22, <1>23, <1>24, <1>25, <1>26, <1>27, <1>28

-----------------------------------------------------------------------------
(* The theorems. *)

LEMMA InitInv == Init => IInv
<1> SUFFICES ASSUME Init PROVE IInv
  OBVIOUS
<1> USE DEF Init, EventCtrlInit
<1>1. EventCtrlTypeOK
  BY NoEventType DEF EventCtrlTypeOK, Leaves
<1>2. TypeOK
  BY <1>1, NoEventType DEF TypeOK, Leaves
<1>3. LiveReceivers /\ ReadersOK
  BY DEF LiveReceivers, ReadersOK
<1>4. \A x \in Sess : HandlerOK(x) /\ SubsOK(x) /\ JoinedOK(x)
  BY DEF HandlerOK, SubsOK, JoinedOK, Streaming, SubsOf, SetUp, Joint, Settling
<1> QED
  BY <1>2, <1>3, <1>4 DEF IInv

\* IInv is inductive: Init establishes it and every step keeps it.
THEOREM Invariance == Spec => []IInv
<1>1. IInv /\ [Next]_vars => IInv'
  <2> SUFFICES ASSUME IInv, [Next]_vars PROVE IInv'
    OBVIOUS
  <2>1. TypeOK'
    BY TypeStep DEF IInv
  <2>2. LiveReceivers' /\ ReadersOK'
    BY LiveStep, ReadersStep
  <2>3. \A y \in Sess : HandlerOK(y)' /\ SubsOK(y)' /\ JoinedOK(y)'
    BY HandlerInvStep, SubsStep, JoinedStep
  <2> QED
    BY <2>1, <2>2, <2>3 DEF IInv
<1> QED
  BY InitInv, <1>1, PTL DEF Spec

\* Every variable has its type, whatever the numbers of sessions, subscribers,
\* writers and paths and the capacities of the channels.
THEOREM TypeCorrect == Spec => []TypeOK
<1>1. IInv => TypeOK
  BY DEF IInv
<1> QED
  BY Invariance, <1>1, PTL

\* No event is handed to a subscriber that deleteSubscription() has closed:
\* Unregister() precedes it on every path, and nobody registers it again.
THEOREM NoEventToDeleted == Spec => []LiveReceivers
<1>1. IInv => LiveReceivers
  BY DEF IInv
<1> QED
  BY Invariance, <1>1, PTL

\* Stop() closes respchan only when the responder and every run() of the
\* session have ended and released RLock, and its subscribers are unregistered.
THEOREM NoSendAfterClose == Spec => []TornDown
<1>1. IInv => TornDown
  BY DEF IInv, TornDown, LiveReceivers, ReadersOK, SubsOK, JoinedOK, Joint, Streaming, SubsOf
<1> QED
  BY Invariance, <1>1, PTL

-----------------------------------------------------------------------------
(* Server.subSession holds the sessions between their start and the end of    *)
(* Stop(), and never more than one above the maximum, for any number of them. *)

Outside == {"new", "done"}

CountInv == SessionsCounted /\ IsFiniteSet(subSession)

\* A step that leaves subSession alone and lets no session in or out.
LEMMA NobodyComesOrGoes ==
  ASSUME CountInv, subSession' = subSession,
         \A x \in Sess : hpc'[x] \in Outside <=> hpc[x] \in Outside
  PROVE  CountInv'
<1>1. subSession' = {x \in Sess : hpc'[x] \notin {"new", "done"}}
  BY DEF CountInv, SessionsCounted, Outside
<1> QED
  BY <1>1 DEF CountInv, SessionsCounted

\* A handler that goes on without coming to its end.
LEMMA HandlerMoves ==
  ASSUME CountInv, TypeOK, NEW x \in Sess, NEW v,
         hpc[x] \notin Outside, v \notin Outside,
         hpc' = [hpc EXCEPT ![x] = v], subSession' = subSession
  PROVE  CountInv'
<1>1. \A y \in Sess : hpc'[y] \in Outside <=> hpc[y] \in Outside
  BY DEF TypeOK
<1> QED
  BY <1>1, NobodyComesOrGoes

\* startSubSession() admits a session while there are no more than the maximum.
LEMMA SessionStarts ==
  ASSUME CountInv, TypeOK, NEW x \in Sess, StartSubSession(x)
  PROVE  CountInv'
<1>1. hpc[x] = "new" /\ x \notin subSession
  BY DEF StartSubSession, CountInv, SessionsCounted
<1>2. CASE Cardinality(subSession) > MaxSubSession
  <2>1. subSession' = subSession /\ hpc' = [hpc EXCEPT ![x] = "done"]
    BY <1>2 DEF StartSubSession
  <2>2. \A y \in Sess : hpc'[y] \in Outside <=> hpc[y] \in Outside
    BY <1>1, <2>1 DEF Outside, TypeOK
  <2> QED
    BY <2>1, <2>2, NobodyComesOrGoes
<1>3. CASE ~ (Cardinality(subSession) > MaxSubSession)
  <2>1. subSession' = subSession \cup {x} /\ hpc' = [hpc EXCEPT ![x] = "recv"]
    BY <1>3 DEF StartSubSession
  <2>2. IsFiniteSet(subSession') /\ Cardinality(subSession') = Cardinality(subSession) + 1
    BY <1>1, <2>1, FS_AddElement DEF CountInv
  <2>3. Cardinality(subSession) \in Nat /\ MaxSubSession \in Nat
    BY FS_CardinalityType, TelemetryAssumption DEF CountInv, TelemetryAssumption
  <2>4. subSession' = {y \in Sess : hpc'[y] \notin {"new", "done"}}
    BY <2>1 DEF CountInv, SessionsCounted, TypeOK
  <2>5. Cardinality(subSession') <= MaxSubSession + 1
    BY <1>3, <2>2, <2>3
  <2> QED
    BY <2>2, <2>4, <2>5 DEF CountInv, SessionsCounted
<1> QED
  BY <1>2, <1>3

\* The end of Stop() takes the session out.
LEMMA SessionLeaves ==
  ASSUME CountInv, TypeOK, NEW x \in Sess, LeaveSubSession(x)
  PROVE  CountInv'
<1>1. hpc[x] = "leave" /\ hpc' = [hpc EXCEPT ![x] = "done"] /\ subSession' = subSession \ {x}
  BY DEF LeaveSubSession
<1>2. x \in subSession
  BY <1>1 DEF CountInv, SessionsCounted
<1>3. IsFiniteSet(subSession') /\ Cardinality(subSession') = Cardinality(subSession) - 1
  BY <1>1, <1>2, FS_RemoveElement DEF CountInv
<1>4. Cardinality(subSession) \in Nat /\ MaxSubSession \in Nat
  BY FS_CardinalityType, TelemetryAssumption DEF CountInv, TelemetryAssumption
<1>5. subSession' = {y \in Sess : hpc'[y] \notin {"new", "done"}}
  BY <1>1 DEF CountInv, SessionsCounted, TypeOK
<1>6. Cardinality(subSession') <= MaxSubSession + 1
  BY <1>3, <1>4 DEF CountInv, SessionsCounted
<1> QED
  BY <1>3, <1>5, <1>6 DEF CountInv, SessionsCounted

LEMMA CountStep == CountInv /\ IInv /\ [Next]_vars => CountInv'
<1> SUFFICES ASSUME CountInv, IInv, [Next]_vars
             PROVE  CountInv'
  OBVIOUS
<1> TypeOK
  BY DEF IInv
<1>1. CASE UNCHANGED <<subSession, hpc>>
  BY <1>1, NobodyComesOrGoes
<1>2. ASSUME NEW x \in Sess, StartSubSession(x)
      PROVE  CountInv'
  BY <1>2, SessionStarts
<1>3. ASSUME NEW x \in Sess, LeaveSubSession(x)
      PROVE  CountInv'
  BY <1>3, SessionLeaves
<1>4. ASSUME NEW x \in Sess, NEW S \in SUBSET Subs, ProcessSubscribe(x, S) \/ EndOfStream(x, S)
      PROVE  CountInv'
  <2>1. PICK v \in {"dynamic", "wait"} : hpc' = [hpc EXCEPT ![x] = v]
    BY <1>4 DEF ProcessSubscribe, EndOfStream
  <2>2. hpc[x] \notin Outside /\ subSession' = subSession
    BY <1>4 DEF ProcessSubscribe, EndOfStream, Outside
  <2>3. v \notin Outside
    BY DEF Outside
  <2> QED
    BY <2>1, <2>2, <2>3, HandlerMoves
<1>5. ASSUME NEW x \in Sess, NEW s \in Subs, AddDynamic(x, s) \/ UnregisterSub(x, s)
      PROVE  CountInv'
  <2>1. PICK v \in {"register", "delinfo"} : hpc' = [hpc EXCEPT ![x] = v]
    BY <1>5 DEF AddDynamic, AddEntry, UnregisterSub
  <2>2. hpc[x] \notin Outside /\ subSession' = subSession
    BY <1>5 DEF AddDynamic, AddEntry, UnregisterSub, Outside
  <2>3. v \notin Outside
    BY DEF Outside
  <2> QED
    BY <2>1, <2>2, <2>3, HandlerMoves
<1>6. ASSUME NEW x \in Sess,
             RegisterSub(x) \/ InitTelemetryUpdate(x) \/ StartRun(x) \/ InitFails(x) \/ Joined(x)
      PROVE  CountInv'
  <2>1. PICK v \in {"sync", "init", "recv", "dynamic", "wait", "unregister"} :
          hpc' = [hpc EXCEPT ![x] = v]
    BY <1>6 DEF RegisterSub, InitTelemetryUpdate, StartRun, InitFails, Joined
  <2>2. hpc[x] \notin Outside /\ subSession' = subSession
    BY <1>6 DEF RegisterSub, InitTelemetryUpdate, StartRun, InitFails, Joined, Outside
  <2>3. v \notin Outside
    BY DEF Outside
  <2> QED
    BY <2>1, <2>2, <2>3, HandlerMoves
<1>7. ASSUME NEW x \in Sess, DeleteDynamic(x) \/ DeleteSubscription(x) \/ CloseResponses(x)
      PROVE  CountInv'
  <2>1. PICK v \in {"delsub", "unregister", "leave"} : hpc' = [hpc EXCEPT ![x] = v]
    BY <1>7 DEF DeleteDynamic, DeleteSubscription, CloseResponses
  <2>2. hpc[x] \notin Outside /\ subSession' = subSession
    BY <1>7 DEF DeleteDynamic, DeleteSubscription, CloseResponses, Outside
  <2>3. v \notin Outside
    BY DEF Outside
  <2> QED
    BY <2>1, <2>2, <2>3, HandlerMoves
<1>8. ASSUME NEW x \in Sess, NEW c \in SUBSET Events, SyncCallback(x, c)
      PROVE  CountInv'
  BY <1>8, <1>1 DEF SyncCallback, handlerVars
<1>9. ASSUME NEW x \in Sess,
             InitSend(x) \/ RespondTake(x) \/ RespondSend(x) \/ RespondShutdown(x)
      PROVE  CountInv'
  BY <1>9, <1>1 DEF InitSend, RespondTake, RespondSend, RespondShutdown, handlerVars
<1>10. ASSUME NEW s \in Subs,
              RunShutdown(s) \/ RunReceive(s) \/ RunRLock(s) \/ RunSend(s) \/ RunFails(s)
       PROVE  CountInv'
  BY <1>10, <1>1 DEF RunShutdown, RunReceive, RunRLock, RunSend, RunFails, handlerVars
<1>11. ASSUME NEW p \in Procs, CallStep(p)
       PROVE  CountInv'
  BY <1>11, <1>1 DEF CallStep, telemetryVars, handlerVars
<1>12. ASSUME NEW p \in Writers, NEW c \in SUBSET Events, Write(p, c)
       PROVE  CountInv'
  BY <1>12, <1>1 DEF Write, handlerVars
<1>13. ASSUME NEW m \in Events, SetRPC(m)
       PROVE  CountInv'
  BY <1>13, <1>1 DEF SetRPC, handlerVars
<1>14. CASE UNCHANGED vars
  BY <1>14, <1>1 DEF vars, telemetryVars, handlerVars
<1> QED
  BY NextCases, <1>2, <1>3, <1>4, <1>5, <1>6, <1>7, <1>8, <1>9, <1>10, <1>11, <1>12,
     <1>13, <1>14

\* A session has a place from its start to the end of Stop(), and no more than
\* one above maxSubSession have one at a time.  (startSubSession, Stop)
THEOREM PlacesCounted == Spec => []SessionsCounted
<1>1. Init => CountInv
  BY FS_EmptySet, TelemetryAssumption DEF Init, CountInv, SessionsCounted, TelemetryAssumption
<1>2. CountInv => SessionsCounted
  BY DEF CountInv
<1> QED
  BY <1>1, <1>2, CountStep, Invariance, PTL DEF Spec
=============================================================================
