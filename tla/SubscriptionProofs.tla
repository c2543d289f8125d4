------------------------- MODULE SubscriptionProofs -------------------------
(***************************************************************************)
(* Proofs about Subscription, for any number of sessions, writers,         *)
(* requests and paths: whatever a client asks for is served with the       *)
(* options it asked for, its subscribers are set up when its request is    *)
(* done, and IDs and entries are right unless handlers race for subID.     *)
(***************************************************************************)
EXTENDS Subscription, TLAPS

USE DEF Objs, Made

-----------------------------------------------------------------------------
(* Sequences of subscribers.                                                *)

LEMMA ElementsAppend ==
    ASSUME NEW s \in Seq(Objs), NEW e \in Objs
    PROVE  /\ Append(s, e) \in Seq(Objs) /\ Append(s, e) # <<>>
           /\ Elements(Append(s, e)) = Elements(s) \cup {e}
<1>1. Append(s, e) \in Seq(Objs) /\ Len(Append(s, e)) = Len(s) + 1 /\ Len(s) \in Nat
    OBVIOUS
<1>2. \A i \in DOMAIN s : i \in DOMAIN Append(s, e) /\ Append(s, e)[i] = s[i]
    OBVIOUS
<1>3. \A i \in DOMAIN Append(s, e) : i \in DOMAIN s \/ i = Len(s) + 1
    OBVIOUS
<1>4. Len(s) + 1 \in DOMAIN Append(s, e) /\ Append(s, e)[Len(s) + 1] = e
    OBVIOUS
<1>5. QED
    BY <1>1, <1>2, <1>3, <1>4 DEF Elements

LEMMA ElementsTail ==
    ASSUME NEW S, NEW s \in Seq(S), s # <<>>
    PROVE  /\ Tail(s) \in Seq(S) /\ Head(s) \in S
           /\ Elements(s) = Elements(Tail(s)) \cup {Head(s)}
<1>1. Tail(s) \in Seq(S) /\ Len(Tail(s)) = Len(s) - 1 /\ Len(s) \in Nat /\ Len(s) > 0
    OBVIOUS
<1>2. Head(s) = s[1] /\ 1 \in DOMAIN s /\ s[1] \in S
    BY <1>1
<1>3. \A i \in DOMAIN Tail(s) : i + 1 \in DOMAIN s /\ Tail(s)[i] = s[i + 1]
    BY <1>1
<1>4. \A i \in DOMAIN s : i = 1 \/ (i - 1 \in DOMAIN Tail(s) /\ s[i] = Tail(s)[i - 1])
    BY <1>1
<1>5. QED
    BY <1>1, <1>2, <1>3, <1>4 DEF Elements

LEMMA ElementsOne ==
    ASSUME NEW S, NEW n \in S
    PROVE  /\ <<n>> \in Seq(S) /\ <<n>> # <<>> /\ Len(<<n>>) = 1 /\ Head(<<n>>) = n
           /\ Elements(<<n>>) = {n}
BY DEF Elements

LEMMA ElementsNone == Elements(<<>>) = {} /\ \A S : <<>> \in Seq(S)
BY DEF Elements

-----------------------------------------------------------------------------
(* The key.                                                                 *)

LEMMA SixEqual ==
    ASSUME NEW a1, NEW a2, NEW a3, NEW a4, NEW a5, NEW a6,
           NEW b1, NEW b2, NEW b3, NEW b4, NEW b5, NEW b6,
           <<a1, a2, a3, a4, a5, a6>> = <<b1, b2, b3, b4, b5, b6>>
    PROVE  a3 = b3 /\ a4 = b4 /\ a5 = b5 /\ a6 = b6
OBVIOUS

Modes == {"STREAM", "POLL"}

LEMMA KeyModeList ==
    ASSUME NEW m1 \in Modes, NEW l1, NEW i1, NEW m2 \in Modes, NEW l2, NEW i2,
           Key(m1, l1, i1) = Key(m2, l2, i2)
    PROVE  m1 = m2 /\ l1 = l2
<1>1. Key(m1, l1, i1)[1] = m1 /\ Key(m1, l1, i1)[2] = l1
    BY DEF Key
<1>2. Key(m2, l2, i2)[1] = m2 /\ Key(m2, l2, i2)[2] = l2
    BY DEF Key
<1>3. QED
    BY <1>1, <1>2

\* Subscriptions with the same key are served with the same intervals.
LEMMA KeyFixesConfig ==
    ASSUME NEW m1 \in Modes, NEW l1, NEW i1, NEW m2 \in Modes, NEW l2, NEW i2,
           Key(m1, l1, i1) = Key(m2, l2, i2)
    PROVE  m1 = m2 /\ l1 = l2 /\ StreamConfig(m1, i1) = StreamConfig(m2, i2)
<1>1. m1 = m2 /\ l1 = l2
    BY KeyModeList
<1>2. CASE m1 = "POLL"
    BY <1>1, <1>2 DEF StreamConfig
<1>3. CASE m1 = "STREAM"
    <2>1. /\ Key(m1, l1, i1) = <<m1, l1, i1.submode, i1.sample, i1.heartbeat, i1.suppress>>
          /\ Key(m2, l2, i2) = <<m2, l2, i2.submode, i2.sample, i2.heartbeat, i2.suppress>>
        BY <1>1, <1>3 DEF Key
    <2>2. <<m1, l1, i1.submode, i1.sample, i1.heartbeat, i1.suppress>>
            = <<m2, l2, i2.submode, i2.sample, i2.heartbeat, i2.suppress>>
        BY <2>1
    <2>3. /\ i1.submode = i2.submode /\ i1.sample = i2.sample
          /\ i1.heartbeat = i2.heartbeat /\ i1.suppress = i2.suppress
        BY <2>2, SixEqual
    <2>4. QED
        BY <1>1, <1>3, <2>3 DEF StreamConfig
<1>4. QED
    BY <1>1, <1>2, <1>3 DEF Modes

-----------------------------------------------------------------------------
(* Every step of the system.                                                *)

\* An error of addDynamicSubscription() with the entry in hand.
MergeFailed(x) == \E R \in SUBSET registered : MergeFails(x, R)

\* deleteSubscription() is done with the subscriber, and the entry may be left.
Ended(x) ==
    \/ Deleted(x)
    \/ NothingToDelete(x)
    \/ \E R \in SUBSET registered : DeleteFails(x, R)

LEMMA StepOf ==
    ASSUME NEW x \in Sess, SessionStep(x)
    PROVE  \/ \E r \in Requests[x] : Receive(x, r)
           \/ EndOfStream(x)
           \/ \E n \in Objs : AddPath(x, n)
           \/ ReadID(x)
           \/ WriteID(x)
           \/ \E id \in {tmp[x] + 1, subID} : Create(x, id)
           \/ Refuse(x)
           \/ LockMutex(x)
           \/ AddFails(x)
           \/ MergeInfo(x)
           \/ MergeFailed(x)
           \/ Merged(x)
           \/ RegisterSub(x)
           \/ InitTelemetryUpdate(x)
           \/ StartRun(x)
           \/ Joined(x)
           \/ \E n \in Objs : UnregisterSub(x, n)
           \/ DeleteInfo(x)
           \/ Ended(x)
           \/ Leave(x)
BY DEF SessionStep, HandlerStep, Failure, MergeFailed, Ended

\* The program begins to change the tree, or has changed it.
ProgramStep ==
    \/ \E w \in Writers : \/ \E q \in Paths : Write(w, q)
                           \/ \E c \in InfoChanges : WriteInfo(w, c)
    \/ \E R \in SUBSET registered : \/ \E q \in Paths : WriteFails(q, R)
                                    \/ \E c \in InfoChanges : ReplaceInfo(c, R)

\* A step of a run(), of a change of the tree, or none.
Outside ==
    \/ \E n \in Objs : RunStep(n) \/ EventComplete(n)
    \/ \E w \in Writers : WriteDone(w)
    \/ ProgramStep
    \/ UNCHANGED vars

LEMMA StepCases ==
    ASSUME [Next]_vars
    PROVE  (\E x \in Sess : SessionStep(x)) \/ Outside
BY DEF Next, Outside, ProgramStep

\* The program leaves the subscribers alone, and the entries but for those it changes.
LEMMA ProgramLeaves ==
    ASSUME ProgramStep
    PROVE  /\ UNCHANGED <<subID, made, obj, Sub, registered, queue, mutex, run, hpc, requestVars,
                          asked, shown, raced, requests>>
           /\ lock = Nobody /\ lock' \in Writers \cup {Nobody}
           /\ left' \subseteq left \cup registered
           /\ writes' = writes + 1
           /\ \/ UNCHANGED <<info, astray>>
              \/ \E c \in InfoChanges : info' = Changed(c) /\ astray' = astray \cup c.ids
<1> USE DEF objVars, requestVars
<1>1. ASSUME NEW w \in Writers, NEW q \in Paths, Write(w, q)
      PROVE  /\ UNCHANGED <<subID, made, obj, Sub, registered, queue, mutex, run, hpc, requestVars,
                            asked, shown, raced, requests, info, astray>>
             /\ lock = Nobody /\ lock' = w
             /\ left' \subseteq left \cup registered
             /\ writes' = writes + 1
    BY <1>1 DEF Write, LockAndRaise, Receivers, Disturb
<1>2. ASSUME NEW w \in Writers, NEW c \in InfoChanges, WriteInfo(w, c)
      PROVE  /\ UNCHANGED <<subID, made, obj, Sub, registered, queue, mutex, run, hpc, requestVars,
                            asked, shown, raced, requests>>
             /\ lock = Nobody /\ lock' = w
             /\ left' \subseteq left \cup registered
             /\ writes' = writes + 1
             /\ info' = Changed(c) /\ astray' = astray \cup c.ids
    BY <1>2 DEF WriteInfo, LockAndRaise, Receivers, Disturb
<1>3. ASSUME NEW R, NEW q \in Paths, WriteFails(q, R)
      PROVE  /\ UNCHANGED <<subID, made, obj, Sub, registered, queue, mutex, run, hpc, requestVars,
                            asked, shown, raced, requests, info, astray>>
             /\ lock = Nobody /\ lock' = Nobody
             /\ left' \subseteq left \cup registered
             /\ writes' = writes + 1
    BY <1>3 DEF WriteFails, RaiseSome, Receivers, Disturb
<1>4. ASSUME NEW R, NEW c \in InfoChanges, ReplaceInfo(c, R)
      PROVE  /\ UNCHANGED <<subID, made, obj, Sub, registered, queue, mutex, run, hpc, requestVars,
                            asked, shown, raced, requests>>
             /\ lock = Nobody /\ lock' = Nobody
             /\ left' \subseteq left \cup registered
             /\ writes' = writes + 1
             /\ info' = Changed(c) /\ astray' = astray \cup c.ids
    BY <1>4 DEF ReplaceInfo, RaiseSome, Receivers, Disturb
<1> HIDE DEF objVars, requestVars
<1>5. QED
    BY <1>1, <1>2, <1>3, <1>4 DEF ProgramStep

\* Nor do the others deal with what the handlers deal with; runs start and end.
LEMMA OutsideLeaves ==
    ASSUME Outside, TypeOK
    PROVE  /\ UNCHANGED <<subID, made, obj, Sub, registered, hpc, requestVars, asked, shown, raced>>
           /\ \/ UNCHANGED <<info, astray>>
              \/ \E c \in InfoChanges : info' = Changed(c) /\ astray' = astray \cup c.ids
           /\ \A n \in Objs : run[n] # "none" => run'[n] # "none"
<1>1. ASSUME NEW n \in Objs, RunStep(n)
      PROVE  /\ UNCHANGED <<subID, made, obj, Sub, registered, hpc, requestVars, asked, shown, raced>>
             /\ UNCHANGED <<info, astray>>
             /\ \A k \in Objs : run[k] # "none" => run'[k] # "none"
    BY <1>1 DEF objVars, requestVars, history, RunStep, RunShutdown, RunReceive, RunExpired,
                RunSampling, RunLock, RunUpdate, RunSync, RunSynced, RunTo, LockAndRaise, Disturb,
                TypeOK
<1>2. ASSUME NEW n \in Objs, EventComplete(n)
      PROVE  UNCHANGED <<subID, made, obj, Sub, registered, hpc, requestVars, asked, shown, raced,
                         info, astray, run>>
    BY <1>2 DEF objVars, history, EventComplete
<1>3. ASSUME NEW w \in Writers, WriteDone(w)
      PROVE  UNCHANGED <<subID, made, obj, Sub, registered, hpc, requestVars, asked, shown, raced,
                         info, astray, run>>
    BY <1>3 DEF objVars, history, WriteDone, UnlockServer
<1>4. CASE UNCHANGED vars
    BY <1>4 DEF vars, objVars, eventVars, requestVars, history
<1>5. CASE ProgramStep
    BY <1>5, ProgramLeaves
<1>6. QED
    BY <1>1, <1>2, <1>3, <1>4, <1>5 DEF Outside

-----------------------------------------------------------------------------
(* Types, and what a handler knows at each place.                           *)

Base == TypeOK /\ (\A x \in Sess : HandlerOK(x)) /\ MembersOK

LEMMA PathAdded ==
    ASSUME NEW o \in Subscribers, NEW P \in SUBSET Paths
    PROVE  [o EXCEPT !.path = P] \in Subscribers
BY DEF Subscribers

\* The other fields stay as they are.
SameButPath(c, o) ==
    c.id = o.id /\ c.sess = o.sess /\ c.mode = o.mode /\ c.list = o.list /\ c.item = o.item

LEMMA PathOnly ==
    ASSUME NEW o \in Subscribers, NEW P
    PROVE  SameButPath([o EXCEPT !.path = P], o)
BY DEF Subscribers, SameButPath

LEMMA ItemType ==
    ASSUME TypeOK, NEW x \in Sess, HandlerOK(x), hpc[x] \in Adding
    PROVE  /\ Item(x) \in Items /\ Item(x).path \in Paths
           /\ req[x].mode \in Modes /\ req[x].list \in Nat /\ pos[x] \in 1 .. Len(req[x].items)
<1>1. req[x] \in Lists /\ pos[x] \in DOMAIN req[x].items
    BY SubscriptionAssumption DEF HandlerOK, TypeOK
<1>2. req[x].items \in Seq(Items) /\ req[x].mode \in Modes /\ req[x].list \in Nat
    BY <1>1 DEF Lists, Modes
<1>3. Item(x) \in Items /\ pos[x] \in 1 .. Len(req[x].items)
    BY <1>1, <1>2 DEF Item
<1>4. QED
    BY <1>2, <1>3 DEF Items

LEMMA HeadType ==
    ASSUME TypeOK, NEW x \in Sess, HandlerOK(x), hpc[x] \in AtHead
    PROVE  /\ Head(starting[x]) \in Objs /\ Head(starting[x]) \in Sub[x]
           /\ Tail(starting[x]) \in Seq(Objs)
           /\ Elements(starting[x]) = Elements(Tail(starting[x])) \cup {Head(starting[x])}
<1>1. starting[x] \in Seq(Objs) /\ starting[x] # <<>> /\ Elements(starting[x]) \subseteq Sub[x]
    BY DEF TypeOK, HandlerOK
<1>2. QED
    BY <1>1, ElementsTail

\* deleteSubscription() is the same whatever became of the entry.
LEMMA EndedIs ==
    ASSUME NEW x \in Sess, Ended(x)
    PROVE  /\ hpc[x] \in {"delete", "deleting"} /\ DeleteSubscription(x)
           /\ UNCHANGED <<subID, info, registered, queue>>
           /\ \/ /\ hpc[x] = "deleting" /\ lock = x /\ lock' = Nobody
                 /\ left = {} /\ left' = {}
                 /\ UNCHANGED <<astray, writes>>
              \/ /\ hpc[x] = "delete" /\ lock = Nobody /\ lock' = Nobody
                 /\ left' \subseteq left \cup registered
                 /\ \/ EntryOf(obj[Head(starting[x])].id) = {} /\ UNCHANGED <<astray, writes>>
                    \/ /\ astray' = astray \cup {obj[Head(starting[x])].id}
                       /\ writes' = writes + 1
<1>1. CASE Deleted(x)
    BY <1>1 DEF Deleted, UnlockServer
<1>2. CASE NothingToDelete(x)
    BY <1>2 DEF NothingToDelete, eventVars
<1>3. ASSUME NEW R, DeleteFails(x, R)
      PROVE  /\ hpc[x] = "delete" /\ DeleteSubscription(x)
             /\ UNCHANGED <<subID, info, registered, queue>>
             /\ lock = Nobody /\ lock' = Nobody
             /\ left' \subseteq left \cup registered
             /\ astray' = astray \cup {obj[Head(starting[x])].id}
             /\ writes' = writes + 1
    BY <1>3 DEF DeleteFails, RaiseSome, Disturb, Receivers
<1>4. QED
    BY <1>1, <1>2, <1>3 DEF Ended

LEMMA TypeStep ==
    ASSUME Base, [Next]_vars
    PROVE  TypeOK'
<1> USE DEF objVars, eventVars, requestVars, history, bounds
<1>0. TypeOK /\ \A x \in Sess : HandlerOK(x)
    BY DEF Base
<1>1. ASSUME NEW x \in Sess, NEW r \in Requests[x], Receive(x, r) PROVE TypeOK'
    <2>1. r \in Lists
        BY SubscriptionAssumption
    <2>2. /\ req' \in [Sess -> Lists] /\ pos' \in [Sess -> Nat] /\ hpc' \in [Sess -> States]
          /\ requests' \in [Sess -> Nat]
        BY <1>0, <1>1, <2>1 DEF Receive, TypeOK, States
    <2>3. QED
        BY <1>0, <1>1, <2>2 DEF Receive, TypeOK
<1>2. ASSUME NEW x \in Sess, \/ EndOfStream(x) \/ Joined(x) \/ Leave(x) \/ Refuse(x)
                             \/ ReadID(x) \/ WriteID(x)
      PROVE  TypeOK'
    <2>1. CASE EndOfStream(x) \/ Joined(x) \/ Leave(x)
        BY <1>0, <2>1 DEF EndOfStream, Joined, Leave, TypeOK, States
    <2>2. CASE Refuse(x)
        BY <1>0, <2>2, ElementsNone DEF Refuse, TypeOK, States
    <2>3. CASE ReadID(x)
        BY <1>0, <2>3 DEF ReadID, TypeOK, States
    <2>4. CASE WriteID(x)
        <3>1. subID' \in Nat /\ hpc' \in [Sess -> States]
            BY <1>0, <2>4 DEF WriteID, TypeOK, States
        <3>2. QED
            BY <1>0, <2>4, <3>1 DEF WriteID, TypeOK
    <2>5. QED
        BY <1>2, <2>1, <2>2, <2>3, <2>4
<1>3. ASSUME NEW x \in Sess, NEW n \in Objs, AddPath(x, n) PROVE TypeOK'
    <2>1. hpc[x] \in Adding /\ Item(x) \in Items /\ Item(x).path \in Paths
          /\ req[x].mode \in Modes /\ req[x].list \in Nat /\ pos[x] \in Nat
        BY <1>0, <1>3, ItemType DEF AddPath, Adding
    <2>2. obj[n] \in Subscribers /\ obj[n].path \in SUBSET Paths
        BY <1>0 DEF TypeOK, Subscribers
    <2>3. [obj[n] EXCEPT !.path = @ \cup {Item(x).path}] \in Subscribers
        BY <2>1, <2>2, PathAdded
    <2>4. obj' = [obj EXCEPT ![n] = [obj[n] EXCEPT !.path = @ \cup {Item(x).path}]]
        BY <1>3 DEF AddPath
    <2>5. obj' \in [Objs -> Subscribers]
        BY <1>0, <2>3, <2>4 DEF TypeOK
    <2>6. starting' \in [Sess -> Seq(Objs)]
        <3>1. Append(starting[x], n) \in Seq(Objs)
            BY <1>0 DEF TypeOK
        <3>2. QED
            BY <1>0, <1>3, <3>1 DEF AddPath, Accept, TypeOK
    <2>7. asked' \subseteq Sess \X Modes \X Nat \X Items
        <3>1. asked' = asked \cup {<<x, req[x].mode, req[x].list, Item(x)>>}
            BY <1>3 DEF AddPath, Accept
        <3>2. QED
            BY <1>0, <2>1, <3>1 DEF TypeOK, Modes
    <2>8. pos' \in [Sess -> Nat] /\ hpc' \in [Sess -> States]
        <3>1. /\ pos' = [pos EXCEPT ![x] = @ + 1]
              /\ \/ hpc' = [hpc EXCEPT ![x] = "add"]
                 \/ hpc' = [hpc EXCEPT ![x] = "start"]
            BY <1>3 DEF AddPath, Accept
        <3>2. pos \in [Sess -> Nat] /\ hpc \in [Sess -> States]
            BY <1>0 DEF TypeOK
        <3>3. "add" \in States /\ "start" \in States
            BY DEF States
        <3>4. QED
            BY <2>1, <3>1, <3>2, <3>3
    <2>9. UNCHANGED <<subID, made, Sub, eventVars, info, mutex, run, req, tmp, shown, raced, astray,
                        bounds>>
        BY <1>3 DEF AddPath
    <2>10. QED
        BY <1>0, <2>5, <2>6, <2>7, <2>8, <2>9 DEF TypeOK, States, Modes
<1>4. ASSUME NEW x \in Sess, NEW id \in {tmp[x] + 1, subID}, Create(x, id) PROVE TypeOK'
    <2>1. hpc[x] \in Adding /\ Item(x) \in Items /\ Item(x).path \in Paths
          /\ req[x].mode \in Modes /\ req[x].list \in Nat /\ pos[x] \in Nat
        BY <1>0, <1>4, ItemType DEF Create, Adding, Counting
    <2>2. id \in Nat /\ made + 1 \in Objs /\ made' \in 0 .. MaxSubs
        <3>1. subID \in Nat /\ tmp[x] \in Nat /\ made \in 0 .. MaxSubs
            BY <1>0 DEF TypeOK
        <3>2. made < MaxSubs /\ made' = made + 1
            BY <1>4 DEF Create
        <3>3. QED
            BY <3>1, <3>2, SubscriptionAssumption
    <2>3. obj' \in [Objs -> Subscribers]
        BY <1>0, <1>4, <2>1, <2>2 DEF Create, TypeOK, Subscribers, Modes
    <2>4. starting' \in [Sess -> Seq(Objs)]
        <3>1. Append(starting[x], made + 1) \in Seq(Objs)
            BY <1>0, <2>2 DEF TypeOK
        <3>2. QED
            BY <1>0, <1>4, <3>1 DEF Create, Accept, TypeOK
    <2>5. asked' \subseteq Sess \X Modes \X Nat \X Items
        <3>1. asked' = asked \cup {<<x, req[x].mode, req[x].list, Item(x)>>}
            BY <1>4 DEF Create, Accept
        <3>2. QED
            BY <1>0, <2>1, <3>1 DEF TypeOK, Modes
    <2>6. pos' \in [Sess -> Nat] /\ hpc' \in [Sess -> States]
        <3>1. /\ pos' = [pos EXCEPT ![x] = @ + 1]
              /\ \/ hpc' = [hpc EXCEPT ![x] = "add"]
                 \/ hpc' = [hpc EXCEPT ![x] = "start"]
            BY <1>4 DEF Create, Accept
        <3>2. pos \in [Sess -> Nat] /\ hpc \in [Sess -> States]
            BY <1>0 DEF TypeOK
        <3>3. "add" \in States /\ "start" \in States
            BY DEF States
        <3>4. QED
            BY <2>1, <3>1, <3>2, <3>3
    <2>7. Sub' \in [Sess -> SUBSET Objs]
        BY <1>0, <1>4, <2>2 DEF Create, TypeOK
    <2>8. QED
        BY <1>0, <1>4, <2>2, <2>3, <2>4, <2>5, <2>6, <2>7 DEF Create, Accept, TypeOK, Modes
<1>5. ASSUME NEW x \in Sess, \/ LockMutex(x) \/ MergeInfo(x) \/ Merged(x) \/ RegisterSub(x)
                             \/ InitTelemetryUpdate(x) \/ StartRun(x) \/ DeleteInfo(x) \/ Ended(x)
                             \/ AddFails(x) \/ MergeFailed(x)
      PROVE  TypeOK'
    <2>1. hpc[x] \in AtHead
        BY <1>5, EndedIs DEF LockMutex, MergeInfo, Merged, RegisterSub, InitTelemetryUpdate, StartRun,
                             DeleteInfo, AddFails, MergeFailed, MergeFails, AtHead
    <2> DEFINE n == Head(starting[x])
    <2>2. n \in Objs /\ Tail(starting[x]) \in Seq(Objs) /\ <<>> \in Seq(Objs)
        BY <1>0, <2>1, HeadType
    <2>3. obj[n] \in Subscribers /\ obj[n].path \in SUBSET Paths /\ obj[n].id \in Nat
        BY <1>0, <2>2 DEF TypeOK, Subscribers
    <2>4. Entry(n) \subseteq Nat \X Paths
        BY <2>3 DEF Entry
    <2> HIDE DEF n
    <2>5. CASE LockMutex(x)
        BY <1>0, <2>2, <2>5 DEF LockMutex, TypeOK, States, n
    <2>6. CASE MergeInfo(x)
        <3>1. /\ info' = info \cup Entry(n) /\ lock' = x
              /\ hpc' = [hpc EXCEPT ![x] = "merging"]
              /\ left' = left \/ left' = left \cup Receivers(InfoPath)
              /\ UNCHANGED <<registered, queue, subID, objVars, mutex, run, requestVars, history,
                             bounds>>
            BY <2>6 DEF MergeInfo, LockAndRaise, n
        <3>2. left' \subseteq Objs
            BY <1>0, <3>1 DEF Receivers, TypeOK
        <3>3. hpc' \in [Sess -> States]
            BY <1>0, <3>1 DEF TypeOK, States
        <3>4. QED
            BY <1>0, <2>4, <3>1, <3>2, <3>3 DEF TypeOK
    <2>7. CASE Merged(x)
        BY <1>0, <2>2, <2>7 DEF Merged, UnlockServer, TypeOK, States, n
    <2>8. CASE RegisterSub(x)
        <3>1. /\ UNCHANGED <<subID, objVars, queue, lock, left, info, mutex, run, history, bounds>>
              /\ UNCHANGED <<req, pos, tmp>> /\ registered' = registered \cup {n}
            BY <2>8 DEF RegisterSub, Started, n
        <3>2. starting' = starting \/ starting' = [starting EXCEPT ![x] = Tail(@)]
            BY <2>8 DEF RegisterSub, Started
        <3>3. hpc' \in [Sess -> States]
            BY <1>0, <2>8 DEF RegisterSub, Started, TypeOK, States
        <3>4. starting' \in [Sess -> Seq(Objs)]
            BY <1>0, <2>2, <3>2 DEF TypeOK, n
        <3>5. QED
            BY <1>0, <2>2, <3>1, <3>3, <3>4 DEF TypeOK
    <2>9. CASE InitTelemetryUpdate(x)
        <3>1. shown' \in [Objs -> SUBSET Paths]
            <4>1. shown' = shown \/ shown' = [shown EXCEPT ![n] = @ \cup obj[n].path]
                BY <2>9 DEF InitTelemetryUpdate, n
            <4>2. shown \in [Objs -> SUBSET Paths]
                BY <1>0 DEF TypeOK
            <4>3. QED
                BY <2>2, <2>3, <4>1, <4>2
        <3>2. /\ starting' = starting \/ starting' = [starting EXCEPT ![x] = <<>>]
              /\ \/ hpc' = [hpc EXCEPT ![x] = "run"]
                 \/ hpc' = [hpc EXCEPT ![x] = "wait"]
              /\ UNCHANGED <<subID, objVars, eventVars, info, mutex, run, req, pos, tmp, asked, raced,
                             astray, bounds>>
            BY <2>9 DEF InitTelemetryUpdate
        <3>3. starting' \in [Sess -> Seq(Objs)]
            BY <1>0, <2>2, <3>2 DEF TypeOK
        <3>4. hpc' \in [Sess -> States]
            BY <1>0, <3>2 DEF TypeOK, States
        <3>5. QED
            BY <1>0, <3>1, <3>2, <3>3, <3>4 DEF TypeOK
    <2>10. CASE StartRun(x)
        BY <1>0, <2>2, <2>10 DEF StartRun, Started, TypeOK, States, n
    <2>11. CASE DeleteInfo(x)
        BY <1>0, <2>2, <2>11 DEF DeleteInfo, LockAndRaise, Receivers, TypeOK, States, n
    <2>12. CASE Ended(x)
        <3>0. DeleteSubscription(x)
            BY <2>12, EndedIs
        <3>1. [obj[n] EXCEPT !.path = {}] \in Subscribers
            BY <2>3, PathAdded
        <3>2. obj' = [obj EXCEPT ![n] = [obj[n] EXCEPT !.path = {}]]
            BY <3>0 DEF DeleteSubscription, n
        <3>3. obj' \in [Objs -> Subscribers]
            BY <1>0, <3>1, <3>2 DEF TypeOK
        <3>4. /\ Sub' \in [Sess -> SUBSET Objs] /\ starting' \in [Sess -> Seq(Objs)]
              /\ hpc' \in [Sess -> States]
              /\ UNCHANGED <<made, mutex, run, req, pos, tmp, asked, shown, raced, requests>>
            BY <1>0, <2>2, <3>0 DEF DeleteSubscription, TypeOK, States, n
        <3>5. /\ UNCHANGED <<subID, info, registered, queue>>
              /\ lock' \in Sess \cup Writers \cup Objs \cup {Nobody}
              /\ left' \subseteq Objs /\ astray' \subseteq Nat /\ writes' \in Nat
            <4>1. left \subseteq Objs /\ registered \subseteq Objs /\ astray \subseteq Nat /\ writes \in Nat
                BY <1>0 DEF TypeOK
            <4>2. UNCHANGED <<subID, info, registered, queue>> /\ lock' = Nobody
                BY <2>12, EndedIs
            <4>3. left' \subseteq left \cup registered
                BY <2>12, EndedIs
            <4>4. astray' = astray \/ astray' = astray \cup {obj[n].id}
                BY <2>12, EndedIs DEF n
            <4>5. writes' = writes \/ writes' = writes + 1
                BY <2>12, EndedIs
            <4>6. writes' \in Nat
                BY <4>1, <4>5
            <4>7. QED
                BY <2>3, <4>1, <4>2, <4>3, <4>4, <4>6
        <3>6. QED
            BY <1>0, <3>3, <3>4, <3>5 DEF TypeOK
    <2>13. CASE AddFails(x)
        <3>0. /\ astray' = astray \cup {obj[n].id} /\ writes' = writes + 1
              /\ hpc' = [hpc EXCEPT ![x] = "register"]
            BY <2>13 DEF AddFails, Disturb, n
        <3>1. astray' \subseteq Nat /\ writes' \in Nat /\ hpc' \in [Sess -> States]
            <4>1. astray \subseteq Nat /\ writes \in Nat /\ hpc \in [Sess -> States]
                BY <1>0 DEF TypeOK
            <4>2. writes' \in Nat
                BY <3>0, <4>1
            <4>3. QED
                BY <2>3, <3>0, <4>1, <4>2 DEF States
        <3>2. QED
            BY <1>0, <2>13, <3>1 DEF AddFails, TypeOK
    <2>14. ASSUME NEW R, MergeFails(x, R) PROVE TypeOK'
        <3>0. /\ astray' = astray \cup {obj[n].id} /\ writes' = writes + 1
              /\ hpc' = [hpc EXCEPT ![x] = "register"]
            BY <2>14 DEF MergeFails, Disturb, n
        <3>1. astray' \subseteq Nat /\ writes' \in Nat /\ hpc' \in [Sess -> States]
            <4>1. astray \subseteq Nat /\ writes \in Nat /\ hpc \in [Sess -> States]
                BY <1>0 DEF TypeOK
            <4>2. writes' \in Nat
                BY <3>0, <4>1
            <4>3. QED
                BY <2>3, <3>0, <4>1, <4>2 DEF States
        <3>2. left' \subseteq Objs /\ UNCHANGED <<registered, queue, lock>>
            BY <1>0, <2>14 DEF MergeFails, RaiseSome, Receivers, TypeOK
        <3>3. info' \subseteq Nat \X Paths
            BY <1>0, <2>4, <2>14 DEF MergeFails, TypeOK, n
        <3>4. mutex' \in [Objs -> Sess \cup Objs \cup {Nobody}]
            BY <1>0, <2>2, <2>14 DEF MergeFails, TypeOK, n
        <3>5. QED
            BY <1>0, <2>14, <3>1, <3>2, <3>3, <3>4 DEF MergeFails, TypeOK
    <2>15. QED
        BY <1>5, <2>5, <2>6, <2>7, <2>8, <2>9, <2>10, <2>11, <2>12, <2>13, <2>14 DEF MergeFailed
<1>6. ASSUME NEW x \in Sess, NEW n \in Objs, UnregisterSub(x, n) PROVE TypeOK'
    <2>1. <<n>> \in Seq(Objs)
        OBVIOUS
    <2>2. QED
        BY <1>0, <1>6, <2>1 DEF UnregisterSub, TypeOK, States
<1>7. ASSUME NEW n \in Objs, RunStep(n) PROVE TypeOK'
    <2> DEFINE states == {"select", "event", "due", "update", "sample", "sync", "syncing", "done"}
    <2>1. \/ RunShutdown(n) \/ RunReceive(n) \/ RunExpired(n) \/ RunSampling(n) \/ RunLock(n)
          \/ (\E next \in {"select", "done"} : RunUpdate(n, next))
          \/ (\E q \in Paths : RunSync(n, q)) \/ RunSynced(n)
        BY <1>7 DEF RunStep
    <2>2. mutex' \in [Objs -> Sess \cup Objs \cup {Nobody}]
        BY <1>0, <2>1 DEF RunShutdown, RunReceive, RunExpired, RunSampling, RunLock, RunUpdate,
                          RunSync, RunSynced, TypeOK
    <2>3. lock' \in Sess \cup Writers \cup Objs \cup {Nobody}
        BY <1>0, <2>1 DEF RunShutdown, RunReceive, RunExpired, RunSampling, RunLock, RunUpdate,
                          RunSync, RunSynced, LockAndRaise, TypeOK
    <2>4. queue' \in [Objs -> 0 .. OnchangeCap]
        <3>1. CASE RunReceive(n)
            <4>1. queue[n] \in 0 .. OnchangeCap /\ OnchangeCap \in Nat
                BY <1>0, SubscriptionAssumption DEF TypeOK
            <4>2. queue[n] - 1 \in 0 .. OnchangeCap
                BY <3>1, <4>1 DEF RunReceive
            <4>3. QED
                BY <1>0, <3>1, <4>2 DEF RunReceive, TypeOK
        <3>2. CASE ~ RunReceive(n)
            BY <1>0, <2>1, <3>2 DEF RunShutdown, RunExpired, RunSampling, RunLock, RunUpdate,
                                    RunSync, RunSynced, LockAndRaise, TypeOK
        <3>3. QED
            BY <3>1, <3>2
    <2>5. \/ writes' = writes /\ \E state \in states : RunTo(n, state)
          \/ \E q \in Paths : RunSync(n, q)
        BY <2>1 DEF RunShutdown, RunReceive, RunExpired, RunSampling, RunLock, RunUpdate, RunSynced
    <2>6. CASE writes' = writes /\ \E state \in states : RunTo(n, state)
        BY <1>0, <2>2, <2>3, <2>4, <2>6 DEF RunTo, TypeOK
    <2>7. ASSUME NEW q \in Paths, RunSync(n, q) PROVE TypeOK'
        <3>1. registered \subseteq Objs /\ left \subseteq Objs /\ writes \in Nat
            BY <1>0 DEF TypeOK
        <3>2. /\ left' = left \cup Receivers(q) /\ writes' = writes + 1
              /\ astray' = astray /\ registered' = registered
            BY <2>7 DEF RunSync, LockAndRaise, Disturb
        <3>3. Receivers(q) \subseteq registered
            BY DEF Receivers
        <3>4. left' \subseteq Objs
            BY <3>1, <3>2, <3>3
        <3>5. writes' \in Nat
            BY <3>1, <3>2
        <3>6. run' \in [Objs -> {"none"} \cup states]
            BY <1>0, <2>7 DEF RunSync, TypeOK
        <3>7. UNCHANGED <<subID, objVars, info, hpc, requestVars, asked, shown, raced, requests>>
            BY <2>7 DEF RunSync
        <3>8. QED
            BY <1>0, <2>2, <2>3, <2>4, <3>2, <3>4, <3>5, <3>6, <3>7 DEF TypeOK
    <2>8. QED
        BY <2>5, <2>6, <2>7
<1>8. ASSUME NEW n \in Objs, EventComplete(n) PROVE TypeOK'
    <2>1. queue' \in [Objs -> 0 .. OnchangeCap]
        <3>1. queue[n] \in 0 .. OnchangeCap /\ OnchangeCap \in Nat /\ queue \in [Objs -> 0 .. OnchangeCap]
            BY <1>0, SubscriptionAssumption DEF TypeOK
        <3>2. obj[n].item.submode = "ON_CHANGE" => queue[n] + 1 \in 0 .. OnchangeCap
            BY <1>8, <3>1 DEF EventComplete
        <3>3. QED
            BY <1>8, <3>1, <3>2 DEF EventComplete
    <2>2. QED
        BY <1>0, <1>8, <2>1 DEF EventComplete, TypeOK
<1>9. ASSUME NEW w \in Writers, WriteDone(w) PROVE TypeOK'
    BY <1>0, <1>9 DEF WriteDone, UnlockServer, TypeOK
<1>10. CASE ProgramStep
    <2>1. writes \in Nat /\ left \subseteq Objs /\ registered \subseteq Objs /\ info \subseteq Nat \X Paths
          /\ astray \subseteq Nat
        BY <1>0 DEF TypeOK
    <2>2. left' \subseteq Objs /\ writes' \in Nat /\ lock' \in Writers \cup {Nobody}
        <3>1. left' \subseteq left \cup registered /\ lock' \in Writers \cup {Nobody}
              /\ writes' = writes + 1
            BY <1>10, ProgramLeaves
        <3>2. writes' \in Nat
            BY <2>1, <3>1
        <3>3. QED
            BY <2>1, <3>1, <3>2
    <2>3. info' \subseteq Nat \X Paths /\ astray' \subseteq Nat
        <3>1. ASSUME NEW c \in InfoChanges PROVE Changed(c) \subseteq Nat \X Paths /\ c.ids \subseteq Nat
            <4>1. c.ids \subseteq Nat /\ c.paths \subseteq Paths
                BY SubscriptionAssumption
            <4>2. QED
                BY <2>1, <4>1 DEF Changed
        <3>2. QED
            BY <1>10, <2>1, <3>1, ProgramLeaves
    <2>4. UNCHANGED <<subID, made, obj, Sub, registered, queue, mutex, run, hpc, requestVars,
                      asked, shown, raced, requests>>
        BY <1>10, ProgramLeaves
    <2>5. QED
        BY <1>0, <2>2, <2>3, <2>4 DEF TypeOK
<1>11. CASE UNCHANGED vars
    BY <1>0, <1>11 DEF vars, TypeOK
<1>12. QED
    BY <1>1, <1>2, <1>3, <1>4, <1>5, <1>6, <1>7, <1>8, <1>9, <1>10, <1>11, StepCases, StepOf
       DEF Outside

\* What one handler does is nothing to the others.
LEMMA OthersSame ==
    ASSUME TypeOK, NEW x \in Sess, SessionStep(x), NEW y \in Sess, y # x
    PROVE  /\ hpc'[y] = hpc[y] /\ req'[y] = req[y] /\ pos'[y] = pos[y] /\ tmp'[y] = tmp[y]
           /\ starting'[y] = starting[y] /\ Sub'[y] = Sub[y]
<1> USE DEF TypeOK, objVars, requestVars
<1>1. ASSUME NEW r \in Requests[x], Receive(x, r)
      PROVE  /\ UNCHANGED <<tmp, starting, Sub>>
             /\ hpc'[y] = hpc[y] /\ req'[y] = req[y] /\ pos'[y] = pos[y]
    BY <1>1 DEF Receive
<1>2. CASE EndOfStream(x) \/ Joined(x) \/ Leave(x) \/ Refuse(x) \/ ReadID(x) \/ WriteID(x)
    BY <1>2 DEF EndOfStream, Joined, Leave, Refuse, ReadID, WriteID
<1>3. ASSUME NEW n \in Objs, AddPath(x, n) \/ UnregisterSub(x, n)
      PROVE  /\ UNCHANGED <<req, tmp, Sub>>
             /\ hpc'[y] = hpc[y] /\ pos'[y] = pos[y] /\ starting'[y] = starting[y]
    BY <1>3 DEF AddPath, Accept, UnregisterSub
<1>4. ASSUME NEW id \in {tmp[x] + 1, subID}, Create(x, id)
      PROVE  /\ UNCHANGED <<req, tmp>>
             /\ hpc'[y] = hpc[y] /\ pos'[y] = pos[y] /\ starting'[y] = starting[y] /\ Sub'[y] = Sub[y]
    BY <1>4 DEF Create, Accept
<1>5. CASE LockMutex(x) \/ MergeInfo(x) \/ Merged(x) \/ DeleteInfo(x) \/ AddFails(x)
           \/ MergeFailed(x)
    BY <1>5 DEF LockMutex, MergeInfo, Merged, DeleteInfo, AddFails, MergeFailed, MergeFails
<1>6. CASE RegisterSub(x) \/ InitTelemetryUpdate(x) \/ StartRun(x)
    BY <1>6 DEF RegisterSub, InitTelemetryUpdate, StartRun, Started
<1>7. CASE Ended(x)
    <2>1. DeleteSubscription(x)
        BY <1>7, EndedIs
    <2>2. QED
        BY <2>1 DEF DeleteSubscription
<1>8. QED
    BY <1>1, <1>2, <1>3, <1>4, <1>5, <1>6, <1>7, StepOf

LEMMA HandlerStepOK ==
    ASSUME Base, [Next]_vars
    PROVE  \A x \in Sess : HandlerOK(x)'
<1> USE DEF objVars, eventVars, requestVars, history, bounds
<1>0. TypeOK /\ TypeOK' /\ \A x \in Sess : HandlerOK(x)
    BY TypeStep DEF Base
<1>1. CASE Outside
    BY <1>0, <1>1, OutsideLeaves DEF HandlerOK
<1>2. ASSUME NEW x \in Sess, SessionStep(x), NEW y \in Sess, y # x
      PROVE  HandlerOK(y)'
    BY <1>0, <1>2, OthersSame DEF HandlerOK
<1>3. ASSUME NEW x \in Sess, SessionStep(x)
      PROVE  HandlerOK(x)'
    <2>0. HandlerOK(x)
        BY <1>0
    <2> USE DEF Adding, Counting, AtHead
    <2>1. ASSUME NEW r \in Requests[x], Receive(x, r) PROVE HandlerOK(x)'
        <3>1. r \in Lists /\ r.items # <<>>
            BY SubscriptionAssumption
        <3>2. r.items \in Seq(Items) /\ 1 \in DOMAIN r.items
            BY <3>1 DEF Lists
        <3>3. QED
            BY <1>0, <2>0, <2>1, <3>2 DEF Receive, HandlerOK, TypeOK
    <2>2. CASE EndOfStream(x) \/ Joined(x) \/ ReadID(x) \/ WriteID(x)
        <3>1. UNCHANGED <<req, pos, starting, Sub>>
            BY <2>2 DEF EndOfStream, Joined, ReadID, WriteID
        <3>2. \/ hpc'[x] \in {"wait", "stop"}
              \/ hpc'[x] \in {"count", "make"} /\ hpc[x] \in Adding
            BY <1>0, <2>2 DEF EndOfStream, Joined, ReadID, WriteID, TypeOK
        <3>3. QED
            BY <2>0, <3>1, <3>2 DEF HandlerOK
    <2>3. CASE Leave(x)
        BY <1>0, <2>0, <2>3 DEF Leave, HandlerOK, TypeOK
    <2>4. CASE Refuse(x)
        BY <1>0, <2>0, <2>4, ElementsNone DEF Refuse, HandlerOK, TypeOK
    <2>5. ASSUME NEW n \in Objs, AddPath(x, n) PROVE HandlerOK(x)'
        <3>1. starting'[x] = Append(starting[x], n) /\ starting[x] \in Seq(Objs) /\ n \in Sub[x]
            BY <1>0, <2>5 DEF AddPath, Accept, Existing, TypeOK
        <3>2. starting'[x] # <<>> /\ Elements(starting'[x]) \subseteq Sub[x]
            <4>1. /\ Append(starting[x], n) # <<>>
                  /\ Elements(Append(starting[x], n)) = Elements(starting[x]) \cup {n}
                BY <3>1, ElementsAppend
            <4>2. QED
                BY <2>0, <3>1, <4>1 DEF HandlerOK
        <3>3. pos[x] \in 1 .. Len(req[x].items) /\ req[x] \in Requests[x]
            BY <1>0, <2>0, <2>5, ItemType DEF AddPath, HandlerOK
        <3>4. /\ Sub' = Sub /\ req' = req /\ pos'[x] = pos[x] + 1
              /\ hpc'[x] = IF pos[x] < Len(req[x].items) THEN "add" ELSE "start"
            BY <1>0, <2>5 DEF AddPath, Accept, TypeOK
        <3>5. hpc'[x] = "add" => pos'[x] \in DOMAIN req[x].items
            BY <3>3, <3>4, SubscriptionAssumption DEF Lists
        <3>6. QED
            BY <2>0, <3>2, <3>3, <3>4, <3>5 DEF HandlerOK
    <2>6. ASSUME NEW id \in {tmp[x] + 1, subID}, Create(x, id) PROVE HandlerOK(x)'
        <3>0. made + 1 \in Objs
            BY <1>0, <2>6, SubscriptionAssumption DEF Create, TypeOK
        <3>1. /\ starting'[x] = Append(starting[x], made + 1) /\ starting[x] \in Seq(Objs)
              /\ Sub'[x] = Sub[x] \cup {made + 1}
            BY <1>0, <2>6 DEF Create, Accept, TypeOK
        <3>2. starting'[x] # <<>> /\ Elements(starting'[x]) \subseteq Sub'[x]
            <4>1. /\ Append(starting[x], made + 1) # <<>>
                  /\ Elements(Append(starting[x], made + 1)) = Elements(starting[x]) \cup {made + 1}
                BY <3>0, <3>1, ElementsAppend
            <4>2. QED
                BY <2>0, <3>1, <4>1 DEF HandlerOK
        <3>3. pos[x] \in 1 .. Len(req[x].items) /\ req[x] \in Requests[x]
            BY <1>0, <2>0, <2>6, ItemType DEF Create, HandlerOK
        <3>4. /\ req' = req /\ pos'[x] = pos[x] + 1
              /\ hpc'[x] = IF pos[x] < Len(req[x].items) THEN "add" ELSE "start"
            BY <1>0, <2>6 DEF Create, Accept, TypeOK
        <3>5. hpc'[x] = "add" => pos'[x] \in DOMAIN req[x].items
            BY <3>3, <3>4, SubscriptionAssumption DEF Lists
        <3>6. QED
            BY <2>0, <3>2, <3>3, <3>4, <3>5 DEF HandlerOK
    <2>7. CASE LockMutex(x) \/ MergeInfo(x) \/ Merged(x) \/ DeleteInfo(x) \/ AddFails(x)
               \/ MergeFailed(x)
        <3>1. UNCHANGED <<req, pos, starting, Sub>>
            BY <2>7 DEF LockMutex, MergeInfo, Merged, DeleteInfo, AddFails, MergeFailed, MergeFails
        <3>2. /\ hpc[x] \in AtHead /\ hpc'[x] \in {"merge", "merging", "register", "deleting"}
              /\ hpc'[x] = "deleting" => hpc[x] = "delete"
            BY <1>0, <2>7 DEF LockMutex, MergeInfo, Merged, DeleteInfo, AddFails, MergeFailed,
                              MergeFails, TypeOK, AtHead
        <3>3. QED
            BY <2>0, <3>1, <3>2 DEF HandlerOK
    <2>8. ASSUME hpc[x] \in AtHead \ {"delete", "deleting"}, Started(x), Sub' = Sub PROVE HandlerOK(x)'
        <3>1. starting'[x] = Tail(starting[x]) /\ Elements(Tail(starting[x])) \subseteq Sub[x]
            <4>1. starting' = [starting EXCEPT ![x] = Tail(starting[x])] /\ x \in DOMAIN starting
                BY <1>0, <2>8 DEF Started, TypeOK
            <4>2. Elements(Tail(starting[x])) \subseteq Elements(starting[x])
                BY <1>0, <2>0, <2>8, HeadType
            <4>3. QED
                BY <2>0, <4>1, <4>2 DEF HandlerOK
        <3>2. hpc'[x] = IF starting'[x] = <<>> THEN "recv" ELSE "start"
            BY <1>0, <2>8, <3>1 DEF Started, TypeOK
        <3>3. QED
            BY <2>0, <2>8, <3>1, <3>2 DEF Started, HandlerOK
    <2>9. CASE RegisterSub(x)
        <3>1. CASE Started(x)
            BY <2>8, <2>9, <3>1 DEF RegisterSub
        <3>2. CASE hpc' = [hpc EXCEPT ![x] = "init"] /\ UNCHANGED requestVars
            BY <1>0, <2>0, <2>9, <3>2 DEF RegisterSub, HandlerOK, TypeOK
        <3>3. QED
            BY <2>9, <3>1, <3>2 DEF RegisterSub
    <2>10. CASE InitTelemetryUpdate(x)
        BY <1>0, <2>0, <2>10, ElementsNone DEF InitTelemetryUpdate, HandlerOK, TypeOK
    <2>11. CASE StartRun(x)
        BY <2>8, <2>11 DEF StartRun
    <2>12. ASSUME NEW n \in Objs, UnregisterSub(x, n) PROVE HandlerOK(x)'
        <3>1. starting'[x] = <<n>> /\ n \in Sub[x] /\ Sub' = Sub /\ hpc'[x] = "delete"
            BY <1>0, <2>12 DEF UnregisterSub, TypeOK
        <3>2. QED
            BY <3>1, ElementsOne DEF HandlerOK
    <2>13. CASE Ended(x)
        <3>1. DeleteSubscription(x)
            BY <2>13, EndedIs
        <3>2. starting'[x] = <<>> /\ hpc'[x] = "stop"
            BY <1>0, <3>1 DEF DeleteSubscription, TypeOK
        <3>3. QED
            BY <3>2, ElementsNone DEF HandlerOK
    <2>14. QED
        BY <1>3, <2>1, <2>2, <2>3, <2>4, <2>5, <2>6, <2>7, <2>9, <2>10, <2>11, <2>12, <2>13, StepOf
<1>4. QED
    BY <1>1, <1>2, <1>3, StepCases

LEMMA MembersStep ==
    ASSUME Base, [Next]_vars
    PROVE  MembersOK'
<1> USE DEF objVars, eventVars, requestVars, history, bounds
<1>0. TypeOK /\ TypeOK' /\ MembersOK /\ \A x \in Sess : HandlerOK(x)
    BY TypeStep DEF Base
<1>1. CASE Outside
    BY <1>0, <1>1, OutsideLeaves DEF MembersOK
<1>2. ASSUME NEW x \in Sess, SessionStep(x), UNCHANGED <<made, obj, Sub>>,
             hpc[x] \in Stopping => hpc'[x] \in Stopping
      PROVE  MembersOK'
    <2>1. \A y \in Sess : hpc[y] \in Stopping => hpc'[y] \in Stopping
        BY <1>0, <1>2, OthersSame
    <2>2. QED
        BY <1>0, <1>2, <2>1 DEF MembersOK
<1>3. ASSUME NEW x \in Sess, NEW r \in Requests[x], Receive(x, r) PROVE MembersOK'
    BY <1>0, <1>2, <1>3 DEF Receive, Stopping, SessionStep
<1>4. ASSUME NEW x \in Sess, \/ EndOfStream(x) \/ Joined(x) \/ Leave(x) \/ Refuse(x)
                             \/ ReadID(x) \/ WriteID(x)
      PROVE  MembersOK'
    BY <1>0, <1>2, <1>4 DEF EndOfStream, Joined, Leave, Refuse, ReadID, WriteID, Stopping, TypeOK,
                            SessionStep, HandlerStep
<1>5. ASSUME NEW x \in Sess, NEW n \in Objs, AddPath(x, n) PROVE MembersOK'
    <2>1. /\ UNCHANGED <<made, Sub>>
          /\ \A k \in Objs : obj'[k].sess = obj[k].sess /\ (k # n => obj'[k] = obj[k])
        BY <1>0, <1>5 DEF AddPath, TypeOK, Subscribers
    <2>2. n \in Sub[x] /\ obj[n].sess = x
        BY <1>0, <1>5 DEF AddPath, Existing, MembersOK
    <2>3. hpc[x] \notin Stopping /\ \A y \in Sess : y # x => hpc'[y] = hpc[y]
        BY <1>0, <1>5 DEF AddPath, Accept, TypeOK, Stopping
    <2>4. made \in 0 .. MaxSubs
        BY <1>0 DEF TypeOK
    <2>5. \A k \in 1 .. made : k \in Objs
        BY <2>4, SubscriptionAssumption
    <2>6. \A k \in 1 .. made' : k \in Sub'[obj'[k].sess]
                                \/ (hpc'[obj'[k].sess] \in Stopping /\ obj'[k].path = {})
        <3>1. ASSUME NEW k \in 1 .. made
              PROVE  k \in Sub'[obj'[k].sess] \/ (hpc'[obj'[k].sess] \in Stopping /\ obj'[k].path = {})
            <4>1. k \in Sub[obj[k].sess] \/ (hpc[obj[k].sess] \in Stopping /\ obj[k].path = {})
                BY <1>0 DEF MembersOK
            <4>2. obj[k].sess \in Sess /\ obj'[k].sess = obj[k].sess
                BY <1>0, <2>1, <2>5 DEF MembersOK
            <4>3. QED
                BY <2>1, <2>2, <2>3, <2>5, <4>1, <4>2
        <3>2. QED
            BY <2>1, <3>1
    <2>7. QED
        BY <1>0, <2>1, <2>5, <2>6 DEF MembersOK
<1>6. ASSUME NEW x \in Sess, NEW id \in {tmp[x] + 1, subID}, Create(x, id) PROVE MembersOK'
    <2>1. made \in 0 .. MaxSubs /\ made' = made + 1 /\ made + 1 \in Objs
        BY <1>0, <1>6, SubscriptionAssumption DEF Create, TypeOK
    <2>2. /\ Sub' = [Sub EXCEPT ![x] = @ \cup {made + 1}]
          /\ obj'[made + 1].sess = x
          /\ \A k \in 1 .. made : obj'[k] = obj[k]
        BY <1>0, <1>6, <2>1, SubscriptionAssumption DEF Create, TypeOK
    <2>3. hpc[x] \notin Stopping /\ \A y \in Sess : y # x => hpc'[y] = hpc[y]
        BY <1>0, <1>6 DEF Create, Accept, TypeOK, Stopping
    <2>4. \A k \in 1 .. made' : k = made + 1 \/ k \in 1 .. made
        BY <2>1
    <2>5. \A k \in 1 .. made' : obj'[k].sess \in Sess
        BY <1>0, <2>2, <2>4 DEF MembersOK
    <2>6. \A y \in Sess : \A k \in Sub'[y] : k \in 1 .. made' /\ obj'[k].sess = y
        <3>1. ASSUME NEW y \in Sess, NEW k \in Sub'[y] PROVE k \in 1 .. made' /\ obj'[k].sess = y
            <4>1. CASE k \in Sub[y]
                BY <1>0, <2>1, <2>2, <4>1 DEF MembersOK
            <4>2. CASE k \notin Sub[y]
                BY <1>0, <2>1, <2>2, <3>1, <4>2 DEF TypeOK
            <4>3. QED
                BY <4>1, <4>2
        <3>2. QED
            BY <3>1
    <2>7. \A k \in 1 .. made' : k \in Sub'[obj'[k].sess]
                                \/ (hpc'[obj'[k].sess] \in Stopping /\ obj'[k].path = {})
        <3>1. made + 1 \in Sub'[x]
            BY <1>0, <2>2 DEF TypeOK
        <3>2. \A k \in 1 .. made : \/ k \in Sub[obj[k].sess]
                                   \/ (hpc[obj[k].sess] \in Stopping /\ obj[k].path = {})
            BY <1>0 DEF MembersOK
        <3>3. \A y \in Sess : Sub[y] \subseteq Sub'[y]
            BY <1>0, <2>2 DEF TypeOK
        <3>4. \A k \in 1 .. made : obj[k].sess \in Sess
            BY <1>0 DEF MembersOK
        <3>5. QED
            BY <2>2, <2>3, <2>4, <3>1, <3>2, <3>3, <3>4
    <2>8. QED
        BY <2>5, <2>6, <2>7 DEF MembersOK
<1>7. ASSUME NEW x \in Sess, \/ LockMutex(x) \/ MergeInfo(x) \/ Merged(x) \/ RegisterSub(x)
                             \/ InitTelemetryUpdate(x) \/ StartRun(x) \/ DeleteInfo(x)
                             \/ AddFails(x) \/ MergeFailed(x)
      PROVE  MembersOK'
    <2>1. SessionStep(x)
        BY <1>7 DEF SessionStep, HandlerStep, Failure, MergeFailed
    <2>2. UNCHANGED <<made, obj, Sub>>
        BY <1>7 DEF LockMutex, MergeInfo, Merged, RegisterSub, InitTelemetryUpdate, StartRun,
                    DeleteInfo, AddFails, MergeFailed, MergeFails
    <2>3. hpc[x] \in Stopping => hpc'[x] \in Stopping
        BY <1>0, <1>7 DEF LockMutex, MergeInfo, Merged, RegisterSub, InitTelemetryUpdate, StartRun,
                          DeleteInfo, AddFails, MergeFailed, MergeFails, Stopping, TypeOK
    <2>4. QED
        BY <1>2, <2>1, <2>2, <2>3
<1>8. ASSUME NEW x \in Sess, NEW n \in Objs, UnregisterSub(x, n) PROVE MembersOK'
    BY <1>0, <1>2, <1>8 DEF UnregisterSub, Stopping, TypeOK, SessionStep, HandlerStep
<1>9. ASSUME NEW x \in Sess, Ended(x) PROVE MembersOK'
    <2> DEFINE n == Head(starting[x])
    <2>0. DeleteSubscription(x) /\ hpc[x] \in {"delete", "deleting"}
        BY <1>9, EndedIs
    <2>1. n \in Sub[x] /\ n \in Objs
        BY <1>0, <2>0, HeadType DEF AtHead
    <2>2. /\ made' = made /\ Sub' = [Sub EXCEPT ![x] = @ \ {n}]
          /\ \A k \in Objs : obj'[k].sess = obj[k].sess /\ (k # n => obj'[k] = obj[k])
          /\ obj'[n].path = {}
        <3>1. obj \in [Objs -> Subscribers] /\ Sub \in [Sess -> SUBSET Objs]
            BY <1>0 DEF TypeOK
        <3>2. /\ made' = made /\ Sub' = [Sub EXCEPT ![x] = @ \ {n}]
              /\ obj' = [obj EXCEPT ![n] = [obj[n] EXCEPT !.path = {}]]
            BY <2>0 DEF DeleteSubscription
        <3>3. QED
            BY <2>1, <3>1, <3>2 DEF Subscribers
    <2>3. hpc'[x] \in Stopping /\ \A y \in Sess : y # x => hpc'[y] = hpc[y]
        BY <1>0, <2>0 DEF DeleteSubscription, TypeOK, Stopping
    <2>4. made \in 0 .. MaxSubs /\ n \in 1 .. made /\ obj[n].sess = x
        BY <1>0, <2>1 DEF TypeOK, MembersOK
    <2> HIDE DEF n
    <2>5. \A y \in Sess : \A k \in Sub'[y] : k \in 1 .. made' /\ obj'[k].sess = y
        <3>1. \A y \in Sess : Sub'[y] \subseteq Sub[y] /\ Sub[y] \subseteq Objs
            BY <1>0, <2>2 DEF TypeOK
        <3>2. \A y \in Sess : \A k \in Sub[y] : k \in 1 .. made /\ obj[k].sess = y
            BY <1>0 DEF MembersOK
        <3>3. QED
            BY <2>2, <3>1, <3>2
    <2>6. \A k \in 1 .. made' : k \in Sub'[obj'[k].sess]
                                \/ (hpc'[obj'[k].sess] \in Stopping /\ obj'[k].path = {})
        <3>1. ASSUME NEW k \in 1 .. made, k # n
              PROVE  k \in Sub'[obj'[k].sess] \/ (hpc'[obj'[k].sess] \in Stopping /\ obj'[k].path = {})
            <4>1. obj'[k] = obj[k] /\ obj[k].sess \in Sess
                BY <1>0, <2>2, <2>4, <3>1, SubscriptionAssumption DEF MembersOK
            <4>2. k \in Sub[obj[k].sess] => k \in Sub'[obj[k].sess]
                BY <1>0, <2>2, <3>1, <4>1 DEF TypeOK
            <4>3. QED
                BY <1>0, <2>3, <3>1, <4>1, <4>2 DEF MembersOK
        <3>2. QED
            BY <2>1, <2>2, <2>3, <2>4, <3>1
    <2>7. \A k \in 1 .. made' : obj'[k].sess \in Sess
        BY <1>0, <2>2, <2>4, SubscriptionAssumption DEF MembersOK
    <2>8. QED
        BY <2>5, <2>6, <2>7 DEF MembersOK
<1>10. QED
    BY <1>1, <1>3, <1>4, <1>5, <1>6, <1>7, <1>8, <1>9, StepCases, StepOf

LEMMA BaseStep ==
    ASSUME Base, [Next]_vars
    PROVE  Base'
BY TypeStep, HandlerStepOK, MembersStep DEF Base

-----------------------------------------------------------------------------
(* The counter of the IDs.                                                  *)

\* A step that deals neither with the counter nor with a new subscriber.
OldIds ==
    /\ UNCHANGED <<subID, made, raced>>
    /\ \A x \in Sess : tmp'[x] = tmp[x]
    /\ \A k \in Objs : obj'[k].id = obj[k].id /\ obj'[k].sess = obj[k].sess
                       /\ obj'[k].mode = obj[k].mode /\ obj'[k].list = obj[k].list
                       /\ obj'[k].item = obj[k].item

LEMMA IdsKept ==
    ASSUME TypeOK, [Next]_vars
    PROVE  \/ OldIds /\ \A x \in Sess : hpc'[x] \in Counting => hpc'[x] = hpc[x]
           \/ \E x \in Sess : ReadID(x) \/ WriteID(x)
                              \/ \E id \in {tmp[x] + 1, subID} : Create(x, id)
<1> USE DEF TypeOK, objVars, eventVars, requestVars, history, bounds, Counting
<1>1. CASE Outside
    BY <1>1, OutsideLeaves DEF OldIds
<1>2. ASSUME NEW x \in Sess, NEW r \in Requests[x], Receive(x, r)
      PROVE  OldIds /\ \A y \in Sess : hpc'[y] \in Counting => hpc'[y] = hpc[y]
    BY <1>2 DEF Receive, OldIds
<1>3. ASSUME NEW x \in Sess, EndOfStream(x) \/ Joined(x) \/ Leave(x) \/ Refuse(x)
      PROVE  OldIds /\ \A y \in Sess : hpc'[y] \in Counting => hpc'[y] = hpc[y]
    BY <1>3 DEF EndOfStream, Joined, Leave, Refuse, OldIds
<1>4. ASSUME NEW x \in Sess, NEW n \in Objs, AddPath(x, n)
      PROVE  OldIds /\ \A y \in Sess : hpc'[y] \in Counting => hpc'[y] = hpc[y]
    <2>1. /\ obj' = [obj EXCEPT ![n] = [obj[n] EXCEPT !.path = @ \cup {Item(x).path}]]
          /\ UNCHANGED <<subID, made, raced, tmp>>
          /\ \/ hpc' = [hpc EXCEPT ![x] = "add"]
             \/ hpc' = [hpc EXCEPT ![x] = "start"]
        BY <1>4 DEF AddPath, Accept
    <2>2. obj \in [Objs -> Subscribers] /\ hpc \in [Sess -> States]
        OBVIOUS
    <2>3. \A k \in Objs : SameButPath(obj'[k], obj[k])
        <3>1. obj[n] \in Subscribers
            BY <2>2
        <3>2. SameButPath([obj[n] EXCEPT !.path = @ \cup {Item(x).path}], obj[n])
            BY <3>1, PathOnly
        <3>3. \A k \in Objs : k # n => obj'[k] = obj[k]
            BY <2>1, <2>2
        <3>4. obj'[n] = [obj[n] EXCEPT !.path = @ \cup {Item(x).path}]
            BY <2>1, <2>2
        <3>5. \A k \in Objs : k # n => SameButPath(obj'[k], obj[k])
            BY <3>3 DEF SameButPath
        <3>6. QED
            BY <3>2, <3>4, <3>5
    <2>4. \A y \in Sess : hpc'[y] \in Counting => hpc'[y] = hpc[y]
        BY <2>1, <2>2
    <2>5. QED
        BY <2>1, <2>3, <2>4 DEF OldIds, SameButPath
<1>5. ASSUME NEW x \in Sess, \/ LockMutex(x) \/ MergeInfo(x) \/ Merged(x) \/ DeleteInfo(x)
                             \/ AddFails(x) \/ MergeFailed(x)
      PROVE  OldIds /\ \A y \in Sess : hpc'[y] \in Counting => hpc'[y] = hpc[y]
    BY <1>5 DEF LockMutex, MergeInfo, Merged, DeleteInfo, AddFails, MergeFailed, MergeFails, OldIds
<1>6. ASSUME NEW x \in Sess, RegisterSub(x) \/ InitTelemetryUpdate(x) \/ StartRun(x)
      PROVE  OldIds /\ \A y \in Sess : hpc'[y] \in Counting => hpc'[y] = hpc[y]
    BY <1>6 DEF RegisterSub, InitTelemetryUpdate, StartRun, Started, OldIds
<1>7. ASSUME NEW x \in Sess, NEW n \in Objs, UnregisterSub(x, n)
      PROVE  OldIds /\ \A y \in Sess : hpc'[y] \in Counting => hpc'[y] = hpc[y]
    BY <1>7 DEF UnregisterSub, OldIds
<1>8. ASSUME NEW x \in Sess, Ended(x)
      PROVE  OldIds /\ \A y \in Sess : hpc'[y] \in Counting => hpc'[y] = hpc[y]
    <2>1. DeleteSubscription(x) /\ subID' = subID
        BY <1>8, EndedIs
    <2>2. QED
        BY <2>1 DEF DeleteSubscription, OldIds, Subscribers
<1>9. QED
    BY <1>1, <1>2, <1>3, <1>4, <1>5, <1>6, <1>7, <1>8, StepCases, StepOf

LEMMA CounterStep ==
    ASSUME Base, CounterOK, [Next]_vars
    PROVE  CounterOK'
<1>0. TypeOK /\ CounterOK /\ made \in 0 .. MaxSubs /\ \A k \in 1 .. made : k \in Objs
    <2>1. TypeOK /\ CounterOK
        BY DEF Base
    <2>2. made \in 0 .. MaxSubs
        BY <2>1 DEF TypeOK
    <2>3. \A k \in 1 .. made : k \in Objs
        BY <2>2, SubscriptionAssumption DEF Objs
    <2>4. QED
        BY <2>1, <2>2, <2>3
<1>1. CASE OldIds /\ \A x \in Sess : hpc'[x] \in Counting => hpc'[x] = hpc[x]
    BY <1>0, <1>1 DEF OldIds, CounterOK, Alone, Counting
<1>2. ASSUME NEW x \in Sess, ReadID(x), ~ raced'
      PROVE  CounterOK'
    <2>1. /\ ~ raced /\ UNCHANGED <<subID, made, obj>>
          /\ \A y \in Sess : y # x => hpc[y] \notin Counting /\ hpc'[y] = hpc[y]
          /\ hpc'[x] = "count" /\ tmp'[x] = subID
        BY <1>0, <1>2 DEF ReadID, TypeOK, Counting, objVars
    <2>2. QED
        BY <1>0, <2>1 DEF CounterOK, Alone, Counting
<1>3. ASSUME NEW x \in Sess, WriteID(x), ~ raced'
      PROVE  CounterOK'
    <2>1. /\ ~ raced /\ UNCHANGED <<made, obj, tmp>> /\ subID' = tmp[x] + 1
          /\ \A y \in Sess : y # x => hpc'[y] = hpc[y]
          /\ hpc[x] = "count" /\ hpc'[x] = "make"
        BY <1>0, <1>3 DEF WriteID, TypeOK, objVars, requestVars, history
    <2>2. /\ tmp[x] = subID /\ \A n \in 1 .. made : obj[n].id <= subID /\ Alone(n)
          /\ \A y \in Sess : y # x => hpc[y] \notin Counting
        BY <1>0, <2>1 DEF CounterOK, Counting
    <2>3. subID \in Nat /\ \A n \in 1 .. made : obj[n].id \in Nat
        BY <1>0 DEF TypeOK, Subscribers
    <2>4. \A n \in 1 .. made : obj[n].id <= tmp[x] /\ obj[n].id <= subID'
        BY <2>1, <2>2, <2>3
    <2>5. \A n \in 1 .. made : Alone(n)'
        BY <2>1, <2>2 DEF Alone
    <2>6. QED
        BY <2>1, <2>2, <2>4, <2>5 DEF CounterOK, Counting
<1>4. ASSUME NEW x \in Sess, NEW id \in {tmp[x] + 1, subID}, Create(x, id), ~ raced'
      PROVE  CounterOK'
    <2>1. /\ ~ raced /\ subID' = subID /\ made' = made + 1 /\ tmp' = tmp
          /\ \A y \in Sess : y # x => hpc'[y] = hpc[y]
          /\ hpc[x] = "make" /\ hpc'[x] \notin Counting
        BY <1>0, <1>4 DEF Create, Accept, TypeOK, Counting
    <2>2. /\ subID = tmp[x] + 1 /\ tmp[x] \in Nat
          /\ \A n \in 1 .. made : obj[n].id <= tmp[x] /\ Alone(n) /\ obj[n].id \in Nat
          /\ \A y \in Sess : y # x => hpc[y] \notin Counting
        BY <1>0, <2>1 DEF CounterOK, Counting, TypeOK, Subscribers
    <2>3. /\ obj'[made + 1].id = subID
          /\ \A k \in 1 .. made : obj'[k] = obj[k]
          /\ \A k \in 1 .. made' : k = made + 1 \/ k \in 1 .. made
        BY <1>0, <1>4, <2>2, SubscriptionAssumption DEF Create, TypeOK
    <2>4. \A n \in 1 .. made' : obj'[n].id <= subID
        BY <2>2, <2>3
    <2>5. \A n \in 1 .. made' : \A k \in 1 .. made' : obj'[k].id = obj'[n].id => k = n
        <3>1. \A k \in 1 .. made : obj'[k].id # obj'[made + 1].id
            BY <2>2, <2>3
        <3>2. \A n, k \in 1 .. made : obj'[k].id = obj'[n].id => k = n
            BY <2>2, <2>3 DEF Alone
        <3>3. QED
            BY <2>3, <3>1, <3>2
    <2>6. QED
        BY <2>1, <2>2, <2>4, <2>5 DEF CounterOK, Alone, Counting
<1>5. raced' => CounterOK'
    BY DEF CounterOK
<1>6. QED
    BY <1>0, <1>1, <1>2, <1>3, <1>4, <1>5, IdsKept

-----------------------------------------------------------------------------
(* What was asked is served, and served completely.                         *)

\* A handler does not undo what is set up, but for Stop(), which unregisters.
LEMMA ProgressKept ==
    ASSUME Base, [Next]_vars, NEW n \in Objs
    PROVE  /\ shown[n] \subseteq shown'[n]
           /\ run[n] # "none" => run'[n] # "none"
           /\ asked \subseteq asked'
<1> USE DEF objVars, eventVars, requestVars, history, bounds
<1>0. TypeOK /\ \A x \in Sess : HandlerOK(x)
    BY DEF Base
<1>1. CASE Outside
    BY <1>0, <1>1, OutsideLeaves
<1>2. ASSUME NEW x \in Sess, NEW r \in Requests[x], Receive(x, r)
      PROVE  UNCHANGED <<shown, run, asked>>
    BY <1>2 DEF Receive
<1>3. ASSUME NEW x \in Sess, \/ EndOfStream(x) \/ Joined(x) \/ Leave(x) \/ Refuse(x)
                             \/ ReadID(x) \/ WriteID(x)
      PROVE  UNCHANGED <<shown, run, asked>>
    BY <1>3 DEF EndOfStream, Joined, Leave, Refuse, ReadID, WriteID
<1>4. ASSUME NEW x \in Sess, NEW k \in Objs, AddPath(x, k) \/ UnregisterSub(x, k)
      PROVE  UNCHANGED <<shown, run>> /\ asked \subseteq asked'
    BY <1>4 DEF AddPath, Accept, UnregisterSub
<1>5. ASSUME NEW x \in Sess, NEW id \in {tmp[x] + 1, subID}, Create(x, id)
      PROVE  UNCHANGED <<shown, run>> /\ asked \subseteq asked'
    BY <1>5 DEF Create, Accept
<1>6. ASSUME NEW x \in Sess, \/ LockMutex(x) \/ MergeInfo(x) \/ Merged(x) \/ RegisterSub(x)
                             \/ DeleteInfo(x) \/ Ended(x) \/ AddFails(x) \/ MergeFailed(x)
      PROVE  UNCHANGED <<shown, run, asked>>
    <2>1. CASE LockMutex(x) \/ MergeInfo(x) \/ Merged(x) \/ AddFails(x) \/ MergeFailed(x)
        BY <2>1 DEF LockMutex, MergeInfo, Merged, AddFails, MergeFailed, MergeFails
    <2>2. CASE RegisterSub(x) \/ DeleteInfo(x)
        BY <2>2 DEF RegisterSub, DeleteInfo
    <2>3. CASE Ended(x)
        BY <2>3, EndedIs DEF DeleteSubscription
    <2>4. QED
        BY <1>6, <2>1, <2>2, <2>3
<1>7. ASSUME NEW x \in Sess, InitTelemetryUpdate(x)
      PROVE  UNCHANGED <<run, asked>> /\ shown[n] \subseteq shown'[n]
    <2> DEFINE k == Head(starting[x])
    <2>1. /\ UNCHANGED <<run, asked>>
          /\ shown' = shown \/ shown' = [shown EXCEPT ![k] = @ \cup obj[k].path]
        BY <1>7 DEF InitTelemetryUpdate
    <2> HIDE DEF k
    <2>2. QED
        BY <1>0, <2>1 DEF TypeOK
<1>8. ASSUME NEW x \in Sess, StartRun(x)
      PROVE  UNCHANGED <<shown, asked>> /\ (run[n] # "none" => run'[n] # "none")
    BY <1>0, <1>8 DEF StartRun, TypeOK
<1>9. QED
    BY <1>1, <1>2, <1>3, <1>4, <1>5, <1>6, <1>7, <1>8, StepCases, StepOf

\* The subscribers of the other sessions stay as they are.
LEMMA OtherSubscribers ==
    ASSUME Base, NEW x \in Sess, SessionStep(x), NEW y \in Sess, y # x, NEW n \in Sub[y]
    PROVE  obj'[n] = obj[n] /\ (n \in registered' <=> n \in registered)
<1> USE DEF objVars, eventVars, requestVars, history, bounds
<1>a. n \in 1 .. made /\ obj[n].sess = y /\ \A k \in Sub[x] : obj[k].sess = x
    BY DEF Base, MembersOK
<1>0. TypeOK /\ MembersOK /\ HandlerOK(x) /\ n \in Objs /\ n \in 1 .. made /\ n \notin Sub[x]
    BY <1>a DEF Base, TypeOK
<1>1. ASSUME NEW r \in Requests[x], Receive(x, r)
      PROVE  UNCHANGED <<obj, registered>>
    BY <1>1 DEF Receive
<1>2. ASSUME \/ EndOfStream(x) \/ Joined(x) \/ Leave(x) \/ Refuse(x) \/ ReadID(x) \/ WriteID(x)
      PROVE  UNCHANGED <<obj, registered>>
    BY <1>2 DEF EndOfStream, Joined, Leave, Refuse, ReadID, WriteID
<1>3. ASSUME NEW k \in Objs, AddPath(x, k)
      PROVE  registered' = registered /\ obj'[n] = obj[n]
    BY <1>0, <1>3 DEF AddPath, Existing, TypeOK
<1>4. ASSUME NEW k \in Objs, UnregisterSub(x, k)
      PROVE  obj' = obj /\ (n \in registered' <=> n \in registered)
    BY <1>0, <1>4 DEF UnregisterSub
<1>5. ASSUME NEW id \in {tmp[x] + 1, subID}, Create(x, id)
      PROVE  registered' = registered /\ obj'[n] = obj[n]
    BY <1>0, <1>5 DEF Create, TypeOK
<1>6. ASSUME \/ LockMutex(x) \/ MergeInfo(x) \/ Merged(x) \/ DeleteInfo(x) \/ AddFails(x)
             \/ MergeFailed(x) \/ InitTelemetryUpdate(x) \/ StartRun(x)
      PROVE  UNCHANGED <<obj, registered>>
    BY <1>6 DEF LockMutex, MergeInfo, Merged, DeleteInfo, AddFails, MergeFailed, MergeFails,
                LockAndRaise, RaiseSome, UnlockServer, InitTelemetryUpdate, StartRun
<1>7. ASSUME RegisterSub(x)
      PROVE  obj' = obj /\ (n \in registered' <=> n \in registered)
    BY <1>0, <1>7, HeadType DEF RegisterSub, AtHead
<1>8. ASSUME Ended(x)
      PROVE  registered' = registered /\ obj'[n] = obj[n]
    <2>1. DeleteSubscription(x) /\ hpc[x] \in {"delete", "deleting"} /\ registered' = registered
        BY <1>8, EndedIs
    <2>2. Head(starting[x]) \in Sub[x]
        BY <1>0, <2>1, HeadType DEF AtHead
    <2>3. obj' = [obj EXCEPT ![Head(starting[x])].path = {}]
        BY <2>1 DEF DeleteSubscription
    <2>4. QED
        BY <1>0, <2>1, <2>2, <2>3 DEF TypeOK
<1>9. QED
    BY <1>1, <1>2, <1>3, <1>4, <1>5, <1>6, <1>7, <1>8, StepOf

\* A handler accepts for its own session only.
LEMMA OwnAsked ==
    ASSUME Base, NEW x \in Sess, SessionStep(x), NEW a \in asked'
    PROVE  a \in asked \/ a[1] = x
<1> USE DEF objVars, eventVars, requestVars, history, bounds
<1>1. ASSUME NEW r \in Requests[x], Receive(x, r) PROVE asked' = asked
    BY <1>1 DEF Receive
<1>2. ASSUME NEW k \in Objs, AddPath(x, k) PROVE a \in asked \/ a[1] = x
    BY <1>2 DEF AddPath, Accept
<1>3. ASSUME NEW id \in {tmp[x] + 1, subID}, Create(x, id) PROVE a \in asked \/ a[1] = x
    BY <1>3 DEF Create, Accept
<1>4. ASSUME \/ EndOfStream(x) \/ Joined(x) \/ Leave(x) \/ Refuse(x) \/ ReadID(x) \/ WriteID(x)
             \/ LockMutex(x) \/ MergeInfo(x) \/ Merged(x) \/ DeleteInfo(x) \/ RegisterSub(x)
             \/ InitTelemetryUpdate(x) \/ StartRun(x) \/ AddFails(x) \/ MergeFailed(x)
             \/ \E n \in Objs : UnregisterSub(x, n)
      PROVE  asked' = asked
    BY <1>4 DEF EndOfStream, Joined, Leave, Refuse, ReadID, WriteID, LockMutex, MergeInfo, Merged,
                DeleteInfo, RegisterSub, InitTelemetryUpdate, StartRun, AddFails, MergeFailed,
                MergeFails, UnregisterSub
<1>5. CASE Ended(x)
    BY <1>5, EndedIs DEF DeleteSubscription
<1>6. QED
    BY <1>1, <1>2, <1>3, <1>4, <1>5, StepOf

\* What ServiceOK says of a session whose RPC goes on.
Service(x) ==
    /\ \A a \in asked : a[1] = x => \E n \in Sub[x] : Serves(n, a)
    /\ \A n \in Sub[x] : n \in Elements(starting[x]) \/ Complete(n)

\* It stays true as long as the subscribers stay and startingList does not shrink.
LEMMA ServiceFrame ==
    ASSUME Base, [Next]_vars, NEW x \in Sess, Service(x),
           Sub'[x] = Sub[x],
           \A n \in Sub[x] : obj'[n] = obj[n] /\ (n \in registered => n \in registered')
                             /\ (n \in Elements(starting[x]) =>
                                   n \in Elements(starting'[x]) \/ Complete(n)'),
           \A a \in asked' : a[1] = x => a \in asked
    PROVE  Service(x)'
<1>1. \A n \in Sub[x] : n \in Objs
    BY DEF Base, TypeOK
<1>2. \A n \in Sub[x] : Complete(n) => Complete(n)'
    BY <1>1, ProgressKept DEF Complete
<1>3. \A a \in asked, n \in Sub[x] : Serves(n, a) => Serves(n, a)'
    BY DEF Serves
<1>4. QED
    BY <1>2, <1>3 DEF Service

LEMMA ServiceStep ==
    ASSUME Base, [Next]_vars, \A x \in Sess : ServiceOK(x)
    PROVE  \A x \in Sess : ServiceOK(x)'
<1> USE DEF objVars, eventVars, requestVars, history, bounds
<1>0. Base /\ Base' /\ TypeOK /\ TypeOK'
    BY BaseStep DEF Base
<1>1. ASSUME Outside, NEW x \in Sess PROVE ServiceOK(x)'
    <2>1. UNCHANGED <<obj, Sub, registered, hpc, starting, asked, shown>>
        BY <1>0, <1>1, OutsideLeaves
    <2>2. hpc[x] \notin Stopping => Service(x)'
        BY <1>0, <2>1, ServiceFrame DEF ServiceOK, Service
    <2>3. QED
        BY <2>1, <2>2 DEF ServiceOK, Service
<1>2. ASSUME NEW x \in Sess, SessionStep(x), NEW y \in Sess, y # x PROVE ServiceOK(y)'
    <2>1. /\ Sub'[y] = Sub[y] /\ starting'[y] = starting[y] /\ hpc'[y] = hpc[y]
          /\ \A n \in Sub[y] : obj'[n] = obj[n] /\ (n \in registered => n \in registered')
          /\ \A a \in asked' : a[1] = y => a \in asked
        BY <1>0, <1>2, OthersSame, OtherSubscribers, OwnAsked
    <2>2. hpc[y] \notin Stopping => Service(y)'
        BY <1>0, <2>1, ServiceFrame DEF ServiceOK, Service
    <2>3. hpc[y] \in {"init", "run"} => Head(starting[y]) \in Sub[y] /\ Head(starting[y]) \in Objs
        BY <1>0, HeadType DEF Base, AtHead
    <2>4. \A n \in Objs : shown[n] \subseteq shown'[n]
        BY <1>0, ProgressKept
    <2>5. QED
        BY <2>1, <2>2, <2>3, <2>4 DEF ServiceOK, Service
<1>3. ASSUME NEW x \in Sess, SessionStep(x) PROVE ServiceOK(x)'
    <2>0. TypeOK /\ HandlerOK(x) /\ ServiceOK(x) /\ MembersOK
        BY <1>0 DEF Base
    <2>00. hpc[x] \notin Stopping => Service(x)
        BY <2>0 DEF ServiceOK, Service
    <2> USE DEF Adding, Counting, AtHead, Stopping
    <2>1. ASSUME NEW r \in Requests[x], Receive(x, r) PROVE ServiceOK(x)'
        <3>1. UNCHANGED <<obj, Sub, registered, starting, asked, shown>>
              /\ hpc[x] = "recv" /\ hpc'[x] = "add"
            BY <2>0, <2>1 DEF Receive, TypeOK
        <3>2. Service(x)'
            BY <1>0, <2>00, <3>1, ServiceFrame
        <3>3. QED
            BY <3>1, <3>2 DEF ServiceOK, Service
    <2>2. CASE EndOfStream(x) \/ Joined(x) \/ Leave(x) \/ Refuse(x) \/ DeleteInfo(x) \/ Ended(x)
        <3>1. hpc'[x] \in Stopping
            BY <2>0, <2>2, EndedIs DEF EndOfStream, Joined, Leave, Refuse, DeleteInfo,
                                       DeleteSubscription, TypeOK
        <3>2. QED
            BY <3>1 DEF ServiceOK
    <2>3. CASE ReadID(x) \/ WriteID(x) \/ LockMutex(x) \/ MergeInfo(x) \/ Merged(x) \/ AddFails(x)
               \/ MergeFailed(x)
        <3>1. /\ UNCHANGED <<obj, Sub, registered, starting, asked, shown>>
              /\ hpc[x] \notin Stopping /\ hpc'[x] \notin {"init", "run"}
            BY <2>0, <2>3 DEF ReadID, WriteID, LockMutex, MergeInfo, Merged, AddFails, MergeFailed,
                              MergeFails, LockAndRaise, RaiseSome, UnlockServer, TypeOK
        <3>2. Service(x)'
            BY <1>0, <2>00, <3>1, ServiceFrame
        <3>3. QED
            BY <3>1, <3>2 DEF ServiceOK, Service
    <2>4. ASSUME NEW n \in Objs, UnregisterSub(x, n) PROVE ServiceOK(x)'
        BY <2>0, <2>4 DEF UnregisterSub, ServiceOK, TypeOK
    <2>5. ASSUME NEW n \in Objs, n = Head(starting[x]),
                 Started(x), UNCHANGED <<obj, Sub, asked, shown>>,
                 hpc[x] \in {"register", "run"},
                 registered \subseteq registered',
                 Complete(n)'
          PROVE  ServiceOK(x)'
        <3>1. /\ starting'[x] = Tail(starting[x]) /\ hpc'[x] \in {"recv", "start"}
              /\ Elements(starting[x]) = Elements(starting'[x]) \cup {n}
            BY <2>0, <2>5, HeadType DEF Started, TypeOK
        <3>2. Service(x)'
            BY <1>0, <2>00, <2>5, <3>1, ServiceFrame
        <3>3. QED
            BY <3>1, <3>2 DEF ServiceOK, Service
    <2>6. CASE RegisterSub(x)
        <3>0. PICK n \in Objs : n = Head(starting[x])
            BY <2>0, <2>6, HeadType DEF RegisterSub
        <3>1. registered' = registered \cup {n} /\ hpc[x] = "register" /\ n \in Objs
              /\ UNCHANGED <<obj, Sub, asked, shown>>
            BY <2>6, <3>0 DEF RegisterSub
        <3>2. CASE obj[n].mode = "POLL" /\ Started(x)
            <4>1. Complete(n)'
                BY <3>1, <3>2 DEF Complete
            <4>2. QED
                BY <2>5, <3>0, <3>1, <3>2, <4>1
        <3>3. CASE hpc' = [hpc EXCEPT ![x] = "init"] /\ UNCHANGED requestVars
            <4>1. Service(x)'
                BY <1>0, <2>00, <3>1, <3>3, ServiceFrame
            <4>2. hpc'[x] = "init" /\ starting' = starting
                BY <2>0, <3>3 DEF TypeOK
            <4>3. QED
                BY <3>0, <3>1, <4>1, <4>2 DEF ServiceOK, Service
        <3>4. QED
            BY <2>6, <3>0, <3>2, <3>3 DEF RegisterSub
    <2>7. CASE InitTelemetryUpdate(x)
        <3>0. PICK n \in Objs : n = Head(starting[x])
            BY <2>0, <2>7, HeadType DEF InitTelemetryUpdate
        <3>1. hpc[x] = "init" /\ n \in registered /\ UNCHANGED <<obj, Sub, asked, registered>>
            BY <2>0, <2>7, <3>0 DEF InitTelemetryUpdate, ServiceOK
        <3>2. CASE hpc'[x] = "wait"
            BY <3>2 DEF ServiceOK
        <3>3. CASE hpc'[x] = "run"
            <4>1. starting' = starting /\ shown' = [shown EXCEPT ![n] = @ \cup obj[n].path]
                BY <2>0, <2>7, <3>0, <3>3 DEF InitTelemetryUpdate, TypeOK
            <4>2. Service(x)'
                BY <1>0, <2>00, <3>1, <4>1, ServiceFrame
            <4>3. obj[n].path \subseteq shown'[n]
                BY <2>0, <3>1, <4>1 DEF TypeOK
            <4>4. QED
                BY <3>0, <3>1, <3>3, <4>1, <4>2, <4>3 DEF ServiceOK, Service
        <3>4. QED
            BY <2>0, <2>7, <3>2, <3>3 DEF InitTelemetryUpdate, TypeOK
    <2>8. CASE StartRun(x)
        <3>0. PICK n \in Objs : n = Head(starting[x])
            BY <2>0, <2>8, HeadType DEF StartRun
        <3>1. n \in registered /\ obj[n].path \subseteq shown[n] /\ hpc[x] = "run"
              /\ UNCHANGED <<obj, Sub, asked, shown, registered>> /\ Started(x)
            BY <2>0, <2>8, <3>0 DEF StartRun, ServiceOK
        <3>2. run'[n] # "none"
            BY <2>0, <2>8, <3>0 DEF StartRun, Running, TypeOK
        <3>3. Complete(n)'
            BY <3>1, <3>2 DEF Complete
        <3>4. QED
            BY <2>5, <3>0, <3>1, <3>3
    <2>9. ASSUME NEW n \in Objs, AddPath(x, n) PROVE ServiceOK(x)'
        <3>1. /\ Sub' = Sub /\ registered' = registered /\ n \in Sub[x] /\ n \in Existing(x)
              /\ hpc[x] = "add" /\ hpc'[x] \in {"add", "start"}
              /\ starting'[x] = Append(starting[x], n) /\ starting[x] \in Seq(Objs)
              /\ asked' = asked \cup {<<x, req[x].mode, req[x].list, Item(x)>>}
            BY <2>0, <2>9 DEF AddPath, Accept, Existing, TypeOK
        <3>2. /\ \A k \in Objs : k # n => obj'[k] = obj[k]
              /\ obj'[n].path = obj[n].path \cup {Item(x).path}
              /\ obj'[n].mode = obj[n].mode /\ obj'[n].list = obj[n].list /\ obj'[n].item = obj[n].item
            BY <2>0, <2>9 DEF AddPath, TypeOK, Subscribers
        <3>3. Elements(starting'[x]) = Elements(starting[x]) \cup {n}
            BY <3>1, ElementsAppend
        <3>4. \A k \in Sub[x] : k \in Objs
            BY <2>0 DEF TypeOK
        <3>5. ASSUME NEW k \in Sub[x] PROVE k \in Elements(starting'[x]) \/ Complete(k)'
            <4>1. CASE k = n
                BY <3>3, <4>1
            <4>2. CASE k # n
                <5>1. obj'[k] = obj[k] /\ k \in Objs
                    BY <3>2, <3>4, <4>2
                <5>2. Complete(k) => Complete(k)'
                    BY <1>0, <3>1, <5>1, ProgressKept DEF Complete
                <5>3. QED
                    BY <2>00, <3>1, <3>3, <5>2 DEF Service
            <4>3. QED
                BY <4>1, <4>2
        <3>6. ASSUME NEW a \in asked', a[1] = x PROVE \E k \in Sub'[x] : Serves(k, a)'
            <4>1. CASE a \in asked
                <5>1. PICK k \in Sub[x] : Serves(k, a)
                    BY <2>00, <3>1, <3>6, <4>1 DEF Service
                <5>2. Serves(k, a)'
                    BY <3>2, <3>4, <5>1 DEF Serves
                <5>3. QED
                    BY <3>1, <5>2
            <4>2. CASE a = <<x, req[x].mode, req[x].list, Item(x)>>
                <5>1. /\ Key(obj[n].mode, obj[n].list, obj[n].item)
                           = Key(req[x].mode, req[x].list, Item(x))
                      /\ obj[n].mode \in Modes /\ req[x].mode \in Modes
                    BY <2>0, <3>1, ItemType DEF Existing, TypeOK, Subscribers, Modes
                <5>2. /\ obj[n].mode = req[x].mode /\ obj[n].list = req[x].list
                      /\ StreamConfig(obj[n].mode, obj[n].item) = StreamConfig(req[x].mode, Item(x))
                    BY <5>1, KeyFixesConfig
                <5>3. a[2] = req[x].mode /\ a[3] = req[x].list /\ a[4] = Item(x)
                    BY <4>2
                <5>4. Serves(n, a)'
                    BY <3>2, <5>2, <5>3 DEF Serves
                <5>5. QED
                    BY <3>1, <5>4
            <4>3. QED
                BY <3>1, <4>1, <4>2
        <3>7. QED
            BY <3>1, <3>5, <3>6 DEF ServiceOK
    <2>10. ASSUME NEW id \in {tmp[x] + 1, subID}, Create(x, id) PROVE ServiceOK(x)'
        <3>0. PICK n \in Objs : n = made + 1
            BY <2>0, <2>10, SubscriptionAssumption DEF Create, TypeOK
        <3>1. /\ Sub'[x] = Sub[x] \cup {n} /\ registered' = registered
              /\ hpc[x] = "make" /\ hpc'[x] \in {"add", "start"}
              /\ starting'[x] = Append(starting[x], n) /\ starting[x] \in Seq(Objs)
              /\ asked' = asked \cup {<<x, req[x].mode, req[x].list, Item(x)>>}
            BY <2>0, <2>10, <3>0 DEF Create, Accept, TypeOK
        <3>2. /\ \A k \in Objs : k # n => obj'[k] = obj[k]
              /\ obj'[n].path = {Item(x).path} /\ obj'[n].mode = req[x].mode
              /\ obj'[n].list = req[x].list /\ obj'[n].item = Item(x)
            BY <2>0, <2>10, <3>0 DEF Create, TypeOK
        <3>3. Elements(starting'[x]) = Elements(starting[x]) \cup {n}
            BY <3>1, ElementsAppend
        <3>4. \A k \in Sub[x] : k \in Objs /\ k # n
            BY <2>0, <3>0 DEF TypeOK, MembersOK
        <3>5. ASSUME NEW k \in Sub'[x] PROVE k \in Elements(starting'[x]) \/ Complete(k)'
            <4>1. CASE k = n
                BY <3>3, <4>1
            <4>2. CASE k # n
                <5>1. k \in Sub[x] /\ obj'[k] = obj[k] /\ k \in Objs
                    BY <3>1, <3>2, <3>4, <3>5, <4>2
                <5>2. Complete(k) => Complete(k)'
                    BY <1>0, <3>1, <5>1, ProgressKept DEF Complete
                <5>3. QED
                    BY <2>00, <3>1, <3>3, <5>1, <5>2 DEF Service
            <4>3. QED
                BY <4>1, <4>2
        <3>6. ASSUME NEW a \in asked', a[1] = x PROVE \E k \in Sub'[x] : Serves(k, a)'
            <4>1. CASE a \in asked
                <5>1. PICK k \in Sub[x] : Serves(k, a)
                    BY <2>00, <3>1, <3>6, <4>1 DEF Service
                <5>2. Serves(k, a)'
                    BY <3>2, <3>4, <5>1 DEF Serves
                <5>3. QED
                    BY <3>1, <5>2
            <4>2. CASE a = <<x, req[x].mode, req[x].list, Item(x)>>
                <5>1. a[2] = req[x].mode /\ a[3] = req[x].list /\ a[4] = Item(x)
                    BY <4>2
                <5>2. Serves(n, a)'
                    BY <3>2, <5>1 DEF Serves
                <5>3. QED
                    BY <3>1, <5>2
            <4>3. QED
                BY <3>1, <4>1, <4>2
        <3>7. QED
            BY <3>1, <3>5, <3>6 DEF ServiceOK
    <2>11. QED
        BY <1>3, <2>1, <2>2, <2>3, <2>4, <2>6, <2>7, <2>8, <2>9, <2>10, StepOf
<1>4. QED
    BY <1>1, <1>2, <1>3, StepCases

-----------------------------------------------------------------------------
(* The entries in the tree.                                                 *)

Merging == {"merging", "register", "init", "run"}

\* What is known of the entry of n if it is its own.
Fits(n) == Own(n) =>
    /\ Listed(n) \subseteq obj[n].path
    /\ hpc[obj[n].sess] \notin Stopping =>
         n \in Elements(starting[obj[n].sess]) \/ Listed(n) = obj[n].path
Whole(n) == Own(n) => Listed(n) = obj[n].path
Empty(n) == Own(n) => Listed(n) = {}

\* The entries of one session fit the place of its handler.
AtPlace(x) ==
    \A n : n = Head(starting[x]) =>
        /\ hpc[x] \in Merging => Whole(n)
        /\ hpc[x] = "deleting" => Empty(n)

Owned == \A e \in info : e[1] \in astray \/ \E n \in Made : obj[n].id = e[1]

LEMMA EntriesSplit ==
    EntriesOK <=> Owned /\ (\A n \in Made : Fits(n)) /\ (\A x \in Sess : AtPlace(x))
BY DEF EntriesOK, Owned, AtPlace, Fits, Whole, Empty, Merging

LEMMA EntriesJoin ==
    ASSUME Owned', \A n \in 1 .. made' : Fits(n)', \A x \in Sess : AtPlace(x)'
    PROVE  EntriesOK'
BY DEF EntriesOK, Owned, AtPlace, Fits, Whole, Empty, Merging

\* A step that leaves the subscribers alone, and the entries that do not go astray.
OthersAstray ==
    /\ UNCHANGED <<obj, made>>
    /\ astray \subseteq astray'
    /\ \A e \in info' : e \in info \/ e[1] \in astray'
    /\ \A e \in info : e \in info' \/ e[1] \in astray'

LEMMA OwnKept ==
    ASSUME OthersAstray, Owned
    PROVE  /\ \A n : Own(n)' => Own(n) /\ Listed(n)' = Listed(n)
           /\ Owned'
<1>1. ASSUME NEW n, Own(n)' PROVE Own(n) /\ Listed(n)' = Listed(n)
    <2>1. Own(n) /\ obj'[n] = obj[n] /\ obj[n].id \notin astray'
        BY <1>1 DEF OthersAstray, Own, Alone
    <2>2. \A q : <<obj[n].id, q>> \in info' <=> <<obj[n].id, q>> \in info
        BY <2>1 DEF OthersAstray
    <2>3. QED
        BY <2>1, <2>2 DEF Listed
<1>2. Owned'
    BY DEF OthersAstray, Owned
<1>3. QED
    BY <1>1, <1>2

\* The steps that leave the subscribers and the entries that are their own alone.
LEMMA EntriesFrame ==
    ASSUME Base, EntriesOK, NEW x \in Sess, OthersAstray,
           \A y \in Sess : y # x => hpc'[y] = hpc[y] /\ starting'[y] = starting[y],
           hpc'[x] \notin Stopping =>
             /\ hpc[x] \notin Stopping
             /\ \A n \in Elements(starting[x]) : n \in Elements(starting'[x]) \/ Whole(n),
           hpc'[x] \in Merging =>
             /\ starting'[x] = starting[x]
             /\ hpc[x] \in Merging \/ obj[Head(starting[x])].id \in astray',
           hpc'[x] # "deleting"
    PROVE  EntriesOK'
<1>0. Owned /\ UNCHANGED <<obj, made>>
    BY EntriesSplit DEF OthersAstray
<1>1. \A n : Own(n)' => Own(n) /\ Listed(n)' = Listed(n)
    BY <1>0, OwnKept
<1>2. Owned'
    BY <1>0, OwnKept
<1>3. ASSUME NEW n \in 1 .. made PROVE Fits(n)'
    <2>1. obj[n].sess \in Sess /\ Fits(n)
        BY EntriesSplit DEF Base, MembersOK
    <2>2. CASE obj[n].sess = x
        BY <1>0, <1>1, <2>1, <2>2 DEF Fits, Whole
    <2>3. CASE obj[n].sess # x
        BY <1>0, <1>1, <2>1, <2>3 DEF Fits
    <2>4. QED
        BY <2>2, <2>3
<1>4. ASSUME NEW y \in Sess PROVE AtPlace(y)'
    <2>1. AtPlace(y)
        BY EntriesSplit
    <2>2. \A n : (Whole(n) => Whole(n)') /\ (Empty(n) => Empty(n)')
        BY <1>0, <1>1 DEF Whole, Empty
    <2>3. /\ hpc'[y] \in Merging =>
               /\ starting'[y] = starting[y]
               /\ hpc[y] \in Merging \/ obj[Head(starting[y])].id \in astray'
          /\ hpc'[y] = "deleting" => hpc[y] = "deleting" /\ starting'[y] = starting[y]
        OBVIOUS
    <2>4. \A n : obj[n].id \in astray' => Whole(n)'
        BY <1>0 DEF Whole, Own
    <2>5. QED
        BY <2>1, <2>2, <2>3, <2>4 DEF AtPlace
<1>5. QED
    BY <1>0, <1>2, <1>3, <1>4, EntriesJoin

\* What a handler does to its own subscribers is nothing to the others.
LEMMA OthersEntries ==
    ASSUME Base, EntriesOK, NEW x \in Sess, SessionStep(x),
           \A n \in Made : obj[n].sess # x =>
             obj'[n] = obj[n] /\ (Own(n)' => Own(n) /\ Listed(n)' = Listed(n))
    PROVE  /\ \A n \in Made : obj[n].sess # x => Fits(n)'
           /\ \A y \in Sess : y # x => AtPlace(y)'
<1>0. TypeOK /\ MembersOK /\ \A y \in Sess : HandlerOK(y)
    BY DEF Base
<1>1. \A y \in Sess : y # x => hpc'[y] = hpc[y] /\ starting'[y] = starting[y]
    BY <1>0, OthersSame
<1>2. ASSUME NEW n \in Made, obj[n].sess # x PROVE Fits(n)'
    <2>1. obj[n].sess \in Sess /\ Fits(n)
        BY <1>0, EntriesSplit DEF MembersOK
    <2>2. QED
        BY <1>1, <1>2, <2>1 DEF Fits
<1>3. ASSUME NEW y \in Sess, y # x PROVE AtPlace(y)'
    <2>1. AtPlace(y) /\ hpc'[y] = hpc[y] /\ starting'[y] = starting[y]
        BY <1>1, <1>3, EntriesSplit
    <2>2. ASSUME hpc[y] \in AtHead, NEW n, n = Head(starting[y])
          PROVE  n \in Made /\ obj[n].sess # x
        BY <1>0, <1>3, <2>2, HeadType DEF MembersOK
    <2>3. hpc[y] \in Merging \/ hpc[y] = "deleting" => hpc[y] \in AtHead
        BY DEF Merging, AtHead
    <2>4. ASSUME NEW n \in Made, obj[n].sess # x
          PROVE  (Whole(n) => Whole(n)') /\ (Empty(n) => Empty(n)')
        BY <2>4 DEF Whole, Empty
    <2>5. QED
        BY <2>1, <2>2, <2>3, <2>4 DEF AtPlace
<1>4. QED
    BY <1>2, <1>3

LEMMA EntriesAddPath ==
    ASSUME Base, EntriesOK, NEW x \in Sess, NEW n \in Objs, AddPath(x, n)
    PROVE  EntriesOK'
<1>0. TypeOK /\ MembersOK /\ HandlerOK(x) /\ SessionStep(x)
    BY DEF Base, SessionStep, HandlerStep
<1>1. /\ UNCHANGED <<made, info, astray, Sub>> /\ n \in Made /\ obj[n].sess = x
      /\ hpc[x] = "add" /\ hpc'[x] \in {"add", "start"}
      /\ starting'[x] = Append(starting[x], n) /\ starting[x] \in Seq(Objs)
    BY <1>0 DEF AddPath, Accept, Existing, MembersOK, TypeOK
<1>2. /\ \A k \in Objs : obj'[k].id = obj[k].id /\ obj'[k].sess = obj[k].sess
                         /\ obj[k].path \subseteq obj'[k].path
      /\ \A k \in Objs : k # n => obj'[k] = obj[k]
    <2>1. obj \in [Objs -> Subscribers]
        BY <1>0 DEF TypeOK
    <2>2. obj' = [obj EXCEPT ![n] = [obj[n] EXCEPT !.path = @ \cup {Item(x).path}]]
        BY DEF AddPath
    <2>3. QED
        BY <2>1, <2>2 DEF Subscribers
<1>3. \A k \in Made : k \in Objs
    <2>1. made \in 0 .. MaxSubs
        BY <1>0 DEF TypeOK
    <2>2. QED
        BY <2>1, SubscriptionAssumption
<1>4. \A k \in Made : (Own(k)' <=> Own(k)) /\ Listed(k)' = Listed(k)
    BY <1>1, <1>2, <1>3 DEF Own, Alone, Listed
<1>5. Elements(starting'[x]) = Elements(starting[x]) \cup {n}
    BY <1>1, ElementsAppend
<1>6. Owned'
    BY <1>1, <1>2, <1>3, EntriesSplit DEF Owned
<1>7. ASSUME NEW k \in Made, obj[k].sess = x PROVE Fits(k)'
    <2>1. Fits(k)
        BY EntriesSplit
    <2>2. QED
        BY <1>1, <1>2, <1>3, <1>4, <1>5, <1>7, <2>1 DEF Fits, Stopping
<1>8. AtPlace(x)'
    BY <1>1 DEF AtPlace, Merging
<1>9. QED
    BY <1>0, <1>1, <1>2, <1>3, <1>4, <1>6, <1>7, <1>8, OthersEntries, EntriesJoin

LEMMA EntriesCreate ==
    ASSUME Base, EntriesOK, NEW x \in Sess, NEW id \in {tmp[x] + 1, subID}, Create(x, id)
    PROVE  EntriesOK'
<1>0. TypeOK /\ MembersOK /\ HandlerOK(x) /\ SessionStep(x)
    BY DEF Base, SessionStep, HandlerStep
<1>1. PICK m \in Objs : m = made + 1
    BY <1>0, SubscriptionAssumption DEF Create, TypeOK
<1>2. /\ info' = info /\ astray' = astray /\ made' = m
      /\ hpc[x] = "make" /\ hpc'[x] \in {"add", "start"}
      /\ starting'[x] = Append(starting[x], m) /\ starting[x] \in Seq(Objs)
      /\ obj'[m].sess = x
      /\ \A k \in Objs : k # m => obj'[k] = obj[k]
    BY <1>0, <1>1 DEF Create, Accept, TypeOK
<1>3. (\A k \in Made : k \in Objs /\ k # m) /\ \A k \in 1 .. made' : k = m \/ k \in Made
    BY <1>0, <1>1, <1>2, SubscriptionAssumption DEF TypeOK
<1>a. \A k \in Made : k \in 1 .. made' /\ obj'[k] = obj[k]
    BY <1>0, <1>1, <1>2, <1>3 DEF TypeOK
<1>4. \A k \in Made : (Own(k)' => Own(k)) /\ Listed(k)' = Listed(k) /\ k \in 1 .. made'
    BY <1>2, <1>a DEF Own, Alone, Listed
<1>5. Elements(starting'[x]) = Elements(starting[x]) \cup {m}
    BY <1>2, ElementsAppend
<1>6. Owned'
    BY <1>2, <1>3, <1>4, EntriesSplit DEF Owned
<1>7. ASSUME NEW k \in Made, obj[k].sess = x PROVE Fits(k)'
    <2>1. Fits(k)
        BY EntriesSplit
    <2>2. QED
        BY <1>2, <1>3, <1>4, <1>5, <1>7, <2>1 DEF Fits, Stopping
<1>8. Fits(m)'
    <2>1. Own(m)' => Listed(m)' = {}
        <3>1. ASSUME NEW q \in Listed(m)', Own(m)' PROVE FALSE
            <4>1. <<obj'[m].id, q>> \in info
                BY <1>2, <3>1 DEF Listed
            <4>2. PICK k \in Made : obj[k].id = obj'[m].id
                BY <1>2, <3>1, <4>1, EntriesSplit DEF Owned, Own
            <4>3. k \in 1 .. made' /\ obj'[k].id = obj'[m].id /\ k # m
                BY <1>2, <1>3, <1>4, <4>2
            <4>4. QED
                BY <3>1, <4>3 DEF Own, Alone
        <3>2. QED
            BY <3>1
    <2>2. QED
        BY <1>2, <1>5, <2>1 DEF Fits
<1>9. AtPlace(x)'
    BY <1>2 DEF AtPlace, Merging
<1>10. \A k \in Made : obj[k].sess # x =>
         obj'[k] = obj[k] /\ (Own(k)' => Own(k) /\ Listed(k)' = Listed(k))
    BY <1>2, <1>3, <1>4
<1>11. \A k \in Made : Fits(k)'
    BY <1>0, <1>7, <1>10, OthersEntries
<1>12. \A k \in 1 .. made' : Fits(k)'
    BY <1>3, <1>8, <1>11
<1>13. \A y \in Sess : AtPlace(y)'
    BY <1>0, <1>9, <1>10, OthersEntries
<1>14. QED
    BY <1>6, <1>12, <1>13, EntriesJoin

\* Merging and deleting the entry: the entries with another ID stay as they are.
LEMMA EntriesInfo ==
    ASSUME Base, EntriesOK, NEW x \in Sess, MergeInfo(x) \/ DeleteInfo(x)
    PROVE  EntriesOK'
<1>0. TypeOK /\ MembersOK /\ HandlerOK(x) /\ SessionStep(x)
    BY DEF Base, SessionStep, HandlerStep
<1>1. PICK n \in Objs : n = Head(starting[x]) /\ n \in Made /\ obj[n].sess = x
    BY <1>0, HeadType DEF MergeInfo, DeleteInfo, AtHead, MembersOK
<1>2. /\ UNCHANGED <<made, obj, starting, astray>>
      /\ \/ MergeInfo(x) /\ info' = info \cup Entry(n) /\ hpc[x] = "merge" /\ hpc'[x] = "merging"
         \/ DeleteInfo(x) /\ info' = {e \in info : e[1] # obj[n].id} /\ hpc'[x] = "deleting"
    BY <1>0, <1>1 DEF MergeInfo, DeleteInfo, EntryOf, TypeOK, objVars, requestVars, history
<1>3. obj[n].path \subseteq Paths /\ info \subseteq Nat \X Paths
    BY <1>0, <1>1 DEF TypeOK, Subscribers
<1>4. ASSUME NEW k \in Made
      PROVE  /\ Own(k)' <=> Own(k)
             /\ k # n /\ Own(k) => Listed(k)' = Listed(k)
    <2>1. Own(k)' <=> Own(k)
        BY <1>2 DEF Own, Alone
    <2>2. ASSUME k # n, Own(k) PROVE Listed(k)' = Listed(k)
        <3>1. obj[k].id # obj[n].id
            BY <1>1, <2>2 DEF Own, Alone
        <3>2. \A q \in Paths : <<obj[k].id, q>> \in info' <=> <<obj[k].id, q>> \in info
            BY <1>2, <3>1 DEF Entry
        <3>3. QED
            BY <1>2, <3>2 DEF Listed
    <2>3. QED
        BY <2>1, <2>2
<1>5. Owned'
    BY <1>1, <1>2, EntriesSplit DEF Owned, Entry
<1>6. CASE MergeInfo(x) /\ info' = info \cup Entry(n) /\ hpc[x] = "merge" /\ hpc'[x] = "merging"
    <2>1. Whole(n)'
        <3>1. Own(n) => Listed(n) \subseteq obj[n].path
            BY <1>1, EntriesSplit DEF Fits
        <3>2. Own(n) => Listed(n)' = obj[n].path
            BY <1>2, <1>3, <1>6, <3>1 DEF Listed, Entry
        <3>3. QED
            BY <1>1, <1>2, <1>4, <3>2 DEF Whole
    <2>2. ASSUME NEW k \in Made, obj[k].sess = x PROVE Fits(k)'
        <3>1. Fits(k) /\ hpc[x] \notin Stopping
            BY <1>6, EntriesSplit DEF Stopping
        <3>2. QED
            BY <1>2, <1>4, <2>1, <2>2, <3>1 DEF Fits, Whole
    <2>3. AtPlace(x)'
        BY <1>1, <1>2, <1>6, <2>1 DEF AtPlace
    <2>4. QED
        BY <1>0, <1>1, <1>2, <1>4, <1>5, <2>2, <2>3, OthersEntries, EntriesJoin
<1>7. CASE DeleteInfo(x) /\ info' = {e \in info : e[1] # obj[n].id} /\ hpc'[x] = "deleting"
    <2>1. Listed(n)' = {}
        BY <1>2, <1>7 DEF Listed
    <2>2. ASSUME NEW k \in Made, obj[k].sess = x PROVE Fits(k)'
        <3>1. Fits(k)
            BY EntriesSplit
        <3>2. QED
            BY <1>2, <1>4, <1>7, <2>1, <2>2, <3>1 DEF Fits, Stopping
    <2>3. AtPlace(x)'
        BY <1>1, <1>2, <1>7, <2>1 DEF AtPlace, Empty, Merging
    <2>4. QED
        BY <1>0, <1>1, <1>2, <1>4, <1>5, <2>2, <2>3, OthersEntries, EntriesJoin
<1>8. QED
    BY <1>2, <1>6, <1>7

LEMMA EntriesEnded ==
    ASSUME Base, EntriesOK, NEW x \in Sess, Ended(x)
    PROVE  EntriesOK'
<1>0. TypeOK /\ MembersOK /\ HandlerOK(x) /\ SessionStep(x)
    BY DEF Base, SessionStep, HandlerStep, Failure, Ended
<1>a. DeleteSubscription(x) /\ hpc[x] \in {"delete", "deleting"} /\ info' = info
    BY EndedIs
<1>1. PICK n \in Objs : n = Head(starting[x]) /\ n \in Made /\ obj[n].sess = x
    BY <1>0, <1>a, HeadType DEF AtHead, MembersOK
<1>2. /\ UNCHANGED <<made, info>> /\ hpc'[x] = "stop"
      /\ \A k \in Objs : obj'[k].id = obj[k].id /\ obj'[k].sess = obj[k].sess
                         /\ (k # n => obj'[k] = obj[k])
      /\ obj'[n].path = {}
    <2>1. obj \in [Objs -> Subscribers] /\ hpc \in [Sess -> States]
        BY <1>0 DEF TypeOK
    <2>2. /\ obj' = [obj EXCEPT ![n] = [obj[n] EXCEPT !.path = {}]]
          /\ hpc' = [hpc EXCEPT ![x] = "stop"] /\ UNCHANGED <<made, info>>
        BY <1>a, <1>1 DEF DeleteSubscription
    <2>3. QED
        BY <1>1, <2>1, <2>2 DEF Subscribers
<1>b. \/ hpc[x] = "deleting" /\ astray' = astray
      \/ EntryOf(obj[n].id) = {} /\ astray' = astray
      \/ astray' = astray \cup {obj[n].id}
    BY <1>1, EndedIs
<1>3. \A k \in Made : k \in Objs
    BY <1>0, SubscriptionAssumption DEF TypeOK
<1>4. \A k \in Made : (Own(k)' => Own(k)) /\ Listed(k)' = Listed(k)
    BY <1>2, <1>b, <1>3 DEF Own, Alone, Listed
<1>5. Owned'
    BY <1>2, <1>b, <1>3, EntriesSplit DEF Owned
<1>6. Own(n)' => Listed(n) = {}
    <2>1. CASE hpc[x] = "deleting"
        BY <1>1, <1>4, <2>1, EntriesSplit DEF AtPlace, Empty
    <2>2. CASE EntryOf(obj[n].id) = {}
        BY <2>2 DEF EntryOf, Listed
    <2>3. CASE astray' = astray \cup {obj[n].id}
        BY <1>1, <1>2, <2>3 DEF Own
    <2>4. QED
        BY <1>b, <2>1, <2>2, <2>3
<1>7. ASSUME NEW k \in Made, obj[k].sess = x PROVE Fits(k)'
    <2>1. Fits(k)
        BY EntriesSplit
    <2>2. QED
        BY <1>2, <1>3, <1>4, <1>6, <1>7, <2>1 DEF Fits, Stopping
<1>8. AtPlace(x)'
    BY <1>2 DEF AtPlace, Merging
<1>9. QED
    BY <1>0, <1>1, <1>2, <1>3, <1>4, <1>5, <1>7, <1>8, OthersEntries, EntriesJoin

\* Nothing is asked of the entry that an error of addDynamicSubscription() leaves.
LEMMA EntriesFailed ==
    ASSUME Base, EntriesOK, NEW x \in Sess, AddFails(x) \/ MergeFailed(x)
    PROVE  EntriesOK'
<1> USE DEF objVars, requestVars
<1>0. TypeOK /\ SessionStep(x)
    BY DEF Base, SessionStep, Failure, MergeFailed
<1>1. \A y \in Sess : y # x => hpc'[y] = hpc[y] /\ starting'[y] = starting[y]
    BY <1>0, OthersSame
<1>2. /\ UNCHANGED <<obj, made, starting>>
      /\ astray' = astray \cup {obj[Head(starting[x])].id}
      /\ hpc[x] \in {"start", "merge"} /\ hpc'[x] = "register"
      /\ info' = info \/ info' = info \cup Entry(Head(starting[x]))
    BY <1>0 DEF AddFails, MergeFailed, MergeFails, Disturb, TypeOK
<1>3. OthersAstray
    BY <1>2 DEF OthersAstray, Entry
<1>4. QED
    BY <1>1, <1>2, <1>3, EntriesFrame DEF Stopping, Merging

\* Nor of those that the program changes.
LEMMA EntriesOutside ==
    ASSUME Base, EntriesOK, Outside
    PROVE  EntriesOK'
<1>1. /\ UNCHANGED <<obj, made, hpc, starting>>
      /\ \/ UNCHANGED <<info, astray>>
         \/ \E c \in InfoChanges : info' = Changed(c) /\ astray' = astray \cup c.ids
    BY OutsideLeaves DEF Base, requestVars
<1>2. info \subseteq Nat \X Paths
    BY DEF Base, TypeOK
<1>3. OthersAstray
    BY <1>1, <1>2, SubscriptionAssumption DEF OthersAstray, Changed
<1>4. Owned' /\ \A n : Own(n)' => Own(n) /\ Listed(n)' = Listed(n)
    BY <1>3, OwnKept, EntriesSplit
<1>5. \A n \in 1 .. made' : Fits(n)'
    BY <1>1, <1>4, EntriesSplit DEF Fits
<1>6. \A x \in Sess : AtPlace(x)'
    BY <1>1, <1>4, EntriesSplit DEF AtPlace, Whole, Empty
<1>7. QED
    BY <1>4, <1>5, <1>6, EntriesJoin

LEMMA EntriesStep ==
    ASSUME Base, EntriesOK, [Next]_vars
    PROVE  EntriesOK'
<1> USE DEF objVars, eventVars, requestVars, history, bounds
<1>0. TypeOK /\ MembersOK /\ \A x \in Sess : HandlerOK(x)
    BY DEF Base
<1>1. ASSUME UNCHANGED <<obj, made, info, astray>> PROVE OthersAstray
    BY <1>1 DEF OthersAstray
<1>2. ASSUME NEW x \in Sess, SessionStep(x) PROVE EntriesOK'
    <2>0. HandlerOK(x) /\ \A y \in Sess : y # x => hpc'[y] = hpc[y] /\ starting'[y] = starting[y]
        BY <1>0, <1>2, OthersSame
    <2> USE DEF Merging, Stopping
    <2>1. ASSUME NEW r \in Requests[x], Receive(x, r) PROVE EntriesOK'
        BY <1>0, <1>1, <2>0, <2>1, EntriesFrame DEF Receive, TypeOK
    <2>2. CASE EndOfStream(x) \/ Joined(x) \/ Leave(x) \/ ReadID(x) \/ WriteID(x) \/ LockMutex(x)
        <3>1. CASE EndOfStream(x) \/ Joined(x) \/ Leave(x)
            BY <1>0, <1>1, <2>0, <3>1, EntriesFrame DEF EndOfStream, Joined, Leave, TypeOK
        <3>2. CASE ReadID(x) \/ WriteID(x)
            BY <1>0, <1>1, <2>0, <3>2, EntriesFrame DEF ReadID, WriteID, TypeOK
        <3>3. CASE LockMutex(x)
            BY <1>0, <1>1, <2>0, <3>3, EntriesFrame DEF LockMutex, TypeOK
        <3>4. QED
            BY <2>2, <3>1, <3>2, <3>3
    <2>3. CASE Refuse(x)
        BY <1>0, <1>1, <2>0, <2>3, EntriesFrame DEF Refuse, TypeOK
    <2>4. CASE Merged(x)
        BY <1>0, <1>1, <2>0, <2>4, EntriesFrame DEF Merged, TypeOK
    <2>5. ASSUME Started(x), UNCHANGED <<obj, made, info, astray>>, hpc[x] \in {"register", "run"}
          PROVE  EntriesOK'
        <3>1. PICK n \in Objs : n = Head(starting[x])
            BY <2>0, <1>0, <2>5, HeadType DEF AtHead
        <3>2. /\ starting'[x] = Tail(starting[x]) /\ hpc'[x] \in {"recv", "start"}
              /\ Elements(starting[x]) = Elements(starting'[x]) \cup {n}
            BY <1>0, <2>0, <2>5, <3>1, HeadType DEF Started, TypeOK, AtHead
        <3>3. Whole(n)
            BY <2>5, <3>1, EntriesSplit DEF AtPlace
        <3>4. QED
            BY <1>1, <2>0, <2>5, <3>2, <3>3, EntriesFrame
    <2>6. CASE RegisterSub(x)
        <3>1. CASE Started(x)
            BY <2>5, <2>6, <3>1 DEF RegisterSub
        <3>2. CASE hpc' = [hpc EXCEPT ![x] = "init"] /\ UNCHANGED requestVars
            BY <1>0, <1>1, <2>0, <2>6, <3>2, EntriesFrame DEF RegisterSub, TypeOK
        <3>3. QED
            BY <2>6, <3>1, <3>2 DEF RegisterSub
    <2>7. CASE InitTelemetryUpdate(x)
        BY <1>0, <1>1, <2>0, <2>7, EntriesFrame DEF InitTelemetryUpdate, TypeOK
    <2>8. CASE StartRun(x)
        BY <2>5, <2>8 DEF StartRun
    <2>9. ASSUME NEW n \in Objs, UnregisterSub(x, n) PROVE EntriesOK'
        BY <1>0, <1>1, <2>0, <2>9, EntriesFrame DEF UnregisterSub, TypeOK
    <2>10. QED
        BY <1>2, <2>1, <2>2, <2>3, <2>4, <2>6, <2>7, <2>8, <2>9, EntriesAddPath, EntriesCreate,
           EntriesInfo, EntriesEnded, EntriesFailed, StepOf
<1>3. QED
    BY <1>2, EntriesOutside, StepCases

-----------------------------------------------------------------------------
(* The lock and the mutexes.                                                *)

\* Sessions, writers, goroutines and nobody are told apart.
LEMMA HoldersApart ==
    /\ Nobody \notin Sess /\ Nobody \notin Writers /\ Nobody \notin Objs
    /\ \A x \in Sess : x \notin Writers /\ x \notin Objs
    /\ \A w \in Writers : w \notin Objs
BY SubscriptionAssumption

Holding == {"merging", "deleting"}

\* A step of a handler that takes Lock, gives it back, or leaves it alone.
LEMMA HandlerLocks ==
    ASSUME TypeOK, NEW x \in Sess, SessionStep(x)
    PROVE  /\ \A n \in Objs : run'[n] = "syncing" <=> run[n] = "syncing"
           /\ \/ /\ lock = Nobody /\ lock' = x /\ hpc[x] \notin Holding /\ hpc'[x] \in Holding
              \/ /\ lock = x /\ lock' = Nobody /\ left = {} /\ left' = {}
                 /\ hpc[x] \in Holding /\ hpc'[x] \notin Holding
              \/ /\ lock' = lock /\ hpc[x] \notin Holding /\ hpc'[x] \notin Holding
                 /\ lock # Nobody => left' = left
<1> USE DEF TypeOK, objVars, eventVars, requestVars, Holding
<1>1. ASSUME NEW r \in Requests[x], Receive(x, r)
      PROVE  UNCHANGED <<lock, left, run>> /\ hpc[x] \notin Holding /\ hpc'[x] \notin Holding
    BY <1>1 DEF Receive
<1>2. CASE EndOfStream(x) \/ Joined(x) \/ Leave(x) \/ Refuse(x) \/ ReadID(x) \/ WriteID(x)
    BY <1>2 DEF EndOfStream, Joined, Leave, Refuse, ReadID, WriteID
<1>3. ASSUME NEW n \in Objs, AddPath(x, n) \/ UnregisterSub(x, n)
      PROVE  /\ UNCHANGED <<lock, run>> /\ hpc[x] \notin Holding /\ hpc'[x] \notin Holding
             /\ lock # Nobody => left' = left
    BY <1>3 DEF AddPath, Accept, UnregisterSub
<1>4. ASSUME NEW id \in {tmp[x] + 1, subID}, Create(x, id)
      PROVE  UNCHANGED <<lock, left, run>> /\ hpc[x] \notin Holding /\ hpc'[x] \notin Holding
    BY <1>4 DEF Create, Accept
<1>5. CASE MergeInfo(x) \/ DeleteInfo(x)
    BY <1>5 DEF MergeInfo, DeleteInfo, LockAndRaise
<1>6. CASE Merged(x)
    BY <1>6 DEF Merged, UnlockServer
<1>7. CASE LockMutex(x) \/ InitTelemetryUpdate(x) \/ AddFails(x)
    BY <1>7 DEF LockMutex, InitTelemetryUpdate, AddFails
<1>8. CASE RegisterSub(x)
    BY <1>8 DEF RegisterSub, Started
<1>9. CASE StartRun(x)
    <2>1. UNCHANGED <<lock, left>> /\ hpc[x] \notin Holding /\ hpc'[x] \notin Holding
        BY <1>9 DEF StartRun, Started
    <2>2. \A n \in Objs : run'[n] = run[n] \/ (run'[n] = "select" /\ ~ Running(n))
        BY <1>9 DEF StartRun
    <2>3. QED
        BY <2>1, <2>2 DEF Running
<1>10. CASE MergeFailed(x)
    BY <1>10 DEF MergeFailed, MergeFails, RaiseSome
<1>11. CASE Ended(x)
    <2>1. DeleteSubscription(x)
        BY <1>11, EndedIs
    <2>2. run' = run /\ hpc'[x] = "stop"
        BY <2>1 DEF DeleteSubscription
    <2>3. QED
        BY <1>11, <2>2, EndedIs
<1>12. QED
    BY <1>1, <1>2, <1>3, <1>4, <1>5, <1>6, <1>7, <1>8, <1>9, <1>10, <1>11, StepOf

\* The same for a run().
LEMMA RunLocks ==
    ASSUME TypeOK, NEW n \in Objs, RunStep(n)
    PROVE  /\ hpc' = hpc /\ \A k \in Objs \ {n} : run'[k] = run[k]
           /\ \/ /\ lock = Nobody /\ lock' = n /\ run[n] # "syncing" /\ run'[n] = "syncing"
              \/ /\ lock = n /\ lock' = Nobody /\ left = {} /\ left' = {}
                 /\ run[n] = "syncing" /\ run'[n] # "syncing"
              \/ UNCHANGED <<lock, left>> /\ run[n] # "syncing" /\ run'[n] # "syncing"
<1> USE DEF TypeOK, RunTo, requestVars
<1>1. CASE RunShutdown(n) \/ RunReceive(n) \/ RunExpired(n) \/ RunSampling(n) \/ RunLock(n)
    BY <1>1 DEF RunShutdown, RunReceive, RunExpired, RunSampling, RunLock
<1>2. ASSUME NEW q \in Paths, RunSync(n, q)
      PROVE  /\ hpc' = hpc /\ \A k \in Objs \ {n} : run'[k] = run[k]
             /\ lock = Nobody /\ lock' = n /\ run[n] # "syncing" /\ run'[n] = "syncing"
    BY <1>2 DEF RunSync, LockAndRaise
<1>3. CASE RunSynced(n)
    BY <1>3 DEF RunSynced
<1>4. ASSUME NEW next \in {"select", "done"}, RunUpdate(n, next)
      PROVE  /\ hpc' = hpc /\ \A k \in Objs \ {n} : run'[k] = run[k]
             /\ UNCHANGED <<lock, left>> /\ run[n] # "syncing" /\ run'[n] # "syncing"
    BY <1>4 DEF RunUpdate
<1>5. QED
    BY <1>1, <1>2, <1>3, <1>4 DEF RunStep

LEMMA LockStep ==
    ASSUME TypeOK, LockOK, [Next]_vars
    PROVE  LockOK'
<1>1. ASSUME NEW x \in Sess, SessionStep(x) PROVE LockOK'
    <2>1. \A y \in Sess \ {x} : hpc'[y] = hpc[y]
        BY <1>1, OthersSame
    <2>2. QED
        BY <1>1, <2>1, HandlerLocks, HoldersApart DEF LockOK, Holding
<1>2. ASSUME NEW n \in Objs, RunStep(n) PROVE LockOK'
    BY <1>2, RunLocks, HoldersApart DEF LockOK
<1>3. ASSUME NEW n \in Objs, EventComplete(n) PROVE LockOK'
    BY <1>3 DEF EventComplete, LockOK
<1>4. ASSUME NEW w \in Writers, WriteDone(w) PROVE LockOK'
    BY <1>4, HoldersApart DEF WriteDone, UnlockServer, LockOK
<1>5. CASE ProgramStep
    <2>1. UNCHANGED <<hpc, run>> /\ lock = Nobody /\ lock' \in Writers \cup {Nobody}
        BY <1>5, ProgramLeaves
    <2>2. QED
        BY <2>1, HoldersApart DEF LockOK
<1>6. CASE UNCHANGED vars
    BY <1>6 DEF vars, eventVars, LockOK
<1>7. QED
    BY <1>1, <1>2, <1>3, <1>4, <1>5, <1>6, StepCases DEF Outside

InMutex == {"merge", "merging"}
RunInMutex == {"update", "sync", "syncing"}

\* A step of a handler that takes the mutex of its subscriber, gives it back, merges
\* with it, or has nothing to do with it.
LEMMA HandlerMutexes ==
    ASSUME TypeOK, NEW x \in Sess, SessionStep(x)
    PROVE  /\ \A n \in Objs : run'[n] \in RunInMutex <=> run[n] \in RunInMutex
           /\ \/ /\ mutex[Head(starting[x])] = Nobody
                 /\ mutex' = [mutex EXCEPT ![Head(starting[x])] = x]
                 /\ starting' = starting /\ hpc[x] = "start" /\ hpc'[x] = "merge"
              \/ /\ mutex' = [mutex EXCEPT ![Head(starting[x])] = Nobody]
                 /\ hpc[x] = "merging" \/ (hpc[x] = "merge" /\ lock = Nobody)
                 /\ hpc'[x] \notin InMutex
              \/ UNCHANGED <<mutex, starting>> /\ hpc[x] \in InMutex /\ hpc'[x] \in InMutex
              \/ mutex' = mutex /\ hpc[x] \notin InMutex /\ hpc'[x] \notin InMutex
<1> USE DEF TypeOK, objVars, eventVars, requestVars, InMutex
<1>1. ASSUME NEW r \in Requests[x], Receive(x, r)
      PROVE  UNCHANGED <<mutex, run>> /\ hpc[x] \notin InMutex /\ hpc'[x] \notin InMutex
    BY <1>1 DEF Receive
<1>2. CASE EndOfStream(x) \/ Joined(x) \/ Leave(x) \/ Refuse(x) \/ ReadID(x) \/ WriteID(x)
    BY <1>2 DEF EndOfStream, Joined, Leave, Refuse, ReadID, WriteID
<1>3. ASSUME NEW n \in Objs, AddPath(x, n) \/ UnregisterSub(x, n)
      PROVE  UNCHANGED <<mutex, run>> /\ hpc[x] \notin InMutex /\ hpc'[x] \notin InMutex
    BY <1>3 DEF AddPath, Accept, UnregisterSub
<1>4. ASSUME NEW id \in {tmp[x] + 1, subID}, Create(x, id)
      PROVE  UNCHANGED <<mutex, run>> /\ hpc[x] \notin InMutex /\ hpc'[x] \notin InMutex
    BY <1>4 DEF Create, Accept
<1>5. CASE LockMutex(x)
    BY <1>5 DEF LockMutex
<1>6. CASE MergeInfo(x)
    BY <1>6 DEF MergeInfo
<1>7. CASE Merged(x) \/ MergeFailed(x)
    BY <1>7 DEF Merged, MergeFailed, MergeFails, RaiseSome
<1>8. CASE DeleteInfo(x) \/ InitTelemetryUpdate(x) \/ AddFails(x)
    BY <1>8 DEF DeleteInfo, InitTelemetryUpdate, AddFails
<1>9. CASE RegisterSub(x)
    BY <1>9 DEF RegisterSub, Started
<1>10. CASE StartRun(x)
    <2>1. mutex' = mutex /\ hpc[x] \notin InMutex /\ hpc'[x] \notin InMutex
        BY <1>10 DEF StartRun, Started
    <2>2. \A n \in Objs : run'[n] = run[n] \/ (run'[n] = "select" /\ ~ Running(n))
        BY <1>10 DEF StartRun
    <2>3. QED
        BY <2>1, <2>2 DEF Running, RunInMutex
<1>11. CASE Ended(x)
    <2>1. DeleteSubscription(x) /\ hpc[x] \in {"delete", "deleting"}
        BY <1>11, EndedIs
    <2>2. QED
        BY <2>1 DEF DeleteSubscription
<1>12. QED
    BY <1>1, <1>2, <1>3, <1>4, <1>5, <1>6, <1>7, <1>8, <1>9, <1>10, <1>11, StepOf

\* The same for a run().
LEMMA RunMutexes ==
    ASSUME TypeOK, NEW n \in Objs, RunStep(n)
    PROVE  /\ UNCHANGED <<hpc, starting>> /\ \A k \in Objs \ {n} : run'[k] = run[k]
           /\ \/ /\ mutex[n] = Nobody /\ mutex' = [mutex EXCEPT ![n] = n]
                 /\ run'[n] \in RunInMutex
              \/ /\ mutex' = [mutex EXCEPT ![n] = Nobody]
                 /\ run[n] \in RunInMutex /\ run'[n] \notin RunInMutex
              \/ mutex' = mutex /\ (run[n] \in RunInMutex <=> run'[n] \in RunInMutex)
<1> USE DEF TypeOK, RunTo, requestVars, RunInMutex
<1>1. CASE RunShutdown(n) \/ RunReceive(n) \/ RunExpired(n) \/ RunSampling(n)
    BY <1>1 DEF RunShutdown, RunReceive, RunExpired, RunSampling
<1>2. CASE RunLock(n)
    BY <1>2 DEF RunLock
<1>3. ASSUME NEW q \in Paths, RunSync(n, q)
      PROVE  /\ UNCHANGED <<hpc, starting>> /\ \A k \in Objs \ {n} : run'[k] = run[k]
             /\ mutex' = mutex /\ run[n] \in RunInMutex /\ run'[n] \in RunInMutex
    BY <1>3 DEF RunSync
<1>4. CASE RunSynced(n)
    BY <1>4 DEF RunSynced
<1>5. ASSUME NEW next \in {"select", "done"}, RunUpdate(n, next)
      PROVE  /\ UNCHANGED <<hpc, starting>> /\ \A k \in Objs \ {n} : run'[k] = run[k]
             /\ \/ /\ mutex' = [mutex EXCEPT ![n] = Nobody]
                   /\ run[n] \in RunInMutex /\ run'[n] \notin RunInMutex
                \/ mutex' = mutex /\ run[n] \notin RunInMutex /\ run'[n] \notin RunInMutex
    BY <1>5 DEF RunUpdate
<1>6. QED
    BY <1>1, <1>2, <1>3, <1>4, <1>5 DEF RunStep

LEMMA MutexStep ==
    ASSUME Base, MutexOK, [Next]_vars
    PROVE  MutexOK'
<1>0. /\ TypeOK /\ mutex \in [Objs -> Sess \cup Objs \cup {Nobody}]
      /\ \A y \in Sess : hpc[y] \in AtHead => Head(starting[y]) \in Objs
    BY HeadType DEF Base, TypeOK
<1>1. ASSUME NEW x \in Sess, SessionStep(x) PROVE MutexOK'
    <2>1. \A y \in Sess \ {x} : hpc'[y] = hpc[y] /\ starting'[y] = starting[y]
        BY <1>0, <1>1, OthersSame
    <2>2. \A n \in Objs : run'[n] \in RunInMutex <=> run[n] \in RunInMutex
        BY <1>0, <1>1, HandlerMutexes
    <2> DEFINE h == Head(starting[x])
    <2>3. CASE /\ mutex[h] = Nobody /\ mutex' = [mutex EXCEPT ![h] = x]
               /\ starting' = starting /\ hpc[x] = "start" /\ hpc'[x] = "merge"
        BY <1>0, <2>1, <2>2, <2>3, HoldersApart DEF MutexOK, RunInMutex, AtHead
    <2>4. CASE /\ mutex' = [mutex EXCEPT ![h] = Nobody]
               /\ hpc[x] \in InMutex /\ hpc'[x] \notin InMutex
        BY <1>0, <2>1, <2>2, <2>4, HoldersApart DEF MutexOK, InMutex, RunInMutex, AtHead
    <2>5. CASE UNCHANGED <<mutex, starting>> /\ hpc[x] \in InMutex /\ hpc'[x] \in InMutex
        BY <2>1, <2>2, <2>5 DEF MutexOK, InMutex, RunInMutex
    <2>6. CASE mutex' = mutex /\ hpc[x] \notin InMutex /\ hpc'[x] \notin InMutex
        BY <2>1, <2>2, <2>6 DEF MutexOK, InMutex, RunInMutex
    <2>7. QED
        BY <1>0, <1>1, <2>3, <2>4, <2>5, <2>6, HandlerMutexes DEF InMutex
<1>2. ASSUME NEW n \in Objs, RunStep(n) PROVE MutexOK'
    <2>1. UNCHANGED <<hpc, starting>> /\ \A k \in Objs \ {n} : run'[k] = run[k]
        BY <1>0, <1>2, RunMutexes
    <2>2. CASE mutex[n] = Nobody /\ mutex' = [mutex EXCEPT ![n] = n] /\ run'[n] \in RunInMutex
        BY <1>0, <2>1, <2>2, HoldersApart DEF MutexOK, RunInMutex, AtHead
    <2>3. CASE /\ mutex' = [mutex EXCEPT ![n] = Nobody]
               /\ run[n] \in RunInMutex /\ run'[n] \notin RunInMutex
        BY <1>0, <2>1, <2>3, HoldersApart DEF MutexOK, RunInMutex, AtHead
    <2>4. CASE mutex' = mutex /\ (run[n] \in RunInMutex <=> run'[n] \in RunInMutex)
        BY <2>1, <2>4 DEF MutexOK, RunInMutex
    <2>5. QED
        BY <1>0, <1>2, <2>2, <2>3, <2>4, RunMutexes
<1>3. ASSUME NEW n \in Objs, EventComplete(n) PROVE MutexOK'
    BY <1>3 DEF EventComplete, requestVars, MutexOK
<1>4. ASSUME NEW w \in Writers, WriteDone(w) PROVE MutexOK'
    BY <1>4 DEF WriteDone, requestVars, MutexOK
<1>5. CASE ProgramStep
    BY <1>5, ProgramLeaves DEF requestVars, MutexOK
<1>6. CASE UNCHANGED vars
    BY <1>6 DEF vars, requestVars, MutexOK
<1>7. QED
    BY <1>1, <1>2, <1>3, <1>4, <1>5, <1>6, StepCases DEF Outside

-----------------------------------------------------------------------------
(* Who is registered, and who has a run().                                  *)

\* Who was made stays what it was made for.
LEMMA MadeKept ==
    ASSUME TypeOK, NEW x \in Sess, SessionStep(x)
    PROVE  Made \subseteq Made' /\ \A n \in Made : n \in Objs /\ SameButPath(obj'[n], obj[n])
<1> USE DEF TypeOK, objVars
<1>0. Made \subseteq Objs /\ made \in Nat /\ obj \in [Objs -> Subscribers]
    BY SubscriptionAssumption DEF Made, Objs
<1>1. ASSUME made' = made, obj' = obj
      PROVE  Made \subseteq Made' /\ \A n \in Made : n \in Objs /\ SameButPath(obj'[n], obj[n])
    BY <1>0, <1>1 DEF SameButPath, Made
<1>2. ASSUME NEW r \in Requests[x], Receive(x, r) PROVE made' = made /\ obj' = obj
    BY <1>2 DEF Receive
<1>3. CASE EndOfStream(x) \/ Joined(x) \/ Leave(x) \/ Refuse(x) \/ ReadID(x) \/ WriteID(x)
    BY <1>1, <1>3 DEF EndOfStream, Joined, Leave, Refuse, ReadID, WriteID
<1>4. CASE LockMutex(x) \/ MergeInfo(x) \/ Merged(x) \/ DeleteInfo(x) \/ RegisterSub(x)
           \/ InitTelemetryUpdate(x) \/ StartRun(x) \/ AddFails(x) \/ MergeFailed(x)
    BY <1>1, <1>4 DEF LockMutex, MergeInfo, Merged, DeleteInfo, RegisterSub, InitTelemetryUpdate,
                      StartRun, AddFails, MergeFailed, MergeFails
<1>5. ASSUME NEW n \in Objs, UnregisterSub(x, n) PROVE made' = made /\ obj' = obj
    BY <1>5 DEF UnregisterSub
<1>6. ASSUME NEW k, NEW P, made' = made, obj' = [obj EXCEPT ![k] = [@ EXCEPT !.path = P]]
      PROVE  Made \subseteq Made' /\ \A n \in Made : n \in Objs /\ SameButPath(obj'[n], obj[n])
    <2>1. ASSUME NEW n \in Objs PROVE SameButPath(obj'[n], obj[n])
        BY <1>0, <1>6, PathOnly DEF SameButPath
    <2>2. QED
        BY <1>0, <1>6, <2>1 DEF Made
<1>7. ASSUME NEW n \in Objs, AddPath(x, n)
      PROVE  Made \subseteq Made' /\ \A k \in Made : k \in Objs /\ SameButPath(obj'[k], obj[k])
    BY <1>6, <1>7 DEF AddPath
<1>8. CASE Ended(x)
    BY <1>6, <1>8, EndedIs DEF DeleteSubscription
<1>9. ASSUME NEW id \in {tmp[x] + 1, subID}, Create(x, id)
      PROVE  Made \subseteq Made' /\ \A n \in Made : n \in Objs /\ SameButPath(obj'[n], obj[n])
    BY <1>0, <1>9 DEF Create, Made, SameButPath
<1>10. QED
    BY <1>1, <1>2, <1>3, <1>4, <1>5, <1>7, <1>8, <1>9, StepOf

\* An ON_CHANGE subscriber has no sampling interval.
LEMMA NothingSampled ==
    ASSUME NEW mode, NEW item, StreamConfig(mode, item).sample > 0
    PROVE  item.submode # "ON_CHANGE"
BY DEF StreamConfig, Config

\* Handlers register subscribers that were made, and tell those that are registered.
LEMMA HandlerRegisters ==
    ASSUME Base, left \subseteq registered, NEW x \in Sess, SessionStep(x)
    PROVE  left' \subseteq registered' /\ registered' \subseteq registered \cup Made
<1>0. TypeOK /\ HandlerOK(x) /\ MembersOK
    BY DEF Base
<1> USE DEF eventVars, requestVars
<1>1. ASSUME NEW r \in Requests[x], Receive(x, r) PROVE UNCHANGED <<registered, left>>
    BY <1>1 DEF Receive
<1>2. CASE EndOfStream(x) \/ Joined(x) \/ Leave(x) \/ Refuse(x) \/ ReadID(x) \/ WriteID(x)
    BY <1>2 DEF EndOfStream, Joined, Leave, Refuse, ReadID, WriteID
<1>3. ASSUME NEW n \in Objs, AddPath(x, n) PROVE UNCHANGED <<registered, left>>
    BY <1>3 DEF AddPath
<1>4. ASSUME NEW id \in {tmp[x] + 1, subID}, Create(x, id) PROVE UNCHANGED <<registered, left>>
    BY <1>4 DEF Create
<1>5. CASE LockMutex(x) \/ InitTelemetryUpdate(x) \/ StartRun(x) \/ AddFails(x)
    BY <1>5 DEF LockMutex, InitTelemetryUpdate, StartRun, AddFails
<1>6. CASE MergeInfo(x) \/ DeleteInfo(x) \/ MergeFailed(x)
    BY <1>6 DEF MergeInfo, DeleteInfo, MergeFailed, MergeFails, LockAndRaise, RaiseSome, Receivers
<1>7. CASE Merged(x) \/ Ended(x)
    BY <1>7, EndedIs DEF Merged, UnlockServer
<1>8. CASE RegisterSub(x)
    <2>1. hpc[x] = "register" /\ left' = left
        BY <1>8 DEF RegisterSub
    <2>2. Head(starting[x]) \in Made
        BY <1>0, <2>1, HeadType DEF AtHead, MembersOK
    <2>3. registered' = registered \cup {Head(starting[x])}
        BY <1>8 DEF RegisterSub
    <2>4. QED
        BY <2>1, <2>2, <2>3
<1>9. ASSUME NEW n \in Objs, UnregisterSub(x, n)
      PROVE  left' \subseteq registered' /\ registered' \subseteq registered
    BY <1>9 DEF UnregisterSub
<1>10. QED
    BY <1>1, <1>2, <1>3, <1>4, <1>5, <1>6, <1>7, <1>8, <1>9, StepOf

\* Handlers start runs, and only that of the subscriber they are at.
LEMMA HandlerRuns ==
    ASSUME TypeOK, NEW x \in Sess, SessionStep(x)
    PROVE  \A n \in Objs : \/ run'[n] = run[n]
                          \/ /\ hpc[x] = "run" /\ n = Head(starting[x])
                             /\ ~ Running(n) /\ run'[n] = "select"
<1> USE DEF TypeOK
<1>1. ASSUME NEW r \in Requests[x], Receive(x, r) PROVE run' = run
    BY <1>1 DEF Receive
<1>2. CASE EndOfStream(x) \/ Joined(x) \/ Leave(x) \/ Refuse(x) \/ ReadID(x) \/ WriteID(x)
    BY <1>2 DEF EndOfStream, Joined, Leave, Refuse, ReadID, WriteID
<1>3. ASSUME NEW n \in Objs, AddPath(x, n) \/ UnregisterSub(x, n) PROVE run' = run
    BY <1>3 DEF AddPath, UnregisterSub
<1>4. ASSUME NEW id \in {tmp[x] + 1, subID}, Create(x, id) PROVE run' = run
    BY <1>4 DEF Create
<1>5. CASE LockMutex(x) \/ MergeInfo(x) \/ Merged(x) \/ DeleteInfo(x) \/ AddFails(x)
           \/ MergeFailed(x) \/ RegisterSub(x) \/ InitTelemetryUpdate(x)
    BY <1>5 DEF LockMutex, MergeInfo, Merged, DeleteInfo, AddFails, MergeFailed, MergeFails,
                RegisterSub, InitTelemetryUpdate
<1>6. CASE StartRun(x)
    BY <1>6 DEF StartRun
<1>7. CASE Ended(x)
    BY <1>7, EndedIs DEF DeleteSubscription
<1>8. QED
    BY <1>1, <1>2, <1>3, <1>4, <1>5, <1>6, <1>7, StepOf

\* A run() is there, tells receivers only, and samples what has an interval only.
LEMMA RunSteps ==
    ASSUME TypeOK, NEW n \in Objs, RunStep(n)
    PROVE  /\ run[n] # "none" /\ \A k \in Objs \ {n} : run'[k] = run[k]
           /\ UNCHANGED <<made, obj, registered>> /\ left' \subseteq left \cup registered
           /\ run'[n] \in {"sample", "sync", "syncing"} =>
                \/ run[n] \in {"sample", "sync", "syncing"}
                \/ obj[n].item.submode # "ON_CHANGE"
<1> USE DEF TypeOK, objVars
<1>1. CASE RunShutdown(n) \/ RunReceive(n) \/ RunExpired(n) \/ RunLock(n)
    BY <1>1 DEF RunShutdown, RunReceive, RunExpired, RunLock, RunTo
<1>2. CASE RunSampling(n)
    BY <1>2, NothingSampled DEF RunSampling, RunTo
<1>3. ASSUME NEW q \in Paths, RunSync(n, q)
      PROVE  /\ run[n] = "sync" /\ \A k \in Objs \ {n} : run'[k] = run[k]
             /\ UNCHANGED <<made, obj, registered>> /\ left' \subseteq left \cup registered
    BY <1>3 DEF RunSync, LockAndRaise, Receivers
<1>4. CASE RunSynced(n)
    BY <1>4 DEF RunSynced, RunTo
<1>5. ASSUME NEW next \in {"select", "done"}, RunUpdate(n, next)
      PROVE  /\ run[n] # "none" /\ \A k \in Objs \ {n} : run'[k] = run[k]
             /\ UNCHANGED <<made, obj, registered, left>> /\ run'[n] = next
    BY <1>5 DEF RunUpdate, RunTo
<1>6. QED
    BY <1>1, <1>2, <1>3, <1>4, <1>5 DEF RunStep

LEMMA RunsStep ==
    ASSUME Base, LockOK, RunsOK, [Next]_vars
    PROVE  RunsOK'
<1>0. TypeOK /\ MembersOK
    BY DEF Base
<1>1. ASSUME NEW x \in Sess, SessionStep(x) PROVE RunsOK'
    <2>1. Made \subseteq Made' /\ \A n \in Made : obj'[n].item = obj[n].item
        BY <1>0, <1>1, MadeKept DEF SameButPath
    <2>2. left' \subseteq registered' /\ registered' \subseteq Made'
        BY <1>1, <2>1, HandlerRegisters DEF RunsOK
    <2>3. hpc[x] = "run" => Head(starting[x]) \in Made
        BY <1>0, HeadType DEF Base, AtHead, MembersOK
    <2>4. QED
        BY <1>0, <1>1, <2>1, <2>2, <2>3, HandlerRuns DEF RunsOK
<1>2. ASSUME NEW n \in Objs, RunStep(n) PROVE RunsOK'
    <2>1. Made' = Made
        BY <1>0, <1>2, RunSteps DEF Made
    <2>2. QED
        BY <1>0, <1>2, <2>1, RunSteps DEF RunsOK
<1>3. ASSUME NEW n \in Objs, EventComplete(n) PROVE RunsOK'
    BY <1>3 DEF EventComplete, objVars, RunsOK, Made
<1>4. ASSUME NEW w \in Writers, WriteDone(w) PROVE RunsOK'
    BY <1>4 DEF WriteDone, UnlockServer, objVars, RunsOK, Made
<1>5. CASE ProgramStep
    BY <1>5, ProgramLeaves DEF RunsOK, Made
<1>6. CASE UNCHANGED vars
    BY <1>6 DEF vars, objVars, eventVars, RunsOK, Made
<1>7. QED
    BY <1>1, <1>2, <1>3, <1>4, <1>5, <1>6, StepCases DEF Outside

-----------------------------------------------------------------------------
(* No standstill.  The prover has no ENABLED: the guards of the actions of  *)
(* Internal stand for it.  What is left out of them is assignments.         *)

HandlerCan(x) ==
    \/ hpc[x] = "add" /\ (Existing(x) = {} \/ \E n \in Existing(x) : mutex[n] = Nobody)
    \/ hpc[x] \in {"count", "run"}
    \/ hpc[x] = "make" /\ (Acceptable(req[x].mode, Item(x)) => made < MaxSubs)
    \/ hpc[x] = "start" /\ starting[x] # <<>> /\ mutex[Head(starting[x])] = Nobody
    \/ hpc[x] \in {"merge", "register", "init", "stop", "delete"} /\ lock = Nobody
    \/ hpc[x] \in {"merging", "deleting"} /\ lock = x /\ left = {}
    \/ hpc[x] = "wait" /\ \A n \in Sub[x] : ~ Running(n)

RunCan(n) ==
    \/ run[n] = "select" /\ (Shutdown(obj[n].sess) \/ queue[n] > 0)
    \/ run[n] \in {"due", "sample"} /\ mutex[n] = Nobody
    \/ run[n] \in {"event", "update"} /\ lock = Nobody
    \/ run[n] = "sync"
    \/ run[n] = "syncing" /\ lock = n /\ left = {}

CanGoOn ==
    \/ \E x \in Sess : HandlerCan(x)
    \/ \E n \in Objs : RunCan(n)
    \/ \E w \in Writers : lock = w /\ left = {}
    \/ /\ lock # Nobody
       /\ \E n \in left : obj[n].item.submode = "ON_CHANGE" => queue[n] < OnchangeCap

\* The bound: another subscriber is asked for and may not be made.
OutOfSubs == made = MaxSubs /\ \E x \in Sess : hpc[x] = "make"

\* A registered subscriber has no run() for one of these reasons.
LEMMA WhyNoRun ==
    ASSUME IInv, NEW n \in registered, ~ Running(n)
    PROVE  \/ run[n] = "done" \/ obj[n].mode = "POLL"
           \/ n \in Elements(starting[obj[n].sess]) \/ Shutdown(obj[n].sess)
<1>1. n \in Made /\ n \in Objs /\ obj[n].mode \in {"POLL", "STREAM"}
    BY DEF IInv, RunsOK, TypeOK, Subscribers
<1>2. obj[n].sess \in Sess /\ (n \in Sub[obj[n].sess] \/ hpc[obj[n].sess] \in Stopping)
    BY <1>1 DEF IInv, MembersOK
<1>3. CASE hpc[obj[n].sess] \in Stopping
    BY <1>3 DEF Stopping, Shutdown
<1>4. CASE hpc[obj[n].sess] \notin Stopping
    <2>1. n \in Elements(starting[obj[n].sess]) \/ Complete(n)
        BY <1>2, <1>4 DEF IInv, ServiceOK
    <2>2. QED
        BY <1>1, <2>1 DEF Complete, Running
<1>5. QED
    BY <1>3, <1>4

\* If a SetEvent() is not through and nobody can go on, it is jammed.
LEMMA OnlyJams ==
    ASSUME IInv, ~ CanGoOn, lock # Nobody, left # {}
    PROVE  Jammed
<1>0. TypeOK /\ LockOK /\ MutexOK /\ MembersOK /\ RunsOK
    BY DEF IInv
<1>1. ASSUME NEW n \in left
      PROVE  obj[n].item.submode = "ON_CHANGE" /\ queue[n] >= OnchangeCap /\ AwayFromQueue(n)
    <2>1. /\ n \in Objs /\ n \in registered /\ n \in Made /\ obj[n].sess \in Sess
          /\ queue[n] \in Nat /\ OnchangeCap \in Nat \ {0}
        BY <1>0, <1>1, SubscriptionAssumption DEF TypeOK, RunsOK, MembersOK
    <2>2. obj[n].item.submode = "ON_CHANGE" /\ queue[n] >= OnchangeCap /\ queue[n] > 0
        BY <2>1 DEF CanGoOn
    <2>3. run[n] \notin {"select", "sync", "sample", "syncing"}
        BY <1>0, <2>1, <2>2 DEF CanGoOn, RunCan, RunsOK
    <2>4. CASE run[n] \in {"event", "update"}
        BY <2>2, <2>4 DEF AwayFromQueue
    <2>5. CASE run[n] = "due"
        <3>1. mutex[n] # Nobody
            BY <2>1, <2>5 DEF CanGoOn, RunCan
        <3>2. \E x \in Sess : mutex[n] = x /\ hpc[x] \in {"merge", "merging"}
            BY <1>0, <2>1, <2>5, <3>1 DEF MutexOK
        <3>3. QED
            BY <2>2, <2>5, <3>2 DEF AwayFromQueue
    <2>6. CASE ~ Running(n)
        <3>1. hpc[obj[n].sess] # "run"
            BY <2>1 DEF CanGoOn, HandlerCan
        <3>2. QED
            BY <2>1, <2>2, <2>6, <3>1, WhyNoRun DEF AwayFromQueue
    <2>7. QED
        BY <1>0, <2>1, <2>3, <2>4, <2>5, <2>6 DEF TypeOK, Running
<1>2. QED
    BY <1>1 DEF Jammed

LEMMA NobodyWaits ==
    ASSUME IInv, ~ CanGoOn, ~ Jammed, ~ OutOfSubs
    PROVE  Quiet
<1>0. TypeOK /\ LockOK /\ MutexOK /\ MembersOK /\ \A x \in Sess : HandlerOK(x)
    BY DEF IInv
<1>1. lock # Nobody => left = {}
    BY OnlyJams
<1>2. lock = Nobody
    <2>1. ASSUME NEW x \in Sess, lock = x PROVE FALSE
        <3>1. HandlerCan(x)
            BY <1>0, <1>1, <2>1, HoldersApart DEF LockOK, HandlerCan
        <3>2. QED
            BY <3>1 DEF CanGoOn
    <2>2. ASSUME NEW n \in Objs, lock = n PROVE FALSE
        <3>1. RunCan(n)
            BY <1>0, <1>1, <2>2, HoldersApart DEF LockOK, RunCan
        <3>2. QED
            BY <3>1 DEF CanGoOn
    <2>3. ASSUME NEW w \in Writers, lock = w PROVE FALSE
        BY <1>1, <2>3, HoldersApart DEF CanGoOn
    <2>4. QED
        BY <1>0, <2>1, <2>2, <2>3 DEF TypeOK
<1>3. \A n \in Objs : run[n] \notin {"event", "update", "sync", "syncing"}
    BY <1>0, <1>2, HoldersApart DEF CanGoOn, RunCan, LockOK
<1>4. \A x \in Sess : hpc[x] \notin {"merge", "merging"}
    BY <1>0, <1>2, HoldersApart DEF CanGoOn, HandlerCan, LockOK
<1>5. \A n \in Objs : mutex[n] = Nobody
    BY <1>0, <1>3, <1>4 DEF MutexOK
<1>6. ASSUME NEW n \in Objs, Running(n)
      PROVE  run[n] = "select" /\ queue[n] = 0 /\ ~ Shutdown(obj[n].sess)
    <2>1. run[n] \in {"select", "due", "sample"}
        BY <1>0, <1>3, <1>6 DEF TypeOK, Running
    <2>2. queue[n] \in 0 .. OnchangeCap
        BY <1>0 DEF TypeOK
    <2>3. ~ RunCan(n)
        BY DEF CanGoOn
    <2>4. QED
        BY <1>5, <2>1, <2>2, <2>3, SubscriptionAssumption DEF RunCan
<1>7. ASSUME NEW x \in Sess PROVE hpc[x] \in {"recv", "done"}
    <2>1. hpc[x] \in States /\ ~ HandlerCan(x) /\ Sub[x] \in SUBSET Objs
        BY <1>0 DEF TypeOK, CanGoOn
    <2>2. hpc[x] # "add"
        BY <1>5, <2>1 DEF HandlerCan, Existing
    <2>3. hpc[x] # "make"
        <3>1. made \in 0 .. MaxSubs /\ MaxSubs \in Nat
            BY <1>0, SubscriptionAssumption DEF TypeOK
        <3>2. QED
            BY <2>1, <3>1 DEF HandlerCan, OutOfSubs
    <2>4. hpc[x] # "start"
        BY <1>0, <1>5, <2>1, HeadType DEF HandlerCan, HandlerOK, AtHead
    <2>5. hpc[x] # "wait"
        <3> SUFFICES ASSUME hpc[x] = "wait" PROVE FALSE
            OBVIOUS
        <3>1. PICK n \in Sub[x] : Running(n)
            BY <2>1 DEF HandlerCan
        <3>2. n \in Objs /\ obj[n].sess = x
            BY <1>0, <2>1 DEF MembersOK
        <3>3. QED
            BY <1>6, <3>1, <3>2 DEF Shutdown
    <2>6. hpc[x] \notin {"merging", "deleting"}
        BY <1>0, <1>2, HoldersApart DEF LockOK
    <2>7. QED
        BY <1>2, <2>1, <2>2, <2>3, <2>4, <2>5, <2>6 DEF HandlerCan, States
<1>8. QED
    BY <1>2, <1>5, <1>6, <1>7 DEF Quiet

-----------------------------------------------------------------------------
(* A jam is for good.                                                       *)

\* What keeps run() from its queue, without the reasons for which there is none.
Stuck(n) ==
    /\ obj[n].item.submode = "ON_CHANGE" /\ queue[n] >= OnchangeCap
    /\ \/ run[n] \in {"event", "update"}
       \/ run[n] = "due" /\ \E x \in Sess : mutex[n] = x /\ hpc[x] \in InMutex
       \/ ~ Running(n) /\ hpc[obj[n].sess] # "run"
AllStuck == left # {} /\ lock # Nobody /\ \A n \in left : Stuck(n)

LEMMA JammedIsStuck == Jammed => AllStuck
BY DEF Jammed, AwayFromQueue, AllStuck, Stuck, InMutex

LEMMA StuckIsJammed == IInv /\ AllStuck => Jammed
<1> SUFFICES ASSUME IInv, AllStuck, NEW n \in left PROVE AwayFromQueue(n)
    BY DEF AllStuck, Stuck, Jammed
<1>1. n \in registered
    BY DEF IInv, RunsOK
<1>2. QED
    BY <1>1, WhyNoRun DEF AllStuck, Stuck, AwayFromQueue, InMutex

\* No handler takes an event, or comes to the start of a run(), while the tree is locked.
LEMMA WhileLocked ==
    ASSUME TypeOK, NEW x \in Sess, SessionStep(x), lock # Nobody
    PROVE  queue' = queue /\ hpc'[x] # "run"
<1> USE DEF TypeOK, eventVars, requestVars
<1>1. ASSUME NEW r \in Requests[x], Receive(x, r) PROVE queue' = queue /\ hpc'[x] # "run"
    BY <1>1 DEF Receive
<1>2. CASE EndOfStream(x) \/ Joined(x) \/ Leave(x) \/ Refuse(x) \/ ReadID(x) \/ WriteID(x)
    BY <1>2 DEF EndOfStream, Joined, Leave, Refuse, ReadID, WriteID
<1>3. ASSUME NEW n \in Objs, AddPath(x, n) \/ UnregisterSub(x, n)
      PROVE  queue' = queue /\ hpc'[x] # "run"
    BY <1>3 DEF AddPath, Accept, UnregisterSub
<1>4. ASSUME NEW id \in {tmp[x] + 1, subID}, Create(x, id)
      PROVE  queue' = queue /\ hpc'[x] # "run"
    BY <1>4 DEF Create, Accept
<1>5. CASE LockMutex(x) \/ MergeInfo(x) \/ DeleteInfo(x)
    BY <1>5 DEF LockMutex, MergeInfo, DeleteInfo, LockAndRaise
<1>6. CASE Merged(x) \/ AddFails(x) \/ MergeFailed(x)
    BY <1>6 DEF Merged, AddFails, MergeFailed, MergeFails, RaiseSome, UnlockServer
<1>7. CASE RegisterSub(x) \/ InitTelemetryUpdate(x)
    BY <1>7 DEF RegisterSub, InitTelemetryUpdate
<1>8. CASE StartRun(x)
    BY <1>8 DEF StartRun, Started
<1>9. CASE Ended(x)
    BY <1>9, EndedIs DEF DeleteSubscription
<1>10. QED
    BY <1>1, <1>2, <1>3, <1>4, <1>5, <1>6, <1>7, <1>8, <1>9, StepOf

LEMMA StuckStep ==
    ASSUME IInv, AllStuck, [Next]_vars
    PROVE  AllStuck' /\ UNCHANGED <<lock, left>>
<1>0. /\ TypeOK /\ LockOK /\ MutexOK /\ MembersOK /\ RunsOK
      /\ \A x \in Sess : HandlerOK(x)
    BY DEF IInv
<1>00. \A n \in left : n \in Objs /\ n \in Made /\ obj[n].sess \in Sess
    BY <1>0 DEF TypeOK, RunsOK, MembersOK
<1>1. ASSUME NEW x \in Sess, SessionStep(x) PROVE AllStuck' /\ UNCHANGED <<lock, left>>
    <2>1. UNCHANGED <<lock, left>> /\ hpc[x] \notin Holding
        BY <1>0, <1>1, HandlerLocks DEF AllStuck
    <2>2. queue' = queue /\ hpc'[x] # "run"
        BY <1>0, <1>1, WhileLocked DEF AllStuck
    <2>3. \A n \in left : obj'[n].item = obj[n].item /\ obj'[n].sess = obj[n].sess
        BY <1>0, <1>00, <1>1, MadeKept DEF SameButPath
    <2>4. \A y \in Sess \ {x} : hpc'[y] = hpc[y]
        BY <1>0, <1>1, OthersSame
    <2>5. ASSUME NEW n \in left PROVE Stuck(n)'
        <3>1. /\ n \in Objs /\ obj[n].sess \in Sess /\ Stuck(n)
              /\ obj'[n].item = obj[n].item /\ obj'[n].sess = obj[n].sess
            BY <1>00, <2>3 DEF AllStuck
        <3>2. hpc'[obj[n].sess] = "run" => hpc[obj[n].sess] = "run"
            BY <2>2, <2>4, <3>1
        <3>3. run'[n] = run[n]
            <4>1. \A y \in Sess : hpc[y] = "run" => obj[Head(starting[y])].sess = y
                BY <1>0, HeadType DEF AtHead, MembersOK
            <4>2. QED
                BY <1>0, <1>1, <3>1, <4>1, HandlerRuns DEF Stuck, Running
        <3>4. ASSUME NEW y \in Sess, mutex[n] = y, hpc[y] \in InMutex
              PROVE  mutex'[n] = y /\ hpc'[y] \in InMutex
            <4>1. Head(starting[y]) \in Objs /\ mutex \in [Objs -> Sess \cup Objs \cup {Nobody}]
                BY <1>0, <3>4, HeadType DEF InMutex, AtHead, TypeOK
            <4>2. y # x => hpc'[y] = hpc[y]
                BY <2>4
            <4>3. y = x => hpc[x] # "start"
                BY <3>4 DEF InMutex
            <4> DEFINE h == Head(starting[x])
            <4>4. CASE /\ mutex[h] = Nobody /\ mutex' = [mutex EXCEPT ![h] = x]
                       /\ hpc[x] = "start" /\ hpc'[x] = "merge"
                <5>1. h # n /\ y # x
                    BY <3>4, <4>3, <4>4, HoldersApart
                <5>2. QED
                    BY <3>1, <3>4, <4>1, <4>2, <4>4, <5>1
            <4>5. CASE mutex' = mutex /\ (hpc[x] \in InMutex => hpc'[x] \in InMutex)
                BY <3>4, <4>2, <4>5
            <4>6. hpc[x] # "merging" /\ lock # Nobody
                BY <2>1 DEF Holding, AllStuck
            <4>7. QED
                BY <1>0, <1>1, <4>4, <4>5, <4>6, HandlerMutexes
        <3>5. QED
            BY <2>2, <3>1, <3>2, <3>3, <3>4 DEF Stuck, Running
    <2>6. QED
        BY <2>1, <2>5 DEF AllStuck
<1>2. ASSUME NEW k \in Objs, RunStep(k) PROVE AllStuck' /\ UNCHANGED <<lock, left>>
    <2>1. UNCHANGED <<lock, left>>
        BY <1>0, <1>2, RunLocks DEF AllStuck
    <2>2. k \notin left
        <3> SUFFICES ASSUME k \in left PROVE FALSE
            OBVIOUS
        <3>1. Stuck(k) /\ lock # Nobody
            BY DEF AllStuck
        <3>2. run[k] \notin {"none", "done", "event", "update"}
            BY <1>2, <3>1 DEF RunStep, RunShutdown, RunReceive, RunExpired, RunSampling, RunLock,
                              RunUpdate, RunSync, LockAndRaise, RunSynced
        <3>3. run[k] = "due" /\ mutex[k] # Nobody
            BY <3>1, <3>2, HoldersApart DEF Stuck, Running
        <3>4. ~ RunShutdown(k) /\ ~ RunReceive(k) /\ ~ RunExpired(k) /\ ~ RunSampling(k)
            BY <3>3 DEF RunShutdown, RunReceive, RunExpired, RunSampling
        <3>5. ~ RunLock(k) /\ ~ RunSynced(k)
            BY <3>3 DEF RunLock, RunSynced
        <3>6. /\ \A q \in Paths : ~ RunSync(k, q)
              /\ \A next \in {"select", "done"} : ~ RunUpdate(k, next)
            BY <3>3 DEF RunSync, LockAndRaise, RunUpdate
        <3>7. QED
            BY <1>2, <3>4, <3>5, <3>6 DEF RunStep
    <2>3. /\ UNCHANGED <<hpc, obj>>
          /\ \A n \in left : run'[n] = run[n] /\ mutex'[n] = mutex[n]
        <3>1. UNCHANGED <<hpc, obj>> /\ \A n \in Objs \ {k} : run'[n] = run[n]
            BY <1>0, <1>2, RunSteps, RunMutexes
        <3>2. mutex' = mutex \/ \E v : mutex' = [mutex EXCEPT ![k] = v]
            BY <1>0, <1>2, RunMutexes
        <3>3. \A n \in Objs \ {k} : mutex'[n] = mutex[n]
            BY <1>0, <3>2 DEF TypeOK
        <3>4. QED
            BY <1>00, <2>2, <3>1, <3>3
    <2>4. \A n \in left : queue'[n] = queue[n]
        BY <1>0, <1>00, <1>2, <2>2 DEF RunStep, RunShutdown, RunReceive, RunExpired, RunSampling,
                          RunLock, RunUpdate, RunSync, LockAndRaise, RunSynced, RunTo, TypeOK
    <2>5. \A n \in left : Stuck(n)'
        BY <2>3, <2>4 DEF AllStuck, Stuck, Running
    <2>6. QED
        BY <2>1, <2>5 DEF AllStuck
<1>3. ASSUME NEW n \in Objs, EventComplete(n) PROVE FALSE
    <2>1. queue[n] \in Nat /\ OnchangeCap \in Nat
        BY <1>0, SubscriptionAssumption DEF TypeOK
    <2>2. QED
        BY <1>3, <2>1 DEF EventComplete, AllStuck, Stuck
<1>4. ASSUME ProgramStep \/ \E w \in Writers : WriteDone(w) PROVE FALSE
    BY <1>4, ProgramLeaves DEF WriteDone, UnlockServer, AllStuck
<1>5. CASE UNCHANGED vars
    BY <1>5 DEF vars, objVars, eventVars, AllStuck, Stuck, Running
<1>6. QED
    BY <1>1, <1>2, <1>3, <1>4, <1>5, StepCases DEF Outside

-----------------------------------------------------------------------------
(* The theorems.                                                            *)

LEMMA InitIInv == Init => IInv
<1> SUFFICES ASSUME Init PROVE IInv
    OBVIOUS
<1>1. TypeOK
    <2>1. NoItem \in Items /\ NoRequest \in Lists /\ <<>> \in Seq(Objs)
        BY SubscriptionAssumption DEF NoItem, Items, NoRequest, Lists, Submodes
    <2>2. NoSubscriber \in Subscribers
        BY <2>1 DEF NoSubscriber, Subscribers
    <2>3. /\ obj \in [Objs -> Subscribers] /\ queue \in [Objs -> 0 .. OnchangeCap]
          /\ made \in 0 .. MaxSubs /\ Sub \in [Sess -> SUBSET Objs]
          /\ req \in [Sess -> Lists] /\ starting \in [Sess -> Seq(Objs)]
        BY <2>1, <2>2, SubscriptionAssumption DEF Init
    <2>4. /\ registered \subseteq Objs /\ left \subseteq Objs /\ info \subseteq Nat \X Paths
          /\ asked \subseteq Sess \X {"STREAM", "POLL"} \X Nat \X Items /\ raced \in BOOLEAN
          /\ shown \in [Objs -> SUBSET Paths] /\ astray \subseteq Nat
        BY DEF Init
    <2>5. QED
        BY <2>3, <2>4 DEF Init, TypeOK, States
<1>2. \A x \in Sess : HandlerOK(x) /\ ServiceOK(x)
    BY ElementsNone DEF Init, HandlerOK, ServiceOK, Adding, Counting, AtHead
<1>3. MembersOK /\ CounterOK
    BY DEF Init, MembersOK, CounterOK, Counting
<1>4. EntriesOK
    BY DEF Init, EntriesOK
<1>5. LockOK /\ MutexOK
    BY HoldersApart DEF Init, LockOK, MutexOK
<1>6. RunsOK
    BY DEF Init, RunsOK
<1>7. QED
    BY <1>1, <1>2, <1>3, <1>4, <1>5, <1>6 DEF IInv

LEMMA StepIInv == IInv /\ [Next]_vars => IInv'
<1> SUFFICES ASSUME IInv, [Next]_vars PROVE IInv'
    OBVIOUS
<1>1. Base /\ CounterOK /\ EntriesOK /\ \A x \in Sess : ServiceOK(x)
    BY DEF IInv, Base
<1>2. Base' /\ CounterOK' /\ EntriesOK'
    BY <1>1, BaseStep, CounterStep, EntriesStep
<1>3. \A x \in Sess : ServiceOK(x)'
    BY <1>1, ServiceStep
<1>4. LockOK' /\ MutexOK' /\ RunsOK'
    BY <1>1, LockStep, MutexStep, RunsStep DEF IInv, Base
<1>5. QED
    BY <1>2, <1>3, <1>4 DEF IInv, Base

\* The inductive invariant holds always: the handlers of subscribe.go know what
\* they need to know at each place, whatever they interleave with.
THEOREM Invariance == Spec => []IInv
BY InitIInv, StepIInv, PTL DEF Spec

\* Whatever a client asked for and was not refused is served by a subscriber of
\* its session with the mode and the intervals asked for (addSubscription's key).
THEOREM Served == Spec => []ServedAsAsked
<1>1. IInv => ServedAsAsked
    <2> SUFFICES ASSUME IInv, NEW a \in asked, hpc[a[1]] = "recv"
                 PROVE  \E n \in Sub[a[1]] : Serves(n, a)
        BY DEF ServedAsAsked
    <2>1. a[1] \in Sess
        BY DEF IInv, TypeOK
    <2>2. QED
        BY <2>1 DEF IInv, ServiceOK, Stopping
<1>2. QED
    BY <1>1, Invariance, PTL

\* When processSubscribeRequest is done, every subscriber of the session is
\* registered and, in STREAM mode, all its paths were sent and its run() began.
THEOREM RequestsComplete == Spec => []RequestComplete
<1>1. IInv => RequestComplete
    BY ElementsNone DEF IInv, ServiceOK, HandlerOK, RequestComplete, Stopping
<1>2. QED
    BY <1>1, Invariance, PTL

\* The entry that the tree has for a subscriber lists its paths between requests
\* and is gone when the RPC has ended, unless the ID is that of several, its merge
\* or its deletion failed, or the program changed it: whatever Set, Load, Write,
\* Merge and Delete do to other entries and to the rest of the tree.
THEOREM Entries == Spec => []EntryUnlessShared
<1>1. IInv => EntryUnlessShared
    <2> SUFFICES ASSUME IInv, NEW n \in Made, Own(n)
                 PROVE  /\ hpc[obj[n].sess] = "recv" => Listed(n) = obj[n].path
                        /\ hpc[obj[n].sess] = "done" => Listed(n) = {}
        BY DEF EntryUnlessShared
    <2>1. obj[n].sess \in Sess /\ HandlerOK(obj[n].sess) /\ MembersOK /\ Fits(n)
        BY EntriesSplit DEF IInv, MembersOK
    <2>2. CASE hpc[obj[n].sess] = "recv"
        BY <2>1, <2>2, ElementsNone DEF HandlerOK, Fits, Stopping
    <2>3. CASE hpc[obj[n].sess] = "done"
        BY <2>1, <2>3 DEF HandlerOK, MembersOK, Fits
    <2>4. QED
        BY <2>2, <2>3
<1>2. QED
    BY <1>1, Invariance, PTL

\* subID gives different IDs as long as no two handlers are in the two
\* statements that read it at once.
THEOREM UniqueIds == Spec => []IdsUniqueUnlessRaced
<1>1. IInv => IdsUniqueUnlessRaced
    BY DEF IInv, CounterOK, IdsUniqueUnlessRaced
<1>2. QED
    BY <1>1, Invariance, PTL

\* Handlers, run() goroutines and writers never all wait for each other: one of them
\* can go on, or all have finished, or EventComplete waits for room in an onchange
\* that no run() is about to empty.
THEOREM NoDeadlock == Spec => [](CanGoOn \/ Quiet \/ Jammed \/ OutOfSubs)
BY NobodyWaits, Invariance, PTL

\* A full onchange that its run() does not come to keeps the tree locked for ever:
\* once EventComplete() waits for nothing but such channels, no step frees it.
THEOREM JamLasts == Spec => JamsForGood
<1>1. IInv /\ Jammed /\ [Next]_vars => AllStuck' /\ UNCHANGED <<lock, left>>
    BY JammedIsStuck, StuckStep
<1>2. QED
    BY <1>1, StuckIsJammed, Invariance, PTL DEF Spec, JamsForGood

\* A subscriber's mutex keeps the merge of its entry apart from the merge by any other
\* handler and from the samples and synchronizations of its run(), and Server.Lock()
\* keeps apart all that change the tree.
Exclusive ==
    /\ \A x, y \in Sess : /\ hpc[x] \in InMutex /\ hpc[y] \in InMutex
                          /\ Head(starting[x]) = Head(starting[y])
                          => x = y
    /\ \A x \in Sess : hpc[x] \in InMutex => run[Head(starting[x])] \notin RunInMutex
    /\ \A x, y \in Sess : hpc[x] \in Holding /\ hpc[y] \in Holding => x = y
    /\ \A n, k \in Objs : run[n] = "syncing" /\ run[k] = "syncing" => n = k
    /\ \A x \in Sess : hpc[x] \in Holding => \A n \in Objs : run[n] # "syncing"

\* Every behaviour keeps to it: addDynamicSubscription, run() and the writers exclude
\* each other.  (internal.go:22, subscribe.go:364)
THEOREM MutualExclusion == Spec => []Exclusive
<1>1. IInv => Exclusive
    <2> SUFFICES ASSUME IInv PROVE Exclusive
        OBVIOUS
    <2>1. TypeOK /\ LockOK /\ MutexOK /\ \A x \in Sess : HandlerOK(x)
        BY DEF IInv
    <2>2. \A x \in Sess : hpc[x] \in InMutex => Head(starting[x]) \in Objs
        BY <2>1, HeadType DEF InMutex, AtHead
    <2>3. QED
        BY <2>1, <2>2, HoldersApart DEF Exclusive, LockOK, MutexOK, InMutex, RunInMutex, Holding
<1>2. QED
    BY <1>1, Invariance, PTL
=============================================================================
