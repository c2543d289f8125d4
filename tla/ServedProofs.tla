----------------------------- MODULE ServedProofs ----------------------------
(***************************************************************************)
(* The receivers of the event controller have somebody that empties their  *)
(* queues, for all values of the constants.                                *)
(***************************************************************************)
EXTENDS TelemetryProofs

USE EventCtrlAssumption, TelemetryAssumption

\* What is known of a handler that has an entry in hand.
LEMMA EntryInHand ==
    ASSUME IInv, NEW x \in Sess
    PROVE  /\ hpc[x] \in {"register", "delsub"} => hcur[x] \in Subs /\ SessOf[hcur[x]] = x
           /\ hpc[x] = "register" => sub[hcur[x]] = "live"
           /\ hpc[x] = "delsub" => hcur[x] \notin receivers
BY DEF IInv, HandlerOK, SubsOK, Settling, SubsOf

\* Between two subscribers of a request the handler has none in hand.
ServedInv ==
    /\ ReceiversServed
    /\ \A x \in Sess : hpc[x] \in {"new", "recv", "dynamic"} => hcur[x] = Nobody

\* Steps that start and end no run(), and leave handlers and receivers alone.
LEMMA ServedFrame ==
    ASSUME ServedInv, IInv, UNCHANGED <<receivers, hpc, hcur>>,
           \A s \in Subs : Started(s) => Started(s)'
    PROVE  ServedInv'
<1>1. receivers \subseteq Subs
  BY DEF IInv, TypeOK, EventCtrlTypeOK
<1> QED
  BY <1>1 DEF ServedInv, ReceiversServed, Shutdown

\* A handler goes on in Stop(), or enters it: its receivers need no run() any more.
LEMMA ServedStopping ==
    ASSUME ServedInv, IInv, NEW x \in Sess, NEW v \in Stopping,
           hpc' = [hpc EXCEPT ![x] = v], \A y \in Sess \ {x} : hcur'[y] = hcur[y],
           receivers' \subseteq receivers, runpc' = runpc
    PROVE  ServedInv'
<1>1. hpc'[x] = v /\ \A y \in Sess \ {x} : hpc'[y] = hpc[y]
  BY DEF IInv, TypeOK
<1>2. receivers \subseteq Subs
  BY DEF IInv, TypeOK, EventCtrlTypeOK
<1>3. ASSUME NEW s \in receivers
      PROVE  Started(s)' \/ hcur'[SessOf[s]] = s \/ Shutdown(SessOf[s])'
  <2>1. CASE SessOf[s] = x
    BY <1>1, <2>1 DEF Shutdown
  <2>2. CASE SessOf[s] # x
    <3>1. SessOf[s] \in Sess \ {x}
      BY <1>2, <2>2
    <3>2. Started(s)' <=> Started(s)
      BY DEF Started, Streaming
    <3> QED
      BY <1>1, <3>1, <3>2 DEF ServedInv, ReceiversServed, Shutdown
  <2> QED
    BY <2>1, <2>2
<1>4. v \notin {"new", "recv", "dynamic"}
  BY DEF Stopping
<1>5. \A y \in Sess : hpc'[y] \in {"new", "recv", "dynamic"} => hcur'[y] = Nobody
  BY <1>1, <1>4 DEF ServedInv
<1> QED
  BY <1>3, <1>5 DEF ServedInv, ReceiversServed

\* A handler goes on while the session lasts, with its subscriber or the next in hand.
LEMMA ServedGoesOn ==
    ASSUME ServedInv, IInv, NEW x \in Sess, NEW v, hpc[x] \notin Stopping,
           hpc' = [hpc EXCEPT ![x] = v], \A y \in Sess \ {x} : hcur'[y] = hcur[y],
           hcur'[x] = hcur[x] \/ \A s \in Subs : s = hcur[x] => Started(s)',
           v \in {"new", "recv", "dynamic"} => hcur'[x] = Nobody,
           \A s \in receivers' : s \in receivers \/ (SessOf[s] = x /\ hcur'[x] = s),
           receivers' \subseteq Subs,
           \A s \in Subs : Started(s) => Started(s)'
    PROVE  ServedInv'
<1>1. hpc'[x] = v /\ \A y \in Sess \ {x} : hpc'[y] = hpc[y]
  BY DEF IInv, TypeOK
<1>2. ASSUME NEW s \in receivers'
      PROVE  Started(s)' \/ hcur'[SessOf[s]] = s \/ Shutdown(SessOf[s])'
  <2>1. s \in Subs /\ SessOf[s] \in Sess
    OBVIOUS
  <2>2. CASE s \notin receivers
    BY <2>2
  <2>3. CASE s \in receivers /\ SessOf[s] = x
    <3>1. Started(s) \/ hcur[x] = s
      BY <2>3 DEF ServedInv, ReceiversServed, Shutdown
    <3> QED
      BY <2>1, <2>3, <3>1
  <2>4. CASE s \in receivers /\ SessOf[s] # x
    <3>1. SessOf[s] \in Sess \ {x}
      BY <2>1, <2>4
    <3>2. Started(s) \/ hcur[SessOf[s]] = s \/ Shutdown(SessOf[s])
      BY <2>4 DEF ServedInv, ReceiversServed
    <3> QED
      BY <1>1, <2>1, <3>1, <3>2 DEF Shutdown
  <2> QED
    BY <2>2, <2>3, <2>4
<1>3. \A y \in Sess : hpc'[y] \in {"new", "recv", "dynamic"} => hcur'[y] = Nobody
  BY <1>1 DEF ServedInv
<1> QED
  BY <1>2, <1>3 DEF ServedInv, ReceiversServed

LEMMA ServedStep == ServedInv /\ IInv /\ [Next]_vars => ServedInv'
<1> SUFFICES ASSUME ServedInv, IInv, [Next]_vars
             PROVE  ServedInv'
  OBVIOUS
<1>0. /\ hpc \in [Sess -> {"new", "recv", "dynamic", "register", "sync", "init"} \cup Stopping]
      /\ hcur \in [Sess -> Subs \cup {Nobody}]
      /\ runpc \in [Subs -> {"none", "select", "rlock", "send", "done"}]
      /\ receivers \subseteq Subs
  BY DEF IInv, TypeOK, EventCtrlTypeOK
<1>1. ASSUME UNCHANGED <<receivers, hpc, hcur, runpc>>
      PROVE  ServedInv'
  BY <1>1, ServedFrame DEF Started, Streaming
<1>2. ASSUME NEW p \in Procs, CallStep(p)
      PROVE  ServedInv'
  <2>1. UNCHANGED <<receivers, hpc, hcur, runpc>>
    BY <1>2 DEF CallStep, WriterStep, Lock, SetEvent, SetEventFails, EventComplete, EndEvents, Unlock,
                telemetryVars, handlerVars, runVars
  <2> QED
    BY <1>1, <2>1
<1>3. ASSUME NEW x \in Sess,
             \/ StartSubSession(x) /\ hpc'[x] = "done"
             \/ \E S \in SUBSET Subs : EndOfStream(x, S)
             \/ InitFails(x) \/ Joined(x) \/ \E s \in Subs : UnregisterSub(x, s)
             \/ DeleteDynamic(x) \/ DeleteSubscription(x) \/ CloseResponses(x)
             \/ LeaveSubSession(x)
      PROVE  ServedInv'
  <2>1. \E v \in Stopping : hpc' = [hpc EXCEPT ![x] = v]
    BY <1>0, <1>3 DEF StartSubSession, EndOfStream, InitFails, Joined, UnregisterSub, DeleteDynamic,
                DeleteSubscription, CloseResponses, LeaveSubSession, Stopping
  <2>2. \A y \in Sess \ {x} : hcur'[y] = hcur[y]
    BY <1>0, <1>3 DEF StartSubSession, EndOfStream, InitFails, Joined, UnregisterSub, DeleteDynamic,
                DeleteSubscription, CloseResponses, LeaveSubSession
  <2>3. receivers' \subseteq receivers
    BY <1>3 DEF StartSubSession, EndOfStream, InitFails, Joined, UnregisterSub, DeleteDynamic,
                DeleteSubscription, CloseResponses, LeaveSubSession, Unregister, Begin, RUnlock,
                eventVars
  <2>4. runpc' = runpc
    BY <1>3 DEF StartSubSession, EndOfStream, InitFails, Joined, UnregisterSub, DeleteDynamic,
                DeleteSubscription, CloseResponses, LeaveSubSession, runVars
  <2> QED
    BY <2>1, <2>2, <2>3, <2>4, ServedStopping
<1>4. ASSUME NEW x \in Sess,
             \/ StartSubSession(x) /\ hpc'[x] # "done"
             \/ \E S \in SUBSET Subs : ProcessSubscribe(x, S)
      PROVE  ServedInv'
  <2>1. PICK v \in {"recv", "dynamic"} : hpc' = [hpc EXCEPT ![x] = v]
    BY <1>0, <1>4 DEF StartSubSession, ProcessSubscribe
  <2>2. /\ hpc[x] \in {"new", "recv"} /\ hcur' = hcur
        /\ receivers' = receivers /\ runpc' = runpc
    BY <1>4 DEF StartSubSession, ProcessSubscribe, runVars, eventVars
  <2>3. hcur[x] = Nobody /\ hpc[x] \notin Stopping
    BY <2>2 DEF ServedInv, Stopping
  <2>4. \A s \in Subs : Started(s) => Started(s)'
    BY <2>2 DEF Started, Streaming
  <2> QED
    BY <1>0, <2>1, <2>2, <2>3, <2>4, ServedGoesOn
<1>5. ASSUME NEW x \in Sess, NEW s \in Subs, AddDynamic(x, s)
      PROVE  ServedInv'
  <2>1. /\ hpc[x] = "dynamic" /\ hpc' = [hpc EXCEPT ![x] = "register"]
        /\ hcur' = [hcur EXCEPT ![x] = s] /\ receivers' = receivers /\ runpc' = runpc
    BY <1>5 DEF AddDynamic, AddEntry, Begin, eventVars, runVars
  <2>2. hcur[x] = Nobody /\ hpc[x] \notin Stopping
    BY <2>1 DEF ServedInv, Stopping
  <2>3. \A t \in Subs : Started(t) => Started(t)'
    BY <2>1 DEF Started, Streaming
  <2>4. \A y \in Sess \ {x} : hcur'[y] = hcur[y]
    BY <1>0, <2>1
  <2>5. \A t \in Subs : t # hcur[x]
    BY <2>2
  <2> QED
    BY <1>0, <2>1, <2>2, <2>3, <2>4, <2>5, ServedGoesOn
<1>6. ASSUME NEW x \in Sess, RegisterSub(x)
      PROVE  ServedInv'
  <2>1. /\ hpc[x] = "register" /\ hpc' = [hpc EXCEPT ![x] = "sync"]
        /\ hcur' = hcur /\ receivers' = receivers \cup {hcur[x]} /\ runpc' = runpc
    BY <1>6 DEF RegisterSub, Register, runVars
  <2>2. hcur[x] \in Subs /\ SessOf[hcur[x]] = x
    BY <2>1, EntryInHand
  <2>3. \A t \in Subs : Started(t) => Started(t)'
    BY <2>1 DEF Started, Streaming
  <2>4. hpc[x] \notin Stopping
    BY <2>1 DEF Stopping
  <2> QED
    BY <1>0, <2>1, <2>2, <2>3, <2>4, ServedGoesOn
<1>7. ASSUME NEW x \in Sess, InitTelemetryUpdate(x)
      PROVE  ServedInv'
  <2>1. /\ hpc[x] = "sync" /\ hpc' = [hpc EXCEPT ![x] = "init"]
        /\ hcur' = hcur /\ receivers' = receivers /\ runpc' = runpc
    BY <1>7 DEF InitTelemetryUpdate, RLock, runVars, eventVars
  <2>2. \A t \in Subs : Started(t) => Started(t)'
    BY <2>1 DEF Started, Streaming
  <2>3. hpc[x] \notin Stopping
    BY <2>1 DEF Stopping
  <2> QED
    BY <1>0, <2>1, <2>2, <2>3, ServedGoesOn
<1>8. ASSUME NEW x \in Sess, StartRun(x)
      PROVE  ServedInv'
  <2>1. /\ hpc[x] = "init" /\ receivers' = receivers
        /\ hpc' = [hpc EXCEPT ![x] = IF hlist[x] = {} THEN "recv" ELSE "dynamic"]
        /\ hcur' = [hcur EXCEPT ![x] = Nobody]
        /\ runpc' = [runpc EXCEPT ![hcur[x]] = IF Streaming(hcur[x]) THEN @ ELSE "select"]
    BY <1>8 DEF StartRun, RUnlock
  <2>2. \A t \in Subs : t = hcur[x] => Started(t)'
    BY <1>0, <2>1 DEF Started, Streaming
  <2>3. \A t \in Subs : Started(t) => Started(t)'
    BY <1>0, <2>1 DEF Started, Streaming
  <2>4. hpc[x] \notin Stopping
    BY <2>1 DEF Stopping
  <2>5. hcur'[x] = Nobody /\ \A y \in Sess \ {x} : hcur'[y] = hcur[y]
    BY <1>0, <2>1
  <2> QED
    BY <1>0, <2>1, <2>2, <2>3, <2>4, <2>5, ServedGoesOn
<1>9. ASSUME NEW s \in Subs, RunShutdown(s)
      PROVE  ServedInv'
  <2>1. /\ Shutdown(SessOf[s]) /\ UNCHANGED <<receivers, hpc, hcur>>
        /\ runpc' = [runpc EXCEPT ![s] = "done"]
    BY <1>9 DEF RunShutdown, eventVars, handlerVars
  <2>2. \A t \in Subs \ {s} : Started(t)' <=> Started(t)
    BY <1>0, <2>1 DEF Started, Streaming
  <2>3. \A y \in Sess : Shutdown(y)' <=> Shutdown(y)
    BY <2>1 DEF Shutdown
  <2>4. SessOf[s] \in Sess
    OBVIOUS
  <2> QED
    BY <1>0, <2>1, <2>2, <2>3, <2>4 DEF ServedInv, ReceiversServed
<1>10. ASSUME NEW s \in Subs, RunReceive(s) \/ RunRLock(s) \/ RunSend(s)
       PROVE  ServedInv'
  <2>1. /\ UNCHANGED <<receivers, hpc, hcur>>
        /\ \E v \in {"select", "rlock", "send"} : runpc' = [runpc EXCEPT ![s] = v]
    BY <1>10 DEF RunReceive, RunRLock, RunSend, RLock, RUnlock, handlerVars
  <2>2. \A t \in Subs : Started(t) => Started(t)'
    BY <1>0, <2>1 DEF Started, Streaming
  <2> QED
    BY <2>1, <2>2, ServedFrame
<1>11. ASSUME NEW s \in Subs, RunFails(s)
       PROVE  ServedInv'
  <2>1. /\ Faults /\ UNCHANGED <<receivers, hpc, hcur>>
        /\ runpc' = [runpc EXCEPT ![s] = "done"]
    BY <1>11 DEF RunFails, handlerVars
  <2>2. \A t \in Subs : Started(t) => Started(t)'
    BY <1>0, <2>1 DEF Started, Streaming
  <2> QED
    BY <2>1, <2>2, ServedFrame
<1>12. ASSUME NEW x \in Sess,
              InitSend(x) \/ RespondTake(x) \/ RespondSend(x) \/ RespondShutdown(x)
       PROVE  ServedInv'
  <2>1. UNCHANGED <<receivers, hpc, hcur, runpc>>
    BY <1>12 DEF InitSend, RespondTake, RespondSend, RespondShutdown, eventVars, handlerVars, runVars
  <2> QED
    BY <1>1, <2>1
<1>13. ASSUME \/ \E x \in Sess, c \in SUBSET Events : SyncCallback(x, c)
              \/ \E p \in Writers, c \in SUBSET Events : Write(p, c)
              \/ \E m \in Events : SetRPC(m)
              \/ UNCHANGED vars
       PROVE  ServedInv'
  <2>1. UNCHANGED <<receivers, hpc, hcur, runpc>>
    BY <1>13 DEF SyncCallback, Write, SetRPC, Begin, vars, eventVars, telemetryVars, handlerVars,
                 runVars
  <2> QED
    BY <1>1, <2>1
<1> QED
  BY NextCases, <1>2, <1>3, <1>4, <1>5, <1>6, <1>7, <1>8, <1>9, <1>10, <1>11, <1>12, <1>13

\* Whoever is registered has a run() that empties its queue, unless a conversion
\* failed, or will have it from the handler that registered it, or its session is
\* being stopped: a writer that waits in EventComplete waits for somebody.
\* (processSubscribeRequest, run, Stop)
THEOREM SomebodyServes == Spec => []ReceiversServed
<1>1. Init => ServedInv
  BY DEF Init, EventCtrlInit, ServedInv, ReceiversServed
<1>2. ServedInv => ReceiversServed
  BY DEF ServedInv
<1>3. ServedInv /\ IInv /\ [Next]_vars => ServedInv'
  BY ServedStep
<1> QED
  BY <1>1, <1>2, <1>3, Invariance, PTL DEF Spec
=============================================================================
