---------------------------- MODULE SyncRequest ----------------------------
(***************************************************************************)
(* Synchronization of the data before a Get or Subscribe response: the     *)
(* paths that need it, and the requests that ask the application for them  *)
(* no more often than once in MinInterval.                                 *)
(*                                                                         *)
(* src/server/sync.go  RegisterSync, UnregisterSync, EventReceive of       *)
(*                     syncEvent, SyncRequest, syncExec                    *)
(*                                                                         *)
(* Requesters take neither Server.Lock() nor any other lock: syncExec      *)
(* reads and writes the times of the shared entries as it goes.            *)
(***************************************************************************)
EXTENDS Integers, Sequences, FiniteSets

Sequence == INSTANCE SequencesExt

CONSTANTS
    Requesters,    \* goroutines that call SyncRequest
    Paths,         \* the data nodes
    RegPaths,      \* the paths that can be registered, with and without keys
    SchemaOf,      \* SchemaOf[g]: the schema node of g
    Nodes,         \* Nodes[g]: the data nodes of it that g leads to
    MinInterval,   \* syncMinInterval
    MaxTime,       \* bound: the clock
    MaxEvents,     \* bound: the registrations at a time
    MaxEntries,    \* bound: the syncTime objects made for a path
    MaxLoads       \* bound: the changes of the tree that not all receivers hear of

ASSUME SyncAssumption ==
    /\ Nodes \in [RegPaths -> SUBSET Paths]
    /\ MinInterval \in Nat \ {0}
    /\ MaxTime \in Nat /\ MaxEvents \in Nat /\ MaxEntries \in Nat \ {0} /\ MaxLoads \in Nat

VARIABLES
    now,        \* the clock
    present,    \* the data nodes in the tree
    syncEvents, \* Server.syncEvents: the registrations, oldest first
    upc,        \* where UnregisterSync() stands, with Server.Lock()
    left,       \* the registrations whose nodes it has still to add again
    entry,      \* entry[q]: the number of the syncTime of q in syncPath, or 0
    made,       \* made[q]: the syncTime objects made for q so far
    time,       \* time[q][k]: the time in the k-th of them
    pc,         \* pc[p]: where requester p stands in syncExec
    found,      \* found[p]: the entries SearchAll returned that are left
    due,        \* due[p]: the entry found due, whose time is not yet set
    cur,        \* cur[p]: time.Now() at the start of syncExec
    asked,      \* asked[p]: the paths p was asked to synchronize
    tosend,     \* tosend[p]: the paths to call back for
    chosen,     \* chosen[p][q]: when p last chose q, and from which entry
    synced,     \* synced[q]: when the last callback for q returned
    silent,     \* history: nodes whose last change the registrations did not hear of
    stale,      \* history: paths that an UnregisterSync() that failed left known
    loads       \* the changes that not all receivers heard of so far

unregVars == <<syncEvents, upc, left>>
pathVars  == <<entry, made, stale>>
registry  == <<present, unregVars, pathVars, silent, loads>>
execVars == <<pc, found, due, cur, asked, tosend>>
vars     == <<now, registry, time, execVars, chosen, synced>>

Never == -1 - MinInterval   \* the zero time.Time: it is always due
Entries == 1 .. MaxEntries
Refs == Paths \X Entries
None == <<>>

-----------------------------------------------------------------------------
Init ==
    /\ now = 0
    /\ present \in SUBSET Paths
    /\ syncEvents = <<>> /\ upc = "out" /\ left = <<>>
    /\ entry = [q \in Paths |-> 0]
    /\ made = [q \in Paths |-> 0]
    /\ time = [q \in Paths |-> [k \in Entries |-> Never]]
    /\ pc = [p \in Requesters |-> "idle"]
    /\ found = [p \in Requesters |-> {}]
    /\ due = [p \in Requesters |-> None]
    /\ cur = [p \in Requesters |-> 0]
    /\ asked = [p \in Requesters |-> {}]
    /\ tosend = [p \in Requesters |-> {}]
    /\ chosen = [p \in Requesters |-> [q \in Paths |-> [at |-> Never, from |-> 0]]]
    /\ synced = [q \in Paths |-> Never]
    /\ silent = {} /\ stale = {}
    /\ loads = 0

Tick ==
    /\ now < MaxTime
    /\ now' = now + 1
    /\ UNCHANGED <<registry, time, execVars, chosen, synced>>

(* The registry: RegisterSync(), UnregisterSync() and the changes of the    *)
(* tree, each under Server.Lock().                                          *)

\* syncPath.Add(path, &syncTime{}) for every path of Q: new objects, never synced.
Add(Q) ==
    /\ \A q \in Q : made[q] < MaxEntries
    /\ made' = [q \in Paths |-> IF q \in Q THEN made[q] + 1 ELSE made[q]]
    /\ entry' = [q \in Paths |-> IF q \in Q THEN made[q] + 1 ELSE entry[q]]

\* What Find() returns for a registered path.
Found(g) == Nodes[g] \cap present

\* A syncEvent hears of the creation and of the deletion of q.
Covered(q) == \E i \in DOMAIN syncEvents : q \in Nodes[syncEvents[i]]

\* RegisterSync() of one path.  A list is registered path by path, and one without a
\* schema node ends it with an error: those before it stay.
RegisterSync(g) ==
    /\ upc = "out" /\ Len(syncEvents) < MaxEvents
    /\ syncEvents' = Append(syncEvents, g)
    /\ Add(Found(g))
    /\ silent' = silent \ Found(g)
    /\ stale' = stale \ Found(g)
    /\ UNCHANGED <<now, present, upc, left, loads, time, execVars, chosen, synced>>

\* The oldest registration of the schema node of g.
IsFirst(i, g) ==
    /\ SchemaOf[syncEvents[i]] = SchemaOf[g]
    /\ \A j \in 1 .. i - 1 : SchemaOf[syncEvents[j]] # SchemaOf[g]

\* UnregisterSync(): the loop over its paths drops one registration for each, of
\* the same schema node, whatever its keys.
UnregisterPath(g) ==
    /\ upc \in {"out", "loop"}
    /\ \E i \in DOMAIN syncEvents : IsFirst(i, g) /\ syncEvents' = Sequence!RemoveAt(syncEvents, i)
    /\ upc' = "loop"
    /\ UNCHANGED <<now, present, left, pathVars, silent, loads, time, execVars, chosen, synced>>

\* A path of the list has no schema node, or none that is registered: the call ends
\* with an error, after registrations were dropped and before syncPath.Clear().
UnregisterFails ==
    /\ upc = "loop"
    /\ upc' = "out"
    /\ stale' = stale \cup {q \in Paths : entry[q] # 0 /\ ~ Covered(q)}
    /\ UNCHANGED <<now, present, syncEvents, left, entry, made, silent, loads, time, execVars,
                   chosen, synced>>

\* syncPath.Clear(), for an empty list too ...
ClearPaths ==
    /\ upc \in {"out", "loop"}
    /\ entry' = [q \in Paths |-> 0]
    /\ left' = syncEvents
    /\ upc' = "add"
    /\ silent' = {} /\ stale' = {}
    /\ UNCHANGED <<now, present, syncEvents, made, loads, time, execVars, chosen, synced>>

\* Mutant: only the nodes of the last registration are added again.
AddLastAgain ==
    /\ upc = "add" /\ left # <<>>
    /\ left' = <<>>
    /\ Add(Found(left[Len(left)]))
    /\ UNCHANGED <<now, present, syncEvents, upc, silent, stale, loads, time, execVars, chosen,
                   synced>>

\* ... and the nodes of the registrations that remain are added again, one
\* registration after the other.
AddAgain ==
    /\ upc = "add" /\ left # <<>>
    /\ Add(Found(Head(left)))
    /\ left' = Tail(left)
    /\ UNCHANGED <<now, present, syncEvents, upc, silent, stale, loads, time, execVars, chosen,
                   synced>>

UnregisterReturns ==
    /\ upc = "add" /\ left = <<>>
    /\ upc' = "out"
    /\ UNCHANGED <<now, present, syncEvents, left, pathVars, silent, loads, time, execVars,
                   chosen, synced>>

\* EventReceive() of the syncEvents when Write or Merge creates a node.
Create(q) ==
    /\ upc = "out" /\ q \notin present
    /\ present' = present \cup {q}
    /\ IF Covered(q) THEN Add({q}) /\ stale' = stale \ {q} ELSE UNCHANGED pathVars
    /\ silent' = silent \ {q}
    /\ UNCHANGED <<now, unregVars, loads, time, execVars, chosen, synced>>

\* syncPath.Remove() by the syncEvents that hear of it.
Forget(q) ==
    /\ IF Covered(q)
       THEN entry' = [entry EXCEPT ![q] = 0] /\ stale' = stale \ {q}
       ELSE UNCHANGED <<entry, stale>>
    /\ UNCHANGED made

\* ... and when Delete deletes one.
Remove(q) ==
    /\ upc = "out" /\ q \in present
    /\ present' = present \ {q}
    /\ Forget(q)
    /\ silent' = silent \ {q}
    /\ UNCHANGED <<now, unregVars, loads, time, execVars, chosen, synced>>

\* SetEvent() fails: of the nodes Write or Merge created, the syncEvents hear only of
\* those before the invalid one, but the others stay in the tree too ...
CreateFails(q) ==
    /\ loads < MaxLoads
    /\ upc = "out" /\ q \notin present
    /\ present' = present \cup {q}
    /\ silent' = silent \cup {q}
    /\ loads' = loads + 1
    /\ UNCHANGED <<now, unregVars, pathVars, time, execVars, chosen, synced>>

\* ... and Delete returns before Remove(): the node stays, and is not known any more.
RemoveFails(q) ==
    /\ loads < MaxLoads
    /\ upc = "out" /\ q \in present
    /\ Forget(q)
    /\ silent' = silent \cup {q}
    /\ loads' = loads + 1
    /\ UNCHANGED <<now, present, unregVars, time, execVars, chosen, synced>>

\* A Load, or a Set that the server applies, changes the tree without events:
\* the paths are not touched.  Main registers its paths before it loads the
\* startup file.
Load(Q) ==
    /\ loads < MaxLoads
    /\ upc = "out" /\ Q # present
    /\ present' = Q
    /\ silent' = silent \cup (Q \ present) \cup (present \ Q)
    /\ loads' = loads + 1
    /\ UNCHANGED <<now, unregVars, pathVars, time, execVars, chosen, synced>>

-----------------------------------------------------------------------------
\* SyncRequest(): SearchAll() gives the entries at and below the path asked for;
\* without any, syncExec returns at once.
Request(p, Q) ==
    LET hits == {<<q, entry[q]>> : q \in {q \in Q : entry[q] # 0}}
    IN  /\ pc[p] = "idle" /\ hits # {}
        /\ found' = [found EXCEPT ![p] = hits]
        /\ asked' = [asked EXCEPT ![p] = {h[1] : h \in hits}]
        /\ cur' = [cur EXCEPT ![p] = now]
        /\ pc' = [pc EXCEPT ![p] = "check"]
        /\ UNCHANGED <<now, registry, time, due, tosend, chosen, synced>>

\* Mutant: the interval is one too long.
DueLate(p, ref) ==
    LET diff == cur[p] - time[ref[1]][ref[2]]
    IN  diff > MinInterval + 1 \/ diff < -MinInterval

Due(p, ref) ==
    LET diff == cur[p] - time[ref[1]][ref[2]]
    IN  diff > MinInterval \/ diff < -MinInterval

\* The time of one entry is read ...
Check(p) ==
    /\ pc[p] = "check"
    /\ \E ref \in found[p] :
         /\ found' = [found EXCEPT ![p] = @ \ {ref}]
         /\ IF Due(p, ref)
            THEN /\ due' = [due EXCEPT ![p] = ref]
                 /\ pc' = [pc EXCEPT ![p] = "set"]
            ELSE UNCHANGED <<due, pc>>
    /\ UNCHANGED <<now, registry, time, cur, asked, tosend, chosen, synced>>

\* Mutant: the time of the entry is not set.
SetNoTime(p) ==
    LET q == due[p][1]
    IN  /\ pc[p] = "set"
        /\ tosend' = [tosend EXCEPT ![p] = @ \cup {q}]
        /\ chosen' = [chosen EXCEPT ![p][q] = [at |-> now, from |-> due[p][2]]]
        /\ due' = [due EXCEPT ![p] = None]
        /\ pc' = [pc EXCEPT ![p] = "check"]
        /\ UNCHANGED <<now, registry, time, found, cur, asked, synced>>

\* Mutant: the time set is the one when the path is due again.
SetDeadline(p) ==
    LET q == due[p][1]
    IN  /\ pc[p] = "set"
        /\ time' = [time EXCEPT ![q][due[p][2]] = now + MinInterval]
        /\ tosend' = [tosend EXCEPT ![p] = @ \cup {q}]
        /\ chosen' = [chosen EXCEPT ![p][q] = [at |-> now, from |-> due[p][2]]]
        /\ due' = [due EXCEPT ![p] = None]
        /\ pc' = [pc EXCEPT ![p] = "check"]
        /\ UNCHANGED <<now, registry, found, cur, asked, synced>>

\* ... and, when it is due, set.
SetTime(p) ==
    LET q == due[p][1]
    IN  /\ pc[p] = "set"
        /\ time' = [time EXCEPT ![q][due[p][2]] = now]
        /\ tosend' = [tosend EXCEPT ![p] = @ \cup {q}]
        /\ chosen' = [chosen EXCEPT ![p][q] = [at |-> now, from |-> due[p][2]]]
        /\ due' = [due EXCEPT ![p] = None]
        /\ pc' = [pc EXCEPT ![p] = "check"]
        /\ UNCHANGED <<now, registry, found, cur, asked, synced>>

\* The callback begins, with an empty list when all paths were filtered.
Callback(p) ==
    /\ pc[p] = "check" /\ found[p] = {}
    /\ pc' = [pc EXCEPT ![p] = "callback"]
    /\ UNCHANGED <<now, registry, time, found, due, cur, asked, tosend, chosen, synced>>

\* The callback returns: the application has written what it was asked for.
Synchronized(p) ==
    /\ pc[p] = "callback"
    /\ synced' = [q \in Paths |-> IF q \in tosend[p] THEN now ELSE synced[q]]
    /\ pc' = [pc EXCEPT ![p] = "return"]
    /\ UNCHANGED <<now, registry, time, found, due, cur, asked, tosend, chosen>>

\* SyncRequest returns, and the response is made from the tree.
Return(p) ==
    /\ pc[p] = "return"
    /\ tosend' = [tosend EXCEPT ![p] = {}]
    /\ asked' = [asked EXCEPT ![p] = {}]
    /\ pc' = [pc EXCEPT ![p] = "idle"]
    /\ UNCHANGED <<now, registry, time, found, due, cur, chosen, synced>>

Next ==
    \/ Tick
    \/ \E g \in RegPaths : RegisterSync(g) \/ UnregisterPath(g)
    \/ UnregisterFails \/ ClearPaths \/ AddAgain \/ UnregisterReturns
    \/ \E q \in Paths : Create(q) \/ Remove(q) \/ CreateFails(q) \/ RemoveFails(q)
    \/ \E Q \in SUBSET Paths : Load(Q)
    \/ \E p \in Requesters :
         \/ \E Q \in SUBSET Paths : Request(p, Q)
         \/ Check(p) \/ SetTime(p) \/ Callback(p) \/ Synchronized(p) \/ Return(p)

Spec == Init /\ [][Next]_vars

-----------------------------------------------------------------------------
Times == Never .. MaxTime

TypeOK ==
    /\ now \in 0 .. MaxTime
    /\ present \subseteq Paths
    /\ syncEvents \in Seq(RegPaths) /\ left \in Seq(RegPaths)
    /\ Len(syncEvents) <= MaxEvents
    /\ upc \in {"out", "loop", "add"}
    /\ entry \in [Paths -> 0 .. MaxEntries]
    /\ made \in [Paths -> 0 .. MaxEntries]
    /\ time \in [Paths -> [Entries -> Times]]
    /\ pc \in [Requesters -> {"idle", "check", "set", "callback", "return"}]
    /\ found \in [Requesters -> SUBSET Refs]
    /\ due \in [Requesters -> Refs \cup {None}]
    /\ cur \in [Requesters -> 0 .. MaxTime]
    /\ asked \in [Requesters -> SUBSET Paths]
    /\ tosend \in [Requesters -> SUBSET Paths]
    /\ chosen \in [Requesters -> [Paths -> [at : Times, from : 0 .. MaxEntries]]]
    /\ synced \in [Paths -> Times]
    /\ silent \subseteq Paths /\ stale \subseteq Paths
    /\ loads \in 0 .. MaxLoads

\* Outside UnregisterSync() the paths that SyncRequest knows are the nodes of the tree
\* that a registration leads to, whatever was registered, unregistered, created and
\* deleted in between.  Nodes whose creation or deletion the registrations did not hear
\* of are excepted until the next event or registration, and paths that an
\* UnregisterSync() that failed has left until they are registered again and created or
\* deleted, or the next UnregisterSync() that does not fail: nothing else
\* leaves a path known that is not registered any more.
\* (RegisterSync, UnregisterSync, EventReceive)
RegistryTracksTree ==
    upc = "out" =>
        \A q \in Paths :
            /\ q \notin silent \cup stale => (entry[q] # 0 <=> q \in present /\ Covered(q))
            /\ entry[q] # 0 /\ ~ Covered(q) => q \in stale

\* A step of p that chooses path q for a callback, from its k-th entry.
Chooses(p, q, k) == due[p] = <<q, k>> /\ due'[p] = None

\* A path that keeps its entry is chosen again within the interval only by a
\* requester that began before the other one had set the time.  (The check and
\* the setting of the time in syncExec)
IntervalUnlessRace ==
    [][\A p, r \in Requesters, q \in Paths, k \in Entries :
         Chooses(p, q, k) /\ chosen[r][q].from = k =>
            \/ now - chosen[r][q].at > MinInterval
            \/ r # p /\ chosen[r][q].at >= cur[p]]_vars

\* A requester r has chosen q no longer than the interval before p began, and
\* its callback for q has returned or is still under way.
CaredForBy(r, p, q) ==
    /\ chosen[r][q].at >= cur[p] - MinInterval
    /\ synced[q] >= chosen[r][q].at \/ q \in tosend[r]

\* When SyncRequest returns no path it was asked for is forgotten: those it did
\* not choose itself are in the hands of somebody who did.
SynchronizedOrUnderWay ==
    \A p \in Requesters : pc[p] \in {"callback", "return"} =>
        \A q \in asked[p] : \E r \in Requesters : CaredForBy(r, p, q)

-----------------------------------------------------------------------------
(* What the documentation says, and the code does not keep when two         *)
(* requesters meet.                                                         *)

\* sync.go:25 "SyncMinInterval is the minimum interval between two sync requests
\* for each specified path": whoever makes them.
MinIntervalKept ==
    [][\A p, r \in Requesters, q \in Paths, k \in Entries :
         Chooses(p, q, k) /\ chosen[r][q].from = k
            => now - chosen[r][q].at > MinInterval]_vars

\* sync.go:18 "... if the synchronization of the data is required for some special
\* paths before the gNMI Get and Subscribe RPC responses": when SyncRequest
\* returns, a callback for every path it was asked for has returned no longer
\* than the interval before.
SynchronizedOnReturn ==
    \A p \in Requesters : pc[p] = "return" =>
        \A q \in asked[p] : synced[q] >= cur[p] - MinInterval
=============================================================================
