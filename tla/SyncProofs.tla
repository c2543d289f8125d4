----------------------------- MODULE SyncProofs -----------------------------
(* The registry of SyncRequest follows the tree, and nobody's path is        *)
(* forgotten, for any number of registrations, data nodes and requesters.    *)
EXTENDS SyncRequest, SequenceTheorems, TLAPS

\* A registration less: the others stay.
OneLess(t, s) ==
  /\ Len(t) = Len(s) - 1
  /\ \A j \in 1 .. Len(s) - 1 : \E k \in 1 .. Len(s) : t[j] = s[k]

LEMMA RemoveAtProperties ==
  ASSUME NEW S, NEW s \in Seq(S), NEW i \in 1 .. Len(s)
  PROVE  Sequence!RemoveAt(s, i) \in Seq(S) /\ OneLess(Sequence!RemoveAt(s, i), s)
<1> DEFINE a == SubSeq(s, 1, i - 1)
           b == SubSeq(s, i + 1, Len(s))
<1>1. Len(s) \in Nat /\ \A j \in 1 .. Len(s) : s[j] \in S
  BY LenProperties, ElementOfSeq
<1>2. /\ a \in Seq(S) /\ Len(a) = i - 1
      /\ \A j \in 1 .. i - 1 : a[j] = s[j]
  <2>1. \A j \in 1 .. i - 1 : s[j] \in S
    BY <1>1
  <2>2. /\ a \in Seq(S)
        /\ Len(a) = IF 1 <= i - 1 THEN (i - 1) - 1 + 1 ELSE 0
        /\ \A j \in 1 .. (i - 1) - 1 + 1 : a[j] = s[1 + j - 1]
    BY <1>1, <2>1, SubSeqProperties
  <2> QED
    BY <1>1, <2>2
<1>3. /\ b \in Seq(S) /\ Len(b) = Len(s) - i
      /\ \A j \in 1 .. Len(s) - i : b[j] = s[i + j]
  <2>1. \A j \in i + 1 .. Len(s) : s[j] \in S
    BY <1>1
  <2>2. /\ b \in Seq(S)
        /\ Len(b) = IF i + 1 <= Len(s) THEN Len(s) - (i + 1) + 1 ELSE 0
        /\ \A j \in 1 .. Len(s) - (i + 1) + 1 : b[j] = s[(i + 1) + j - 1]
    BY <1>1, <2>1, SubSeqProperties
  <2> QED
    BY <1>1, <2>2
<1> HIDE DEF a, b
<1>4. /\ a \o b \in Seq(S)
      /\ Len(a \o b) = Len(a) + Len(b)
      /\ \A j \in 1 .. Len(a) + Len(b) : (a \o b)[j] = IF j <= Len(a) THEN a[j] ELSE b[j - Len(a)]
  BY <1>2, <1>3, ConcatProperties
<1>5. Sequence!RemoveAt(s, i) = a \o b
  BY DEF Sequence!RemoveAt, a, b
<1>6. Len(a) + Len(b) = Len(s) - 1
  BY <1>1, <1>2, <1>3
<1>7. ASSUME NEW j \in 1 .. Len(s) - 1
      PROVE  \E k \in 1 .. Len(s) : (a \o b)[j] = s[k]
  <2>1. CASE j <= i - 1
    <3>1. (a \o b)[j] = s[j] /\ j \in 1 .. Len(s)
      BY <1>1, <1>2, <1>4, <1>6, <2>1
    <3> QED
      BY <3>1
  <2>2. CASE ~ (j <= i - 1)
    <3>1. (a \o b)[j] = b[j - (i - 1)] /\ j - (i - 1) \in 1 .. Len(s) - i
      BY <1>1, <1>2, <1>4, <1>6, <2>2
    <3>2. b[j - (i - 1)] = s[i + (j - (i - 1))] /\ i + (j - (i - 1)) \in 1 .. Len(s)
      BY <1>1, <1>3, <3>1
    <3> QED
      BY <3>1, <3>2
  <2> QED
    BY <2>1, <2>2
<1> QED
  BY <1>4, <1>5, <1>6, <1>7 DEF OneLess

\* In the loop of UnregisterSync() the registrations are fewer than the entries tell.
LoopOK ==
    upc = "loop" =>
        \A q \in Paths : q \notin silent \cup stale /\ Covered(q) => (entry[q] # 0 <=> q \in present)

\* After syncPath.Clear() the nodes of the registrations that are left have no entry.
AddOK ==
    upc = "add" =>
        /\ silent = {} /\ stale = {}
        /\ \A i \in DOMAIN left : \E j \in DOMAIN syncEvents : left[i] = syncEvents[j]
        /\ \A q \in Paths :
             /\ entry[q] # 0 => q \in present /\ Covered(q)
             /\ q \in present /\ Covered(q) =>
                  entry[q] # 0 \/ \E i \in DOMAIN left : q \in Nodes[left[i]]

\* What is needed besides RegistryTracksTree: where UnregisterSync() has got to, and
\* that an object of a path has a number above 0, which tells it from no entry.
RegistryInv ==
    /\ present \subseteq Paths
    /\ syncEvents \in Seq(RegPaths)
    /\ left \in Seq(RegPaths)
    /\ upc \in {"out", "loop", "add"}
    /\ made \in [Paths -> Nat]
    /\ entry \in [Paths -> Nat]
    /\ silent \subseteq Paths
    /\ stale \subseteq Paths
    /\ LoopOK
    /\ AddOK
    /\ RegistryTracksTree

LEMMA RegistryInit == Init => RegistryInv
<1> SUFFICES ASSUME Init PROVE RegistryInv
  OBVIOUS
<1>1. syncEvents \in Seq(RegPaths) /\ left \in Seq(RegPaths)
  BY DEF Init
<1>2. DOMAIN syncEvents = {}
  BY DEF Init
<1>3. \A q \in Paths : ~ Covered(q)
  BY <1>2 DEF Covered
<1> QED
  BY <1>1, <1>3 DEF Init, RegistryInv, RegistryTracksTree, LoopOK, AddOK

\* Add() gives every path of Q an object, and leaves the others as they are.
LEMMA AddGives ==
  ASSUME RegistryInv, NEW Q \in SUBSET Paths, Add(Q)
  PROVE  /\ made' \in [Paths -> Nat] /\ entry' \in [Paths -> Nat]
         /\ \A q \in Paths : entry'[q] # 0 <=> q \in Q \/ entry[q] # 0
BY DEF RegistryInv, Add

\* RegisterSync() of g adds the entries of the nodes that g finds; other nodes keep
\* theirs, or keep none.
LEMMA RegisterStep ==
  ASSUME RegistryInv, NEW g \in RegPaths, RegisterSync(g)
  PROVE  RegistryInv'
<1>1. /\ upc = "out" /\ upc' = "out" /\ present' = present /\ left' = left
      /\ syncEvents' = Append(syncEvents, g) /\ Add(Found(g))
      /\ silent' = silent \ Found(g) /\ stale' = stale \ Found(g)
  BY DEF RegisterSync
<1>2. Found(g) \in SUBSET Paths
  BY DEF Found, RegistryInv
<1>3. /\ made' \in [Paths -> Nat] /\ entry' \in [Paths -> Nat]
      /\ \A q \in Paths : entry'[q] # 0 <=> q \in Found(g) \/ entry[q] # 0
  BY <1>1, <1>2, AddGives
<1>4. /\ syncEvents' \in Seq(RegPaths)
      /\ DOMAIN syncEvents = 1 .. Len(syncEvents) /\ Len(syncEvents) \in Nat
      /\ DOMAIN syncEvents' = 1 .. Len(syncEvents) + 1
      /\ \A i \in 1 .. Len(syncEvents) : syncEvents'[i] = syncEvents[i]
      /\ syncEvents'[Len(syncEvents) + 1] = g
  BY <1>1, AppendProperties, LenProperties DEF RegistryInv
<1>5. \A q \in Paths : Covered(q)' <=> Covered(q) \/ q \in Nodes[g]
  BY <1>4 DEF Covered
<1>6. \A q \in Paths : q \in Found(g) <=> q \in Nodes[g] /\ q \in present
  BY DEF Found
<1>7. RegistryTracksTree'
  <2> SUFFICES ASSUME NEW q \in Paths
               PROVE  /\ q \notin silent' \cup stale' => (entry'[q] # 0 <=> q \in present /\ Covered(q)')
                      /\ entry'[q] # 0 /\ ~ Covered(q)' => q \in stale'
    BY <1>1 DEF RegistryTracksTree
  <2>1. /\ q \notin silent \cup stale => (entry[q] # 0 <=> q \in present /\ Covered(q))
        /\ entry[q] # 0 /\ ~ Covered(q) => q \in stale
    BY <1>1 DEF RegistryInv, RegistryTracksTree
  <2> QED
    BY <1>1, <1>3, <1>5, <1>6, <2>1
<1> QED
  BY <1>1, <1>3, <1>4, <1>7 DEF RegistryInv, LoopOK, AddOK

\* The loop of UnregisterSync(): a registration less, while all entries stay.
LEMMA UnregisterStep ==
  ASSUME RegistryInv, NEW g \in RegPaths, UnregisterPath(g)
  PROVE  RegistryInv'
<1>1. /\ upc \in {"out", "loop"} /\ upc' = "loop"
      /\ UNCHANGED <<present, left, entry, made, stale, silent>>
  BY DEF UnregisterPath, pathVars
<1>2. PICK i \in DOMAIN syncEvents : syncEvents' = Sequence!RemoveAt(syncEvents, i)
  BY DEF UnregisterPath
<1>3. DOMAIN syncEvents = 1 .. Len(syncEvents) /\ Len(syncEvents) \in Nat
  BY LenProperties DEF RegistryInv
<1>4. /\ syncEvents' \in Seq(RegPaths)
      /\ DOMAIN syncEvents' = 1 .. Len(syncEvents) - 1
      /\ \A j \in 1 .. Len(syncEvents) - 1 : \E k \in 1 .. Len(syncEvents) : syncEvents'[j] = syncEvents[k]
  <2>1. i \in 1 .. Len(syncEvents) /\ syncEvents \in Seq(RegPaths)
    BY <1>3 DEF RegistryInv
  <2>2. /\ syncEvents' \in Seq(RegPaths)
        /\ Len(syncEvents') = Len(syncEvents) - 1
        /\ \A j \in 1 .. Len(syncEvents) - 1 : \E k \in 1 .. Len(syncEvents) : syncEvents'[j] = syncEvents[k]
    <3>1. syncEvents' \in Seq(RegPaths) /\ OneLess(syncEvents', syncEvents)
      BY <1>2, <2>1, RemoveAtProperties
    <3> QED
      BY <3>1 DEF OneLess
  <2>3. DOMAIN syncEvents' = 1 .. Len(syncEvents')
    BY <2>2, LenProperties
  <2> QED
    BY <2>2, <2>3
<1>5. \A q \in Paths : Covered(q)' => Covered(q)
  BY <1>3, <1>4 DEF Covered
<1>6. LoopOK'
  <2> SUFFICES ASSUME NEW q \in Paths, q \notin silent \cup stale, Covered(q)'
               PROVE  entry[q] # 0 <=> q \in present
    BY <1>1 DEF LoopOK
  <2>1. Covered(q)
    BY <1>5
  <2> QED
    BY <1>1, <2>1 DEF RegistryInv, LoopOK, RegistryTracksTree
<1> QED
  BY <1>1, <1>4, <1>6 DEF RegistryInv, AddOK, RegistryTracksTree

\* UnregisterSync() that fails in the loop: the entries no registration is left for
\* are stale.
LEMMA UnregisterFailsStep ==
  ASSUME RegistryInv, UnregisterFails
  PROVE  RegistryInv'
<1>1. /\ upc = "loop" /\ upc' = "out"
      /\ stale' = stale \cup {q \in Paths : entry[q] # 0 /\ ~ Covered(q)}
      /\ UNCHANGED <<present, syncEvents, left, entry, made, silent>>
  BY DEF UnregisterFails
<1>2. \A q \in Paths : Covered(q)' <=> Covered(q)
  BY <1>1 DEF Covered
<1>3. RegistryTracksTree'
  <2> SUFFICES ASSUME NEW q \in Paths
               PROVE  /\ q \notin silent \cup stale' => (entry[q] # 0 <=> q \in present /\ Covered(q))
                      /\ entry[q] # 0 /\ ~ Covered(q) => q \in stale'
    BY <1>1, <1>2 DEF RegistryTracksTree
  <2>1. q \notin silent \cup stale /\ Covered(q) => (entry[q] # 0 <=> q \in present)
    BY <1>1 DEF RegistryInv, LoopOK
  <2> QED
    BY <1>1, <2>1
<1> QED
  BY <1>1, <1>3 DEF RegistryInv, LoopOK, AddOK

\* syncPath.Clear(): every node that a registration leads to is still to be added.
LEMMA ClearStep ==
  ASSUME RegistryInv, ClearPaths
  PROVE  RegistryInv'
<1>1. /\ upc' = "add" /\ left' = syncEvents /\ silent' = {} /\ stale' = {}
      /\ entry' = [q \in Paths |-> 0]
      /\ UNCHANGED <<present, syncEvents, made>>
  BY DEF ClearPaths
<1>2. AddOK'
  BY <1>1 DEF AddOK, Covered
<1>3. entry' \in [Paths -> Nat]
  BY <1>1
<1> QED
  BY <1>1, <1>2, <1>3 DEF RegistryInv, LoopOK, RegistryTracksTree

\* The nodes of the next registration are added again.
LEMMA AddAgainStep ==
  ASSUME RegistryInv, AddAgain
  PROVE  RegistryInv'
<1> DEFINE g == Head(left)
<1>1. /\ upc = "add" /\ left # <<>> /\ Add(Found(g)) /\ left' = Tail(left)
      /\ UNCHANGED <<present, syncEvents, upc, silent, stale>>
  BY DEF AddAgain
<1>2. /\ left \in Seq(RegPaths) /\ Len(left) \in Nat \ {0} /\ DOMAIN left = 1 .. Len(left)
      /\ g = left[1]
  BY <1>1, EmptySeq, LenProperties DEF RegistryInv
<1>3. /\ left' \in Seq(RegPaths) /\ DOMAIN left' = 1 .. Len(left) - 1
      /\ \A i \in 1 .. Len(left) - 1 : left'[i] = left[i + 1]
  BY <1>1, HeadTailProperties, LenProperties DEF RegistryInv
<1>4. Found(g) \in SUBSET Paths /\ \A q \in Paths : q \in Found(g) <=> q \in Nodes[g] /\ q \in present
  BY DEF Found, RegistryInv
<1>5. /\ made' \in [Paths -> Nat] /\ entry' \in [Paths -> Nat]
      /\ \A q \in Paths : entry'[q] # 0 <=> q \in Found(g) \/ entry[q] # 0
  BY <1>1, <1>4, AddGives
<1>6. PICK j \in DOMAIN syncEvents : g = syncEvents[j]
  <2>1. 1 \in DOMAIN left
    BY <1>2
  <2> QED
    BY <1>1, <1>2, <2>1 DEF RegistryInv, AddOK
<1>7. \A i \in DOMAIN left' : i + 1 \in DOMAIN left /\ left'[i] = left[i + 1]
  BY <1>2, <1>3
<1>8. \A q \in Paths : Covered(q)' <=> Covered(q)
  BY <1>1 DEF Covered
<1>9. \A i \in DOMAIN left : i # 1 => i - 1 \in DOMAIN left' /\ left'[i - 1] = left[i]
  BY <1>2, <1>3
<1>10. ASSUME NEW q \in Paths
       PROVE  /\ entry'[q] # 0 => q \in present /\ Covered(q)
              /\ q \in present /\ Covered(q) =>
                   entry'[q] # 0 \/ \E i \in DOMAIN left' : q \in Nodes[left'[i]]
  <2>1. /\ entry[q] # 0 => q \in present /\ Covered(q)
        /\ q \in present /\ Covered(q) =>
             entry[q] # 0 \/ \E i \in DOMAIN left : q \in Nodes[left[i]]
    BY <1>1 DEF RegistryInv, AddOK
  <2>2. q \in Found(g) => q \in present /\ Covered(q)
    BY <1>4, <1>6 DEF Covered
  <2>3. ASSUME NEW i \in DOMAIN left, q \in Nodes[left[i]], q \in present
        PROVE  entry'[q] # 0 \/ \E k \in DOMAIN left' : q \in Nodes[left'[k]]
    <3>1. CASE i = 1
      BY <1>2, <1>4, <1>5, <2>3, <3>1
    <3>2. CASE i # 1
      BY <1>9, <2>3, <3>2
    <3> QED
      BY <3>1, <3>2
  <2> QED
    BY <1>5, <2>1, <2>2, <2>3
<1>11. AddOK'
  <2>1. \A i \in DOMAIN left' : \E k \in DOMAIN syncEvents : left'[i] = syncEvents[k]
    BY <1>1, <1>7 DEF RegistryInv, AddOK
  <2> QED
    BY <1>1, <1>8, <1>10, <2>1 DEF RegistryInv, AddOK
<1> QED
  BY <1>1, <1>3, <1>5, <1>11 DEF RegistryInv, LoopOK, RegistryTracksTree

\* With no registration left to add, all nodes have their entries.
LEMMA UnregisterReturnsStep ==
  ASSUME RegistryInv, UnregisterReturns
  PROVE  RegistryInv'
<1>1. /\ upc = "add" /\ upc' = "out" /\ left = <<>>
      /\ UNCHANGED <<present, syncEvents, left, entry, made, stale, silent>>
  BY DEF UnregisterReturns, pathVars
<1>2. DOMAIN left = {}
  BY <1>1
<1>3. \A q \in Paths : Covered(q)' <=> Covered(q)
  BY <1>1 DEF Covered
<1>4. RegistryTracksTree'
  BY <1>1, <1>2, <1>3 DEF RegistryInv, AddOK, RegistryTracksTree
<1> QED
  BY <1>1, <1>4 DEF RegistryInv, LoopOK, AddOK

\* A node that is created gets an entry when a registration leads to it.
LEMMA CreateStep ==
  ASSUME RegistryInv, NEW q \in Paths, Create(q)
  PROVE  RegistryInv'
<1>1. /\ upc = "out" /\ q \notin present /\ present' = present \cup {q}
      /\ silent' = silent \ {q}
      /\ UNCHANGED <<syncEvents, upc, left>>
  BY DEF Create, unregVars
<1>2. \A r \in Paths : Covered(r)' <=> Covered(r)
  BY <1>1 DEF Covered
<1>3. CASE Covered(q)
  <2>1. Add({q}) /\ stale' = stale \ {q}
    BY <1>3 DEF Create
  <2>2. /\ made' \in [Paths -> Nat] /\ entry' \in [Paths -> Nat]
        /\ \A r \in Paths : entry'[r] # 0 <=> r \in {q} \/ entry[r] # 0
    BY <2>1, AddGives
  <2>3. RegistryTracksTree'
    BY <1>1, <1>2, <1>3, <2>1, <2>2 DEF RegistryInv, RegistryTracksTree
  <2> QED
    BY <1>1, <2>1, <2>2, <2>3 DEF RegistryInv, LoopOK, AddOK
<1>4. CASE ~ Covered(q)
  <2>1. UNCHANGED <<entry, made, stale>>
    BY <1>4 DEF Create, pathVars
  <2>2. RegistryTracksTree'
    BY <1>1, <1>2, <1>4, <2>1 DEF RegistryInv, RegistryTracksTree
  <2> QED
    BY <1>1, <2>1, <2>2 DEF RegistryInv, LoopOK, AddOK
<1> QED
  BY <1>3, <1>4

\* A node whose deletion the registrations hear of loses its entry, whether it is
\* then deleted or not.
LEMMA ForgetStep ==
  ASSUME RegistryInv, NEW q \in Paths, Remove(q) \/ RemoveFails(q)
  PROVE  RegistryInv'
<1>1. /\ upc = "out" /\ q \in present /\ Forget(q)
      /\ \/ present' = present \ {q} /\ silent' = silent \ {q}
         \/ present' = present /\ silent' = silent \cup {q}
      /\ UNCHANGED <<syncEvents, upc, left>>
  BY DEF Remove, RemoveFails, unregVars
<1>2. \A r \in Paths : Covered(r)' <=> Covered(r)
  BY <1>1 DEF Covered
<1>3. /\ made' = made /\ entry' \in [Paths -> Nat]
      /\ \A r \in Paths : r # q => entry'[r] = entry[r]
      /\ stale' \subseteq stale /\ \A r \in Paths : r # q /\ r \in stale => r \in stale'
      /\ Covered(q) => entry'[q] = 0
      /\ ~ Covered(q) => entry'[q] = entry[q] /\ stale' = stale
  <2>1. entry \in [Paths -> Nat] /\ stale \subseteq Paths /\ made' = made
    BY <1>1 DEF Forget, RegistryInv
  <2>2. CASE Covered(q)
    BY <1>1, <2>1, <2>2 DEF Forget
  <2>3. CASE ~ Covered(q)
    BY <1>1, <2>1, <2>3 DEF Forget
  <2> QED
    BY <2>2, <2>3
<1>4. RegistryTracksTree'
  <2> SUFFICES ASSUME NEW r \in Paths
               PROVE  /\ r \notin silent' \cup stale' => (entry'[r] # 0 <=> r \in present' /\ Covered(r))
                      /\ entry'[r] # 0 /\ ~ Covered(r) => r \in stale'
    BY <1>1, <1>2 DEF RegistryTracksTree
  <2>1. /\ r \notin silent \cup stale => (entry[r] # 0 <=> r \in present /\ Covered(r))
        /\ entry[r] # 0 /\ ~ Covered(r) => r \in stale
    BY <1>1 DEF RegistryInv, RegistryTracksTree
  <2>2. CASE r # q
    BY <1>1, <1>3, <2>1, <2>2
  <2>3. CASE r = q
    BY <1>1, <1>3, <2>1, <2>3
  <2> QED
    BY <2>2, <2>3
<1> QED
  BY <1>1, <1>3, <1>4 DEF RegistryInv, LoopOK, AddOK

\* Nodes that come or go while the registrations do not hear of it are silent from
\* then on.
LEMMA SilentStep ==
  ASSUME RegistryInv, (\E q \in Paths : CreateFails(q)) \/ \E Q \in SUBSET Paths : Load(Q)
  PROVE  RegistryInv'
<1>1. /\ upc = "out" /\ present' \subseteq Paths /\ silent' \subseteq Paths
      /\ \A q \in Paths : q \notin silent' => q \notin silent /\ (q \in present' <=> q \in present)
      /\ UNCHANGED <<syncEvents, upc, left, entry, made, stale>>
  BY DEF CreateFails, Load, unregVars, pathVars, RegistryInv
<1>2. \A q \in Paths : Covered(q)' <=> Covered(q)
  BY <1>1 DEF Covered
<1>3. RegistryTracksTree'
  BY <1>1, <1>2 DEF RegistryInv, RegistryTracksTree
<1> QED
  BY <1>1, <1>3 DEF RegistryInv, LoopOK, AddOK

LEMMA RegistryFrame ==
  ASSUME RegistryInv, UNCHANGED registry
  PROVE  RegistryInv'
<1>1. UNCHANGED <<present, syncEvents, upc, left, entry, made, stale, silent>>
  BY DEF registry, unregVars, pathVars
<1>2. \A q \in Paths : Covered(q)' <=> Covered(q)
  BY <1>1 DEF Covered
<1> QED
  BY <1>1, <1>2 DEF RegistryInv, LoopOK, AddOK, RegistryTracksTree

LEMMA RegistryStep == RegistryInv /\ [Next]_vars => RegistryInv'
<1> SUFFICES ASSUME RegistryInv, [Next]_vars
             PROVE  RegistryInv'
  OBVIOUS
<1>1. CASE UNCHANGED registry
  BY <1>1, RegistryFrame
<1>2. CASE \E g \in RegPaths : RegisterSync(g)
  BY <1>2, RegisterStep
<1>3. CASE \E g \in RegPaths : UnregisterPath(g)
  BY <1>3, UnregisterStep
<1>4. CASE UnregisterFails \/ ClearPaths \/ AddAgain \/ UnregisterReturns
  BY <1>4, UnregisterFailsStep, ClearStep, AddAgainStep, UnregisterReturnsStep
<1>5. CASE \E q \in Paths : Create(q)
  BY <1>5, CreateStep
<1>6. CASE \E q \in Paths : Remove(q) \/ RemoveFails(q)
  BY <1>6, ForgetStep
<1>7. CASE (\E q \in Paths : CreateFails(q)) \/ \E Q \in SUBSET Paths : Load(Q)
  BY <1>7, SilentStep
<1>8. CASE Tick
  BY <1>8, <1>1 DEF Tick
<1>9. ASSUME NEW p \in Requesters, NEW Q \in SUBSET Paths, Request(p, Q)
      PROVE  RegistryInv'
  BY <1>9, <1>1 DEF Request
<1>10. ASSUME NEW p \in Requesters,
              Check(p) \/ SetTime(p) \/ Callback(p) \/ Synchronized(p) \/ Return(p)
       PROVE  RegistryInv'
  BY <1>10, <1>1 DEF Check, SetTime, Callback, Synchronized, Return
<1>11. CASE UNCHANGED vars
  BY <1>11, <1>1 DEF vars
<1> QED
  BY <1>2, <1>3, <1>4, <1>5, <1>6, <1>7, <1>8, <1>9, <1>10, <1>11 DEF Next

\* Outside UnregisterSync() the paths that SyncRequest knows are the nodes of the tree
\* that a registration leads to, but for nodes the registrations did not hear of and for
\* what an UnregisterSync() that failed has left; and nothing but such a failure leaves
\* a path known that is not registered any more.  (RegisterSync, UnregisterSync,
\* EventReceive)
THEOREM RegistryFollows == Spec => []RegistryTracksTree
<1>1. RegistryInv => RegistryTracksTree
  BY DEF RegistryInv
<1> QED
  BY <1>1, RegistryInit, RegistryStep, PTL DEF Spec

-----------------------------------------------------------------------------
(* Types.                                                                   *)

\* The objects of a registration are new ones.
LEMMA AddType ==
  ASSUME TypeOK, NEW Q \in SUBSET Paths, Add(Q)
  PROVE  made' \in [Paths -> 0 .. MaxEntries] /\ entry' \in [Paths -> 0 .. MaxEntries]
BY SyncAssumption DEF SyncAssumption, TypeOK, Add

\* The steps that change the registry.
Registers ==
  \/ \E g \in RegPaths : RegisterSync(g) \/ UnregisterPath(g)
  \/ UnregisterFails \/ ClearPaths \/ AddAgain \/ UnregisterReturns
  \/ \E q \in Paths : Create(q) \/ Remove(q) \/ CreateFails(q) \/ RemoveFails(q)
  \/ \E Q \in SUBSET Paths : Load(Q)

LEMMA RegistersType ==
  ASSUME TypeOK, Registers
  PROVE  TypeOK' /\ UNCHANGED <<now, time, execVars, chosen, synced>>
<1> DEFINE Rest == UNCHANGED <<now, time, execVars, chosen, synced>>
<1> USE SyncAssumption DEF SyncAssumption
<1>1. ASSUME NEW g \in RegPaths, RegisterSync(g)
      PROVE  TypeOK' /\ Rest
  <2>1. /\ syncEvents' = Append(syncEvents, g) /\ Len(syncEvents) < MaxEvents
        /\ UNCHANGED <<present, upc, left, loads>> /\ Rest
        /\ silent' = silent \ Found(g) /\ stale' = stale \ Found(g)
    BY <1>1 DEF RegisterSync
  <2>2. made' \in [Paths -> 0 .. MaxEntries] /\ entry' \in [Paths -> 0 .. MaxEntries]
    BY <1>1, AddType DEF RegisterSync, Found, TypeOK
  <2>3. syncEvents' \in Seq(RegPaths) /\ Len(syncEvents') <= MaxEvents
    <3>1. syncEvents' \in Seq(RegPaths) /\ Len(syncEvents') = Len(syncEvents) + 1
      BY <2>1, AppendProperties DEF TypeOK
    <3>2. Len(syncEvents) \in Nat
      BY LenProperties DEF TypeOK
    <3> QED
      BY <2>1, <3>1, <3>2
  <2> QED
    BY <2>1, <2>2, <2>3 DEF TypeOK, execVars
<1>2. ASSUME NEW g \in RegPaths, UnregisterPath(g)
      PROVE  TypeOK' /\ Rest
  <2>1. /\ upc' = "loop" /\ UNCHANGED <<present, left, entry, made, stale, silent, loads>> /\ Rest
    BY <1>2 DEF UnregisterPath, pathVars
  <2>2. PICK i \in DOMAIN syncEvents : syncEvents' = Sequence!RemoveAt(syncEvents, i)
    BY <1>2 DEF UnregisterPath
  <2>3. DOMAIN syncEvents = 1 .. Len(syncEvents) /\ Len(syncEvents) \in Nat
    BY LenProperties DEF TypeOK
  <2>4. syncEvents' \in Seq(RegPaths) /\ Len(syncEvents') = Len(syncEvents) - 1
    BY <2>2, <2>3, RemoveAtProperties DEF TypeOK, OneLess
  <2>5. Len(syncEvents') <= MaxEvents
    BY <2>3, <2>4 DEF TypeOK
  <2> QED
    BY <2>1, <2>4, <2>5 DEF TypeOK, execVars
<1>3. CASE UnregisterFails
  BY <1>3 DEF UnregisterFails, TypeOK, execVars
<1>4. CASE ClearPaths
  <2>1. entry' \in [Paths -> 0 .. MaxEntries]
    BY <1>4 DEF ClearPaths
  <2> QED
    BY <1>4, <2>1 DEF ClearPaths, TypeOK, execVars
<1>5. CASE AddAgain
  <2>1. left' \in Seq(RegPaths)
    BY <1>5, HeadTailProperties DEF AddAgain, TypeOK
  <2>2. made' \in [Paths -> 0 .. MaxEntries] /\ entry' \in [Paths -> 0 .. MaxEntries]
    BY <1>5, AddType DEF AddAgain, Found, TypeOK
  <2> QED
    BY <1>5, <2>1, <2>2 DEF AddAgain, TypeOK, execVars
<1>6. CASE UnregisterReturns
  BY <1>6 DEF UnregisterReturns, TypeOK, execVars, pathVars
<1>7. ASSUME NEW q \in Paths, Create(q)
      PROVE  TypeOK' /\ Rest
  <2>1. /\ made' \in [Paths -> 0 .. MaxEntries] /\ entry' \in [Paths -> 0 .. MaxEntries]
        /\ stale' \subseteq Paths
    BY <1>7, AddType DEF Create, TypeOK, pathVars
  <2>2. present' \subseteq Paths /\ silent' \subseteq Paths
    BY <1>7 DEF Create, TypeOK
  <2> QED
    BY <1>7, <2>1, <2>2 DEF Create, TypeOK, execVars, unregVars
<1>8. ASSUME NEW q \in Paths, Remove(q) \/ RemoveFails(q)
      PROVE  TypeOK' /\ Rest
  <2>1. entry' \in [Paths -> 0 .. MaxEntries] /\ stale' \subseteq Paths /\ made' = made
    <3>1. Forget(q) /\ entry \in [Paths -> 0 .. MaxEntries] /\ stale \subseteq Paths
      BY <1>8 DEF Remove, RemoveFails, TypeOK
    <3>2. entry' = [entry EXCEPT ![q] = 0] \/ entry' = entry
      BY <3>1 DEF Forget
    <3>3. 0 \in 0 .. MaxEntries
      OBVIOUS
    <3> QED
      BY <3>1, <3>2, <3>3 DEF Forget
  <2>2. present' \subseteq Paths /\ silent' \subseteq Paths /\ loads' \in 0 .. MaxLoads
    BY <1>8 DEF Remove, RemoveFails, TypeOK
  <2>3. UNCHANGED <<syncEvents, upc, left>> /\ Rest
    BY <1>8 DEF Remove, RemoveFails, unregVars
  <2> QED
    BY <2>1, <2>2, <2>3 DEF TypeOK, execVars
<1>9. ASSUME NEW q \in Paths, CreateFails(q)
      PROVE  TypeOK' /\ Rest
  BY <1>9 DEF CreateFails, TypeOK, execVars, unregVars, pathVars
<1>10. ASSUME NEW Q \in SUBSET Paths, Load(Q)
       PROVE  TypeOK' /\ Rest
  BY <1>10 DEF Load, TypeOK, execVars, unregVars, pathVars
<1> QED
  BY <1>1, <1>2, <1>3, <1>4, <1>5, <1>6, <1>7, <1>8, <1>9, <1>10 DEF Registers

\* A requester has an entry in hand exactly when it is to set its time.
DueOK == \A p \in Requesters : pc[p] = "set" => due[p] \in Refs

\* The steps of a requester.
Steps(p) ==
  \/ \E Q \in SUBSET Paths : Request(p, Q)
  \/ Check(p) \/ SetTime(p) \/ Callback(p) \/ Synchronized(p) \/ Return(p)

LEMMA StepsType ==
  ASSUME TypeOK, DueOK, NEW p \in Requesters, Steps(p)
  PROVE  TypeOK' /\ DueOK'
<1> USE SyncAssumption DEF SyncAssumption, TypeOK, DueOK, registry, unregVars, pathVars
<1>1. ASSUME NEW Q \in SUBSET Paths, Request(p, Q)
      PROVE  TypeOK' /\ DueOK'
  <2> DEFINE hits == {<<q, entry[q]>> : q \in {q \in Q : entry[q] # 0}}
  <2>1. found' = [found EXCEPT ![p] = hits] /\ asked' = [asked EXCEPT ![p] = {h[1] : h \in hits}]
    BY <1>1 DEF Request
  <2>2. hits \subseteq Refs /\ {h[1] : h \in hits} \subseteq Paths
    BY DEF Refs, Entries
  <2>3. found' \in [Requesters -> SUBSET Refs] /\ asked' \in [Requesters -> SUBSET Paths]
    BY <2>1, <2>2
  <2>4. cur' \in [Requesters -> 0 .. MaxTime]
    BY <1>1 DEF Request
  <2> QED
    BY <1>1, <2>3, <2>4 DEF Request
<1>2. CASE Check(p)
  <2>1. PICK ref \in found[p] :
          /\ found' = [found EXCEPT ![p] = @ \ {ref}]
          /\ \/ due' = [due EXCEPT ![p] = ref] /\ pc' = [pc EXCEPT ![p] = "set"]
             \/ UNCHANGED <<due, pc>>
    BY <1>2 DEF Check
  <2>2. ref \in Refs
    OBVIOUS
  <2>3. found' \in [Requesters -> SUBSET Refs]
    BY <2>1
  <2>4. due' \in [Requesters -> Refs \cup {None}]
    BY <2>1, <2>2
  <2>6. pc' \in [Requesters -> {"idle", "check", "set", "callback", "return"}]
    <3>1. CASE pc' = pc
      BY <3>1
    <3>2. CASE pc' = [pc EXCEPT ![p] = "set"]
      BY <3>2
    <3> QED
      BY <2>1, <3>1, <3>2
  <2>5. DueOK'
    BY <1>2, <2>1, <2>2 DEF Check
  <2> QED
    BY <1>2, <2>3, <2>4, <2>5, <2>6 DEF Check
<1>3. CASE SetTime(p)
  <2>1. PICK q \in Paths, k \in Entries : due[p] = <<q, k>>
    BY <1>3 DEF SetTime, Refs
  <2>2. now \in Times /\ k \in 0 .. MaxEntries
    BY DEF Times, Never, Entries
  <2>3. time' = [time EXCEPT ![q][k] = now]
    BY <1>3, <2>1 DEF SetTime
  <2>4. time' \in [Paths -> [Entries -> Times]]
    BY <2>2, <2>3
  <2>5. chosen' = [chosen EXCEPT ![p][q] = [at |-> now, from |-> k]]
    BY <1>3, <2>1 DEF SetTime
  <2>6. chosen' \in [Requesters -> [Paths -> [at : Times, from : 0 .. MaxEntries]]]
    BY <2>2, <2>5
  <2>7. tosend' = [tosend EXCEPT ![p] = @ \cup {q}]
    BY <1>3, <2>1 DEF SetTime
  <2>8. tosend' \in [Requesters -> SUBSET Paths] /\ due' \in [Requesters -> Refs \cup {None}]
        /\ pc' \in [Requesters -> {"idle", "check", "set", "callback", "return"}] /\ DueOK'
    BY <1>3, <2>7 DEF SetTime
  <2> QED
    BY <1>3, <2>4, <2>6, <2>8 DEF SetTime
<1>4. CASE Synchronized(p)
  <2>1. now \in Times
    BY DEF Times, Never
  <2>2. synced' \in [Paths -> Times]
    BY <1>4, <2>1 DEF Synchronized
  <2> QED
    BY <1>4, <2>2 DEF Synchronized
<1>5. CASE Callback(p) \/ Return(p)
  BY <1>5 DEF Callback, Return
<1> QED
  BY <1>1, <1>2, <1>3, <1>4, <1>5 DEF Steps

LEMMA SyncCases ==
  ASSUME [Next]_vars
  PROVE  Registers \/ Tick \/ UNCHANGED vars \/ \E p \in Requesters : Steps(p)
BY DEF Next, Registers, Steps

-----------------------------------------------------------------------------
(* Who cares for a path.                                                    *)

\* The numbers that the lemmas below compare.
LEMMA Numbers ==
  ASSUME TypeOK
  PROVE  /\ now \in Int /\ MinInterval \in Nat
         /\ \A p \in Requesters : cur[p] \in Int /\ cur[p] >= 0
         /\ \A q \in Paths : synced[q] \in Int /\ \A k \in Entries : time[q][k] \in Int
         /\ \A r \in Requesters, q \in Paths : chosen[r][q].at \in Int
BY SyncAssumption DEF SyncAssumption, TypeOK, Times, Never

\* Whom a requester chose was synchronized since, or will be when the callback of
\* the requester returns.
ChosenOK ==
  \A r \in Requesters, q \in Paths :
    /\ synced[q] >= chosen[r][q].at \/ (q \in tosend[r] /\ pc[r] # "return")
    /\ chosen[r][q].at <= now /\ synced[q] <= now

\* The time of an entry is that of somebody's choice, or an earlier one.
TimesOK ==
  \A q \in Paths, k \in Entries :
    time[q][k] # Never => \E r \in Requesters : chosen[r][q].at >= time[q][k]

\* What p was asked for and has looked at is in somebody's care.
AskedOK ==
  \A p \in Requesters : pc[p] # "idle" =>
    \A q \in asked[p] :
      \/ pc[p] \in {"check", "set"} /\ \E k \in Entries : <<q, k>> \in found[p]
      \/ pc[p] = "set" /\ \E k \in Entries : due[p] = <<q, k>>
      \/ \E r \in Requesters : chosen[r][q].at >= cur[p] - MinInterval

CurOK == \A p \in Requesters : cur[p] <= now

CareInv == TypeOK /\ DueOK /\ CurOK /\ ChosenOK /\ TimesOK /\ AskedOK

LEMMA CareInit == Init => CareInv
<1> SUFFICES ASSUME Init PROVE CareInv
  OBVIOUS
<1> USE SyncAssumption DEF SyncAssumption
<1>1. Never \in Times /\ Never < 0 /\ Never \in Int
  BY DEF Never, Times
<1>2. TypeOK
  BY <1>1 DEF Init, TypeOK
<1>3. DueOK /\ CurOK /\ TimesOK /\ AskedOK
  BY <1>1 DEF Init, DueOK, CurOK, TimesOK, AskedOK
<1>4. ChosenOK
  BY <1>1 DEF Init, ChosenOK
<1> QED
  BY <1>2, <1>3, <1>4 DEF CareInv

\* Steps that are about no path of a requester.
LEMMA CareFrame ==
  ASSUME CareInv, TypeOK', UNCHANGED <<time, execVars, chosen, synced>>, now' >= now
  PROVE  CareInv'
<1> USE DEF CareInv, execVars
<1>1. DueOK' /\ TimesOK' /\ AskedOK'
  BY DEF DueOK, TimesOK, AskedOK
<1>2. now \in Int /\ now' \in Int
  BY DEF TypeOK
<1>3. CurOK'
  <2>1. \A p \in Requesters : cur[p] \in Int
    BY DEF TypeOK
  <2> QED
    BY <1>2, <2>1 DEF CurOK
<1>4. ChosenOK'
  <2> SUFFICES ASSUME NEW r \in Requesters, NEW q \in Paths
               PROVE  /\ synced[q] >= chosen[r][q].at \/ (q \in tosend[r] /\ pc[r] # "return")
                      /\ chosen[r][q].at <= now' /\ synced[q] <= now'
    BY DEF ChosenOK
  <2>1. chosen[r][q].at \in Int /\ synced[q] \in Int
    BY Numbers
  <2> QED
    BY <1>2, <2>1 DEF ChosenOK
<1> QED
  BY <1>1, <1>3, <1>4

\* An entry that is not due has the time of somebody's choice within the interval.
LEMMA CheckStep ==
  ASSUME CareInv, TypeOK', DueOK', NEW p \in Requesters, Check(p)
  PROVE  CareInv'
<1> USE DEF CareInv, registry
<1>1. PICK ref \in found[p] :
        /\ found' = [found EXCEPT ![p] = @ \ {ref}]
        /\ IF Due(p, ref)
           THEN /\ due' = [due EXCEPT ![p] = ref]
                /\ pc' = [pc EXCEPT ![p] = "set"]
           ELSE UNCHANGED <<due, pc>>
  BY DEF Check
<1>2. pc[p] = "check" /\ UNCHANGED <<now, time, cur, asked, tosend, chosen, synced>>
  BY DEF Check
<1>3. PICK q0 \in Paths, k0 \in Entries : ref = <<q0, k0>>
  BY DEF TypeOK, Refs
<1>4. CurOK' /\ TimesOK'
  BY <1>2 DEF CurOK, TimesOK
<1>5. ChosenOK'
  BY <1>1, <1>2 DEF ChosenOK, TypeOK
<1>6. ASSUME ~ Due(p, ref)
      PROVE  \E r \in Requesters : chosen[r][q0].at >= cur[p] - MinInterval
  <2>1. /\ cur[p] \in Int /\ cur[p] >= 0 /\ time[q0][k0] \in Int /\ MinInterval \in Int
        /\ \A r \in Requesters : chosen[r][q0].at \in Int
    BY Numbers
  <2>2. cur[p] - time[q0][k0] <= MinInterval
    BY <1>3, <1>6, <2>1 DEF Due
  <2>3. time[q0][k0] # Never
    BY <2>1, <2>2 DEF Never
  <2>4. PICK r \in Requesters : chosen[r][q0].at >= time[q0][k0]
    BY <2>3 DEF TimesOK
  <2> QED
    BY <2>1, <2>2, <2>4
<1>7. AskedOK'
  <2> SUFFICES ASSUME NEW s \in Requesters, pc'[s] # "idle", NEW q \in asked'[s]
               PROVE  \/ pc'[s] \in {"check", "set"} /\ \E k \in Entries : <<q, k>> \in found'[s]
                      \/ pc'[s] = "set" /\ \E k \in Entries : due'[s] = <<q, k>>
                      \/ \E r \in Requesters : chosen'[r][q].at >= cur'[s] - MinInterval
    BY DEF AskedOK
  <2>1. CASE s # p
    <3>1. pc'[s] = pc[s] /\ found'[s] = found[s] /\ due'[s] = due[s] /\ q \in asked[s]
      BY <1>1, <1>2, <2>1 DEF TypeOK
    <3> QED
      BY <1>2, <3>1 DEF AskedOK
  <2>2. CASE s = p
    <3>1. q \in asked[p] /\ found'[p] = found[p] \ {ref} /\ pc'[p] \in {"check", "set"}
      BY <1>1, <1>2, <2>2 DEF TypeOK
    <3>2. CASE \E k \in Entries : <<q, k>> \in found[p] /\ <<q, k>> # ref
      BY <2>2, <3>1, <3>2
    <3>3. CASE q = q0
      <4>1. CASE Due(p, ref)
        <5>1. pc'[p] = "set" /\ due'[p] = <<q, k0>>
          BY <1>1, <1>3, <3>3, <4>1 DEF TypeOK
        <5> QED
          BY <2>2, <5>1
      <4>2. CASE ~ Due(p, ref)
        BY <1>2, <1>6, <2>2, <3>3, <4>2
      <4> QED
        BY <4>1, <4>2
    <3>4. CASE q # q0 /\ ~ \E k \in Entries : <<q, k>> \in found[p] /\ <<q, k>> # ref
      <4>1. ~ \E k \in Entries : <<q, k>> \in found[p]
        BY <1>3, <3>4
      <4>2. \E r \in Requesters : chosen[r][q].at >= cur[p] - MinInterval
        BY <1>2, <3>1, <4>1 DEF AskedOK
      <4> QED
        BY <1>2, <2>2, <4>2
    <3> QED
      BY <3>2, <3>3, <3>4
  <2> QED
    BY <2>1, <2>2
<1> QED
  BY <1>4, <1>5, <1>7

\* Whoever sets the time chooses the path.
LEMMA SetStep ==
  ASSUME CareInv, TypeOK', DueOK', NEW p \in Requesters, SetTime(p)
  PROVE  CareInv'
<1> USE DEF CareInv, registry
<1>0. /\ time \in [Paths -> [Entries -> Times]]
      /\ pc \in [Requesters -> {"idle", "check", "set", "callback", "return"}]
      /\ due \in [Requesters -> Refs \cup {None}]
      /\ asked \in [Requesters -> SUBSET Paths]
      /\ tosend \in [Requesters -> SUBSET Paths]
      /\ chosen \in [Requesters -> [Paths -> [at : Times, from : 0 .. MaxEntries]]]
  BY DEF TypeOK
<1>1. PICK q0 \in Paths, k0 \in Entries : due[p] = <<q0, k0>>
  BY DEF SetTime, DueOK, Refs
<1>2. /\ time' = [time EXCEPT ![q0][k0] = now]
      /\ tosend' = [tosend EXCEPT ![p] = @ \cup {q0}]
      /\ chosen' = [chosen EXCEPT ![p][q0] = [at |-> now, from |-> k0]]
      /\ due' = [due EXCEPT ![p] = None]
      /\ pc[p] = "set" /\ pc' = [pc EXCEPT ![p] = "check"]
      /\ UNCHANGED <<now, found, cur, asked, synced>>
  BY <1>1 DEF SetTime
<1>3. /\ now \in Int
      /\ \A q \in Paths : synced[q] \in Int /\ \A k \in Entries : time[q][k] \in Int
      /\ \A r \in Requesters : cur[r] \in Int /\ cur[r] <= now
      /\ \A r \in Requesters, q \in Paths : chosen[r][q].at \in Int /\ chosen[r][q].at <= now
      /\ MinInterval \in Nat
  <2>1. TypeOK /\ ChosenOK /\ CurOK
    OBVIOUS
  <2> HIDE DEF CareInv
  <2> QED
    BY <2>1, Numbers DEF ChosenOK, CurOK
<1>4. \A r \in Requesters, q \in Paths :
        chosen'[r][q].at = IF r = p /\ q = q0 THEN now ELSE chosen[r][q].at
  BY <1>0, <1>2
<1>5. \A r \in Requesters, q \in Paths : chosen'[r][q].at >= chosen[r][q].at /\ chosen'[r][q].at \in Int
  BY <1>3, <1>4
<1>6. CurOK'
  BY <1>2 DEF CurOK
<1>7. ChosenOK'
  <2> SUFFICES ASSUME NEW r \in Requesters, NEW q \in Paths
               PROVE  /\ synced[q] >= chosen'[r][q].at \/ (q \in tosend'[r] /\ pc'[r] # "return")
                      /\ chosen'[r][q].at <= now /\ synced[q] <= now
    BY <1>2 DEF ChosenOK
  <2>1. /\ q \in tosend[r] => q \in tosend'[r]
        /\ r = p => pc'[r] # "return"
        /\ r # p => pc'[r] = pc[r]
        /\ r = p /\ q = q0 => q \in tosend'[r]
    BY <1>0, <1>2
  <2>2. /\ synced[q] >= chosen[r][q].at \/ (q \in tosend[r] /\ pc[r] # "return")
        /\ chosen[r][q].at <= now /\ synced[q] <= now
    BY DEF ChosenOK
  <2> QED
    BY <1>3, <1>4, <2>1, <2>2
<1>8. TimesOK'
  <2> SUFFICES ASSUME NEW q \in Paths, NEW k \in Entries, time'[q][k] # Never
               PROVE  \E r \in Requesters : chosen'[r][q].at >= time'[q][k]
    BY DEF TimesOK
  <2>1. time'[q][k] = IF q = q0 /\ k = k0 THEN now ELSE time[q][k]
    BY <1>0, <1>2
  <2>2. CASE q = q0 /\ k = k0
    BY <1>3, <1>4, <2>1, <2>2
  <2>3. CASE ~ (q = q0 /\ k = k0)
    <3>1. PICK r \in Requesters : chosen[r][q].at >= time[q][k]
      BY <2>1, <2>3 DEF TimesOK
    <3> QED
      BY <1>3, <1>5, <2>1, <2>3, <3>1
  <2> QED
    BY <2>2, <2>3
<1>9. AskedOK'
  <2> SUFFICES ASSUME NEW s \in Requesters, pc'[s] # "idle", NEW q \in asked'[s]
               PROVE  \/ pc'[s] \in {"check", "set"} /\ \E k \in Entries : <<q, k>> \in found'[s]
                      \/ pc'[s] = "set" /\ \E k \in Entries : due'[s] = <<q, k>>
                      \/ \E r \in Requesters : chosen'[r][q].at >= cur'[s] - MinInterval
    BY DEF AskedOK
  <2>1. q \in Paths /\ q \in asked[s] /\ pc[s] # "idle" /\ found'[s] = found[s] /\ cur'[s] = cur[s]
    BY <1>0, <1>2
  <2>2. /\ s # p => pc'[s] = pc[s] /\ due'[s] = due[s]
        /\ s = p => pc'[s] = "check"
    BY <1>0, <1>2
  <2>3. CASE \E r \in Requesters : chosen[r][q].at >= cur[s] - MinInterval
    BY <1>3, <1>5, <2>1, <2>3
  <2>4. CASE pc[s] \in {"check", "set"} /\ \E k \in Entries : <<q, k>> \in found[s]
    BY <2>1, <2>2, <2>4
  <2>5. CASE pc[s] = "set" /\ \E k \in Entries : due[s] = <<q, k>>
    <3>1. CASE s = p
      <4>1. q = q0
        BY <1>1, <2>5, <3>1
      <4> QED
        BY <1>3, <1>4, <2>1, <3>1, <4>1
    <3>2. CASE s # p
      BY <2>2, <2>5, <3>2
    <3> QED
      BY <3>1, <3>2
  <2> QED
    BY <2>1, <2>3, <2>4, <2>5 DEF AskedOK
<1> QED
  BY <1>6, <1>7, <1>8, <1>9

LEMMA CareStep == CareInv /\ [Next]_vars => CareInv'
<1> SUFFICES ASSUME CareInv, [Next]_vars PROVE CareInv'
  OBVIOUS
<1>1. TypeOK /\ DueOK
  BY DEF CareInv
<1>2. now \in Int
  BY <1>1 DEF TypeOK
<1>3. CASE Registers
  <2>1. TypeOK' /\ UNCHANGED <<now, time, execVars, chosen, synced>>
    BY <1>1, <1>3, RegistersType
  <2> QED
    BY <1>2, <2>1, CareFrame
<1>4. CASE Tick
  <2>1. TypeOK' /\ now' >= now
    BY <1>1, <1>4, SyncAssumption DEF SyncAssumption, Tick, TypeOK, registry, unregVars, pathVars, execVars
  <2> QED
    BY <1>4, <2>1, CareFrame DEF Tick
<1>5. CASE UNCHANGED vars
  <2>1. TypeOK'
    BY <1>1, <1>5 DEF TypeOK, vars, registry, unregVars, pathVars, execVars
  <2> QED
    BY <1>2, <1>5, <2>1, CareFrame DEF vars
<1>6. ASSUME NEW p \in Requesters, Steps(p) PROVE CareInv'
  <2>1. TypeOK' /\ DueOK'
    BY <1>1, <1>6, StepsType
  <2>2. ASSUME NEW Q \in SUBSET Paths, Request(p, Q) PROVE CareInv'
    <3> DEFINE hits == {<<q, entry[q]>> : q \in {q \in Q : entry[q] # 0}}
    <3>1. /\ found' = [found EXCEPT ![p] = hits] /\ asked' = [asked EXCEPT ![p] = {h[1] : h \in hits}]
          /\ pc[p] = "idle" /\ pc' = [pc EXCEPT ![p] = "check"] /\ cur' = [cur EXCEPT ![p] = now]
          /\ UNCHANGED <<now, time, due, tosend, chosen, synced>>
      BY <2>2 DEF Request, registry
    <3>2. CurOK' /\ TimesOK'
      BY <1>1, <1>2, <3>1 DEF CareInv, CurOK, TimesOK, TypeOK
    <3>3. ChosenOK'
      BY <1>1, <3>1 DEF CareInv, ChosenOK, TypeOK
    <3>4. ASSUME NEW s \in Requesters, pc'[s] # "idle", NEW q \in asked'[s]
          PROVE  \/ pc'[s] \in {"check", "set"} /\ \E k \in Entries : <<q, k>> \in found'[s]
                 \/ pc'[s] = "set" /\ \E k \in Entries : due'[s] = <<q, k>>
                 \/ \E r \in Requesters : chosen'[r][q].at >= cur'[s] - MinInterval
      <4>1. CASE s = p
        <5>1. asked'[p] = {h[1] : h \in hits} /\ found'[p] = hits /\ pc'[p] = "check"
          BY <1>1, <3>1 DEF TypeOK
        <5>2. PICK h \in hits : q = h[1]
          BY <3>4, <4>1, <5>1
        <5>3. h = <<q, entry[q]>> /\ entry[q] \in Entries
          BY <1>1, <5>2 DEF TypeOK, Entries
        <5> QED
          BY <4>1, <5>1, <5>2, <5>3
      <4>2. CASE s # p
        <5>1. /\ pc'[s] = pc[s] /\ found'[s] = found[s] /\ due'[s] = due[s] /\ q \in asked[s]
              /\ cur'[s] = cur[s]
          BY <1>1, <3>1, <3>4, <4>2 DEF TypeOK
        <5> QED
          BY <3>1, <3>4, <5>1 DEF CareInv, AskedOK
      <4> QED
        BY <4>1, <4>2
    <3> QED
      BY <2>1, <3>2, <3>3, <3>4 DEF CareInv, AskedOK
  <2>3. CASE Check(p)
    BY <2>1, <2>3, CheckStep
  <2>4. CASE SetTime(p)
    BY <2>1, <2>4, SetStep
  <2>5. CASE Callback(p)
    <3>1. /\ pc[p] = "check" /\ found[p] = {} /\ pc' = [pc EXCEPT ![p] = "callback"]
          /\ UNCHANGED <<now, time, found, due, cur, asked, tosend, chosen, synced>>
      BY <2>5 DEF Callback
    <3>2. CurOK' /\ TimesOK'
      BY <3>1 DEF CareInv, CurOK, TimesOK
    <3>3. ChosenOK'
      BY <1>1, <3>1 DEF CareInv, ChosenOK, TypeOK
    <3>4. AskedOK'
      BY <1>1, <3>1 DEF CareInv, AskedOK, TypeOK
    <3> QED
      BY <2>1, <3>2, <3>3, <3>4 DEF CareInv
  <2>6. CASE Synchronized(p)
    <3>1. /\ pc[p] = "callback" /\ pc' = [pc EXCEPT ![p] = "return"]
          /\ synced' = [q \in Paths |-> IF q \in tosend[p] THEN now ELSE synced[q]]
          /\ UNCHANGED <<now, time, found, due, cur, asked, tosend, chosen>>
      BY <2>6 DEF Synchronized
    <3>2. CurOK' /\ TimesOK'
      BY <3>1 DEF CareInv, CurOK, TimesOK
    <3>3. ASSUME NEW r \in Requesters, NEW q \in Paths
          PROVE  /\ synced'[q] >= chosen[r][q].at \/ (q \in tosend[r] /\ pc'[r] # "return")
                 /\ chosen[r][q].at <= now /\ synced'[q] <= now
      <4>1. chosen[r][q].at \in Int /\ synced[q] \in Int
        BY <1>1, Numbers
      <4>2. /\ synced[q] >= chosen[r][q].at \/ (q \in tosend[r] /\ pc[r] # "return")
            /\ chosen[r][q].at <= now /\ synced[q] <= now
        BY DEF CareInv, ChosenOK
      <4>3. r # p => pc'[r] = pc[r]
        BY <1>1, <3>1 DEF TypeOK
      <4>4. synced'[q] = IF q \in tosend[p] THEN now ELSE synced[q]
        BY <3>1
      <4> QED
        BY <1>2, <4>1, <4>2, <4>3, <4>4
    <3>4. ChosenOK'
      BY <3>1, <3>3 DEF ChosenOK
    <3>5. AskedOK'
      BY <1>1, <3>1 DEF CareInv, AskedOK, TypeOK
    <3> QED
      BY <2>1, <3>2, <3>4, <3>5 DEF CareInv
  <2>7. CASE Return(p)
    <3>1. /\ pc[p] = "return" /\ pc' = [pc EXCEPT ![p] = "idle"]
          /\ tosend' = [tosend EXCEPT ![p] = {}] /\ asked' = [asked EXCEPT ![p] = {}]
          /\ UNCHANGED <<now, time, found, due, cur, chosen, synced>>
      BY <2>7 DEF Return
    <3>2. CurOK' /\ TimesOK'
      BY <3>1 DEF CareInv, CurOK, TimesOK
    <3>3. ChosenOK'
      BY <1>1, <3>1 DEF CareInv, ChosenOK, TypeOK
    <3>4. AskedOK'
      BY <1>1, <3>1 DEF CareInv, AskedOK, TypeOK
    <3> QED
      BY <2>1, <3>2, <3>3, <3>4 DEF CareInv
  <2> QED
    BY <1>6, <2>2, <2>3, <2>4, <2>5, <2>6, <2>7 DEF Steps
<1> QED
  BY <1>3, <1>4, <1>5, <1>6, SyncCases

LEMMA CareCovers == CareInv => SynchronizedOrUnderWay
<1> SUFFICES ASSUME CareInv, NEW p \in Requesters, pc[p] \in {"callback", "return"},
                    NEW q \in asked[p]
             PROVE  \E r \in Requesters : CaredForBy(r, p, q)
  BY DEF SynchronizedOrUnderWay
<1>1. PICK r \in Requesters : chosen[r][q].at >= cur[p] - MinInterval
  BY DEF CareInv, AskedOK
<1>2. q \in Paths
  BY DEF CareInv, TypeOK
<1> QED
  BY <1>1, <1>2 DEF CareInv, ChosenOK, CaredForBy

\* The variables keep their types.
THEOREM TypeCorrect == Spec => []TypeOK
<1>1. CareInv => TypeOK
  BY DEF CareInv
<1> QED
  BY <1>1, CareInit, CareStep, PTL DEF Spec

\* A path that a requester was asked for and filtered by the interval is in the
\* care of one that chose it, although the time of an entry is read and set by
\* several requesters without a lock, while entries are replaced.  (syncExec)
THEOREM NobodyForgotten == Spec => []SynchronizedOrUnderWay
<1> QED
  BY CareInit, CareStep, CareCovers, PTL DEF Spec

-----------------------------------------------------------------------------
(* How soon a path is chosen again.                                         *)

\* The time in an entry is not before that of any choice made from it.
TimesNew ==
    \A q \in Paths, k \in Entries :
        /\ time[q][k] <= now
        /\ \A r \in Requesters : chosen[r][q].from = k => chosen[r][q].at <= time[q][k]

\* The entry in hand is no longer among those left to look at.
InHandOK ==
    \A p \in Requesters : due[p] \in Refs => pc[p] = "set" /\ due[p] \notin found[p]

\* What a requester still has to look at it did not choose since it began.
OnceOK ==
    \A p \in Requesters, q \in Paths, k \in Entries :
        (<<q, k>> \in found[p] \/ due[p] = <<q, k>>) /\ chosen[p][q].from = k
            => chosen[p][q].at <= cur[p]

\* r's choice of q is old enough for p to choose q again, or r raced with p.
OldOrRaced(p, r, q) ==
    \/ now - chosen[r][q].at > MinInterval
    \/ r # p /\ chosen[r][q].at >= cur[p]

\* An entry found due had been chosen long ago, or by others since.
DueOld ==
    \A p, r \in Requesters, q \in Paths, k \in Entries :
        due[p] = <<q, k>> /\ chosen[r][q].from = k => OldOrRaced(p, r, q)

IntervalInv == CareInv /\ TimesNew /\ InHandOK /\ OnceOK /\ DueOld

LEMMA NoneApart == None \notin Refs
  BY DEF None, Refs

LEMMA IntervalInit == Init => IntervalInv
<1> SUFFICES ASSUME Init PROVE IntervalInv
  OBVIOUS
<1>1. CareInv
  BY CareInit
<1>2. TimesNew
  BY SyncAssumption DEF SyncAssumption, Init, TimesNew, Never, Entries
<1>3. InHandOK
  BY NoneApart DEF Init, InHandOK
<1>4. \A r \in Requesters, q \in Paths, k \in Entries : chosen[r][q].from # k
  BY DEF Init, Entries
<1>5. OnceOK /\ DueOld
  BY <1>4 DEF OnceOK, DueOld
<1> QED
  BY <1>1, <1>2, <1>3, <1>5 DEF IntervalInv

\* As the clock goes on and the paths change, choices get older.
LEMMA IntervalFrame ==
  ASSUME IntervalInv, CareInv', UNCHANGED <<time, execVars, chosen>>, now' >= now
  PROVE  IntervalInv'
<1> USE DEF IntervalInv, execVars
<1>1. TypeOK /\ TypeOK'
  BY DEF CareInv
<1>2. now \in Int /\ now' \in Int
  BY <1>1 DEF TypeOK
<1>3. TimesNew'
  BY <1>1, <1>2, Numbers DEF TimesNew
<1>4. InHandOK' /\ OnceOK'
  BY DEF InHandOK, OnceOK
<1>5. DueOld'
  <2> SUFFICES ASSUME NEW p \in Requesters, NEW r \in Requesters, NEW q \in Paths, NEW k \in Entries,
                      due[p] = <<q, k>>, chosen[r][q].from = k
               PROVE  now' - chosen[r][q].at > MinInterval \/ (r # p /\ chosen[r][q].at >= cur[p])
    BY DEF DueOld, OldOrRaced
  <2>1. now - chosen[r][q].at > MinInterval \/ (r # p /\ chosen[r][q].at >= cur[p])
    BY DEF DueOld, OldOrRaced
  <2> QED
    BY <1>1, <1>2, <2>1, Numbers
<1> QED
  BY <1>3, <1>4, <1>5

\* What is due is old: its time is before cur[p] by more than the interval, and so
\* is every choice from it, or its time was set later than that after p began.
LEMMA IntervalCheck ==
  ASSUME IntervalInv, CareInv', NEW p \in Requesters, Check(p)
  PROVE  IntervalInv'
<1> USE DEF IntervalInv, registry
<1>1. PICK ref \in found[p] :
        /\ found' = [found EXCEPT ![p] = @ \ {ref}]
        /\ IF Due(p, ref)
           THEN /\ due' = [due EXCEPT ![p] = ref]
                /\ pc' = [pc EXCEPT ![p] = "set"]
           ELSE UNCHANGED <<due, pc>>
  BY DEF Check
<1>2. pc[p] = "check" /\ UNCHANGED <<now, time, cur, chosen>>
  BY DEF Check
<1>3. TypeOK
  BY DEF CareInv
<1>4. PICK q0 \in Paths, k0 \in Entries : ref = <<q0, k0>>
  BY <1>3 DEF TypeOK, Refs
<1>5. /\ \A s \in Requesters : found'[s] = IF s = p THEN found[p] \ {ref} ELSE found[s]
      /\ \A s \in Requesters : s # p => due'[s] = due[s] /\ pc'[s] = pc[s]
      /\ Due(p, ref) => due'[p] = ref /\ pc'[p] = "set"
      /\ ~ Due(p, ref) => due'[p] = due[p] /\ pc'[p] = pc[p]
  BY <1>1, <1>3 DEF TypeOK
<1>6. due[p] \notin Refs
  BY <1>2 DEF InHandOK
<1>7. TimesNew'
  BY <1>2 DEF TimesNew
<1>8. InHandOK'
  BY <1>5, <1>6 DEF InHandOK
<1>9. OnceOK'
  <2> SUFFICES ASSUME NEW s \in Requesters, NEW q \in Paths, NEW k \in Entries,
                      <<q, k>> \in found'[s] \/ due'[s] = <<q, k>>, chosen[s][q].from = k
               PROVE  chosen[s][q].at <= cur[s]
    BY <1>2 DEF OnceOK
  <2>1. <<q, k>> \in found[s] \/ due[s] = <<q, k>>
    BY <1>1, <1>5
  <2> QED
    BY <2>1 DEF OnceOK
<1>10. DueOld'
  <2> SUFFICES ASSUME NEW s \in Requesters, NEW r \in Requesters, NEW q \in Paths, NEW k \in Entries,
                      due'[s] = <<q, k>>, chosen[r][q].from = k
               PROVE  now - chosen[r][q].at > MinInterval \/ (r # s /\ chosen[r][q].at >= cur[s])
    BY <1>2 DEF DueOld, OldOrRaced
  <2>1. CASE due[s] = <<q, k>>
    BY <2>1 DEF DueOld, OldOrRaced
  <2>2. CASE due[s] # <<q, k>>
    <3>1. s = p /\ Due(p, ref) /\ q = q0 /\ k = k0
      BY <1>4, <1>5, <2>2
    <3>2. chosen[r][q].at <= time[q][k] /\ time[q][k] <= now
      BY DEF TimesNew
    <3>3. r = p => chosen[r][q].at <= cur[p]
      BY <1>4, <3>1 DEF OnceOK
    <3>4. cur[p] - time[q][k] > MinInterval \/ cur[p] - time[q][k] < -MinInterval
      BY <1>4, <3>1 DEF Due
    <3>5. cur[p] <= now
      BY DEF CareInv, CurOK
    <3> QED
      BY <1>3, <3>1, <3>2, <3>3, <3>4, <3>5, Numbers
  <2> QED
    BY <2>1, <2>2
<1> QED
  BY <1>7, <1>8, <1>9, <1>10

\* A choice raced with all who have the entry in hand.
LEMMA IntervalSet ==
  ASSUME IntervalInv, CareInv', NEW p \in Requesters, SetTime(p)
  PROVE  IntervalInv'
<1> USE DEF IntervalInv, registry
<1>1. TypeOK /\ CurOK
  BY DEF CareInv
<1>2. PICK q0 \in Paths, k0 \in Entries : due[p] = <<q0, k0>>
  BY DEF SetTime, CareInv, DueOK, Refs
<1>3. /\ time' = [time EXCEPT ![q0][k0] = now]
      /\ chosen' = [chosen EXCEPT ![p][q0] = [at |-> now, from |-> k0]]
      /\ due' = [due EXCEPT ![p] = None]
      /\ pc[p] = "set" /\ pc' = [pc EXCEPT ![p] = "check"]
      /\ UNCHANGED <<now, found, cur>>
  BY <1>2 DEF SetTime
<1>4. \A q \in Paths, k \in Entries :
        time'[q][k] = IF q = q0 /\ k = k0 THEN now ELSE time[q][k]
  BY <1>1, <1>3 DEF TypeOK
<1>5. \A r \in Requesters, q \in Paths :
        chosen'[r][q] = IF r = p /\ q = q0 THEN [at |-> now, from |-> k0] ELSE chosen[r][q]
  BY <1>1, <1>3 DEF TypeOK
<1>6. /\ due'[p] = None
      /\ \A s \in Requesters : s # p => due'[s] = due[s] /\ pc'[s] = pc[s]
  BY <1>1, <1>3 DEF TypeOK
<1>7. \A s \in Requesters, q \in Paths, k \in Entries :
        due'[s] = <<q, k>> => s # p /\ due[s] = <<q, k>>
  BY <1>6, NoneApart DEF Refs
<1>8. TimesNew'
  <2> SUFFICES ASSUME NEW q \in Paths, NEW k \in Entries
               PROVE  /\ time'[q][k] <= now
                      /\ \A r \in Requesters : chosen'[r][q].from = k => chosen'[r][q].at <= time'[q][k]
    BY <1>3 DEF TimesNew
  <2>1. /\ time[q][k] <= now
        /\ \A r \in Requesters : chosen[r][q].from = k => chosen[r][q].at <= time[q][k]
    BY DEF TimesNew
  <2>2. time'[q][k] <= now /\ time[q][k] <= time'[q][k]
    BY <1>1, <1>4, <2>1, Numbers
  <2>3. ASSUME NEW r \in Requesters, chosen'[r][q].from = k
        PROVE  chosen'[r][q].at <= time'[q][k]
    <3>1. CASE r = p /\ q = q0
      <4>1. k = k0 /\ chosen'[r][q].at = now /\ time'[q][k] = now
        BY <1>4, <1>5, <2>3, <3>1
      <4> QED
        BY <1>1, <4>1, Numbers
    <3>2. CASE ~ (r = p /\ q = q0)
      <4>1. chosen'[r][q] = chosen[r][q] /\ chosen[r][q].at <= time[q][k]
        BY <1>5, <2>1, <2>3, <3>2
      <4>2. time'[q][k] \in Int
        BY <1>1, <1>4, Numbers
      <4> QED
        BY <1>1, <2>2, <4>1, <4>2, Numbers
    <3> QED
      BY <3>1, <3>2
  <2> QED
    BY <2>2, <2>3
<1>9. InHandOK'
  BY <1>3, <1>6, NoneApart DEF InHandOK
<1>10. OnceOK'
  <2> SUFFICES ASSUME NEW s \in Requesters, NEW q \in Paths, NEW k \in Entries,
                      <<q, k>> \in found[s] \/ due'[s] = <<q, k>>, chosen'[s][q].from = k
               PROVE  chosen'[s][q].at <= cur[s]
    BY <1>3 DEF OnceOK
  <2>1. due'[s] = <<q, k>> => due[s] = <<q, k>>
    BY <1>7
  <2>2. CASE s = p /\ q = q0
    <3>1. k = k0 /\ <<q, k>> \in found[p]
      BY <1>5, <1>7, <2>2
    <3>2. due[p] \notin found[p]
      BY <1>2 DEF InHandOK, Refs
    <3> QED
      BY <1>2, <2>2, <3>1, <3>2
  <2>3. CASE ~ (s = p /\ q = q0)
    BY <1>5, <2>1, <2>3 DEF OnceOK
  <2> QED
    BY <2>2, <2>3
<1>11. DueOld'
  <2> SUFFICES ASSUME NEW s \in Requesters, NEW r \in Requesters, NEW q \in Paths, NEW k \in Entries,
                      due'[s] = <<q, k>>, chosen'[r][q].from = k
               PROVE  now - chosen'[r][q].at > MinInterval \/ (r # s /\ chosen'[r][q].at >= cur[s])
    BY <1>3 DEF DueOld, OldOrRaced
  <2>1. s # p /\ due[s] = <<q, k>>
    BY <1>7
  <2>2. CASE r = p /\ q = q0
    BY <1>1, <1>5, <2>1, <2>2 DEF CurOK
  <2>3. CASE ~ (r = p /\ q = q0)
    BY <1>5, <2>1, <2>3 DEF DueOld, OldOrRaced
  <2> QED
    BY <2>2, <2>3
<1> QED
  BY <1>8, <1>9, <1>10, <1>11

\* A request begins after all choices made so far.
LEMMA IntervalRequest ==
  ASSUME IntervalInv, CareInv', NEW p \in Requesters, NEW Q \in SUBSET Paths, Request(p, Q)
  PROVE  IntervalInv'
<1> USE DEF IntervalInv, registry
<1>1. /\ cur' = [cur EXCEPT ![p] = now]
      /\ pc[p] = "idle" /\ pc' = [pc EXCEPT ![p] = "check"]
      /\ UNCHANGED <<now, time, due, chosen>>
      /\ \A s \in Requesters : s # p => found'[s] = found[s]
  BY DEF Request, CareInv, TypeOK
<1>2. TypeOK
  BY DEF CareInv
<1>3. due[p] \notin Refs
  BY <1>1 DEF InHandOK
<1>4. \A s \in Requesters, q \in Paths, k \in Entries : due[s] = <<q, k>> => s # p
  BY <1>3 DEF Refs
<1>5. /\ cur'[p] = now
      /\ \A s \in Requesters : s # p => cur'[s] = cur[s] /\ pc'[s] = pc[s]
  BY <1>1, <1>2 DEF TypeOK
<1>6. TimesNew'
  BY <1>1 DEF TimesNew
<1>7. InHandOK'
  BY <1>1, <1>3, <1>5 DEF InHandOK
<1>8. OnceOK'
  <2> SUFFICES ASSUME NEW s \in Requesters, NEW q \in Paths, NEW k \in Entries,
                      <<q, k>> \in found'[s] \/ due[s] = <<q, k>>, chosen[s][q].from = k
               PROVE  chosen[s][q].at <= cur'[s]
    BY <1>1 DEF OnceOK
  <2>1. CASE s = p
    BY <1>5, <2>1 DEF CareInv, ChosenOK
  <2>2. CASE s # p
    BY <1>1, <1>5, <2>2 DEF OnceOK
  <2> QED
    BY <2>1, <2>2
<1>9. DueOld'
  BY <1>1, <1>4, <1>5 DEF DueOld, OldOrRaced
<1> QED
  BY <1>6, <1>7, <1>8, <1>9

LEMMA IntervalStep == IntervalInv /\ [Next]_vars => IntervalInv'
<1> SUFFICES ASSUME IntervalInv, [Next]_vars PROVE IntervalInv'
  OBVIOUS
<1>1. CareInv /\ CareInv' /\ TypeOK
  BY CareStep DEF IntervalInv, CareInv
<1>2. now \in Int
  BY <1>1 DEF TypeOK
<1>3. CASE Registers
  <2>1. UNCHANGED <<now, time, execVars, chosen>>
    BY <1>1, <1>3, RegistersType
  <2> QED
    BY <1>1, <1>2, <2>1, IntervalFrame
<1>4. CASE Tick
  BY <1>1, <1>2, <1>4, IntervalFrame DEF Tick
<1>5. CASE UNCHANGED vars
  BY <1>1, <1>2, <1>5, IntervalFrame DEF vars
<1>6. ASSUME NEW p \in Requesters, Steps(p) PROVE IntervalInv'
  <2>1. ASSUME NEW Q \in SUBSET Paths, Request(p, Q) PROVE IntervalInv'
    BY <1>1, <2>1, IntervalRequest
  <2>2. CASE Check(p)
    BY <1>1, <2>2, IntervalCheck
  <2>3. CASE SetTime(p)
    BY <1>1, <2>3, IntervalSet
  <2>4. CASE Callback(p) \/ Synchronized(p) \/ Return(p)
    <3>1. /\ UNCHANGED <<now, time, found, due, cur, chosen>>
          /\ pc[p] # "set" /\ \A s \in Requesters : s # p => pc'[s] = pc[s]
      BY <1>1, <2>4 DEF Callback, Synchronized, Return, TypeOK
    <3>2. TimesNew' /\ OnceOK' /\ DueOld'
      BY <3>1 DEF IntervalInv, TimesNew, OnceOK, DueOld, OldOrRaced
    <3>3. InHandOK'
      BY <3>1 DEF IntervalInv, InHandOK
    <3> QED
      BY <1>1, <3>2, <3>3 DEF IntervalInv
  <2> QED
    BY <1>6, <2>1, <2>2, <2>3, <2>4 DEF Steps
<1> QED
  BY <1>3, <1>4, <1>5, <1>6, SyncCases

\* A path that keeps its entry is chosen again within the interval only by a
\* requester that began before the other one had set the time: the race between
\* the check and the setting of the time is the only way to ask the application
\* too soon.  (syncExec)
THEOREM IntervalKept == Spec => IntervalUnlessRace
<1>1. ASSUME IntervalInv, NEW p \in Requesters, NEW r \in Requesters, NEW q \in Paths,
             NEW k \in Entries, Chooses(p, q, k), chosen[r][q].from = k
      PROVE  \/ now - chosen[r][q].at > MinInterval
             \/ r # p /\ chosen[r][q].at >= cur[p]
  BY <1>1 DEF IntervalInv, Chooses, DueOld, OldOrRaced
<1>2. IntervalInv => [\A p, r \in Requesters, q \in Paths, k \in Entries :
                        Chooses(p, q, k) /\ chosen[r][q].from = k =>
                           \/ now - chosen[r][q].at > MinInterval
                           \/ r # p /\ chosen[r][q].at >= cur[p]]_vars
  BY <1>1
<1> QED
  BY <1>2, IntervalInit, IntervalStep, PTL DEF Spec, IntervalUnlessRace
=============================================================================
