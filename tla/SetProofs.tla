----------------------------- MODULE SetProofs -----------------------------
(***************************************************************************)
(* What a failed Set RPC or Load leaves behind, for all trees, requests    *)
(* and set-ups of the server.                                              *)
(***************************************************************************)
EXTENDS SetTransaction, FiniteSetTheorems, WellFoundedInduction, TLAPS

\* No two entries cover l.
Alone(l) == \A i, j \in Touches(l) : i = j

\* What phase says of the variables of set(); every entry is executed, or none.
PhaseOK ==
    /\ phase \in {"nodes", "load"} => todo # <<>>
    /\ \A i \in DOMAIN backup : backup[i].executed = server.callback

\* The first entry that covers a leaf keeps what the tree had there.
FirstOK(l) ==
    \A i \in Touches(l) :
        (\A j \in Touches(l) : i <= j) => backup[i].cur[l] = before.root[l]

\* A leaf that no entry covers is as it was.
RestOK(l) == Touches(l) = {} => root[l] = before.root[l] /\ app[l] = before.app[l]

\* What the rollback and the revert of the entries so far have brought back.
RolledBack(l) == app[l] \in {before.app[l], before.root[l]}
BackOK(l) ==
    /\ phase = "rollback" /\ server.transaction /\ ~ refused =>
         \A i \in Touches(l) : i < pos => RolledBack(l)
    /\ phase = "done" /\ err /\ server.transaction /\ ~ refused => RolledBack(l)
    /\ phase = "done" /\ Reverts => \A i \in Touches(l) : i < pos => root[l] = before.root[l]

LeafOK(l) == FirstOK(l) /\ RestOK(l) /\ (Alone(l) => BackOK(l))

\* Without a callback the application never changes.
SilentOK == ~ server.callback => app = before.app

\* Nothing is said of the backup between requests.
LeavesOK == phase # "idle" => SilentOK /\ \A l \in Leaves : LeafOK(l)

SetInv == TypeOK /\ PhaseOK /\ LeavesOK

-----------------------------------------------------------------------------
(* Trees and requests. *)

LEMMA GraftType ==
    ASSUME NEW t \in Trees, NEW n, NEW from \in Trees
    PROVE  Graft(t, n, from) \in Trees
BY DEF Graft, Trees, Atomic!Trees

LEMMA NodeResultType ==
    ASSUME NEW op \in Atomic!Operations, NEW n, root \in Trees
    PROVE  /\ NodeResult(op, n) \in Trees
           /\ \A l \in Leaves : l \notin Cover[n] => NodeResult(op, n)[l] = root[l]
<1> DEFINE kept == IF op.kind = "update" THEN root ELSE [l \in Leaves |-> Absent]
           from == [l \in Leaves |->
                      IF op.kind # "delete" /\ l \in op.leaves THEN op.val ELSE kept[l]]
<1>1. kept \in Trees
  BY DEF Trees, Atomic!Trees
<1>2. op.val \in Vals
  BY DEF Atomic!Operations
<1>3. from \in Trees
  BY <1>1, <1>2 DEF Trees, Atomic!Trees
<1>4. NodeResult(op, n) = Graft(root, n, from)
  BY DEF NodeResult
<1> QED
  BY <1>3, <1>4, GraftType DEF Graft

LEMMA OperationType ==
    ASSUME NEW req \in Seq(Atomic!Operations), req # <<>>
    PROVE  Head(req) \in Atomic!Operations /\ Tail(req) \in Seq(Atomic!Operations)
OBVIOUS

LEMMA TargetsType ==
    ASSUME NEW op \in Atomic!Operations, NEW t
    PROVE  Atomic!Targets(t, op) \subseteq Nodes
BY DEF Atomic!Targets, Atomic!Operations

LEMMA RequestType == Requests \subseteq Seq(Atomic!Operations)
BY SetAssumption DEF SetAssumption

\* A new entry at the end of the backup.
LEMMA BackupType ==
    ASSUME TypeOK, NEW n \in Nodes, NEW new \in Trees, Backup(n, new)
    PROVE  /\ backup' \in Seq(Entries)
           /\ Len(backup') = Len(backup) + 1
           /\ \A i \in DOMAIN backup : backup'[i] = backup[i]
           /\ backup'[Len(backup')] =
                [node |-> n, cur |-> root, new |-> new, executed |-> server.callback]
<1> DEFINE e == [node |-> n, cur |-> root, new |-> new, executed |-> server.callback]
<1>1. e \in Entries
  BY DEF TypeOK, Entries, Servers
<1>2. backup \in Seq(Entries) /\ backup' = Append(backup, e)
  BY DEF TypeOK, Backup
<1> HIDE DEF e
<1>3. /\ backup' \in Seq(Entries)
      /\ Len(backup') = Len(backup) + 1
      /\ \A i \in DOMAIN backup : backup'[i] = backup[i]
      /\ backup'[Len(backup')] = e
  BY <1>1, <1>2
<1> QED
  BY <1>3 DEF e

LEMMA NextCases ==
    ASSUME NEW G, [Next]_vars, UNCHANGED vars => G,
           \A req \in Requests : StartSet(req) \/ StartLoad(req) => G,
           NextOperation \/ OperationDone \/ NothingToWrite \/ NodeFails => G,
           \A n \in Nodes : NodeAccepted(n) \/ NodeRefused(n) => G,
           LoadAccepted \/ LoadRefused \/ LoadFails => G,
           End \/ RollbackEntry \/ RollbackDone \/ RevertEntry \/ Done => G
    PROVE  G
BY DEF Next

-----------------------------------------------------------------------------
(* Types. *)

LEMMA NoRequest == <<>> \in Seq(Atomic!Operations)
OBVIOUS

LEMMA TypeInit == Init => TypeOK
<1> SUFFICES ASSUME Init
             PROVE  TypeOK
  OBVIOUS
<1>1. sets \in 0 .. MaxSets /\ server \in Servers
  BY SetAssumption DEF SetAssumption, Init
<1>2. todo \in Seq(Atomic!Operations) /\ request \in Seq(Atomic!Operations)
  BY NoRequest DEF Init
<1>3. backup \in Seq(Entries)
  BY DEF Init
<1>4. err \in BOOLEAN /\ refused \in BOOLEAN /\ root \in Trees /\ app \in Trees
  BY DEF Init
<1>5. before \in [root : Trees, app : Trees, err : BOOLEAN]
  BY <1>4 DEF Init
<1> QED
  BY <1>1, <1>2, <1>3, <1>4, <1>5 DEF Init, TypeOK

LEMMA TypeStart ==
    ASSUME TypeOK, NEW req \in Requests, StartSet(req) \/ StartLoad(req)
    PROVE  TypeOK'
<1>1. PICK to \in {"next", "load"} : Start(req, to)
  BY DEF StartSet, StartLoad
<1>2. req \in Seq(Atomic!Operations) /\ MaxSets \in Nat
  BY RequestType, SetAssumption DEF SetAssumption
<1>3. before' \in [root : Trees, app : Trees, err : BOOLEAN]
  BY <1>1 DEF Start, TypeOK
<1>4. backup' \in Seq(Entries)
  BY <1>1 DEF Start
<1>5. todo' \in Seq(Atomic!Operations)
  BY <1>1, <1>2, NoRequest DEF Start
<1>7. err' \in BOOLEAN /\ refused' \in BOOLEAN
  BY <1>1 DEF Start
<1>8. phase' \in {"next", "load", "end"}
  BY <1>1 DEF Start
<1>6. sets' \in 0 .. MaxSets
  BY <1>1, <1>2 DEF Start, TypeOK
<1> QED
  BY <1>1, <1>2, <1>3, <1>4, <1>5, <1>6, <1>7, <1>8 DEF Start, TypeOK

LEMMA TypeAbort ==
    ASSUME Abort
    PROVE  /\ todo' \in Seq(Atomic!Operations) /\ left' \subseteq Nodes
           /\ err' \in BOOLEAN /\ phase' = "end"
BY NoRequest DEF Abort

\* The steps that find the nodes of an operation or end it.
LEMMA TypeOperation ==
    ASSUME TypeOK, NextOperation \/ OperationDone \/ NothingToWrite \/ NodeFails, PhaseOK
    PROVE  TypeOK'
<1>1. CASE NextOperation
  BY <1>1, OperationType, TargetsType DEF NextOperation, TypeOK
<1>2. CASE OperationDone
  BY <1>2, OperationType DEF OperationDone, PhaseOK, TypeOK
<1>3. CASE NothingToWrite \/ NodeFails
  BY <1>3, TypeAbort DEF NothingToWrite, NodeFails, TypeOK
<1> QED
  BY <1>1, <1>2, <1>3

\* The steps that change one node.
LEMMA TypeNode ==
    ASSUME TypeOK, PhaseOK, NEW n \in Nodes, NodeAccepted(n) \/ NodeRefused(n)
    PROVE  TypeOK'
<1> DEFINE new == NodeResult(Head(todo), n)
<1>1. new \in Trees
  BY OperationType, NodeResultType DEF NodeAccepted, NodeRefused, PhaseOK, TypeOK
<1>2. Backup(n, new) /\ root' = new
  BY DEF NodeAccepted, NodeRefused
<1>3. backup' \in Seq(Entries)
  BY <1>1, <1>2, BackupType
<1>4. app' \in {app, Graft(app, n, new)}
  BY DEF NodeAccepted, NodeRefused
<1>5. app' \in Trees
  BY <1>1, <1>4, GraftType DEF TypeOK
<1> HIDE DEF new
<1>6. CASE NodeAccepted(n)
  BY <1>1, <1>2, <1>3, <1>5, <1>6 DEF NodeAccepted, TypeOK
<1>7. CASE NodeRefused(n)
  BY <1>1, <1>2, <1>3, <1>5, <1>7, TypeAbort DEF NodeRefused, TypeOK
<1> QED
  BY <1>6, <1>7

LEMMA TypeLoad ==
    ASSUME TypeOK, PhaseOK, LoadAccepted \/ LoadRefused \/ LoadFails
    PROVE  TypeOK'
<1>1. CASE LoadFails
  BY <1>1 DEF LoadFails, Abort, TypeOK
<1>2. CASE LoadAccepted \/ LoadRefused
  <2> DEFINE new == NodeResult(Head(todo), Root)
  <2>1. new \in Trees
    BY <1>2, OperationType, NodeResultType DEF LoadAccepted, LoadRefused, PhaseOK, TypeOK
  <2>2. Backup(Root, new) /\ Root \in Nodes
    BY <1>2, SetAssumption DEF LoadAccepted, LoadRefused, SetAssumption
  <2>3. backup' \in Seq(Entries)
    BY <2>1, <2>2, BackupType
  <2>4. root' \in {root, new} /\ app' \in {app, new}
    BY <1>2 DEF LoadAccepted, LoadRefused
  <2> HIDE DEF new
  <2>5. CASE LoadAccepted
    BY <2>1, <2>3, <2>4, <2>5, NoRequest DEF LoadAccepted, TypeOK
  <2>6. CASE LoadRefused
    BY <2>1, <2>3, <2>4, <2>6, TypeAbort DEF LoadRefused, TypeOK
  <2> QED
    BY <1>2, <2>5, <2>6
<1> QED
  BY <1>1, <1>2

\* An entry of the backup, for the rollback and the revert.
LEMMA EntryType ==
    ASSUME TypeOK, NEW i \in DOMAIN backup
    PROVE  backup[i] \in Entries /\ backup[i].cur \in Trees /\ backup[i].node \in Nodes
<1>1. backup[i] \in Entries
  BY DEF TypeOK
<1> QED
  BY <1>1 DEF Entries

LEMMA PosType ==
    ASSUME TypeOK, pos <= Len(backup)
    PROVE  pos \in DOMAIN backup
BY DEF TypeOK

LEMMA TypeEnd ==
    ASSUME TypeOK, End \/ RollbackEntry \/ RollbackDone \/ RevertEntry \/ Done
    PROVE  TypeOK'
<1>1. CASE End
  <2>1. err' \in BOOLEAN
    BY <1>1 DEF End, TypeOK
  <2>2. phase' \in {"rollback", "done"}
    BY <1>1 DEF End
  <2> QED
    BY <1>1, <2>1, <2>2 DEF End, TypeOK
<1>2. CASE RollbackEntry
  <2> DEFINE e == backup[pos]
  <2>1. e.cur \in Trees
    BY <1>2, PosType, EntryType DEF RollbackEntry
  <2>2. app' \in {app, Graft(app, e.node, e.cur)} 
    BY <1>2 DEF RollbackEntry
  <2>4. refused' \in BOOLEAN
    BY <1>2 DEF RollbackEntry, TypeOK
  <2>3. app' \in Trees
    BY <2>1, <2>2, GraftType DEF TypeOK
  <2> HIDE DEF e
  <2> QED
    BY <1>2, <2>3, <2>4 DEF RollbackEntry, TypeOK
<1>3. CASE RollbackDone
  BY <1>3 DEF RollbackDone, TypeOK
<1>5. CASE Done
  <2>1. backup' \in Seq(Entries)
    BY <1>5 DEF Done
  <2> QED
    BY <1>5, <2>1 DEF Done, TypeOK
<1>4. CASE RevertEntry
  <2>1. backup[pos].cur \in Trees
    BY <1>4, PosType, EntryType DEF RevertEntry
  <2>2. root' \in Trees
    BY <1>4, <2>1, GraftType DEF RevertEntry, TypeOK
  <2> QED
    BY <1>4, <2>2 DEF RevertEntry, TypeOK
<1> QED
  BY <1>1, <1>2, <1>3, <1>4, <1>5

LEMMA TypeStep == TypeOK /\ PhaseOK /\ [Next]_vars => TypeOK'
<1> SUFFICES ASSUME TypeOK, PhaseOK, [Next]_vars
             PROVE  TypeOK'
  OBVIOUS
<1>1. UNCHANGED vars => TypeOK'
  BY DEF vars, TypeOK
<1> QED
  BY <1>1, TypeStart, TypeOperation, TypeNode, TypeLoad, TypeEnd, NextCases

-----------------------------------------------------------------------------
(* Phases, and the application without a callback. *)

LEMMA PhaseStep == TypeOK /\ PhaseOK /\ [Next]_vars => PhaseOK'
<1> SUFFICES ASSUME TypeOK, PhaseOK, [Next]_vars
             PROVE  PhaseOK'
  OBVIOUS
<1> DEFINE Waiting == phase \in {"nodes", "load"} => todo # <<>>
           Executed == \A i \in DOMAIN backup : backup[i].executed = server.callback
<1>1. UNCHANGED vars => PhaseOK'
  BY DEF vars, PhaseOK
<1>2. ASSUME NEW req \in Requests, StartSet(req) \/ StartLoad(req)
      PROVE  PhaseOK'
  <2>1. Waiting'
    BY <1>2 DEF StartSet, StartLoad, Start
  <2>2. Executed'
    BY <1>2 DEF StartSet, StartLoad, Start
  <2> QED
    BY <2>1, <2>2 DEF PhaseOK
<1>3. NextOperation \/ OperationDone \/ NothingToWrite \/ NodeFails => PhaseOK'
  BY DEF NextOperation, OperationDone, NothingToWrite, NodeFails, Abort, PhaseOK
<1>4. ASSUME NEW n \in Nodes, NEW new \in Trees, Backup(n, new), UNCHANGED server
      PROVE  Executed'
  <2>1. PICK e : e.executed = server.callback /\ backup' = Append(backup, e)
    BY <1>4 DEF Backup
  <2>2. backup \in Seq(Entries)
    BY DEF TypeOK
  <2> QED
    BY <1>4, <2>1, <2>2, BackupType DEF PhaseOK
<1>5. ASSUME NEW n \in Nodes, NodeAccepted(n) \/ NodeRefused(n)
      PROVE  PhaseOK'
  <2>1. NodeResult(Head(todo), n) \in Trees
    BY <1>5, OperationType, NodeResultType DEF NodeAccepted, NodeRefused, PhaseOK, TypeOK
  <2>2. Executed'
    BY <1>4, <1>5, <2>1 DEF NodeAccepted, NodeRefused
  <2> QED
    BY <1>5, <2>2 DEF NodeAccepted, NodeRefused, Abort, PhaseOK
<1>6. ASSUME LoadAccepted \/ LoadRefused \/ LoadFails
      PROVE  PhaseOK'
  <2>1. CASE LoadFails
    BY <2>1 DEF LoadFails, Abort, PhaseOK
  <2>2. CASE LoadAccepted \/ LoadRefused
    <3>1. NodeResult(Head(todo), Root) \in Trees /\ Root \in Nodes
      BY <2>2, OperationType, NodeResultType, SetAssumption
      DEF LoadAccepted, LoadRefused, PhaseOK, TypeOK, SetAssumption
    <3>2. Executed'
      BY <1>4, <2>2, <3>1 DEF LoadAccepted, LoadRefused
    <3> QED
      BY <2>2, <3>2 DEF LoadAccepted, LoadRefused, Abort, PhaseOK
  <2> QED
    BY <1>6, <2>1, <2>2
<1>7. ASSUME End \/ RollbackEntry \/ RollbackDone \/ RevertEntry \/ Done
      PROVE  PhaseOK'
  <2>1. UNCHANGED server /\ backup' \in {backup, <<>>}
    BY <1>7 DEF End, RollbackEntry, RollbackDone, RevertEntry, Done
  <2>2. phase' \in {"rollback", "done", "idle"}
    BY <1>7 DEF End, RollbackEntry, RollbackDone, RevertEntry, Done, AtEnd
  <2>3. Executed'
    BY <2>1 DEF PhaseOK
  <2> QED
    BY <2>2, <2>3 DEF PhaseOK
<1> QED
  BY <1>1, <1>2, <1>3, <1>5, <1>6, <1>7, NextCases

LEMMA SilentStep ==
    ASSUME TypeOK, PhaseOK, LeavesOK, [Next]_vars, phase' # "idle"
    PROVE  SilentOK'
<1>1. UNCHANGED vars => SilentOK'
  BY DEF vars, SilentOK, LeavesOK
<1>2. \A req \in Requests : StartSet(req) \/ StartLoad(req) => SilentOK'
  BY DEF StartSet, StartLoad, Start, SilentOK
<1>3. NextOperation \/ OperationDone \/ NothingToWrite \/ NodeFails => SilentOK'
  BY DEF NextOperation, OperationDone, NothingToWrite, NodeFails, SilentOK, LeavesOK
<1>4. \A n \in Nodes : NodeAccepted(n) \/ NodeRefused(n) => SilentOK'
  BY DEF NodeAccepted, NodeRefused, SilentOK, LeavesOK
<1>5. LoadAccepted \/ LoadRefused \/ LoadFails => SilentOK'
  BY DEF LoadAccepted, LoadRefused, LoadFails, SilentOK, LeavesOK
<1>6. ASSUME RollbackEntry
      PROVE  SilentOK'
  <2>1. backup[pos].executed = server.callback
    BY <1>6, PosType DEF RollbackEntry, PhaseOK
  <2> QED
    BY <1>6, <2>1 DEF RollbackEntry, SilentOK, LeavesOK
<1>7. End \/ RollbackEntry \/ RollbackDone \/ RevertEntry \/ Done => SilentOK'
  BY <1>6 DEF End, RollbackDone, RevertEntry, Done, SilentOK, LeavesOK
<1> QED
  BY <1>1, <1>2, <1>3, <1>4, <1>5, <1>7, NextCases

-----------------------------------------------------------------------------
(* The leaves, one by one. *)

LEMMA TouchesType ==
    ASSUME TypeOK, NEW l
    PROVE  /\ Touches(l) \subseteq 1 .. Len(backup)
           /\ \A i \in Touches(l) : i \in Nat /\ i \in DOMAIN backup
BY DEF Touches, TypeOK

\* The tree and the application keep what they have, and the entries too.
LEMMA LeafKept ==
    ASSUME NEW l \in Leaves, LeafOK(l), UNCHANGED <<backup, before>>,
           root'[l] = root[l], app'[l] = app[l],
           Alone(l) => BackOK(l)'
    PROVE  LeafOK(l)'
BY DEF LeafOK, FirstOK, RestOK, Alone, Touches

LEMMA NotBack ==
    ASSUME NEW l \in Leaves, phase' \notin {"rollback", "done"}
    PROVE  BackOK(l)'
BY DEF BackOK

\* A new entry covers the leaves of its node, and the others keep theirs.
LEMMA TouchesWritten ==
    ASSUME TypeOK, NEW l, NEW n \in Nodes, NEW new \in Trees, Backup(n, new),
           NEW k, k = Len(backup) + 1
    PROVE  /\ Touches(l)' = IF l \in Cover[n] THEN Touches(l) \cup {k} ELSE Touches(l)
           /\ \A i \in Touches(l) : i < k /\ backup'[i] = backup[i]
           /\ k \in Nat /\ \A i \in Touches(l)' : i \in Nat
           /\ backup'[k].node = n /\ backup'[k].cur = root
<1>0. /\ backup \in Seq(Entries) /\ backup' \in Seq(Entries)
      /\ Len(backup) \in Nat /\ Len(backup') = k
      /\ \A i \in DOMAIN backup : backup'[i] = backup[i]
      /\ backup'[k].node = n /\ backup'[k].cur = root
  <2>1. backup \in Seq(Entries) /\ Len(backup) \in Nat
    BY DEF TypeOK
  <2>2. /\ backup' \in Seq(Entries) /\ Len(backup') = k
        /\ \A i \in DOMAIN backup : backup'[i] = backup[i]
        /\ backup'[Len(backup')] =
             [node |-> n, cur |-> root, new |-> new, executed |-> server.callback]
    BY BackupType
  <2>3. backup'[k] = [node |-> n, cur |-> root, new |-> new, executed |-> server.callback]
    BY <2>2
  <2> QED
    BY <2>1, <2>2, <2>3
<1>1. /\ DOMAIN backup' = 1 .. k /\ k \in Nat
      /\ DOMAIN backup = 1 .. Len(backup)
      /\ \A i \in DOMAIN backup : backup'[i] = backup[i] /\ i \in DOMAIN backup' /\ i < k
      /\ \A i \in DOMAIN backup' : i \in DOMAIN backup \/ i = k
      /\ k \in DOMAIN backup'
      /\ backup'[k].node = n /\ backup'[k].cur = root
  BY <1>0
<1>2. Touches(l)' = IF l \in Cover[n] THEN Touches(l) \cup {k} ELSE Touches(l)
  <2>1. \A i \in Touches(l)' : i \in Touches(l) \/ (i = k /\ l \in Cover[n])
    BY <1>1 DEF Touches
  <2>2. \A i \in Touches(l) : i \in Touches(l)'
    BY <1>1 DEF Touches
  <2>3. l \in Cover[n] => k \in Touches(l)'
    BY <1>1 DEF Touches
  <2> HIDE DEF Touches
  <2> QED
    BY <2>1, <2>2, <2>3
<1>3. \A i \in Touches(l) : i < k /\ backup'[i] = backup[i]
  BY <1>1 DEF Touches
<1>4. \A i \in Touches(l)' : i \in Nat
  BY <1>1 DEF Touches
<1> QED
  BY <1>1, <1>2, <1>3, <1>4

\* A new entry, whose node may be changed in the tree and for the application.
LEMMA LeafWritten ==
    ASSUME TypeOK, NEW l \in Leaves, LeafOK(l), UNCHANGED before,
           NEW n \in Nodes, NEW new \in Trees, Backup(n, new),
           l \notin Cover[n] => root'[l] = root[l] /\ app'[l] = app[l],
           phase' \notin {"rollback", "done"}
    PROVE  LeafOK(l)'
<1> DEFINE k == Len(backup) + 1
<1>1. /\ \A i \in Touches(l) : i < k /\ backup'[i] = backup[i] /\ i \in Nat
      /\ k \in Nat /\ \A i \in Touches(l)' : i \in Nat
      /\ backup'[k].node = n /\ backup'[k].cur = root
  BY TouchesWritten, TouchesType
<1>2. Touches(l)' = IF l \in Cover[n] THEN Touches(l) \cup {k} ELSE Touches(l)
  BY TouchesWritten
<1> HIDE DEF k
<1>3. \A i \in Touches(l) : i < k
  BY <1>1
<1>4. ASSUME NEW i \in Touches(l)', \A j \in Touches(l)' : i <= j
      PROVE  backup'[i].cur[l] = before'.root[l]
  <2>1. CASE i \in Touches(l)
    <3>1. \A j \in Touches(l) : i <= j
      BY <1>2, <1>4
    <3>2. backup[i].cur[l] = before.root[l]
      BY <2>1, <3>1 DEF LeafOK, FirstOK
    <3> QED
      BY <1>1, <1>3, <2>1, <3>2
  <2>2. CASE i \notin Touches(l)
    <3>1. i = k
      BY <1>2, <1>4, <2>2
    <3>2. Touches(l) = {}
      BY <1>1, <1>2, <1>3, <1>4, <3>1
    <3> QED
      BY <1>1, <3>1, <3>2 DEF LeafOK, RestOK
  <2> QED
    BY <2>1, <2>2
<1>5. FirstOK(l)'
  BY <1>4 DEF FirstOK
<1>6. RestOK(l)'
  BY <1>2 DEF LeafOK, RestOK
<1> QED
  BY <1>5, <1>6, NotBack DEF LeafOK

LEMMA LeafStart ==
    ASSUME NEW l \in Leaves, NEW req \in Requests, StartSet(req) \/ StartLoad(req)
    PROVE  LeafOK(l)'
<1>1. PICK to \in {"next", "load"} : Start(req, to)
  BY DEF StartSet, StartLoad
<1>2. Touches(l)' = {}
  BY <1>1 DEF Start, Touches
<1>3. root' = before'.root /\ app' = before'.app
  BY <1>1 DEF Start
<1>4. phase' \notin {"rollback", "done"}
  BY <1>1 DEF Start
<1> QED
  BY <1>2, <1>3, <1>4, NotBack DEF LeafOK, FirstOK, RestOK

LEMMA LeafOperation ==
    ASSUME NEW l \in Leaves, LeafOK(l),
           NextOperation \/ OperationDone \/ NothingToWrite \/ NodeFails \/ LoadFails
    PROVE  LeafOK(l)'
<1>1. UNCHANGED <<root, app, backup, before>> /\ phase' \notin {"rollback", "done"}
  BY DEF NextOperation, OperationDone, NothingToWrite, NodeFails, LoadFails, Abort
<1> QED
  BY <1>1, LeafKept, NotBack

LEMMA LeafNode ==
    ASSUME TypeOK, PhaseOK, NEW l \in Leaves, LeafOK(l),
           NEW n \in Nodes, NodeAccepted(n) \/ NodeRefused(n)
    PROVE  LeafOK(l)'
<1> DEFINE new == NodeResult(Head(todo), n)
<1>1. new \in Trees /\ (l \notin Cover[n] => new[l] = root[l])
  BY OperationType, NodeResultType DEF NodeAccepted, NodeRefused, PhaseOK, TypeOK
<1>2. Backup(n, new) /\ root' = new /\ UNCHANGED before
  BY DEF NodeAccepted, NodeRefused
<1>3. app' \in {app, Graft(app, n, new)}
  BY DEF NodeAccepted, NodeRefused
<1>4. l \notin Cover[n] => app'[l] = app[l]
  BY <1>3 DEF Graft
<1>5. phase' \notin {"rollback", "done"}
  BY DEF NodeAccepted, NodeRefused, Abort
<1> HIDE DEF new
<1> QED
  BY <1>1, <1>2, <1>4, <1>5, LeafWritten

\* The root covers every leaf.
LEMMA LeafLoad ==
    ASSUME TypeOK, PhaseOK, NEW l \in Leaves, LeafOK(l), LoadAccepted \/ LoadRefused
    PROVE  LeafOK(l)'
<1> DEFINE new == NodeResult(Head(todo), Root)
<1>1. new \in Trees
  BY OperationType, NodeResultType DEF LoadAccepted, LoadRefused, PhaseOK, TypeOK
<1>2. Root \in Nodes /\ l \in Cover[Root]
  BY SetAssumption DEF SetAssumption
<1>3. Backup(Root, new) /\ UNCHANGED before
  BY DEF LoadAccepted, LoadRefused
<1>4. phase' \notin {"rollback", "done"}
  BY DEF LoadAccepted, LoadRefused, Abort
<1> HIDE DEF new
<1> QED
  BY <1>1, <1>2, <1>3, <1>4, LeafWritten

\* The rollback and the revert begin with the first entry.
LEMMA LeafEnd ==
    ASSUME TypeOK, NEW l \in Leaves, LeafOK(l), End
    PROVE  LeafOK(l)'
<1>1. /\ UNCHANGED <<root, app, backup, before>> /\ pos' = 1
      /\ phase' \in {"rollback", "done"}
      /\ phase' = "done" => ~ err'
  BY DEF End
<1>2. \A i \in Touches(l)' : ~ (i < pos')
  BY <1>1, TouchesType DEF Touches
<1>3. BackOK(l)'
  BY <1>1, <1>2 DEF BackOK
<1> QED
  BY <1>1, <1>3, LeafKept

\* An executed entry brings its leaves back to what they were.
LEMMA LeafRollback ==
    ASSUME TypeOK, PhaseOK, SilentOK, NEW l \in Leaves, LeafOK(l), RollbackEntry
    PROVE  LeafOK(l)'
<1> DEFINE e == backup[pos]
<1>1. /\ UNCHANGED <<root, backup, before, server, phase>> /\ pos' = pos + 1
      /\ phase = "rollback" /\ server.transaction
      /\ pos \in DOMAIN backup /\ e.executed = server.callback
  BY PosType DEF RollbackEntry, PhaseOK
<1>2. app' \in {app, Graft(app, e.node, e.cur)}
  BY DEF RollbackEntry
<1>3. ~ refused' /\ server.callback => app' = Graft(app, e.node, e.cur) /\ ~ refused
  BY <1>1 DEF RollbackEntry
<1>4. Touches(l)' = Touches(l) /\ (pos \in Touches(l) <=> l \in Cover[e.node])
  BY <1>1 DEF Touches
<1>5. l \notin Cover[e.node] => app'[l] = app[l]
  BY <1>2 DEF Graft
<1>6. FirstOK(l)' /\ RestOK(l)'
  BY <1>1, <1>4, <1>5 DEF LeafOK, FirstOK, RestOK
<1>7. ASSUME Alone(l), ~ refused', NEW i \in Touches(l), i < pos'
      PROVE  RolledBack(l)'
  <2>1. CASE ~ server.callback
    <3>1. app = before.app /\ app' = app
      BY <1>1, <2>1 DEF SilentOK, RollbackEntry
    <3> QED
      BY <1>1, <3>1 DEF RolledBack
  <2>2. CASE server.callback /\ i = pos
    <3>1. e.cur[l] = before.root[l]
      BY <1>7, <2>2, TouchesType DEF LeafOK, FirstOK, Alone
    <3>2. app'[l] = e.cur[l]
      BY <1>3, <1>4, <1>7, <2>2 DEF Graft
    <3> QED
      BY <1>1, <3>1, <3>2 DEF RolledBack
  <2>3. CASE server.callback /\ i # pos
    <3>1. i < pos /\ l \notin Cover[e.node] /\ ~ refused
      BY <1>1, <1>3, <1>4, <1>7, <2>3, TouchesType DEF Alone, TypeOK
    <3>2. RolledBack(l)
      BY <1>1, <1>7, <3>1 DEF LeafOK, BackOK
    <3> QED
      BY <1>1, <1>5, <3>1, <3>2 DEF RolledBack
  <2> QED
    BY <2>1, <2>2, <2>3
<1>8. Alone(l)' => BackOK(l)'
  BY <1>1, <1>4, <1>7 DEF BackOK, Alone
<1> QED
  BY <1>6, <1>8 DEF LeafOK

LEMMA LeafRollbackDone ==
    ASSUME TypeOK, NEW l \in Leaves, LeafOK(l), RollbackDone
    PROVE  LeafOK(l)'
<1>1. /\ UNCHANGED <<root, app, backup, before, server, err, refused>>
      /\ phase = "rollback" /\ phase' = "done" /\ pos' = 1
      /\ server.transaction => pos > Len(backup)
  BY DEF RollbackDone
<1>2. \A i \in Touches(l) : ~ (i < pos') /\ (server.transaction => i < pos)
  BY <1>1, TouchesType DEF TypeOK
<1>3. Alone(l) /\ server.transaction /\ ~ refused => RolledBack(l)
  BY <1>1, <1>2 DEF LeafOK, BackOK, RestOK, RolledBack
<1>4. RolledBack(l)' = RolledBack(l) /\ Touches(l)' = Touches(l)
  BY <1>1 DEF RolledBack, Touches
<1>5. Alone(l) => BackOK(l)'
  BY <1>1, <1>2, <1>3, <1>4 DEF BackOK
<1> QED
  BY <1>1, <1>5, LeafKept

LEMMA LeafRevert ==
    ASSUME TypeOK, NEW l \in Leaves, LeafOK(l), RevertEntry
    PROVE  LeafOK(l)'
<1> DEFINE e == backup[pos]
<1>1. /\ UNCHANGED <<app, backup, before, server, phase, err, refused>> /\ pos' = pos + 1
      /\ phase = "done" /\ Reverts /\ pos \in DOMAIN backup
      /\ root' = Graft(root, e.node, e.cur)
  BY PosType DEF RevertEntry
<1>2. Touches(l)' = Touches(l) /\ (pos \in Touches(l) <=> l \in Cover[e.node])
  BY <1>1 DEF Touches
<1>3. root'[l] = IF l \in Cover[e.node] THEN e.cur[l] ELSE root[l]
  BY <1>1 DEF Graft
<1>4. FirstOK(l)' /\ RestOK(l)'
  BY <1>1, <1>2, <1>3 DEF LeafOK, FirstOK, RestOK
<1>5. ASSUME Alone(l), NEW i \in Touches(l), i < pos'
      PROVE  root'[l] = before.root[l]
  <2>1. CASE i = pos
    <3>1. e.cur[l] = before.root[l]
      BY <1>5, <2>1, TouchesType DEF LeafOK, FirstOK, Alone
    <3> QED
      BY <1>2, <1>3, <1>5, <2>1, <3>1
  <2>2. CASE i # pos
    <3>1. i < pos /\ l \notin Cover[e.node]
      BY <1>1, <1>2, <1>5, <2>2, TouchesType DEF Alone, TypeOK
    <3> QED
      BY <1>1, <1>3, <1>5, <3>1 DEF LeafOK, BackOK
  <2> QED
    BY <2>1, <2>2
<1>6. Alone(l) => BackOK(l)
  BY DEF LeafOK
<1>7. Alone(l)' => BackOK(l)'
  BY <1>1, <1>2, <1>5, <1>6 DEF BackOK, Alone, RolledBack, Reverts
<1> QED
  BY <1>4, <1>7 DEF LeafOK

LEMMA LeavesStep == SetInv /\ [Next]_vars => LeavesOK'
<1> SUFFICES ASSUME TypeOK, PhaseOK, LeavesOK, [Next]_vars, phase' # "idle",
                    NEW l \in Leaves
             PROVE  LeafOK(l)'
  BY SilentStep DEF SetInv, LeavesOK
<1>0. phase # "idle" => LeafOK(l) /\ SilentOK
  BY DEF LeavesOK
<1>1. UNCHANGED vars => LeafOK(l)'
  BY <1>0 DEF vars, LeafOK, FirstOK, RestOK, BackOK, Alone, Touches, RolledBack, Reverts
<1>2. \A req \in Requests : StartSet(req) \/ StartLoad(req) => LeafOK(l)'
  BY LeafStart
<1>3. NextOperation \/ OperationDone \/ NothingToWrite \/ NodeFails => LeafOK(l)'
  BY <1>0, LeafOperation DEF NextOperation, OperationDone, NothingToWrite, NodeFails
<1>4. \A n \in Nodes : NodeAccepted(n) \/ NodeRefused(n) => LeafOK(l)'
  BY <1>0, LeafNode DEF NodeAccepted, NodeRefused
<1>5. LoadAccepted \/ LoadRefused \/ LoadFails => LeafOK(l)'
  BY <1>0, LeafLoad, LeafOperation DEF LoadAccepted, LoadRefused, LoadFails
<1>6. End \/ RollbackEntry \/ RollbackDone \/ RevertEntry \/ Done => LeafOK(l)'
  BY <1>0, LeafEnd, LeafRollback, LeafRollbackDone, LeafRevert
  DEF End, RollbackEntry, RollbackDone, RevertEntry, Done
<1> QED
  BY <1>1, <1>2, <1>3, <1>4, <1>5, <1>6, NextCases

-----------------------------------------------------------------------------
(* The theorems. *)

LEMMA Invariance == Spec => []SetInv
<1>1. Init => SetInv
  BY TypeInit DEF Init, SetInv, PhaseOK, LeavesOK
<1>2. SetInv /\ [Next]_vars => SetInv'
  BY TypeStep, PhaseStep, LeavesStep DEF SetInv
<1> QED
  BY <1>1, <1>2, PTL DEF Spec

\* A leaf that no more than one entry covers.
LEMMA Untangled ==
    ASSUME TypeOK, NEW l \in Leaves, Cardinality(Touches(l)) <= 1
    PROVE  Alone(l)
<1>1. IsFiniteSet(Touches(l))
  <2>1. Len(backup) \in Nat
    BY DEF TypeOK
  <2>2. IsFiniteSet(1 .. Len(backup))
    BY <2>1, FS_Interval
  <2> QED
    BY <2>2, TouchesType, FS_Subset
<1> SUFFICES ASSUME NEW i \in Touches(l), NEW j \in Touches(l), i # j
             PROVE  FALSE
  BY DEF Alone
<1>2. /\ IsFiniteSet(Touches(l) \ {i})
      /\ Cardinality(Touches(l) \ {i}) = Cardinality(Touches(l)) - 1
  BY <1>1, FS_RemoveElement
<1>3. Cardinality(Touches(l)) \in Nat /\ Cardinality(Touches(l) \ {i}) \in Nat
  BY <1>1, <1>2, FS_CardinalityType
<1>4. Cardinality(Touches(l) \ {i}) = 0
  BY <1>2, <1>3
<1> QED
  BY <1>2, <1>4, FS_EmptySet

\* The variables of set(), Load() and the entries of the backup have their types.
\* (set.go)
THEOREM TypeCorrect == Spec => []TypeOK
<1>1. SetInv => TypeOK
  BY DEF SetInv
<1> QED
  BY <1>1, Invariance, PTL

\* setDone() gives every leaf that no more than one entry covers the value it had
\* at setStart(), whatever failed and in whatever order the nodes were changed.
\* (setDone, set.go:137)
THEOREM TreeComesBack == Spec => []UntangledReverted
<1>1. SetInv => UntangledReverted
  <2> SUFFICES ASSUME SetInv, AtEnd, Reverts, NEW l \in Leaves,
                      Cardinality(Touches(l)) <= 1
               PROVE  root[l] = before.root[l]
    BY DEF UntangledReverted
  <2>1. Alone(l) /\ LeafOK(l) /\ phase = "done" /\ pos > Len(backup)
    BY Untangled DEF SetInv, LeavesOK, AtEnd
  <2>2. \A i \in Touches(l) : i < pos
    BY <2>1, TouchesType DEF SetInv, TypeOK
  <2> QED
    BY <2>1, <2>2 DEF LeafOK, BackOK, RestOK
<1> QED
  BY <1>1, Invariance, PTL

\* setRollback() tells the application of every node it had been given, the one it
\* refused included: a leaf that no more than one entry covers is for the
\* application what it was for it, or in the tree, at setStart().
\* (setRollback, set.go:166)
THEOREM ApplicationComesBack == Spec => []AppUntangledReverted
<1>1. SetInv => AppUntangledReverted
  <2> SUFFICES ASSUME SetInv, AtEnd, err, ~ refused, server.transaction,
                      NEW l \in Leaves, Cardinality(Touches(l)) <= 1
               PROVE  app[l] \in {before.app[l], before.root[l]}
    BY DEF AppUntangledReverted
  <2>1. Alone(l) /\ LeafOK(l) /\ phase = "done"
    BY Untangled DEF SetInv, LeavesOK, AtEnd
  <2> QED
    BY <2>1 DEF LeafOK, BackOK, RolledBack
<1> QED
  BY <1>1, Invariance, PTL

-----------------------------------------------------------------------------
(* What the operations of a request make of a tree, one after the other.    *)

Less == {ij \in Nat \X Nat : ij[1] < ij[2]}

LEMMA LessWellFounded == IsWellFoundedOn(Less, Nat)
<1>1. OpToRel(<, Nat) = Less
  BY Zenon DEF OpToRel, Less
<1> QED
  BY <1>1, NatLessThanWellFounded

LEMMA LessPair == \A i, j \in Nat : i < j => <<i, j>> \in Less
BY DEF Less

\* A set of numbers has a least one: with it, a counterexample to a statement
\* about the number of operations has a smallest number of them.
LEMMA Least ==
    ASSUME NEW T, T \subseteq Nat, T # {}
    PROVE  \E m \in T : \A k \in T : m <= k
<1>1. PICK m \in T : \A k \in T : ~ (<<k, m>> \in Less)
  BY LessWellFounded, WFMin
<1>2. \A k \in T : k \in Nat /\ m \in Nat
  OBVIOUS
<1>3. \A k \in T : ~ (k < m)
  BY <1>1, <1>2, LessPair
<1>4. \A k \in T : m <= k
  BY <1>2, <1>3
<1> QED
  BY <1>4

LEMMA ApplyType ==
    ASSUME NEW t \in Trees, NEW op \in Atomic!Operations
    PROVE  Atomic!Apply(t, op) \in Trees
<1>1. op.val \in Vals
  BY DEF Atomic!Operations
<1> QED
  BY <1>1 DEF Atomic!Apply, Trees, Atomic!Trees

\* f has the trees between the first n operations of req, from t on.
Stages(f, t, req, n) ==
    /\ f \in [0 .. n -> Trees]
    /\ f[0] = t
    /\ \A k \in 1 .. n : f[k] = Atomic!Apply(f[k - 1], req[k])

LEMMA StagesExist ==
    ASSUME NEW t \in Trees, NEW req \in Seq(Atomic!Operations)
    PROVE  \E f : Stages(f, t, req, Len(req))
<1> DEFINE Missing == {n \in Nat : n <= Len(req) /\ ~ \E f : Stages(f, t, req, n)}
<1>1. SUFFICES ASSUME Missing # {}
               PROVE  FALSE
  <2>1. Len(req) \in Nat /\ Len(req) <= Len(req)
    OBVIOUS
  <2> QED
    BY <1>1, <2>1
<1>2. PICK m \in Missing : \A k \in Missing : m <= k
  BY <1>1, Least
<1>3. m \in Nat /\ m <= Len(req) /\ ~ \E f : Stages(f, t, req, m)
  BY <1>2
<1>4. m # 0
  <2> DEFINE f == [k \in 0 .. 0 |-> t]
  <2>1. Stages(f, t, req, 0)
    BY DEF Stages
  <2> QED
    BY <1>3, <2>1
<1>5. m - 1 \in Nat /\ m - 1 <= Len(req) /\ ~ (m <= m - 1)
  BY <1>3, <1>4
<1>6. PICK f : Stages(f, t, req, m - 1)
  BY <1>2, <1>5
<1> DEFINE g == [k \in 0 .. m |-> IF k = m THEN Atomic!Apply(f[m - 1], req[m]) ELSE f[k]]
<1>7. f[m - 1] \in Trees /\ req[m] \in Atomic!Operations
  BY <1>3, <1>5, <1>6 DEF Stages
<1>8. g \in [0 .. m -> Trees]
  <2>1. Atomic!Apply(f[m - 1], req[m]) \in Trees
    BY <1>7, ApplyType
  <2>2. \A k \in 0 .. m : k # m => f[k] \in Trees
    BY <1>3, <1>6 DEF Stages
  <2> QED
    BY <2>1, <2>2
<1>9. g[0] = t
  BY <1>3, <1>4, <1>6 DEF Stages
<1>10. ASSUME NEW k \in 1 .. m
       PROVE  g[k] = Atomic!Apply(g[k - 1], req[k])
  <2>1. k \in 0 .. m /\ k - 1 \in 0 .. m /\ k - 1 # m /\ g[k - 1] = f[k - 1]
    BY <1>3
  <2>2. CASE k = m
    BY <2>1, <2>2
  <2>3. CASE k # m
    <3>1. k \in 1 .. m - 1 /\ g[k] = f[k]
      BY <1>3, <2>1, <2>3
    <3> QED
      BY <1>6, <2>1, <3>1 DEF Stages
  <2> QED
    BY <2>2, <2>3
<1> HIDE DEF g
<1>11. Stages(g, t, req, m)
  BY <1>8, <1>9, <1>10 DEF Stages
<1> QED
  BY <1>3, <1>11

\* The function that Result() takes the last value of has the trees between the
\* operations.
LEMMA AfterStages ==
    ASSUME NEW t \in Trees, NEW req \in Seq(Atomic!Operations)
    PROVE  Stages(Atomic!After(t, req), t, req, Len(req))
<1> DEFINE body(g) == [k \in 0 .. Len(req) |->
                         IF k = 0 THEN t ELSE Atomic!Apply(g[k - 1], req[k])]
           after == CHOOSE g : g = body(g)
<1>1. Len(req) \in Nat
  OBVIOUS
<1>2. PICK f : Stages(f, t, req, Len(req))
  BY StagesExist
<1>3. f = body(f)
  BY <1>1, <1>2 DEF Stages
<1> HIDE DEF body
<1>4. after = body(after)
  BY <1>3
<1> USE DEF body
<1>5. Atomic!After(t, req) = after
  BY DEF Atomic!After
<1> HIDE DEF after
<1>6. /\ after[0] = t
      /\ \A k \in 1 .. Len(req) : after[k] = Atomic!Apply(after[k - 1], req[k])
  BY <1>1, <1>4
<1>7. \A k \in 0 .. Len(req) : after[k] \in Trees
  <2> DEFINE Wrong == {k \in Nat : k <= Len(req) /\ after[k] \notin Trees}
  <2>1. SUFFICES ASSUME Wrong # {} PROVE FALSE
    BY <1>1
  <2>2. PICK m \in Wrong : \A k \in Wrong : m <= k
    BY <2>1, Least
  <2>3. m \in Nat /\ m <= Len(req) /\ after[m] \notin Trees
    BY <2>2
  <2>4. m # 0
    BY <1>6, <2>3
  <2>5. m - 1 \in Nat /\ m - 1 <= Len(req) /\ ~ (m <= m - 1) /\ m \in 1 .. Len(req)
    BY <1>1, <2>3, <2>4
  <2>6. after[m - 1] \in Trees /\ req[m] \in Atomic!Operations
    BY <2>2, <2>5
  <2> QED
    BY <1>6, <2>3, <2>5, <2>6, ApplyType
<1>8. after \in [0 .. Len(req) -> Trees]
  BY <1>4, <1>7
<1> QED
  BY <1>5, <1>6, <1>8 DEF Stages

-----------------------------------------------------------------------------
(* A request on its way.                                                     *)

\* The operations that are done, and the tree that k operations leave.
At == Len(request) - Len(todo)
Tree(k) == Atomic!After(before.root, request)[k]

\* Where set() stands in the request; the nodes of an operation were found in the
\* tree that the operations before it left.
OrderOK ==
    phase # "idle" =>
        /\ request \in Requests
        /\ phase \in {"next", "nodes", "load"} => ~ err
        /\ phase = "rollback" => err
        /\ phase \in {"end", "rollback", "done"} => todo = <<>>
        /\ ~ err => At \in 0 .. Len(request) /\ \A j \in DOMAIN todo : todo[j] = request[At + j]
        /\ phase = "load" =>
             backup = <<>> /\ At = 0 /\ Len(request) = 1 /\ LoadRequest(request[1])
        /\ phase = "nodes" => left \subseteq Atomic!Targets(Tree(At), Head(todo))

\* The k-th operation names the node of the i-th entry.
Source(i, k) == k \in DOMAIN request /\ backup[i].node \in request[k].nodes

\* A leaf that the request comes to once is covered by one entry, of an operation
\* begun so far and of a node no longer left.
OnceOK(l) ==
    l \notin Atomic!Twice(request) =>
        /\ Alone(l)
        /\ \A i \in Touches(l) : \E k \in Nat :
             /\ Source(i, k)
             /\ phase = "next" => k <= At
             /\ phase = "nodes" => k <= At + 1 /\ (k = At + 1 => backup[i].node \notin left)

\* The operation at work was done on a node that covers l.
Reached(l) == \E n \in Atomic!Targets(Tree(At), Head(todo)) \ left : l \in Cover[n]

\* The tree and the application have what the request made of them so far.
ResultOK(l) ==
    ~ err =>
        /\ phase \in {"next", "load", "end"} => root[l] = Tree(At)[l]
        /\ phase = "nodes" => root[l] = Tree(IF Reached(l) THEN At + 1 ELSE At)[l]
        /\ phase = "done" /\ server.updates => root[l] = Tree(Len(request))[l]
        /\ server.callback /\ before.app[l] = before.root[l] =>
             app[l] = IF phase = "done" THEN Tree(Len(request))[l] ELSE root[l]

ProgressOK == phase # "idle" => \A l \in Leaves : OnceOK(l) /\ ResultOK(l)

AtomicInv == SetInv /\ OrderOK /\ ProgressOK

LEMMA TreeFacts ==
    ASSUME TypeOK
    PROVE  /\ Len(request) \in Nat /\ DOMAIN request = 1 .. Len(request)
           /\ Tree(0) = before.root
           /\ \A k \in 0 .. Len(request) : Tree(k) \in Trees
           /\ \A k \in 1 .. Len(request) : Tree(k) = Atomic!Apply(Tree(k - 1), request[k])
<1>1. before.root \in Trees /\ request \in Seq(Atomic!Operations)
  BY DEF TypeOK
<1>2. Stages(Atomic!After(before.root, request), before.root, request, Len(request))
  BY <1>1, AfterStages
<1> QED
  BY <1>1, <1>2 DEF Stages, Tree

\* The operation at work is the next one of the request.
LEMMA CurrentOperation ==
    ASSUME TypeOK, OrderOK, phase \in {"next", "nodes", "load"}, todo # <<>>
    PROVE  /\ At \in Nat /\ At + 1 \in 1 .. Len(request) /\ At \in 0 .. Len(request)
           /\ Head(todo) = request[At + 1] /\ Head(todo) \in Atomic!Operations
           /\ Tree(At) \in Trees /\ Tree(At + 1) \in Trees
           /\ Tree(At + 1) = Atomic!Apply(Tree(At), Head(todo))
           /\ \A j \in DOMAIN todo : todo[j] = request[At + j]
<1>1. /\ todo \in Seq(Atomic!Operations) /\ request \in Seq(Atomic!Operations)
      /\ Len(request) \in Nat /\ Len(todo) \in Nat /\ Len(todo) > 0
      /\ 1 \in DOMAIN todo /\ Head(todo) = todo[1] /\ todo[1] \in Atomic!Operations
  BY DEF TypeOK
<1>2. At \in 0 .. Len(request) /\ \A j \in DOMAIN todo : todo[j] = request[At + j]
  BY DEF OrderOK
<1>3. At \in Nat /\ At + 1 \in 1 .. Len(request) /\ At + 1 \in 0 .. Len(request) /\ (At + 1) - 1 = At
  BY <1>1, <1>2 DEF At
<1>4. Tree(At) \in Trees /\ Tree(At + 1) \in Trees
  BY <1>2, <1>3, TreeFacts
<1>5. Tree(At + 1) = Atomic!Apply(Tree((At + 1) - 1), request[At + 1])
  BY <1>3, TreeFacts
<1>6. Head(todo) = request[At + 1]
  BY <1>1, <1>2
<1> QED
  BY <1>1, <1>2, <1>3, <1>4, <1>5, <1>6

\* What an operation makes of one leaf.
Made(op, l, old) ==
    IF op.kind # "delete" /\ l \in op.leaves THEN op.val
    ELSE IF op.kind = "update" THEN old ELSE Absent

LEMMA ApplyLeaf ==
    ASSUME NEW t \in Trees, NEW op \in Atomic!Operations, NEW l \in Leaves
    PROVE  Atomic!Apply(t, op)[l] =
             IF \E n \in Atomic!Targets(t, op) : l \in Cover[n] THEN Made(op, l, t[l]) ELSE t[l]
<1> DEFINE hit == UNION {Cover[n] : n \in Atomic!Targets(t, op)}
<1>1. l \in hit <=> \E n \in Atomic!Targets(t, op) : l \in Cover[n]
  OBVIOUS
<1>2. Atomic!Apply(t, op)[l] =
        CASE l \notin hit -> t[l]
          [] l \in hit /\ op.kind # "delete" /\ l \in op.leaves -> op.val
          [] l \in hit /\ op.kind = "update" /\ l \notin op.leaves -> t[l]
          [] OTHER -> Absent
  BY DEF Atomic!Apply
<1>3. CASE l \notin hit
  BY <1>1, <1>2, <1>3
<1>4. CASE l \in hit /\ op.kind # "delete" /\ l \in op.leaves
  BY <1>1, <1>2, <1>4 DEF Made
<1>5. CASE l \in hit /\ op.kind = "update" /\ l \notin op.leaves
  BY <1>1, <1>2, <1>5 DEF Made
<1>6. CASE /\ l \in hit /\ ~ (op.kind # "delete" /\ l \in op.leaves)
           /\ ~ (op.kind = "update" /\ l \notin op.leaves)
  BY <1>1, <1>2, <1>6 DEF Made
<1> QED
  BY <1>3, <1>4, <1>5, <1>6

LEMMA NodeResultLeaf ==
    ASSUME root \in Trees, NEW op \in Atomic!Operations, NEW n, NEW l \in Leaves
    PROVE  NodeResult(op, n)[l] = IF l \in Cover[n] THEN Made(op, l, root[l]) ELSE root[l]
BY DEF NodeResult, Graft, Made

\* Doing an operation once more on a leaf changes nothing.
LEMMA MadeAgain ==
    ASSUME NEW op, NEW l, NEW old
    PROVE  Made(op, l, Made(op, l, old)) = Made(op, l, old)
BY DEF Made

-----------------------------------------------------------------------------
(* One lemma for each kind of step.                                          *)

LEMMA ProgressStart ==
    ASSUME TypeOK', NEW req \in Requests, StartSet(req) \/ StartLoad(req)
    PROVE  OrderOK' /\ ProgressOK'
<1>1. PICK to \in {"next", "load"} :
        /\ Start(req, to)
        /\ to = "load" => Len(req) = 1 /\ LoadRequest(req[1])
  BY DEF StartSet, StartLoad
<1>2. /\ request' = req /\ backup' = <<>> /\ root' = before'.root /\ app' = before'.app
      /\ phase' \in {"next", "load", "end"}
      /\ phase' = "load" => Len(req) = 1 /\ LoadRequest(req[1])
      /\ phase' # "end" => todo' = req /\ ~ err'
      /\ phase' = "end" => todo' = <<>> /\ err'
  BY <1>1 DEF Start
<1>3. Len(req) \in Nat /\ DOMAIN req = 1 .. Len(req)
  BY RequestType
<1>4. ~ err' => At' = 0 /\ todo' = request'
  BY <1>2, <1>3 DEF At
<1>5. OrderOK'
  <2>1. ~ err' => \A j \in DOMAIN todo' : todo'[j] = request'[At' + j]
    BY <1>2, <1>3, <1>4
  <2> QED
    BY <1>2, <1>3, <1>4, <2>1 DEF OrderOK
<1>6. ~ err' => Tree(At)' = root'
  <2>1. before'.root \in Trees /\ request' \in Seq(Atomic!Operations)
    BY DEF TypeOK
  <2>2. Atomic!After(before'.root, request')[0] = before'.root
    BY <2>1, AfterStages DEF Stages
  <2> QED
    BY <1>2, <1>4, <2>2 DEF Tree
<1>7. \A l : Touches(l)' = {}
  BY <1>2 DEF Touches
<1>8. ProgressOK'
  BY <1>2, <1>6, <1>7 DEF ProgressOK, OnceOK, ResultOK, Alone
<1> QED
  BY <1>5, <1>8

\* After an error nothing more is said than where the entries come from.
LEMMA ProgressAborted ==
    ASSUME OrderOK, ProgressOK, phase # "idle", Abort, UNCHANGED <<request, backup>>
    PROVE  OrderOK' /\ ProgressOK'
<1>1. OrderOK'
  BY DEF OrderOK, Abort
<1>2. ASSUME NEW l \in Leaves
      PROVE  OnceOK(l)' /\ ResultOK(l)'
  <2>1. Touches(l)' = Touches(l)
    BY DEF Touches
  <2>2. OnceOK(l)
    BY DEF ProgressOK
  <2> QED
    BY <2>1, <2>2 DEF OnceOK, ResultOK, Abort, Alone, Source
<1> QED
  BY <1>1, <1>2 DEF ProgressOK

LEMMA ProgressNext ==
    ASSUME TypeOK, OrderOK, ProgressOK, NextOperation
    PROVE  OrderOK' /\ ProgressOK'
<1>1. /\ phase = "next" /\ todo # <<>> /\ phase' = "nodes" /\ ~ err
      /\ left' = Atomic!Targets(root, Head(todo))
      /\ UNCHANGED <<server, root, app, todo, backup, err, before, request>>
  BY DEF NextOperation, OrderOK
<1>2. At' = At /\ \A k : Tree(k)' = Tree(k)
  BY <1>1 DEF At, Tree
<1>3. At \in Nat /\ Tree(At) \in Trees
  BY <1>1, CurrentOperation
<1>4. root = Tree(At)
  <2>1. \A l \in Leaves : root[l] = Tree(At)[l]
    BY <1>1 DEF ProgressOK, ResultOK
  <2> QED
    BY <1>3, <2>1 DEF TypeOK, Trees, Atomic!Trees
<1>5. OrderOK'
  <2>1. left' \subseteq Atomic!Targets(Tree(At)', Head(todo'))
    BY <1>1, <1>2, <1>4
  <2> QED
    BY <1>1, <1>2, <1>4 DEF OrderOK
<1>6. ASSUME NEW l \in Leaves
      PROVE  OnceOK(l)' /\ ResultOK(l)'
  <2>1. OnceOK(l) /\ ResultOK(l)
    BY <1>1 DEF ProgressOK
  <2>2. Touches(l)' = Touches(l)
    BY <1>1 DEF Touches
  <2>3. OnceOK(l)'
    <3>1. ASSUME NEW k \in Nat, k <= At
          PROVE  k <= At + 1 /\ k # At + 1
      BY <1>3, <3>1
    <3> QED
      BY <1>1, <1>2, <2>1, <2>2, <3>1 DEF OnceOK, Alone, Source
  <2>4. ~ Reached(l)'
    BY <1>1, <1>2, <1>4 DEF Reached
  <2>5. ResultOK(l)'
    BY <1>1, <1>2, <2>1, <2>4 DEF ResultOK
  <2> QED
    BY <2>3, <2>5
<1> QED
  BY <1>5, <1>6 DEF ProgressOK

LEMMA ProgressDone ==
    ASSUME TypeOK, PhaseOK, OrderOK, ProgressOK, OperationDone
    PROVE  OrderOK' /\ ProgressOK'
<1>1. /\ phase = "nodes" /\ todo # <<>> /\ left = {} /\ phase' = "next" /\ ~ err
      /\ todo' = Tail(todo)
      /\ UNCHANGED <<server, root, app, left, backup, err, before, request>>
  BY DEF OperationDone, OrderOK, PhaseOK
<1>2. /\ At \in Nat /\ At + 1 \in 1 .. Len(request) /\ Tree(At) \in Trees
      /\ Head(todo) \in Atomic!Operations /\ Tree(At + 1) = Atomic!Apply(Tree(At), Head(todo))
      /\ \A j \in DOMAIN todo : todo[j] = request[At + j]
  BY <1>1, CurrentOperation
<1>3. /\ Len(todo) \in Nat /\ Len(todo') = Len(todo) - 1 /\ Len(request) \in Nat
      /\ \A j \in DOMAIN todo' : j \in Nat /\ j + 1 \in DOMAIN todo /\ todo'[j] = todo[j + 1]
  BY <1>1 DEF TypeOK
<1>4. At' = At + 1 /\ \A k : Tree(k)' = Tree(k)
  BY <1>1, <1>3 DEF At, Tree
<1>5. OrderOK'
  <2>1. At' \in 0 .. Len(request')
    BY <1>1, <1>2, <1>4
  <2>2. ASSUME NEW j \in DOMAIN todo'
        PROVE  todo'[j] = request'[At' + j]
    <3>1. todo'[j] = request[At + (j + 1)]
      BY <1>2, <1>3
    <3>2. At + (j + 1) = At' + j
      BY <1>2, <1>3, <1>4
    <3> QED
      BY <1>1, <3>1, <3>2
  <2> QED
    BY <1>1, <2>1, <2>2 DEF OrderOK
<1>6. ASSUME NEW l \in Leaves
      PROVE  OnceOK(l)' /\ ResultOK(l)'
  <2>1. OnceOK(l) /\ ResultOK(l)
    BY <1>1 DEF ProgressOK
  <2>2. Touches(l)' = Touches(l)
    BY <1>1 DEF Touches
  <2>3. OnceOK(l)'
    BY <1>1, <1>4, <2>1, <2>2 DEF OnceOK, Alone, Source
  <2>4. ~ Reached(l) => Tree(At + 1)[l] = Tree(At)[l]
    BY <1>1, <1>2, ApplyLeaf DEF Reached
  <2>5. root[l] = Tree(At + 1)[l]
    BY <1>1, <2>1, <2>4 DEF ResultOK
  <2>6. Tree(At)' = Tree(At + 1)
    BY <1>1, <1>4 DEF Tree
  <2>7. ResultOK(l)'
    BY <1>1, <2>1, <2>5, <2>6 DEF ResultOK
  <2> QED
    BY <2>3, <2>7
<1> QED
  BY <1>5, <1>6 DEF ProgressOK

\* No entry covers a leaf of a node that is written, if the request comes to the
\* leaf once.
LEMMA FirstTouch ==
    ASSUME NEW l \in Leaves, l \notin Atomic!Twice(request),
           NEW n, NEW k \in DOMAIN request, n \in request[k].nodes, l \in Cover[n],
           \A i \in Touches(l) : \E j : Source(i, j) /\ (j = k => backup[i].node # n)
    PROVE  Touches(l) = {}
<1> SUFFICES ASSUME NEW i \in Touches(l) PROVE FALSE
  OBVIOUS
<1>1. PICK j : Source(i, j) /\ (j = k => backup[i].node # n)
  OBVIOUS
<1>2. <<j, backup[i].node>> # <<k, n>>
  BY <1>1
<1>3. j \in DOMAIN request /\ backup[i].node \in request[j].nodes /\ l \in Cover[backup[i].node]
  BY <1>1 DEF Source, Touches
<1> QED
  BY <1>2, <1>3 DEF Atomic!Twice

\* A new entry of a node that the k-th operation names.
LEMMA OnceWritten ==
    ASSUME TypeOK, NEW l \in Leaves, UNCHANGED request,
           NEW n \in Nodes, NEW new \in Trees, Backup(n, new),
           NEW k \in DOMAIN request, n \in request[k].nodes, k \in Nat,
           OnceOK(l),
           \A i \in Touches(l) : \A j \in Nat :
             Source(i, j) => Source(i, j)' /\ backup'[i] = backup[i],
           l \notin Atomic!Twice(request) =>
             \A i \in Touches(l) : \E j \in Nat :
               /\ Source(i, j) /\ (j = k => backup[i].node # n)
               /\ phase' = "nodes" => j <= At' + 1 /\ (j = At' + 1 => backup[i].node \notin left'),
           phase' = "nodes" => k <= At' + 1 /\ n \notin left',
           phase' # "next"
    PROVE  OnceOK(l)'
<1>0. PICK last : last = Len(backup) + 1
  OBVIOUS
<1>1. /\ Touches(l)' = IF l \in Cover[n] THEN Touches(l) \cup {last} ELSE Touches(l)
      /\ backup'[last].node = n
  BY <1>0, TouchesWritten
<1>2. Source(last, k)'
  BY <1>1 DEF Source
<1> SUFFICES ASSUME l \notin Atomic!Twice(request)
             PROVE  /\ Alone(l)'
                    /\ \A i \in Touches(l)' : \E j \in Nat :
                         /\ Source(i, j)'
                         /\ phase' = "nodes" =>
                              j <= At' + 1 /\ (j = At' + 1 => backup'[i].node \notin left')
  BY DEF OnceOK
<1>3. l \in Cover[n] => Touches(l) = {}
  BY FirstTouch
<1>4. Alone(l)'
  BY <1>1, <1>3 DEF OnceOK, Alone
<1>5. ASSUME NEW i \in Touches(l)'
      PROVE  \E j \in Nat :
               /\ Source(i, j)'
               /\ phase' = "nodes" =>
                    j <= At' + 1 /\ (j = At' + 1 => backup'[i].node \notin left')
  <2>1. CASE i \in Touches(l)
    BY <2>1
  <2>2. CASE i \notin Touches(l)
    BY <1>1, <1>2, <2>2
  <2> QED
    BY <2>1, <2>2
<1> QED
  BY <1>4, <1>5

\* The entries keep their sources when another is made.
LEMMA SourceKept ==
    ASSUME TypeOK, NEW l, NEW n \in Nodes, NEW new \in Trees, Backup(n, new), UNCHANGED request
    PROVE  \A i \in Touches(l) : \A j \in Nat :
             Source(i, j) => Source(i, j)' /\ backup'[i] = backup[i]
BY TouchesWritten DEF Source

\* A node of the operation at work.
LEMMA NodeFacts ==
    ASSUME TypeOK, PhaseOK, OrderOK, NEW n \in Nodes, phase = "nodes", n \in left
    PROVE  /\ todo # <<>> /\ Head(todo) \in Atomic!Operations
           /\ At \in Nat /\ At + 1 \in DOMAIN request /\ Head(todo) = request[At + 1]
           /\ n \in request[At + 1].nodes /\ n \in Atomic!Targets(Tree(At), Head(todo))
           /\ Tree(At) \in Trees /\ Tree(At + 1) = Atomic!Apply(Tree(At), Head(todo))
           /\ NodeResult(Head(todo), n) \in Trees
<1>1. todo # <<>>
  BY DEF PhaseOK
<1>2. /\ Head(todo) \in Atomic!Operations
      /\ At \in Nat /\ At + 1 \in DOMAIN request /\ Head(todo) = request[At + 1]
      /\ Tree(At) \in Trees /\ Tree(At + 1) = Atomic!Apply(Tree(At), Head(todo))
  BY <1>1, CurrentOperation, TreeFacts
<1>3. n \in Atomic!Targets(Tree(At), Head(todo))
  BY DEF OrderOK
<1>4. Atomic!Targets(Tree(At), Head(todo)) \subseteq Head(todo).nodes
  BY DEF Atomic!Targets
<1>5. NodeResult(Head(todo), n) \in Trees
  BY <1>2, NodeResultType DEF TypeOK
<1> QED
  BY <1>1, <1>2, <1>3, <1>4, <1>5

\* A node is done: its leaves have what the operation makes of them, once or again.
LEMMA ProgressAccepted ==
    ASSUME TypeOK, PhaseOK, OrderOK, ProgressOK, NEW n \in Nodes, NodeAccepted(n)
    PROVE  OrderOK' /\ ProgressOK'
<1> DEFINE op == Head(todo)
           new == NodeResult(op, n)
<1>1. /\ phase = "nodes" /\ n \in left /\ left' = left \ {n} /\ ~ err
      /\ root' = new /\ Backup(n, new)
      /\ app' = IF server.callback THEN Graft(app, n, new) ELSE app
      /\ UNCHANGED <<server, phase, todo, err, before, request>>
  BY DEF NodeAccepted, OrderOK
<1>2. /\ todo # <<>> /\ op \in Atomic!Operations /\ At \in Nat
      /\ At + 1 \in DOMAIN request /\ n \in request[At + 1].nodes
      /\ n \in Atomic!Targets(Tree(At), op)
      /\ Tree(At) \in Trees /\ Tree(At + 1) = Atomic!Apply(Tree(At), op)
      /\ new \in Trees
  BY <1>1, NodeFacts
<1>3. At' = At /\ Tree(At)' = Tree(At) /\ \A k : Tree(k)' = Tree(k)
  BY <1>1 DEF At, Tree
<1>4. OrderOK'
  BY <1>1, <1>3 DEF OrderOK
<1>5. ASSUME NEW l \in Leaves
      PROVE  OnceOK(l)'
  <2>1. OnceOK(l)
    BY <1>1 DEF ProgressOK
  <2>2. \A i \in Touches(l) : \A j \in Nat :
          Source(i, j) => Source(i, j)' /\ backup'[i] = backup[i]
    BY <1>1, <1>2, SourceKept
  <2>3. ASSUME l \notin Atomic!Twice(request), NEW i \in Touches(l)
        PROVE  \E j \in Nat :
                 /\ Source(i, j) /\ (j = At + 1 => backup[i].node # n)
                 /\ j <= At' + 1 /\ (j = At' + 1 => backup[i].node \notin left')
    <3>1. PICK j \in Nat :
            Source(i, j) /\ j <= At + 1 /\ (j = At + 1 => backup[i].node \notin left)
      BY <1>1, <2>1, <2>3 DEF OnceOK
    <3> QED
      BY <1>1, <1>3, <3>1
  <2>4. At + 1 \in Nat /\ At + 1 <= At' + 1 /\ n \notin left'
    BY <1>1, <1>2, <1>3
  <2> HIDE DEF new
  <2> QED
    BY <1>1, <1>2, <2>1, <2>2, <2>3, <2>4, OnceWritten
<1>6. ASSUME NEW l \in Leaves
      PROVE  ResultOK(l)'
  <2>1. ResultOK(l) /\ root[l] = Tree(IF Reached(l) THEN At + 1 ELSE At)[l]
    BY <1>1 DEF ProgressOK, ResultOK
  <2>2. root'[l] = IF l \in Cover[n] THEN Made(op, l, root[l]) ELSE root[l]
    BY <1>1, <1>2, NodeResultLeaf DEF TypeOK
  <2>3. Reached(l)' <=> Reached(l) \/ l \in Cover[n]
    BY <1>1, <1>2, <1>3 DEF Reached
  <2>4. Reached(l) \/ l \in Cover[n] => Tree(At + 1)[l] = Made(op, l, Tree(At)[l])
    BY <1>2, ApplyLeaf DEF Reached
  <2>5. root'[l] = Tree(IF Reached(l)' THEN At + 1 ELSE At)[l]
    <3>1. CASE l \notin Cover[n]
      BY <2>1, <2>2, <2>3, <3>1
    <3>2. CASE l \in Cover[n] /\ Reached(l)
      BY <2>1, <2>2, <2>3, <2>4, <3>2, MadeAgain
    <3>3. CASE l \in Cover[n] /\ ~ Reached(l)
      BY <2>1, <2>2, <2>3, <2>4, <3>3
    <3> QED
      BY <3>1, <3>2, <3>3
  <2>6. root'[l] = Tree(IF Reached(l) THEN At + 1 ELSE At)[l]'
    BY <1>3, <2>5
  <2>7. server.callback =>
          app'[l] = IF l \in Cover[n] THEN root'[l] ELSE app[l]
    BY <1>1 DEF Graft
  <2>8. server.callback /\ before.app[l] = before.root[l] => app[l] = root[l]
    BY <1>1, <2>1 DEF ResultOK
  <2>9. l \notin Cover[n] => root'[l] = root[l]
    BY <2>2
  <2> HIDE DEF new
  <2> QED
    BY <1>1, <2>6, <2>7, <2>8, <2>9 DEF ResultOK
<1> QED
  BY <1>4, <1>5, <1>6 DEF ProgressOK

LEMMA ProgressRefused ==
    ASSUME TypeOK, PhaseOK, OrderOK, ProgressOK, NEW n \in Nodes, NodeRefused(n)
    PROVE  OrderOK' /\ ProgressOK'
<1> DEFINE new == NodeResult(Head(todo), n)
<1>1. /\ phase = "nodes" /\ n \in left /\ phase' = "end" /\ err' /\ todo' = <<>>
      /\ Backup(n, new) /\ UNCHANGED request
  BY DEF NodeRefused, Abort
<1>2. At \in Nat /\ At + 1 \in DOMAIN request /\ n \in request[At + 1].nodes /\ new \in Trees
  BY <1>1, NodeFacts
<1> HIDE DEF new
<1>3. OrderOK'
  BY <1>1 DEF OrderOK
<1>4. ASSUME NEW l \in Leaves
      PROVE  OnceOK(l)'
  <2>1. OnceOK(l)
    BY <1>1 DEF ProgressOK
  <2>2. \A i \in Touches(l) : \A j \in Nat :
          Source(i, j) => Source(i, j)' /\ backup'[i] = backup[i]
    BY <1>1, <1>2, SourceKept
  <2>3. l \notin Atomic!Twice(request) => \A i \in Touches(l) : \E j \in Nat :
          Source(i, j) /\ (j = At + 1 => backup[i].node # n)
    BY <1>1, <2>1 DEF OnceOK
  <2> QED
    BY <1>1, <1>2, <2>1, <2>2, <2>3, OnceWritten
<1>5. \A l \in Leaves : ResultOK(l)'
  BY <1>1 DEF ResultOK
<1> QED
  BY <1>3, <1>4, <1>5 DEF ProgressOK

\* A replacement or update of one node is done on it, whether it exists or not.
LEMMA OnlyTarget ==
    ASSUME NEW t, NEW op, NEW n, op.nodes = {n}, op.kind # "delete"
    PROVE  n \in Atomic!Targets(t, op)
<1>1. CASE Atomic!Present(t, n)
  BY <1>1 DEF Atomic!Targets
<1>2. CASE ~ Atomic!Present(t, n)
  <2>1. {m \in op.nodes : Atomic!Present(t, m)} = {}
    BY <1>2
  <2> QED
    BY <2>1 DEF Atomic!Targets
<1> QED
  BY <1>1, <1>2

\* A Load is the only operation of its request, and is done on the root.
LEMMA ProgressLoad ==
    ASSUME TypeOK, PhaseOK, OrderOK, ProgressOK, LoadAccepted \/ LoadRefused
    PROVE  OrderOK' /\ ProgressOK'
<1> DEFINE op == Head(todo)
           new == NodeResult(op, Root)
<1>1. /\ phase = "load" /\ phase' = "end" /\ todo' = <<>> /\ Backup(Root, new)
      /\ UNCHANGED <<server, before, request>>
      /\ err' \/ (~ err' /\ root' = new /\ app' = IF server.callback THEN new ELSE app)
  BY DEF LoadAccepted, LoadRefused, Abort, OrderOK
<1>2. todo # <<>> /\ ~ err /\ backup = <<>> /\ At = 0 /\ Len(request) = 1 /\ LoadRequest(request[1])
  BY <1>1 DEF PhaseOK, OrderOK
<1>3. /\ op \in Atomic!Operations /\ op = request[1] /\ 1 \in DOMAIN request
      /\ Tree(0) \in Trees /\ Tree(1) = Atomic!Apply(Tree(0), op)
  <2>1. At + 1 = 1
    BY <1>2
  <2> QED
    BY <1>1, <1>2, <2>1, CurrentOperation, TreeFacts
<1>4. Root \in Nodes /\ op.nodes = {Root} /\ op.kind = "replace"
  BY <1>2, <1>3, SetAssumption DEF SetAssumption, LoadRequest
<1>5. new \in Trees
  BY <1>3, NodeResultType DEF TypeOK
<1>6. Root \in Atomic!Targets(Tree(0), op)
  BY <1>4, OnlyTarget
<1>7. OrderOK'
  <2>1. At' = 1 /\ DOMAIN todo' = {}
    BY <1>1, <1>2 DEF At
  <2> QED
    BY <1>1, <1>2, <2>1 DEF OrderOK
<1>8. ASSUME NEW l \in Leaves
      PROVE  OnceOK(l)'
  <2>1. OnceOK(l)
    BY <1>1 DEF ProgressOK
  <2>2. Touches(l) = {}
    BY <1>2 DEF Touches
  <2> HIDE DEF new
  <2> QED
    BY <1>1, <1>3, <1>4, <1>5, <2>1, <2>2, OnceWritten
<1>9. ASSUME NEW l \in Leaves, ~ err'
      PROVE  root'[l] = Tree(1)[l]
  <2>1. l \in Cover[Root]
    BY SetAssumption DEF SetAssumption
  <2>2. root'[l] = Made(op, l, root[l])
    BY <1>1, <1>3, <1>9, <2>1, NodeResultLeaf DEF TypeOK
  <2>3. Tree(1)[l] = Made(op, l, Tree(0)[l])
    BY <1>3, <1>6, <2>1, ApplyLeaf
  <2>4. root[l] = Tree(0)[l]
    BY <1>1, <1>2 DEF ProgressOK, ResultOK
  <2> QED
    BY <2>2, <2>3, <2>4
<1>10. ASSUME NEW l \in Leaves
       PROVE  ResultOK(l)'
  <2>1. At' = 1
    BY <1>1, <1>2 DEF At
  <2>2. ~ err' => root'[l] = Tree(At)'[l]
    BY <1>1, <1>9, <2>1 DEF Tree
  <2>3. ~ err' /\ server.callback => app' = root'
    BY <1>1
  <2> HIDE DEF new
  <2> QED
    BY <1>1, <2>2, <2>3 DEF ResultOK
<1> QED
  BY <1>7, <1>8, <1>10 DEF ProgressOK

\* A request that met no error had all its operations done.
LEMMA ProgressEnd ==
    ASSUME TypeOK, OrderOK, ProgressOK, End
    PROVE  OrderOK' /\ ProgressOK'
<1>1. /\ phase \in {"next", "end"} /\ todo = <<>>
      /\ phase' = IF err' THEN "rollback" ELSE "done"
      /\ ~ err' => ~ err
      /\ UNCHANGED <<server, root, app, todo, left, backup, before, request>>
  BY DEF End, TypeOK
<1>2. At' = At /\ At = Len(request) /\ \A k : Tree(k)' = Tree(k)
  BY <1>1, TreeFacts DEF At, Tree
<1>3. OrderOK'
  BY <1>1, <1>2 DEF OrderOK
<1>4. ASSUME NEW l \in Leaves
      PROVE  OnceOK(l)' /\ ResultOK(l)'
  <2>1. OnceOK(l) /\ ResultOK(l)
    BY <1>1 DEF ProgressOK
  <2>2. Touches(l)' = Touches(l)
    BY <1>1 DEF Touches
  <2>3. OnceOK(l)'
    BY <1>1, <2>1, <2>2 DEF OnceOK, Alone, Source
  <2>4. Tree(Len(request))'[l] = Tree(Len(request))[l]
    BY <1>1, <1>2 DEF Tree
  <2>5. ResultOK(l)'
    BY <1>1, <1>2, <2>1, <2>4 DEF ResultOK
  <2> QED
    BY <2>3, <2>5
<1> QED
  BY <1>3, <1>4 DEF ProgressOK

\* The rollback and the revert are over what the request made.
LEMMA ProgressBack ==
    ASSUME TypeOK, OrderOK, ProgressOK,
           RollbackEntry \/ RollbackDone \/ RevertEntry \/ Done
    PROVE  OrderOK' /\ ProgressOK'
<1>1. CASE Done
  BY <1>1 DEF Done, OrderOK, ProgressOK
<1>2. CASE RollbackEntry \/ RollbackDone \/ RevertEntry
  <2>1. /\ phase \in {"rollback", "done"} /\ phase' \in {"rollback", "done"}
        /\ UNCHANGED <<server, todo, left, backup, err, before, request>>
        /\ ~ err => /\ phase = "done" /\ phase' = "done" /\ UNCHANGED app
                    /\ server.updates => UNCHANGED root
    BY <1>2 DEF RollbackEntry, RollbackDone, RevertEntry, OrderOK, Reverts
  <2>2. phase' = "rollback" => phase = "rollback"
    BY <1>2 DEF RollbackEntry, RollbackDone, RevertEntry
  <2>3. At' = At /\ (phase' = "done" /\ phase = "rollback" => todo = <<>>)
    BY <1>2, <2>1 DEF At, RollbackEntry, RollbackDone, RevertEntry, OrderOK
  <2>4. OrderOK'
    BY <2>1, <2>2, <2>3 DEF OrderOK
  <2>5. ASSUME NEW l \in Leaves
        PROVE  OnceOK(l)' /\ ResultOK(l)'
    <3>1. OnceOK(l) /\ ResultOK(l)
      BY <2>1 DEF ProgressOK
    <3>2. Touches(l)' = Touches(l)
      BY <2>1 DEF Touches
    <3>3. OnceOK(l)'
      BY <2>1, <3>1, <3>2 DEF OnceOK, Alone, Source
    <3>4. ResultOK(l)'
      BY <2>1, <3>1 DEF ResultOK, Tree
    <3> QED
      BY <3>3, <3>4
  <2> QED
    BY <2>4, <2>5 DEF ProgressOK
<1> QED
  BY <1>1, <1>2

-----------------------------------------------------------------------------
(* What others see.                                                          *)

LEMMA ProgressStep == AtomicInv /\ [Next]_vars => OrderOK' /\ ProgressOK'
<1> SUFFICES ASSUME AtomicInv, [Next]_vars
             PROVE  OrderOK' /\ ProgressOK'
  OBVIOUS
<1>0. TypeOK /\ PhaseOK /\ OrderOK /\ ProgressOK /\ TypeOK'
  BY TypeStep DEF AtomicInv, SetInv
<1>1. UNCHANGED vars => OrderOK' /\ ProgressOK'
  <2> SUFFICES ASSUME UNCHANGED vars
               PROVE  OrderOK' /\ ProgressOK'
    OBVIOUS
  <2>1. At' = At /\ Tree(At)' = Tree(At) /\ \A k : Tree(k)' = Tree(k)
    BY DEF vars, At, Tree
  <2>2. OrderOK'
    BY <1>0, <2>1 DEF vars, OrderOK
  <2>3. ASSUME NEW l \in Leaves
        PROVE  /\ Touches(l)' = Touches(l) /\ Reached(l)' = Reached(l)
               /\ Tree(IF Reached(l) THEN At + 1 ELSE At)'[l] =
                    Tree(IF Reached(l) THEN At + 1 ELSE At)[l]
    BY <2>1 DEF vars, Touches, Reached, Tree
  <2>4. ASSUME NEW l \in Leaves, OnceOK(l)
        PROVE  OnceOK(l)'
    BY <2>1, <2>3, <2>4 DEF vars, OnceOK, Alone, Source
  <2>5. ASSUME NEW l \in Leaves, ResultOK(l)
        PROVE  ResultOK(l)'
    BY <2>1, <2>3, <2>5 DEF vars, ResultOK, Tree
  <2> QED
    BY <1>0, <2>2, <2>4, <2>5 DEF vars, ProgressOK
<1>2. \A req \in Requests : StartSet(req) \/ StartLoad(req) => OrderOK' /\ ProgressOK'
  BY <1>0, ProgressStart
<1>3. NothingToWrite \/ NodeFails \/ LoadFails => OrderOK' /\ ProgressOK'
  BY <1>0, ProgressAborted DEF NothingToWrite, NodeFails, LoadFails
<1>4. NextOperation \/ OperationDone => OrderOK' /\ ProgressOK'
  BY <1>0, ProgressNext, ProgressDone
<1>5. \A n \in Nodes : NodeAccepted(n) \/ NodeRefused(n) => OrderOK' /\ ProgressOK'
  BY <1>0, ProgressAccepted, ProgressRefused
<1>6. LoadAccepted \/ LoadRefused => OrderOK' /\ ProgressOK'
  BY <1>0, ProgressLoad
<1>7. End \/ RollbackEntry \/ RollbackDone \/ RevertEntry \/ Done => OrderOK' /\ ProgressOK'
  BY <1>0, ProgressEnd, ProgressBack
<1> QED
  BY <1>1, <1>2, <1>3, <1>4, <1>5, <1>6, <1>7, NextCases

LEMMA AtomicInit == Init => AtomicInv
<1>1. Init => SetInv
  BY TypeInit DEF Init, SetInv, PhaseOK, LeavesOK
<1>2. Init => OrderOK /\ ProgressOK
  BY DEF Init, OrderOK, ProgressOK
<1> QED
  BY <1>1, <1>2 DEF AtomicInv

LEMMA AtomicStep == AtomicInv /\ [Next]_vars => AtomicInv'
BY TypeStep, PhaseStep, LeavesStep, ProgressStep DEF AtomicInv, SetInv

\* setDone() without an error leaves what the request asks for, or, as after an
\* error, what was there.
LEMMA DoneResult ==
    ASSUME AtomicInv, Done
    PROVE  /\ ~ err /\ server.updates => root = Atomic!Result(before.root, request)
           /\ Reverts => \A l \in Leaves \ Atomic!Twice(request) : root[l] = before.root[l]
<1>1. TypeOK /\ phase = "done" /\ (Reverts => pos > Len(backup))
  BY DEF Done, AtEnd, AtomicInv, SetInv
<1>2. ASSUME ~ err, server.updates
      PROVE  root = Atomic!Result(before.root, request)
  <2>1. \A l \in Leaves : root[l] = Tree(Len(request))[l]
    BY <1>1, <1>2 DEF AtomicInv, ProgressOK, ResultOK
  <2>2. Tree(Len(request)) \in Trees
    BY <1>1, TreeFacts
  <2>3. root = Tree(Len(request))
    BY <1>1, <2>1, <2>2 DEF TypeOK, Trees, Atomic!Trees
  <2> QED
    BY <2>3 DEF Tree, Atomic!Result
<1>3. ASSUME Reverts, NEW l \in Leaves \ Atomic!Twice(request)
      PROVE  root[l] = before.root[l]
  <2>1. Alone(l)
    BY <1>1 DEF AtomicInv, ProgressOK, OnceOK
  <2>2. LeafOK(l)
    BY <1>1 DEF AtomicInv, SetInv, LeavesOK
  <2>3. \A i \in Touches(l) : i < pos
    BY <1>1, <1>3, TouchesType DEF TypeOK
  <2> QED
    BY <1>1, <1>3, <2>1, <2>2, <2>3 DEF LeafOK, BackOK, RestOK
<1> QED
  BY <1>2, <1>3

\* Others see nothing of a request before setDone(); then a step of AtomicSet.
LEMMA RefinementStep ==
    ASSUME AtomicInv, [Next]_vars
    PROVE  [Atomic!Next]_<<committed, answered, server.updates>>
<1>0. TypeOK
  BY DEF AtomicInv, SetInv
<1>1. UNCHANGED server
  BY NextCases DEF vars, StartSet, StartLoad, Start, NextOperation, OperationDone, NothingToWrite,
     NodeFails, NodeAccepted, NodeRefused, LoadAccepted, LoadRefused, LoadFails, End,
     RollbackEntry, RollbackDone, RevertEntry, Done
<1>2. ASSUME phase # "idle", phase' # "idle", UNCHANGED before
      PROVE  UNCHANGED <<committed, answered, server.updates>>
  BY <1>1, <1>2 DEF committed, answered
<1>3. ASSUME NEW req \in Requests, StartSet(req) \/ StartLoad(req)
      PROVE  UNCHANGED <<committed, answered, server.updates>>
  BY <1>1, <1>3 DEF StartSet, StartLoad, Start, committed, answered
<1>4. CASE UNCHANGED vars
  BY <1>4 DEF vars, committed, answered
<1>5. ASSUME Done
      PROVE  Atomic!Next
  <2>1. /\ phase = "done" /\ phase' = "idle" /\ UNCHANGED <<root, err, server>>
    BY <1>5 DEF Done, AtEnd
  <2>2. /\ committed = before.root /\ committed' = root
        /\ answered' = err /\ root \in Trees
    BY <1>0, <2>1 DEF committed, answered, TypeOK
  <2>3. request \in Requests
    BY <2>1 DEF AtomicInv, OrderOK
  <2>4. CASE err
    <3>1. Atomic!Fail(request)
      BY <1>5, <2>2, <2>4, DoneResult DEF Atomic!Fail, Atomic!Revert, Reverts
    <3> QED
      BY <2>1, <2>2, <2>3, <3>1 DEF Atomic!Next, Trees
  <2>5. CASE ~ err
    <3>1. Atomic!Succeed(request)
      BY <1>5, <2>2, <2>5, DoneResult DEF Atomic!Succeed, Atomic!Revert, Reverts
    <3> QED
      BY <2>1, <2>2, <2>3, <3>1 DEF Atomic!Next, Trees
  <2> QED
    BY <2>4, <2>5
<1>6. NextOperation \/ OperationDone \/ NothingToWrite \/ NodeFails
      => UNCHANGED <<committed, answered, server.updates>>
  BY <1>2 DEF NextOperation, OperationDone, NothingToWrite, NodeFails, Abort
<1>7. \A n \in Nodes : NodeAccepted(n) \/ NodeRefused(n)
                       => UNCHANGED <<committed, answered, server.updates>>
  BY <1>2 DEF NodeAccepted, NodeRefused, Abort
<1>8. LoadAccepted \/ LoadRefused \/ LoadFails
      => UNCHANGED <<committed, answered, server.updates>>
  BY <1>2 DEF LoadAccepted, LoadRefused, LoadFails, Abort
<1>9. End \/ RollbackEntry \/ RollbackDone \/ RevertEntry
      => UNCHANGED <<committed, answered, server.updates>>
  BY <1>2 DEF End, RollbackEntry, RollbackDone, RevertEntry
<1> QED
  BY <1>3, <1>4, <1>5, <1>6, <1>7, <1>8, <1>9, NextCases

\* Others see each Set and Load as one step: all of the request when it was answered
\* without an error and the server keeps the data, and otherwise nothing of it, but
\* for the leaves it came to twice.  (set.go, server.go:568)
THEOREM SetIsAtomic == Spec => AtomicSpec
<1>1. Init => Atomic!Init
  BY SetAssumption DEF SetAssumption, Servers, Init, Atomic!Init, committed, answered, Trees
<1>2. AtomicInv /\ [Next]_vars => [Atomic!Next]_<<committed, answered, server.updates>>
  BY RefinementStep
<1> QED
  BY <1>1, <1>2, AtomicInit, AtomicStep, PTL DEF Spec, AtomicSpec, Atomic!Spec

\* The application was told every change of a request that was answered without an
\* error: where it agreed with the tree before, it has what the request asks for.
\* (execSetCallback, set.go)
THEOREM ApplicationFollows == Spec => []AppFollows
<1>1. AtomicInv => AppFollows
  <2> SUFFICES ASSUME AtomicInv, AtEnd, ~ err, server.callback, NEW l \in Leaves,
                      before.app[l] = before.root[l]
               PROVE  app[l] = Atomic!Result(before.root, request)[l]
    BY DEF AppFollows
  <2> QED
    BY DEF AtEnd, AtomicInv, ProgressOK, ResultOK, Tree, Atomic!Result
<1> QED
  BY <1>1, AtomicInit, AtomicStep, PTL DEF Spec
=============================================================================
