--------------------------- MODULE SetTransaction ---------------------------
(***************************************************************************)
(* The Set RPC and Load: the operations of a request are done one node     *)
(* after the other on the tree, each with a backup entry and a call of the *)
(* application's SetCallback; an error ends the transaction with a         *)
(* rollback of the callbacks and a revert of the tree.                     *)
(*                                                                         *)
(* src/server/set.go     setStart, setDelete, setReplace, setUpdate,       *)
(*                       setLoad, execSetCallback, setRollback, setEnd,    *)
(*                       setDone                                           *)
(* src/server/server.go  set, Load                                         *)
(*                                                                         *)
(* All of it happens under Server.Lock(): nobody else sees the tree before *)
(* phase is "idle" again.                                                  *)
(***************************************************************************)
EXTENDS Integers, Sequences, FiniteSets

CONSTANTS
    Leaves, Vals, Absent, Nodes, Cover, Requests,  \* as in AtomicSet
    Root,            \* the node "/"
    Options,         \* how the server may have been set up
    Faults,          \* whether an operation, SetStart, SetEnd or SetCallback may fail
    MaxSets          \* bound: the number of requests

VARIABLES
    server,    \* setUpdatedByServer, setCallback # nil, setTransaction # nil
    root,      \* Server.Root
    app,       \* the configuration of the application behind SetCallback
    phase,     \* where set() or Load() stands
    todo,      \* the operations that are left
    left,      \* the nodes that are left of the operation at work
    backup,    \* Server.setBackup
    err,       \* whether an error was met; when idle: the answer to the last request
    pos,       \* the entry setRollback() or setDone() has come to
    refused,   \* whether SetCallback refused a rollback, whose error is ignored
    before,    \* the tree, the application's configuration and err at setStart()
    request,   \* the request at work
    sets       \* the requests so far

vars == <<server, root, app, phase, todo, left, backup, err, pos, refused, before, request, sets>>

\* The vocabulary of requests, and the tree as others see it.
committed == IF phase = "idle" THEN root ELSE before.root
answered  == IF phase = "idle" THEN err ELSE before.err
Atomic == INSTANCE AtomicSet
          WITH root <- committed, failed <- answered, updatedByServer <- server.updates

Trees == Atomic!Trees
Servers == [updates : BOOLEAN, callback : BOOLEAN, transaction : BOOLEAN]
Rank(kind) == CASE kind = "delete" -> 1 [] kind = "replace" -> 2 [] OTHER -> 3

\* set() does the deletes of a request first, then its replaces and updates.
ASSUME SetAssumption ==
    /\ Absent \notin Vals
    /\ Cover \in [Nodes -> SUBSET Leaves]
    /\ Root \in Nodes /\ Cover[Root] = Leaves
    /\ Requests \subseteq Seq(Atomic!Operations)
    /\ \A req \in Requests : \A i, j \in DOMAIN req :
           i < j => Rank(req[i].kind) <= Rank(req[j].kind)
    /\ Options \subseteq Servers
    /\ Faults \in BOOLEAN
    /\ MaxSets \in Nat

Entries == [node : Nodes, cur : Trees, new : Trees, executed : BOOLEAN]

\* The subtree of n is taken from another tree.
Graft(t, n, from) == [l \in Leaves |-> IF l \in Cover[n] THEN from[l] ELSE t[l]]

-----------------------------------------------------------------------------
Init ==
    /\ server \in Options
    /\ root \in Trees
    /\ app = root
    /\ phase = "idle"
    /\ todo = <<>>
    /\ left = {}
    /\ backup = <<>>
    /\ err = FALSE
    /\ pos = 1
    /\ refused = FALSE
    /\ before = [root |-> root, app |-> app, err |-> FALSE]
    /\ request = <<>>
    /\ sets = 0

\* s.Lock() and setStart(false).
Start(req, to) ==
    /\ phase = "idle" /\ sets < MaxSets
    /\ sets' = sets + 1
    /\ backup' = <<>>
    /\ before' = [root |-> root, app |-> app, err |-> err]
    /\ request' = req
    /\ refused' = FALSE
    /\ \/ phase' = to /\ todo' = req /\ err' = FALSE
       \/ /\ server.transaction /\ Faults
          /\ phase' = "end" /\ todo' = <<>> /\ err' = TRUE
    /\ UNCHANGED <<server, root, app, left, pos>>

StartSet(req) == Start(req, "next")

\* Load() is a replacement of the root by any tree.
LoadRequest(op) == op.kind = "replace" /\ op.nodes = {Root}
StartLoad(req) == Len(req) = 1 /\ LoadRequest(req[1]) /\ Start(req, "load")

\* An operation begins: its path is looked up.
NextOperation ==
    /\ phase = "next" /\ todo # <<>>
    /\ left' = Atomic!Targets(root, Head(todo))
    /\ left' # {} \/ Head(todo).kind = "delete"
    /\ phase' = "nodes"
    /\ UNCHANGED <<server, root, app, todo, backup, err, pos, refused, before, request, sets>>

OperationDone ==
    /\ phase = "nodes" /\ left = {}
    /\ todo' = Tail(todo)
    /\ phase' = "next"
    /\ UNCHANGED <<server, root, app, left, backup, err, pos, refused, before, request, sets>>

\* The operations after the one that failed are reported as aborted.
Abort ==
    /\ err' = TRUE
    /\ todo' = <<>>
    /\ left' = {}
    /\ phase' = "end"

\* A replace or update whose path has a wildcard and matches nothing.
NothingToWrite ==
    /\ phase = "next" /\ todo # <<>>
    /\ Atomic!Targets(root, Head(todo)) = {} /\ Head(todo).kind # "delete"
    /\ Abort
    /\ UNCHANGED <<server, root, app, backup, pos, refused, before, request, sets>>

\* The path is invalid, or the node it names is read-only, or its value cannot
\* be converted: the operation ends before it changes the node.
NodeFails ==
    /\ Faults
    /\ \/ phase = "next" /\ todo # <<>>
       \/ phase = "nodes" /\ left # {}
    /\ Abort
    /\ UNCHANGED <<server, root, app, backup, pos, refused, before, request, sets>>

\* What an operation makes of the subtree of one node.
NodeResult(op, n) ==
    LET kept == IF op.kind = "update" THEN root ELSE [l \in Leaves |-> Absent]
    IN  Graft(root, n, [l \in Leaves |->
                          IF op.kind # "delete" /\ l \in op.leaves THEN op.val ELSE kept[l]])

\* Mutant: the entry is made after the node was changed.
BackupLate(n, new) ==
    backup' = Append(backup, [node |-> n, cur |-> new, new |-> new, executed |-> server.callback])

Backup(n, new) ==
    backup' = Append(backup, [node |-> n, cur |-> root, new |-> new, executed |-> server.callback])

\* Mutant: the callback gets the old node.
NodeAcceptedOld(n) ==
    /\ phase = "nodes" /\ n \in left
    /\ LET new == NodeResult(Head(todo), n)
       IN  /\ root' = new
           /\ Backup(n, new)
           /\ app' = IF server.callback THEN Graft(app, n, root) ELSE app
    /\ left' = left \ {n}
    /\ UNCHANGED <<server, phase, todo, err, pos, refused, before, request, sets>>

\* One node of setDelete(), setReplace() or setUpdate(); the callback accepts it.
NodeAccepted(n) ==
    /\ phase = "nodes" /\ n \in left
    /\ LET new == NodeResult(Head(todo), n)
       IN  /\ root' = new
           /\ Backup(n, new)
           /\ app' = IF server.callback THEN Graft(app, n, new) ELSE app
    /\ left' = left \ {n}
    /\ UNCHANGED <<server, phase, todo, err, pos, refused, before, request, sets>>

\* The callback refuses it: the tree is changed, and the entry is there.
NodeRefused(n) ==
    /\ Faults /\ server.callback
    /\ phase = "nodes" /\ n \in left
    /\ LET new == NodeResult(Head(todo), n) IN root' = new /\ Backup(n, new)
    /\ Abort
    /\ UNCHANGED <<server, app, pos, refused, before, request, sets>>

\* setLoad() calls back before it changes the tree.
LoadAccepted ==
    /\ phase = "load"
    /\ LET new == NodeResult(Head(todo), Root)
       IN  /\ root' = new
           /\ Backup(Root, new)
           /\ app' = IF server.callback THEN new ELSE app
    /\ todo' = <<>>
    /\ phase' = "end"
    /\ UNCHANGED <<server, left, err, pos, refused, before, request, sets>>

LoadRefused ==
    /\ Faults /\ server.callback
    /\ phase = "load"
    /\ Backup(Root, NodeResult(Head(todo), Root))
    /\ Abort
    /\ UNCHANGED <<server, root, app, pos, refused, before, request, sets>>

LoadFails ==
    /\ Faults
    /\ phase = "load"
    /\ Abort
    /\ UNCHANGED <<server, root, app, backup, pos, refused, before, request, sets>>

\* Mutant: the entries are counted from 0.
EndZero ==
    /\ phase \in {"next", "end"} /\ todo = <<>>
    /\ err' \in {err} \cup (IF server.transaction /\ Faults THEN {TRUE} ELSE {})
    /\ phase' = IF err' THEN "rollback" ELSE "done"
    /\ pos' = 0
    /\ UNCHANGED <<server, root, app, todo, left, backup, refused, before, request, sets>>

\* setEnd(err), and setStart(true) when there is an error now.
End ==
    /\ phase \in {"next", "end"} /\ todo = <<>>
    /\ err' \in {err} \cup (IF server.transaction /\ Faults THEN {TRUE} ELSE {})
    /\ phase' = IF err' THEN "rollback" ELSE "done"
    /\ pos' = 1
    /\ UNCHANGED <<server, root, app, todo, left, backup, refused, before, request, sets>>

\* Mutant: a rollback calls back with the new node.
RollbackNew ==
    /\ phase = "rollback" /\ server.transaction /\ pos <= Len(backup)
    /\ LET e == backup[pos]
       IN  IF e.executed
           THEN \/ app' = Graft(app, e.node, e.new) /\ UNCHANGED refused
                \/ Faults /\ refused' = TRUE /\ UNCHANGED app
           ELSE UNCHANGED <<app, refused>>
    /\ pos' = pos + 1
    /\ UNCHANGED <<server, root, phase, todo, left, backup, err, before, request, sets>>

\* setRollback(): the callbacks of the executed entries, first to last; without
\* a transaction it returns at once.
RollbackEntry ==
    /\ phase = "rollback" /\ server.transaction /\ pos <= Len(backup)
    /\ LET e == backup[pos]
       IN  IF e.executed
           THEN \/ app' = Graft(app, e.node, e.cur) /\ UNCHANGED refused
                \/ Faults /\ refused' = TRUE /\ UNCHANGED app
           ELSE UNCHANGED <<app, refused>>
    /\ pos' = pos + 1
    /\ UNCHANGED <<server, root, phase, todo, left, backup, err, before, request, sets>>

RollbackDone ==
    /\ phase = "rollback"
    /\ server.transaction => pos > Len(backup)
    /\ phase' = "done"
    /\ pos' = 1
    /\ UNCHANGED <<server, root, app, todo, left, backup, err, refused, before, request, sets>>

\* Mutant: an error does not revert the tree.
RevertsNoError == ~ server.updates

\* setDone(): the tree is reverted, first entry to last.
Reverts == ~ server.updates \/ err

RevertEntry ==
    /\ phase = "done" /\ Reverts /\ pos <= Len(backup)
    /\ root' = Graft(root, backup[pos].node, backup[pos].cur)
    /\ pos' = pos + 1
    /\ UNCHANGED <<server, app, phase, todo, left, backup, err, refused, before, request, sets>>

AtEnd == phase = "done" /\ (Reverts => pos > Len(backup))

Done ==
    /\ AtEnd
    /\ phase' = "idle"
    /\ backup' = <<>>
    /\ pos' = 1
    /\ UNCHANGED <<server, root, app, todo, left, err, refused, before, request, sets>>

Next ==
    \/ \E req \in Requests : StartSet(req) \/ StartLoad(req)
    \/ NextOperation \/ OperationDone \/ NothingToWrite \/ NodeFails
    \/ \E n \in Nodes : NodeAccepted(n) \/ NodeRefused(n)
    \/ LoadAccepted \/ LoadRefused \/ LoadFails
    \/ End \/ RollbackEntry \/ RollbackDone \/ RevertEntry \/ Done

Spec == Init /\ [][Next]_vars

-----------------------------------------------------------------------------
TypeOK ==
    /\ root \in Trees /\ app \in Trees
    /\ phase \in {"idle", "next", "nodes", "load", "end", "rollback", "done"}
    /\ todo \in Seq(Atomic!Operations)
    /\ left \subseteq Nodes
    /\ backup \in Seq(Entries)
    /\ err \in BOOLEAN /\ refused \in BOOLEAN
    /\ pos \in Nat \ {0}
    /\ before \in [root : Trees, app : Trees, err : BOOLEAN]
    /\ server \in Servers
    /\ request \in Seq(Atomic!Operations)
    /\ sets \in 0 .. MaxSets

\* The entries of the backup that cover a leaf.
Touches(l) == {i \in DOMAIN backup : l \in Cover[backup[i].node]}

\* Not kept: set.go:139 "The set data is reverted to the previous data".
Reverted == AtEnd /\ Reverts => root = before.root

\* It is for the leaves that no more than one entry covers: what an entry keeps
\* is what the tree had there at setStart().
UntangledReverted ==
    AtEnd /\ Reverts =>
        \A l \in Leaves : Cardinality(Touches(l)) <= 1 => root[l] = before.root[l]

\* Not kept without a transaction: set.go:165 "setRollback executes setIndirect
\* to revert the configuration": after a failed request the application has its
\* old configuration, if it refused no rollback.
AppReverted == AtEnd /\ err /\ ~ refused => app = before.app

\* With a transaction, the application's leaves that no more than one entry
\* covers are reverted after an error; that includes the node it refused.
AppUntangledReverted ==
    AtEnd /\ err /\ ~ refused /\ server.transaction =>
        \A l \in Leaves : Cardinality(Touches(l)) <= 1 =>
            app[l] \in {before.app[l], before.root[l]}

\* The application was told every change of a successful request: where it
\* agreed with the tree before, it has what the request asks for.
AppFollows ==
    AtEnd /\ ~ err /\ server.callback =>
        \A l \in Leaves : before.app[l] = before.root[l] =>
            app[l] = Atomic!Result(before.root, request)[l]

\* What others see of the tree is all of a request when it was answered without
\* an error and the server keeps the data, and otherwise nothing of it, but for
\* the leaves it came to twice.
AtomicSpec == Atomic!Spec
=============================================================================
