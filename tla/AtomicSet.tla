----------------------------- MODULE AtomicSet -----------------------------
(***************************************************************************)
(* What a Set RPC does to the data tree as others see it: the whole        *)
(* request takes effect or it is undone, and it is undone when the system, *)
(* not the server, is to bring the data up to date.  A Load is a request   *)
(* that replaces the root.                                                 *)
(***************************************************************************)
EXTENDS Integers, Sequences

CONSTANTS
    Leaves,           \* the leaves of the data tree
    Vals,             \* their values
    Absent,           \* no such leaf
    Nodes,            \* the nodes a request can name
    Cover,            \* Cover[n]: the leaves of the subtree of node n
    Requests          \* the requests: sequences of operations

VARIABLES
    root,             \* Server.Root
    failed,           \* whether the last request was answered with an error
    updatedByServer   \* Server.setUpdatedByServer, which never changes

Trees == [Leaves -> Vals \cup {Absent}]
Kinds == {"delete", "replace", "update"}
Operations == [kind : Kinds, nodes : SUBSET Nodes, leaves : SUBSET Leaves, val : Vals]

Present(t, n) == \E l \in Cover[n] : t[l] # Absent

\* The nodes that an operation is done on: those the path matches, or the one
\* it creates.  A path with a wildcard creates none.
Targets(t, op) ==
    LET found == {n \in op.nodes : Present(t, n)}
    IN  IF found = {} /\ op.kind # "delete" /\ (\E n \in op.nodes : op.nodes = {n})
        THEN op.nodes ELSE found

Apply(t, op) ==
    LET hit == UNION {Cover[n] : n \in Targets(t, op)}
    IN  [l \in Leaves |->
           CASE l \notin hit -> t[l]
             [] l \in hit /\ op.kind # "delete" /\ l \in op.leaves -> op.val
             [] l \in hit /\ op.kind = "update" /\ l \notin op.leaves -> t[l]
             [] OTHER -> Absent]

\* The trees between the operations of a request: After(t, req)[k] is what its
\* first k operations make of t.
After(t, req) ==
    LET after[k \in 0 .. Len(req)] == IF k = 0 THEN t ELSE Apply(after[k - 1], req[k])
    IN  after

Result(t, req) == After(t, req)[Len(req)]

\* The leaves that a request may come to more than once.
Twice(req) ==
    {l \in Leaves : \E i, j \in DOMAIN req : \E n \in req[i].nodes, m \in req[j].nodes :
                        <<i, n>> # <<j, m>> /\ l \in Cover[n] \cap Cover[m]}

Init == root \in Trees /\ ~ failed /\ updatedByServer \in BOOLEAN

\* Nothing of a request stays; of the leaves it comes to twice nothing is said.
Revert(req) == \A l \in Leaves \ Twice(req) : root'[l] = root[l]

Succeed(req) ==
    /\ ~ failed'
    /\ IF updatedByServer THEN root' = Result(root, req) ELSE Revert(req)

Fail(req) == failed' /\ Revert(req)

Next ==
    /\ \E req \in Requests : Succeed(req) \/ Fail(req)
    /\ root' \in Trees
    /\ UNCHANGED updatedByServer

Spec == Init /\ [][Next]_<<root, failed, updatedByServer>>
=============================================================================
