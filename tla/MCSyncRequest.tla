-------------------------- MODULE MCSyncRequest --------------------------
(* Values of the constants of SyncRequest for the model checker. *)
EXTENDS SyncRequest, TLC

CONSTANTS list, qa, ga, gb, p1, p2

\* Two entries of one list, qa of which may be in the tree.
MCSchemaOf == (ga :> list) @@ (gb :> list)
MCNodes == (ga :> {qa}) @@ (gb :> {})

\* The requesters do the same.
MCSymmetry == Permutations({p1, p2})
=============================================================================
