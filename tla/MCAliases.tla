----------------------------- MODULE MCAliases -----------------------------
(* Values of the constants of Aliases for the model checker. *)
EXTENDS Aliases, TLC

CONSTANTS n1, n2, n3, qa, qb, qc, r1

\* Two server aliases share a path, which the client may define one for, too.
MCServer == (n1 :> qa) @@ (n2 :> qa) @@ (n3 :> qc)
=============================================================================
