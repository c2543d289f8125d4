------------------------- MODULE MCSetTransaction -------------------------
(* Values of the constants of SetTransaction for the model checker. *)
EXTENDS SetTransaction, TLC

CONSTANTS top, box, la, lb, lc

MCCover == (top :> {la, lb, lc}) @@ (box :> {la, lb}) @@ (la :> {la}) @@ (lb :> {lb}) @@ (lc :> {lc})

Del(N) == [kind |-> "delete", nodes |-> N, leaves |-> {}, val |-> "u"]
Rep(N, L, v) == [kind |-> "replace", nodes |-> N, leaves |-> L, val |-> v]
Upd(N, L, v) == [kind |-> "update", nodes |-> N, leaves |-> L, val |-> v]

\* Operations on different leaves, a wildcard and a Load among them.
Separate == {
    <<Del({la, lb})>>,
    <<Del({la}), Rep({lc}, {lc}, "v")>>,
    <<Rep({box}, {la}, "v"), Upd({lc}, {lc}, "u")>>,
    <<Upd({box}, {lb}, "v"), Upd({lc}, {lc}, "v")>>,
    <<Del({lc}), Rep({la}, {la}, "u"), Upd({lb}, {lb}, "v")>>,
    <<Upd({la, lb}, {la, lb}, "v")>>,
    <<Rep({top}, {la, lc}, "u")>>
}

\* Operations that come to a leaf twice.
Tangled == {
    <<Del({la}), Upd({la}, {la}, "v")>>,
    <<Del({la}), Upd({box}, {lb}, "v"), Upd({lc}, {lc}, "v")>>,
    <<Rep({box}, {la}, "u"), Upd({la}, {la}, "v"), Upd({lc}, {lc}, "u")>>
}

Both == Separate \cup Tangled

Setup(updates, callback, transaction) ==
    [updates |-> updates, callback |-> callback, transaction |-> transaction]
Setups == {Setup(TRUE, TRUE, TRUE), Setup(TRUE, TRUE, FALSE), Setup(TRUE, FALSE, FALSE),
           Setup(FALSE, TRUE, TRUE), Setup(FALSE, TRUE, FALSE)}
Indirect == {Setup(FALSE, TRUE, FALSE)}
=============================================================================
