---------------------------- MODULE ChangeEvents ----------------------------
(***************************************************************************)
(* Events: what changes of the data tree are called on their way from the  *)
(* tree to a client (changeEvent in src/server/subscribe.go).              *)
(***************************************************************************)

CONSTANTS
    Paths,        \* the paths of the leaves of the data tree
    Vals,         \* the values of a leaf
    Absent,       \* the leaf is not in the tree; in an event: deleted
    Same          \* in an event: the leaf is not mentioned

\* A changeEvent says of every leaf its new value, Absent or Same.  It stands for
\* the three members of the code's struct: changes (the values), updated and
\* deleted (the paths).
Leaves  == Vals \cup {Absent}
Events  == [Paths -> Leaves \cup {Same}]
NoEvent == [q \in Paths |-> Same]

Overlay(old, chg) ==
    [q \in Paths |-> IF chg[q] = Same THEN old[q] ELSE chg[q]]

\* What EventReceive() makes of a pending event: the values gathered in changes
\* stay when a delete follows, and the response lists deletes before updates.
Collect(old, chg) ==
    [q \in Paths |-> IF chg[q] = Same \/ (chg[q] = Absent /\ old[q] \in Vals)
                     THEN old[q] ELSE chg[q]]
=============================================================================
