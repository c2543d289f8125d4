---------------------------- MODULE MCTelemetry ----------------------------
(* Values of the constants of Telemetry for the model checker. *)
EXTENDS Telemetry, TLC

CONSTANTS a, b, c, i1, i2, i3, s1, s2, s3, x1, x2, x3, w1, w2

MCVals == {"u", "v"}

\* One session with one subscriber.
OneInfo == (s1 :> i1)
OneSess == (s1 :> x1)
OneWatchA == (s1 :> {a})
OneWatchAB == (s1 :> {a, b})
OneWatchABC == (s1 :> {a, b, c})

\* Two sessions with one subscriber each; s1 watches the entry of s2.
TwoInfo == (s1 :> i1) @@ (s2 :> i2)
TwoSess == (s1 :> x1) @@ (s2 :> x2)
TwoLook == (s1 :> {i2}) @@ (s2 :> {a})

\* One session with two subscribers.
PairSess == (s1 :> x1) @@ (s2 :> x1)
PairWatch == (s1 :> {a, i2}) @@ (s2 :> {a})

Singles == {{a}}
Both == {{a, i2}}
NoBatches == {}
PairsAB == {{a}, {a, b}}
WholeABC == {{a, b, c}}

\* The root is replaced by one that has a only: a is set or stays, the entries go.
NoChanges == {}
RootReplaced == {[q \in Paths |-> IF q = a THEN "u" ELSE Absent]}
=============================================================================
