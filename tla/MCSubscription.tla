--------------------------- MODULE MCSubscription ---------------------------
(* Values of the constants of Subscription for the model checker. *)
EXTENDS Subscription, TLC

CONSTANTS a, b, i, x1, x2, w1

OnChange(q, heartbeat) ==
    [path |-> q, submode |-> "ON_CHANGE", sample |-> 0, heartbeat |-> heartbeat, suppress |-> FALSE]
Sampled(q, sample, heartbeat) ==
    [path |-> q, submode |-> "SAMPLE", sample |-> sample, heartbeat |-> heartbeat, suppress |-> TRUE]
Target(q) ==
    [path |-> q, submode |-> "TARGET_DEFINED", sample |-> 0, heartbeat |-> 0, suppress |-> FALSE]

Stream(items) == [mode |-> "STREAM", list |-> 1, items |-> items]
Poll(items)   == [mode |-> "POLL", list |-> 1, items |-> items]

\* One client asks for two paths with the same options, one of them that of the
\* entries, and asks again while the subscriber of both is served.  The other client
\* polls, has a path sampled, or has a subscription refused after one that is not.
StreamAndPoll ==
    (x1 :> {Stream(<<OnChange(i, 2), OnChange(b, 2)>>)})
    @@ (x2 :> {Poll(<<OnChange(i, 0)>>),
               Stream(<<Target(b)>>),
               Stream(<<Sampled(b, 3, 4), Sampled(b, 3, 2)>>)})
TwoAndOne == (x1 :> 2) @@ (x2 :> 1)

\* A Set or a Load replaces the root: no entry is left.
RootReplaced == {[ids |-> 1 .. 2, paths |-> {}]}

\* Two subscriptions that differ in the path only.
Merging == (x1 :> {Stream(<<OnChange(a, 0), OnChange(b, 0)>>)})
Once == (x1 :> 1)
=============================================================================
