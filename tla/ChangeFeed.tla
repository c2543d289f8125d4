----------------------------- MODULE ChangeFeed -----------------------------
(***************************************************************************)
(* What ON_CHANGE telemetry promises a client: it gets the tree as it is   *)
(* and after it, in the order in which they were made, all changes since   *)
(* its registration that come with an event, each once.  A failure loses   *)
(* the rest of an event that is being raised, which then is one with the   *)
(* next, or a change that is being sent, after which no more are sent.     *)
(* No locks, channels or goroutines are left of it.                        *)
(***************************************************************************)
EXTENDS ChangeEvents, Integers, Sequences

CONSTANTS
    Sess,         \* the Subscribe RPCs
    Subs,         \* the subscribers
    SessOf,       \* SessOf[s]: the RPC of s
    Watch,        \* Watch[s]: the leaves s is told of
    UpdatesOnly,  \* those that do not ask for the tree as it is
    Faults        \* whether anything may fail

VARIABLES
    root,         \* the data tree
    receivers,    \* who is registered for its changes
    due,          \* due[s]: what the answer to s goes on with: nothing, the tree as it
                  \* is, the sync_response, the start of the changes
    streaming,    \* who is sent changes
    unsent,       \* unsent[s]: the changes s is still to be sent, oldest first
    open,         \* those whose last unsent change is not complete
    sent,         \* sent[x]: the responses of x that its client has not got yet
    view          \* view[s]: what s knows of the leaves

Trees == [Paths -> Leaves]

feedVars == <<due, streaming, unsent, open, sent, view>>
vars     == <<root, receivers, feedVars>>

Snapshot(s) ==
    [q \in Paths |-> IF q \in Watch[s] /\ root[q] # Absent THEN root[q] ELSE Same]

Init ==
    /\ root = [q \in Paths |-> Absent]
    /\ receivers = {}
    /\ due = [s \in Subs |-> "nothing"]
    /\ streaming = {}
    /\ unsent = [s \in Subs |-> <<>>]
    /\ open = {}
    /\ sent = [x \in Sess |-> <<>>]
    /\ view = [s \in Subs |-> [q \in Paths |-> Absent]]

\* What s is to be told when the leaves of Q become those of tree.
News(s, tree, Q) ==
    [q \in Paths |-> IF q \in Watch[s] \cap Q /\ tree[q] # root[q] THEN tree[q] ELSE Same]

\* All but the last of the changes.
Begun(changes) == SubSeq(changes, 1, Len(changes) - 1)

\* Whoever watches one of the leaves gets the news, as a change of its own or with
\* what was not completed.
Tell(tree, Q) ==
    LET told == {s \in receivers : News(s, tree, Q) # NoEvent}
    IN  /\ UNCHANGED <<receivers, view, sent, streaming, due>>
        /\ open' = open \cup told
        /\ unsent' = [s \in Subs |->
             CASE s \in told \ open -> Append(unsent[s], News(s, tree, Q))
               [] s \in told \cap open ->
                    Append(Begun(unsent[s]), Collect(unsent[s][Len(unsent[s])], News(s, tree, Q)))
               [] OTHER -> unsent[s]]

\* The tree changes.  Unless something failed, all changes before are complete.
Change ==
    /\ root' \in Trees \ {root}
    /\ Faults \/ open = {}
    /\ Tell(root', Paths)

\* Only of some of the leaves is told, and the tree may stay as it is.
ChangeFails ==
    /\ Faults
    /\ <<root, unsent, open>>' # <<root, unsent, open>>
    /\ \E tree \in Trees, Q \in SUBSET Paths :
         /\ tree # root /\ root' \in {root, tree}
         /\ Tell(tree, Q)

Complete(s) ==
    /\ s \in open
    /\ open' = open \ {s}
    /\ UNCHANGED <<root, receivers, due, streaming, unsent, view, sent>>

\* A Set RPC changes it without an event.
SilentChange ==
    /\ root' \in Trees \ {root}
    /\ UNCHANGED <<receivers, feedVars>>

Register(s) ==
    /\ s \notin receivers
    /\ receivers' = receivers \cup {s}
    /\ UNCHANGED <<root, feedVars>>

\* A change that is not complete is lost.
Unregister(s) ==
    /\ s \in receivers
    /\ receivers' = receivers \ {s}
    /\ s \notin open \/ Faults
    /\ open' = open \ {s}
    /\ unsent' = [unsent EXCEPT ![s] = IF s \in open THEN Begun(@) ELSE @]
    /\ UNCHANGED <<root, due, streaming, view, sent>>

\* A request of the client: it is to have the tree, if it asks for it and there is
\* something in it, and the sync_response.
Ask(s) ==
    /\ s \in receivers /\ due[s] = "nothing"
    /\ due' = [due EXCEPT ![s] = IF s \in UpdatesOnly \/ Snapshot(s) = NoEvent
                                THEN "sync" ELSE "tree"]
    /\ UNCHANGED <<root, receivers, streaming, view, unsent, open, sent>>

Respond(s, e) ==
    sent' = [sent EXCEPT ![SessOf[s]] = Append(@, [to |-> s, chg |-> e])]

SendTree(s) ==
    /\ due[s] = "tree" /\ s \in receivers
    /\ due' = [due EXCEPT ![s] = "sync"]
    /\ Respond(s, Snapshot(s))
    /\ UNCHANGED <<root, receivers, streaming, unsent, open, view>>

\* The tree cannot be sent, and the answer ends.
SendTreeFails(s) ==
    /\ Faults
    /\ due[s] = "tree"
    /\ due' = [due EXCEPT ![s] = "nothing"]
    /\ UNCHANGED <<root, receivers, streaming, unsent, open, sent, view>>

\* The sync_response says nothing of the leaves.
SendSync(s) ==
    /\ due[s] = "sync" /\ s \in receivers
    /\ due' = [due EXCEPT ![s] = "changes"]
    /\ Respond(s, NoEvent)
    /\ UNCHANGED <<root, receivers, streaming, unsent, open, view>>

\* Changes are sent only now, unless they are sent already.
Start(s) ==
    /\ due[s] = "changes" /\ s \in receivers
    /\ due' = [due EXCEPT ![s] = "nothing"]
    /\ streaming' = streaming \cup {s}
    /\ UNCHANGED <<root, receivers, view, unsent, open, sent>>

\* s is sent the oldest change, which is complete.
Take(s) ==
    /\ s \in streaming
    /\ unsent[s] # <<>> /\ (s \in open => Len(unsent[s]) > 1)
    /\ unsent' = [unsent EXCEPT ![s] = Tail(@)]
    /\ UNCHANGED <<root, receivers, due, open, view>>

SendChange(s) ==
    /\ Take(s)
    /\ Respond(s, Head(unsent[s]))
    /\ UNCHANGED streaming

\* The change is lost, and no more are sent.
SendChangeFails(s) ==
    /\ Faults
    /\ Take(s)
    /\ streaming' = streaming \ {s}
    /\ UNCHANGED sent

Receive(x) ==
    /\ sent[x] # <<>>
    /\ LET m == Head(sent[x]) IN view' = [view EXCEPT ![m.to] = Overlay(@, m.chg)]
    /\ sent' = [sent EXCEPT ![x] = Tail(@)]
    /\ UNCHANGED <<root, receivers, due, streaming, unsent, open>>

\* The RPC ends: s is sent no more changes, and what is left is dropped once it is
\* not registered any more: its changes, and the responses of the RPC.
Stop(s) ==
    /\ s \in streaming
    /\ streaming' = streaming \ {s}
    /\ UNCHANGED <<root, receivers, due, view, unsent, open, sent>>

DropChanges(s) ==
    /\ s \notin receivers \cup streaming /\ unsent[s] # <<>>
    /\ unsent' = [unsent EXCEPT ![s] = <<>>]
    /\ UNCHANGED <<root, receivers, due, streaming, open, view, sent>>

DropResponses(x) ==
    /\ \A s \in receivers \cup streaming : SessOf[s] # x
    /\ sent[x] # <<>>
    /\ sent' = [sent EXCEPT ![x] = <<>>]
    /\ UNCHANGED <<root, receivers, due, streaming, view, unsent, open>>

Next ==
    \/ \E s \in Subs :
         \/ Complete(s) \/ Register(s) \/ Unregister(s)
         \/ Ask(s) \/ SendTree(s) \/ SendTreeFails(s) \/ SendSync(s)
         \/ Start(s) \/ SendChange(s) \/ SendChangeFails(s)
         \/ Stop(s) \/ DropChanges(s)
    \/ \E x \in Sess : Receive(x) \/ DropResponses(x)
    \/ Change \/ ChangeFails \/ SilentChange

\* Most steps of the server are none of these: TLC tries that first.
Spec == Init /\ [][UNCHANGED vars \/ Next]_vars
=============================================================================
