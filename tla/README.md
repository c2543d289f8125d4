# Verification of open-gnmi

TLA+ specifications of the gNMI server in `src/server`, the TLC configurations
that check them on small instances, and TLAPS proofs about the core. Every
definition is translated from the code; line numbers refer to the sources of
this repository.

## 1. The system

The server holds a YANG data tree (`Server.Root`). The program around it
(`src/target`) writes what it learns of the system into the tree; gNMI clients
read it (Get), follow it (Subscribe) and ask for changes (Set). Everything
shared is guarded by `Server.RWMutex`; the event controller, the subscribers,
the sync paths and the aliases have locks of their own, or none.

| Component | State it keeps | Operations | Talks to |
|---|---|---|---|
| Data tree (`data.go`) | `Root`, the RWMutex | `Write`, `Merge`, `Delete` | event controller, with the lock held |
| Event controller (`event.go`) | `receivers`, `ready`, its mutex | `Register`, `Unregister`, `SetEvent`, `setReady` | `EventReceive`/`EventComplete` of subscribers and sync events |
| Subscribe sessions (`subscribe.go`, `server.go`) | `subSession`, `SubSession.Sub`, `respchan`, `shutdown`, `waitgroup` | `startSubSession`, `processSubscribeRequest`, `initTelemetryUpdate`, `run`, `telemetryUpdate`, `Stop`; the responder of `Subscribe` | RWMutex, `onchange`, `respchan`, the client |
| Subscriptions (`subscribe.go`, `internal.go`) | `SubSession.Sub` by key, `subID`, the subscribers' mutex, their entries in the tree | `addSubscription`, `addDynamicSubscription`, `deleteSubscription` | RWMutex, events of the entries |
| Subscriber (`subscribe.go`) | `pending`, the event objects, `onchange`, timers, `expired` | the select of `run`, `EventReceive`, `EventComplete`, poll | as above |
| Set RPC, Load (`set.go`, `server.go`) | `setBackup`, `setSeq` | `set`, `Load`, `setStart` ... `setDone` | application: `SetCallback`, `SetTransaction` |
| Synchronization (`sync.go`) | `syncPath`, `syncEvents`, times | `RegisterSync`, `UnregisterSync`, `SyncRequest`, `syncExec` | events, `SyncCallback` |
| Path aliases (`aliases.go`) | `Alias2Path`, `Path2Alias` per session | `updateServerAliases`, `updateClientAliases`, `ToPath`, `ToAlias` | `respchan` |
| Get, Capabilities, messages, login, netsession, entity, status | none that is shared | formatting, credentials, helpers | not modelled |

What is hard here:

* A change goes from `Write` through `SetEvent`, `pending`, `onchange`, `run()`,
  `respchan` and the responder to the client: two bounded channels and two
  locks, and a snapshot taken meanwhile by the handler. It must not be lost, or
  be overtaken.
* `SetEvent` sends to `onchange` with `Lock` and `EventCtrl.mutex` held, `run()`
  sends to `respchan` with `RLock` held: full channels block the server.
* `Stop()` joins the goroutines, then unregisters, deletes the entry of each
  subscriber below `/telemetry-system/.../dynamic-subscriptions` (which is an
  event for the siblings still registered) and closes channels others send to.
* `pending` is read, used and cleared by `run()` with no lock that `EventReceive`
  takes; a heartbeat uses an event object that is queued afterwards; `expired` is
  filled and emptied by the same goroutine.
* Subscriptions with the same options share a subscriber, whatever request they
  came in; a list may be refused in the middle. The handler locks the subscriber
  and then the tree, a writer with the tree waits for the subscriber's `run()`,
  and `run()` for the subscriber. `subID` is shared by all handlers, unlocked.
* `Load` and `Set` replace the tree or parts of it without events, also between
  the registration of a path, a snapshot or a sample and its use.
* Set is all or nothing, over nodes above and below each other, with callbacks
  that may refuse, a transaction that may fail, and a rollback that may fail.
* `syncExec` reads and sets times that several requesters share, unlocked.

What makes each component correct: changes reach the client in order (data tree,
events, telemetry); nobody sends to what is closed, `Stop()` ends, writers
return (sessions); a sample brings the client up to date and only unchanged
samples are skipped (subscriber); a request takes effect entirely or not at all,
for the tree and the application (Set); what was asked for is synchronized, no
more often than the interval (synchronization); what was asked for is served as
asked, sent at once, shown in the tree and taken down (subscriptions); names and
paths lead back to each other and the client knows the names (aliases).

`PROJECT.json` lists the components, the hazards at their lines, and which
property watches each.

## 2. The modules

`ChangeEvents` - what an event is. `EventCtrl` EXTENDS it: tree, RWMutex,
`Write`/`Merge`/`Delete` and the event controller. `Telemetry` EXTENDS this with
sessions, `run()` goroutines and responders: what a client is told, and when; it
implements `ChangeFeed`, an abstract feed. `Subscription` has the same handlers with several
requests and subscribers that are made, shared and refused, and all their locks,
but not what is sent. `Sampler` is one subscriber with its timers, in any mode.
`SetTransaction` implements `AtomicSet`. `SyncRequest` and `Aliases` stand alone.
`MC...` modules give the constants values. The theorems are in `TelemetryProofs`,
`ServedProofs` and `FeedProofs` (which EXTEND it), `SubscriptionProofs`,
`SamplerProofs`, `SetProofs`, `SyncProofs` and `AliasesProofs`.

### EventCtrl and Telemetry

| Specification | Code |
|---|---|
| `Begin`, `Lock`, `SetEvent`, `EventComplete`, `EndEvents`, `Unlock` | a call of `Write`, `Merge` (one `SetEvent`) or `Delete` (one for each node) |
| `Register`, `Unregister` | the same, under `EventCtrl.mutex` |
| `StartSubSession` | `startSubSession`, under `Lock`, and the start of the responder |
| `ProcessSubscribe`, `AddDynamic`, `RegisterSub`, `InitTelemetryUpdate`, `InitSend`, `StartRun` | `processSubscribeRequest` for the subscribers of `startingList` |
| `SyncCallback` | the application's callback inside `SyncRequest`, which writes |
| `EndOfStream`, `InitFails`, `Joined`, `UnregisterSub`, `DeleteDynamic`, `DeleteSubscription`, `CloseResponses`, `LeaveSubSession` | the end of the RPC and `Stop()`, step by step |
| `RunReceive`, `RunRLock`, `RunSend`, `RunShutdown`, `RunFails` | `run()` and `telemetryUpdate` for an event |
| `RespondTake`, `RespondSend`, `RespondShutdown` | the goroutine started in `Subscribe` |
| `Write`, `SetRPC` | the program's calls; a Set applied by the server itself, or a Load |

A leaf is a path with a value or `Absent`. A `changeEvent` (`changes`, `updated`,
`deleted`) is one function from paths to a new value, `Absent` or `Same`;
`Collect` merges into it as `EventReceive` does. `view` is what the client was
told. While `Lock` is held nobody reads the tree, so the change of the tree and
its event are one step. A subscription's prefix stands for one branch, so that
`telemetryUpdate` sends one response. `silent` is a history variable: the leaves a
subscriber watches whose last change raised no event (`set()` and `Load`), or was
lost in a failure. A waiting `Lock` does not keep readers out,
which allows more than Go's RWMutex does.

The entries of the subscribers are leaves like others. `addDynamicSubscription` may
fail before it merges anything (`AddEntry`), and the handler goes on. The program's
calls (`Batches`) and Set and Load (`SetChanges`) may touch any leaf, so that a
subscriber can be without its entry, or an entry without its subscriber; what the
model says of events does not depend on them.

### ChangeFeed

What is left of telemetry without locks, channels and goroutines: a tree, who is
registered, for each subscriber the changes it is still to be sent (`unsent`) and
whether the last of them is complete (`open`), for each RPC one stream of responses its
client has not got yet (`sent`), how far the answer to a request has come (`due`), and
`view`. A change of the tree (`Change`) appends one event to `unsent` of each receiver
that watches it, which `Complete` closes; `SendTree` and `SendSync` answer the request,
`SendChange` moves the oldest complete change to the stream, and only after the end of
the registration may anything be dropped. A change that fails (`ChangeFails`) tells of
some of the leaves only and leaves the event open, so that the next one goes on with it;
a tree that cannot be sent ends the answer (`SendTreeFails`), a change that cannot be
sent is lost and the last one that is taken (`SendChangeFails`).

`Telemetry` defines the mapping: `Unsent` is the event `run()` has in hand, `onchange`
and the pending event, in this order, and `open` are the subscribers in `ready`; `Sent`
is the response the responder has in hand and `respchan`; `Due` is how far
`initTelemetryUpdate` has come; `streaming` are those with a `run()`. `FeedSpec` is the
abstract specification under this mapping. A responder that takes a response, a `run()`
that takes an event or `RLock`, and all waiting and locking are stutters.

### Subscription

| Specification | Code |
|---|---|
| `Receive`, `AddPath`, `ReadID`, `WriteID`, `Create`, `Refuse` | `processSubscribeRequest`, the loop over the list with `addSubscription` |
| `Key`, `Acceptable`, `StreamConfig` | its pure part: the key, what is refused, the intervals a subscriber gets |
| `LockMutex`, `MergeInfo`, `Merged` | `addDynamicSubscription`: the subscriber's mutex, and with it `Lock` |
| `RegisterSub`, `InitTelemetryUpdate`, `StartRun`, `Started` | the loop over `startingList`; POLL only registers |
| `EndOfStream`, `Joined`, `UnregisterSub`, `DeleteInfo`, `Deleted`, `Leave` | `Stop()` and `deleteSubscription`, subscriber by subscriber |
| `Write`, `WriteDone`, `EventComplete` | a change by the program, `EventComplete` receiver by receiver, with the tree locked |
| `RunReceive`, `RunExpired`, `RunSampling`, `RunLock`, `RunUpdate`, `RunSync`, `RunSynced`, `RunShutdown` | what `run()` locks, in which order |

A subscriber is made for an item of the list, so its item has the options of the
struct; prefix, encoding and `use_aliases` are one value, `list`, because all
items of a request share them. `subID++` is a read and a write; the ID that the
new subscriber gets is read again or is the one just computed, as the compiler
chooses. `asked`, `shown` and `raced` are history. `RunSync` and `Write` are the
same changes of the tree; the changes that a handler's own `SyncRequest` causes
are among those of `Writers`, for a handler holds no lock there.

The callers of `addDynamicSubscription` and of its inverse ignore their errors
(`subscribe.go:863`, `136`): `AddFails` is one before the Merge, `MergeFails` one of
the Merge itself, in which `SetEvent` may have told some receivers (`RaiseSome`),
`DeleteFails` one of the Delete, after which the entry stays, and `NothingToDelete` a
Delete that finds none. The program may do anything to entries: `WriteInfo` is a call
of `Write`, `Merge` or `Delete`, `ReplaceInfo` a Set or a Load, which raise no events,
or a call whose `SetEvent` fails. `InfoChanges` is what they do, as sets of IDs and the
paths these list afterwards; the theorems hold for every value of it. `astray`
(history) is the IDs whose entry was changed so, or whose merge or deletion failed.

### Sampler

One subscriber: `config` is its mode, submode, suppress_redundant and whether it
has a heartbeat, chosen at the start. The timers' ticks, the channel `expired`
(capacity 2, as in the code), `TakeExpired` with the test of suppress_redundant,
`Update` (the part of `telemetryUpdate` under `RLock`) and `Clear` are steps of
their own, and changes come in between. The `changeEvent` objects have an
identity: `events` has what is in them, `pending`, `event` and `onchange` are
references. `EventReceive` fills the pending one, `EventComplete` queues it in
ON_CHANGE submode, a heartbeat takes it while it is pending, `Clear` empties it
wherever it is referred to. A poll with the submode ON_CHANGE fills `onchange`
too, and nobody empties it. `Load` replaces the root; `old` is the tree that a
`telemetryUpdate` under way has in hand. Whether `respchan` has room is the
business of `Telemetry`.

### AtomicSet and SetTransaction

`AtomicSet` has a tree, an answer and `setUpdatedByServer`: a request takes
effect and is answered without an error, or is undone. `SetTransaction` has the
code's steps: `Start` (`setStart`, which may be refused), `NextOperation` (the
look-up of a path, with wildcards), one step per node with its backup entry and
callback, `End`, the rollback of the callbacks and the revert of the tree, entry
by entry. The refinement mapping shows the tree of `setStart` until the request
is over, because all of it is under `Lock`, and the error returned as the answer.
Whether the server has a callback, a transaction and `setUpdatedByServer` is
chosen at the start (`server`).

### SyncRequest

The registry: `syncEvents` is the list of registered paths, each with its keys or
without; `SchemaOf` is its schema node, `Nodes` the data nodes it leads to, and several
may lead to one. `syncPath` is the number of the `syncTime` object each data node has
now (replaced objects stay with the requesters that found them). A `RegisterSync` of a
list is several of one path; `UnregisterSync` is step by step, with the lock held
(`upc`): `UnregisterPath` drops the oldest registration of the schema node, whatever its
keys, `UnregisterFails` ends the call with an error at a later path, `ClearPaths` and
`AddAgain` make `syncPath` anew. Creations and deletions come with an event, or without
(`Load`), or their `SetEvent` fails (`CreateFails`: the node is there and not known;
`RemoveFails`: it stays and is not known any more). `silent` (history) is the nodes
whose last coming or going was such a one, `stale` the paths that are known after an
`UnregisterSync` that failed and belong to no registration.

`syncExec`: one step for each read of a time
(`Check`) and each setting (`SetTime`), the callback, the return.

### Aliases

The two maps, each call under `clientAliases.mutex` one step; a list of client
aliases is several, ends at the first error (an alias that is taken, or a name or
path that is not valid, which is left open) and announces what came before.
`Announce` looks the path up only when it sends. The announcements of server
aliases come in any order (the code sorts them). A `run()` takes the alias of its
prefix (`RunPrefix`) and sends it later (`RunSend`); `table` is what the client was
told.

## 3. The runs

| Run | Result | Question |
|---|---|---|
| `MCPair` | pass | Two subscribers of one session, one an observer of the other's entry, set up, served and torn down while the program writes, a Set or Load replaces the root with the entries, and a second session competing for the only place: is a change with an event lost or overtaken, is a registered subscriber without a `run()`, an event handed to a deleted one, a place miscounted? Does all that a client is sent come as if it stood in one queue (`FeedSpec`)? |
| `MCFaults` | pass | Two sessions, one an observer of the other, with conversions, `SetEvent` and the writing of entries failing anywhere and the root replaced: does the inductive invariant hold, is nothing lost but what raised no event or failed, does the queue of the feed hold but for that (`FeedSpec`), does `Stop()` keep its order, and is every standstill one of full channels (`OnlyHangs`)? |
| `MCLive` | pass | Does `Stop()` end, does a writer return, does the client catch up, unless full channels stop the server (`Hung`)? Events of two leaves at once. |
| `MCStopHang` | violation | `Stop()` "shutdown all goroutines for subscription": it may wait for ever. |
| `MCEventJam` | violation | "current event consumed at the end.": one `Delete` of more nodes than `onchange` holds may block for ever. |
| `MCSet` | pass | Is a request atomic, does the tree come back after it, and does the application follow and get undone, over five server set-ups and every failure? |
| `MCSetRevert` | violation | "reverted to the previous data": not for a leaf a request comes to twice. |
| `MCSync` | pass | Does the registry follow the tree but for what no event told it or a failed `UnregisterSync` left, is no requested path forgotten, who breaks the interval? |
| `MCSampler` | pass | Six kinds of subscriptions: is a change missed by nothing but four races, do samples and heartbeats arrive, does `run()` end unless it or a writer is stuck? |
| `MCSubscription` | pass | Two clients that stream, merge, sample, poll or are refused, and one write, Set or failure: is everybody served as asked and set up, are entries and IDs right unless handlers raced or the program or a failure touched them, do locks stop the server only when `onchange` is full, and then for good? |
| `MCMerged` | violation | "EventPath must return the paths on which the events become raised.": not those of a subscription merged into another. |
| `MCAliases` | pass | Do names and paths lead back to each other, does the client know the names, and those in prefixes in time? |

### Bounds

Channels have capacity 1 where the code has 16 (`onchange`) and 32 (`respchan`):
every wait on a full channel is met with a few events. `MCEventJam` has the
response channel large, to show the jam with `onchange` alone. One or two calls
of the program (`MaxWrites`), each of one or two leaves, with the sync callbacks
and the entries of the subscribers on top, are enough to have a change before,
during and after the snapshot, and a queue full while another event completes.
`MCPair` and `MCFaults` differ in what they allow besides (failures, the capacity
for sessions), so that each ends within minutes; in both the root may be
replaced by one without entries (`RootReplaced`).
`MaxSets = 2`: the second request starts from a tree on which application and
server differ. Three leaves in two levels of nodes allow operations above, below
and beside each other; the requests are listed in `MCSetTransaction`, in the
order delete, replace, update in which `set()` does them. `MaxTime = 2` with an
interval of 1 has a path due, filtered and due again; `MaxEntries = 2` replaces a
`syncTime` under a requester, and bounds registrations and creations;
`MaxEvents = 2` is two registrations of one list, of which one leads to the node or
both do, so that `UnregisterSync` may drop the other one than it was asked for; one
change without an event, or with one that fails (`MaxLoads`), comes before, between or
after the events of the node. `MCSampler` has two changes
and one `Load`: one change before and one between `Update` and `Clear`, or one
event in `onchange` (capacity 2) ahead of the one a heartbeat takes, with the root
replaced at any point. `MCSubscription`: one client with two requests, the second
of which comes to the subscriber of the first (within a request a subscription joins
that of another path; that a later request brings a *new* path to a subscriber that
is running is left to the theorems), one client with one; two subscribers in
all, which may have one owner or two, so that every pair of handlers, of subscribers
and of a handler and a writer meets; two paths, one of them that of the entries, so
that a subscriber may be told of entries, its own included; `onchange` with
room for one event, so that it is full at the second. One disturbance (`MaxWrites`): a
write, a Set or Load that leaves no entries (`RootReplaced`), or one failure, at any
place; a writer that blocks with the tree locked is followed by no other, and the
entries of the subscribers are further changes. `MCMerged` is
one client with a list of two subscriptions.
`Aliases`: three requests of up to two aliases with two responses under way and one
more in the hand of a `run()`: an alias can be defined, deleted and defined anew
while the first announcement or a prefix is still on its way.
Deadlock is not checked: clients may stop asking, and the bounds end behaviours.
In `MCSync` the two
requesters are symmetric, which is sound for its invariants and its action property:
they do the same, and nothing chooses between them. No other run uses symmetry.

### Fairness

`Telemetry`: weak fairness of every goroutine that can go on; strong fairness of
steps that wait for the RWMutex or a place in `respchan`, which Go justifies: a
waiting `Lock` keeps new readers out, `Unlock` lets waiting readers in, senders
on a channel are first come, first served; and of the case `shutdown` of a select,
among whose ready cases Go chooses at random. The responder's weak fairness says
that the client reads. Clients and program (`Environment`) have none.
`Sampler`: tickers keep firing, `run()` goes on while it can, a writer that is in
`EventReceive` completes its event and unlocks if there is room, and every case
of the select that is ready again and again is taken. That changes, loads, polls
and the shutdown ever happen is not assumed. `Subscription` has no liveness
property; `StandstillOnlyJammed` says of single states that somebody can go on.

## 4. What the models show

Properties that hold are in the table above. Four statements of the repository
are refuted by a run each (`findings` in `PROJECT.json`):

1. `Stop()` may hang (`subscribe.go:127`): the responder takes the shutdown while
   `run()` waits in `respchan.Send`, with `RLock` held; nobody empties the channel.
2. `EventComplete` (`subscribe.go:226`) may block a writer for ever, with the tree
   locked: `run()` needs `RLock` between two receives.
3. `setDone` (`set.go:141`) reverts first to last.
4. A subscription that is merged into a subscriber adds its path to `Path` and not
   to `fullpath` (`subscribe.go:662`), so that its changes raise no events.

`StopTerminatesUnlessHung`, `EventsConsumedUnlessHung` and
`ConvergesUnlessHung` say that 1 and 2 are the only ways the server stops, as far
as the channels go, and `OnlyHangs` that in every other state in which nobody can go on
all is done and every client has the tree; `StandstillOnlyJammed` says the same of the locks: whenever
handlers, `run()` goroutines and writers can none of them go on, all have finished,
or somebody waits in `EventComplete` with the tree locked, and each receiver it has
still to tell has a full `onchange` that nobody comes to empty (`Jammed`). The cases
(`AwayFromQueue`) are `run()` waiting for `RLock`, `run()` waiting after a
heartbeat for the mutex that `addDynamicSubscription` holds while it waits for
`Lock` (three goroutines in a circle), `run()` ended, and no `run()`: for a POLL
subscription, before the handler starts it, and after the end of the RPC. TLC meets
`Jammed`, `Blocked` and `Clogged` within 28 steps when their negations are put in
place of the properties; that none of them is ever undone is proved (`JamLasts`,
`HangsAreForGood`), and checked for `Jammed` (`JamsForGood`). `AtomicSpec` says that 3 concerns only leaves a request comes to
twice, and `UntangledReverted` that of those it may come to it is the ones that two
backup entries cover. `ServedAsAsked` and `RequestComplete` say that 4 concerns only events: a
merged path is sent at once, and sampled. `IdsUniqueUnlessRaced` and
`EntryUnlessShared` say that two subscribers get one ID, and with it one entry,
only when two handlers are in the statements that use `subID` at the same time
(`subscribe.go:669`). An entry is wrong besides only when its own merge or deletion
failed, which the handlers ignore (`subscribe.go:863`, `136`), or when the program, a
Set or a Load changed it, as the deletion or replacement of the root does
(`set.go:206`, `365`); a handler that merges or deletes meanwhile puts none wrong.

`OnlyRacesLose` says that a leaf of which the client has not the value is in an
event still to be sent, or was caught in one of four races: it changed between
the update and `event.Clear()` (`subscribe.go:398`, `787`), a heartbeat sent it
ahead of an older event (`subscribe.go:375`), the root was replaced after
`telemetryUpdate` had read it (`subscribe.go:542`), or it came with a `Load`
(`set.go:365`). Each of the four is met by the run: without it in `raced` the
property is violated. `SamplesArrive` says that the next samples or heartbeats
repair them all.

`PrefixesKnown` says that a prefix the client gets is a name it knows, or that an
announcement of this name follows. Excepted is a prefix whose alias was deleted or
defined anew between `ToAlias` and `Send` (`subscribe.go:600`): the client may
get it after it was told that the name means nothing. TLC shows this as well when
the exception is left out.

The modules also define statements no run reports on, which TLC refutes when they
are put in place of a run's properties:
`SessionLimit` (`maxSubSession + 1` sessions run at once, `subscribe.go:94`),
`AppReverted` (without a transaction nothing is rolled back in the application,
`set.go:167`), `RunEnds` (`run()` fills `expired` and waits for itself,
`subscribe.go:367`), `MinIntervalKept` and `SynchronizedOnReturn` (two requesters
of one path, `sync.go:208`), and `SkipsOnlyUnchanged` (a sample is skipped
although there was a change, because `Clear` wiped it, `subscribe.go:398`). The runs check what holds instead:
`SessionsCounted`, `AppUntangledReverted`, `RunEndsUnlessStuck`,
`IntervalUnlessRace`, `SynchronizedOrUnderWay`, `OnlyRacesLose`.

A `Load` leaves two traces the runs show as exceptions (`silent`): ON_CHANGE
clients are not told of it, and the paths that `main` registers before it loads
the startup file (`main.go:103`, `125`) are not known to `SyncRequest` until an
event or another registration comes (`RegistryTracksTree`). An `UnregisterSync` of
several paths that ends with an error (`sync.go:163`, `180`) leaves another: the nodes
of the registrations it has dropped stay known, and `SyncRequest` calls back for them,
until a later `UnregisterSync` clears them or they are registered again (`stale`). The
second conjunct of `RegistryTracksTree` says that nothing else leaves such a path.

## 5. What is proved

`TelemetryProofs` proves, for any number of sessions, subscribers, writers and
leaves, any channel capacities, and with all failures:

* `TypeCorrect`: `Spec => []TypeOK`;
* `NoEventToDeleted`: `Spec => []LiveReceivers` - nobody is registered or ready
  whose `deleteSubscription` was called;
* `NoSendAfterClose`: `Spec => []TornDown` - after `Stop()` has closed `respchan`
  no goroutine of the session runs and none of its subscribers is registered or
  holds `RLock`;
* `Invariance`: `Spec => []IInv`, from which the others follow.

They rest on `EventCtrlAssumption` and `TelemetryAssumption`: the constants have
their types, the kinds of goroutines are disjoint, and two subscribers have
different entries. `LiveReceivers` alone is not inductive: that a subscriber is
registered only while live needs to know where its handler stands. `IInv` adds,
for each session, that the handler's current subscriber is live from `AddDynamic`
to `StartRun` and unregistered from `UnregisterSub` to `DeleteSubscription`
(`SubsOK`), that its variables fit its place (`HandlerOK`), that after `Joined`
no goroutine of the session runs (`JoinedOK`), and that `run()` holds `RLock` only
while it sends (`ReadersOK`). The proof has one lemma per conjunct (`TypeStep`,
`LiveStep`, `ReadersStep`, `HandlerInvStep`, `SubsStep`, `JoinedStep`), each with
a case per action; `NextCases` splits the next-state relation once.

`TelemetryProofs` also proves `PlacesCounted`, `Spec => []SessionsCounted`: the sessions
of `Server.subSession` are those between their start and the end of `Stop()`, and
they are at most one more than `maxSubSession`. `CountInv` adds that the set is
finite, so that one session more or less is one more or less in number; a session
only goes in or out where its handler starts or leaves, and all other steps are
one lemma (`NobodyComesOrGoes`).

`ServedProofs` proves, for the same constants, `SomebodyServes`:
`Spec => []ReceiversServed` - whoever is registered has a `run()`, or had one in which a
conversion failed, or will have one from its handler, or is being stopped. After a
failure `run()` has ended and the subscriber is registered until its client leaves.
`ServedInv` adds that a handler has no subscriber in hand between two of them, so that
none can be left registered without a `run()`.

`FeedProofs` proves `ClientsMissNothing`, `Spec => []NothingLost`, for the same
constants and with failures: the last thing the client of a subscriber was or will be
told of a leaf is what the tree holds. The events on their way are spread over
`pending`, `onchange`, what `run()` has in hand, `respchan`, what the responder has in
hand and `view`; `NothingLost` joins them to one sequence. It is not inductive: it says
nothing of a subscriber that is registered and has no `run()` yet, nor of why the
snapshot is not stale when `run()` starts. `FeedInv`, inductive together with `IInv`, adds

* `LockOK`: a call has `Lock` while it changes the tree, and then nobody has `RLock`;
* `QueueOK`: outside `SetEvent` a pending event has nothing but what failed calls left
  in it, and nobody has events before `Register`;
* `RouteOK`: goroutines at rest have nothing in hand, and responses stay in their session;
* `InitOK`: `initTelemetryUpdate` works on a registered subscriber and has `RLock`
  until the snapshot is sent;
* `ToldOK`: before `run()` starts the client was told nothing, or the tree as it is;
* `FeedOK`: for whoever is registered, the queue has the last change of a leaf, or
  says nothing of it and, once `run()` is there, what is in front of the queue has it.

It also proves `ServerFeedsClients`, `Spec => FeedSpec`: `Telemetry` implements
`ChangeFeed`, for the same constants and with every failure. `NothingLost` says of the
last change of each leaf what the refinement says of all of them, in their order, each
once. `FeedInv` is needed for the snapshot, which must be that of the tree when it
is sent, and `PendingOK` for the queue: whoever is registered and not in `ready` has nothing
pending, and outside `SetEvent` only a failed one leaves somebody in `ready`. There is
one lemma for each step (`MapSetEvent`, `MapSetEventFails`, `MapRunReceive`,
`MapRunSend`, `MapRunFails`, `MapInitSend`, ..., `MapStill` for those that the feed does
not see), joined in `MapStep`.

`StandstillOnlyHung`, `Spec => []OnlyHangs`, is the freedom from deadlock of the same
goroutines: one of them can go on (`Busy`), or all is done and every client has the tree
(`Settled`), or a `run()` waits for a responder that has left (`Clogged`), or one call
has `Lock` and `EventCtrl.mutex` and each subscriber it still has events for has a full
queue and a `run()` that waits for `RLock`, failed, is not started yet or was shut down
(`Blocked`). `Busy` is written with the guards of the steps, for ENABLED is out of the
prover's reach; what it leaves out of them is assignments, which can always be made.
`PlacesOK` says who may hold what: `EventCtrl.mutex` is with a call in `EventComplete`
and `Lock` with one that has begun, a handler has `RLock` only in
`initTelemetryUpdate`, a session has a responder from its start to the shutdown. The
argument goes backwards through the waits: nobody waits in `Send()`, or its responder
has left (`SendersGoOn`), so that nobody has `RLock`; a call that waits for a full
`onchange` is `Blocked`, so none has `EventCtrl.mutex`, and none `Lock` (`CallsGoOn`);
so no handler waits (`HandlersGoOn`), all queues are empty, and what `FeedInv` has on
its way to a client can only be in its `view` (`ClientsHaveAll`).

`HangsAreForGood`, `Spec => HangsLast`, says that these are hangs and no delays: no
step makes a `Blocked` call go on, whatever fails, nor the `run()` of a `Clogged` session.
Of `Clogged` it is said without failures only: a conversion fails before `Send()`, and
the model has both in one step. The part of `Blocked` that stays as it is while `Lock`
is held is `StuckCall`: no other call makes a step (`CallsWait`), a `run()` that is not
there is not started, because a handler needs a lock before it comes to the start
(`Starting`, `StuckHandler`); why there is no `run()` follows from `ReceiversServed`
(`StuckIsBlocked`). `CloggedStep` needs of `IInv` that `respchan` is closed after every
`run()` has ended.

The lemmas on sequences (`LastConcat`, `LastTail`, `LastAppend`) say how the last
mention of a leaf moves; `AppendKeeps`, `TakeKeeps` and `SendKeeps` apply them to
`respchan` and the responder, `FeedWriter` to a call; `FeedPipeline` joins the parts.

`SubscriptionProofs` proves, for any number of sessions, requests, writers,
subscribers and paths, from `SubscriptionAssumption`:

* `Served`: `Spec => []ServedAsAsked` - the key has all that the configuration of a
  subscriber depends on, so that whoever shares one gets what it asked for;
* `RequestsComplete`: `Spec => []RequestComplete`;
* `Entries`: `Spec => []EntryUnlessShared` - an entry is right whatever is done to others
  and to the rest of the tree, and whatever fails elsewhere;
* `UniqueIds`: `Spec => []IdsUniqueUnlessRaced`;
* `NoDeadlock`: `Spec => [](CanGoOn \/ Quiet \/ Jammed \/ OutOfSubs)`;
* `JamLasts`: `Spec => JamsForGood` - what is `Jammed` stays so, and `Lock` with who has it;
* `MutualExclusion`: `Spec => []Exclusive` - who holds the mutex of a subscriber keeps
  others from merging its entry and its `run()` from sampling and synchronizing, and
  no two handlers or `run()` goroutines are inside `Server.Lock()`;
* `Invariance`: `Spec => []IInv`, from which they follow.

None of them is inductive. `IInv` adds where the handler stands in its list and
its `startingList` (`HandlerOK`), which subscribers are whose (`MembersOK`), that
between requests nobody is asked for and not served, and inside one whoever is
not set up is in `startingList` (`ServiceOK`), that nobody has an ID above `subID`
or above what the one handler that counts has read (`CounterOK`), and that an
entry that is its subscriber's own (`Own`: the ID is not shared and not in `astray`)
lists only its paths, from its merge on all of them, and that an entry belongs to
a subscriber that was made or to an ID in `astray` (`EntriesOK`), and who has `Lock` and the mutexes
at each place of the handlers and of `run()` (`LockOK`, `MutexOK`), and that only what
was made is registered or has a `run()`, which samples nothing if its submode is
ON_CHANGE (`RunsOK`). Each conjunct has a
lemma for the actions that disturb it.

`NoDeadlock` is `StandstillOnlyJammed` without ENABLED, which is out of the prover's
reach and stays with TLC. `CanGoOn` is written with the guards of the steps in
`Internal` (`HandlerCan`, `RunCan`); what it leaves out of them is assignments, which
can always be made. `OutOfSubs` is the bound: another subscriber is asked for when
`MaxSubs` were made. The proof (`NobodyWaits`) follows the order of the locks: if nobody can go
on, no `EventComplete` is left, or all that are wait for a full `onchange`, which is a jam
(`OnlyJams`, with `WhyNoRun` for those without a `run()`); so nobody has
`Lock`, who has it needing no more than that; so nobody waits for it; so nobody has the
mutex of a subscriber; so no `run()` waits, and `Stop()` has none to wait for.

`JamLasts` is proved of `AllStuck`, a jam without the reasons for which there is no
`run()`; these follow from `IInv` before and after each step (`StuckIsJammed`). While the
tree is locked no handler takes an event or comes to the start of a `run()`
(`WhileLocked`), a mutex held for the merge of an entry stays held, and no step of a
stuck `run()` is enabled (`StuckStep`).

`SamplerProofs` proves, from `SamplerAssumption` and `StartupsAssumption`, for any
subscription and any number of changes, ticks and polls, `RacesOnly`,
`Spec => []OnlyRacesLose`, and `TypeCorrect`. `OnlyRacesLose` is not inductive: an
event that is being cleared is still in its place, and what an event says of a leaf
must be true when it is sent. `LossInv` adds that the pending event is the last one
that was made (`PendingOK`), that an ON_CHANGE event has a value for what it updates
and deletes what it has no value for (`EventsOK`), that the last unsent event that
mentions a leaf says what the tree says (`NewestOK`), and that a leaf not up to date
is in an event other than the one that `Clear` is about to empty (`UnsentOK`), each
but for the leaves in `raced`. `LeafStill` covers the steps that leave a leaf alone;
`UpdateUnsent` and `UpdateNewest` are the step that sends.

`SyncProofs` proves `RegistryFollows`, `Spec => []RegistryTracksTree`, from
`SyncAssumption`, for any registered paths, data nodes and requesters: outside
`UnregisterSync` a node has a `syncTime` object exactly while it is in the tree and a
registration leads to it, but for nodes in `silent` and `stale`; and what is known
without a registration is in `stale`. `RegistryInv` adds what holds inside
`UnregisterSync`: in the loop a node that a registration still leads to has an object
exactly while it is in the tree (`LoopOK`), and after `Clear()` what is not known yet is reached by a
registration whose nodes are still to be added (`AddOK`); and that the number of an object in
the map is above 0, which tells it from no object. `RemoveAtProperties` says that
dropping one registration keeps the others.

It also proves `NobodyForgotten`, `Spec => []SynchronizedOrUnderWay`. `CareInv` says
why a path that a requester left to another is in good hands: what a requester chose
was synchronized since, or will be when its callback returns (`ChosenOK`); the time
in an entry is that of somebody's choice, or earlier (`TimesOK`), so that who is
filtered by it is filtered by a choice; and each path asked for is still to be looked
at, or was chosen by somebody within the interval (`AskedOK`). Replaced entries do no
harm because a requester goes on with those it found. `TypeCorrect` is part of it.

`IntervalKept`, `Spec => IntervalUnlessRace`, adds to `CareInv` what makes an entry
that is found due stay due for whoever has it in hand (`DueOld`): each choice from
it is older than the interval, or was made by another requester after this one
began. It holds when the entry is checked because the time in it is not before any
choice from it (`TimesNew`), and a requester looks at each entry once (`InHandOK`,
`OnceOK`). The race between the check and the setting of the time is thus the only
way to ask the application too soon, with any number of requesters.

`AliasesProofs` proves `NameLeadsBack`, `Spec => []AliasLeadsBack`, from
`AliasesAssumption`, for any aliases of the server and the client: `ToPath` undoes
`ToAlias`. `AliasInv` says what the two maps say of each other; it is kept because
a definition takes free names only, and a deletion takes the name from the one
path that can have it. `PathLeadsBack`, `Spec => []NamesLeadBack`, adds that the
names of a path that is not the client's are the server's (`OwnersOK`).
`NamesGetKnown`, `Spec => []ClientKnows`, rests on `KnownOK`: a name has, in the
client's table or by the last announcement under way, the path the server has for
it, or is still in `announce`. With both, a prefix that is not stale when it is sent
is known or will be announced, and stays so while responses go in behind it and are
taken in front of it (`HeardAppend`, `HeardReceive`): `PrefixesGetKnown`,
`Spec => []PrefixesKnown`. The aliases of the server are assumed to be finitely many,
because their number is compared (`TypeCorrect`, `Apart`).

`SetProofs` proves, from `SetAssumption`, for any tree, nodes, requests, set-ups of
the server and failures:

* `TreeComesBack`: `Spec => []UntangledReverted` - after the revert, a leaf that no
  more than one backup entry covers has the value it had at `setStart()`;
* `ApplicationComesBack`: `Spec => []AppUntangledReverted` - so has the application,
  after a rollback that it did not refuse, or it has what the tree had;
* `TypeCorrect`: `Spec => []TypeOK`.

`SetInv` follows each leaf through the request: the first entry that covers it keeps
the value of `setStart()` (`FirstOK`), without an entry it is as it was in the tree
and for the application (`RestOK`), and one that a single entry covers is back once
the rollback or the revert is past that entry (`BackOK`). All entries are executed,
or none, as the server has a callback (`PhaseOK`). With two entries `FirstOK` still
holds and `BackOK` does not, since the last entry has the last word: this is the
finding of `MCSetRevert`.

It also proves

* `SetIsAtomic`: `Spec => AtomicSpec` - `SetTransaction` implements `AtomicSet`: for
  everybody else a request takes effect as a whole or is undone, whatever its length,
  its failures and the order in which the nodes of an operation are changed;
* `ApplicationFollows`: `Spec => []AppFollows` - after a request without an error the
  application has, of each leaf on which it agreed with the tree, what the request
  asks for.

What a request asks for is a function defined by recursion over its operations
(`AtomicSet!After`). That this function is what its equations say (`AfterStages`) is
shown from the smallest number of operations for which it would not be
(`StagesExist`, with `Least`), because an induction theorem with an operator as a
parameter cannot be used. `AtomicInv` adds to `SetInv` which operations are done and
that the nodes of the one at work were found in the tree that those before it left
(`OrderOK`), that a leaf the request comes to once is covered by one entry (`OnceOK`),
and that leaf by leaf tree and application have what the operations so far make of
the tree of `setStart()`, and those the operation at work has reached what it makes
of them (`ResultOK`). The step that ends the request is then the one of `AtomicSet`,
and all others are stutters (`RefinementStep`).

Only model-checked: all liveness under fairness, and `StandstillOnlyJammed` in the form
with ENABLED, because both are out of the prover's reach. All other invariants and action
properties the passing runs check are theorems, without a condition on failures.

## 6. External code, and what is left out

Assumed of the library `yangtree`: `MergeDiff` and `SetDiff` report the nodes
that differ, `Replace` with nil removes a node, `Remove` of an attached node does
not fail. `SetEventByPath` and the removal of server aliases have no caller in
the server. Not modelled: Get, Capabilities and ONCE subscriptions beyond their
synchronization (they read the tree once under `RLock` and keep nothing), the
trie of event paths with its wildcards (a subscriber watches a set of leaves), the
slice header of `Subscriber.Path` read without the mutex (`subscribe.go:575`, below
the level of the models), building of messages, conversion of paths and values, login, network sessions,
`entity`, `status`, and the collection of interface statistics.

## 7. Plan

Done: `EventCtrl`, `Telemetry`, `ChangeFeed`, `SetTransaction`, `Sampler` with all
modes, `SyncRequest`, `Aliases` with the prefixes, `Subscription`, the refinements and
the proofs above, the refinement of `ChangeFeed` with the failures of the code included.
What is left: the capacity of `onchange` in `Subscription` as a condition on the writers
under which `Jammed` never comes about.
