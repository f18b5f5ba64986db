# A specification of graphql-vss-server-libs

TLA+ modules that model the libraries in `src/graphql_vss_server_libs`: the
storage of shared singletons (`support/singleton.*`), the server with its
connections, queries and mutations (`protocol/graphqlserver.*`,
`graphqlconnection.*`, `graphqlconnectionoperation.*`), its subscriptions with
their notifications, the attributes of CommonAPI
(`support/commonapi-singletons.*`), and what a request goes through: its
messages, its token and permissions, and the numbers and colors it writes. TLC
checks them on small instances; TLAPS proves every safety invariant, every
action property and the refinement for every instance. Liveness is checked by
TLC alone.

    tlc -config SingletonStorage_concurrent.cfg MCSingletonStorage    # check a run
    tlapm SingletonStorageProofs.tla                                  # check the proofs

## Inventory

| Component | State | Operations | Correct when |
|---|---|---|---|
| Singleton storage `support/singleton.*` | `m_children`, `m_disposed`, two mutexes; per object `m_refCount`, `m_storage`, a spinlock, a future | `get`, `Ref` copy and drop, `unref`, `dispose`, `recycle`, `garbageCollect`, `clear` | one instance per type; counts exact; nothing used is deleted, nothing unused is forgotten; collection ends |
| Server `protocol/graphqlserver.*` | `m_connections`, thread pool, the io_service queue | open, close, message, HTTP, `defer`, `offloadWork`, `stopListening`, collection timer | a shutdown ends, forgets no open connection and leaves no timer; HTTP answered once; connections freed |
| Connection `graphqlconnection.*` | `m_handlers`, `m_operations`, `m_permissions` | `setup`, `tearDown`, `stop`, START, STOP, INIT, TERMINATE | every running job can be stopped; an id is in use once |
| Query, mutation `graphqlconnectionoperation.cpp` | `m_stopped`, the job in the pool | `start`, `stop`, `resolveInAThread` | DATA then COMPLETE, through handlers that exist |
| Subscription `graphqlconnectionoperation.cpp` | key, own thread, delivery timer, `m_lastDelivery`, signal connections | `start`, `stop`, subscribe, unsubscribe, `onFutureSubscription`, `dispatchPendingDelivery`, resolve, `notify` | last change arrives; deliveries keep the interval; nothing is left of one that is stopped, and it takes no other with it |
| Notifications `graphqlserver.cpp`, `graphqlrequesthandlers.*` | triggers by name, 1 ms timer | `notifyInMainThread`, `deliverNotifications` | no trigger lost while merging |
| Request state `graphqlrequeststate.*` | `m_usedSingletons`, permission flags | `getSingleton`, `observe`, `validate` | one Ref per type and request; observes before it reads |
| CommonAPI attributes `support/commonapi-singletons.*` | cached value or collected events, lock, signal, remote subscription | `create`, `getValue`, `refreshValue`, `mutateValue`, `subscribeChanges`, `processEvent` | the cache ends up with the remote value; no event is lost; the proxy outlives the attribute |
| Permissions, authorizers | a set of 16-bit keys; a table of names | `insert`, `validate`, `authorize` | a resolver only runs with the keys its token names |
| Scalars, colors `support/scalars.*` | the components of a color | range checks, parsing, `HSVColor::set` and `str` | ranges respected (but for NaN), nothing wraps, what is printed can be read |
| Message helpers `response_helpers.hpp` | none | taking a message apart, putting a reply together | every shape of a message is classified; statuses survive |
| Name visitor | none beyond one walk | naming the subscription field of a query | not modelled: see below |
| Logging, debug, demangle | none | output | not modelled: no effect on the state above |

How they interact: the main thread runs the io_service and owns connections and
timers. Jobs of queries run in one pool, each subscription has a thread of its
own, and both hand work back with `defer`. Both call resolvers, which get
singletons from the storage; values of singletons are created in `std::async`
tasks and may get other singletons. CommonAPI calls back on its own thread and
signals subscriptions. Memory is shared between all of these: `m_stopped`,
`m_handlers`, the storage, the counts.

What is hard: the windows between an unlock and the next access (`get`,
`unref`), a collector that joins tasks which need its lock, connections that go
away under a running job, a main thread that waits for threads that give it
work, STOP at any point of a subscription, timers that expired but were not
served, failed creations and failed subscriptions, events beside the
construction and the destruction of what takes them, permissions that change
under operations that run, and conversions that may wrap before a range is
looked at. PROJECT.json lists these
hazards line by line with the properties for them.

## Modules

**SingletonStorage.** An action is one atomic access or one critical section.
`Get`/`CreatorGet` (the section of `m_childrenLock`), `TakeRef` (the constructor
of the returned `Ref`, after the unlock), `Value` (waiting for the future),
`CopyRef` (second `getSingleton` of a request); `Release` is the decrement of
`unref()`, followed by `AcquireSpinlock`, then `Dispose` and `ReleaseSpinlock`,
or `Orphaned` and `DeleteThis`; `StartCollect`, `MoveDisposed`, `Sweep`,
`EndCollect`, `Detach`, `EndClear` are the steps of a thread that keeps
`m_childrenLock`. Destroying a singleton is `Destroy`: it joins the creation task
and drops the `Ref` to the proxy, which is itself an `unref()` in the middle of
the sweep. A creation gets its dependency first and may fail at any point;
the exception is stored in the future. An address is given out again only when
no pointer to it is left, so that a stale pointer is always seen: it makes
`UseAfterFree` possible, after which nothing is known (`crashed`).
Creation is modelled as started at once (`std::launch::async`), which is what proxies and
cached attributes use; the three kinds that use `launch::deferred` create on the
first waiter's thread and are not modelled.

**SingletonRegistry** is what the storage promises: an instance per type, held
by users, given up only when nobody holds it. No counts, no locks, no
collector. `ImplementsRegistry` in SingletonStorage is the refinement, where
`children` is the instance and a user already holds what `get` found for it.

**Connection.** A step of the main thread is a whole handler, except that
`tearDown` is cut where a job can see its middle (`Done`: operations stopped,
`ClearHandlers`: handlers cleared) and `stopListening` where it waits for the
pool (`StopConnections`, `PoolJoined`). `PoolJoined` closes what the server
still knows (`CloseConnections`), with the `close()` that throws when a
connection is not open: an HTTP request without its response, or a web socket
that is already closing. Then the rest is not closed, `onStopped()` is not called
and `server` is `"failed"`; the exception goes through `run()`, and what happens
after that is up to the application. A step of a pool thread is one access:
`CopyOnReply`, `CheckStopped`, `Resolve` (with the second look at `m_stopped`),
`Reply` for DATA and for COMPLETE, `AutoStop`. `Alive` is what the shared_ptrs
amount to: who keeps a connection. Reading `m_handlers` of a connection that was
freed ends in `outcome = "undefined"`; an exception in a noexcept function in
`"terminated"`. A handshake that offers no known sub-protocol goes from the
handshake to closed in one step (`OnWebSocketValidate`). Resolvers use one
singleton of the storage, abstracted to whether it exists and which operations
have it in `m_usedSingletons` (`singleton`, `users`; `Disposed` when nobody has).
Closing a connection looks at the storage once (`ScheduleGarbageCollect` sets
`collectTimer`), the timer or the application collects (`GarbageCollect`), and
`PoolJoined` clears storage and timer on shutdown.

**Subscription.** Threads of subscriptions and the main thread, connected by
`jobs` and `tasks`. `Notify` to `MergeTriggers` to `DeliverNotifications` to
`DispatchPendingDelivery` to the job `Begin`, `Observe`, `Read`, `Recheck`,
`Reply` is the way of a change. `Stop` is cut into `BeginStop` and `Joined`,
between which the main thread does nothing else. Time is `Tick`, for
`m_lastDelivery` and the delivery timer; an expired timer may wait for the main
thread as long as it likes. The schema of cppgraphqlgen is external:
`subscribe` registers and returns a key, `deliver` calls everybody back,
`unsubscribe` removes a key; each is atomic. A slot of the signal is one step.

**Attribute.** One attribute and the remote value it stands for; the variable
`kind` is its class. The task that constructs it goes through `Construct`,
`Subscribe`, `Join`, and for the class that also fetches `CtorFetch`,
`CtorStore` or `CtorUnwind`; the helper thread of `subscribeChanges` through
`HelperWaits` and `HelperTimesOut` (a wait without a predicate: a timeout and a
spurious wakeup are one step). The callback is cut into the test of
`subscriptionAnswered`, the notification and `setValue`. Users call
`refreshValue` (`RefreshFetch` without, `RefreshStore` with the lock),
`mutateValue` (`MutateLock`, `MutateChange` or `MutateFails`, `MutateStore`
under one lock, or `MutateUncached`), and `getValue` (`ReadLock` to `ReadEnd`,
the life of a `LockedValueReference`). A user reaches the attribute only when
it is constructed, which the shared future of its singleton sees to. CommonAPI
and the service are external: events come in the order of the changes, one
callback at a time, from the moment of the subscription, at which the service
may or may not send what it has. The constant `Refreshed` says which classes
are refreshed by hand: refreshing one that also follows events is a choice of
the program that uses the library.

The two classes that collect events share the module: `Attach` is the
constructor of their base class, which subscribes, `Derive` their own;
`DestroyDerived` and `DestroyBase` go the other way. `ProcessEvent` is
`processEvent()`, with `Accumulate` for the class that keeps one event per topic
(`Topic` stands for `findPredicate`, which is taken to be an equivalence; the
vector is a set of events). An event that the dispatcher hands over while only the base class
exists calls a pure virtual function, which ends the process
(`ProcessPureVirtual`). The proxy is kept by a reference to a `Ref` that is gone
after `create()`: `ProxyCollected` may take it away at any time, with the events
on their way, and unsubscribing from it is undefined, so it may end the process.

**Messages, Authorization, Scalars** are operators only. *Messages* has
`toMessageParts`, `toOperationDefinitionParts`, `createResponse`,
`createErrorResponse` and the HTTP status of a reply, on values that are a type and
what it holds; a map is a sequence of members, since names may repeat, and a
loop that stops at a member is the choice of the least index (`Earliest`).
*Authorization* has what `authorize` of both classes returns or throws for each
outcome of decoding and verifying a token, and `validate`: a signature that is wrong
gives an `InvalidToken` (401), while an expired token and one that is no base64 or
no JSON leave `authorize` with other exceptions (400). *Scalars* has
`stringToNumber`, both `validateRange`, and `set` and `str` of `HSVColor`, on
integers of hundredths and `NaN`, with the limits of the types as constants. What
`numeric_cast` makes of NaN is undefined in C++, so it is any number of the type.

**Request** composes them. It follows a request from its message to what a resolver
applies: `OnInit`, `OnStart`, `OnStop`, `OnClose` and `OnHttp` are the handlers
with their permissions; `Begin` to `Reply` an operation that resolves its fields
one by one (`RefuseField`, `ApplyField`, `SkipField` for a field whose parent is null)
while the main thread goes on. A subscription returns to `Begin` when it is
notified, `checked` is its `m_didPermissionsCheck`, and one that failed the check
is stopped by a deferred task (`RunStop`). The variables `token` and `accepted`
remember what `GrantedOnly` speaks of: the token an operation was started with.
How jobs and replies travel
between threads is left to Connection and Subscription.

`MC*` modules define model values and symmetry. `*Proofs` hold theorems.
Operators with the comment "Mutant:" are variants with a plausible bug, one for
each property; no specification uses them. They show that the property can fail.

## Runs

| Run | Instance | What it shows |
|---|---|---|
| storage_concurrent | 2 workers, main collecting and clearing, 2 references, 3 addresses, an attribute that depends on a proxy | `TypeOK`, `RefCountExact`, `NothingStranded`, `OneInstance`, `NeverCollectUnfinished` |
| storage_serial | 1 thread uses, collects and clears; creations beside it; 4 addresses | `NoUseAfterFree`, both assertions of the collector, `NoOrphanLeaks`, `DependencyOutlives`, refinement of SingletonRegistry |
| storage_live | 2 workers, 1 reference, main collecting, fair | `CollectionEnds`, `EveryGetReturns` |
| storage_in_use | 2 workers, main collecting | violation of `assert(refCount() == 0)`, singleton.cpp:135 |
| connection | a web socket, an HTTP connection, 2 operations, 1 pool thread, fair | `TypeOK`, `ReplyNeverEmpty`, `NothingUnstoppable`, `OneHttpResponse`, `OpenIsKnown`, `NoTimerAfterStop`, `EveryStartAnswered`, `ShutdownEnds`, `ConnectionsAreFreed`, `GarbageIsCollected` |
| connection_handlers | one of each | violation of the comment at graphqlconnectionoperation.cpp:249 |
| subscription | 2 subscriptions of one field, one of which may fail, an attribute that changes, fair | `TypeOK`, `StoppedIsUnregistered`, `OnlyUnsetKeysForget`, `RateLimited`, `LastChangeArrives`, `StopReturns` |
| subscription_key | 2 subscriptions of one field | violation of src/README.md:77 by the uninitialized key, graphqlconnectionoperation.cpp:485 |
| subscription_refused | 1 subscription, fair | violation of graphqlconnectionoperation.cpp:374-376 |
| attribute | each of the six classes, 2 users, 4 changes, 2 topics, fair | `TypeOK`, `QuietIsCurrent`, `SubscribedIsAlive`, `ReadIsStable`, `ConstructionEnds` |
| attribute_stale | the class that fetches and follows, 1 user, 1 change | violation of commonapi-singletons.hpp:278-279 |
| request | a web socket, an HTTP request, 2 operations, either authorizer, fair | `TypeOK`, `GrantedOnly`, `AppliedInRange`, `RefusedIsStopped` |

What the violations say. *storage_in_use*: worker A decrements the last
reference; B gets the singleton, recycles it (it is not in `m_disposed` yet),
takes its `Ref`; A goes on and disposes of it; the next collection deletes what
B uses. (The second assertion of the collector, singleton.cpp:144, has a
window of its own: with a worker beside a clearing main thread the last
reference may go between the collection inside `clear()` and `detach()`, and
the singleton stays in `m_disposed` of an empty storage. It is checked where it
holds, in storage_serial.) The same interleaving makes `NoUseAfterFree` false for two
threads: in storage_serial it says that one user thread, with its creations, is
never handed or left with what its own collection deletes. *connection_handlers*: the operation's job is queued, the connection
closes and is freed, the job reads `m_handlers.onReply` inside it.
*subscription_key*: one subscription runs and has key 0, the first that the schema
gives out; another one is started and gets STOP before its thread has called
`subscribe()`; the unsubscription that `stop()` queues removes the key that
`m_subscriptionKey` holds, which nothing has initialized, and memory that was not
used before holds 0; the first client gets nothing any more, though it never
stopped. *subscription_refused*: the code does less than the comment says; the operation
that `subscribe` refused stays active and in its map until the connection ends.
*attribute_stale*: the constructor has subscribed and got its first event; it
fetches the value; a change follows, whose event the callback stores; the
constructor stores what it fetched, without the lock. All events are worked
through and the attribute is one change behind.

### Bounds

- Storage: the interesting window needs one thread in `unref` and another in
  `get`, and a collector: two workers and main. Two keys with a dependency give
  nested creation, nested `unref` in the sweep and a second round; a chain has
  one link in the code too (an attribute and its proxy). Three addresses allow a
  detached object, its successor and a proxy; four in the serial run leave room
  for two generations of both.
- Connection: two connections that differ in kind; two operations and one thread,
  so that one waits while the other runs and the main thread closes or shuts
  down. The safety properties are proved for any number of both. One id, because
  ids only matter when they collide; `MaxTasks` stops a client from flooding the
  queue with messages that need no operation, at one waiting task. Addresses of
  operations are not reused.
- Subscription: `Interval = 1` distinguishes "may deliver" from "must wait";
  `Interval = 2` was checked as well. One change (`MaxVersion`) meets a
  subscription at every point of its life, the initial notification being the
  second one. `UnsetKeys`, what an uninitialized key may hold, is 0: what fresh
  memory holds, and the first key of the schema. `MayFail` lets one of the two fail its
  permissions or be refused; the other shows what that does to its neighbour.
- Attribute: two users, since a second one only meets the first at the lock;
  four changes let one happen before the subscription, two while the
  attribute is being constructed or changed, and one after that. Two topics:
  with four events one topic comes again after the other. The proofs do without
  any of these bounds.
- Request: two operations, one of each connection, or two of the web socket, so
  that one runs while the token changes. Keys are 0 to 2 for 16 bits, the level
  0 to 3 with the range 0 to 2, `int64_t` -4 to 3 and `uint64_t` 0 to 7, so that
  a number fits a wide type and not a narrow one, and the type and not the
  range, from either side; a text of the level and a component of a color are NaN. Tokens: one per outcome, among them names that are
  unknown, numbers with a fraction, one that is no key, and a list with what is
  neither name nor number. Messages come with
  members repeated, empty, out of order or missing.

### Fairness

Weak fairness of what a thread does inside a call, of the io_service (deferred
work and expired timers), of the pool and of `std::async`: the code runs them on
threads of their own and none waits for a condition that comes and goes, with
two exceptions: a spin lock and a mutex are not fair queues, so acquiring them
gets strong fairness (`AcquireSpinlock`, `CreatorGet`). That is what a lock
with any scheduler that is not adversarial gives; the code holds these locks briefly.
Resolvers return (WF of `JobStep`), a closing handshake ends by answer or by
WebSocket++'s timeout (WF of `Closing`), and time passes. No fairness is assumed of clients, of
the attribute's changes, of `garbageCollect` or `stopListening` being called. Of an
attribute only its construction and its helper thread are fair: a thread that
was started runs, a timed wait ends, and a call of CommonAPI returns or times
out. Nothing is assumed of the dispatcher, so `ConstructionEnds` holds though
no event ever comes. Its runs do not check deadlock: an attribute that failed
or is gone, with a service that changes no more, has nothing left to do; the
same is true of Request when every connection has ended. The timer of the
garbage collection runs out and is served (WF of `collectTimer /\ GarbageCollect`).
Of Subscription one condition is enough, `WF_vars(Progress)`: the main thread, its
timers, the threads of the subscriptions and time are served by the system, so
one of those that can move does. That is weaker than fairness to each of them,
and implies progress of each because the others run out of work: clients start
a subscription once, and the attribute changes `MaxVersion` times.
Of Request, each operation that is being resolved goes on (`ResolveField` or
`Reply`) and deferred stops are run (`RunStop`); no subscription is assumed to be
notified.

### Assumptions that matter

- `m_subscriptionKey` is uninitialized until `subscribe()` returns, so an
  operation that is stopped before that may unsubscribe another one
  (subscription_key). The other properties are checked with this behaviour in:
  `OnlyUnsetKeysForget` says that it is the only way to be forgotten by the schema, and
  `LastChangeArrives` speaks of subscriptions the schema knows.
- What an uninitialized or converted value may be is a choice: a permission that
  is a number outside of 16 bits may become any key, and a color without its closing
  parenthesis may be taken or refused. `GrantedOnly` allows any key for such a token.
- `GrantedOnly` excepts fields of a subscription that are absent while their
  parent is null, once a delivery has passed the check: `m_didPermissionsCheck` is
  set by it, so a field that appears later is never checked.
- `AppliedInRange` excepts a component of a color that was written as NaN:
  comparisons with NaN are false, so scalars.cpp:325 lets `hsv(nan, 1%, 1%)` pass,
  where its error text (scalars.cpp:269) and src/README.md:130 allow the range only. The
  level of a text that denotes NaN is whatever the conversion makes of it, in the range.
- The status of a refused token has no property of its own: it is picked by the test
  that builds the reply. Tokens that are expired or cannot be decoded get 400.
- `ShutdownEnds` counts a shutdown that an exception of `close()` leaves
  (graphqlserver.cpp:117) as an end, and `OpenIsKnown` excepts it: connections whose
  turn had not come are open then and in no map.
- Numbers are hundredths: binary rounding of doubles is not modelled, and a tie in
  `%.1f` may be printed either way. Permissions are on (`DISABLE_PERMISSIONS` off).
- `QuietIsCurrent` says nothing of an event attribute that lost its proxy, and
  `ConstructionEnds` counts the end of the process as an end.
- `GarbageIsCollected`: what a job drops after its connection was torn down
  waits for the next connection to end.
- Undefined behaviour that cannot be enumerated (the concurrent assignment of
  `m_pendingDelivery`, the slot that outlives its operation) is not modelled.
- `EveryStartAnswered` excuses a process that was terminated by a resolver.

## Theorems

Proved for every value of the constants that satisfies the module's assumption.

**SingletonStorageProofs** (`TypeCorrect`, `CountsAreExact`, `InstanceIsUnique`,
`UnreferencedIsCollected`, `CollectorNeverWaits`). No invariant above is
inductive alone. `RefInv` is the base: types, the count of each live object is the
number of `Ref`s to it (`Count`, with lemmas on how `EXCEPT` changes a
cardinality), and where an actor may be with which pointer. Upon it: `ShareInv`
(an attached object is registered; who keeps the lock and what is still to be
detached), `NothingStranded` with `RefInv` and `ShareInv`, and `FinishedInv`
with `DoomedInv` (a `Ref` exists on an unfinished object, or is about to,
until its creation ends, so an unfinished object is never dropped). Each has one lemma per
kind of step and a theorem that collects them.

**SingletonSerialProofs** (`SerialUseIsSafe`, `CollectedHaveNoReference`,
`CollectedAreRegistered`, `OrphansAreDeleted`, `DependenciesOutlive`,
`StorageImplementsRegistry`) has what holds when one thread calls the storage,
the use that the tests make of it: the hypothesis `OneThread` says that
`Threads` has at most one element. With more the assertions of the collector
fail, as storage_in_use shows, so it cannot be dropped; the creations still run
on threads of their own, nested to any depth. It is used in the initial state
only: from there `SerialInv` is inductive as it stands. `SerialInv` is all of
SingletonStorageProofs with five parts. `MoverInv` replaces interleaving by
nesting: a thread that waits for a creation and the creation itself do not move
both, so at any time one actor does, and the end of a creation sets exactly one
in motion. `PointerInv` (pointers point to memory that exists, and who unrefs an
object has dropped its last Ref), `DisposedInv` (what is in `m_disposed` is
registered, unreferenced, and in nobody's hands but those of the one who put it
there), `SweepInv` (what is to be deleted is out of reach) and `ChildInv` (the
table) rest upon it. The refinement maps each action to a step of
SingletonRegistry or to a stutter: a lookup acquires the instance before its `Ref`
is constructed (`LookupAcquires`, `TakeRefInvisible`; `HoldsIs` says in terms of
the storage who holds what), the decrement drops it, the rest of an `unref()` is
invisible, and the sweep retires only what nobody holds (`SweepRetires`).

**ConnectionProofs** (`ConnectionTypes`, `RepliesHaveAHandler`,
`JobsCanBeStopped`, `OpenAreKnown`, `StoppedSetsNoTimer`, `HttpAnsweredOnce`). `JobInv` combines the
types, the map (an operation is registered at most once, at its owner),
`NothingUnstoppable`, the pool (what is queued is distinct and waits) and
`CopyInv`, the argument of the race: a job beyond the copy that has an empty
onReply belongs to an operation that was stopped, because handlers are cleared
only after everything registered was stopped, and it will see that.
`AnswerInv` places each HTTP request at one stage: its job, a deferred response,
or a response sent. `StoppedSetsNoTimer` needs that the shutdown got past the join of
the pool, whether it was left by an exception or not, so that nothing is disposed
of any more. `OpenAreKnown` needs that a shutdown goes through its stages once (`ShutdownInv`):
a web socket that opens is put into the map, at whatever stage, and only the last one
empties it.

Three more theorems of ConnectionProofs are what the liveness properties rest on.
`RepliesKeepOrder` and `NoAnswerIsForgotten` come from one invariant, `HandedInv`:
`StopInv` (what is mapped was not told to stop unless its job is over, and is
mapped once; a job that waits is in the pool), `TaskInv` (at most one DATA and one
COMPLETE of an operation are deferred, in this order, on its own connection),
`ReplyInv` (how far a client is with the replies of an operation, given what is
deferred) and `HandInv` (an operation that nobody stopped and whose job has
replied has handed its last reply over, or lost its connection). So a
server at rest has answered everything that is still registered: an answer may be
late, never lost. `ClosedDoNotKeepThemselves` says that what keeps a closed
connection is work which ends: `tearDown()` has broken the cycle (`LiveInv`).

**SubscriptionProofs** (`SubscriptionTypes`, `StopLeavesNothing`,
`DeliveriesKeepInterval`, `StopSparesOthers`, `NoChangeIsLost`).
`SubscriptionInv` combines the types, `KeyInv` (who has a key, and which),
`StopInv`, `TasksInv` and `TimerInv`. `StopInv` is the argument about `stop()`: the
last job of a stopped operation is its unsubscription, whatever was queued
before, and once there is no job left it is known to nobody; so when the join
ends (`Joined`) nothing is left. `TimerInv` (a timer and the time since the last delivery make
up the interval) gives the rate limit. `StopSparesOthers` adds `ActiveInv` (keys are given out
once, and only a stopped operation unsubscribes), whatever an uninitialized key
holds: who is forgotten without being stopped shares its key with an operation
that was stopped before it got one. `NoChangeIsLost` is the
safety half of `LastChangeArrives`: at rest each
subscription that the schema knows and that was not refused has replied the current value. `CoveredInv` is the
argument: such a subscription is connected or about to be, and it is current, or
its signal is being emitted, or something is on its way to make it read the attribute (a
deferred notification, a merged trigger with its timer, the delivery timer, or a
job); each step that takes one of these away puts the next in its place.

**AttributeProofs** (`AttributeTypes`, `ListenerIsCurrent`,
`NoCallbackOfTheDead`, `ReadersAreUndisturbed`). `AttributeInv`
combines the types, `Phases` and `EventPhases` (what each phase of construction
and destruction says about the subscription), `NewestIsRemote` (the last event
on its way, or else the one in the callback, or else the stored value is the
remote one) and `EventFollows`, the argument about `mutateValue`: a user that is
about to store the answer of the service has an event behind it, which cannot
be stored before the user gives the lock back. Without it `NewestIsRemote` would
not survive `MutateStore`. `EventsInv` is its counterpart for collected events:
those that wait are the last ones, in order and without a gap, the callback has
the one before them, and what was collected is the last of each topic up to that
(`AccumulateLast`: there is at most one to replace). `ReadIsStable` is an action
property and follows from the lock's part of `TypeOK`, step by step.
`SubscribedIsAlive` is part of `Phases`.

**ScalarsProofs** (`ValidatedIsInRange`, `SetKeepsInRange`, `PrintedCanBeSet`) and
**MessagesProofs** (`ResponseRoundTrips`) are about the operators, for any
widths, ranges, types, ids and payloads: what `createResponse` puts together,
`toMessageParts` takes apart. `validateRange` never lets an integer out of its
range or its type, whatever NaN is converted to; `set` leaves each component as
it was, or makes it what was given, in its range or NaN, also when it throws half
way. **RequestProofs** (`TypeCorrect`, `ResolversAreGranted`, `ValuesAreInRange`,
`RefusalsAreKept`) uses them. `GrantInv`: the permissions
a connection has were allowed by the token it accepted last, an operation has
those of the token it was started with, and a subscription whose check counts as
done had passed it for each field that is never absent (`CheckedPassed`, with
`PassedSoFar` for the resolution in progress). `ValuesAreInRange` goes by what was
written last: each `ApplyField` changes the level to the number of its argument or
leaves it (`LevelApplied`), and a component of the color is NaN only if some request wrote
it so (`ColorApplied`). That a status is a number the server may send follows from
what `HttpStatus` finds in the replies that are built (`ErrorKeepsStatus`, `DataIsOk`). `RefusalsAreKept` is the
safety half of `RefusedIsStopped`: until a subscription that failed its check is
stopped, its resolution goes on or the deferred stop waits.

## Only model-checked, and not modelled

Liveness is checked by TLC only, since the prover has no rules for fairness and
ENABLED: `CollectionEnds`, `EveryGetReturns`, `EveryStartAnswered`, `ShutdownEnds`,
`ConnectionsAreFreed`, `GarbageIsCollected`, `LastChangeArrives`, `StopReturns`,
`ConstructionEnds` and `RefusedIsStopped`. For four of them a theorem says that
nothing gets lost on the way: `NoAnswerIsForgotten`, `ClosedDoNotKeepThemselves`,
`NoChangeIsLost` and `RefusalsAreKept`; and `CollectorNeverWaits` says why the
collector that joins creations under its lock does not wait for one. The proofs
about a round of messages avoid recursion: `Earliest` chooses an index where
`SelectSeq`, which is recursive, would be out of the prover's reach.

Not modelled:

- the name visitor: it walks the syntax tree that the parser of cppgraphqlgen
  builds, and modelling it would be modelling that tree;
- `startAccept`, reading keys and certificates: input and output;
- what an application does when an exception leaves `run()`: it may call it again,
  and the io_service then goes on, as the steps after `"failed"` do;
- exceptions of `subscribe()` that end the process, and a change of the interval
  of a subscription that runs;
- creations of `std::launch::deferred`, on the thread of the first who waits;
- what clients may expect of an id they use again: an operation that is complete
  stays mapped until STOP or the end of its connection, where src/README.md:77
  has it stored until the reply;
- external code: the schema and its resolvers, jwt-cpp, picojson, the parser of
  JSON, CommonAPI and WebSocket++ are modelled by how they are used;
- logging, building and packaging.

## Plan

Done, in the order of importance:

1. SingletonStorage, SingletonRegistry, SingletonStorageProofs.
2. Connection with the timer of the garbage collection, ConnectionProofs.
3. Subscription, SubscriptionProofs.
4. Attribute with the event attributes, AttributeProofs.
5. Messages, Authorization, Scalars and Request, with ScalarsProofs and RequestProofs.
6. SingletonSerialProofs with the refinement, MessagesProofs, and the safety halves of
   the liveness properties.

Left: an abstract cache that Attribute implements for the classes that listen;
deferred creations in SingletonStorage; and Connection over the abstract registry
instead of its one singleton. Runs of findings that share a cause with another
will make room for these.
