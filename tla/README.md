# mmmbbb: a verification project

mmmbbb is a message bus with the interface of Google Pub/Sub, kept in a SQL
database. This directory holds TLA+ modules that model its core, TLC
configurations that check them on small instances, and TLAPS proofs of the
properties that matter most for instances of any size. Everything is translated
from the code in `src/`; `PROJECT.json` maps every definition to its lines.

To check a run, `tlc -config X.cfg M` with the module and the configuration
that `PROJECT.json` names; to check the proofs, `tlapm M.tla` for each of
`MessageBus_proofs`, `DeliveryProofs`, `QueueProofs`, `WaitProofs`,
`WakeupProofs`, `StreamProofs`, `SmokeProofs` and `StressProofs`.

## 1. Inventory

| Component | State | Operations | Interacts with | Hard because |
|---|---|---|---|---|
| Bus transactions (`actions/*.go`, `ent/schema`) | the tables topics, subscriptions, messages, deliveries, snapshots | create, delete, update, publish, pull, ack, nack, extend, dead-letter, snapshot, seek, prune | every other component calls them, each call one transaction | transactions of clients and of seven background services interleave; rows outlive what they refer to |
| Pull loop (`get-subscription-messages.go`) | the sleeping calls, with a timer each | query, sleep, wake, give up | wakes on commits of the bus | timer computed once from rows that change afterwards |
| Awaiters and hooks (`notify.go`) | one mutex, maps of wait sets, registered hooks | await, cancel, wake, wake all | committing transactions, pulls, streamers, push monitor, notifier | a wakeup between query and registration; channels closed twice; hooks under the mutex |
| PostgreSQL notifier (`services/notifier.go`) | bounded queues, batch being sent, listening connection | hook, drain, `pg_notify`, `LISTEN`, reconnect, shut down | hooks on one side, `WakePublishListeners` of every process on the other | lost connections, full queues, shutdown |
| Message streamer (`message-streamer.go`) | pending deliveries, flow control | read, send, refresh, auto-extend | bus, awaiters, gRPC or HTTP connection | four goroutines share a map that is a cache of the database |
| HTTP push (`http-push-streamer.go`, `services/http-push.go`) | window, ack queues; a pusher per subscription | send, receive results, grow/shrink; start, harvest | streamer, any-subscription awaiter | results arrive in any order; endpoint changes |
| Service loops (`services/prune-common.go`, `services/deadletter.go`) | a ticker | run the action, back off | bus | eventually prune whatever is prunable |
| Fault injection (`faults/`) | lists of faults with a countdown | add, check, prune | gRPC interceptors, fault controller | concurrent decrement and prune |
| TypeScript clients (`internal/ts-compat/src`) | counters, timers, promises of one run | set up, publish, receive, acknowledge, clean up | bus through the NodeJS client library | callbacks, timers and responses in any order |
| Filters (`filter/`) | none | parse, evaluate, print | fan-out | precedence, printing and parsing |
| Migrations (`migrate/`, `db/migrate.go`) | table of applied migrations | load, sort, up, down | start of the process | failure between two migrations |
| Lifecycle (`services/wrap.go`, `cmd/mmmbbb`) | ready flags, contexts | start, ready, clean up | all services | order of start and stop |
| Front ends (`services/grpc-*.go`, `controllers/`) | none | validate, translate, call one action | bus | – |
| Swagger UI (`internal/swagger-ui/ui`) | none | show the API description | browser | – |

What makes each correct, in one line:

- *Bus*: a message a live subscription accepted is neither lost nor completed
  unseen before its TTL (at least once); order within a key; no dangling rows;
  attempts within the policy; seeks restore what a snapshot captured; what is
  no longer needed is pruned.
- *Pull loop*: a pull never sleeps past the moment something becomes deliverable.
- *Awaiters, notifier*: no wakeup is lost, nothing is closed twice, shutdown ends,
  lost connections come back.
- *Streamer*: never more outstanding than flow control allows; never stuck
  below the limit; extended deadlines do not lapse.
- *Push*: window in 1..1000; exactly one pusher for every push subscription,
  with its current endpoint.
- *Faults*: a fault with count n triggers exactly n times.
- *Clients*: end, and report success only when everything was sent and received.
- *Filters*: parse(print(f)) means f. *Migrations*: applied is a prefix, in order.

`PROJECT.json` lists the hazards at their lines, with the properties that
would catch them.

## 2. Modules

| Module | Models | Builds on |
|---|---|---|
| `AtLeastOnce` | abstract: what a subscription promises about a delivery | – |
| `MessageBus` | all transactions on the five tables | implements `AtLeastOnce` |
| `PullWait` | sleeping pulls: timers, and what every transaction announces | extends `MessageBus` |
| `Wakeups` | how an announcement reaches a sleeping pull: registry, hooks, notifier | – |
| `MessageStreamer` | one stream: its goroutines, window and connection | – |
| `AtMostCount` | abstract: what a set of injected faults promises | – |
| `FaultSet` | the lock-free fault injector | implements `AtMostCount` |
| `SmokeClient` | `smoke.ts` against the bus, with a clock | extends `MessageBus` |
| `StressClient` | `stress.ts` against a promise, with a network that loses | extends `FaultSet`, instantiates `AtLeastOnce` |
| `MessageBus_proofs` | proofs about `MessageBus`: types and references | |
| `DeliveryProofs` | promises, no wedged queue, the refinement of `AtLeastOnce`, attempts | `MessageBus_proofs` |
| `QueueProofs` | order, snapshots | `DeliveryProofs` |
| `WaitProofs` | proofs about `PullWait` | `QueueProofs` |
| `WakeupProofs` | proofs about `Wakeups` | |
| `StreamProofs` | proofs about `MessageStreamer` | |
| `SmokeProofs` | proofs about `SmokeClient` | `MessageBus_proofs` |
| `StressProofs` | proofs about `FaultSet` and `StressClient` | |
| `MCMessageBus`, `MCPullWait`, `MCWakeups`, `MCStreams`, `MCSmoke`, `MCStress` | instances for TLC | the above |

`StressClient` is composed with the promise and not with the tables: that the
tables keep the promise is the property `DeliversAtLeastOnce` of the bus.

Operators whose names end in `_Something` with a comment *Mutant* are wrong
variants of the definition after them. They are used by no specification:
replacing the definition by the variant must make TLC report the property, which
shows that the property depends on it.

### MessageBus

One action is one committed transaction of `src/actions` (or of the
gRPC handler or controller that has its own). An error rolls the transaction
back, so an early return with an error is a guard. One gRPC `Publish` of several
messages is one transaction in the code (`services/grpc-publisher.go:353`) and
several consecutive `PublishMessage` steps here: a finer grain, with more
interleavings than the code has.

| Variable | Code |
|---|---|
| `topics`, `subs` | tables, by id; `st` tells absent, live, soft-deleted and pruned rows apart |
| `messages`, `deliveries`, `snapshots` | tables, partial functions of ids (snapshots: of names) |
| `now`, `nextId` | the clock, the uuid generator |
| `promised`, `snapView` | observation only: what deliveries not handed out yet were promised; what a subscription looked like when a snapshot was made |

Data is abstracted where no property tells it apart: payloads are gone,
attributes are classes and a filter is the set of classes it matches; the
backoff is a function `NextDelay` of the retry policy the subscription has at
that moment and of the number of attempts, without the random
fuzz; `UpdateSubscription` changes any of expiration, retention, ordering, retry
policy, filter and dead letter policy, but not labels and the push configuration, which no
transaction here reads; `last_attempted_at` and the retry metadata of responses are left out.
A pull may take any part of what is deliverable, which covers count and byte
budgets and rows skipped because another transaction has locked them. A
delivery's id is a pair of a fresh number and its subscription, so that fan-out
needs no choice of ids. Publishing advances the clock, so no two messages carry
the same `publishedAt`; times past the horizon `MaxNow` are saturated to
`Never`, which no comparison with `now` can notice.
`NotBefores` lets `ORDER BY published_at DESC` pick any of several rows created
in the same instant, as the database may.

### PullWait

Adds `sleeping`: until when the pull of a subscription sleeps. `NextAttempt`
is the timer as `nextAttempt` computes it, second query included.
Each `Wait...` action is a transaction of the bus together with the set
of subscriptions its commit notifies, which is written down where the code
decides it (`NotifyCreated`, `NotifyCompleted`, `NotifySought`, `NotifyDelayed`,
`NotifyExpired`, `NotifyModifySubscription`). Notifications arrive at once here.

### Wakeups

Processes that share a database, with the mutex `nmu` and the map `pubWaiters`
of `notify.go` each, and on PostgreSQL the notifier: hook, bounded channel
`pubNotifies`, the loop that drains it and sends, and the listening
connection. The database is reduced to the set of subscriptions with something
deliverable. A step is what a goroutine does between two points where it can be
overtaken: the registration of the awaiter and the query are separate,
a hook that waits for room in the channel keeps `nmu`, a notification is
received by one goroutine and acted on by another. Faults are steps with bounds:
the listening connection is lost (`Drop`), a send or its connection fails
(`ConnectFails`, `SendFails`), the network times out (`TimesOut`), and a process
is shut down (`Stop`). Without PostgreSQL (`Databases`) no notifier starts and a
commit wakes the pulls of its own process directly. PostgreSQL's part, that a notification reaches the
connections listening when it is sent, is taken from its documentation as
`notifier.go` uses it.

### AtLeastOnce and its refinement

`AtLeastOnce` gives a delivery one of six states and lists the moves between
them that a step may make: accepting, handing out, acknowledging and lapsing in
any transaction, forgetting only in a prune, and taking an
acknowledgement back, or giving one nobody earned, only in a seek.
`StateOf` in `MessageBus` reads the state off the rows: completed
is `done`, past its own or its subscription's life is `lapsed`, attempted is
`handed`. `DeliversAtLeastOnce` says that every transaction of the bus, however many
rows of however many tables it touches, is such a step. Its second part,
`PromiseMoves`, ties the moves to their transactions: only one of the
prunes of deliveries forgets, and only a seek makes the moves of a seek.

### MessageStreamer

`MessageStreamer.Go` starts five goroutines that share the map `pending` under a
lock, and the channel `wakeSend` of one token. A step ends where a goroutine gives up the
lock, waits or commits: the sender computes the room it has, pulls, and enters
what it pulled in three steps; the refresher reads `pending`, queries, and
removes in two; the reader commits and then removes; the auto-delayer picks and
then extends. Three kinds of client are behind it: one that acknowledges on
its gRPC stream, one that uses requests of its own as the NodeJS library does
(`"standalone"`), and a push endpoint with its window and its three
queues, in which an answer waits for room. One pull takes at most `MaxPull` deliveries (100 in
the code). A nack leaves the delivery due again, or dead-lettered and thereby done. The byte budget is kept by the same statements as the message budget
and left out; expiry of a row looks to the refresher like an acknowledgement.

### FaultSet

`Check` scans the list under the read lock and decrements without any, so a call may find
a strike that others take before it does; then it scans again. A scan is one
step, since counters only go down. Pruning runs in a goroutine of its own.
`StrikesAsConfigured` is the refinement of `AtMostCount`, where the decision
is one step, under the mapping that takes a negative counter for zero.

### SmokeClient and StressClient

A step of a program runs from one `await` to the next, or is one callback. The
requests of `smoke.ts` are the actions of `MessageBus`; its timers need time, in ticks
of 50 ms: 1100 ms is 22 ticks, the handler's sleep 0 to 20, the last grace period 2, and the
backoff of 1.5 s that the program sets with its second update is 30 (the default, 10 s, is 200). How long a request, a message or an acknowledgement takes
is an assumption, not code: 3 ticks at most a way and 1 for the end of a stream.
With them the properties hold. `HandlersFinish` does not need them: the timer is
refreshed when a handler begins and outlasts its sleep by itself.

In `stress.ts` time plays no part, but order does: publishes, deliveries and an
error of the stream end one `await`. The connection loses messages and
acknowledgements, the server hands out again what was not acknowledged, and a
publish that an injected fault struck is repeated by the client library or
rejected, depending on the fault. `numReceived` counts to `MaxReceived` only.

## 3. Runs

All configurations say `CHECK_DEADLOCK FALSE`: in the bus the clock stops at
the horizon, in `Wakeups` the commits run out and pulls then sleep, a stream
ends and so do the programs, as they may.

| Run | Question | Bounds |
|---|---|---|
| `delivery` | do pulls, responses, prunes and the three dead-letter paths keep promises, limits and order? | 2 topics, 2 subscriptions, 4 ids of one key, limit 1, horizon 4 |
| `lifecycle` | do references resolve while rows of two incarnations expire and are pruned one at a time, and is a deleted topic pruned in the end? | 2 topics and 2 subscriptions of one name, 1 message, horizon 4; fair services |
| `seeks` | do seeks, expiring subscriptions and updates of expiration and retry policy wedge order, break promises, keep snapshots from being restored, or let a pull oversleep? | 2 messages of one key, 2 attempts, 1 snapshot, any time, backoffs 1 and 2, horizon 4, a topic that stays |
| `wake_responses` | does a pull oversleep, a delivery get lost or one come before its delay, around responses, dead letters, expiring predecessors, injected delays and updates of ordering and dead letter policy? | 2 topics, 2 subscriptions, 2 messages, a delay of 0 or 2 injected on the dead letter subscription before the first publish, backoff as long as the TTL, horizon 3 |
| `wake_registry` | can a channel be closed twice, with every fault and a shutdown, on either database? | 1 process, 2 interchangeable pulls (symmetry), 2 subscriptions, 2 commits, one fault of each kind |
| `wake_listener` | is a wakeup lost between two processes when a listening connection is lost? | 2 processes, 2 pulls, 2 commits, 1 drop |
| `streams` | does a stream stay within its window, account for what its client holds, send everything, and end? | gRPC with 2 deliveries in a window of 1; push with 1 in a window of at most 2; answers in own requests with 1 in a window of 2; pulls and queues of 1; one nack or seek |
| `smoke` | does the smoke program receive once, acknowledge in time and hear of the deletion? | 1 message, sleeps and latencies at every tick, horizon 80 |
| `stress` | does the stress program end and report only complete runs, and does the fault set keep its promise under it? | 2 publishes racing for 1 strike, any losses |

The bounds are the smallest that let the interesting cases happen. Four ids are
two messages of a batch and the dead letters they become, and three messages in a row
with the middle one pruned; a horizon of 4
ticks lets a message be published, attempted, backed off and expire, and lets
something published after it be attempted before; two incarnations
show rows of the old one next to the new one; capacity 1 makes a channel full
after one notification, as 100 does after a hundred; two calls and one strike are
the race for the last strike. One ordering key is enough in the passing
runs because the code never compares keys, it only asks whether there is one
(`delivery-utils.go:83`); `keyless_order` has both cases. That no smaller case was
missed is what the mutants test, one for every property of every run.

The violation runs show where the code does not do what a document or a comment
says; `findings` in `PROJECT.json` quotes both.

| Run | Shows |
|---|---|
| `keyless_order` | a message without a key cuts the chain of the messages with one |
| `topics_snapshot` | a snapshot of a deleted topic's subscription stops all topic pruning |
| `streams_apart` | nacks in requests of their own fill the window of a stream for good |

The instances of the passing runs leave out the cases of the disagreements, those
below included: `delivery` has only keyed messages, no extended deadlines and no seeks,
`wake_responses` no deadline extended beyond the backoff and no shorter retry policy (so a
nack never makes a delivery due earlier) and no seeks (so a delay holds), `seeks` no
nacks, delays and dead letters, and in `streams` the client that answers apart asks
for more than it can nack. `wake_listener` has no failing sends, for which the
code itself promises nothing (`notifier.go:202`), and no network timeouts.

### Further disagreements the models show

These have no run of their own. Each is a behaviour of the model as it stands.

- *Snapshots and filters.* The comment at `create-snapshot.go:139` says messages
  without a delivery are found by the left join; `AckedSince` cannot list them, as
  the condition on the subscription is in the WHERE clause (`:151`).
- *Snapshots of dead letter subscriptions.* Acknowledged messages are looked up by
  the topic of the subscription (`create-snapshot.go:144`), but a dead letter keeps the
  topic it was published to, so seeking such a subscription to its own snapshot
  reopens dead letters that were acknowledged: `SeekRestoresSnapshot` fails there.
- *Dead-lettering and order.* `dead-letter-deliveries.go:110` says no delivery
  blocked on ordering can match. A seek that reopens the predecessor of an
  exhausted delivery makes one match: `DeadLetterNeverBlocked` fails with seeks.
- *Timers and expiry.* The comment of `nextAttempt` promises the next attempt or the next
  expiry, "whichever is first" (`get-subscription-messages.go:345-347`). The second query is
  ordered by `attempt_at` like the first (`:363`), so it looks at the
  expiry of the delivery that is attempted next and not at the expiry that comes first:
  when several are not blocked, say because a message without a key stands next to the
  queue, and deadlines are extended past the retention of a predecessor, `NeverOversleeps` fails.
- *Snapshots of another topic.* A seek does not compare the topic of the snapshot with the
  topic of the subscription (`seek-subscription-to-snapshot.go`).
- *What "all received" counts.* `stress.ts:62` prints it when `numReceived` is full. It counts
  deliveries, so one message that came twice stands for one that did not come.
- *Stale entries in `pending`.* An acknowledgement in a request of its own that
  commits between a pull and the entry in `pending` leaves an entry that only a later notification
  removes, and a delivery whose deadline lapsed unanswered keeps its place
  on a gRPC stream (`message-streamer.go:252`, `:306`). `EverythingIsSent` holds in
  `streams` all the same since its client answers in the end.
- *Nacks.* A nack sets `attempt_at` to the backoff and notifies nobody
  (`nack-deliveries.go:130`). That may be before the deadline a client had extended it
  to, and before the one of the attempt, when an update has shortened the retry policy
  since (`grpc-subscriber.go:254`): `NeverOversleeps` fails in both cases.
- *Delays and seeks.* `src/README.md:206-208` says that "every message for the subscription will
  not have any delivery attempted until the given delay after it was published". A seek
  forward acknowledges a delayed delivery that nobody received, a seek back reopens it with
  `attempt_at` set to now (`seek-subscription-to-time.go:114-116`,
  `seek-subscription-to-snapshot.go:149-151`), and the next pull hands it out before
  the delay is over: `DelayHonoured` fails when a run has both delays and seeks.
- *Waking several subscriptions.* Without hooks, `WakePublishListeners` returns at the
  first id that nobody waits for (`notify.go:215`, operator `Reached`), and a zero
  delay passes all its subscriptions in one call (`delay-deliveries.go:114`):
  `NoLostWakeup` fails on `"sqlite"` with two subscriptions.
- *Hooks and shutdown.* The hook blocks on a full channel while it holds `nmu`
  (`notifier.go:115`), against the comment at `notify.go:202`. After the send loop
  has ended nothing empties the channel, and `Cleanup` never gets `nmu`.
- *Two notifications at shutdown.* When the loop leaves with one notification in the
  channel `received`, the goroutine that has the next blocks in its send
  (`notifier.go:299`, state `"stuck"`) and `Cleanup` waits for ever.
- *Network timeouts.* A timeout that the context did not cause ends the receiving
  goroutine with nil (`notifier.go:291`, state `"deaf"`): `runOnce` does not return and
  the connection is not retried.

### Fairness

- `PruneFairness` (`lifecycle`, `topics_snapshot`): the clock runs, and each prune service is weakly
  fair. `services/prune-common.go` runs the action from a ticker until the
  process ends, whatever the last run returned. A run of `PruneDeletedTopics`
  whose statement a foreign key aborts is no step, so fairness does not get it
  past a batch that cannot be deleted.
- `Progress` (`wake_*`): weak fairness of every goroutine of the wakeup path:
  Go schedules them, grants a mutex that becomes free for good and completes a
  send when there is room. Connections that do not fail make progress. There is
  none for giving up, for commits, for faults and for `Stop`.
- `StreamFairness` (`streams`): weak fairness of every goroutine of a stream, of
  the client that answers what it was sent (a push request ends by its timeout at the latest),
  and of time, which makes a leased delivery due. None for publishes, seeks,
  nacks, cancellation and the auto-delayer's choice to extend, so it may extend for ever.
- `StressFairness` (`stress`): the event loop runs what is ready, the
  server answers requests and its goroutines are scheduled. `OnMessage` is strongly fair: the
  connection may lose a message again and again, but not for ever. None for
  errors, losses and acknowledgements.
- `smoke` needs none, its properties are safety: time stops while something is overdue
  (`Urgent`), which is how the latencies are assumed.

## 4. Proofs

The theorems hold for every value of the constants that the named assumptions
of the modules allow. For the bus (`MessageBus`) these are: the bounds are
natural numbers, backoffs are natural numbers, requests are well typed and have
both or neither of dead letter topic and attempt limit (`NewCreateSubscription`
panics otherwise, `create-subscription.go:73`), and NULL is no value. `Wakeups`
asks that every puller and writer has a process, `MessageStreamer` that windows are positive
and that the deliveries of a stream are finitely many, so that they can be counted,
`FaultSet` and `StressClient` that counts are positive and matching is a relation
of calls and faults. `SmokeClient` asks for no filter and a retention of more than one
tick, and for inequalities between the times of `smoke.ts` and the latencies, which are
constants: a handler's sleep (1000 ms) is shorter than the timer (1100 ms), and so are two
legs on the network; two legs and the sleep are shorter than the first backoff, by default (10 s) and
as the program configures it (1.5 s); the stream
of a deleted subscription ends within the 100 ms of grace. How many topics, subscriptions, messages, processes, pulls,
deliveries or faults there are is left open everywhere.

### The bus

| Theorem | States | Strengthening and argument |
|---|---|---|
| `TypeCorrect`, `ReferencesAlwaysResolve` | `Spec => []TypeOK`, `Spec => []ReferencesResolve` | inductive only together: a fan-out types new rows from the subscriptions it reads, whose topic is there because references resolve. One lemma for every transaction; fan-out (`FanoutStep`) and deleting deliveries (`DropDeliveriesOK`) are factored out |
| `PromiseAlwaysKept` | `Spec => []PromiseKept` | `PromiseInv`: a promised delivery of a live subscription was not attempted, and until its promise ends it is open and expires when the promise does. Each step's promises are new with their row, old with their row untouched, or withdrawn and renewed by a seek (`PromiseStep`) |
| `DelayAlwaysHonoured` | `Spec /\ [][UnseenStayDone]_vars => DelayHonoured` | `DelayInv`: every row that was never attempted has a promise, and while it is open `attempt_at` is the promised time; what is attempted is due. It is inductive only if nothing unseen is reopened (`UnseenKept`), which no transaction but a seek does |
| `OrderingNeverWedgesAlways` | `Spec => []OrderingNeverWedges` | `ChainInv`: `notBefore` points to a delivery of the same subscription with a smaller id, so the least outstanding one, which exists since ids are well-founded, waits for nobody outstanding |
| `ImplementsAtLeastOnce` | `Spec => DeliversAtLeastOnce`, a refinement in which only prunes forget and only seeks seek | every transaction other than a seek or a prune keeps, completes or creates each row or has none (`Works`, one lemma per transaction); each of these ways is a move of `AtLeastOnce` (`WorksMoves`, `SeekMoves`, `PruneMoves`). Pruned ids do not come back since ids are drawn above `nextId` (`ChainInv`); what a seek reopens has not lapsed since a live subscription's retention is positive (`RetentionInv`) |
| `CompletedWasHandedAlways` | `Spec /\ [][~Seek]_vars => []CompletedWasHanded` | from `Works`: a row is completed only where an attempt is recorded, and attempts never go down |
| `AttemptsStayWithinLimit` | `Spec /\ [][LimitKept]_vars => []AttemptsWithinLimit` | an attempt is added only to a row that is not exhausted under the policy of that moment |
| `DeadLetterNeverBlockedAlways` | `Spec /\ [][OrderKept]_vars => []DeadLetterNeverBlocked` | `HandedNotBlocked`: what was handed out was not blocked then, and no step but a seek blocks a row again |
| `OrderRespectedAlways` | `Spec /\ [][QueueKept]_vars => OrderRespected`, for messages with a key | `QueueInv`: a delivery waits for the last one before it that may be outstanding (`WaitsForLast`), deliveries expire in the order of publishing (`ExpiresInOrder`), and nothing was handed out with something outstanding before it. When a predecessor is acknowledged, expires or is pruned, everything before it was settled already, so the reference it leaves behind may be cut (`Released`) |
| `SnapshotsRestore` | `Spec /\ [][KeptApart(T)]_vars => SeekRestoresSnapshot`, for every `T` | `SnapInv`: what a snapshot counts as acknowledged (`AckedIn`: published before its instant, or listed) is exactly what was acknowledged when it was made, and nothing that came since (`Faithful`). A new snapshot is faithful because a subscription's deliveries come straight from publishes to its topic, one for each message and all before now (`Straight`); it stays so because no transaction, seeks and prune services included, changes the message or the publishing time of a row, and new rows have larger ids and later times |
| `WaitTypeCorrect` | `WaitSpec => []WaitTypeOK` | `WaitSpec` implies `Spec`: each transaction with its announcements is the transaction |
| `NeverOversleepsAlways` | `WaitSpec /\ [][QueueKept /\ NacksPutBack]_vars => []NeverOversleeps`, for messages with a key | `QueueInv`, and that an ordered subscription holds deliveries of its own topic only (`OwnTopic`). Falling asleep: `nextAttempt` looks at one expiry only, but what is not blocked expires no later than anything else outstanding (`FrontExpiresFirst`). Asleep: a transaction that does not announce itself to a subscription brings nothing nearer for it (`Quiet`, one lemma per transaction) |

Seven of them have a hypothesis about what clients and operators do, since the
code does not keep the property without it:

- `[][~Seek]_vars`: a seek acknowledges what nobody received, on purpose.
- `UnseenStayDone`: nothing that nobody received is reopened. Seeks are allowed, also those
  that acknowledge what nobody received, and those that reopen what was attempted (section 3).
- `LimitKept`: no update gives a subscription with deliveries a dead letter
  policy or a lower limit. Attempts made before then count against the new limit.
- `OrderKept`: no seeks, and no subscription that has been created becomes ordered. A seek
  reopens the predecessor of an exhausted delivery (section 3); switching to
  ordered delivery blocks rows that were handed out without order.
- `QueueKept`: besides `OrderKept`, no shorter message TTL (a later message would
  expire first and release its successor early) and no dead letters
  into an ordered subscription (a batch of them carries one `publishedAt`). And
  every message has a key: `keyless_order` shows what happens otherwise.
  `NeverOversleeps` needs the same for its timer: where a later message may
  expire first, or a keyless one stands next to the queue, the one expiry that
  `nextAttempt` looks at is not the first (section 3).
- `KeptApart(T)`: the subscriptions into which dead letters are sent are all in `T`, and no
  snapshot is made of one in `T` (section 3). With dead letters anywhere else, filters, other
  seeks, expiry and pruning the property is proved.
- `NacksPutBack`: no nack brings an attempt forward, that is, takes back a deadline
  that was extended beyond the backoff or set under a longer retry policy (section 3). Extending
  deadlines and changing policies
  are not excluded, nor are zero delays, which are announced.

Each is an action formula over the variables of the bus and excludes nothing else: publishes,
pulls, answers, expiry, all prune services, deletion and re-creation of topics
and subscriptions interleave as they like.

### Wakeups, streams and the clients

| Theorem | States | Strengthening and argument |
|---|---|---|
| `WakeTypeCorrect`, `NeverClosedTwice` | `WakeSpec => []WakeTypeOK`, `WakeSpec => []NoDoubleClose` | `WakeInv`: a channel is in the wait set of its process and subscription exactly while it is open and its pull has not left (`WaitersListed`, `ListedUntilClosed`), so whoever closes it takes it out; `nmu` is held by nobody but a writer of its process in the middle of a call, as a hook that waits keeps it (`HookHeld`, also in `WakeTypeOK`). With every fault and with shutdowns |
| `NoWakeupLost` | `WakeSpec => []NoLostWakeup`, given `Reliable` | a notification is in the calls of a writer, in a queue or batch of a notifier, in a connection, or the listener is not up and will wake everyone (`Whereabouts`); each step hands it on. `Deployed` says which goroutines exist on PostgreSQL and on SQLite |
| `StreamTypeCorrect` | `StreamSpec => []StreamTypeOK` | one lemma per goroutine; the window of a push connection is bounded by both branches of its adjustment |
| `NeverOverWindow` | `StreamSpec => []WithinWindow` | `WindowInv`: while the sender pulls, what is pending and the room it computed fit the largest window together, since everyone else only takes from `pending` |
| `HeldAlwaysPending` | `StreamSpec => []HeldIsPending` | `HeldInv`: what the refresher, the reader and the answer queues are about to take from `pending` is done in the database, and stays so without nacks and seeks |
| `SmokeTypeCorrect`, `AckedBeforeDeletedAlways`, `ReceivedOnceAlways`, `ExpectedErrorAlways`, `HandlersAlwaysFinish` | `SmokeSpec => []SmokeTypeOK`, the same of `AckedBeforeDeleted`, `ReceivedOnce` and `ExpectedError`, and `SmokeSpec => HandlersFinish` | `SmokeInv` follows the one message: while its delivery is open it waits for the stream to pull it before time passes (`Waiting`) or is on the wire, in a handler or in an acknowledgement (`Carried`), and from each of these places both `msgTimeout` and the backoff outlast the rest of the way. Nothing stays anywhere longer than assumed (`OnTime`, from `Urgent`), so the timer goes off only when nothing is under way (`FireQuiet`). Which rows exist at which `await` is in `SubStage`, `MessageStage` and `StreamStage`, which survive failing requests at every point |
| `FaultTypeCorrect`, `StrikesAsConfiguredAlways`, `StressStrikesAsConfigured` | `FaultSpec => StrikesAsConfigured`, a refinement, and the same of `StressSpec` | `FaultInv`: what a call found matches it and was added, and every description with strikes left is still in the list. So an empty scan is a `Pass`, a decrement of a positive counter a `Strike`, and a lost race or a prune changes nothing that `AtMostCount` sees |
| `StressTypeCorrect`, `ReportAlwaysComplete` | `StressSpec => []StressTypeOK`, `StressSpec => []ReportIsComplete` | `ReportInv`: `numSent` is the number of answered publishes, what was stored while the subscription lives was queued, and nothing is deleted before `main` settles |

`Reliable` is what `notifier.go` itself makes a condition of: `pg_notify` does not fail
(`:202`), no connection goes deaf, nobody shuts down. Dropped listening connections, lost notifications
and reconnections are all in. With SQLite there is one process, and no zero delay names
several subscriptions in one call, for the reason in section 3.

### Only model-checked

- Everything temporal with fairness (`UnneededTopicPruned`, `SleeperWakes`,
  `EverythingIsSent`, `StreamEnds`, `StressEnds`, `SpentIsPruned`): liveness is out of reach of the prover.
  Every invariant and every action property that a passing run checks is proved.

## 5. Not modelled

- The monitor of `services/http-push.go`, which starts and stops a pusher per push
  subscription. It does not notice that an endpoint changed (`:212`).
- Filters and migrations: sequential code over data, with tests of their
  own. The bus takes a filter as the set of messages it matches.
- The listeners for modified topics and subscriptions in `notify.go` and their
  queues in `notifier.go`: same structure as publishes, left out to keep
  `Wakeups` small.
- Isolation levels: actions are atomic transactions. With SQLite they are; on
  PostgreSQL two transactions that read before either writes may interleave.
- The start and stop order of services, and the validation of requests.
- Swagger UI: vendored browser code and its configuration, without state.
- Byte budgets, random fuzz, metrics, logging, generated code.

## 6. Plan

1. `HttpPush`: the monitor with one pusher per subscription, composed with the
   any-subscription awaiter of `Wakeups`.
2. `PublishRace`: fan-out, subscription creation and ordered publishing as
   several reads and writes under read committed isolation.
3. `Filter` and `Migrator`, against reference definitions over bounded inputs.
