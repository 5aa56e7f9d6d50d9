# Formal models of `manager_handlers`

`manager_handlers` runs application handlers behind two doors: an HTTP server
(actix-web), which limits requests with semaphores, and an in-process message
bus, over which handlers dispatch events to each other and publish requests that
are answered. This directory holds TLA+ models of these parts, TLC
configurations that check them on small instances, and TLAPS proofs for every
instance.

To check a run: `tlc -config MCMultiBusCore.cfg MCMultiBus`. To check the proofs
of a module: `tlapm MultiBusProofs.tla`. `PROJECT.json` lists the runs, the
source lines of every definition, the hazards and the findings.

## Inventory of the system

| part | state | operations | interacts with |
|---|---|---|---|
| **Message bus**, `core/communication/multibus.rs` | worker count (a mutex), queues per address and notifiers per address (two read-write locks) | `initialize`, `remove`, `send_data`, `request_data` | everything that sends or requests; `select!` in the supervisors cancels requests |
| **Publish and dispatch**, `core/communication/pub_sub.rs` | the id counter | `publish`, `dispatch`, `setup_publishing` | the bus |
| **Supervision**, `manager.rs` 356-473 | per handler: free replica ids (a mutex), a `Notify`, one supervisor task, one task per call | the supervisor loop, `process_handler_call`, `run_and_dispatch` | bus, Redis, `Base::run` |
| **HTTP routes**, `core/routes/{general,files}.rs`, `manager.rs` 548-600 | a semaphore for all requests, one per handler, the shutdown `Notify` | `process_request`, `process_upload`, `process_download`, `process_metadata`, `shutdown_from_http` | `Base::run`, `run_file`, `run_stream`, `run_metadata`; not the replica ids of the supervisors |
| **Redis**, `core/traits.rs` 114-206 | connections; the broker | `publish_redis`, `dispatch_redis`, `subscribe_topic_redis` | broker, supervisors, shared state (`redis_url`) |
| **Lifecycle**, `manager.rs` 72-347, 535-638 | handler table, listeners, configuration | builders, `add_handler`, `start`, `force_finish_all` | all others |
| **Shared state**, `core/states.rs` | a map behind a read-write lock | `get`, `insert`, `delete`, `get_any` | handlers, `start` |
| **Handler trait**, `core/traits.rs`, `macros.rs` | none | defaults, generated code | bus |
| **Authentication**, `core/routes/middleware.rs` | none | compares a header | HTTP |
| **TLS**, `core/security/cert.rs` | none | checks a client name | HTTP |

What makes the behaviour hard: every function of the bus is a sequence of short
critical sections with awaits between them; `notify_waiters` wakes only those who
wait already; a `select!` may drop a future at any await; spawned tasks outlive
those who spawned them; panics end one task and leave what it owned; and the same
pool of workers is used for requests and for the replies to them.

What makes each part correct:

- *bus*: messages of an address are received in order and once; the worker count
  is what the messages under way say it is; the locks do not deadlock; senders and
  requesters finish.
- *publish*: the caller gets the reply to its own message, and does so eventually;
  nothing of a reply address is left behind.
- *supervision*: at most `nr_replicas` calls at a time, ids are not duplicated, a
  request that was taken off the bus is run.
- *routes*: permits come back whatever ends a request; the answer agrees with what
  happened; each request ends.
- *lifecycle*: no call comes before its topics exist; the newest supervisor of a
  topic hears what is sent to it; `start` takes no `redis_url` away from a supervisor;
  handlers that publish to each other get their replies.

## Modules

| module | models | 
|---|---|
| `MultiBus` | the bus, with the most general client |
| `FifoBus` | what the bus promises: a queue per address |
| `PubSub` | publishers, dispatchers, a supervisor and its replicas over `MultiBus` |
| `HandlerPool` | the ids of the replicas of one handler |
| `RequestGate` | the HTTP routes and their semaphores |
| `RedisBus` | publishing over Redis between processes, and the `select!` of their supervisors |
| `Lifecycle` | a manager from `start` to `force_finish_all`, with calls that publish to other handlers |
| `MC…` | instances for TLC |
| `MultiBusProofs`, `MultiBusFifoProofs`, `PubSubProofs`, `HandlerPoolProofs`, `RequestGateProofs`, `RedisBusProofs`, `LifecycleProofs` | proofs |
| `SequenceLemmas` | lemmas about sequences that several of them use |

### MultiBus

A step is what one task does in one critical section or one `Notify` operation,
because another thread can get in between any two of these. `pc[t]` is the place
of task `t`; the definitions are named for it:

- `send_data`: `CheckWorkers` (the `while` condition, 63), `ClaimWorker` (75-76),
  `PushMessage` (79-81), `LookupNotifier` (84-86), `NotifyWaiters` (87). The guard
  of the worker count taken at 75 lives to the end of the function, which
  `HoldsWorkers` says.
- `request_data`: `ReadLength` (99-101), `FetchNotifier` (109-111), `ArmNotified`
  (the `notified()` future begins to receive, 112), then `PopOne` and
  `CreditWorker` of `get_one_request`. `NotifyWaiters` moves all that wait on the
  same `Notify` object to `PopOne`.
- `initialize`: `LockMemory`, `InsertAddress`, `FirstTick` (it keeps the notifiers
  locked over the first tick). `remove`: `LockMemory`, `RemoveAddress`.
- Each `unwrap` on a missing address is an action that ends the task in `panicked`.
- `CancelRequest`: `request_data` is dropped at one of its awaits.

Locks are not variables: a task holds one exactly at certain control points.
Messages have an identity (each is sent once), so `fate` can record how far each
has come; `fate` and `spurious` are history and constrain nothing.

### PubSub

`EXTENDS MultiBus`, whose own behaviour is `BusSpec`; an action of `PubSub` calls a
bus operation (`CallSendData` and so on) and `InsideBus` does its steps. Tasks,
addresses and messages of the bus are then no longer arbitrary: `PubSubAssumption`
says what they are here, that no topic has the form of a reply address, and that
`MaxNotifiers` stops nobody. A
publisher goes through `LoadId`, `StoreId`, `InitializeReply`, `SendRequest`,
`AwaitReply`, `RemoveReply`, `Return`; the supervisor through `AskForData`,
`TakeData`, `HandOver`; a replica through `RunWithReply` or `RunWithoutReply` and
`FinishReply`. The reply address is the pair of source and id. Clients start once
the topic exists. Redis is not configured, so no request is cancelled.

### HandlerPool

`standby` is `standby_handlers`; `ReserveId`, `FindNoId` and `ArmNotification` are
the inner loop of the supervisor, `PutBackId` and `NotifySupervisor` the end of
`process_handler_call`; a run may panic (`RunPanics`), which loses the id. Notices
that are still to be given are counted, not tied to an id: the id may be in use
again by then. Requests arrive from outside, up to `MaxRequests`.

### RequestGate

A request has a *front* (the route handler) and a *task* (the spawned processor).
The front reads the body or feeds the channel of an upload, then waits in a
`select!` for the task or for the shutdown notice; it may be dropped at any time.
The task acquires two permits in order, runs, and gives both back when it ends,
also after a panic. Semaphores serve waiters in order, as tokio's do. A run may end
whenever it likes, with success, an error or a panic: one that stores an upload need
not have read all of it. `faults` is history: whether the body of an upload broke
off and whether its run stopped before the end of the stream.

### RedisBus

`Caller` are handlers that call `publish_redis` or `dispatch_redis` once; `Service`
are the supervisors of one handler in different processes. A caller goes through
`SubscribeReply`, `PublishRequest`, `AwaitReply` and ends with `ReceiveReply`,
`Timeout` or `CallPanics`. A supervisor chooses in `BeginLoop` between the bus alone
and both, subscribes anew in every iteration (`Subscribe`), and takes from one of
them (`TakeFromRedis`, `TakeFromBus`), which drops the other: the connection with
what is in it, or a `request_data` that may have popped a request. Then `HandOver`,
and at the end of the run `FinishWithReply` or `FinishWithoutReply`. The server is
external: `PublishToTopic` reaches the connections that are subscribed and nobody
else. `redis_url` is an entry of the shared state, so `WriteRedisUrl` may set or
clear it at any time; a supervisor that has read a url and then finds none panics
like one whose connection fails (`SupervisorPanics`). The bus and the ids are those
of `MultiBus` and `HandlerPool`, here only a set of requests and a count of runs.
`log`, `taken` and `answered` are history.

### Lifecycle

Where the other modules take one part and all its steps, this one takes the whole
manager, with several handlers, and larger steps.

- `main` is where the owner of the manager is: `idle` outside of `start`, `handlers`
  in `initialize_handlers`, `bound` when the server exists but is not polled,
  `serving` when it is. `Start`, `InitializeHandler` for each handler in any order (the
  table is a hash map), `LaunchServer`, `WriteUrl` and `Shutdown` are the stretches of
  `start`. `LaunchServer` covers `ignore_server_init` (`start` returns), the second
  `install_default` in a process (it panics) and files or a port that are missing.
- `given` is whether the manager has a url: `WithRedisUrl` may give it one or an empty
  string, also between two starts. `url` is the entry `redis_url` of the shared state. It
  is written by `AddGlobalState` with any value while the manager is idle, by `StoreUrl` of any
  run, which may also delete it, and by `WriteUrl`, which overwrites it with the
  manager's own, or with the empty string. An entry of another type counts as none, as
  it does in the code. `meddled` is history: whether anybody but `start` wrote the entry,
  or `WithRedisUrl` emptied the url that the manager had.
- `sup` has a supervisor for each handler and each start. It is in `loop` where it
  reads `redis_url`, then in its `select!` (`bus_only`, `connecting`, `subscribed`), then
  in `reserve` until a replica is free. `SubscribePanics` is the second look at
  `redis_url` in `subscribe_topic_redis`.
- `wait` is how far a supervisor is with waiting, for a message or for an id, and
  `reply_wait` the same for the run of a call that awaits a reply: it `looks`, has found
  nothing and is `unarmed` (`FindNoMessage`, `FindNoId`, `FindNoReply`), then `armed`
  (`ArmSupervisor`, `ArmPublisher`). Only who is armed is woken by a send, an id that is
  put back or a reply, so wake-ups are missed here as they are in the code. A supervisor
  that was `woken` for a message that another one has taken goes on with none.
- A second start makes new queues and new `Notify` objects for the same topics.
  `InitializeHandler` therefore loses what is queued, and a supervisor that waits on
  the old `Notify` becomes `deaf`.
- `ForceFinishAll` aborts the supervisors, each at an await; the runs they have
  spawned go on, and so do runs that HTTP started.
- `call` follows each call: `queued` on the bus, `held` by a supervisor that looks for
  a replica, `running`, and how it ended. `Send` is a run that publishes (and is
  `Waiting` until it takes the reply) or dispatches; `SendPanics` is one whose topic is
  not there. A run that fails is told apart from one that succeeds only if it owes a
  reply, and a panic only if it takes an id along.

Assumed here: Redis does not fail (`RedisBus` has that). A look into a queue that
finds a message takes it in the same step, and a send is one step (`MultiBus` has what is
between). A send never waits for a worker, since any number of senders may have passed
the check; that there may be none left for it is what `WorkerLeft` says in
`PublishesReturn`. Of the permits of the routes only those of the handler are here, with
the runs that hold them. Messages to the topic `manager`, which `start` makes and nobody
serves, and to reply addresses of others are left out.

## Runs

| run | shows | instance |
|---|---|---|
| `bus_core` | `TypeOK`, `WorkerAccounting`, `LockHoldersMove`, `ImplementsFifo`, `OperationsFinish` | 2 tasks, one cancellable, 1 address, 2 messages, 1 worker, 2 notifiers, fair locks |
| `bus_overcommit` | `QueuesBounded` **fails** | 2 tasks, 1 worker |
| `pubsub_core` | `PubSubTypeOK`, `OwnReply`, `NoPanic`, `NoWorkerLeak`, `ReplyAddressesReclaimed`, `OnlyUnarmedMissReply` | 2 publishes of one handler and 1 of another, 1 dispatcher, 1 replica, 2 workers, 1 id, runs that may fail |
| `pubsub_collision` | `OwnReply` **fails** | 2 publishers of one source |
| `pubsub_lost_wakeup` | `PublishReturns` **fails** | 1 publisher, 10 workers |
| `pubsub_jam` | `ReplyGetsWorker` **fails** | 1 publisher, 2 dispatchers, 1 replica, 1 worker |
| `pool_core` | `PoolTypeOK`, `IdsPartitioned`, `WaitingSupervisorServed` | 3 replicas, 6 requests, panics |
| `pool_lost_wakeup` | `TakenRequestRuns` **fails** | 1 replica, 3 requests, no panics |
| `gate_core` | `GateTypeOK`, `PermitsAccounted`, `OkMeansDelivered`, `RequestsAdvance`, `RequestsEnd` | 3 requests, 2 permits, 1 per handler, uploads of 2 chunks through a channel of 1 |
| `redis_core` | `RedisTypeOK`, `OwnRedisReply`, `ReplyReachesCaller`, `TakenInOrder` | 2 callers, 2 services of 1 replica, 1 request of the bus, a server that may fail |
| `lifecycle_core` | `LifecycleTypeOK`, `EveryTopicServed`, `PublishesReturn`, `TopicsBeforeCalls`, `UrlKeptWhileConnecting`, `NothingLostOnTheBus` | 2 handlers of 1 replica, 10 workers, 3 calls, 2 starts, 2 supervisors, 4 starts, calls and meddlings in all |
| `lifecycle_replicas` | `ReplicasBounded` **fails** | 1 handler of 1 replica, 1 start, 2 calls |

`bus_core` has one address because the operations on two
addresses share only the locks and the worker count, which a second task on the
same address exercises as well; the proofs cover any number of addresses. One
worker is enough for two senders to compete; the code has 10, and with 10 the same
happens among 11. Two notifiers let an address be initialized again while the old
`Notify` is still held.

`pubsub_core` has a single id, so every later publish of the same handler uses the reply
address of the earlier one, and the counter wraps each time. Its `CONSTRAINT` is
`NamesDiffer`, which is also the hypothesis of the theorems about these properties: TLC
does not go on from a state in which two calls that are under way have one reply
address, which is what `pubsub_collision` is about. Publishers that share a source are
interchangeable, and so are replicas; there is no liveness in this run. One replica
already replies late, while the publisher goes on and another call takes its name; with
two the run takes too long. In `pubsub_jam` one
worker, one replica and two events stand for 10 workers and a queue as long.
Three requests over two permits and one replica are the fewest with one running,
one holding a permit while it waits for its handler, and one waiting for the
first permit. In `redis_core` two callers can be mistaken for each other, two messages
can be taken out of order, and two services can both answer one call; callers and
services are interchangeable and nothing there is about liveness, so the symmetry
is sound.

In `lifecycle_core`, `MaxSupervisors` allows two starts of one handler, or one start
of two. `Budget` allows one start with three calls, enough for a
run that publishes to a handler which publishes on or back; or two starts with two calls,
enough for a call that one start sees queued and the next one drops; or any of these with
one call less and somebody who writes `redis_url` as often as he likes. Handlers and
calls are interchangeable and all properties are invariants, so the symmetry is sound.
`OwnerLives` ends a behaviour where `start` panics: what supervisors and runs do after that
they also do while the manager is idle. With three calls ten workers always suffice. With one
worker `PublishesReturn` holds as well, and does not when its exception about workers
is taken out. All of these properties are also proved, for any bounds.

Deadlock checking is off in all runs: the numbers of messages, publishers and
requests are bounded, so every instance comes to rest, and a task may wait for a
notification for ever.

### What fails, and why

1. **Check, then act** (`bus_overcommit`). The guard of the `while` condition is
   gone when the count is decremented under another one. Several senders pass with
   one worker left, the count goes below 0, and since the check compares with 0,
   nothing stops later senders: the pool does not bound the queues any more.
2. **Shared reply address** (`pubsub_collision`). The counter is loaded and stored
   separately, and all replicas of a handler have the same source.
3. **Lost wake-up in `request_data`** (`pubsub_lost_wakeup`). Between the length
   check and `notified()`, the reply is pushed and notified. `publish` has no
   timeout.
4. **Requests and replies share the workers** (`pubsub_jam`). The supervisor takes
   one request ahead and then waits for a replica; the replica needs a worker that
   only the supervisor could free.
5. **Lost wake-up of the supervisor** (`pool_lost_wakeup`).
6. **Two limits for one handler** (`lifecycle_replicas`). The routes count the runs of
   a handler with a semaphore of `nr_replicas` permits, the supervisor with `nr_replicas`
   ids, and a later start makes both anew. The doc of `add_handler` calls the number the
   one "a handler can have at any time".

Two more are no runs of their own. *Truncated uploads succeed*: when the body of an upload
breaks off with an error, `process_upload` leaves its loop as at the end of the body
(`files.rs` 171-175), the run sees its stream end and may succeed, and the client is told
200, while the doc (121) says "On error, returns an appropriate error response". A run that
returns before the end of its stream has the same effect (167). `OkMeansDelivered` has
both as its only exceptions, and TLC finds it violated when either is taken out. *The url
of `with_redis_url` may be unused*: `start` writes it into the shared state only in the
branch that makes a server (`manager.rs` 541, 614), so with `ignore_server_init` it
has no effect, although the doc of `with_redis_url` (282-284) says that handlers can use
Redis when a url is provided and that of `with_ignore_server_init` (293-296) recommends it
for contexts without HTTP; a supervisor that has looked before it was written waits
for the bus alone; and the same line replaces a `redis_url` from `add_global_state`, of which
the doc (330-334) says that handlers can access it once the manager starts. `Lifecycle`
has all these behaviours; no property demands otherwise.

`OwnReply` is checked twice on purpose: it holds as long as the reply addresses of calls
under way differ and fails when they may not; the proofs say the same for any number of
calls. `OnlyUnarmedMissReply` says which publishers
can miss a reply: those that have looked at the length of their queue and are not yet
waiting. With `WaitingSupervisorServed`, the same for the ids of the replicas, it is
what is left of the two progress promises once the window in front of `notified()`
is excluded.

Three invariants say that nothing deadlocks, the last two of them not even in part. None uses
`ENABLED`: the guards of the actions are named operators or are listed in one
(`Blocked`, `GoesOn`, `CanMove`), so that the properties can be proved. TLC has
compared `GoesOn` and `CanMove` with `ENABLED` of the steps they stand for in all
states of the instances.

- `LockHoldersMove`: whoever waits for a lock of the bus, one of those that hold a lock
  can go on. This is the part of `OperationsFinish` that needs no fairness.
- `RequestsAdvance`: a request that is not answered can go on, or one of those it
  waits for can, and past the first permit these are requests for the same handler.
  This is the part of `RequestsEnd` that needs no fairness. It has a premise,
  at least one permit of each kind: a `Semaphore` of 0 keeps its waiters for ever.
- `PublishesReturn`: the list of what can keep a publish to a handler from returning is
  complete. The list is: a run that owed a reply and failed (the publisher is not told); a run
  of the bus that panicked (its id is gone); a message that was dropped with its queue or
  its `request_data`; a supervisor that has panicked or was aborted; somebody who waits
  although there is something to take, because it came before his `notified()`
  (`Overslept`); messages under way that have used up the workers (`WorkerLeft`); and
  handlers that wait for each other's replicas in a circle. If none of these has happened,
  then whenever a reply is awaited from a handler, something can move at that handler or at
  one below it, whatever happens elsewhere. "Below" is expressed by a rank of the handlers
  such that replicas only wait for replies from lower ranks; in a circle there is none. TLC
  finds the property violated when any one of the seven is taken off the list
  (that of the workers in the instance with one). So it does not promise that publishing
  works, which `pubsub_lost_wakeup`, `pubsub_jam` and `pool_lost_wakeup` refute; it says that
  there is nothing else to look for: no supervisor that waits for what an older one
  has, no id or permit that HTTP and the bus keep from each other, and no handler
  that is drawn into a deadlock of others that it does not publish to.

`UrlKeptWhileConnecting` is about several starts: supervisors of an earlier one go on
while a later one writes `redis_url`. As long as `start` is the only writer, and the
manager does not give up its url, the value never goes from a url to nothing, so no
supervisor panics between its two looks. That anybody else may take it away is in the
model, and such a supervisor then panics. `NothingLostOnTheBus` says that nothing is dropped; a message may
still wait for ever when its supervisor has overslept or all ids are lost.

### Fairness

- In the bus, strong fairness for each task past the worker check: tokio's `Mutex`
  and `RwLock` serve waiters in order, so whoever waits for a lock gets it. A
  sender that polls for a worker gets only weak fairness: it looks every 90 ms and
  may miss all moments in which one is free.
- In the pool, weak fairness for the supervisor, for notices and for the end of
  each call.
- In the gate, weak fairness for the front and the task of each request. It is
  assumed that clients send a plain body or disconnect (the server sets no timeout
  for it), and that a run ends once its input has; that a run gives up earlier is
  possible and not relied upon. An upload that stalls is ended by its timeout.

## Proofs

All are for any values of the constants that satisfy the `ASSUME` of the module
(finitely many messages, handlers and calls; anything for tasks, addresses, workers,
replicas). Each rests
on one inductive invariant per module, which TLC has checked on the module's instance.

- **Bus** (`MultiBusProofs`). `TypeOK` is not inductive. `BusInv` adds three parts:
  `LocalsSet` (an operation has the locals it needs), `FateKnown` (the fate of a
  message agrees with the task or queue that has it) and `HoldersDiffer` and
  `QueuedOnce` (no message is with two tasks, in two queues or twice in one). The
  last is what makes counting messages the same as counting workers. There is one
  lemma per action; `BusTypeCorrect` follows.
  `WorkersAccounted` needs `BusInv`: `Outstanding` changes by one message in a
  claim and in a credit, and not at all in any other step, which the `Accounting…`
  lemmas show action by action. `LocksDoNotDeadlock` needs no invariant: whoever holds the
  notifiers waits for no lock, whoever holds memory only for the notifiers, whoever holds the
  worker count only for these two.
- **Refinement** (`MultiBusFifoProofs`). `BusImplementsFifo`: with `taken` and
  `dropped` read off `fate`, a push is a `Put` (the message is new, by `FateKnown`), a
  pop of a non-empty queue a `Take`, replacing or removing a non-empty queue a
  `Discard`, and every other step, also a cancellation, a stutter.
- **Publish** (`PubSubProofs`). `BusClient`: every step of publishers, dispatchers,
  supervisor and replicas is one of `BusNext` or a stutter, so `BusInv` holds here without a
  second proof; with it `PubSubTypeCorrect` holds for all sources. Four theorems hold for the
  behaviours in which `NamesDiffer` stays true: no two calls of `publish` that are under way
  have the same reply address, though a later call may have the address of an earlier one.
  `pubsub_collision` shows that the code does not ensure this and what happens without
  it; TLC has checked `PublishInv` under it also for publishers of one source. `RepliesReclaimed` is about an address and not about
  a call: it may be on the bus only while some call that uses it is under way, so a
  later call that opens it again is covered.
  The invariant is `PublishInv`. `StagesInBus` and `Arguments`: which operation, address and
  message go with each stage, so that an address has one requester. `AddressTables`: an
  address is in both tables exactly from the end of its insertion to its removal (`IsOpen`).
  The core is `RepliesListened`: whoever replies to a publisher finds it before the end of
  its request. A replica gets a request that was sent (`OwnFates`), so the address is
  open by then; and the publisher cannot have its reply and go on while the sender still
  has to notify, as the credit of the pop needs the worker count that the sender holds. From
  it follow `NobodyPanics` and, with `OwnQueue` (only the own reply is queued at a reply
  address), `PublishAnswered` and `RepliesReclaimed`. `OwnNotify` and `NoticesTrue`: a
  notification wakes the requester of its address and nobody else, and what was pushed is still
  there, so no pop is in vain; this and `QueueEmpty` (no queue is removed with a message) give
  `WorkersReturn`. `MissedByUnarmed` is the action property: a sender between its push and its
  notification only notifies, and that wakes whoever waits.
- **Pool** (`HandlerPoolProofs`). `PoolTypeOK` with `IdsPartitioned` is inductive; the
  work is in popping from and pushing to a sequence without repetitions, which
  `SequenceLemmas` states.
- **Gate** (`RequestGateProofs`). `GateInv`. `FrontsAndTasks` says which front goes with which task
  and route. `Queues`: those who acquire are in line, once, and nobody else is, so the first
  in line is a task that acquires and can become a holder; `PermitsAccounted` then counts one
  holder more for one permit less, and the reverse, in every action. For `OkMeansDelivered`,
  `ChunksLeft` counts the chunks with the client, in hand, in the channel and received,
  and `ChunksKept` says that none of those that were read is lost, and that the loop ends only
  with the body or its error, as long as the run has not stopped early: that is what the
  body of a successful upload is. `NoRequestIsStuck`
  follows from the same invariant. A run always goes on (`RunGoesOn`). Of those in line for
  a handler the first goes on or a run holds a permit of that handler (`LocalLineGoesOn`). Of those
  in line for the first permit the first goes on or a holder of one exists, which is a
  run or in line for its handler (`LineGoesOn`).
- **Redis** (`RedisBusProofs`). `RedisInv`. `AskedByListening` and `AnswersThere`: a request is in
  the log only if its caller listens or has ended, so a reply always finds it; `TakenBeforeRun`
  and `RepliesOwn` follow a reply back to the request its supervisor took. These give
  `OwnRedisReply` and `ReplyReachesCaller`. For `TakenInOrder`, `InboxIsRecent` says that a
  connection holds the newest part of the log without a gap, and `TakenBeforeInbox` that
  what was taken embeds in the part before it; each take extends the embedding by one
  position. No induction over sequences is needed, the embedding is part of the invariant.
- **Lifecycle** (`LifecycleProofs`). `LifecycleInv` strengthens the types and the
  safety properties by five parts. `Numbered`: supervisors of the current start are
  spawned one by one, so `InitializeHandler` finds none in its place; from it follow
  the types and `EveryTopicServed` (whoever becomes deaf is of an earlier start).
  `FirstStart`: before the first start and during it no call exists and, unless somebody
  meddled, no url; this gives `TopicsBeforeCalls`, and that the first start finds no queue to
  empty. `UrlSources`: as long as nobody meddles, a url comes from the manager, the manager
  keeps it, and the entry is there while a supervisor connects; this gives
  `UrlKeptWhileConnecting`, and that nobody drops a `request_data` in a manager without
  Redis. `HeldReserved` and `QueuedOnTopics`: who has a call that could be dropped.
  Three lemmas say what a step does, by what it changes: `CallsStep` (a call arrives, is
  taken, advances to its next stage or is lost, and then why), `SupervisorsStep` (how a
  supervisor and the entry `redis_url` move) and `MainStep`; that each part is preserved
  follows from these alone.
  `RepliesInv` adds that a call of a pool is with the supervisor that took it (`Placed`) and
  that published calls are run by supervisors (`PublishedTaken`). `PublishingDoesNotDeadlock`
  follows: every topic has a supervisor that is not deaf (`TopicHasSupervisor`: the newest). If
  nothing can move at a handler from which a reply is awaited, and nobody has overslept, its
  supervisor looks for an id and all its replicas wait for replies (`ReplicaWaits`), or the run
  that is to reply waits itself (`ReplyAwaitsReply`); either way a reply is awaited from a
  handler of lower rank. Take the awaited handler of the least rank (`LeastOf`, from the
  well-foundedness of `<`). The ranks are bounded by the number of handlers, which the module
  therefore assumes to be finite.

Only model-checked: liveness, that is `OperationsFinish`, `WaitingSupervisorServed` and
`RequestsEnd`, since the prover has no rules for fairness. The properties of the runs
that fail are refuted, so there is nothing to prove.

## Not modelled

Formatting of messages and answers, logging, actix's own behaviour beyond dropping
fronts, the streaming of a download after its answer, authentication (a stateless
comparison), TLS (configuration and a stateless check), macros and default methods
(generated code and constants). A `NrReplicas` or `NrRequests` that is negative is
outside the assumptions of `RequestGate`; the cast to `usize` makes it huge and
`Semaphore::new` panics, which is one of the panics of `LaunchServer`. Of the shared
state, keys other than `redis_url`: only a test handler writes some.

## Plan

1. `RedisBus`, progress: every call ends, and the units and the default of the timeout,
   which the comment at `traits.rs` 109 gives in milliseconds and the code in seconds.
2. `Lifecycle` with more replicas and longer chains of calls, should the state space
   allow it.
