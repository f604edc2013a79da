# muduo-im: TLA+ models, checks and proofs

muduo-im is an instant-messaging server in C++: a monolith (`src/src/server`) that speaks HTTP and
WebSocket, stores in MySQL and Redis and publishes to Kafka, and a distributed variant that splits it into
gateway, logic, registry, push router and persister processes. This directory models the parts of it in
which several threads, processes or stores have to agree, checks them with TLC on small instances, and
proves the central invariants with TLAPS for every instance.

## 1. The system

| Part | State it keeps | Operations | Talks to |
|---|---|---|---|
| Message ingest (`ChatServer.h`, handle*Message) | `recentMsgIds_`, task queues of 16 workers | receive, duplicate check, moderation, submit, persist, ack, forward | queue or outbox, OnlineManager, InstanceRouter, PushService |
| Redis queue (`queueMessage`, `flushMessageQueue`) | list `msg_queue`, two circuit breakers | push, degrade to a direct INSERT, read, trim, insert | Redis, MySQL; flushed by the 2 s timer, by recall, edit, reaction, client ack, shutdown |
| Outbox (`OutboxService.h`) | table `outbox` (pending, sending, sent), one relay thread, producer queue | insert in the business transaction, drain, claim, produce, delivery callback, reclaim at start | MySQL, Kafka |
| Saga coordinator (`SagaCoordinator.h`, `GroupService.h`) | table `saga_log` | start, execute forward, compensate, recover | MySQL |
| Presence (`OnlineManager.h`, WebSocket handlers) | `sessions_[uid][device]`, Redis keys `online:{uid}:device` with TTL | open, close, kick, refresh | Redis, friends |
| Message operations (`MessageService.h`, handleEdit, handleRecall, handleReaction, handleClientAck) | rows of messages, edits, reactions | read-modify-write per message, in and out of transactions | queue flush, connection pool, MySQL, the other party |
| Cross-instance router, push commands | Redis Pub/Sub, Kafka `im.push.commands` | publish, subscribe, consume | OnlineManager |
| Persister, push router | Kafka offsets, Kafka transactions | consume, insert, produce, commit, abort | Kafka, MySQL |
| Registry, logic client pool | leases, endpoint maps, hash ring, circuit breakers | register, keep alive, watch, call, retry | gRPC, etcd |
| Gateway streams (`LogicClient.h`, `GatewayRegistry.h`) | event queues, streams, user routes | conn_open, conn_close, hello, push, reconnect | gateway and logic server |
| Users, tokens, friends, groups | SQL rows, `loginAttempts_`, Redis `jwt_blacklist:` keys | login, lock, revoke, ask, answer, join, leave, kick, dissolve, delete | MySQL, Redis |
| Moderation, uploads, search, devices, audit, configuration | word automaton, chunk files, rows | one or a few statements each | MySQL, Redis, files |

What is hard about it: every store can fail on its own and most results are ignored or handled by a
fallback; MySQL, Redis and Kafka are updated one after the other; a crash may come between any two of these
commands; the same Redis list is read and trimmed by several threads without a lock; delivery reports come
back asynchronously; close handlers of WebSocket sessions and of broken gRPC streams run late; a connection
is back in the pool before its transaction has ended; calls are repeated after a deadline; and restarts run
recovery code next to live processes. `PROJECT.json` lists these hazards at their lines, with the properties that watch them.

What makes each part correct:

- ingest: an ack means that the message is kept; a retransmission is not delivered twice; the order of a
  sender and of a group is kept; every request is answered;
- queue: an acked message is in Redis, in a flush or in MySQL; the list drains;
- outbox: published implies committed, 'sent' implies published, committed leads to published; no row is
  produced twice at the same time; the order of a sender is kept;
- saga: all steps or none, one answer, one end, whatever crashes;
- discovery: an instance that lives stays registered, one that died leaves, the registry's maps agree, and the
  gateways have a client for every registered instance and no other;
- presence: the table and the keys describe the sessions that are open, stale keys vanish, and the friends
  are told the truth;
- gateway streams: a push goes to a live stream and to all devices at the gateway, routes follow the user's last
  gateway, and stale ones go away;
- calls to logic servers: an ack means a stored message, an error an unstored one, and every call ends;
- pipeline: a relayed message reaches the recipient's sessions once, whatever is read again, and a replay does
  not undo an edit;
- message operations: transactions are whole, what a client was told is in MySQL, a recall is final;
- accounts: a revoked token stays out, a lock lasts, a friend request is answered once, and nothing is left of a
  deleted account or group.

## 2. Modules

| Module | Models | Extends |
|---|---|---|
| `OutboxAbs` | what the outbox promises: accept, publish, settle | |
| `Outbox` | business transaction, relay, Kafka and its callbacks, start, stop, crash | instantiates `OutboxAbs` |
| `OutboxProofs` | theorems about `Outbox` | `Outbox` |
| `CircuitBreaker` | the breaker of the networking library, from its use | |
| `MessageQueue` | `queueMessage`, `directSaveMessage`, `flushMessageQueue`, breakers | instantiates `CircuitBreaker` |
| `ChatIngest` | fast and slow path of the three message handlers | `MessageQueue` |
| `ChatIngestProofs` | theorems about `MessageQueue` and `ChatIngest` | `ChatIngest` |
| `Saga` | `SagaCoordinator` with the saga `group_create` | |
| `SagaProofs` | theorems about `Saga` | `Saga` |
| `Presence` | `OnlineManager`, connection and close handlers, refresh timer | |
| `Discovery` | `RegistryServiceImpl`, registration thread of the logic server, endpoint maps of `LogicClientPool` | |
| `PushRoutes` | gateway sessions, `LogicClient` streams, `RegisterGateway`, `GatewayRegistry` | |
| `PushRoutesProofs` | theorems about `PushRoutes` | `PushRoutes` |
| `LogicCall` | a message from the gateway to the logic servers: breakers, deadline, retry, `HandleMessage` | instantiates `CircuitBreaker` |
| `GatewayProofs` | theorems about `Discovery` and `LogicCall` | `Discovery`, `LogicCall` |
| `Pipeline` | outbox-only mode, persister, push router in both modes, push-command consumers, `InstanceRouter` | |
| `DeliveryProofs` | theorems about `Presence` and `Pipeline` | `Presence`, `Pipeline` |
| `MySQLPool` | connections, transactions, row locks, snapshots, `TransactionGuard`, from their use | |
| `MessageOps` | edit, recall, reaction, delivery ack and saves on shared connections | `MySQLPool` |
| `MessageOpsProofs` | theorems about `MySQLPool` and `MessageOps` | `MessageOps` |
| `Accounts` | login and lock, tokens and revocation, password, deletion, friends, groups | |
| `AccountsProofs` | theorems about `Accounts` | `Accounts` |
| `MCOutbox`, `MCMessageQueue`, `MCChatIngest`, `MCSaga`, `MCPresence`, `MCDiscovery`, `MCPushRoutes`, `MCLogicCall`, `MCPipeline`, `MCMessageOps`, `MCAccounts` | the small instances for TLC | their module |

In every module an operator with the comment "Mutation:" stands before the definition it distorts. It is
used by no specification; it records a plausible bug that the property named in `PROJECT.json` detects.

### Outbox
A message is identified with its rows. `caller` is the slow path of `handlePrivateMessage`: `InsertRows`
performs both INSERTs, `Commit` and `CommitFails` the COMMIT, whose answer may be lost after it took effect,
`TxFails` everything that fails before. `id` is taken at INSERT, so a row with a smaller id may become
visible later, as with InnoDB. The relay is `Select` (the SELECT with ORDER BY and LIMIT), one `Claim` per
row (the conditional UPDATE) and one `Produce` per row; other threads run between any two of these.
`KafkaAck` and `KafkaFails` are the broker and librdkafka as the code sees them: a failed report may hide a
message that was taken. `ClaimFails` is an UPDATE that was not executed, or one that was and whose answer is
lost: then the row is 'sending' and nobody will produce it. `OnDelivery` is the unguarded UPDATE, `OnDeliveryFails` its early return. `Start`
includes the reclaim, which sees `aged` rows only. `Stop` follows `shutdown()`: workers drained, relay
joined, producer flushed (`Stopped`); a flush that times out is a `Crash`.

### MessageQueue and ChatIngest
The list is a sequence with its head first. A flush is `Read` (LRANGE), `Trim` (LTRIM by count), one
`Insert` per message, `Finish` (what the breaker learns). `PushIgnored` and `TrimIgnored` are Redis commands
that fail on a valid connection, which the code does not look at. `exposed` and `dropped` are ghosts: they
record that a message met the race or a fault and influence nothing. In `ChatIngest` an element of `Msgs` is
one transmission, `KeyOf` its client id. `Receive` is the whole fast path in the order of the code (duplicate
check, moderation, submit); the task at the head of a worker's queue runs `Persist` and then `Forward` (ack
and delivery). Recipients, mentions and payloads are not told apart: whether a recipient has a session, here
or elsewhere, is a choice. The outbox is off in this module.

### Saga
`saga_log`, `groups` and `group_members` are tables with their keys, foreign key and cascade. `execute` is a
small program per process and saga (`ctx`): load, the two forward steps, each in one transaction with its
progress, the marks and the compensation. `Recover` runs the list of unfinished sagas that `Boot` selected,
one by one, and does not look at their state again, as in the code. `blamed` and `rerun` are ghosts: a fault
that the coordinator ignores, and a saga that two processes had in hand.

### Presence
One user. `table` is `sessions_[uid]` of every instance, `ttl` the remaining life of the Redis keys in
rounds of the refresh timer. Handlers are single steps since HTTP, WebSocket and timers of an instance share
one event loop. `Drop` is the end of a connection, `Close` its handler, which may come late; `Kick` closes
the session and leaves its close handler to run. `Ears` are the sessions of a friend, at fixed instances; one friend
stands for all. The handlers reach those of their own instance (`Local`): "online" goes to one of them
(`TellOnline`, getSession), "offline" to all (`HearOffline`, getSessions), and neither when getFriends cannot read
MySQL. `Tick` lets any set of instances miss the round, but none
more than `MaxMissed` times in a row.

### Discovery
An element of `Procs` is one start of the logic binary; `Names` says under which instance id and address it may
come up, since the id is the pid unless it is set. `Exec...` operators are what a call does in the registry,
under its mutex; the actions `Register`, `KeepAlive` and `Deregister` are the calls of the registration thread,
which may fail before or after they are executed. A Register that is not executed is repeated and changes
nothing, so it is no step. `Stop` is SIGTERM; `Deregister` and `Shutdown` then come in any order, since
`shutdownWatcher` sleeps without waiting for the thread (the comment above it, logic/main.cpp:274, has the join
first). `Tick` does not pass a keep-alive that is due: the thread's sleep is assumed to be on time, and `Period`
covers the sleep and the deadline of the call. `queue` holds what is under way to the pool, first the answer of
List, then the stream of Watch. `RegistryCrash` loses everything, the next lease number too. `lost`, `orphans`
and `unsure` are ghosts.

### PushRoutes
One logic server and its gateways; the servers share nothing and hear the same events. `Connected` and `Closing`
are the WebSocket handlers of the gateway, `Write` its writer thread, `ReadPush` and `ReadEnds` its reader,
`Connect` the loop around them, which sends hello and nothing else. On the server, `HandleEvent` and `StreamGone`
are the handler of a stream. A stream that broke keeps its handler (`broken`) until the TCP reset or the watchdog
ends it, and then `deregisterGateway` clears the gateway by its id, the newer stream included, if the handler
has read hello (`greeted`). `Break` loses a
suffix of the events and all pushes on the way. Ghosts: `owed`, the sessions a push was written for; `last`, the
gateway of the last conn_open; `cut`, gateways with a broken stream.

### LogicCall
The event loop of a gateway handles one message at a time. `Send` is the first attempt on the server of the ring
(a breaker that is open refuses it), `Retry` the second on one healthy other, near ones first, `Return`,
`Unavailable` and `Deadline` the ways a call ends; what is neither of the last two is not retried. A request lives on at its server after the gateway gave up, so
`HandleMessage` may store it later: every request gets a new msgId, so the retry is a second row. Breakers may be
open at the start. `HandleFails` is an empty reply or an exception, with the row stored or not: the answer of the
INSERT may be lost, and clientMsgId is read after the save and may throw. Ghosts: `doubt`, messages that reached a
server although their call failed; `muted`, messages that a server saved and did not ack; `skipped`, servers whose
breaker refused a message.

### Pipeline
`Save` and `SaveFails` are the business transaction in outbox-only mode; the second one delivers `Inline`, also
when the commit took effect and only its answer was lost. `Relay` is what `Outbox` promises: at least once.
`Route` and `Produce` are the at-least-once loop of the push router with the producer's local queue in between, from
which a delivery may also fail without a word (`ProduceFails`); `TxRoute`, `TxCommit`, `TxOffsetsFail` and `TxAbort`
the transactional one, whose consumer is not set back after an abort. Every instance consumes all commands in a group
of its own (`PushCommand`), whether its clients are connected or not; sessions come and go (`Connect`, `Disconnect`),
and a restart ends those of its instance. In `Inline`, KEYS online:<uid>:* does not match the keys
online:{<uid>}:<device> that `OnlineManager` writes, so nothing is published for a session of today; keys that a
version without braces has left until they expire may name any instances, and any Redis command may fail, so the set
of instances that is published to is a free choice. Channels of Redis keep nothing for a subscriber that is away.
`Persist` may handle any record at any time: an upper bound of the replays that restarts cause. Group messages are
saved like private ones, which is wider than the code: ChatServer puts none in the outbox, and the router passes
them by. `batch` has the commands of the open transaction, `inBatch` the number of its records. Ghosts: `dropped`,
`unheard` and `absent` (commands that an instance took while the recipient had no session there) name the causes of
losses that the code leaves open, `spare` counts the copies that a failure may add.

### MySQLPool and MessageOps
A connection is a transaction (`open`, its snapshot, its writes) or idle; statements go to whatever transaction
their connection has open; rows that a transaction wrote are locked. Requests on the event loop of an instance
(edits, reactions, acks) run one at a time, those on workers (recalls, saves) at any time. The early returns of
`editMessage` and of the save release the connection and destroy the guard afterwards: in between the request is
`unwound`, its connection is in the pool, and `GuardEnds` sends the ROLLBACK. `handleEdit` asks the private table
first and the group table after that, so an edit of a group message always goes through `unwound`. Every statement
may fail before or after it took effect (`Tried`), and so may a COMMIT. An ack is its UPDATE (`AckUpdate`) and then,
on the same connection, the SELECT and the push (`AckPush`). A push goes to sessions at the instance of its handler:
`Seat` is where the recipient of a message has his, `SenderAt` where its sender has. A SELECT of `toggleReaction` that
fails reads as an absent reaction. Ghosts: `shared`, requests that used one connection together; `doubt`, requests that
took effect without their client being told; `unpushed`, messages with a change that was not pushed to the recipient;
`raced`, messages with a toggle that wrote on a wrong reading.

### Accounts
`handler` is the request a thread is busy with, from authentication (`Request`) over the SELECT it begins with
(`Check`) to its writes (`Write`) and the blacklist (`Revoke`, `Logout`). Times are kept as in the code: a token
ends at a full second and is valid during it, the blacklist key lives for the whole seconds that are left, the
lock counts from the time at which the login began. One group, whose owner is fixed; foreign keys cascade, and an
INSERT IGNORE that violates one is dropped like a double row. A transaction is one step, or fails (`WriteFails`);
what a connection that is released too early does to it is the subject of `MessageOps`. Ghosts: `revoked`, `decided`, `overlapped`.

## 3. Runs

| Run | Instance | States | Shows |
|---|---|---|---|
| `outbox` | 2 messages of a sender, 1 process, batch 2, producer queue 1, 3 faults, 1 shutdown | 294,163 | HeldOnce, StrandedIsLeaked, SenderOrder, CopiesBounded, ImplementsAbs, RelayedOrLeaked |
| `queue` | 3 messages, timer and one worker flush, read limit 2, breakers 2/2, 2 faults | 437,536 | LossNeedsOverlap, Drained |
| `ingest` | a message sent twice, a file, a blocked group message, 2 workers, task queues of 2, duplicate set of 1, 1 fault, 1 restart | 142,652 | AckExplained, ForwardedOnceInOrder, Answered |
| `saga` | 1 saga, 2 processes, 3 faults, 2 crashes | 165,221 | AllOrNothing (the log tells the truth, one final answer, one group), Settles |
| `presence` | 2 sessions, 2 devices, 2 instances, 3 sessions of a friend, TTL 3, 2 missed rounds, 2 faults | 224,376 | ListedIsLive, OpenIsListed, FriendsKnow, StaleKeyExpires |
| `discovery` | 2 processes, the second under the id and address of the first, one of them, or none; TTL of 2 periods, 1 fault besides crashes of processes | 280,798 | KeptWhileAlive, PoolFollows, DeadLeaves |
| `routes` | 2 gateways, 1 user with 2 sessions at one and 1 at the other, 2 stream handlers per gateway, 1 fault | 185,257 | PushLands, StaleRouteExcused, LastGatewayWins, StaleRouteGoes |
| `call` | 3 servers, 2 of them near, 2 messages with different homes, breakers 1/2, 1 restart | 573,126 | AnswerExplained, CallEnds |
| `pipeline` | a private and a group message, 2 instances, both modes, batches of 2, 2 faults, sessions that come and go | 616,992 | CopiesExplained, LossExplained, ReplayKeepsEdit, Arrives |
| `ops` | any 3 of 3 edits, 2 recalls, a save, 2 toggles, 4 acks on a private and a group message; 2 instances with 2 and 1 connections, 1 fault | 460,888 | ToldStands, TransactionsWhole, OriginalIsFirst, ScreenFollows, TogglesExplained, RecallIsFinal |
| `accounts` | 2 users, 3 tokens, 2 handlers, any 3 requests, tokens of 1 s, 2 ticks a second, lock of 2 ticks after 2 failures, 1 fault | 839,070 | DecidedOnce, NoStrays, RevokedStaysOut, LockLasts |
| `outbox_transaction` | as `ops`, no faults | violation | `OutboxTransaction`: the guard of a group edit rolls back the save that got its connection |

Why the bounds are enough: the races need two messages around one command and at most two threads; three
messages let a read limit of 2 leave one behind; a producer queue of 1 is full with the second row of a
batch; a duplicate set of 1 overflows with the second key; three faults allow a failed step, a skipped mark
and a failed recovery in one saga; a TTL of 3 with 2 missed rounds is the tightest case the code's comment
(refresh < TTL/3) allows in whole rounds; two processes meet in every
way ids and addresses can coincide, and a TTL of 2 periods is the code's ratio (30 s to 12 s) rounded down, with
room for one lost keep-alive; the invariants of `discovery` were also explored with 2 faults. `presence` was also
explored with 3 sessions of the user (TTL 2, 1 fault, 1,430,430 states). In `routes` a second stream handler per gateway is what a late handler needs,
and three sessions let a user be at two devices and at two gateways; in `call` two near servers and a far one
reach every branch of the choice of a backup (breakers that open after the second failure were explored too,
927,598 states); in `pipeline` a batch of 2 holds a routed and an unrouted record (the invariants were also
explored with 3 failures, 5,282,272 states); in `ops` every pair of requests, and every third one between their steps, meets on a pool that is smaller than the number of requests (all properties
were also explored with 2 faults, 1,442,597 states); in `accounts` three
requests are two failures and a login, or two answers to one friend request and a deletion, and a clock of half
seconds separates the end of a token from the end of its blacklist key. Symmetry is used for the two connections
of an instance and for tokens and handlers, in runs without liveness properties. Deadlock is not checked: the
models end when all messages are sent and the bounded faults are used up, and a server with nothing to do is no
error.

Fairness. `Outbox!FairSpec`: the relay thread loops, the broker answers, callbacks run, a transaction ends,
time passes, a process that is down is started again (the deployment restarts it). `MessageQueue!FairSpec`:
a flush that began goes on, the timer fires, open breakers time out; pushes and worker flushes are not fair.
`ChatIngest!IngestFairSpec`: workers run their tasks, nothing more. `Saga!FairSpec`: threads run on and
processes restart. `Presence!FairSpec`: close handlers run and time passes. `Discovery!FairSpec`: keep-alives are sent, the GC
thread runs and time passes. `PushRoutes!Spec`: the stream threads of a gateway run on and connect again, and the
server's handlers read on and end, at the latest by their watchdog. `LogicCall!CallSpec`: a call ends, at the latest
by its deadline; servers need not answer. `Pipeline!PipeSpec`: the loop of the push router, its producer and the
consumers of the instances run on. `MessageOps` and `Accounts` state no liveness: their handlers are straight
lines of blocking calls. No fault and no client action is
ever fair.

Finding. `outbox_transaction` refutes what the head of `OutboxService.h` requires, with no failure at all; the
passing run `ops` shows that a shared connection is the only way to get there. `PROJECT.json` quotes both sides.

### Counterexample configurations

Ten more statements of comments and documents do not hold of the code. Each has a configuration in which TLC
finds the counterexample, and the passing runs bound what can happen beside the cause that the property names.

| Configuration | Module | Property | What happens |
|---|---|---|---|
| `MCOutboxPromise` | `MCOutbox` | EventuallyRelayed | OutboxService.h: committed rows are relayed. Claim, crash, restart within 60 s: the row stays 'sending'. |
| `MCMessageQueueTrim` | `MCMessageQueue` | TrimRemovesRead | A push between LRANGE and LTRIM, and the trim removes another message than the one that was read. |
| `MCChatIngestRetry` | `MCChatIngest` | DuplicateWasProcessed | 'server busy', then an ack for the retry, which counts as a duplicate. |
| `MCPresenceOffline` | `MCPresence` | OfflineOnlyWhenGone | The late close of a replaced session removes the new one and tells the friends. |
| `MCPresenceHear` | `MCPresence` | EveryEarHears | ChatServer.h:1618 has the friends told that the user is online; a second session of a friend, or one at another instance, is not. |
| `MCDiscoveryReuse` | `MCDiscovery` | EndpointHasClient | Same address under a new id; the removal of the old id takes the client away. |
| `MCPushRoutesHeal` | `MCPushRoutes` | ReachableAgain | deploy/grpc/RUNBOOK.md:97 has streams heal by reconnecting; after it, sessions that were open are not announced again. |
| `MCPipelineOnce` | `MCPipeline` | ShownOnce | push_router/main.cpp:12 has instances drop repeated commands by `seen_push`, which exists nowhere. |
| `MCPipelineCross` | `MCPipeline` | CrossInstance | InstanceRouter.h:12 has a message published to the instance of a recipient who is online elsewhere; KEYS does not match his keys (line 84), and the message is counted as unread. |
| `MCMessageOpsPush` | `MCMessageOps` | EditReaches | ChatServer.h:2127 has an edit pushed to the other party or to all members who are online; one whose session is at another instance keeps the old text. |

Smaller divergences, visible in the models without a property of their own: RUNBOOK.md:105 says that calls to logic
servers are not retried, and they are (`Retry`); ChatServer.h:2312 says that group acks are counted once per member
through a table `message_acks`, which does not exist (`Counts`); a recall is pushed to the sender's friends, so a
recipient who is not one keeps the message on his screen (`RecallPush`); the comment at ChatServer.h:958 has an old
token useless after a change of password, but the WebSocket handshake does not ask the blacklist and only the token
of the request is revoked (`Revoke`); `sendRequest` answers "request sent" when the unique key has dropped a repeated
request (`sendRequest`).

## 4. Proofs

All eleven models have theorems, for every value of their constants: all safety properties of the runs, action
properties and the refinement included. What is assumed of the constants are the ASSUMEs of the models, which TLC
evaluates in every run; beyond types they say `MaxMissed < Ttl` (the comment at kOnlineTtlSec has the refresh three
times as often), that sessions, logic servers and requests are finitely many, and that requests of different kinds
are different (`NamesAssumption`). The theorems on one relay name `SingleRelay` in their statement. The inductive
invariants were explored by TLC on small instances before they were proved, but for `Leads` of `GatewayProofs`,
which asserts that a function exists and cannot be evaluated.

`OutboxProofs` (about 800 obligations). `TypeCorrect` is `Spec => []TypeOK`. `RelaySafety` proves, for any
number of messages and processes, the invariant `Inv == TypeOK /\ RowsAgree /\ OnlySavedRelayed /\
SentIsInLog`: a committed row exists exactly when the message was saved, every message that a process has
selected, claimed, queued, reported or published was saved, and a 'sent' row, like a positive report, is in
Kafka. None of these is inductive alone: a callback marks 'sent' what it has a report of, so the invariant
has to reach from the table over the relay's hands to the log. `RowHeldOnce` adds, for a single relay
(`SingleRelay`, what the comment in `drainOnce` says of the deployment), that a held row is 'sending' and in
one place, together with `DownHoldsNothing`: a process that is down holds nothing, so that the reclaim at
start cannot release a row that is still in somebody's hands. With two relays the claim is false, since the
reclaim of one takes rows of the other. `ImplementsAbstractOutbox` shows step simulation of `OutboxAbs`.
Three theorems build on the same invariant. `NoSilentStranding`: whoever lets go of a 'sending' row settles it,
puts it back or is in `leaked`. `CopiesArePaidFor` strengthens the bound to `Paid`: every copy in the log is paid for by a
fault, but the one that a positive report or a 'sent' row stands for, so that a row that is produced again, with
neither, has all its earlier copies paid for. `SendersKeepOrder` follows the order of two messages
of a sender through all places (`Order`): a later row is in the log only behind the earlier one, queued only behind
it, claimed only if the earlier one was claimed or is further on; that needs `IdsGrow` (a
sender has one transaction at a time, and it has his largest id), `BatchPending` and `NothingLost`.

`ChatIngestProofs` (about 560). For the queue, `QueueInv` has besides types `Window`: what an LTRIM is about to
cut, by count, was read by its own flush or is `exposed`; `Overlap`: while two flushes are between their LRANGE and
LTRIM all of the list is exposed; `Resting`: who is not flushing has no batch; and `Returning`: what queueMessage
returned for is in MySQL, in the list, in a batch, dropped or exposed. `Window` is the point: a push shifts the list
under a flush, and puts only itself within the count. `QueueLosesOnlyInRaces` follows. Every step of `ChatIngest` is
a step of the queue, a file's direct save or a restart, so the queue's invariant carries over. The ingest adds
`Explains` (every remembered key, and every duplicate, is `Explained`: some transmission of it is kept, waits, was
killed, refused or blocked; an answer is final but for the ack of a message that is kept), `AcceptedOnce` (the
transmissions of a key that got past the duplicate check are within its `Credit`: the times the set was emptied,
and one if the key is in it) and `TasksInOrder` (a worker's queue is in the order of acceptance, and all that the
worker has forwarded was accepted before). They give `AcksAreExplained` and `ForwardsOnceInOrder`.

`SagaProofs` (about 320). `Good(s)`, for sagas that are `Clean`: `Single` (one process has it in hand, once, and
only while the log calls it unfinished), `Table` (what the recorded steps left in `groups` and `group_members`),
`Progress` (`execute` knows what the log says, and only reaches the end of a compensation when nothing is left),
`Told`. Beside it `Ids`, group ids are not given twice, without which a compensation by id could delete the group
of another saga; `Down` and `NotStarted`, from which a boot that selects a saga finds it in nobody's hand.

`DeliveryProofs`, on `Presence` (about 190). The inductive invariant joins `TypeOK`, `Placed` (sessions have a
device and an instance once they are not new, open ones are on a running instance), `ListedIsLive`,
`OpenIsListed` and `RefreshKeepsKey`. The last two need each other: an open session's key is in Redis
because the time it has left and the rounds its instance missed add up to the TTL, and the refresh reaches it
because it is listed. `FriendsAreRight` adds `OpenHasEntry` and `ToldFollows`: while the premise of `FriendsKnow`
holds, which no step makes true again, "online" in a session of the friend at the instance stands for a session whose
close handler has not run, and an open session that none of them shows has an entry that belongs to a closing one.

`DeliveryProofs`, on `Pipeline` (about 570). `CopiesPaid` is an account: for every instance and message, the copies
that were shown and those still to come (on the channel, in commands the instance has not read, in the producer's
queue, in records whose offset is not committed, in the row of the outbox) are at most 1 and `spare`. `CopiesExplained`
says this of the copies shown, and is far from inductive. Every step moves copies from one place to the next: a
commit moves a transaction's commands to the log and its records behind the offset, which needs
`BatchIsUncommitted` (the commands of the open transaction stand for records that are still to be committed), and
reading a record again moves copies back, which only a failure does. `Offsets` keeps positions within the
logs, `Sent` says what a message that was not sent cannot have; it gives `ReplaysKeepEdits`. `ReadExplained` extends
`LossExplained` from the committed offset to the position; what an instance or a channel has lost is in `absent` or
`unheard` by the step that lost it. The proof found an error in the model: `spare` counted failures, but a restart that reads a record again adds a copy for
each time the message is at the records read again, twice after a second relay. TLC shows the difference only
with 3 failures, the run has 2; `spare` now counts copies.

`GatewayProofs`, on `Discovery` (about 490). The invariant joins `TypeOK`, `Named`, `LeasesAgree`, `PoolMapsAgree`
and `Kept`. `LeasesAgree` needs that lease numbers are not given out twice, so that erasing one lease does not
take away another. `Kept` says of a serving process not only that it is registered, but that its entry's age and
the time to its next keep-alive together stay within one period per lost keep-alive and one more: that is what a
tick preserves and what keeps the age below the TTL when the GC looks. It also says that a lease number the
registry knows is still the process's own, which fails after a restart of the registry and is why such processes
are in `orphans`. The theorem holds for every TTL and period, so for the code's 30 s and 12 s it allows one lost
keep-alive in a row; the second may cost the registration, and the process never asks for a new one.
`PoolCatchesUp` needs a statement about any number of events under way: `Leads` says that there is a history of the
registry's map, one map per event of the queue, that begins with one the pool agrees with and ends with the
registry's own, each map being the one before with one event applied, and no address outside `unsure` shared or
moved on the way. A broadcast extends the history (`TellOn`), a read drops its first map (`TellRest`), and a
snapshot or an expiry adds several events in an order that does not matter (`TellMany`).

`PushRoutesProofs` (about 600). `Streams` relates the registry, the handlers and the LogicClient; `HelloFirst`, that
a stream's first event is hello, makes every handler that has read anything one that clears the gateway when it
ends; `CloseFollows`, that a conn_open of a user who has left is followed by his conn_close in the queue or on the
stream, and `CloseIsTrue`, that a conn_close under way belongs to a closed session. `StaleRouteExcused` and
`LastGatewayWins` are part of the induction; `PushesLand` also needs `OwedOpen`: a push is owed to open sessions of
its user only.

`GatewayProofs`, on `LogicCall` (about 230). `Placed` (which server a call is at, by attempt), `Counted` (at most two servers were
asked, and each accounts for one row), `Sure` (of a message that is not in `doubt` the gateway knows the rows, and no
request is left behind that could still store it; a refused one is stored exactly when it is `muted`), `AckedIsSaved`, `Refused` (an error follows two servers, or all).

`MessageOpsProofs` (about 1240). Three layers. What every statement on any connection respects is `Store` (shapes)
and `Lawful`: `Locks` (no two open transactions have written the same message), `GoodRows` (`original_body` is the
body that was sent exactly when the body is another, and a private message is delivered once), `Snapped` (what a
SELECT in a transaction finds is a row), and `Keeps`: a commit, whenever it comes, takes back neither a
recall nor an edit. `Keeps` compares what a transaction wrote with what is committed now: the UPDATE read the current
row, and the lock has kept others off since. It does not ask who wrote, so `RecallIsFinal` and `OriginalIsFirst` hold
on shared connections too. Who is on which connection is `Connections`: one connection belongs to two requests only
if one of them is an `unwound` guard, and then both are in `shared`; `EditsOwn` and `SavesOwn` say what the
transaction of a request outside `shared` has written so far, that nobody else has these rows, and that they are
committed exactly when the request was answered or is in `doubt`; `Bodied` says where a message's body comes from.
They give `TransactionsWhole` and, with `Reported`, `ToldStands`; without the connections a rollback could take one of
two rows. `Reported` holds delivery counts against the acks between their UPDATE and their push: the sender knows the
count when every ack was heard. The last layer holds clients against the rows: `Screens`, where the push that will set
a screen right is still to come, for `ScreenFollows`. It rests on the event loop (`Stages`): an instance has one edit
under way at a time, so that among the edits at the recipient's instance commits and pushes come in one order, and an
edit from another instance puts the message into `unpushed`. `Toggled` counts the clicks that took effect, for
`TogglesExplained`. These two suppose that no connection was shared at all (`Alone`), since a foreign rollback may take
anything that a neighbour wrote.

`AccountsProofs` (about 360). `NoStrays` is inductive because every write is one statement or transaction under
foreign keys; what a handler checked before is only used for the owner (`GroupChecked`). `OneHand`: a request that
is not in `overlapped` is in one handler's hand. `LoginsLate` gives the action property `LockLasts`, and `KeyLasts`
(the blacklist key of a revoked token lives to the second in which the token ends) gives `RevokedStaysOut`, from the
rounding of the time to live.

Only model-checked, and why: the liveness properties (`RelayedOrLeaked`, `Drained`, `Answered`, `Settles`,
`StaleKeyExpires`, `DeadLeaves`, `StaleRouteGoes`, `CallEnds`, `Arrives`), since TLAPS has no practical support for
fairness and ENABLED. `OutboxTransaction` and the properties of the counterexample configurations are false of the
code. No module uses a RECURSIVE operator.

## 5. Not modelled

`PROJECT.json` says for every part what is left out of it. Not modelled, and why:

- read acks, typing and unread counters: one Redis command or one frame each; devices, audit and offline push:
  single statements; search: one HTTP request without state. None of them has a protocol.
- `createGroupLegacy`, which only runs without a saga coordinator, and the group announcement, a column that
  nothing else reads; `registerUser` and the profile, single statements on a user's own row.
- the etcd variants of registration and discovery: leases and polling are etcd's, and the code around them keeps
  the maps of `Discovery`.
- pure computation: the order of the hash ring, the Aho-Corasick automaton, password hashing, signatures, JSON
  formats. `LogicCall` takes the ring as a function, `ChatIngest` the verdict of moderation as an input.
- chunked uploads: files and Redis counters of one client after the other.
- configuration, logging, metrics, start-up.
- two workers in `publishToUser` at once: they use one hiredis context, `pubCtx_`, without a lock, and what they then
  read is undefined. `Pipeline` has one message at a time on this path.

TransactionGuard, the connection pools, CircuitBreaker, WorkerPool and the Kafka classes belong to a library that
is not part of the repository; they are modelled from how the code uses them.
