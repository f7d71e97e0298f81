# Formal models of wal-service

TLA+ models of the write-ahead-log service in this repository (NestJS,
TypeScript), the TLC runs that check them, and proofs checked by TLAPS. Paths
are relative to the repository root.

    tlasany M.tla                                parse a module
    tlc -workers 2 -config X.cfg M               model-check; PROJECT.json lists the runs
    tlapm M.tla                                  check the proofs of a ...Proofs module

## 1. The system

A client posts a message to `/wal/write`. `WalController` calls
`WalService.writeToLog`, which reads the namespace's row (twice), validates the
message, picks a producer, begins an in-memory *transaction*, sends the message
(Redis `XADD`, or a mock), commits or rolls back the transaction and answers. A
timer rolls back the transactions nobody finished. Everything of one process runs
on one JavaScript thread; Redis and Postgres are outside.

| Component | State | Operations | Talks to |
|---|---|---|---|
| `TransactionOrchestratorService` | `activeTransactions` Map, gauge and counter, cleanup timer | begin, commit, rollback, cleanup callback, read-only status | called by `WalService` |
| `WalService` | gauge `wal_active_messages`; otherwise per request | `writeToLog` | namespace service, factory, producers, orchestrator |
| `WalController` | none | POST write; the other routes are placeholders | `WalService` |
| `calculatePartition`, `generateShardKey` | none | hash an id to a partition | called by `WalService` |
| `RedisProducerService` | ioredis client, `isConnected`, connection gauge | send, healthCheck, ensureConnection, disconnect, event handlers | Redis |
| `ProducerFactoryService` | producer and health caches, monitoring interval | getProducer, getProducerHealth, selectProducer with fallback, shutdown | producers; mocks for Kafka and SQS |
| `NamespaceService`, `NamespaceRepository` | the namespace table | create, update, delete, get, validateRequest, statistics | Postgres through TypeORM |
| `MessageRouterService`, `LifecycleService` | none | pure helpers | `WalService` uses `calculateDelay` |
| `HealthService`, metrics registration | none of their own | probe, registration | database |
| seed script | none; goes through a list of namespaces | find, save | Postgres through TypeORM |
| interceptors, filters, DTO validation, id and hash utilities, bootstrap, configuration, migration | none across requests | wiring | - |

What is hard about it, and hence what the properties are for:

- commit and rollback look a transaction up *before* an `await` and delete it and
  decrement the gauge *after* it; nothing re-checks. Only the order in which Node
  runs microtasks and timers makes that sound;
- the cleanup races a send that is still waiting for Redis; a late answer reaches
  a transaction that is gone;
- `writeToLog` calls rollback and then, on the same path, commit;
- Redis may execute a command whose reply is lost, and ioredis sends unanswered
  commands again;
- `isConnected` is kept by event handlers and by `ensureConnection` at once;
- create, update and delete of a namespace check in one query and write in
  another; the seed script does so name by name and may fail or race another run;
  the statistics subtract counts that were taken at different moments;
- a write's backend and the permission to write come from two reads of a row that
  may change around them;
- Redis executes commands of a process that died between them;
- probes of Redis's health overlap, and each stores its result over whatever is in
  the cache by then;
- the partition hash wraps in signed 32-bit arithmetic.

Correctness, per component:

- *orchestrator*: every id settles at most once; table, gauge and counters agree;
  no entry lives for ever; the cleanup touches only orphans.
- *WalService*: no path leaves a transaction open after its answer, commits what is
  not stored, reports a failure for what is committed, or accepts for Redis what is
  not in the stream; a message goes where its namespace said while the request was
  under way; once a producer has answered, the client is.
- *RedisProducer*: the flag tells the connection; a reported success is an appended
  (and, with a delay, scheduled) message; only a `ttl` makes messages vanish.
- *the two together*: what `writeToLog` relies on in a send is what the Redis
  producer delivers, through lost connections, late replies and crashes.
- *ProducerFactory*: nobody is told health older than the cache's lifetime; Redis
  is probed again in bounded time.
- *namespaces*: no row appears from nowhere and none is deleted twice; an update
  never reports success on a deleted row; a successful seeding leaves all its
  namespaces; the statistics are off by no more than what changed meanwhile.
- *partition*: in range, and a function of the id alone.

`PROJECT.json` lists all components and every hazard at its line, with the
properties that cover it or the reason why none does.

## 2. Modules

| Module | Models | Composes |
|---|---|---|
| `TransactionLifecycle` | what the orchestrator promises, abstractly | - |
| `MessageSend` | what `IProducer.send` promises its caller, abstractly, for messages that go to Redis | - |
| `TransactionOrchestrator` | `transaction-orchestrator.service.ts` | refines `TransactionLifecycle` |
| `DurableWrite` | a write as its client sees it, abstractly: answer, outcome of the transaction, message in the stream | refines `TransactionLifecycle` and `MessageSend` |
| `WalService` | `writeToLog`, producers' answers, fallback, namespace reads, Redis stream | instantiates `TransactionOrchestrator`, refines it, `MessageSend` and `DurableWrite` |
| `RedisProducer` | `redis-producer.service.ts` against ioredis | refines `MessageSend` |
| `ProducerFactory` | the caches of `producer-factory.service.ts`, its monitor and shutdown; `getHealthStatus` of the Redis producer | - |
| `NamespaceRegistry` | create, update, delete and statistics of `namespace.service.ts` and its repository, the script `namespace-seeds.ts` | - |
| `Partition` | `calculatePartition`, the loop of `generateShardKey` | - |
| `MC...` | instances for TLC | the module of the name |
| `...Proofs` | theorems and proofs | the module of the name; `WalServiceProofs` also instantiates the proofs of `TransactionOrchestrator` and `DurableWrite` |

Definitions named `X_Something` preceding `X`, commented *mutant*, are faulty
variants of `X`. Nothing refers to them; they record, per property, a plausible bug
that the property's run detects when `X` is replaced by it.

### TransactionOrchestrator

`activeTransactions`, `gauge` (`wal_active_transactions`) and `counter`
(`wal_transactions_total`) are the code's. `age` is `Date.now() - startTime`, the
only use the code makes of the clock; `sinceSweep` is the timer; `decision` is a
history variable: what became of each id.

A method up to its first `await` is one action (`Begin`, `CallCommit`,
`CallRollback`), the rest is another (`FinishCommit`, `FinishRollback`,
`RejectCommit`), and `microtasks` holds what is between the two. `Cleanup` and
`Tick` need an empty microtask queue: Node (since version 11) empties it between any
two callbacks. The first halves of *different* callers may be queued together, since
one socket read can carry several replies; one caller awaits its own calls
(`MayCall`). Apart from that the caller is the most general one: it may commit or
roll back at any time, or never.

The `catch` of `rollbackTransaction` (lines 214-230) is not an action: what it would
catch is raised only when the reason is not a string, and every caller passes one.
A commit or rollback of an id that is not active returns at once and is a
stuttering step.

### WalService

`pc` tells what a request waits for: its two namespace queries (`lookup`,
`validate`), the `PING` of the Redis health check (`ping`), the `XADD` (`xadd`), the
next microtask after a mock's answer (`mock`), or the orchestrator (`commit`,
`undo`, `abort`). Each action runs from one of those points to the next, with
everything in between, including the orchestrator's part, as in the code. Where the
code checks a request's key, payload or size it may pass or not (`Rejected`, `Refused`).
`copies` counts how often its message reached the stream. `seen` is a history
variable: the backends its namespace has had, and whether it has been enabled, at some
moment since the request was received. The orchestrator's variables are the ones of the
instance `Orchestrator`.

A send is mapped to `MessageSend` by `SendOf`: pending while the request waits for its
`XADD`, resolved or rejected by what follows, and by the client's answer.

To `DurableWrite` it is mapped by `AnswerOf` (what the client was told, or that it will
never be told, its process having died), `decision`, `SentToRedis` (the writes whose
transaction began with Redis as producer), `Stored` (`copies` above 0) and `Overdue`
(`age` above `Timeout`). `HalfOf` is the queued half of commit or rollback that a waiting
request has to find.

The environment: `Administer` edits a row between any two steps; `RedisAppends`
appends a command any time after it was sent, also after an error was reported
or after the process died, and more than once; `Crash` loses everything in
memory.

### DurableWrite

The abstract specification of the whole write path. Its `answer`, `transaction`, `kept`,
`stored` and `overdue` say of each write what its client knows, what the metrics count
and what the store has; the producer, the queues, the namespace and the clock are gone.
The obvious specification, "accepted if and only if stored and committed", is not what
the code does (findings 1 and 2). This one has `Complete`, which is that, and beside it
the two ways to be accepted without a commit as actions with exact guards: `AcceptLate`
(stored, but the cleanup came first) and `AcceptUnkept` (a mock took it; nothing keeps it).
A refused or unanswered write may still be stored (`Store`). That `WalService` implements
it (`WritesAreDurable`) means there are no further ways for answer, metrics and stream
to part.

### RedisProducer

`client` stands for ioredis as `configuration.ts` (lines 28-34) sets it up: no
`lazyConnect`, so it connects by itself, no `commandTimeout`, so a command may wait,
and the default `maxRetriesPerRequest`, so it may also fail after reconnections.
`connected`, `ready`, `error` and `close` are actions that run the service's handler,
`Reconnect` is ioredis's retry timer. `Send` and `HealthCheck`/`Pong` are the two ways
in (with and without a `PING` before); `Answered` and `CommandFails` cover `XADD`,
`EXPIRE` and `ZADD` in the order the code awaits them. `Append` and `Expire` are
Redis. `EXPIRE` is on the key of the stream, so `Expire` removes everyone's messages.

After a failed `PING` the producer is not used and the call is `unhealthy`. `Crash` ends
the process: its calls are `lost`, a new client starts to connect, and of the commands
that were under way Redis executes any, in `Crash` itself or (an `XADD`) later.

### ProducerFactory

`producers` and `healthCache` are the Maps of those names. `ProbeRedis` is
`getProducerHealth` up to its `await`, with the time it has taken by then in `began`;
`Pinged`, `InfoAnswered` and `InfoFails` are `getHealthStatus` of the Redis producer, and
`Finish` the rest of `getProducerHealth`. `MonitorRound` is the interval's callback.
Which status a probe finds is of no consequence and left out; `seen`, a history field,
is when Redis answered or failed to. `newsAge` and `lastProbe` are history variables.
`onModuleDestroy` makes nobody wait and is one step; the interval and the probes
survive it, as in the code.

### NamespaceRegistry

Each query is one action and nothing orders the queries of different calls. `save` of
TypeORM is a select and then an insert or an update (`SaveSelects`, `SaveInserts`,
`SaveOverwrites`). `QueryFails` may or may not have taken effect. No route of the
service calls create, update or delete at present; they are its exported API.

`todo` is the name a call is at and, for the seed script, those still to do: `BeginSeed`
starts it, `SeedFinds` is its `findOne`, `NextSeed` the step of its loop and `Saved` what
follows a save. `getNamespaceStats` sends its two counts at once (`BeginStats`) and they
are answered at different moments in either order (`CountTotal`, `CountEnabled`);
`StatsAnswer` subtracts them. Its counts per backend are like the count of enabled rows
and left out. `made` is what a call reports as created, `initial` and `missed` are history
variables: the rows there were at first, and the changes of the table since a call's
first count.

### Partition

`ToInt` is the wrap to a signed integer, with `Modulus` for 2^32 as a parameter, and
`NextHash` one round of the loop: the shift wraps, the subtraction and the addition do
not, the final `&` does. `polynomial` is the same hash in unbounded integers.

## 3. Runs

| Run | Shows |
|---|---|
| `orchestrator` | `GaugeMatchesTable`, `CountersBalance`, `LookupStaysValid`, `OrphansAreReaped`, `OnlyOrphansAreCleaned`, refinement `PromiseKept`, liveness `EveryTransactionSettles` |
| `wal_service` | `AnsweredLeavesNothingOpen`, `CommittedIsStored`, `FailedIsNotCommitted`, `AcceptedByRedisIsStored`, `CallsAreAdmissible`, `NobodyWaitsInVain`, action property `WritesFollowTheNamespace`, refinements `UsesOrchestrator`, `SendsAsPromised` and `WritesAreDurable`, liveness `DrivesOrchestrator` (the orchestrator's fairness is met inside the service) and `AnswersGetThrough` |
| `redis_producer` | `FlagIsAccurate`, `SentWasAppended`, `DelayedIsScheduled`, `ScheduledWasAppended`, `HealthySendsDoNotConnect`, `OnlyTtlLosesMessages`, refinement `PromiseKept` |
| `producer_factory` | `AnswersAreFresh`, `ProbesKeepComing` |
| `namespace_registry` | `RowsAreAccounted`, `SeedsAreThere`, `StatsErrorIsBounded`, action property `UpdatesSeeDeletes` |
| `partition` | `PartitionInRange`, `HashIsPolynomial` |
| `accepted_but_not_committed` | *violated*: finding 1 |
| `persisted_but_not_stored` | *violated*: finding 2 |
| `validation_error_is_500` | *violated*: finding 3 |
| `active_messages_only_grow` | *violated*: finding 4 |
| `gauge_after_disconnect` | *violated*: finding 5 |
| `create_overwrites` | *violated*: finding 6 |

Every passing run also checks its module's `TypeOK`.

### Bounds, and why they are enough

- *orchestrator*: three transactions, two of which share a namespace, so two callers
  and a cleanup can meet on one gauge while another one is independent; `Timeout` 4
  and `Jitter` 1, so that the boundary of the timeout, several sweeps and a late
  timer are distinct instants. No state constraint: ages are bounded by
  `OrphansAreReaped` itself and ids are used once. About 140,000 states. The safety
  properties are proved without bounds.
- *wal_service*: two requests of one namespace (three do not add a kind of
  interaction: requests meet in the gauge, the microtask queue and the timer, in
  pairs), `Timeout` 2, `Jitter` 0, `MaxCopies` 2 (a duplicate is possible). Backends
  `redis` and `kafka`; `sqs` is like `kafka` and only reached as a fallback, which
  with an always-healthy `kafka` before it never happens. Requests are
  interchangeable, but symmetry is used in the violation runs only: it is not sound
  for liveness. About 68,000 states. The safety properties are proved without
  bounds.
- *redis_producer*: two sends of one topic, every combination of headers, any number
  of crashes; no other bound. `connect()`'s refusal needs two. About 111,000 states;
  proved without bounds.
- *producer_factory*: two callers and the monitor, so probes of callers overlap with
  each other's and with those of several rounds; one mock; `Interval` 2, `Jitter` 1;
  `MaxTime` 5, the first instant at which `ProbesKeepComing` could fail, and enough for a
  result to outlive its entry. About 2.7 million states. Both properties are proved
  without bounds.
- *namespace_registry*: three calls on two names, both of which the script goes
  through; so a create and a delete fit between check and write of the third call, and
  two of them can change the table between a statistics call's counts. Calls are
  symmetric. All calls end, so `CHECK_DEADLOCK FALSE`. About 238,000 states; proved
  without bounds.
- *partition*: 7-bit integers and ids of up to five characters, which wrap several
  times and reach the least integer. The loop ends, so `CHECK_DEADLOCK FALSE`.

### Fairness

The event loop always drains its microtasks, runs due timers, and time passes:

- `TransactionOrchestrator!FairSpec`: weak fairness of `RunMicrotask`, `Cleanup` and
  `Tick`. Callers get none: a send may hang for ever, since no command timeout is
  configured, and the transaction must leave the table all the same
  (`EveryTransactionSettles`). `Restart` needs none and cannot prevent it.
- `WalService!FairSpec`: weak fairness of `CleanupRollsBack`, `CleanupTimer`,
  `TimePasses` and, per request, of `Continue`: what runs when a promise the process
  itself settles is settled (a mock's answer, the orchestrator's second half). Nothing
  is assumed of Redis, Postgres or clients, so no request is promised an answer
  before its producer has given one. Under it the service is shown to meet the
  orchestrator's `FairSpec` (`DrivesOrchestrator`), although its callbacks are only
  enabled when no request is in the middle of its own, and a request whose
  producer has answered to be answered or dead eventually (`AnswersGetThrough`).

The other modules have safety properties only. `ProbesKeepComing` bounds a delay in
the model's clock and needs no fairness.

### Findings

1. A write that Redis answers after the transaction timeout (30 s) is accepted and
   stored although its transaction has been rolled back: commit finds nothing,
   logs and returns.
2. The mocks' results have no `success` field: `writeToLog` rolls the transaction
   back, goes on, and answers 202 with `persisted` for a message that is stored
   nowhere. Redis writes fall back to these mocks when Redis is down.
3. A `ValidationError` carries status 400, but `writeToLog` lets only two other
   classes through, so the client is answered 500.
4. `wal_active_messages`, "messages being processed", is incremented when a request
   is finished and never decremented.
5. `redis_connection_status` is set to 0 under another label than the one that was
   set to 1, so the 1 stays.
6. Two concurrent creates of a namespace can both succeed, the second overwriting
   the first.

Each is a `violation` run; `PROJECT.json` quotes the line that says otherwise.

Met on the way, without a property of their own: `configuration.ts` line 95 sets a
transaction timeout of 300 s that the orchestrator (line 46, 30 s) never reads; a
`ttl` header would set `EXPIRE` on the whole stream, though `writeToLog` sends no such
header; nor does it send a `delay` header, while a request with `lifecycle.delay` is
answered that its processing is `delayed`.

Three hazards have no property. A command ioredis sends again can put a message into
the stream twice (`redis-producer.service.ts` line 149): the models allow it, and
nothing in the code deduplicates. The factory's interval survives its destruction
(`producer-factory.service.ts` line 331): modelled, and seen by tests only. The missing
`delay` header (`wal.service.ts` line 854) involves no interleaving.

## 4. Proofs

The theorems hold for every value of the constants that satisfies the modules'
assumptions (`NamespaceAssumption`, `TimeAssumption`, `RequestAssumption`,
`FactoryAssumption`, `PartitionAssumption`, and of `NamespaceRegistry`
`FiniteAssumption`, since its accounts are cardinalities, and `SeedAssumption`, that the
script's names differ); TLC evaluates those in the runs. Every safety property
of a passing run is proved, the action properties and the refinements too.

**TransactionOrchestratorProofs.** None of the safety properties is inductive by
itself: that the gauge survives `FinishRollback` depends on the entry being still in
the table, that on the queue, and the queue on who may enqueue. The invariant comes in
three layers.

1. `QueueInv`: the table is exactly the ids whose decision is "active", and a queued
   half belongs to an entry of the table and is the only one for it
   (`LookupStaysValid`). Inductive alone.
2. `AccountInv`, on top of it: the table is finite, gauge and counters are naturals and
   match the table. It uses `QueueInv` where a half settles its transaction: the
   entry is there to be removed, so the cardinality drops by one, and the gauge cannot
   go below zero.
3. `TimeInv`, on top of `QueueInv`: `OnlyOrphansAreCleaned`, `OrphansAreReaped` and the
   strengthening `SweptInTime`: an entry with no half queued was not an orphan at the
   last sweep, so its age is at most `Timeout + sinceSweep`.

From these: `LookupStaysValidThm`, `GaugeMatchesTableThm`, `CountersBalanceThm`,
`OrphansAreReapedThm`, `OnlyOrphansAreCleanedThm`, `TypeCorrect`, and `PromiseKeptThm`
(every step maps to a step of `TransactionLifecycle` or a stutter).

**WalServiceProofs.** `UsesOrchestratorThm`: every step of the composed service is a step
of the orchestrator or leaves it alone. So the assumptions about callers in
`TransactionOrchestrator` are met by the caller the service has, and its theorems hold
inside the service: `Shown` is the instance of `TransactionOrchestratorProofs`, and
`QueueIsSafe` carries `QueueInv` over.

None of the service's own invariants is inductive alone. `RequestInv` relates, per
request, where it waits, its producer, its transaction's fate, its message's copies,
its answer and its queued half; it is preserved given `QueueInv`, which says that a half
found in the queue is that of an active transaction and the only one for it. From it:
`TypeCorrect`, `AnsweredLeavesNothingOpenThm`, `CommittedIsStoredThm`,
`FailedIsNotCommittedThm`, `AcceptedByRedisIsStoredThm`, `CallsAreAdmissibleThm`.

`SeenInv` (while a request has not begun its transaction, what its namespace says now is
among what it has seen, and so is what each read has told it) gives
`WritesFollowTheNamespaceThm`, since `OnlyTheseBegin`: no other step makes a
transaction active. `SendsAsPromisedThm` maps every step to one of `MessageSend`
or a stutter, from `RequestInv` before and after it.

`NobodyWaitsInVainThm`: whoever waits for the orchestrator has its half in the queue.
It is inductive given `QueueInv` and `RequestInv`: a half leaves the queue only by running,
and the one found there for a request is the one it waits for. This is the part of
`AnswersGetThrough` that is not fairness: with it, and the queue drained, every waiting
request goes on. `WaitInv` has it together with what the refinement below needs besides:
a lost transaction's request is dead, a dead one has no entry, and only what waits for
Redis ages.

`WritesAreDurableThm` (`StepIsDurable`): every step is a step of `DurableWrite` or a
stutter. Steps before the transaction map to `Refuse` or nothing (`ClientEarly`); a second
half that runs settles the write together with its answer, since the two are one atomic
step (`ClientSettles`); an answer of Redis after the cleanup is `AcceptLate` or `Refuse`
(`ClientLate`); what remains is Redis, the timers, the administrator and the crash
(`ClientOther`). It uses `RequestInv`,
`WaitInv`, and `OnlyOrphansAreCleaned` for the guard of `TimeOut`.

Through the two refinements, theorems come down to the service from above.
`ServiceMetricsAreExact` (gauge and counters) and `ServiceReapsOrphans` (how long an entry
can live, and that the cleanup takes nothing too young) are the orchestrator's, by `Shown`.
`ServiceExplainsAcceptance` and `ServiceGivesUpWhenOverdue` are those of `DurableWrite`, by
the instance `Told`: an accepted write is committed, or is a case of finding 1 (stored, its
transaction rolled back because it was older than the timeout), or one of finding 2 (sent
to a mock). The two violation runs show that both cases occur; the theorems, that there is
no third.

**DurableWriteProofs.** `Inv` (types; what each answer says of its transaction and store)
is inductive. From it `CommittedIsDurableThm`, `AcceptedIsExplainedThm`,
`AnsweredIsSettledThm`, `AnswersAreFinalThm`, `GivenUpWhenOverdueThm`, and two
refinements: `WriteIsTransaction` to `TransactionLifecycle` and `WriteIsSend` to
`MessageSend`, the second by a mapping that reads a write's send off its answer and its
transaction.

**RedisProducerProofs.** `ClientInv`: the flag and the connection agree, a send that waits
for a connection means one is on its way, and only one send does. `SendInv`: past its
`XADD` a send's message was appended, and each further command is one its headers ask
for. `StreamInv`: a stream that expires, or has lost a message, had one with a `ttl`. They
are inductive together (`Inv`), and from them follow `TypeCorrect`,
`FlagIsAccurateThm`, `SentWasAppendedThm`, `DelayedIsScheduledThm`,
`ScheduledWasAppendedThm`, `HealthySendsDoNotConnectThm`, `OnlyTtlLosesMessagesThm`
and the refinement `PromiseKeptThm`.

**NamespaceRegistryProofs.** Five layers.

1. `CallInv`: the types, which operation awaits which query, and where in
   `SeedOrder` a run of the script is.
2. `RowsAreAccounted` is inductive on top of it: each step that adds a row adds its
   call to those that report or may have made one, or replaces a row by itself, and
   each reported delete removes one (`AccountKept`). A call counts once per name, which
   for the script needs that its names differ. `UpdatesSeeDeletesThm` follows: a name
   with a reported delete and a row has two to account for.
3. `SeedInv`: every name a run of the script is past was there at some time since
   (`WasThere`: it is there or a delete of it is reported or may have been), and so was
   one that its save is about to overwrite. At the end this is `SeedsAreThereThm`.
4. `StatsInv`: the count that has come, and once both have, their difference, is off
   its present value by at most the changes since the first (`CountsMove`: a statement
   moves a count, and the difference, by at most one); at the answer this is
   `StatsErrorIsBoundedThm`.
5. `RaceInv`: a name for which a save found no row, and which has one now, was made by
   some call that reports it or whose query failed (`RowsAppear`). That it is *another*
   call is `NotMadeYet`. `SavesMeetOnlyRacesThm` is the exact account of finding 6: a
   create overwrites, or is refused its insert, only in a race with another create or
   run of the script, never by deletes, updates or failures of those alone.

**ProducerFactoryProofs.** `NewsInv`: what a probe will cache, and what is cached, is at
least as new as the time it is cached under; `AnswersAreFreshThm` follows from the test
against the lifetime. `ProbeInv`: nothing is cached under a later time than the last
probe's, and at its last round the monitor found a recent result or began a probe;
with the bound on the timer this is `ProbesKeepComingThm`. `FactoryTypeCorrect` is the
module's type correctness.

**PartitionProofs.** `HashInv` (the hash is an integer of the width, congruent to the
polynomial modulo 2^width) is inductive because congruence survives each wrap
(`ToIntWraps`, `NextHashIsCongruent`); from it `HashIsPolynomialThm` and
`PartitionInRangeThm`, for every width, so also for 32. `TypeCorrect` is the module's
type correctness.

Only model-checked: liveness (`EveryTransactionSettles`, `DrivesOrchestrator`,
`AnswersGetThrough`), since reasoning under fairness is out of the proof system's
reach. What each rests on besides fairness is a safety property and proved: no entry
outlives its bound (`OrphansAreReapedThm`), the service's calls are ones the orchestrator
admits (`CallsAreAdmissibleThm`, `UsesOrchestratorThm`), nobody waits for a half that is
not queued (`NobodyWaitsInVainThm`).

`SavesMeetOnlyRaces`, `AcceptedIsExplained` and `GivenUpWhenOverdue` are stated in the
proof modules, beside their theorems, and no run checks them: they hold without bounds.

## 5. Assumptions and what is left out

- Ids are unique (they have 64 or more random bits). The wall clock is not set back.
- Payload, schema and API-key rules are abstracted to whether they pass. Logging, the
  audit line, histograms, `wal_requests_total` and trace ids are left out.
- `RedisProducer` reduces the headers to whether a positive `ttl` or `delay` is there: one
  that does not parse to a positive number is, as in the code, no header.
- `updateNamespace` takes a `Partial<Namespace>`, which could carry another `name`. No
  caller in the repository does that, and `UpdateWrites` leaves the name alone.
- `RedisAppends` over-approximates: it may append a command also when Redis has
  reported an error for it.
- `main.ts` enables no shutdown hooks, so `disconnect` and `onModuleDestroy` run in tests
  only; `RedisProducer` has `Disconnect` all the same.
- `ProducerFactory` takes timers to fire no earlier than they are due by `Date.now()`;
  the millisecond that rounding can take from it is below the model's grain.
- Not modelled: `MessageRouterService`, `LifecycleService`, interceptors, filters, DTO
  validation and the health endpoint keep no state (of the lifecycle helpers
  `writeToLog` uses only `calculateDelay`, for a number in its answer); bootstrap and
  configuration are wiring; the readiness check answers with a
  constant for the producers; the migration runs before anything else, and its result,
  a table with `name` as primary key, is what `NamespaceRegistry` starts from. The
  listing reads of the repository are one query each and change nothing.

## 6. Plan

In order of importance; done so far: 1 to 9 and 11.

1. `TransactionOrchestrator` with `TransactionLifecycle`; its proofs.
2. `WalService` composed with it; `UsesOrchestratorThm`.
3. `RedisProducer`, with crashes.
4. `NamespaceRegistry`, with the seed script and the statistics.
5. `Partition` and its proofs.
6. `ProducerFactory` and its proofs.
7. `WalServiceProofs`: the invariants, with the orchestrator's carried over; liveness
   under the event loop's fairness.
8. `MessageSend`, refined by both sides of a send; `RedisProducerProofs`.
9. `NamespaceRegistryProofs`.
10. An abstract specification of the registry, a table with atomic operations. It has
    to allow what finding 6 and a failed query show, so that little more than
    `RowsAreAccounted` would remain of it.
11. `DurableWrite`, the write path as a client sees it, refined by `WalService`; its
    theorems, and through it those of the service.
