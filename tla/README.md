# KrossDB in TLA+

A verification project for KrossDB, a Python (asyncio) library that puts one
interface over relational, document and vector databases: TLA+ models of the
parts in which order, concurrency and failure matter, TLC configurations that
check them on small instances, and proofs that TLAPS checks for every instance.
`PROJECT.json` lists the components, runs, mutants, findings, hazards, theorems
and the source lines every definition stands for. Paths below are relative to
`src/src/krossdb/`.

## 1. The system

The library runs in asyncio tasks of one event loop per process: tasks
interleave only where a coroutine suspends (`await`), a cancelled task raises
`CancelledError` at its suspension point, and several processes meet only in
the database, the cache and the message broker. A task created by another task
starts with a copy of its creator's context variables.

| component | source | state | operations | what makes it correct |
|---|---|---|---|---|
| Circuit breaker | `resilience/circuit_breaker.py` | state, failure count, opening time, probe slots taken; a registry by name | `allows_calls`, `guard`/`call` around `_before_call`, `_on_success`, `_on_failure`, `_on_abandoned` | late reports keep the state machine and its bookkeeping; slots do not leak; it never rejects for ever |
| Unit of Work | `interfaces/unit_of_work.py`, `uow/sqlalchemy_uow.py` | `_active`, `_finished`, `_pending_events`, session, bind token | enter, `register_event`, `commit`, `rollback`, exit | rows and events commit together or not at all; every block ends its transaction; nested blocks restore the outer session |
| Relational adapter | `adapters/relational/base.py` | engines, session factories, breakers, the task-local `_active_session` | connect, disconnect, `acquire`, `run_read`, bind/unbind, health check | a call in a block uses the block's session and nobody else's; reads go where a breaker lets them; no engine is lost |
| Outbox stores | `events/outbox.py`, `interfaces/events.py` | records with `published_at`, attempts | `save`, `claim`, `fetch_unpublished`, `mark_published`, `record_failed_attempts` | disjoint claims of concurrent relays; marks are atomic per batch |
| Outbox relay | `events/relay.py` | the current batch | `run_once`, `run` | at least once; duplicates only for a reason; no tight retry; a stop is seen |
| Idempotency manager | `core/idempotency.py` | weak dictionary of locks, envelopes in the cache | `run` | one execution at a time per key; replays agree; a key is bound to one payload |
| Retry | `resilience/retry.py` | attempt counter | `with_retry` | bounded attempts of reads and pings only; an open breaker is not retried |
| Routing | `adapters/relational/routing.py` | position in the weighted cycle | `next` | a read is refused only if the master could not serve it |
| Cache-aside, Redis cache | `interfaces/cache.py`, `cache/redis_cache.py` | cache entries with TTL | `cache_aside`, `invalidate` | an entry is stale only for a reason: a load that overlapped a write, or an invalidation that did not happen |
| Database factory | `factory/db_factory.py`, `interfaces/adapter.py` | configured and connected adapters | `connect_all`, `disconnect_all`, `health_check_all` | all connected or none left behind; a health report is complete or an error |
| Document and vector adapters | `adapters/document/mongodb.py`, `adapters/vector/qdrant.py` | client, breaker | connect, disconnect, `acquire` | as the relational adapter with one client |
| Repositories | `repositories/*.py`, `interfaces/repository.py` | none of their own; the rows | CRUD, bulk operations, criteria | an answer says what the operation did; criteria mean the same on every backend |
| Multi-tenancy | `multitenancy/context.py`, `core/context.py` | task-local tenant | tenant scope of repository calls | no row of another tenant is read or written |
| Event dispatcher | `events/dispatcher.py` | handlers per event type | subscribe, publish | every subscriber once per event |
| Exceptions | `core/exceptions.py`, `core/exception_mapper.py` | the registered mappers | `translate_exceptions` | a driver error becomes the class that retries and breakers test for |
| Configuration, schema, migrations, observability, command line | `core/`, `schema/`, `migrations/`, `observability/`, `cli/` | data only | validation, text | pure data: out of a model checker's interest |

How they interact. A request opens a **Unit of Work** on an adapter; the Unit of
Work binds its session in the **relational adapter**'s task-local override, so
that repositories and the **outbox store** that call `acquire()` take part in
its transaction. Outside a Unit of Work every `acquire()` is a transaction of
its own. `acquire()`, pings and health checks run inside a **circuit breaker**'s
`guard`; `run_read` chooses a replica by asking its breaker's `allows_calls`
(without a lock), under **retry**. The **relay** claims committed records of the
outbox store in a transaction of its own (a Unit of Work again), hands them to
`publish` and marks them. The **idempotency manager** wraps a whole request and
shares its cache with other processes. The **factory** owns the adapters and
hands them out; whoever got one keeps it, also when the factory has
disconnected it. A **tenant-scoped repository** wraps a **repository** and adds the
tenant to its criteria or looks at it in the answer. Every driver error passes
the **exception mappers** on its way to a breaker's guard and to a retry, which
both decide by class.

What is hard here, and hard to test: the report of a guarded call that reaches
a breaker in another state than the one that admitted it; a cancellation or an
exception at any await of commit, rollback or close; nested and concurrent
blocks on one adapter and tasks created inside them; relays that die, lose
their connection or the reply to their commit while records are half published;
weak references to locks that come and go; look-up, execution and store of an
idempotent request as separate awaits; a disconnect while calls are in flight;
an operation of several statements (write and read back, look and delete, count
and page, load and cache) with another caller between them. `PROJECT.json` "hazards" has each at its
line with the property that watches it.

## 2. The modules

| module | models | uses |
|---|---|---|
| `BreakerState` | the fields of one `CircuitBreaker` and each of its methods as a function on them | |
| `CircuitBreaker` | concurrent guarded calls over one breaker, time, cancellation | extends `BreakerState` |
| `CircuitBreakerProofs` | its theorems | extends `CircuitBreaker` |
| `TransactionalOutbox` | the abstract promise: a transaction's rows and events become durable in one step or never | |
| `UnitOfWork` | tasks, nested blocks, the session override, commit/rollback/close step by step, `acquire()` and the outbox insert under them | implements `TransactionalOutbox` |
| `UnitOfWorkProofs` | its theorems | extends `UnitOfWork` |
| `UnitOfWorkRefinement` | the proof that it implements `TransactionalOutbox` | extends `UnitOfWorkProofs` |
| `OutboxRelay` | several relays over either outbox store | |
| `OutboxRelayProofs` | its theorems | extends `OutboxRelay` |
| `Idempotency` | calls of several managers over one cache | |
| `IdempotencyProofs` | its theorems | extends `Idempotency` |
| `Exceptions` | the exception classes, the driver errors and the mappers between them | |
| `Adapters` | routing, `acquire()` with breakers and transactions, retried reads, for relational, document and vector adapters | extends `BreakerState`, `Exceptions` |
| `DatabaseFactory` | a factory's life: connect, hand out, check health, disconnect, with calls going on | extends `Adapters` |
| `DatabaseFactoryProofs` | the theorems of all three | extends `DatabaseFactory`, instantiates `CircuitBreakerProofs` |
| `Criteria` | what a criteria list selects in SQL, MongoDB, Qdrant and Python | |
| `CriteriaProofs` | theorems about lists of any length | extends `Criteria` |
| `Repositories` | the operations of the three repositories, plain or tenant-scoped, statement by statement | extends `Criteria` |
| `CacheAside` | reading through a cache, and writing and invalidating | extends `Repositories` |
| `RepositoriesProofs` | the theorems of both | extends `CacheAside`, `CriteriaProofs` |
| `MC*` | the TLC instances: symmetry sets and the values of constants | extend the module they name |

Definitions whose name says what they get wrong (`TransitionKeepsSlots`,
`FetchBatchAnyway`, ...) stand directly before the definition they vary. They are
plausible bugs, used one at a time to see that a property notices, and no
specification refers to them.

### CircuitBreaker

Every method body runs under the breaker's `asyncio.Lock` and never suspends
while it holds it, so it is one step: `BeforeCall`, `OnSuccess`, `OnFailure` and
`OnAbandoned` are functions from a breaker record to the next, with
`Transition` under them as in the code, and actions apply them. A guarded call
is `Enter` (admitted), some time in which others run, and one of `Succeed`,
`FailInfra`, `FailOther`, `Abandon`. Which of the last three counts as a failure
depends on the `failure_types` the call site gave to `guard`. `Reject` is
`CircuitBreakerOpenError`, which changes nothing. `probes` is a history variable:
the code has a counter of taken slots, the model also knows which calls took
them.

Time is `opened_for`, the difference `time.monotonic() - _opened_at`, that
`Tick` increases; it stops at `RecoveryTimeout`, past which no comparison in the
code can tell values apart. `_failure_count` stops at `MaxFailureCount` >=
threshold for the same reason.

### UnitOfWork

`uow[u]` holds the object's fields, and `step`/`caller` say where its current
call is suspended: at the outbox insert (`flush`), at the session's commit or
rollback, or at its close. `ctx[t]` is the context variable as task `t` sees it.
Each suspension may end in an exception or a cancellation, which take the same
`finally`/`except BaseException` path; a commit that raises may have been applied by
the database. `EndTransaction` contains `_teardown` up to its close, since there
is no suspension in between; `Close` is the rest of the call up to its return.
`Enter` is one step: a session's transaction begins lazily and binding does not
suspend. A session in the middle of a call rejects use by another task, as
SQLAlchemy's does, so `WriteBound` waits for it. A session that was closed accepts a
row and begins a transaction of its own accord ("autobegin").

`register_event()` is a plain append to `_pending_events`: `RegisterEvent` lets any
task that runs make it on any object at any time, before the block, after it, and
while another task's `commit()` is suspended. `_flush_events` saves a copy of the list and
then clears the list itself, so `saving` is what the outbox insert was given and
`pending` what is there when it returns. `Recipient` says which transaction an event is
registered for (`origin`): the one that is open in the object, or none if `commit()` is
suspended, for what it does not find when it is called is dropped. `commit()`, `rollback()` and exit are
called by the task that entered, on its innermost block.

`LateCalls = FALSE` is the documented use: after the transaction is over the body
leaves the block, or calls `rollback()` once more, which is harmless. `TRUE` also
lets it call `commit()`.

The Unit of Work accepts any outbox store. `Save` is `SQLAlchemyOutboxStore` on the adapter
of the Unit of Work, whose insert goes through `acquire()` and so into the block's session. With
`InMemoryOutboxStore`, or a store on another adapter, events are no part of the transaction:
none of the claims about events is made for them (`SaveAlone`, the mutant of
`AtomicOutbox`, is such a store).

The refinement `AtomicOutbox` maps an abstract transaction to a session: its rows
are the business rows in an open session, and its events are those already
inserted plus those still in `_pending_events` of the object bound to it. So the
insert of the events maps to a stutter, and the session's commit to the
abstract commit of rows and events together.

### OutboxRelay

`store` is fixed at the start: "sql" has transactions, row locks and `SKIP
LOCKED`, "memory" has none and is used by one relay. A relay is at `poll`
(deciding whether to stop, then fetching), `publish` (record by record), `commit`
(the marks are written, not yet committed), `sleep`, `stopped`, or `down`. A record's
number is its `created_at`; records become visible in any order (`Save`), since a
transaction may commit later than a younger one. Faults: the process dies
(`Crash`), the connection and the locks with it are lost while the relay
publishes on (`LoseConnection`, noticed at the next statement), a statement or
commit fails or only its reply is lost (`BatchFails`). `publish` may raise
although the record got through.

### Idempotency

A call is at the lock, at `cache.get`, in the operation, or at `cache.set`. Locks are
objects named by the call that created them; `locks[m][k]` is the weak
dictionary, and an entry disappears in the step in which the last call that
refers to the lock lets go of it (reference counting). `cache.get` and
`cache.set` may raise, `cache.set` also after it stored. An operation that raises
counts as not executed. Waiters may be cancelled. A manager stands for a
process: managers share the cache, not the locks.

### Exceptions, Adapters, DatabaseFactory

An exception is the name of its class. `Bases` is the library's hierarchy,
`DriverBases` that of the drivers: the classes a mapper tests, and the outages no mapper
has a test for (`Unrecognized`: a plain `OSError` or `gaierror` of asyncio's connect,
SQLAlchemy's `DBAPIError` around a lost asyncpg connection, asyncpg's own
`PostgresConnectionError`, a 503 of Qdrant). `MapException` asks the mappers in the order in
which they are registered, and what none of them recognizes is a `QueryError`.

`adapter[n]` holds the fields of an adapter object: whether it is ready
(`_master_key`, `_database` or `_client` is set), a breaker for each node (the
record of `BreakerState`, so its methods are the same functions that
`CircuitBreaker` runs and its theorems are about), and the position in the
weighted cycle of replicas. `pool[n][k]` is what became of the connections to a
node. A call is one repository method on an adapter that somebody has: `enter`
(choose a node, enter its guard: no suspension), `body` (its statements), then for
a relational call that owns its session `commit` or `rollback`, and `close`; a
read may be in `backoff` before the next attempt. Every error and cancellation the
drivers can produce at each of these awaits is an action. A relational call inside a
Unit of Work (`boundRead`) goes to the master and has no transaction or retry of its
own; what happens to its session is the subject of `UnitOfWork`.

`main` is the task of `async with factory`. It connects the adapters one by one,
each up to its ping; if one fails or is cancelled it `release`s that one and
`disconnect`s the others; at the end of the block it disconnects them all, one
engine at a time, and then clears the dictionary. `monitor` is a task in
`health_check_all`; its pings take connections from the pools as calls do. The adapters are registered in the order of the configuration, so
the factory's dictionary is the number of them.

Where one definition stands for the code of several backends, the map names one of
them: `DisposeOk` is `MongoDBAdapter.disconnect` there, and the disposal of an engine
or a Qdrant client as well.

### Criteria, Repositories, CacheAside

`Criteria` translates a list of filters as each backend does: SQL conditions with
three-valued logic, a MongoDB query whose clauses are merged field by field, a Qdrant
filter, and the Python re-check. Values are numbers, texts and null. That one text contains
another is not the same everywhere, so it is a constant: `Substring` for Python and
MongoDB's regular expression, the same after `Folded` for SQL's LIKE, which may ignore letter
case, and `Tokens` for Qdrant's MatchText, which needs a full-text index on the field
(`FullText`). `Expressible` are the lists that the backend's client takes, and
`FilterDiffers` names, filter by filter, where a backend is known to disagree with Python.
Equality is exact: a collation under which it ignores case is not modelled.

`Repositories` has one table (collection, set of points) and callers that run
concurrently; `deployment` is fixed at the start and says which backend it is, whether
reads go to a replica (a replica node of the relational adapter, or a secondary that the
`readPreference` of a MongoDB DSN names), and what the callers do. An operation begins by checking and
scoping its arguments (`GetById`, `Update`, ... are `TenantScopedRepository`'s methods,
or, with scope `Null`, a plain repository's), and then each statement is one step.
Statements are atomic, as the databases promise for one row; a statement may fail
without effect and a caller may be cancelled between two. A relational update is two
transactions, the write and its read-back, both on the master; a document update reads back
with an ordinary read, which may go to a secondary that lags behind. Qdrant's delete is look, delete, look.
Bulk operations go item by item where the code does. `applied` and `disturbed` are
history: whether the write matched, and whether another caller changed what the
operation works on since its first statement. The properties say what an answer means when
nobody interfered, and precisely which answers another caller can make wrong.

`CacheAside` adds one cache entry per id, and callers that read through it or write
and then invalidate. Every cache command is a step and may fail. `excused` and
`straddled` record why an entry may be stale.

## 3. The runs

| run | instance | states | shows |
|---|---|---|---|
| `circuit_breaker` | 4 calls, threshold 2, recovery timeout 2, 2 probes, count to 3 | 4.0 thousand | `NoLeakedSlot`, `OutageBookkeeping`, `DocumentedTransitions`, `OutageNotExtended`, and under fairness `NeverStuck`, `Recovers` |
| `unit_of_work` | 2 root tasks, 1 created task, 2 objects, 3 sessions, 1 write, 1 event | 1.40 million | `OwnSession`, `SessionIsolation`, `NoOrphanTransaction`, `CommitKeepsPromise`, and the refinement `AtomicOutbox` |
| `outbox_relay` | 2 relays, 2 records, batch 2, 2 attempts, 2 faults | 3.4 million | `HonestMarks`, `DuplicatesAccounted`, `NoTightRetry` |
| `outbox_relay_liveness` | 2 relays, 2 records, batch 1, 1 attempt, 1 fault | 132 thousand | `EverySavedSettles`, `StopEndsRun` |
| `idempotency` | 3 calls, 2 managers, 1 key, 2 payloads, 1 expiry | 85 thousand | `SerializedPerKey`, `NoForeignResult`, `ReplaysAgree`, `ExecutionsAccounted`, `EveryCallEnds` |
| `connections` | 2 connections (a relational one with a replica, a document one), 2 callers, 3 faults, 2 attempts, 2 tasks beside the block's | 574 thousand | `PoolsReleased`, `StaysClosed`, `RetryDiscipline`, `OutageCounted`, `RefusalsExplained`, `HealthReportComplete` |
| `repositories` | 2 callers, 2 ids, 2 tenants and none, 11 deployments | 603 thousand | `UpdateExplained`, `DeleteExplained`, `ReadsStayInTenant`, `WritesStayInTenant`, `PageExplained`, `CriteriaAgree`, `StaleExplained` |
| `probe_limit` | 2 calls, all limits 1 | violated | `ProbeLimit`, finding 1 |
| `late_calls` | 1 task, 1 object, 1 session | violated | `OutboxOnlyWithCommit`, finding 2 |
| `spawned_task` | 1 task and 1 it creates | violated | `NoStrayWrites`, finding 3 |
| `at_most_once` | 2 calls, 1 manager | violated | `AtMostOnce`, finding 4 |
| `connect_ping` | 1 caller, 2 faults | violated | `PingIsRetried`, finding 5 |

**Why the bounds are enough to be interesting.** Breaker: four calls with two
probe slots leave two stragglers from before the outage beside a full set of
probes; threshold 2 tells "counted" from "opened", and a timeout of 2 tells
"restarted" from "continued". Unit of Work: two objects and three sessions give a
nested block, a reused object and two concurrent tasks; one write and one event
suffice as atomicity relates one to the other, and the created task can register the event
at any await of its creator's `commit()`. Relay: two records in a batch of
two give a batch half published and half failed, and two faults let the second
hit the repetition of what the first interrupted; batch size 1 in the liveness
run lets the relay drain without sleeping. Idempotency: two calls of one manager and a third of
another, or three in a row on one lock, with two payloads on one key.

Connections: three faults are an outage that opens the replica's breaker, another that
makes its probe fail or the retry too, and a failing clean-up or disposal; all breaker
limits are 1 so that one fault opens a breaker (their counting is the subject of
`circuit_breaker`). A relational statement may raise an outage the mappers know, one they
do not, and an error of a healthy node. With two tasks besides the block's, two calls meet on one
half-open replica, or a call and a health check meet a disconnect. A vector adapter behaves
as the document one but for the disposal of its client, which waits and may fail as an
engine's does, so the instance has none. Repositories: two callers and two ids give
every interference of one operation with another; two tenants and callers without one
give every way a record can change hands. Deployments separate kinds of use (single
operations, queries, bulk operations, use of a cache), each on the backends it can be
used with, to keep the product small; symmetry over tenants, ids and callers is
sound as the module compares them only for equality. `CriteriaAgree` compares the
backends on all lists of up to two of 23 filters, the least that are merged, for a field that is
null, 1, 2, or one of four texts: "cat", "CAT", "concatenate" and "the cat", which substrings,
LIKE and tokens tell apart.

**Deadlock** is checked for the breaker, which never stops. The others end when
every call was made, every session used or every relay stopped, so their runs
say `CHECK_DEADLOCK FALSE`.

**Fairness.** Breaker: time passes, each guarded block ends somehow (database
drivers time out), and callers keep trying while one could be admitted; `Recovers`
additionally assumes in its own statement that failures cease and calls keep
succeeding. Relay: `run()` never waits without bound between two steps, `publish` and
the database answer or fail, the poll interval ends, and a dead process is
restarted; faults, saves and the stop event are not fair. Faults are bounded, so
liveness is about what follows the last of them. Idempotency: cache and operation answer or
fail, and a free lock wakes a waiter (asyncio's Lock is first come first served, of
which only weak fairness is used). The Unit of Work, the factory and the repositories make no
liveness claim: a body, a block or an application may run for ever, and the number of
statements and attempts of a call is bounded by its shape.

## 4. Findings

1. *Probe limit* (`circuit_breaker.py:125`). A call admitted while the breaker was
   closed and cancelled in the half-open period gives back a probe slot that it never
   took; then more than `half_open_max_calls` probes run.
2. *Late commit* (`unit_of_work.py:75`). `commit()` looks at `_active`, not at
   `_finished`: called once more in the block after its transaction ended, it inserts
   the pending events through an unbound `acquire()`, which commits them alone.
3. *Spawned task* (`adapters/relational/base.py:161`). A task created inside a block and
   still running after it writes into the finished session: the call returns, and
   nothing commits the row.
4. *At most once* (`idempotency.py:87`). When `cache.set` fails after the operation,
   nothing records the execution; the retry runs it again.
5. *Ping without retry* (`adapters/relational/base.py:121`). The relational ping raises
   the driver's error untranslated, which no retry recognizes: `connect()` fails after
   one attempt. The document and vector adapters translate, and retry.

What else the properties had to allow for, each an exception spelled out in the
property that names it:

- `RefusalsExplained`: a half-open replica whose probes are all taken refuses a read that
  the master could serve (`adapters/relational/base.py:137` speaks of an open one only).
- `PoolsReleased`, `StaysClosed`: `disconnect()` does not wait for calls in flight
  (`interfaces/adapter.py:65` says "Gracefully drain"), and a call that takes a connection
  between two disposals reopens a pool nobody will close. A disposal that fails or
  is cancelled leaves the adapter usable.
- `CommitKeepsPromise`, `AtomicOutbox`: an event that a task registers while another one's
  `commit()` is suspended is cleared without having been saved, at `unit_of_work.py:116` when the
  outbox insert returns or at line 94 when the session's commit does, and `commit()` returns
  (line 119 says "never silently discard registered events"). So is one registered before
  the block is entered (line 54) or after its transaction is over.
- `OutageCounted`: the outages in `Unrecognized` pass every mapper
  (`core/exception_mapper.py:76-81`, `:177-187`), become `QueryError`s (`:43`) and count as a success:
  a node that only answers so never opens its breaker, and its reads are not retried, although
  the breaker "counts only infrastructure failures (lost connections, timeouts)"
  (`adapters/relational/base.py:7`). And a rollback or close that raises after an outage hides
  it from the breaker.
- A health check in whose middle the adapter is disconnected may answer HEALTHY or DEGRADED.
- `UpdateExplained`: a document update whose document is deleted before the read-back
  ends in an `AssertionError`, also of a whole `bulk_update`. It ends so without any other caller if
  the read-back (`document_repository.py:153`) goes to a secondary that has not got the document yet,
  where line 154 says "guarantees the document exists", and it answers with the entity
  without the changes if the secondary lags behind (`mongodb.py:3-7` advertises replica
  reads through `readPreference`). A vector update whose
  change makes its own criteria false (a compare-and-set) is applied and reports
  `RecordNotFoundError`; one that matched nothing reports success if another caller
  makes the point match afterwards, or if its criteria ask for a null field to differ
  from a value: Qdrant's filter does not select the point, the re-check in Python does.
- `DeleteExplained`: a vector delete answers True if somebody else removed the point, and
  a scoped bulk delete counts points that only the re-check takes to match (again a
  null field under `!=`).
  (An unscoped vector `bulk_delete` answers with the number of ids it was given, as its
  comment says.)
- `ReadsStayInTenant`: the read-back of a relational or document update is by id alone and
  returns another tenant's record if the id was deleted and created anew in between, or, from
  a lagging MongoDB secondary, the record as a former owner had it.
- `WritesStayInTenant`: creating a point overwrites an existing one with that id, whoever
  owns it.
- `CriteriaAgree`, the cases in `FilterDiffers`: CONTAINS on Qdrant compares tokens ("closest
  Qdrant equivalent", `vector_repository.py:81-83`), so nothing is claimed of a text other than the value
  itself, and needs a full-text index; LIKE may ignore letter case. An ordering against
  None is false in Python, unbounded on Qdrant (`Range(gt=None)`), equality with null for
  MongoDB's `$gte` and `$lte`, and raises in SQLAlchemy; orderings of texts, and texts looked for in
  numbers, are not compared. Null fields under `!=` and not-in differ between the backends, and
  so do value lists with a None and, in SQL, IS_NULL without a value.
- `StaleExplained`: besides a load that overlaps a write, a write that raises after it
  was applied, and a load from a lagging replica, leave a stale entry until its time to
  live ends.

## 5. What is proved

The runs of section 3 check small instances. The theorems below hold for any set of
calls, tasks, objects, sessions, rows and events, and for all values of the other
constants that satisfy the named assumptions, which every run evaluates too.

### 5.1 CircuitBreakerProofs

From `BreakerConfigAssumption` (the field constraints of `CircuitBreakerConfig`)
and `CallsAssumption` (finitely many calls in flight): `TypeCorrect`,
`BookkeepingHolds`, `SlotsNeverLeak`, and the action properties
`FollowsStateMachine` and `OutageStaysBounded`. The inductive invariant is

    IInv == TypeOK /\ OutageBookkeeping /\ ProbesRun /\ NoLeakedSlot

`TypeOK` is not inductive by itself: that the slot counter stays within its limit
needs the guard of `Admits`, and that `opened_for` is a number when the recovery
timeout is compared needs `OutageBookkeeping`. `NoLeakedSlot` needs `ProbesRun`
(`probes` are running calls): a report removes one call from `probes`, and the
cardinality argument needs to know whether that call was in it. The proof has
one lemma per breaker method (what it does to a well-formed record), then one step per
action.

### 5.2 UnitOfWorkProofs

From `UowAssumption` (the constants that stand for "nothing" are not sessions, objects
or tasks; roots are not children; rows are not events). No bound on the number of
tasks or on how deep blocks are nested, and no finiteness is assumed. The theorems:

| theorem | property | with late calls too |
|---|---|---|
| `TypeCorrect` | `TypeOK` | yes |
| `RootsUseTheirBlock` | `OwnSession` | yes |
| `TasksAreIsolated` | `SessionIsolation` | yes |
| `NothingIsLeftOpen` | `NoOrphanTransaction` | yes |
| `CommittedMeansDurable` | `CommitKeepsPromise` | no |

`CommitKeepsPromise` is about the events whose `origin` is the transaction: those that any task
had registered in the block before `commit()` was called. Of the others, registered while
`commit()` is suspended or with no transaction open, it says that they never become durable: they
are dropped, and do not turn up in a later transaction (`Recipient`).

`OwnSession` is far from inductive: when an inner block ends, `_teardown` sets the
context variable to a token that was read when the block was entered, perhaps many
blocks ago. The inductive invariant `IInv` says, part by part, why that token is
still right:

- `Blocks`: the blocks of a task form a chain, `block[t]` innermost, `enclosing`
  leading outwards; no two pointers lead to the same block.
- `Transactions`: a bound session is the open transaction of an active, unfinished
  block, and no two objects share one.
- `References`: whatever a task has bound, or will restore, is a session that was
  begun by its own family of tasks.
- `Levels`: there is an assignment of a session to every block such that the
  innermost block's is what the task has bound, an open block's is its own, and what
  an open block will restore is that of the block around it. The witness changes at
  `__aenter__` (one level more) and when a transaction ends (the level takes the
  value from around it).
- `RootStacks`: what a root task has bound, and what each of its open blocks will
  restore, are sessions of its own open blocks, each session once. This is where root
  tasks differ from children, which start with a copy of their creator's binding and
  may keep it after the creator's block is gone.
- `NoOrphanTransaction` is inductive with `Blocks` and `Transactions`.
- `EventsKept`: the events of an open block are in the object, in the list that the outbox insert
  was given, or in its session; and what is pending belongs to the block, but for
  what came since `commit()` was called. `Calls` ties the step to the call that is in progress.
- `CommitInProgress` (when there are no late calls): how far a `commit()` got. At the
  session's commit nothing of the block is pending any more; when the close follows a commit that
  returned, the transaction and its events are durable.
- `Unclaimed` (likewise): an event that no transaction has to take is in no session and not
  durable.

Late calls break the last two and `CommitKeepsPromise` with them: when the close of a
rolled-back session raised, the object still has that session, and a `commit()` the body
makes then commits it, empty, and returns; and the outbox insert of a late `commit()` makes
events durable that no transaction had to take.

The proof first describes each action by the fields it changes (the `...Effect`
lemmas), sorts the steps into six kinds (`StepKinds`: quiet steps, `__aenter__`,
the creation of a task, the end of a transaction, the end of a call, the end of a
block), and then has one lemma per part of the invariant, with one step per kind.

### 5.3 UnitOfWorkRefinement

`ImplementsOutbox`: when bodies make no late calls, `Spec => AtomicOutbox`, i.e. the
Unit of Work implements `TransactionalOutbox`. Initial states map to initial states
(`InitMaps`) and every step maps to an abstract step or a stutter (`RefinementStep`).
Two of its cases carry the argument. `Flush` moves events from the object to the session
the *task* has bound, and is invisible only because that is the session of the same
block (`Levels`) and still open (`CommitInProgress`). The end of a transaction is the
abstract `Finish`, for which a commit must find nothing of its transaction left in
`_pending_events` (what was registered meanwhile is not counted, and dropped); a late
`rollback()` has to find the transaction over (`NoOrphanTransaction` and
`Transactions`). One more invariant is needed, `UnusedEmpty`: a session nobody was given
has no rows, which rests on `References`.

### 5.4 OutboxRelayProofs

For any relays, any finite set of records, any batch size, number of attempts and of
faults, over both stores: `TypeCorrect`, `Honest` (`HonestMarks`), `Duplicates`
(`DuplicatesAccounted`) and `Paced` (`NoTightRetry`). From `RelayAssumption` (records
are finitely many numbers; batch size and attempts are positive). The inductive
invariant has six parts:

- `Types`, and `PositionsKept`: the memory store's positions are distinct and no
  greater than the number of records saved, so the next one is free.
- `BatchKept`: where a relay is in its batch. `NoTightRetry` follows from
  its line on `hot`: between two polls, what failed is exactly what was published in vain.
- `ClaimsDisjoint`: two transactions never hold the same record, and a record that is held
  is unpublished with attempts left. This is what the row locks and `SKIP LOCKED` give,
  and where it ends: a relay that lost its connection goes on without them.
- `MarksHonest`: `HonestMarks`, also of the marks that are about to be committed.
- `DeliveriesPaid`: every delivery of a record is paid for by its mark, an attempt
  counted, or a fault, where a transaction that may still commit can owe one, and a
  relay whose lock was lost (`Owing`) has its delivery paid in advance by the fault.
  Without that debt the bound is not inductive: after the loss nothing but `faults`
  tells that one more delivery is to come.

### 5.5 IdempotencyProofs

For any finite set of calls and any managers, keys, payloads and number of expiries:
`TypeCorrect`, `Serialized` (`SerializedPerKey`), `ResultsMatch` (`NoForeignResult`),
`Replays` (`ReplaysAgree`) and `Executions` (`ExecutionsAccounted`). The inductive
invariant is `TypeOK` with

- `LockKept`: the dictionary's entry for a call's manager and key is the lock the call
  refers to, as long as it refers to one. So a weak entry that comes and goes never
  leads two calls to two locks at once; `SerializedPerKey` is a consequence.
- `ResultsKept`: what the cache holds was executed under the fingerprint stored with it,
  and a call that executed returns its own result or raises.
- `VisibleBounded`: the results that calls of a manager produced, and that some call returned or
  the cache may still give out, are at most one more than the expiries, and *one fewer* while the
  entry is gone or an execution is under way. `ReplaysAgree` counts only those that were
  returned, and says nothing between the execution and its store.

Both are about results by the manager that *produced* them. Two managers share no lock ("In-process
coordination only", `idempotency.py:43`): both may find no entry, execute and return a result of
their own, and a later call of either returns the one that was stored last. Of such a pair
the theorems say only that each was executed for the same key and payload.

### 5.6 CriteriaProofs

From `TextAssumption` (a text contains itself, null is no text; nothing else about substrings,
letter case or tokens): `BackendsAgree`: on every backend a list of filters *of any length*, which
the backend's client takes (`Expressible`), selects the rows that Python takes to satisfy it, unless `Differs` names
one of the filters (section 4). `EqualityHolds`: a list with an equality selects only rows in which the
field has that value, whatever else it says; tenant scoping rests on it.

SQL and Qdrant take the conjunction of the filters, and the proof goes filter by filter. MongoDB's query
is built by a loop that merges a clause into the clause its field already has, or moves on
to `$and` when both use the same operator: `CriteriaToQuery` is a recursive function, and
the theorem is an induction over the prefixes of the list, with "the query so far matches the row
iff every filter so far does" as hypothesis. The library's induction theorems take an operator
as a parameter, which the installed provers cannot instantiate; the module therefore derives
`InductionUpTo`, in terms of sets, from the fact that the natural numbers are well-founded
(`WFMin`, `NatLessThanWellFounded`), and uses it a second time to show that the
recursive function exists.

### 5.7 RepositoriesProofs

For any callers, tenants, deployments and filters and finitely many ids, from
`RepositoriesAssumption`, `IdsAssumption` and `CriteriaAssumption` (criteria are lists of
filters, and updates and deletes get only ones that their backend's client takes):

| theorem | property |
|---|---|
| `TypeCorrect` | `TypeOK` of `CacheAside`, and with it that of `Repositories` |
| `UpdatesReport`, `DeletesReport`, `PagesAgree` | `UpdateExplained`, `DeleteExplained`, `PageExplained` |
| `TenantReads`, `TenantWrites` | `ReadsStayInTenant`, and `WritesStayInTenant`, which is an action property |
| `BackendsSelect` | `CriteriaAgree` (from `BackendsAgree`) |
| `CacheFresh` | `StaleExplained` |

The properties look at what a call is about to answer; the invariant has to say what it knows
between *any* two of its statements. `IInv == RepositoriesInv /\ CacheInv`, where
`RepositoriesInv` is `CallKept` of every call:

- `CallTyped`: which ids, criteria and data a pending statement has. A criteria list is the one
  that scoping made (`WriteCriteria`, `ScopedCriteria`), which is why a statement of a
  tenant's operation touches rows of the tenant only (`EqualityHolds`).
- `DataKept`: what a tenant writes is the tenant's.
- `UpdateKept`, `DeleteKept`, `PageKept`: what the first statement of an operation saw is still
  so, unless the call was `disturbed`.

A step of one caller is described once, by `GoodStep(c)`: rows outside the operation's ids
stay, other calls change at most in `disturbed` and are disturbed if what they work on changed,
and the caller's own next state is `CallKept`. There is one lemma for each statement
(`...Good`) and one for each step of the cache (`...Keeps`); `GoodStepKeepsAll` then gives the
invariant, and `TenantSafe`, a part of `GoodStep`, the action property. `CacheInv` says where
a cached value comes from: what a reader is about to store is the row's value unless it was
`straddled`, and a client that writes or invalidates has the row's id in its hands.

For a document read-back `UpdatesReport` and `TenantReads` except a secondary that lags behind on that
document at that moment (`Lags`), and nothing else: with `replica` up to date the answer is
explained as on a master.

The exceptions in `UpdateExplained` and `DeleteExplained` for a null field under `!=`
(section 4) were found here: the properties held on the instance until its criteria
included such a filter, and could not be proved.

### 5.8 DatabaseFactoryProofs

For any finite set of callers, from `AdaptersAssumption` (connections that `ConnectionConfig`
accepts: each with a master node, positive weights, different keys; at least one, and no name
twice; drivers raise any of the driver errors), `FactoryAssumption` and
`BreakerConfigAssumption`:

| theorem | property |
|---|---|
| `TypeCorrect` | `TypeOK` |
| `Released`, `Closed` | `PoolsReleased`, and the action property `StaysClosed` |
| `RetriesDisciplined` | `RetryDiscipline` |
| `OutagesCounted`, `Refusals` | the action properties `OutageCounted` and `RefusalsExplained` |
| `ReportsComplete` | the action property `HealthReportComplete` |

`IInv` is `TypeOK` with five parts, none of which the properties mention:

- `CallsKept`: what a call carries from one await to the next. Before the rollback, an error
  is an infrastructure failure iff it came from an outage that a mapper has a test for; before a commit there is none; a
  call that waits or was tried again is a read.
- `SlotsHeld`: a probe slot of a *replica's* breaker is held by a call in its block, so a
  refusal there names a culprit. It is false of masters, whose slots pings hold too, and it
  is an inequality, because a call admitted before the outage is in its block without a slot.
  The proof relates cardinalities of sets of callers before and after each step.
- `MainKept`, `PoolsKept`: an adapter's life follows from where the block's task is:
  untouched before it, open behind it, disposed of up to `main.node` where it disposes, and
  let go afterwards. That an adapter which nobody connected is *unused* (its master's breaker
  is closed and no call is in it) belongs to this: `connect` pings through the
  guard of that breaker, and `BeginConnect` takes it to admit the ping, as a new breaker does. `PoolsReleased` is what remains when the task is nowhere.
- `MonitorKept`: the report has one answer for each adapter the iteration passed. What a ping
  of the monitor does to the pools (`Pinged`: it takes a connection of a ready adapter) is what keeps
  `PoolsKept` true of it.

There is a lemma for each action (`...Keeps`). Those of calls establish `StepKeeps`, which is
`CallEffect` (what the step may change) and the two action properties of that call; so
`OutageCounted` and `RefusalsExplained` are proved with the invariant, step by step. What the
breaker's methods do is cited from `CircuitBreakerProofs` through an instance.

The errors take a part of their own. `mro` is a recursive function on the class hierarchy;
`MroIs` shows what it is, from the fact that no class is more than four steps from
`Exception`. `TestsOrdered` shows that no test of a mapper comes before a more specific one,
hence `MappedErrors`: `map_exception` yields an error of the package for every driver error, and an
infrastructure failure exactly for those in `Recognized`, the outages but for the five in
`Unrecognized`. These have no test among their ancestors (`Untested`) and become `QueryError`s; so
`OutagesCounted` says of them that the breaker records a success.

Trying the proofs changed the model in two places: `TypeOK` now says that a balancer's turn
is the turn of an existing replica (`Turns`), and `FactoryAssumption` that callers are
finitely many.

### 5.9 Model-checked only

Liveness (`NeverStuck`, `Recovers`, `EverySavedSettles`, `StopEndsRun`,
`EveryCallEnds`) is out of the prover's reach and stays with TLC. So are the five violated
properties of section 4, which are false. Every other property of the runs is a theorem.

## 6. Not modelled, and why

Schema generation, configuration validation, migrations, logging, metrics, tracing,
audit and the command line compute or print data: there is no order of events in
them to get wrong. The breaker registry is a dictionary filled on demand. The event
dispatcher is a list and a loop over it. Examples, benchmarks and tests are read as
documentation of intent only.

Left out of modelled components:

- A second `connect_all` on a factory that is still connected: it would put new adapters
  over connected ones that nobody disconnects then. `async with` does not do it.
- What a failed statement does to the rest of a transaction. PostgreSQL aborts it, other
  databases go on; a relational `bulk_update` in a Unit of Work, which catches the failures
  of single items, therefore succeeds in part on one and fails as a whole, at commit, on
  another. `Repositories` has no transactions of several operations, and takes a failed
  statement to have had no effect, which a lost connection does not guarantee (the cache
  model has its consequence: a write that raised after it was applied).
- Sorting, offsets, scores and pages shorter than the result; the `idempotency_key` of
  `create`, which the repositories accept and ignore; entities that differ within a batch.
- The time between two attempts of a retry, and pool sizes: a call that waits for a
  connection is a call in its body, and a pool that is exhausted is a driver error there.
- `RedisCache.exists`, which changes nothing.

## 7. Plan

The modules of section 2 are complete as far as section 6 says, and every safety property of
the passing runs is proved. What could be added: transactions of several repository
operations, which would let a failed statement abort what follows (section 6); a second
`connect_all` on a connected factory.
