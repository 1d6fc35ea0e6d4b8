# Verification of the Syncano platform backend

TLA+ models of the concurrent core of the platform (`src/apps/`), TLC runs on
small instances and TLAPS proofs for arbitrary ones.

    tlc -workers 2 -config <file>.cfg <Module>      # one run
    tlapm <Module>Proofs.tla                        # the proofs of a module

`PROJECT.json` lists the components, the runs, which definition models which
source lines, the hazards the properties are aimed at, the seeded faults and the
theorems.

## The system

A multi-tenant Django application. Requests are served by uwsgi processes,
background work by celery workers that take messages from an AMQP broker
(acknowledged on delivery, so a killed worker loses its message). Shared state
is in Postgres (a `default` database for accounts, an `instances` connection
with one schema per tenant instance), in redis and in a file bucket. Requests
that wait (polling, websockets, calls of endpoints) are handed to a process of
greenlets that share one redis connection.

| Component | State | Operations | Interacts with |
|---|---|---|---|
| Script queue (`codeboxes/tasks.py`) | spec keys, two redis lists per instance, a slot counter, messages | publish, push, wake, take a slot, pop, run, put back, give back, requeue | triggers, webhooks, schedules send to it; it saves traces |
| Schedules and traces (`codeboxes`, `redis_storage`) | next time per row, a redis key per dispatch, redis hashes and a trimmed index | dispatch, run, save a result, reschedule | the script queue |
| Containers (`container_manager.py`, `runner.py`) | one cached container per runtime, its directory | prepare, execute, clean up, dispose | docker |
| Triggers, endpoint calls (`triggers`, `webhooks`, `sockets/v2/views.py`) | rows, cached matches, payload keys, a channel per call | match, queue, wait for one result | script queue, async handlers |
| Sockets and environments (`sockets`) | row statuses, content, config; task lock and attempt key | create, update, delete; process, check, install | object cache, storage, scripts |
| Task framework (`core/tasks.py`, `core/mixins`) | redis locks and attempt keys | lock, find, process, retry, release, look again | sockets, classes, hosting |
| Object cache (`core/helpers.py`) | local and redis entries, a version key per row | get, set, invalidate, expire | every model; post-transaction operations |
| Post-transaction operations, file storage (`core/atomic_signals`, `core/backends/storage.py`) | operations per open atomic block, files in a bucket | enter, register, exit, run; save, delete | cache, tasks, rows with file fields |
| Channels and async handlers (`channels`, `async_tasks`) | messages per room, pub/sub, clients' queues | publish, poll, subscribe, receive, time out, reset | each other |
| Data classes (`data`) | schema, index state of every field, class lock | change schema, build and drop indexes, roll back | task framework, sockets |
| Data objects, queries (`data`) | rows with revisions, unique values, files | create, change, delete, filter | classes, triggers |
| Permissions, users, groups (`core/permissions.py`, `users`) | rights and ACLs, users, profiles, keys, memberships, cached groups | check, look up, join, leave, reset | every view |
| Pagination (`core/pagination.py`) | links | page forward and back | every list |
| Instances (`instances`, `core/tasks.py`) | rows, schemas, files | create, soft delete, delete for good | backups, limits |
| Backups and restores (`backups`) | backup and restore rows, archives | admit, run, abort, restore, swap schemas | instances, storage |
| Schema migrations (`core/management`) | the migrations recorded per schema | migrate all schemas by a pool of threads | instances |
| Accounts, invitations, standing (`admins`, `invitations`, `billing`, `analytics`) | passwords, keys, tokens, roles, limits and marks, notices | sign in, reset, invite, accept, block, warn, delete | billing |
| Metrics (`metrics`) | redis hashes per minute, aggregates per interval | count, roll up | billing |
| Billing (`billing`) | transactions, invoices, subscriptions, charge status | aggregate, invoice, charge, retry, change plan | metrics, Stripe |
| Hosting (`hosting`) | hosting rows, domains, SSL status, files and their size | upload, set domains, request certificates | instances, task framework |
| Push notifications (`push_notifications`) | devices, their count, messages | register, send, fetch feedback | APNS, GCM |

### What is hard in it

* **Two redis calls are not one.** Counter, lists, keys and locks are changed by
  separate calls, and any worker may act in between.
* **Killed workers and lost messages.** Nothing is redelivered; the code relies
  on expiry of keys and on the next event.
* **Copies read before a lock.** Tasks and views save whole rows that others
  changed meanwhile (sockets, accounts, billing, restores, hostings, users).
* **Two databases, two transactions.** What is sent, invalidated, dropped or
  deleted before the commit, after it, or on rollback.
* **Process-wide state**: the loader that migration threads share, the class that
  `DataObject` has loaded, the subscription connection of all greenlets.
* **Something must eventually happen**: a queued script runs, a socket leaves
  PROCESSING, a migration ends, a poller sees a message.

### What makes the components correct

* Script queue: never more runs than the limit; a spec is in one place and is
  not dropped; a push has a runner on its way.
* Sockets: a row that waits has a task on its way and settles; an OK row is up
  to date; what an installation defines is there.
* Cache: no reader sees a value older than the last invalidated write.
* Transactions and storage: a committed row never loses its file; a file
  without a row is deleted.
* Schedules and traces: a due time runs once per dispatch key and none is passed
  over; a trace never leaves its final status.
* Containers, triggers, calls: a script runs among its own files and has one
  result; a change fires a trigger once; a result reaches the call that waits.
* Channels: a client sees every change of the room once, in order, and catches
  up after any fault.
* Classes and objects: an index that a class relies on is valid after any
  failure; no change of an object is lost; unique values are distinct.
* Requests: who is served was entitled; a walk over pages meets every row that
  stays once; a query returns what its conditions say; user and profile live and
  die together.
* Tenants: a live instance has its schema and files; every schema is migrated;
  a spent secret is worth nothing; a key lets one account in; who is blocked is
  above a limit; who is deleted was warned.
* Billing: usage is counted once, invoiced once and charged once unless the
  payment was overtaken; a month has one plan fee.
* Hosting and push: a domain belongs to one hosting, storage used is what the
  files take; the count that decides about feedback is never too low.

## Modules

| Module | Models | Checked in | Proofs |
|---|---|---|---|
| `CodeBoxQueue` | the script queue of one instance | `MCCodeBoxQueue` | `CodeBoxQueueProofs` |
| `SocketLifecycle` | sockets, environments, task framework, API requests | itself | `ServicesProofs` |
| `ScheduledRuns` | one schedule, script runs and their traces | itself | `CodeBoxQueueProofs` |
| `Channels` | one room: publishers, list, handler process, clients | itself | `RequestsProofs` |
| `KlassIndexes` | classes, their indexes, index tasks, references of sockets | itself | `KlassIndexesProofs` |
| `ObjectCache` | one cached row, its writers and readers | `MCRecords` | `RecordsProofs` |
| `TransactionHooks` | atomic blocks, deferred operations and storage; implements `FileStore` | `MCRecords` | `RecordsProofs` |
| `FileStore` | abstract: what the storage promises | through `TransactionHooks` | `RecordsProofs` |
| `DataObjects` | objects of a class that changes under them | `MCRecords` | `RecordsProofs` |
| `BackupArchive` | what a backup writes and a restore reads | `MCRecords` | `TenantsProofs` |
| `Tenancy` | instances, deletion, backups and restores | `MCTenants` | `TenantsProofs` |
| `Migrations` | the migrate command and its threads | `MCTenants` | `TenantsProofs` |
| `Accounts`, `Invitations`, `Standing` | secrets of an account; keys and roles; limits and marks | `MCTenants` | `TenantsProofs` |
| `SocketInstall` | files, scripts, endpoint and handler of an installed socket | `MCServices` | `ServicesProofs` |
| `Containers`, `Triggers`, `Push` | a worker's containers; a trigger under changes; devices and messages | `MCServices` | `ServicesProofs` |
| `Hosting`, `HostingFiles` | domains and SSL; a hosted file and the storage indicator | `MCServices` | `ServicesProofs` |
| `Access`, `Users`, `EndpointCalls` | permission checks; user and profile; a call and its result | `MCRequests` | `RequestsProofs` |
| `Pagination`, `Queries` | links of lists; filters and nested queries | `MCRequests` | `KlassIndexesProofs` |
| `Metering` | abstract: what billing may rely on about usage | through `Metrics` and `Billing` | `BillingProofs` |
| `Metrics` | buckets, runners, aggregation; implements `Metering` | `MCBilling` | `BillingProofs` |
| `Billing`, `Subscriptions` | hours to invoices to charges; plans and fees; written against `Metering` | `MCBilling` | `BillingProofs` |
| `Notices` | warnings, deletion and summaries in chunks | itself | |
| `Sums` | no code: lemmas about sums and finite sets | | itself |

In every module the operators whose names begin with `Fault` are seeded faults:
variants of an action with a plausible mistake. No specification uses them; each
shows that a property notices the mistake.

**Composition.** Components that interact are composed in one module
(`SocketLifecycle`, `Channels`, `KlassIndexes`, `Billing` with `Metering` and
`Subscriptions`). Components that share no state are checked together: an MC
module extends them, `part` names the one whose behaviour it is, and the others
stay in their initial state. `PartView` shows TLC only the variables of that
part; the others have one value, so no state is lost.

### CodeBoxQueue

One step is one redis or broker call. Incentive tasks (script, schedule,
trigger, webhook) are *producers*: `Publish`, `CheckQueueLimit`, `PushSpec` and
`WakeRunner` are `BaseIncentiveTask.process`; `Refuse` is a blocked run. A
*runner* is a `CodeBoxRunTask`: `Incr` and `GiveUp` are `can_run`; `SetTTL`,
`PopPriority`, `PopNormal`, `ReadSpec`, `Execute`, `DeleteSpec` and `PutBack`
are the body of `run` and `process_spec`; `Cleanup` and `DeleteCounter` give
the slot back; the two `Recheck` steps are the requeue. Keys, lists and the
counter expire, workers are killed at any step. What a script does is
abstracted to how its run ends.

### SocketLifecycle and SocketInstall

An API request holds the row lock of its object, so read, check and save are one
step, and the task message goes out after the commit (`SendTask`), or never, when the
process is killed in between (`CrashApi`). Workers run the three tasks: take the lock or return, find the
oldest object of the expected status, process a copy, succeed, fail or retry,
reset the attempt key, release the lock and look again. The order by
`updated_at` is a relation on objects, so the model stays finite. `Raise` is an
exception that leaves `run()`, `ExpireLock` a lock expiring under a live task.
The content of an object is one *part* and its config another; each part
records whether what was accepted last has been processed.

`SocketInstall` is what one such installation does: `InstallFull` and
`InstallPartial` file the contents of a zip, make scripts of some of them, put
them behind an endpoint and an event handler, and clean up what is not used any
more, with the cascades of that deletion.

### ObjectCache

The value of the row is a number that grows with every write; an entry is a
value with the version it was stored under. `GetLocal`, `GetGlobal`,
`CheckGlobal`, `Compute` and `Set` are the calls of `Cached.get`; `Save`,
`Commit`, `Rollback`, `AutoSave` and `Invalidate` are a writer inside or outside
a transaction. The row is on the `default` database, where the new version is
set after the commit, or on `instances`, where it is set at once
(`_queue_func` names no database). Entries expire at any time; the version key
only once no older entry or fill is left, which its longer timeout ensures
(`Outlived`).

### TransactionHooks and FileStore

A stack of atomic blocks of one connection, each with the rows at its entry, its
savepoint and its operations. `Enter`, `ExitSuccessful` and `ExitFailed` are the
patched `Atomic.__enter__` and `__exit__` with their signal handlers;
`RunOperation` and `RaiseInOperation` are the loop that runs what was deferred.
`SaveFile`, `LinkRow` and `DeleteFile` are the storage and the row that names
the file; `GoogleFiles` are in a bucket whose `delete()` overrides the deferring
one. `FileStore` maps `stored` to the files and `committed` to the rows other
connections see.

### ScheduledRuns

Due times are numbered. `ReadDue` and `Dispatch` are `SchedulerTask`; a run is
dropped, blocked, queued and run, or given to the broker (`RunByBroker`), which
abstracts `CodeBoxQueue` to the ways a run can end; `WatchTrace` and
`ExecUpdate` are the watched `_update` of a trace, `SaveScriptTrace`,
`NextTraceId` and `SaveScheduleTrace` are `SaveTraceTask`, and `RunScheduleNext`
gives the schedule its next time. `ReadForUpdate`, `SaveUpdate` and
`ScheduleUpdated` are an API update, which holds no lock. The owner is assumed
to stay in good standing: otherwise nothing is dispatched at all.

### Channels

A publisher takes the room's lock and an id, saves, and publishes. The handler
process has one connection (`cmds` towards redis, `stream` back), the event of the
room's subscription and the registered queues; clients of other rooms appear as
`ResetByOther` and `ReplacePubsub`, the race in the `pubsub` property. A client
asks, subscribes, waits for the confirmation, reads the list and takes from its
queue. A waiting client whose event was dropped from `channel_data` is
`orphaned`: only its timeout, which resets everyone, gets it on. The clients
themselves are not in the repository: they are assumed to come back with the
greatest id they received.

### KlassIndexes and DataObjects

A class row has its fields, index flags (`<<field, type>>`), the revision that gave
each field its source, the `existing` indexes, the index changes (`add`,
`drop`) and the references of sockets. A class with index changes is locked.
`CreateClass`, `UpdateClass` and `DestroyClass` are requests, `InstallNew`,
`InstallExisting` and `Uninstall` what a socket does to a class,
`KlassOperation` the operations put off while it was locked; each holds the row
lock from its read to its commit and is one step. `StartIndexing`,
`ExecuteDDL`, `FailDDL`, `Unlock`, `Release` and `AfterLockReleased` are
`IndexKlassTask`, one statement at a time and without a row lock;
`StartDropping` is `DeleteKlassIndexesTask`. A failed concurrent build leaves an
invalid index. `CleanedUp` and `Unlock` edit the schema in place, which the
change tracking does not see. Abstracted: an index stands for the first of the
statements a field type may need; the oldest locked class is any of them; the
redis lock (15 minutes) outlasts every task that is alive; the unique flag,
schema validation and the count limit are left out; a primary key is used once.

In `DataObjects` a request arrives with the schema it has loaded, reads the row
with a lock (`Fetch`), validates, saves the whole row, meets a unique value that
is taken (`Collide`) and validates again, commits or fails. Meanwhile the unique
index is completed and the file field is removed and added.

### Tenancy, BackupArchive, Migrations

`Tenancy`: an instance row names its *place*, the schema and the file prefix.
`DeleteInstance` marks the row, `DeleteLiveObject` (or the daily
`DeleteDeadObjects`) deletes it, its schema and later its files; `AdmitBackup`,
`CreateBackup` .. `FinishBackup` are a backup; `CreateRestore`, `StartRestore`,
`BuildSchema` and `SwapAndCommit` a restore, which builds a second instance and
gives its place to the row it read at the start. `BackupArchive` is what that
backup writes model by model from a snapshot, and what a restore makes of it,
for one model found by name and one that refers to it. `Migrations` is the
migrate command: public schema, jobs for a pool of threads, per schema the
patched loader, the migration, the recorded names, the SQL of its own and the
receivers of `post_migrate`.

### Accounts, Invitations, Standing, Notices

A request works on the copy of the account that authentication found and saves
all columns of it, or some. Passwords and keys are numbered as they are drawn; a
token is good while the password it was made from is the account's. An
invitation is accepted by key or by signing up with its address. `Standing` has
the amounts of a month, the limits of a profile, the check that lists accounts
above them and then marks them (`ListAbove`, `MarkListed`) and the cached
status. `Notices` has the tasks that go through accounts in chunks.

### Containers, Triggers, EndpointCalls

One worker takes a spec, prepares or reuses a container, writes the source, runs
it, sends the result and cleans up; wrappers break, cleanups fail, the worker
restarts. A trigger is matched through a cache while data and trigger change in
transactions. A call of an endpoint is checked by its view, subscribes, waits
for the confirmation, queues its task and waits for one message; every greenlet
shares `channel_data` and `client_data`, and a late confirmation resets both.

### Access, Users, Pagination, Queries

`Access`: a request is asked, checked for the view, its object found among
those the caller sees, and checked for the object, in either version of the
API; the caller's groups are cached and a membership changes meanwhile.
`Entitled` states independently what the rights mean. `Users`: requests of both
versions lock, save, delete, reset and join in their different orders.
`Pagination`: the cursor arithmetic of links over a list that changes. A page of
Redis that misses expired objects marks the walk (`thinned`), also when the
client turns round on it: its links start at the wrong row.
`Queries`: validation and evaluation of conditions and nested queries, against
`Means`, the set of objects a query describes.

### Metrics, Metering, Billing, Subscriptions

`Metrics` moves uses from hashes to minutes to hours by two runners and two
kinds of tasks. `Metering` says what of that billing may rely on; `Billing` is
written against it: a metered hour becomes transactions, chunks of transactions
become invoice items, invoices are dispatched, charged, retried and confirmed by
events, plan changes and fees move rows of `Subscriptions`. An error after
Stripe's answer loses the answer and the retry asks again (`AnswerLost`).
`overtaken` has the invoices whose payment another step overtook; amounts and
single payment are claimed of all others.

### Hosting, HostingFiles, Push

Requests hold the hosting lock from their reads to their commit and appear as
one writer, an installation as another without the lock; SSL is changed by a
task and a refresh. `HostingFiles` has one path, its rows, its objects in the
bucket and the storage indicator, which is in another database. `Push` has APNS
devices with their count, and GCM devices with a message.

## Runs

| Run | Bounds | Shows |
|---|---|---|
| `codebox_queue` | 2 producers, 2 runners, 3 specs (one of priority), limit 1, queue limit 1, 1 killed worker or expired counter | `OnePlace`, `NoSpecDropped`, `NoLostWakeup`, `ConcurrencyLimit`: no spec is doubled or dropped without a killed worker, expiry or error; without an overshoot no push is missed |
| `socket_tasks` | 1 socket, 1 environment, 2 workers, 2 attempts, 2 requests, 1 fault | `NoObjectStuck`, `OkIsUpToDate`, and under fairness `EveryChangeSettles` |
| `scheduled_runs` | 2 runs, 2 due times, 1 lost or doubled message, 3 tries, list of 1 | `DispatchIsSound` (one run per dispatch key, no time passed over, the newest traces kept), and under fairness `RunsEndAndStay` |
| `channels` | 2 changes, a poller and a websocket (queue of 1), 2 faults, list of 1 | `FollowsRoom` (no gap, in order), and under fairness `CatchesUp` |
| `klasses` | 2 classes, 1 field with 2 index types, 1 socket, 2 edits, 1 failed statement or killed worker | `IndexesBacked`, `NoIndexLeft`, and under fairness `MigrationEnds` |
| `billing` | a month of 2 metered days and the next, 1 offer beside the builder plan, 2 plan changes or retries, 3 invoices, 1 fault; 2 hours of 2 minutes, 1 use, 1 fault | `InvoicesAddUp`, `OneFeePerMonth`, `UsageIsCounted`, and `ImplementsMetering`: `Metrics` implements `Metering` |
| `tenants` | 3 instance rows, 1 backup, 2 restores, 1 failure; 2 threads, 3 tenants, 2 commands, 1 fault; 1 account, 2 requests, 3 secrets; 2 people, 2 keys; 2 months, amounts 0..2 | `PlacesAreSound`, `SchemasMigrated`, `OldSecretsDie`, `InviteSpentOnce`, `BlockedForAReason` |
| `services` | 2 paths, 3 contents; 3 containers, 2 specs; 2 changes; 2 hostings, 2 domains, 4 writes; 3 objects; 2 devices, 2 editors, 3 edits, 2 tokens | `InstalledIsThere`, `OwnRunOnly`, `FiresOnce`, `SitesAreSound`, `FilesCounted`, `PushIsSound` |
| `requests` | 4 rows in pages of 1 or 2, 1 change; every caller, action and right, 1 move; 2 sessions, 4 requests, 2 groups; 1 + 2 objects, all queries of 2 conditions; 3 calls | `EveryRowOnce`, `GrantsAreCurrent`, `UsersAreSound`, `QueriesAreSound`, `ResultNotMissed` |
| `records` | 2 objects, 2 writers, 3 requests; 3 keys, 4 writes; 2 processes, 2 writes, 1 expiry, both databases; 3 files, blocks 3 deep, 1 fault | `NoLostUpdate`, `ObjectsAreSound`, `BackupIsFaithful`, `DefaultGetIsRecent`, `NoOrphanFile`, and `StoreSpec`: `TransactionHooks` implements `FileStore` |
| `tenant_cache` (violation) | 2 processes, 1 write, no expiry | `NoStaleEntry` fails on `instances`, see Findings |
| `notices` (violation) | 2 accounts, chunks of 1 | `DeletedWereWarned` fails, see Findings |

**Why the bounds suffice.** The races are between two actors at a time: two
runners at a limit of one, a writer and a reader, a lock holder and the message
that finds the lock taken, two restores of one instance, two greenlets and the
third that resets them. Two actors of a kind, a second object to confuse the
first with, and one fault reach each of them. Three specs are needed for one
running, one queued and one pushed at the wrong moment; three nested blocks for
an inner block inside one that fails inside one that succeeds; three instance
rows for one instance and the second instances of two restores. The theorems
below remove the bounds for the properties they cover.

**Deadlock** is not checked: requests, writes and specs are bounded, so every
model ends in states without a next step.

**Exceptions in a property** (`unless ...`) are history variables or
conditions that single out one known race of the code. What is stated holds in
all other behaviours, and the race itself is listed under Findings.

**Fairness.** `EveryChangeSettles` assumes weak fairness of `SendTask` (an API
process that has committed goes on to its post-transaction operations) and of
every worker's step (celery delivers messages to idle workers and runs what it
has started). `RunsEndAndStay` assumes the same of the tasks of a run and of an API
request that has begun, that the beat keeps starting `SchedulerTask`
(`ReadDue`, `Dispatch`) and that redis drops expired keys (`ExpireKey`); its
right side includes `Exhausted`, the states in which a bound of the model stops
the next dispatch. `CatchesUp` assumes that redis answers, that the listener and
every client's greenlet run and end at their timeouts, and, as strong fairness,
that the timer of an orphaned wait fires although resets and confirmations of
others go on around it. `MigrationEnds` assumes that the tasks under the instance's
index lock go on, that a waiting one gets the free lock and that redis expires
the lock of a dead worker (`LockStep`), and that a task that released it looks
again; it is stated for the time after the last fault and for classes for which
some index task is on its way, since a killed worker's class waits for the next
save of any class. Nothing else is assumed about faults, expiry or requests.

## Proofs

The theorems hold for every value of the constants that the named assumptions
allow (`...Assumption` in the module that declares them): sizes that are natural
numbers, names of "nothing" that are not among the things, finite sets where
something is counted. No theorem assumes more than TLC evaluates on the runs.

Every proof has the same argument: the initial states satisfy an inductive
invariant, each action keeps it (one lemma or step per action, under it one per
part that the action can disturb), and it implies the property. The invariants
were checked by TLC before they were proved.

Sums of usage and of file sizes, finite lists in order and the last row of a set
would be proved by induction over finite sets, which the provers cannot use. In its
place `Sums` has `SmallestSet`: of subsets of a finite set there is one with none
below it. So a claim that failed for some subset would fail for a smallest one, and
one step shows that it holds there. From it follow what a sum is after one term is
added, taken out or changed.

The proofs corrected two statements that held only within the bounds of their runs.
A payment retry and a run of the aggregator may each save a copy that the other has
outrun, so `OverageIsPaidItems` and `ChargedOnce` except the invoices in
`overtaken`. And a page of Redis short of expired objects
stays a wrong start when the client turns round on it and such an object is then
deleted: with two changes of rows and five keys TLC shows the rows that are missed.

**`CodeBoxQueueProofs`**
: `SlotInv`: the counter is the slots in use plus what expiries took; that is
  why a `can_run` that sees the limit exceeded is the only one that gives back
  what is not there. `PlaceInv`: each list has a spec once, published and in
  nobody's hands, and hands hold different specs; `OnePlace` says it of
  positions. `OutcomeInv`: a key is deleted only after the outcome was sent.
  `NoLostWakeup` is inductive with the types. For `ScheduledRuns`, `RunsInv`: runs
  are numbered as they start; a due time is dispatched exactly when its key is
  taken; as long as nothing went wrong (`TroubleFree`) exactly one thing is on
  its way to the next due time (`OneOnItsWay`), so none is passed over; and
  trimming keeps the newest ids of the index, since whatever is listed is not
  older than what is not (`TrimSound`). `FinalStatusStays` is an action property:
  no step but the expiry of a trace changes a final status.

**`KlassIndexesProofs`**
: `IInv`: the flags a class shows are indexed or being built, an index job works
  on what its row asks for, a purge has all indexes of its class ahead of it, and
  a job exists exactly while the lock is held. It gives `IndexesBacked`,
  `NoIndexLeft`, `FlagsIndexed` and the action property `FrozenWhileLocked`.
: `QueriesInv`: what was found so far is what the conditions taken so far mean, all
  of it unless a nested query was cut, and the nested query in work belongs to one
  of them (`InWork`). Negation, nested queries and references are each compared with
  `Means`.
: `PagesInv` is about a walk through a list. A cursor stands between the rows that
  match it and the rest, since values (null is last) and keys are in one strict order
  (`PairsOrdered`, `MatchAfter`). Whatever the client has seen of the rows that stayed
  does not match the link it follows, and all else does (`FrontSound`); the links
  back from the page match just what was seen before it (`BackSound`), for the turn.
  A page has the first rows of those that match (`PageIsSound`); that finitely many
  rows can be put in order is itself a lemma (`RowsCanBeOrdered`).

**`RecordsProofs`**
: `DefaultInv`: an entry is *fresh* if its version is the current one only when it
  is as new as the last invalidated write; a get in progress holds nothing less.
  `HooksInv`: which files the levels of nested blocks name and delete, on success
  and on failure: an operation registered at one level never concerns a row of a
  level that may outlive it. With it every step of `TransactionHooks` is a step or
  a stutter of `FileStore` (`HooksImplementFileStore`). `DataInv`: a request's
  copy is the row, or the row without what an older schema does not know; names
  are apart once the index is complete; files are in rows, on their way, or of a
  request that has not ended.

**`BillingProofs`**
: `MetricsInv`: until its task has read a minute's hash, every use that was in
  time is in it, and after it in the row (`MinuteSound`); an hour gets an entry
  only when the rows of its minutes are final, and has one task to its end
  (`HourSound`); before the runner there are no entries (`RunnerSound`). With it
  every step of `Metrics` is a step or a stutter of `Metering`
  (`MetricsImplementMetering`). For `Subscriptions` and `Billing`, `FeesInv`: the
  rows follow each other in the order of their ids (`Following`), one that has not
  begun starts with the next month, where a paid one that has begun ends
  (`Begun`), and the one fee invoice of this month is that of a plan which lasts
  to its end and is marked as charged (`FeesSound`, `Covered`). So a plan is
  started at once only if no fee was charged, and a fee is due for one row at
  most. All of it holds only until a plan is changed in the grace period; that
  this leaves a mark which is not removed (`GracedBegan`) is part of the
  invariant. It assumes that `Forever` lies after the bound of time. `AccountsInv`:
  the items of a month add up to its aggregated transactions after every chunk; the
  copies a run keeps have the amounts of their invoices (`CopySound`); and what
  Stripe has taken for an invoice is in its status or in the request that will save
  it (`PaymentSound`), unless the payment was overtaken.

**`TenantsProofs`**
: `InvitationsInv`: a key has let in nobody before, and one account after, it was
  accepted. `SecretsInv`: what is dead was drawn earlier, copies are of accounts
  that exist. `StandingInv`: marks and listings of this month have a reason.
  `TenancyInv`: which row names which place, by the stage of every restore,
  deletion and backup. The part that makes places distinct (`Calm`) needs that
  nothing has failed or raced; the part about live instances does not.
  `ArchiveInv`: the archive is what the snapshot has up to the last key written,
  the copy what the archive has up to the last key restored, and no row has the
  next key or a later one. `MigrationsInv`: no two threads have the same instance;
  a thread that set the shared loader last finds it as it left it, and one that
  did not is among the misled; every instance is in a job that is left, with a
  thread, or migrated.

**`ServicesProofs`**
: `ContainersInv`: files are in the container of the run only, and a spec that
  waits has no result. `TriggersInv`: an operation is registered, handled and sent
  once, for a match that is right as long as the trigger is left alone.
  `AppleInv`, `GoogleInv`: the count is the active devices plus the ghosts of
  overlapping requests, where every request that still believes in a device
  feedback removed is paid for by a ghost. `InstallInv`: an entry that was not
  emptied has the content of its checksum, and a script filed as a helper is
  misfiled. `HostingInv`, which holds until an installation overlaps another
  writer: what the one writer read is what is committed, what it saved fits it,
  the instance already lists the domains as they will be, and a check is about the
  domain its hosting still has. `FilesInv`: rows have objects of their own, an open
  request is about a new object or the live row, and the storage counted is that of
  the rows with the one being saved in the place of the live one (`BytesSound`).
: `StuckInv`: whoever is past `get_lock` owns the lock, and an object that matches
  a task's query has a message, a request that will send one, or a worker that
  will look again. Frame lemmas say what a worker's step leaves to the others.
  `FreshInv`: the copy a task works on is what was accepted last, since its lock
  and the row's status exclude other writers; hence what is OK was processed.

**`RequestsProofs`**
: `UsersInv`: who holds which of the two locks, and that what was read under a
  lock is what is there. `CallsInv`: a result of a waiting call is in its queue or
  behind its confirmation on the wire. `AccessInv`: the three checks of a request
  together are `Entitled` for a group membership it saw.
: `FollowInv` (`RoomInv`, `ConnInv`, `ClientsInv`) is about one room. An id belongs to
  one publication. A set event means that redis streams the room, unless an older
  confirmation set it (`stale`). In the stream and in every queue a change comes
  before a smaller one only if that one was overtaken (`late`). For each client:
  the cursor is the greatest id received; up to it nothing is missing (`Covered`);
  and what is newer than the id it asked with is in its queue or on the stream, or
  the client is no longer registered and nothing left in its queue passes that change
  (`Promised`). The last part is what makes the order subscribe, read the list, take
  from the queue safe. `InIdOrder` is a sequence defined by counting smaller ids,
  because the prover has no definition of the library's `SortSeq`.


**Only model-checked.** Liveness (`EveryChangeSettles`, `RunsEndAndStay`,
`CatchesUp`, `MigrationEnds`): TLAPS does not reason about `ENABLED` and weak
fairness. Every safety invariant, action property and refinement of the passing runs
is stated by a theorem.

## Findings

Shown by a run that TLC finds violated:

* `tenant_cache`: the invalidation of tenant models is registered with the
  default connection and happens before the commit; the old row can be cached
  under the new version for a day.
* `notices`: the warning goes to one chunk of accounts and the mark to one
  account more, which is then deleted without a warning
  (`analytics/tasks.py:381`; the same off-by-one in `MonthlySummaryTask`,
  `analytics/tasks.py:352`, and a discarded filter in `admins/tasks.py:29`).

Stated in the modules but in no run, because TLC refutes them:

* `CodeBoxQueue`!`QueueIsServed`: `can_run()` takes a slot and gives it back in
  two calls. While it overshoots, another task is refused a slot that is free,
  and a queued script may be left with no task on its way until the next push.
* `SocketLifecycle`!`AttemptsPerObject`: the attempt key is shared by all objects
  of a task kind; a socket can be failed "after max attempts" on its first.
* `KlassIndexes`!`ManagedOrDeleted`: when a socket is deleted while a class it
  manages is being migrated, its references are removed from an object that is
  never saved; the class is then never deleted.
* `Access`!`ListShowsReadable`: an ACL entry without `read` is listed
  (`core/signal_handlers.py:73`).
* `Queries`!`FewNestedQueries`: the counter of nested queries restarts
  (`data/validators.py:261`).
* `Containers`!`ContainerRecreated`: a replaced container is not cached
  (`codeboxes/runner.py:152`).
* `HostingFiles`!`FileThere`: a PATCH without a file deletes the object its row
  still names (`hosting/v1_1/serializers.py:177`).

Found by a proof that did not go through: with two failures a live instance can
lose its schema. A restore saves its old copy and so brings a deleted instance
back (`backups/site.py:190`); the pending deletion drops the schema before its
transaction fails (`instances/signal_handlers.py:13`), and its retry is lost. The
run, with one failure, does not reach it; `LiveHasPlace` now excepts an instance
whose own deletion broke off (`broken`).

Races that a property excepts, or that were seen while modelling:

* *Scripts.* A failed re-preparation after the result was sent runs the spec
  again (`runner.py:145`). A blocked run, a queue timeout and a missing script
  publish no result, and the client waits 300 s (`codeboxes/tasks.py:118,262`).
  `run_codebox_script` returns nothing for a path that is not in the file list
  (`sockets/v2/views.py:264`).
* *Sockets.* `add_file` with an empty file deletes the stored file and keeps its
  entry (`processor.py:133`). `update_trigger` and `update_schedule` never save
  the new script; the cleanup deletes the old one and cascades (`processor.py:638,712`).
  `update_script` looks a script up without its socket (`processor.py:274`).
  `check_environment` deletes an environment that another request starts to use
  (`sockets/v2/views.py:159`); an environment's archive is deleted before the row
  that names it is saved (`sockets/tasks.py:196`).
* *Locks.* `Instance.lock` is released before the transaction of the request
  commits (`codeboxes/v1/views.py:81`, `data/v1/views.py:89`, `sockets/v2/views.py:134`).
* *Cache and triggers.* The match cache of a trigger and the cached groups of a
  user are forgotten before the commit (`triggers/models.py:78`,
  `users/signal_handlers.py:54`). The invalidation of other locations is sent
  inside the transaction, once (`core/helpers.py:404`).
* *Storage.* The error operations of an inner block that succeeds are dropped
  although the block around it may fail (`core/signal_handlers.py:28`), so files
  can be left without rows; `GoogleCloudStorage.delete` bypasses the deferral
  (`core/backends/storage.py:155`).
* *Calls and channels.* A late subscriber's reset drops the channels of all calls
  (`async_tasks/handlers.py:95`). A confirmation sets the event of a later
  subscription of the same channel (`async_tasks/handlers.py:137`); `NoGap`
  excludes it by `stale`. A room is polled under its lower-case name and
  published to as spelled (`channels/v1/views.py:152`).
* *Classes and objects.* Index flags edited in place are saved without an index
  being built, the tracked copy sharing its elements (`core/abstract_models.py:223`).
  A request with a stale schema removes values of fields it does not know; a
  retried save counts its revision twice; removing `unique` keeps the physical
  index (`data/models.py:250`).
* *Instances.* `RunRestoreTask` marks itself aborted and goes on
  (`backups/tasks.py:57`). A failed creation or restore leaves its schema. The
  check for running backups is made before the lock (`backups/views.py:77`).
* *Backups.* The recorded migrations are read before the snapshot
  (`backups/site.py:88`). A partial restore maps keys but not references
  (`backups/options.py:146`). A file deleted after the snapshot fails the backup.
* *Migrations.* Threads patch the shared loader (`migrate.py:127`): an old schema
  is not migrated, or a new one has no migrations recorded, and the command
  succeeds. A new schema whose first migration broke off gets no initial data.
* *Billing.* A plan change in the grace hour with another one pending leaves
  overlapping subscriptions and two fees (`billing/views.py:346`). The aggregator
  saves a cached invoice with its old status (`billing/tasks.py:272`). A retried
  payment holds no lock, and a late `charge.failed` marks it failed
  (`billing/views.py:147`). An error after Stripe's answer rolls back and pays again
  (`billing/tasks.py:113`). `self.release_lock()` does not exist (`billing/tasks.py:187`).
* *Metrics.* An hour that is not covered when the runner passes is never summed
  up (`metrics/abstract_tasks.py:33`); a failed minute is not retried; a failing
  receiver marks an aggregated hour FAILED (`abstract_tasks.py:66`).
* *Accounts and users.* Views save whole rows of cached copies; tokens for reset
  and activation are interchangeable; version 2 joins an owner without a lock
  (`users/v2/serializers.py:90`); versions 1 and 2 lock user and profile in
  opposite orders (`users/v1/serializers.py:119`).
* *Hosting.* Installation and cleanup do not take the hosting lock; a lost SSL
  task leaves CHECKING; the CNAME is compared as a list with a string
  (`hosting/signal_handlers.py:46`).
* *Push.* Overlapping requests decrement twice; feedback does not decrement; a
  canonical id that is taken makes a delivered message an error.
* *Lists.* Links drop the `query` filter (`core/pagination.py:206`); a Redis page
  short of expired objects ends the list; a nested query is cut at its limit
  (`data/filters/lookups.py:211`).

## Not modelled

HTTP parsing and rendering, templates, snippets, batch requests, the control
panel and deployment: sequential and without shared state. The content of
scripts, sockets and messages: no property depends on it. The gRPC broker that
can replace the script queue (`process_grpc`) is a service outside the
repository. Calls to Stripe, GCM, APNS and Let's Encrypt appear as outcomes. The
clock is abstracted to expiry events and numbered times.
