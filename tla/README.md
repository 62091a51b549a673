# gohan in TLA+

gohan is a REST server generated from schemas. It keeps resources in a SQL
database, copies them to etcd for the workers that act on them, records in the
database what the workers report, and runs user code (Javascript or Go) at
events of a request and at changes of etcd. Several gohan processes form a
cluster that coordinates only through the database and etcd. This directory
models the parts where that coordination happens, checks them with TLC and
proves the central facts with TLAPS.

## Inventory of the system

| Part | Source | State | Operations | Who uses it |
|---|---|---|---|---|
| Cluster lock | `sync/etcdv3/etcd.go` | the lock key and leases in etcd, the map `locks` and one keepalive goroutine per lock in the process | `Lock`, `Unlock`, `HasLock` | sync writer, path watcher, state watcher, sync watcher, cron |
| Key-value layer | `sync/etcdv3/etcd.go`, `sync/sync.go` | keys and revisions in etcd | `Update`, `Delete`, `Fetch`, `Watch`, `CompareAndSwap`, `Compact` | all of the above |
| Transaction event logger | `server/transaction_event_logger.go` | rows of the event table, a counter per transaction | wraps `Create`, `Update`, `Delete`, `Commit` | every API transaction |
| Commit informer | `server/transaction_commit_informer.go` | the channel `transactionCommitted` | `Run`, `notify` | event logger; writes the key the sync writer watches |
| Sync writer | `server/sync_writer.go` | none of its own; holds the lock | `Run`, `run`, `Sync`, `syncEvent` | copies the event table to etcd |
| Resync | `server/resync.go` | none | re-emits events of all resources and runs `Sync` | command line |
| Path watcher | `server/path_watcher.go` | stored revision in etcd, `previousProcessedRevision` | `Run`, `consumeEvent`, recovery | runs extensions for changes in etcd |
| Sync watcher | `server/sync_watcher.go` | list of processes, priorities | watches the process keys, runs path watchers | load balancing |
| State watcher | `server/state_watcher.go` | none of its own; holds a lock | `iterate`, `StateUpdate`, `MonitoringUpdate` | records reports of workers |
| Scoped transactions | `db/db.go`, `db/sql/sql.go`, `db/sql/cached_transaction.go` | rows, version columns, cached results | `WithinTx`, `Create`, `Update`, `StateUpdate`, `Delete`, `Fetch` | every request and watcher |
| Resource management | `server/resources/` | none | create, get, list, update, delete, actions | HTTP API, extensions |
| Extensions | `extension/otto`, `extension/goplugin`, `extension` | the Javascript VM, registered handlers | `HandleEvent` | resource management, watchers, cron |
| Cron | `server/cron.go` | an in-process token per job | `startCRONProcess` | timers |
| Schemas and policies | `schema/` | the manager's tables | register, look up, match | everything |
| API, middleware, server, CLI, converter, tools | `server/`, `cli/`, `converter/`, `util/` ... | configuration | I/O and text | |

What is hard in this code, and therefore what the properties are about:

* **Leases.** The lock is a key under a lease. A process that stalls for longer
  than the lease is inside together with its successor, and hears of it only
  through the lost channel, which the users look at between two pieces of work.
* **Two stores.** A change is committed in the database and copied to etcd later
  by another process. Calls fail with unknown outcome and processes die between
  the two, at any of the steps commit, wake-up, write to etcd, delete the row.
* **At least once.** Watches are restarted at a stored revision, histories are
  compacted, reports arrive late, twice and out of order.
* **Read, then write back.** Transactions read a row and write back all columns;
  they deadlock and are tried again.
* **Timers.** A timer or a disconnecting client races the end of a script.
* **Shared maps.** The context of a request, the resource of its transaction and
  the entries of the query cache are Go maps that refer to each other; a handler
  or a retry that changes one changes the others.
* **Membership.** Every process derives what it has to watch from its own list
  of the processes, which it keeps from events.

## Modules

`LeaseLock` says what `Lock` and `Unlock` promise to callers: one holder, which
the service may drop while the user is still inside. `EtcdLock` is the code of
`etcd.go` and implements it. `SyncPipeline`, `PathWatcher` and `StateWatcher`
are written against `LeaseLock` (they extend it), so that they are checked
against a lock that can be lost and not against a perfect one. `SyncPipeline`
takes every step of `LeaseLock`; `PathWatcher` and `StateWatcher` leave out a lock
that is taken without an answer and a loss that is reported although the key is
still there. `Cron`
extends `EtcdLock` itself: it is the one caller with several users of a path in
a process, which `LeaseLock` does not promise anything about. `Resync` is one
more user of the pipeline of `SyncPipeline`, and `Request` runs in a
`CachedTransaction`.

| Module | Models | State ↔ code | Composition |
|---|---|---|---|
| `LeaseLock` | the promise of the lock | `holder`: whose key etcd stores; `inside`: between `Lock` and `Unlock`; `lost`: whose lost channel is closed | abstract |
| `EtcdLock` | `Lock`, `abortLock`, `Unlock`, `HasLock`, the keepalive goroutine | `key`, `live`, `granted`, `leaseProc`: etcd; `locks`: the map of the process; `pc`, `lease`: a call in progress; `ka`: a goroutine | implements `LeaseLock` |
| `Replication` | the copy moves forward through committed versions | `source`, `copy` | abstract |
| `SyncPipeline` | event logger, informer, sync writer, restart | `db`, `events`, `tx`, `api`: the database and its clients; `chan`, `informer`, `txKey`; `writer`, `pending`, `batch`: the writer's place, its watch, the listed events; `etcd`: the copy | extends `LeaseLock`, implements `Replication` |
| `PathWatcher` | `run`, `consumeEvent`, recovery, stored revision | `log`, `compacted`, `stored`: etcd; `pc`, `prev`, `cursor`, `cur`, `fetched`: a watcher; `view`: what the extension has seen | extends `LeaseLock` |
| `PathWatcher_proofs` | theorems about it | | |
| `ResourceState` | `WithinTx`, update, delete, create, `StateUpdate`, `MonitoringUpdate` | `row`; `phase`, `job`, `read`, `attempt`: a transaction; `reports`: keys of workers | |
| `ResourceState_proofs` | theorems about it | | |
| `StateWatcher` | `iterate` and `processEvent` around the handlers | `loop`, `inbox` | extends `ResourceState` and `LeaseLock` |
| `ExtensionCall` | `HandleEvent` of the Javascript environment | `main`: the calling thread; `guard`: the goroutine; `timer`, `closed`, `interrupt`: the channels | |
| `ExtensionCall_proofs` | theorems about it | | |
| `Cron` | the runs of a cron job in the processes of a cluster | `run`: where a goroutine of the timer is; `token`: what is in `jobLocks[lockKey]` | extends `EtcdLock` |
| `LockCron_proofs` | theorems about `EtcdLock` and `Cron` | | |
| `SyncWatcher` | `Run`, `processWatchLoop`, `runSyncWatches` | `members`: the process keys in etcd; `inbox`: the channel of a watch; `list`: `processList`; `watches`: what the path watchers were started with | |
| `SyncWatcher_proofs` | theorems about it | | |
| `Resync` | `Resync` and the command that calls it | `tool`, `found`, `emitted`: the tool and its transaction | extends `SyncPipeline` |
| `PipelineResync_proofs` | theorems about `SyncPipeline` and `Resync` | | |
| `CachedTransaction` | the query cache over a transaction | `cache`: `QueryCache`; `row`, `own`, `snapshot`, `locked`: the database as the transaction sees it | |
| `Request` | `CreateResource`, `UpdateResource`, `DeleteResource`, `resourceTransactionWithContext`, handlers | `ctx`, `data`: the context and the request's map; `shared`, `lent`: which values are the same Go map; `attempt`, `err`: the retry | extends `CachedTransaction` |
| `Request_proofs` | theorems about it | | |
| `SchemaManager` | `loadSchemaFromFile`, `reorderSchemas`, the two callers | `schemaOrder`, `complete`: `schemas` and `schemaOrder` of the manager; `todo`, `rest`, `passes`: the passes of `OrderedLoadSchemasFromFiles`; `at`, `prepared`, `registered`: the two loops; `stack`, `list`, `circle`: the recursion of `visitSchema`, `schemaList` and the error | |
| `SchemaManager_proofs` | theorems about it | | |

`MC*.tla` give the constants of the runs. The definitions called *Mutant* are
plausible mistakes in the code of the definition that follows them; each
property is shown to notice one.

### How the data is abstracted

* A lease is a number; the order of granting is its number. The path is fixed.
* The contents of a resource are the number of the write that produced them.
  Whether a body is written, ignored by `Update` (empty string) or refused
  (no `sync_property`) is the only thing known of it. The id that travels
  through channel and key is left out, since no one uses it.
* Only changes under the watched path have revisions in `PathWatcher`. The
  extension is what it stores elsewhere: the last value it saw for each key.
* The columns of a row are the set of the updates they show; an update that is
  overwritten is a missing number.
* In `Request` a field of a row is a number: 5 at first, 1 from the request,
  at least 100 from other processes, 10 more for a change in place by a handler
  and 50 for its update. Nested fields differ from plain ones in that their
  values are maps, which `updateResourceRecursion` merges in place and which may
  be shared; `Nil` is a field without one.
* A process of `SyncWatcher` is a number in the order of the process ids, so
  that the sorted list is a set and a position is a rank.
* A schema of `SchemaManager` refers to at most one other, as its parent, by a
  relation or by extending it, so the search branches only where a base adds a
  second reference; what `visitSchema` visits next is the lowest number, where the
  code goes through the properties first and the bases then. All declarations over the given schemas and files
  are initial states.
* A call that fails is either not executed or executed without an answer; so may
  a commit be. The `EtcdLock` runs allow any number of failing calls, the others count them.

### External parts

etcd (leases, transactions, watches, compaction), the database's isolation
level *serializable* as shared and exclusive row locks with deadlocks, the
workers, and the death of processes are modelled from how the code uses them.
`CachedTransaction` has the consistent and the locking reads of InnoDB at the
isolation levels *read committed*, *repeatable read* and *serializable*: a plain
read at *repeatable read* sees the version of the first one, a locking read the
latest, and a row that is locked or was read at *serializable* is not changed by
others. A request other than the one modelled is such a change.
In `ResourceState` the handlers may be given any report at any time: after a
takeover or a reopened watch nothing orders them, and the tests call them
directly. A report may name any version and may lack its text. That the loop around them does not deliver is the subject of the run
`state_watcher`.

## Runs

| Run | Result | What it shows |
|---|---|---|
| `etcd_lock` | holds | Safety, refinement of `LeaseLock` and liveness of the lock: a live lease backs its user (`LockBackedByLease`), two users inside are never both backed (`FencedMutualExclusion`), the map entry is the present lease (`EntryIsCurrent`), a lost lease is reported (`LossIsReported`), and an abandoned key goes away (`AbandonedKeyIsReleased`). |
| `sync_pipeline` | holds | No crash, failed call or takeover after a crash forgets a change (`NoChangeForgotten`) or shows an older version again (`CopyMovesForward`). |
| `sync_pipeline_live` | holds | Without crashes and expired leases all writable changes reach etcd, unless the answer of the last commit was lost (`UndisturbedChangesSynchronized`); with an expired lease the stale writer is told and leaves (`StaleWriterLeaves`). |
| `resync` | holds | With the resync tool working beside a sync writer and without the lock, no row is removed before its change was applied (`AppliedBeforeRemoved`); when the tool has ended and nobody else has written meanwhile, etcd has every resource as it is in the database, also one that was lost there (`ResyncRestores`). |
| `path_watcher` | holds | A change below the stored revision has been handled or given up (`NoEventSkipped`), the stored revision never goes back (`StoredNeverGoesBack`), and recovery after an expired lease lets the extension see the last value (`ViewConverges`). |
| `resource_state` | holds | No update is lost (`NoUpdateLost`), the state version never goes back (`StateNeverGoesBack`), a state that has reached the config version stays until the next update (`SettledStateIsFinal`), and no text is shown under a version before its own (`RecordsBelongToVersions`), whatever versions the reports name. |
| `state_watcher` | violated | The finding below. With `Watched` true of every key, as a watch on the prefixes of the reports would be, TLC finds no violation of the same instance. |
| `extension_call` | holds | An interrupt hits only the call it was meant for (`OnlyOwnInterrupts`), and a call returns unless its timer or its client was chosen just as its script ended (`CallsReturn`). |
| `cron` | holds | A process has the token or one run of the job has it (`TokenOrRun`); the job runs once in the cluster while no lease expires under it and no run overtakes the `Unlock` of the one before (`JobRunsOnce`); a running job loses its key only to its own process (`KeyLostOnlyToMate`). |
| `sync_watcher` | holds | A list whose events are handled is the registered processes (`ListIsCurrent`), then every key has one master and the others wait for different times (`OneMasterPerKey`), and in the end those alive share the keys evenly (`BalancedEventually`). |
| `request` | holds | The cache gives a locking read the latest version and a plain one what the database would give it, or the latest (`CachedReadsAreCurrent`); a request undoes no committed change (`NoUpdateLost`), answers with what it has committed (`ResponseIsCommitted`), and a retry neither fails by an old exception (`NoStaleException`) nor starts with other plain fields (`RetriesStartAlike`). |
| `schema_manager` | holds | `reorderSchemas` is a topological sort that gives up exactly on circles (`ReorderIsTopological`), a schema is registered after those of its file it refers to although files fail and are loaded again, and unless `LoadSchemasFromFiles` fails after its parent (`OrderFitsTables`), what a successful load leaves out is known (`LoadedIsComplete`), and the passes load all files that need one another no deeper than there are passes (`OrderedLoadFindsOrder`). |

### The finding

`iterate` of the state watcher opens its watch on the key of its own lock.
Reports of workers are not delivered to `processEvent`, against "Gohan will read
this information and update the database accordingly" (`docs/cli.md`).

### Limits that are conditions of properties

The properties below hold only with the condition named, and TLC gives a
counterexample without it. Each is a place where the code does less than a
reader might expect.

* *The lock.* The keepalive goroutine of an earlier `Lock` removes, in its
  deferred `abortLock`, whatever entry the map has for the path, also that of a
  later `Lock` of the process: `HasLock` then denies a lock the process owns, and
  its goroutine stops renewing. The user is told through the lost channel
  (`LossIsReported`), so `EntryIsCurrent` speaks of the entries there are.
* *The pipeline.* The wake-up of the sync writer is in memory until `notify` has
  written its key; a process that dies before leaves an event that waits for the
  next commit of the cluster. A commit that the database has executed but answered
  with an error sends no wake-up at all, and its rows wait likewise (`unheard`). An
  event whose body lacks the `sync_property` ends
  every pass, and later ones wait behind it. `Update` ignores the empty string,
  so a `sync_plain` resource that becomes empty keeps its old contents in etcd
  (the body `"empty"` of `SyncPipeline`, which no run of this directory uses). A
  writer whose lease has expired finishes its pass and may overwrite what its
  successor wrote. `UndisturbedChangesSynchronized` and `NoChangeForgotten` are
  about histories without these.
* *Resync.* Beside a cluster that is written to, the tool may publish contents
  it has read before a change, with events of later ids; a sync writer and the
  tool may rewrite a change the other has passed; the error of logging an event
  is not looked at, and that resource is skipped; a key a race has left of a
  deleted resource stays; the wake-up of its commit reaches nobody. These are
  the conditions of `ResyncRestores`.
* *The path watcher.* `fetchStoredRevision` takes every error for "nothing
  stored", and the changes since the stored revision are skipped. A watcher that
  started without a stored revision stores without a comparison, so it and an
  expired lease together may set the revision back. Both are what `blind` stands
  for in `NoEventSkipped` and `StoredNeverGoesBack`.
* *The state watcher.* `StateUpdate` compares the version of a report with the
  state version only. A report beyond the config version, or about a resource that
  had the id before, is recorded, and the state version is then ahead of the config
  version, whatever the title of a test says ("Should ignore status updates beyond
  the most recent config version", `server/state_watcher_test.go:145`; its body
  sends the same version twice). No property claims the contrary. A state report
  without a text advances the version and leaves the text of an earlier one (`<=`
  in `RecordsBelongToVersions`).
* *Extension calls.* When the timer fires or the client disconnects just as the
  script ends, the goroutine of `HandleEvent` has taken the other branch of its
  select, and `successCh <- true` waits for ever (`CallsReturn`).
* *Cron.* A run returns the token before it calls `Unlock`. That `Unlock` takes
  the entry of the map and deletes the key by the process id, be they those of
  the next run of this process, and then another process may run the job at the
  same time (`overtaken` in `JobRunsOnce`). The lost channel is not looked at, so
  a run whose lease has expired goes on beside its successor (`expired`).
* *Requests.* Nested values of an update are merged in place into the fetched
  resource, so a cached result shows them before the row is written (`touched` in
  `CachedReadsAreCurrent`). At *repeatable read* a plain read that the entry of a
  locking one answers sees the row as it was locked, where the database would show
  the earlier snapshot (`NewerThanSnapshot`). The copy of the context is shallow: what the handlers
  of a create change, and nested fields the resource did not have, stay changed
  in the next attempt (`RetriesStartAlike`). Updates at *read committed* or
  *repeatable read* without a locking policy may undo a committed change
  (`Guarded`); the default for writes is *serializable*.
* *Schemas.* `registerSchema` puts a schema into the map and the order before it
  looks for the parent, and leaves it alone when its file is tried again. So
  `OrderedLoadSchemasFromFiles` may succeed with a child that is registered before
  its parent, in a file listed later, and has neither parent nor URL; the comment
  at `schema/manager.go:306` promises the "right order - first abstract then parent
  and rest on the end". `OrderFitsTables` and `LoadedIsComplete` speak of parents
  for `LoadSchemasFromFiles` only, and `OrderedLoadFindsOrder` of success and not
  of the order. A file with a circular reference, a schema related to itself included, loads
  without an error and registers none of its concrete schemas
  (`LoadedIsComplete`).

### Bounds, and why they are enough

* Two processes: every interaction here is between a holder and one successor or
  one stale predecessor. Resource transactions use three clients, so that a
  third may read while two deadlock.
* `EtcdLock`, 2 leases: an old and a new lock of one process, or the locks of
  two. The safety properties are proved for any number.
* `SyncPipeline`, 3 events on 2 resources, 1 failing call, 1 crash: a listed
  batch with two versions of one resource and a bystander, interrupted once and
  taken over. The channel has room for one value, so the send blocks and drains
  happen. The liveness run has 2 events on one resource, a failing call and an
  expired lease. The safety properties are proved for any number.
* `PathWatcher`, 2 writes of one key and one of each disturbance, from an empty
  and from a known stored revision. A touched key counts as a third change
  (`MaxLog` ends the exchange of two watchers that touch the key for each other
  while the stale one has not heard of its loss).
* `ResourceState`, 3 config versions, 2 reports, 2 lives of the id, 1 retry:
  a report may be about an earlier, the present, a coming or a dead version, with
  or without a text. `StateWatcher` has one report. Proved for any number.
* `Cron`, two runs in one process and one in another, one lease each: a run and
  its follower, and a competitor. `Lock` does not wait here, so a run needs one
  lease at most. Proved for any number.
* `Resync`, one process and the tool, two resources, 3 events, 1 failing call, a
  body that can be written and one that cannot: an event that waits, the one the
  tool emits, and a change beside it. Crashes and expiries are left to
  `sync_pipeline` and `sync_pipeline_live`. Proved for any number.
* `SyncWatcher`, 3 processes and 4 keys, so that the shares differ by one, and
  one disturbance of any kind. The safety properties are proved for any number.
* `Request`, 2 fields (one nested), 2 changes by others, 2 retries, 3 effects of
  handlers in all: an effect in each attempt, or a read, a change and an
  exception in one. Proved for any number.
* `SchemaManager`, 3 schemas in 2 files and 2 passes; the code has 8. With two
  files the second pass loads the one that had to wait. Three schemas make a
  circle through a third, and a base with an heir and a bystander. Proved for any
  number.
* `ExtensionCall`, 3 calls: an interrupt left behind by one would hit the next.
  Proved for any number.

Deadlock is not checked: clients, users and workers may stop at any time, and
the bounds end every behaviour. Symmetry (clients; processes and resources) is
used in runs without liveness only. Type invariants that no run lists (of
`EtcdLock`, `PathWatcher`, `Cron`, `SyncWatcher` and `SchemaManager`) are theorems.

### Fairness

* `EtcdLock`: a call in progress and the goroutines run, and etcd expires a
  lease that no goroutine renews. Nothing makes a user call `Lock` or `Unlock`.
* `SyncPipeline`, `PathWatcher`, `StateWatcher`: the goroutines started by
  `startSyncProcesses` run, a dead process is started again, abandoned keys are
  dropped and lost leases reported; the last two are what `AbandonedKeyIsReleased`
  and `LossIsReported` show of `EtcdLock`. `Lock` polls until it gets the lock,
  which is free again and again; with two processes that both poll, taking it is
  strongly fair. Clients have no fairness.
* `SyncWatcher`: `Run` and the loop go on, a cancelled path watcher stops, a
  cancelled watch ends even if events keep coming, etcd ends leases nobody
  renews, a lost lease is reported. Disturbances have no fairness; they are
  bounded, which is the "once processes stop dying" of the property.
* `Cron`, `Resync`, `Request`, `SchemaManager`: safety only.
* `ExtensionCall`: threads run, timers fire, the VM looks at its interrupt
  channel. Nothing makes a script return.

## Proofs

For every value of the constants:

* **`LockCron_proofs`**, the lock (with one user per process, `OneUserPerProcess`):
  `TypeCorrect`, `LeaseBacksLock`, `MutualExclusion`, `EntriesAreCurrent` and
  `Refinement` of `LeaseLock`. The inductive invariant adds to `LockBackedByLease`
  that leases were granted (`LeasesGranted`), that the key's lease is alive
  (`KeyIsLive`), that a call works with a lease of its own process (`LeaseIsOwn`)
  and that the key belongs to some user (`KeyHasUser`): an `Unlock` that deletes
  by process id is harmless only because the key of that process can be no other
  user's. `EntryIsCurrent` needs that a user's entry is its present lease until
  `abortLock`. The refinement needs in addition that a lease that has just been
  granted has no goroutine yet (`FreshLeaseQuiet`).
* **`ResourceState_proofs`**: `StateTypeCorrect`, `UpdatesAreKept`,
  `RecordsAreConsistent`, `StateIsMonotone`, `SettledStatesStay`. The invariant `ReadersAreCurrent` carries them: what a
  transaction has read is still the row when it writes, and the check it made on
  the row still holds. Nothing is assumed of the versions the reports name.
* **`ExtensionCall_proofs`**: `CallTypeCorrect`, `OwnInterrupts`. A call that
  has returned successfully has a goroutine that is gone through `successCh`, so
  at most one goroutine is waiting or interrupting, and it is the current call's
  (`OneGuard`, `InterruptIsOwn`).
* **`PathWatcher_proofs`**: `WatcherTypeCorrect`, `NothingSkipped`,
  `StoredIsMonotone`, for any number of processes, keys, failures, crashes,
  expired leases and compactions. The types need that the event a watcher handles
  is in the log (`PlacesOK`), and that the last change of a key exists
  (`LastRevision`, from the well-foundedness of `<`). `NoEventSkipped` needs, for
  every watcher, that all up to its own previous revision is done and that its
  next event is the one after it (`NextInv`). `StoredNeverGoesBack` follows from
  that where the compare-and-swap protects; as long as no lease has expired it
  follows from there being one watcher outside `lock`, whose event is after the
  stored revision (`SoleInv`).

* **`PipelineResync_proofs`**, the pipeline, for any number of processes, resources,
  events, failures, crashes and expired leases, also when the answer of a commit, of
  a deletion or of the notification is lost. The argument has three layers.
  `RowsInv` holds whatever happens, also beside the resync tool: an open
  transaction has the numbers that follow the committed ones and keeps others away
  from its resources (`OpenOK`, `RowLocks`), the rows of the table are committed
  writes (`RowsOK`), and a writer that is about to delete a row has applied it
  (`AppliedFirst`). `TableInv` adds what holds as long as only transactions log
  events: ids and numbers of the rows of a resource agree in order, and the last
  row is what the database has (`TableOK`). `TableCorrect`,
  `PipelineTypeCorrect` and `RemovedWereApplied` follow. `SoleInv` holds until a
  lease expires: one writer is inside (`Exclusive`), its list is a part of the
  table with all that precedes each of its events (`BatchOK`), and the rows of a
  resource reach without a gap to its last write, etcd not being ahead of them
  (`RowsReachEnd`). From both follow `ChangesRemembered`, that is
  `NoChangeForgotten` as long as `expiries = 0`, and `CopyRefinesReplication`, the
  refinement of `Replication` where `MaxExpiries = 0`. After an expiry two
  writers work side by side and a stale one may write an older version over a
  newer one, so both hypotheses are needed. `ChangesRemembered` also assumes
  `"empty" \notin Bodies`: `sync.Update` does not write an empty value, so the
  empty string of a plain schema never arrives.
* **`PipelineResync_proofs`**, the resync tool: `ToolCorrect`,
  `RemovedWereAppliedBesideTool` and `ResyncRestoresEtcd`, for any number of
  processes beside the tool, resources, events, failures, crashes, expired leases
  and runs of the tool. An event of the tool repeats the number of the write it
  restores, so `TableOK` is lost; the argument goes by ids instead. `ToolInv` adds
  to `RowsInv` that the tool has listed and logged contents the resources have had,
  each once (`EmittedOK`). While it is alone (`AloneInv`), what it has logged comes
  after all rows there are and all rows a stale or a lawful writer has listed
  (`LogOK`). Once it works on the table, the rows of a resource, in the table and
  in the tool's own list, end with what the database has (`EndsWell`); any list
  that reaches to that end is complete (`Complete`), so that whoever deletes the
  last row has left the right contents in etcd (`Agrees`), unless the tool has
  still to write them; and a resource without a row left is as in the database
  (`KeyOK`). `ResyncRestoresEtcd` assumes `"empty" \notin Bodies` as above.
* **`LockCron_proofs`**, the cron jobs: `CronCorrect`, `TokenIsKept`, `JobIsExclusive`,
  `KeyIsLostToMate`, for any number of processes, runs and leases, with calls of
  etcd failing or not, and without `OneUserPerProcess`. A step of the jobs is a
  step of the lock or leaves it alone, so its types are
  those proved of the lock. The invariant says which steps of `Lock` and `Unlock` a
  run may be at (`RunMatches`), that the token is in the channel or with one run
  (`OneToken`), that leases and map entries belong to the process that uses them
  (`OwnLease`, `OwnEntry`), that a process has one run until one is `overtaken`
  (`OneRun`), and that a run inside has the key until a lease has `expired`
  (`RunHasKey`).
* **`Request_proofs`**: `RequestCorrect`, `RequestTypeCorrect`,
  `CachedReadsCorrect`, `ExceptionsAreFresh`, `NoUpdateIsLost`,
  `ResponseIsWhatIsCommitted`, `RetriesAreAlike`, for any set of fields and any
  number of retries, effects of handlers and commits of others. The invariant
  relates the cache to the locks and the snapshot that justify its entries
  (`CacheOK`), with which a locked entry stays the latest version and any other what
  a plain read sees (`EntriesCurrent`), the step of the request to its transaction and context
  (`PhaseOK`), and, once the resource has been read, the row to what the request
  will write (`ReadIsLocked`, `UpdateOK`, `DeleteOK`, `ResponseOK`). The step that
  matters is `FetchFacts`: a guarded fetch ends with the row locked and the latest
  version found, also when the cache answers instead of the database.
* **`SyncWatcher_proofs`**: `WatcherCorrect`, `WatcherTypeCorrect`,
  `ListsAreCurrent`, `PrioritiesAreShared`, for any number of processes, keys and
  disturbances. The invariant `EventsForetell` says of an open watch that the last
  waiting event about a process, or else the list, tells whether the process is
  registered, unless an error waits that ends the watch. The priorities need two facts more:
  the positions of the sorted list are a bijection onto `0 .. n - 1`
  (`PositionsAreAll`, an injection between finite sets of one size), and so is a
  rotation modulo `n` (`Rotation`).
* **`SchemaManager_proofs`**: `LoadCorrect`, `SchemaTypeCorrect`, `ReorderCorrect`,
  `OrderCorrect`, `LoadedCorrect`, `OrderedLoadCorrect`, for any number of schemas,
  files and passes, any declarations and any order of the files. The recursion of
  `visitSchema` is a stack in the model, so that its correctness is an invariant
  (`Search`): the list is sorted, the stack is a path of references among schemas
  that are not in the list, and both are in the file. A list that is sorted and has
  all schemas leaves no room for a circle (`SortedNoCircle`, by the least place of
  a schema of the circle), and a reference into the stack closes one
  (`StackCircle`). `LoopsOK` says that what the two loops have passed is
  registered, which puts every schema after those it refers to (`NextOfList`);
  `TablesOK` that a schema which found its parent follows it, which with one pass
  and no error is every concrete schema;
  `FilesOK` that a file is loaded or still to be tried. For
  `OrderedLoadFindsOrder` the files are given levels such that each needs only
  lower ones (`Nested`). Then a pass leaves only files of a level above its number
  (`LevelOK`): when a file of the lowest remaining level is loaded, all it needs is
  registered (`LowerRegistered`), and it fails neither in the first loop
  (`NoBaseError`) nor in the second (`NoRegisterError`).

The assumptions are the named `ASSUME`s on constants, which TLC evaluates in the
runs, and the hypotheses named above. What only TLC checks:

* liveness under fairness, which is out of the prover's reach: `LossIsReported`,
  `AbandonedKeyIsReleased`, `UndisturbedChangesSynchronized`, `StaleWriterLeaves`,
  `ViewConverges`, `CallsReturn`, `BalancedEventually` (and `StateReportsHandled`,
  which TLC refutes).

Every safety property of the passing runs, invariant, action property or refinement, is
also a theorem.

## Not modelled

* The tree `Fetch` builds from keys, JSON, SQL text, filters, listing and
  pagination, templates, the converter, the command line client: conversions.
* Keystone, HTTP routing, migrations, metrics, logging: I/O.
* Policies: conditions over request data. In `Request` their verdict is one of
  the errors a step may end with.
* Go plugins, the registry of environments, the built-in functions of scripts:
  what a handler may do to a request is in `Request`, the rest is binding.
* Namespaces (with the error of `registerSchema` for one that is missing), included
  files and the lists of policies and extensions of the
  schema manager, which a file loaded again appends once more; `UnRegisterSchema`.
* The state and monitoring keys that the sync writer removes with a resource.
* Vendored and generated code, mocks and test frameworks. All the Javascript of
  the repository is of this kind: the bundle of the web UI
  (`public/webui/bundle.*.js`) is the output of a bundler over third-party
  libraries, and the other three files are an example and two load generators.
  The program's own logic is in Go, and that is what the modules translate.

## Plan

1. *Done:* the lock and its promise; the pipeline to etcd; the path watcher; the
   resource row under transactions and reports; the extension call.
2. *Done:* `Cron` over `EtcdLock` with several users per process; `Resync` beside
   the sync writers; `SyncWatcher`; `CachedTransaction` and the requests that run
   in it, with retries; the order of schema registration.
3. *Done:* the proofs about the path watcher, the pipeline, cron jobs, requests and
   the sync watcher; about the resync tool and the schema manager.
4. The removal of state and monitoring keys; server stop, where the informer ends
   while requests drain and commits may block on the full channel.
