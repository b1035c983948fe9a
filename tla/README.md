# TLA+ verification of rusty-weather

This directory holds TLA+ modules that model parts of rusty-weather, the TLC
configurations that check them on small instances, and TLAPS proofs of the most
important results for all instances. The models follow the Rust code, not its
documentation; where a document, comment or test says something else, a run
shows the disagreement (see *Findings*).

Four parts are modelled, the ones that keep durable state, change it from
several threads or processes, and restart after crashes:

* the **scheduler host** (`crates/rw-scheduler`), which writes job state, run
  directories and the public origin catalog unattended and deletes data;
* the **job manager** of the server (`crates/rw-server`, `jobs.rs`);
* **generation replication** (`crates/rw-generation-replication`), together with
  the scheduler that claims directories of the same store;
* the **control plane of the community relay** (`crates/rw-community-relay` and
  `rw-server/community_relay.rs`).

## 1. The system

rusty-weather downloads numerical weather model cycles, radar and satellite
data, stores them in a local run store, and serves them to browsers, a desktop
interface and other nodes.

| part | code | state | what makes it hard |
|---|---|---|---|
| scheduler host | `rw-scheduler/executor.rs`, `main.rs` | job files, run directories, `origin-catalog.json`, tombstones; per pass: record map, chunk threads | crash between durable steps, shutdown during a chunk, one capacity for three kinds of records |
| job records | `rw-scheduler/state.rs` | state, attempts, retry time | recovery must give an interrupted attempt back |
| hour pool | `executor.rs` `ingest_hours`, `ConcurrencyGate` | queue, failure flag, first error, permit counter | worker threads of several jobs share one gate and one disk budget; panics |
| origin lanes | `origin.rs`, `coverage.rs` | active and previous generation per lane | published runs that lose data |
| retention | `retention.rs` | deletion plan, ownership marker, tombstone | deletes while others publish |
| run store | `rw-store` | `run.json`, hour files, writer lock, generation counter | several writers, readers without locks |
| generation replication | `rw-generation-replication` | uploads, publications, tombstones and retirements in one state file; chunks; run directories | requests of several mutex sections, an expired right, publication by rename into the namespace of the scheduler |
| server jobs | `rw-server/jobs.rs`, `routes.rs`, `state.rs` | job records, content-addressed artifacts, permits, cancellation flags | cancellation against completion, a deadline that leaves a closure running, collection against publication |
| server catalog view | `rw-server/origin_catalog.rs` | cached catalog with a maximum age | reads what the scheduler rewrites |
| server caches, prewarmers | `rw-server/*_cache.rs`, `*_prewarm.rs` | byte-bounded caches | concurrent fills and evictions |
| radar and satellite followers | `rw-sat`, `rw-glm`, `rw-server/*_ingest.rs` | rolling window, cursor | restart in the middle of a window |
| community relay | `rw-community-relay`, `rw-server/community_relay.rs` | seeds, sessions, a monthly ledger of bytes, their snapshot; grants and routes in memory | months that end during a transfer, writes that fail, a snapshot that is checked at the next start |
| federation, protocol, query, science, rendering, interface | other crates | none that is shared, or numeric | outside of model checking |

How the parts interact: the scheduler asks providers for the newest cycle,
creates one job per cycle, runs `rw-ingest` for every forecast hour through the
hour pool, validates the stored run, publishes the newest valid runs of each
lane in the catalog, and deletes old runs that nothing refers to. Replication
accepts generations from other nodes in chunks and publishes them by renaming a
directory into the same store. The server answers queries from the store, runs
long ones as jobs that leave an artifact, and brokers transfers of archived
objects between clients through the relay.

Properties that matter, from the code and its documentation:

* a job is neither lost nor run for ever; a restart does not cost an attempt;
* what the catalog publishes is stored, complete as published, and has a job
  record to repair it with;
* retention never deletes what is published or still being worked on;
* the backlog and the number of state files stay bounded;
* an ingest call that reports success has stored every hour;
* a job of the server ends once, and its artifact lives as long as its record;
* the rights in a replicated generation go one way, and its files follow them;
* the relay's ledger survives every restart and never forgets a transfer.

## 2. Modules

| module | models | lines of the source |
|---|---|---|
| `JobRecords` | a job record and the operations on it | `state.rs` 74-332 |
| `JobLifecycle` | the abstract life cycle a job goes through | abstract |
| `OriginLanes` | coverage, lane selection, protection, retention planning | `coverage.rs`, `origin.rs`, `retention.rs` 117-174 |
| `SchedulerHost` | passes of the host, chunk threads, publication, retention | `executor.rs` 793-1276, `retention.rs`, `state.rs` 432-459 |
| `HourIngest` | the worker pool of `ingest_hours` and the gate | `executor.rs` 1278-1462 |
| `IngestContract` | what `execute_running` relies on from `ingest_hours` | abstract |
| `RetryDelay` | exponential backoff with jitter on bounded integers | `state.rs` 59-71, 212-273, `executor.rs` 1467-1495 |
| `ServerJobs` | job manager, tasks, closures and permits of the server | `jobs.rs` 122-567, `routes.rs` 2678-2830, `state.rs` 358-404 |
| `Replication` | the replication service, and the scheduler's claims on its directories | `rw-generation-replication/lib.rs` 240-2392, `retention.rs` 218-402 |
| `GenerationRights` | the life of the rights in a generation | abstract |
| `Relay` | coordinator and broker of the relay, with the snapshot | `control.rs` 524-1993, `community_relay.rs` 129-750 |
| `MCSchedulerHost`, `MCRetryDelay`, `MCReplication`, `MCRelay` | values of the constants for TLC | |
| `SchedulerHostProofs`, `HourIngestProofs`, `RetryDelayProofs`, `ServerJobsProofs`, `ReplicationProofs` | theorems | |
| `RelaySums`, `RelayLedgerProofs`, `RelayProofs` | sums of the relay's ledger, what its operators preserve, theorems | |

`SchedulerHost` is the composition: it extends `JobRecords` and `OriginLanes`
and runs them under one pass of `run_once_at`. `HourIngest` refines the three
ingest steps of `SchedulerHost` (`IngestHour`, `IngestFails`, `IngestReturns`):
its contract, `IngestContract`, is what those steps assume.

### State and actions of `SchedulerHost`

| variable | code |
|---|---|
| `jobs` | the record files of `JobStateStore` |
| `dirs` | run directories: absent, empty, unowned, owned; `run.json`, valid hour files, an off-plan time |
| `catalog` | `origin-catalog.json` |
| `tombs` | `.rw-scheduler-delete-<run>-<pid>` directories |
| `pc`, `fresh`, `recs`, `runnable`, `doomed`, `prunable` | local variables of `run_once_at` and `execute_retention` |
| `stage` | where the thread of each job of the current chunk is in `execute_one` |
| `cancelled`, `pid` | the shutdown flag and the process id |
| `upstream`, `faults`, `tampered` | the world: newest cycle served, faults spent, runs touched by others |

One action is one durable write, so that a crash can fall between any two. The
sequence of a pass is `StartPass`, `RecoverRunning`, `AdmitDiscovered`,
`PersistAdmitted`, `ClassifyRecord`, then for each chunk `StartChunk`, the steps
of `ExecuteOne` in parallel, `ChunkEnds`; then `RefreshCatalog`, `RetainRun`,
`SweepTombstone`, `PruneState`, `FinishPass`. Every `?` of the code that leaves
`run_once_at` is a step to `EndPass`, which forgets the memory of the pass.

Abstractions: a run (model and cycle) is a number in job id order; an `Option`
is a set with at most one element; a provider is the newest cycle it serves; a
backoff time is over or not over (`retry_due`); the hour file and the manifest
entry of an hour are one step, because readers only use hours the manifest
lists. A save is atomic because `durable_atomic_write` renames a synced file;
the one place where its temporary file is visible (the ownership marker, which
is written inside the directory whose emptiness is tested) is modelled.

Faults: `discovery` (a probe fails or an older cycle is returned), `space`
(a space check fails), `ingest` (an hour fails), `shortfall` (an embedder
returns incomplete coverage), `lock` (the writer lock is held), `crash`,
`cancel`, and what happens to the store from outside: `loss` of an hour file,
`removal` of a run, an `extra` hour outside of the plan.

### State and actions of `HourIngest`

Every worker thread is at one of the points between two accesses to shared
state: `Poll` (the flags), `Pop` (the queue), `Acquire` (the gate), `SeeFailure`,
`CheckSpace`, `IngestHour` (which may also fail or panic), `Recheck`, `Fail`.
`Return` is the join of `thread::scope` and the evaluation of the outcome. A
permit is released whenever the thread leaves the scope of `_permit`, by return,
error or unwinding.

### `RetryDelay`

The arithmetic is that of the source with the widths as constants: saturation at
`U64Max`, the wide sum of the jitter, the cast back and the second cap. TLC uses
7-bit integers and eighths instead of percents, so that every boundary is hit.
The policies are those that `RetryPolicy::validate` accepts, with any ceiling up
to `U64Max`. `Recorded` is `finish_failure_with_delay` with its three answers. A
failure that is refused leaves the record running, and `RecoverAttempt` of the
next pass gives the attempt back. `DelayAccepted` says when that cannot happen:
whenever the time leaves room for the delay. It does happen for a ceiling so
large that the delay does not fit in a timestamp; close to `u64::MAX` the cast of
the jittered delay may also wrap to zero, which refuses even the last attempt.

### `ServerJobs`

`status`, `updated` and `artifact` are the job records (the memory and the file
change in one section of `inner`), `objects` the content-addressed artifacts,
`guard` the holder of `objects_guard`, `token` the cancellation flags, `permits`
the semaphore and `busy` the closures that hold one. `pc` is where the request
that creates a job, and then its task, is: `PruneRecords`, `CollectObject`,
`Admit` are `create`; `MarkRunning`, `AcquirePermit`, `Timeout`, `LeaveOnCancel`,
`PublishCheck`, `StoreObject`, `RecordArtifact`, `Fail`, `CancelSelf` the task;
`WorkEnds` the closure, which may return after its task has left;
`CancelRequest` the DELETE request; `Crash` and `Open` a restart, which a write
or a removal that fails ends early (`PruneStops`). One action is
one section of a mutex or one step on the file system. `unsaved` remembers jobs
whose task ended because their record could not be written. The task is the
one of a temporal-grid job; the task of an observation job is the same without
`LeaveOnCancel`.

### `Replication` and `GenerationRights`

`mem` and `disk` are `PersistentState` in the mutex and in its file, `chunks`
the stored content, `files` and `marker` the run directories as both processes
see them. A request is a sequence of sections of the mutex (`todo`), with the
time it read at its start; between two of them other requests run. `Begin`,
`UploadChunk`, `CancelUpload`, `Revoke`, `SetKillSwitch` and `Expire` are one
section each. `Finalize` keeps the mutex through `InstallRename` and `Commit`,
because the scheduler acts in between. `List` and `Retire` are the sections of
`drain_retirements`, `Collect` the last one of `garbage_collect`. The scheduler
takes `ClaimCreate`, `ClaimCheck`, `ClaimMark` (`ensure_owner_marker`) and
`Retention`. `Crash` reloads the state file. Three history variables, which no
action reads, say where the code gives up an ideal: `late` (a write failed after
its rename, and none has succeeded since), `torn` (publications such a write left
on disk) and `missed` (withdrawn generations whose directory could not be read,
`Unreadable`: the code takes it for the directory of somebody else and drops the
work item). The rollback of a failed `finalize` may fail, too. Not in the model: the signed
manifest files under `manifests/`, which nothing reads to decide; the bytes of a
run; the number of directory entries a collection may inspect. A state above
`max_state_bytes` is one of the writes that fail.

`GenerationRights` is the abstract specification: none, uploading, published,
retiring, retired; an upload may be given up, a withdrawal is for ever, and a
run directory has one claim. A publication that was reported as failed may come
with a restart, also after its upload was given up. `RightsKept` is the
refinement.

### `Relay`

`mem` is the coordinator, `disk` the snapshot in the state file; both are a
record of kill switch, month, usage per user, bytes relayed and reserved, seeds,
pending sessions, recoveries and promoted objects. `dispatches` and `routes` are
the grants on offer and the registered routes. One action is one call of the
service, which holds its mutex throughout: `Advertise`, `Lookup`,
`RegisterRoute`, `TransportGrant`, `Complete`, `FailOrRevoke`, `SetKillSwitch`,
`Restart`. The ledger is computed by the operators named after the code:
`Released`, `Closed`, `Reaped`, `Trimmed`, `Rolled`, `Reserved`, `Killed`,
`Restored`; what they do to the counters of one user is an operator of its own
(`Freed`, `Spent`, `Dropped`, `Reset`, `HeldUp`, `HeldDown`). `PersistOrKill` has every outcome of the two writes.
Abstractions: the time is read once per call (the code reads the second and the
month one after the other); the identifier of an advertisement is always drawn
(`OsRng` panics when the system has no random numbers, and a collision is left
out); the limits on the size of the snapshot, the list of revoked credentials and
the provider's leases are left out; `admit_envelope` and `update_seed_policy` are
called by tests only.

### Fault model of writes

`rw_store::atomic` writes a temporary file, renames it and syncs the directory.
`Relay` and `Replication` have all outcomes of a failed write: the old file, or
the new file when only the sync failed. `SchedulerHost` and `ServerJobs` take a
failed write to leave the old file.

## 3. Runs

| run | specification, bounds | shows |
|---|---|---|
| `scheduler_safety` | 3 cycles, 2 lanes, 2 hours, 2 attempts, capacity 4, 2 threads, any 2 faults of any kind | all safety properties and the refinement of `JobLifecycle` |
| `scheduler_plain` | no origin catalog, 3 cycles, capacity 2, 2 faults that are failed ingests, failed probes, removals or held locks, fair | `AdmissionBounded`, `StateFilesBounded` |
| `scheduler_live` | 2 cycles, 2 lanes, any 2 faults of any kind, fair | `ActiveJobsSettle`, `NewestCyclePublished` |
| `hour_ingest` | 2 jobs of 2 workers and 2 hours, 2 permits, a budget of 2 hours of which one is used, fair | all properties of the pool, the refinement of `IngestContract` |
| `retry_delay` | 7-bit integers, policies and times at the boundaries, 9 attempts | `DelayAccepted`, `BackoffHolds` |
| `backlog_stranded` | 5 cycles, the minimum capacity 4, one ingest fault | `ActiveJobsSettle` is violated |
| `lost_hour` | 1 cycle, one lost hour | `PublishedRunsRepaired` is violated |
| `marker_crash` | 3 cycles, one crash | `StateFilesBounded` is violated |
| `server_jobs` | 3 jobs (one from an earlier process), 2 contents, 2 active jobs, 2 records, 1 permit, 2 faults, fair | all properties of the job manager |
| `replication` | 2 generations of one owner that share a run and a chunk, 2 times, 1 request for a generation and 1 sweep under way, 1 section with failing file operations or crash, a scheduler | all properties of the service, the refinement of `GenerationRights` |
| `dual_authority` | the same without faults | `OneAuthority` is violated |
| `relay` | 2 users, 1 object, one time in a first month and two in a second, a session longer than the month, 2 sessions, 2 failed calls, any restarts | all properties of the relay |

Safety properties of the host:

* `RunningHasThread`: after recovery, a record is running only while a thread of
  this pass works on it (the `unreachable!` of the classification).
* `PublishedRunsHaveState`, `CatalogValid`, `PublishedHoursStored`: what the
  catalog says always has a record, always loads again, and is always stored.
* `RetentionSparesPublished`: the directory of a published or active run is
  never removed by the host.
* `AvailableLanesAdvance`: a lane that follows the newest cycle never moves back.
* `AdmissionBounded`: active jobs never exceed the capacity. It is checked
  without an origin catalog. With one it is the same check, but published runs
  that are requeued count as well.
* `ImplementsLifecycle`: recovery and shutdown return the attempt, only
  outcomes spend the budget, repair starts a new one.

Properties of the job manager:

* `ArtifactsKept`: the object of a succeeded job is stored, although collection
  and publication of the same content run at the same time.
* `EndedIsFinal`: success never replaces a cancellation, nor the other way round.
* `AbandonedWorkSignalled`, `PermitsConserved`: a closure that outlives its task
  was told to stop, and its permit comes back once.
* `CapacityKept`: both limits hold although `create` prunes and inserts in two
  sections.
* `ActiveHasTask`, `JobsSettle`: a job that is not over has a task that will end
  it, and it ends, unless its record could not be written.

Properties of replication:

* `StateValid`: what an operation makes passes `validate_state`, so `persist`
  refuses it only for its size and `open` accepts it after any crash.
* `MemoryIsDurable`: the memory never runs ahead of the disk. It is what is on
  disk, but for expired uploads, unless a write failed after its rename; then the
  disk may be ahead by one move of the life cycle, the one reported as failed.
* `PublicationsBacked`: no collection takes a chunk of a publication, in memory
  or on disk, other than the `torn` ones.
* `RetirementComplete`: a work item is gone, from memory or disk, only when the
  run is gone, other than for `missed` directories.
* `RightsKept`: the refinement of `GenerationRights`.

Properties of the relay:

* `LedgerAccepted`: `restore_persistence_json` accepts the transfers and the
  storage of every snapshot, also when a month ended during a session.
* `RestartForgetsNothing`: while writes succeed, a restart charges at least what
  was used or reserved, although fallbacks and reaping are not written.
* `PromotedOnce`, `UnhealthyIsStopped`, `DispatchesLive`: promotions are not
  repeated, a relay that cannot write has stopped and offers nothing, and what
  it offers belongs to a session.

Bounds. Three cycles are what the interesting cases need: one active, one
previous and one to be retired in each lane, with `KeepLatest` at 1; the
extended lane takes every second cycle, so the lanes disagree. Two hours make a
run incomplete, complete or damaged. Two attempts have a first, a last and an
exhausted one. Two faults make a failure during the recovery from another one.
`backlog_stranded` needs five cycles to fill four published slots.
In `server_jobs`, three jobs at two records make `create` prune one job while
another publishes the same content; one permit makes a task wait for a closure
that was left behind. In `replication`, two generations of one run are the case
the checks on namespaces exist for; the rights in one end while those in the
other go on; quotas on storage and on the number of generations never bite there
(those on uploads and on the month do), and are covered by the proofs, as is a
restart after a late failure, which takes two faults. In `relay`, two sessions and
a quota of one make the second wait for the first. A session of the first month
is open when the second begins, so its reservation meets counters that start
again, and expires within it; the clock may also go back. Two failures let `persist_or_kill` fail, with or
without its second write, before and after a restart; restarts are not bounded.

Fairness. `WF(~Stopped /\ Host)`: a pass that does not crash keeps running; after
one that returned Ok the daemon loop sleeps and starts the next; an error ends
the daemon (`main.rs:89`), and after it, as after a crash, the service manager
starts it again (`deploy/systemd/rusty-weather-scheduler.service`,
`Restart=on-failure`). After a shutdown request the process exits, with status 0
if its last pass returned Ok, and no new start is assumed (`Stopped`): both
liveness properties of `scheduler_live` except it. `SF(BackoffElapses)`: the clock advances during passes as
well as between them, so a due time is reached even though each pass compares
with the time at which it began. Faults are not fair and are bounded. In
`HourIngest`, `WF(Progress)` says that some thread that can run does run; a
waiter at the gate wakes up every 100 ms by its timed wait. In `ServerJobs`,
`WF` of each request and task is the runtime, which polls what is ready, with
the deadline of `run_bounded` for a task that gets no permit; `WF(WorkEnds)`
says that closures return, for they finish or see the flag at a checkpoint;
`WF(Open)` that a server that is down is started again.

Deadlock checking is off in `hour_ingest`, `retry_delay` and `server_jobs`, which
end when all calls have returned, the last attempt was made or the jobs are over,
and in `replication` and `dual_authority`, where the bounds on requests and time
end a behaviour. The host and the relay never stop, and their runs check it.

Every property has a mutant: a definition of the model changed the way a
plausible bug would change the code (listed in `PROJECT.json`), under which TLC
finds the property violated.

## 4. Proofs

TLAPS checks these for every value of the constants that satisfies the
assumptions `MaxAttemptsAssumption`, `LanesAssumption`, `HostAssumption`,
`IngestAssumption`, `DelayAssumption`, `JobsAssumption`, `ReplicationAssumption`
and `RelayAssumption` (what configuration validation guarantees; models and
lanes are finite because they are lists in the configuration, runs need not be).
Every safety invariant, action property and refinement that a passing run checks
has a theorem; what is left to TLC is at the end of this section.

Induction. The induction theorems of the library take an operator as a
parameter, which the installed provers cannot instantiate. The proofs use a
first-order form: a set of subsets of a finite set has a minimal element
(`LeastSet`), hence a set of numbers has a least one (`LeastNat`); a claim about
a recursive definition follows because the least counterexample cannot exist.

`SchedulerHostProofs`

* `TypeCorrect`: `Spec => []TypeOK`. Typing is not inductive by itself:
  recovery subtracts one from `attempts`, which is only typed when a running
  record has been charged. `TypeInv` adds `RunningCharged`; to keep it while
  threads finish, a thread past its start must work on a running record
  (`ThreadsRun`), and threads exist only during a chunk (`ThreadsJoined`).
* `RunningRecordsOwned`: `Spec => []RunningHasThread`, relative to `TypeInv`.
* `PublishedStateKept`: `Spec => []PublishedRunsHaveState`. The inductive
  invariant `RetentionInv` says that what the deletion plan holds is disjoint
  from what is published and what is active (`PlanDisjoint`), and that there is
  no plan outside of the retention phases (`PlanLocal`). It is established by
  `RefreshCatalog` because the plan is made with the refreshed catalog.
* `RetentionSafe`: `Spec => RetentionSparesPublished`, an action property, from
  `RetentionInv` and the lemma that only a doomed run is ever renamed.
* `CatalogAlwaysValid`: `Spec => []CatalogValid`. Only a refresh replaces the
  catalog (`CatalogSteps`); what it puts in a lane is valid (`LaneValid`),
  because two runs of one model with one origin are the same run.
* `PublishedHoursKept`: `Spec => []PublishedHoursStored`. `StoredInv` adds that
  `run.json` is one list (`OneManifest`). `DirSteps` sorts what a step may do to
  a directory: the host only adds hours or removes a doomed run, which
  `RetentionInv` keeps apart from the published ones; any other change marks the
  run as touched by somebody else.
* `ActiveJobsBounded`: `Spec => []AdmissionBounded`. The bound alone is not
  inductive, since a requeue activates a job. `AdmittedInv` bounds the active
  jobs together with the records that the pass has still to classify, and says
  that records not yet persisted are among those and have no file.
* `LanesNeverMoveBack`: `Spec => AvailableLanesAdvance`, an action property. The
  published run is still a candidate when a refresh goes through, and the
  candidates are finitely many, so one of them is the newest (`NewestExists`).
* `HostImplementsLifecycle`: `Spec => ImplementsLifecycle`, a refinement. Every
  step saves at most one record, in one of seven ways (`RecordSteps`, `JobStep`);
  each of them is a step or a stutter of `JobLifecycle` (`JobStepAbstract`).

`HourIngestProofs`

* `TypeCorrect`: `Spec => []TypeOK`.
* `NoHourLost`: `Spec => []OkMeansAllIngested`. The invariant tracks each hour:
  it is queued, ingested, held by a worker, or its loss is explained by a
  failure, a panic or a shutdown; a worker stops only for a reason.
* `GateNeverExceeded`: `Spec => []GateCountsHolders`.
* `BudgetOvershootBounded`: `Spec => []OvershootBounded`, from the bound on
  what is written plus what passed its check.
* `PoolImplementsContract`: `Spec => ImplementsContract`, a refinement. Beside
  the invariant of `NoHourLost` it needs that a call with a worker still at work
  has not returned (`RunningNotReturned`).

`RetryDelayProofs`

* `DelaysAccepted`, `BackoffNeverCollapses`: `Spec => []DelayAccepted` and
  `Spec => []BackoffHolds`, for any width of the integers. `Factor` is the power
  of two cut off at `U64Max` (`FactorIsPower`, by induction; `2^n` is the number
  of subsets of `1..n`); the delay before jitter is the exponential one capped by
  the ceiling, so the saturations never show (`BaseIsExponential`); the jitter is
  at most half of it (`SpanAtMostHalf`); as long as the time leaves room, the
  cast back to 64 bits loses nothing (`JitteredBounds`).

`ServerJobsProofs`

* `TypeCorrect`, `NoJobOrphaned`, `WorkIsSignalled`: from `PlaceInv`, which says
  what the place of a task tells about its record, its closure and its flag, and
  that nothing runs while the server is down.
* `ArtifactsNeverLost`: from `GuardInv`. Whoever collects has read every
  reference, and whoever is about to record an object has stored it; both hold
  the guard, so only one of them is there.
* `PermitsNeverLost`, `LimitsKept`: cardinalities, by the finite-set theorems.
* `OutcomesAreFinal`: the action property `EndedIsFinal`.

`ReplicationProofs`

* `TypeCorrect`, `StateAlwaysValid`, `MemoryNeverAhead`,
  `PublicationsKeepChunks`, `RetirementsFinish`: one inductive invariant. Beside
  the properties it has `RequestTimes` (a request that is about to begin has
  checked its rights at the time it still carries) and `Installing` (inside
  `finalize` the generation is an upload whose chunks are all stored) and
  `TornCovers` (what is published on disk alone is `torn`). The steps are first
  sorted into the ways in which they may change the state (`Begins`, `Withdraws`,
  `Publishes` and so on), each of which is treated once, whether its write
  succeeds or fails late (`Lands`); that each way is at most one move of the life
  cycle (`PhaseMoves`) gives both the second half of `MemoryIsDurable` and
  `RightsKept`.
* `RightsImplemented`: `Spec => RightsKept`, the initial states and steps of the
  service are initial states and steps, or stutters, of `GenerationRights`.

`RelaySums`, `RelayLedgerProofs`, `RelayProofs`

* `NeverPromotedTwice`, `StopsWhenUnwritable`, `GrantsHaveSessions`. The
  invariant says that memory and snapshot are records of the right shape, and
  that what was promoted is remembered in both (`Promotions`): this is what a
  restart after a failed write needs.
* `RelayTypes`, `LedgerAlwaysAccepted`, `RestartKeepsCharges`:
  `Spec => []TypeOK`, `Spec => []LedgerAccepted` and
  `Spec => []RestartForgetsNothing`. `LedgerInv` says that both copies of the
  ledger are `Sound` (each counter is the sum over the pending sessions, or over
  the seeds, and within its quota), that no identifier of a session is used twice (otherwise
  closing one would remove two), and that while the service is healthy the
  memory is a ledger the snapshot covers (`Reduces`): a call that writes nothing
  may only close, reap or roll over. `RelaySums` has the sums (what adding or
  removing an element does to `MapThenSumSet`, by induction over finite sets),
  `RelayLedgerProofs` one lemma per operator of the ledger.

Only model-checked: what is temporal under fairness (`ActiveJobsSettle`,
`NewestCyclePublished`, `StateFilesBounded`, `CallsReturn`, `JobsSettle`), which
is out of the reach of this prover, and the four disagreements of section 5,
which are counterexamples.

## 5. Findings

* **`backlog_stranded`** (`executor.rs:889`). A comment says that a restart
  "cannot strand yesterday's queued/retrying job". The capacity check counts
  active jobs, published generations and discoveries together, after discovery
  and before execution. With the smallest capacity that validation accepts, one
  ordinary ingest failure leaves a retrying job which, beside a full catalog and
  a newer cycle, makes every later pass fail.
* **`lost_hour`** (`executor.rs:1245`). `requeue_for_repair` is documented for
  the case that "an operator removed a published hour". The requeued job
  verifies the existing manifest first and fails on the missing file, so it
  never ingests the hour again.
* **`marker_crash`** (`retention.rs:395`). The README says that state files do
  not accumulate. A crash inside the write of the ownership marker leaves a
  directory that is neither empty nor owned; retention returns an error at it in
  every pass, before any state file is removed.
* **`dual_authority`** (`retention.rs:395`). A comment says that "a concurrent
  replication rename wins the namespace race, while the scheduler may only
  create and mark a directory it created itself". The scheduler sees an empty
  directory, replication renames a generation over it (`rename(2)` replaces an
  empty directory), and the scheduler writes its marker into the published
  generation. Its own retention may delete the run from then on, and
  replication will not retire it.

Other observations without a run of their own are in the notes of the hazards in
`PROJECT.json`. The main ones: the refresh of the catalog counts a published run
as recovered as soon as one of its hours is back (`executor.rs:1067`); a job of
the server whose record cannot be written keeps its slot until a restart
(`routes.rs:2683`); a retirement whose directory cannot be read is dropped,
although a comment says that a cleanup failure leaves its item for a retry
(`lib.rs:1849`); a kill switch, a revocation or a publication that was reported
as failed may be in force after a restart, the publication even without its
directory, when only the sync after the rename failed (`atomic.rs:83`); a backoff
ceiling near the limit of 64 bits keeps a failing job running for ever
(`state.rs:233`).

## 6. Not modelled

By far the largest part of the repository is decoding of GRIB, NetCDF, radar and
satellite formats, meteorological calculation, rendering, and a desktop
interface. It is numeric or pure input and output, without state that several
actors share; a model of it would be a transliteration and TLC could not
evaluate it. The same goes for the message formats of the community protocol,
signatures and encryption, HTTP handlers that only read, request forwarding by
the federation proxy, and file formats of the run store.

Left out of the modelled parts: `execute_retention` on Windows; the time stamps
of scheduler records and catalog; the slots of an exact-time axis in the coverage
of a run, whose valid times are whole hours here; reconfiguration between
restarts; more than
one scheduler process (the host lease, `LeaseFree`, excludes it); in
replication, the signed manifest files and leftovers of a removal that was cut
short; in the relay, the limits on the size of the snapshot and the list of
revoked credentials. `PROJECT.json` lists every component with its status, and every hazard
with the properties that cover it or the reason why none does.

Behaviour that was noticed and is outside of the models: with an origin catalog
a store over its disk budget fails every pass before retention can free anything
(`executor.rs:805`); an unchanged catalog keeps its time stamp while the server
applies a maximum age (`executor.rs:1084`); tombstones carry the process id, are
never collected, and may be met again by a container that restarts with the same
id (`retention.rs:251`); lowering `max_attempts` below the attempts of a queued
record makes `start` fail (`state.rs:154`); a clock behind the creation of a
server job makes its updates invalid (`jobs.rs:569`); a clock set back over the
end of a month starts the upload ledger of replication anew (`lib.rs:1507`) and
keeps the relay from starting (`control.rs:789`); a relay snapshot too large to
export returns before `persistence_healthy` is cleared
(`community_relay.rs:660`).

## 7. Plan

1. `community_store.rs` of the server, the remaining durable state of the
   community cache.
2. The follow loops of `rw-sat`, `rw-glm` and the radar ingest: rolling window
   and restart.
3. The late failure of a write (after its rename) in `ServerJobs` and
   `SchedulerHost`.
4. `CatalogView`: the server as reader of the catalog, with its maximum age,
   composed with `RefreshCatalog`, which does not rewrite an unchanged catalog.
