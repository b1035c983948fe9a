--------------------------- MODULE SchedulerHost ----------------------------
(***************************************************************************)
(* The scheduler host of crates/rw-scheduler/src/executor.rs: one pass of  *)
(* run_once_at at a time (the host lease excludes a second one), restarted *)
(* by the daemon or the service manager.                                   *)
(*                                                                         *)
(* Durable state: the job records, the run directories, the origin catalog *)
(* and the tombstones retention leaves while it removes a run.  Everything *)
(* else belongs to the running pass and is lost when it ends or crashes.   *)
(* One action is one durable write, so a crash can fall between any two of *)
(* them.  The jobs of a chunk run in parallel threads.                     *)
(*                                                                         *)
(* What the world does to the host (provider errors, a full disk, an       *)
(* operator's hand in the store, crashes, Ctrl-C) spends a budget of       *)
(* MaxFaults, and is limited to FaultKinds.                                *)
(***************************************************************************)
EXTENDS JobRecords, OriginLanes

CONSTANTS
    JobCapacity,     \* max_queued_jobs + max_concurrent_jobs
    JobConcurrency,  \* runtime_capacity().job_concurrency
    OriginPlan,      \* origin_catalog_plan is configured
    Retention,       \* retention is enabled and applied (not a dry run)
    Pids,            \* process ids a scheduler process can have
    FaultKinds,
    MaxFaults

\* What SchedulerConfig::validate asks of the capacities: a record for every
\* model, and for the active and the previous generation of every lane.
ConfigValid ==
    /\ Cardinality(Models) <= JobCapacity
    /\ 2 * Cardinality(Lanes) <= JobCapacity

ASSUME HostAssumption ==
    /\ JobCapacity \in Nat \ {0}
    /\ JobConcurrency \in Nat \ {0}
    /\ OriginPlan \in BOOLEAN /\ Retention \in BOOLEAN
    /\ MaxFaults \in Nat
    /\ ~OriginPlan => Lanes = {}
    /\ ConfigValid

VARIABLES
    \* durable
    jobs,       \* the job record of each run, or NoJob
    dirs,       \* the store directory of each run
    catalog,    \* origin-catalog.json
    tombs,      \* tombstones <<run, pid>> not yet removed
    \* the world
    upstream,   \* newest cycle origin a provider serves
    faults,     \* faults so far
    tampered,   \* runs whose files were touched by others
    \* the running pass
    pc, pid, cancelled,
    fresh,      \* newly_admitted, not yet persisted
    recs,       \* records still to be classified
    runnable,   \* jobs waiting for a chunk
    stage,      \* where the thread of a job of the current chunk is
    doomed,     \* plan.delete not yet handled
    prunable    \* state_prunable

durable == <<jobs, dirs, catalog, tombs>>
work    == <<fresh, recs, runnable, stage, doomed, prunable>>
vars    == <<durable, upstream, faults, tampered, pc, pid, cancelled, work>>

NoJob == [state |-> "none", attempts |-> 0]
Stages == {"none", "start", "space", "claim", "marker", "inspect", "ingest",
           "complete", "incomplete", "failed", "ended", "error"}
Phases == {"down", "recover", "persist", "classify", "chunk", "execute",
           "publish", "retain", "sweep", "prune"}

TypeOK ==
    /\ jobs \in [Runs -> JobRecord \cup {NoJob}]
    /\ dirs \in [Runs -> RunDir]
    /\ catalog \in [Lanes -> PublishedLane]
    /\ tombs \subseteq Runs \X Pids
    /\ upstream \in Nat /\ faults \in 0 .. MaxFaults /\ tampered \subseteq Runs
    /\ pc \in Phases /\ pid \in Pids /\ cancelled \in BOOLEAN
    /\ fresh \subseteq Runs /\ recs \subseteq Runs /\ runnable \subseteq Runs
    /\ stage \in [Runs -> Stages]
    /\ doomed \subseteq Runs /\ prunable \subseteq Runs

Known  == {r \in Runs : jobs[r].state # "none"}
Active == {r \in Runs : IsActive(jobs[r])}
Least(S) == {r \in S : \A s \in S : r <= s}     \* BTreeMap and sort order

Init ==
    /\ jobs = [r \in Runs |-> NoJob]
    /\ dirs = [r \in Runs |-> NoDir]
    /\ catalog = EmptyCatalog
    /\ tombs = {}
    /\ upstream = 0 /\ faults = 0 /\ tampered = {}
    /\ pc = "down" /\ pid \in Pids /\ cancelled = FALSE
    /\ fresh = {} /\ recs = {} /\ runnable = {}
    /\ stage = [r \in Runs |-> "none"]
    /\ doomed = {} /\ prunable = {}

Fault(kind) == /\ kind \in FaultKinds
               /\ faults < MaxFaults
               /\ faults' = faults + 1

\* The pass returns, with Ok or with an error: its memory is gone.  The daemon
\* sleeps after Ok and ends with the error; either ends it after a shutdown
\* request, which is remembered until a new process starts.
EndPass ==
    /\ pc' = "down" /\ UNCHANGED cancelled
    /\ fresh' = {} /\ recs' = {} /\ runnable' = {}
    /\ stage' = [r \in Runs |-> "none"]
    /\ doomed' = {} /\ prunable' = {}

-----------------------------------------------------------------------------
(* The beginning of run_once_at: lease, recovery, discovery, admission.    *)

\* HostLease::acquire succeeds: no pass, of this process or another, holds the
\* lock of the state root.  The end of a process releases it.
LeaseFree == pc = "down"

\* Lines up to the lease.  A failing space check ends the pass before it has
\* read or changed anything; that pass is a stuttering step here.  After a
\* shutdown request the pass belongs to a new process.
StartPass(p) ==
    /\ LeaseFree
    /\ pc' = "recover" /\ pid' = p /\ cancelled' = FALSE
    /\ UNCHANGED <<durable, upstream, faults, tampered, work>>

\* Mutants: every active record is rolled back; a first attempt is not.
RollBackActive == Active
RollBackRetries == {r \in Runs : jobs[r].state = "running" /\ jobs[r].attempts > 1}

\* The records JobStateStore::recover_running rolls back.
Interrupted == {r \in Runs : jobs[r].state = "running"}

\* JobStateStore::recover_running, one saved record at a time.
RecoverRunning ==
    /\ pc = "recover"
    /\ \E r \in Least(Interrupted) :
          jobs' = [jobs EXCEPT ![r] = RecoverAfterRestart(jobs[r])]
    /\ UNCHANGED <<dirs, catalog, tombs, upstream, faults, tampered, pc, pid, cancelled, work>>

\* recover_running has returned.
RecoveryDone == Interrupted = {}

\* What is asked of the providers: one cycle per lane, or one per model.
Feeds == IF OriginPlan THEN Lanes ELSE Models
Eligible(feed) ==
    {r \in Runs : /\ Origin[r] <= upstream
                  /\ IF OriginPlan
                     THEN /\ ModelOf[r] = LaneModel[feed]
                          /\ feed \in CompleteLanes => r \in LongHorizon
                     ELSE ModelOf[r] = feed}

\* The cycle a feed reports when every probe answers: the newest eligible one.
\* The empty set is an error, which is reported and skipped.
Discovered(feed) == Newest(Eligible(feed))

\* What a feed can report when probes fail or the time budget runs out: any
\* eligible cycle, because the scan goes on to older ones, or an error.
Degraded(feed) == {{}} \cup {{r} : r \in Eligible(feed)}

\* discover_allowed and discover_origin_lanes: the feeds are asked
\* independently.  After a shutdown request the remaining feeds report errors.
DiscoveredRuns(found) ==
    \/ found = UNION {Discovered(feed) : feed \in Feeds} /\ UNCHANGED faults
    \/ /\ cancelled
       /\ \E answered \in SUBSET Feeds :
             found = UNION {Discovered(feed) : feed \in answered}
       /\ UNCHANGED faults
    \/ /\ Fault("discovery")
       /\ \E feed \in Feeds : \E report \in Degraded(feed) :
             found = report \cup UNION {Discovered(other) : other \in Feeds \ {feed}}

\* Mutant: newly discovered runs are not counted.
OverCapacityOnDisk(records) == Cardinality(records \cap Active) > JobCapacity

\* The bound of the pass on its records, checked before anything is persisted.
OverCapacity(records) == Cardinality(records) > JobCapacity

\* The records of the pass: active jobs, published generations, discoveries.
\* Too many end the pass before anything is persisted or executed.
AdmitDiscovered ==
    /\ pc = "recover" /\ RecoveryDone
    /\ \E found \in SUBSET Runs :
          /\ DiscoveredRuns(found)
          /\ LET records == Active \cup (Known \cap Protected(catalog)) \cup found IN
             IF OverCapacity(records)
             THEN EndPass
             ELSE /\ pc' = "persist"
                  /\ fresh' = found \ Known
                  /\ recs' = records
                  /\ UNCHANGED <<cancelled, runnable, stage, doomed, prunable>>
    /\ UNCHANGED <<durable, upstream, tampered, pid>>

\* In the order of discovery, which may be any.
PersistAdmitted ==
    /\ pc = "persist"
    /\ \E r \in fresh :
          /\ jobs' = [jobs EXCEPT ![r] = NewRecord]
          /\ fresh' = fresh \ {r}
    /\ UNCHANGED <<dirs, catalog, tombs, upstream, faults, tampered, pc, pid, cancelled,
                   recs, runnable, stage, doomed, prunable>>

PersistDone ==
    /\ pc = "persist" /\ fresh = {}
    /\ pc' = "classify"
    /\ UNCHANGED <<durable, upstream, faults, tampered, pid, cancelled, work>>

\* The match on record.state: release a due retry, run a queued job, requeue
\* a succeeded one whose run is no longer complete, skip the rest.
Classified(r) ==
    CASE jobs[r].state = "retry_due" -> ReleaseRetry(jobs[r])
      [] jobs[r].state = "succeeded" /\ ~CoverageComplete(dirs[r]) ->
             RequeueForRepair(jobs[r])
      [] OTHER -> jobs[r]

ClassifyRecord ==
    /\ pc = "classify"
    /\ \E r \in Least(recs) :
          /\ recs' = recs \ {r}
          /\ jobs' = [jobs EXCEPT ![r] = Classified(r)]
          /\ runnable' = IF Classified(r).state = "queued" THEN runnable \cup {r}
                                                           ELSE runnable
    /\ UNCHANGED <<dirs, catalog, tombs, upstream, faults, tampered, pc, pid, cancelled,
                   fresh, stage, doomed, prunable>>

ClassifyDone ==
    /\ pc = "classify" /\ recs = {}
    /\ pc' = "chunk"
    /\ UNCHANGED <<durable, upstream, faults, tampered, pid, cancelled, work>>

-----------------------------------------------------------------------------
(* The chunks of job_concurrency threads, each thread in execute_one.      *)

Chunk == {r \in runnable : Cardinality({s \in runnable : s < r}) < JobConcurrency}

StartChunk ==
    /\ pc = "chunk" /\ runnable # {}
    /\ pc' = "execute"
    /\ stage' = [r \in Runs |-> IF r \in Chunk THEN "start" ELSE "none"]
    /\ runnable' = runnable \ Chunk
    /\ UNCHANGED <<durable, upstream, faults, tampered, pid, cancelled, fresh, recs, doomed, prunable>>

ChunksDone ==
    /\ pc = "chunk" /\ runnable = {}
    /\ pc' = "publish"
    /\ UNCHANGED <<durable, upstream, faults, tampered, pid, cancelled, work>>

\* All threads are joined.  An error of one ends the pass; a shutdown request
\* drops the remaining chunks but still publishes and retains.
ChunkEnds ==
    /\ pc = "execute"
    /\ \A r \in Runs : stage[r] \in {"none", "ended", "error"}
    /\ IF \E r \in Runs : stage[r] = "error"
       THEN EndPass
       ELSE /\ pc' = IF cancelled THEN "publish" ELSE "chunk"
            /\ runnable' = IF cancelled THEN {} ELSE runnable
            /\ stage' = [r \in Runs |-> "none"]
            /\ UNCHANGED <<cancelled, fresh, recs, doomed, prunable>>
    /\ UNCHANGED <<durable, upstream, faults, tampered, pid>>

\* The thread of r is at stage from and goes on to stage to.
Thread(r, from, to) ==
    /\ stage[r] = from
    /\ stage' = [stage EXCEPT ![r] = to]
    /\ UNCHANGED <<catalog, tombs, upstream, tampered, pc, pid, cancelled,
                   fresh, recs, runnable, doomed, prunable>>

\* start and the save of the running record
StartJob(r) ==
    /\ Thread(r, "start", IF CanStart(jobs[r]) THEN "space" ELSE "error")
    /\ jobs' = IF CanStart(jobs[r]) THEN [jobs EXCEPT ![r] = Start(jobs[r])] ELSE jobs
    /\ UNCHANGED <<dirs, faults>>

\* check_space at the head of execute_running
CheckSpace(r) ==
    /\ \/ Thread(r, "space", "claim") /\ UNCHANGED faults
       \/ Thread(r, "space", "failed") /\ Fault("space")
    /\ UNCHANGED <<jobs, dirs>>

\* ensure_owner_marker: create the directory, write the temporary file of the
\* marker into it, rename it.  A directory that is not empty and has no marker
\* is never claimed.
ClaimRun(r) ==
    /\ \/ /\ dirs[r].kind = "absent"
          /\ Thread(r, "claim", "claim")
          /\ dirs' = [dirs EXCEPT ![r].kind = "empty"]
       \/ /\ dirs[r].kind = "empty"
          /\ Thread(r, "claim", "marker")
          /\ dirs' = [dirs EXCEPT ![r].kind = "unowned"]
       \/ /\ dirs[r].kind = "unowned"
          /\ Thread(r, "claim", "failed")
          /\ UNCHANGED dirs
       \/ /\ dirs[r].kind = "owned"
          /\ Thread(r, "claim", "inspect")
          /\ UNCHANGED dirs
    /\ UNCHANGED <<jobs, faults>>

RenameMarker(r) ==
    /\ Thread(r, "marker", "inspect")
    /\ dirs' = [dirs EXCEPT ![r].kind = "owned"]
    /\ UNCHANGED <<jobs, faults>>

\* An existing run.json must verify before anything is ingested.
InspectRun(r) ==
    /\ Thread(r, "inspect",
              CASE dirs[r].manifest # {} /\ ~Verifies(dirs[r]) -> "failed"
                [] CoverageComplete(dirs[r]) -> "complete"
                [] OTHER -> "ingest")
    /\ UNCHANGED <<jobs, dirs, faults>>

\* ingest_hours: the file of a missing hour is committed, then run.json.  Only
\* hours that run.json lists are read, so the two writes are one step here.
IngestHour(r) ==
    /\ Thread(r, "ingest", "ingest")
    /\ \E h \in Hours \ Present(dirs[r]) :
          dirs' = [dirs EXCEPT ![r].manifest = {Present(dirs[r]) \cup {h}},
                               ![r].files = @ \cup {h}]
    /\ UNCHANGED <<jobs, faults>>

\* An hour fails (provider, space, panic), or the workers see the shutdown.
IngestFails(r) ==
    /\ Thread(r, "ingest", "failed")
    /\ (cancelled /\ UNCHANGED faults) \/ Fault("ingest")
    /\ UNCHANGED <<jobs, dirs>>

\* ingest_hours returned Ok and the run is verified again.  A run that is not
\* queryable is an error of the pass; the record stays running.
IngestReturns(r) ==
    /\ Present(dirs[r]) = Hours
    /\ Thread(r, "ingest",
              CASE ~Verifies(dirs[r]) -> "failed"
                [] CoverageComplete(dirs[r]) -> "complete"
                [] OTHER -> "error")
    /\ UNCHANGED <<jobs, dirs, faults>>

\* An embedder's JobExecution may return validated but incomplete coverage.
ExecutionFallsShort(r) ==
    /\ Queryable(dirs[r]) /\ Present(dirs[r]) # Hours
    /\ Thread(r, "ingest", "incomplete") /\ Fault("shortfall")
    /\ UNCHANGED <<jobs, dirs>>

\* The outcome of execute_running is saved.  The space check after a complete
\* run returns early: the record stays running.
FinishJob(r) ==
    /\ \/ /\ Thread(r, "complete", "ended") /\ UNCHANGED faults
          /\ jobs' = [jobs EXCEPT ![r] = FinishSuccess(jobs[r])]
       \/ /\ Thread(r, "complete", "error") /\ Fault("space")
          /\ UNCHANGED jobs
       \/ /\ Thread(r, "incomplete", "ended") /\ UNCHANGED faults
          /\ jobs' = [jobs EXCEPT ![r] = FinishFailure(jobs[r])]
       \/ /\ Thread(r, "failed", "ended") /\ UNCHANGED faults
          /\ jobs' = [jobs EXCEPT ![r] = IF cancelled THEN RecoverAfterRestart(jobs[r])
                                                      ELSE FinishFailure(jobs[r])]
    /\ UNCHANGED dirs

ExecuteOne(r) ==
    /\ pc = "execute"
    /\ \/ StartJob(r) \/ CheckSpace(r) \/ ClaimRun(r) \/ RenameMarker(r)
       \/ InspectRun(r) \/ IngestHour(r) \/ IngestFails(r) \/ IngestReturns(r)
       \/ ExecutionFallsShort(r) \/ FinishJob(r)

-----------------------------------------------------------------------------
(* The end of run_once_at: publication and retention.                      *)

\* Mutant: published generations are not revalidated.
PublishedUnchecked(candidates) == TRUE

\* The loop over current.protected() in refresh_origin_catalog.
PublishedStillValid(candidates) == Protected(catalog) \subseteq candidates

\* Mutant: retention is planned with the catalog read before the refresh.
DoomedStale(cat) == RetentionDelete(Known, Active, Protected(catalog))

\* plan_owned_retention with the protected runs of the refreshed catalog.
Doomed(cat) == RetentionDelete(Known, Active, Protected(cat))

\* refresh_origin_catalog, then plan_owned_retention.  A published run that is
\* no candidate any more ends the pass with the old catalog in place.
RefreshCatalog ==
    /\ pc = "publish"
    /\ LET candidates == Candidates(Known, dirs) IN
       \/ /\ ~PublishedStillValid(candidates)
          /\ EndPass
          /\ UNCHANGED catalog
       \/ /\ PublishedStillValid(candidates)
          /\ catalog' = FromCandidates(candidates, dirs)
          /\ IF Retention
             THEN /\ pc' = "retain"
                  /\ doomed' = Doomed(catalog')
                  /\ UNCHANGED <<cancelled, fresh, recs, runnable, stage, prunable>>
             ELSE EndPass
    /\ UNCHANGED <<jobs, dirs, tombs, upstream, faults, tampered, pid>>

\* Mutant: a run that is already gone keeps its state file.
KeepAbsentState(r) == prunable

\* A doomed run whose directory is absent is pruned from the state.
PruneAbsent(r) == prunable \cup {r}

\* revalidate_owned_run: the marker in the directory names this job.
Owned(r) == dirs[r].kind = "owned"

\* One key of execute_retention up to the rename: an absent run is done, a run
\* that is not owned or whose tombstone exists is an error, a run whose writer
\* lock is held is skipped.
RetainRun ==
    /\ pc = "retain"
    /\ \E r \in Least(doomed) :
          \/ /\ dirs[r].kind = "absent"
             /\ doomed' = doomed \ {r} /\ prunable' = PruneAbsent(r)
             /\ UNCHANGED <<dirs, tombs, faults, pc, cancelled, fresh, recs, runnable, stage>>
          \/ /\ \/ dirs[r].kind # "absent" /\ ~Owned(r)
                \/ Owned(r) /\ <<r, pid>> \in tombs
             /\ EndPass
             /\ UNCHANGED <<dirs, tombs, faults>>
          \/ /\ Owned(r) /\ Fault("lock")
             /\ doomed' = doomed \ {r}
             /\ UNCHANGED <<dirs, tombs, pc, cancelled, fresh, recs, runnable, stage, prunable>>
          \/ /\ Owned(r) /\ <<r, pid>> \notin tombs
             /\ dirs' = [dirs EXCEPT ![r] = NoDir]
             /\ tombs' = tombs \cup {<<r, pid>>}
             /\ pc' = "sweep"
             /\ UNCHANGED <<faults, cancelled, work>>
    /\ UNCHANGED <<jobs, catalog, upstream, tampered, pid>>

\* remove_dir_all of the tombstone
SweepTombstone ==
    /\ pc = "sweep"
    /\ \E r \in Least(doomed) :
          /\ tombs' = tombs \ {<<r, pid>>}
          /\ doomed' = doomed \ {r} /\ prunable' = prunable \cup {r}
    /\ pc' = "retain"
    /\ UNCHANGED <<jobs, dirs, catalog, upstream, faults, tampered, pid, cancelled,
                   fresh, recs, runnable, stage>>

RetainDone ==
    /\ pc = "retain" /\ doomed = {}
    /\ pc' = "prune"
    /\ UNCHANGED <<durable, upstream, faults, tampered, pid, cancelled, work>>

\* remove_terminal of each state_prunable label
PruneState ==
    /\ pc = "prune"
    /\ \E r \in Least(prunable) :
          /\ ~IsActive(jobs[r])
          /\ jobs' = [jobs EXCEPT ![r] = NoJob]
          /\ prunable' = prunable \ {r}
    /\ UNCHANGED <<dirs, catalog, tombs, upstream, faults, tampered, pc, pid, cancelled,
                   fresh, recs, runnable, stage, doomed>>

FinishPass ==
    /\ pc = "prune" /\ prunable = {}
    /\ EndPass
    /\ UNCHANGED <<durable, upstream, faults, tampered, pid>>

-----------------------------------------------------------------------------
(* The world.                                                              *)

ProviderAdvances ==
    /\ \E r \in Runs : Origin[r] > upstream
    /\ upstream' = upstream + 1
    /\ UNCHANGED <<durable, faults, tampered, pc, pid, cancelled, work>>

\* The clock reaches retry_at_unix.  A pass compares with the time at which it
\* began.
BackoffElapses(r) ==
    /\ pc = "down"
    /\ jobs[r].state = "retry_backoff"
    /\ jobs' = [jobs EXCEPT ![r].state = "retry_due"]
    /\ UNCHANGED <<dirs, catalog, tombs, upstream, faults, tampered, pc, pid, cancelled, work>>

Crash ==
    /\ pc # "down" /\ Fault("crash")
    /\ EndPass
    /\ UNCHANGED <<durable, upstream, tampered, pid>>

\* Ctrl-C, which is SIGINT of the service manager, during a pass or the sleep.
Cancel ==
    /\ ~cancelled /\ Fault("cancel")
    /\ cancelled' = TRUE
    /\ UNCHANGED <<durable, upstream, tampered, pc, pid, work>>

\* A stored hour is lost or damaged; a whole run is removed by hand; an hour
\* outside the plan is ingested into a run.
StoreFault ==
    /\ \E r \in Runs :
          /\ dirs[r].kind = "owned"
          /\ tampered' = tampered \cup {r}
          /\ \/ /\ Fault("loss")
                /\ \E h \in dirs[r].files : dirs' = [dirs EXCEPT ![r].files = @ \ {h}]
             \/ /\ Fault("removal") /\ stage[r] = "none"
                /\ dirs' = [dirs EXCEPT ![r] = NoDir]
             \/ /\ Fault("extra") /\ dirs[r].manifest # {}
                /\ dirs' = [dirs EXCEPT ![r].extra = TRUE]
    /\ UNCHANGED <<jobs, catalog, tombs, upstream, pc, pid, cancelled, work>>

World == ProviderAdvances \/ Crash \/ Cancel \/ StoreFault

Host ==
    \/ \E p \in Pids : StartPass(p)
    \/ RecoverRunning \/ AdmitDiscovered \/ PersistAdmitted \/ PersistDone
    \/ ClassifyRecord \/ ClassifyDone
    \/ StartChunk \/ ChunksDone \/ ChunkEnds \/ \E r \in Runs : ExecuteOne(r)
    \/ RefreshCatalog \/ RetainRun \/ SweepTombstone \/ RetainDone
    \/ PruneState \/ FinishPass

Next == Host \/ World \/ \E r \in Runs : BackoffElapses(r)

Spec == Init /\ [][Next]_vars

\* The operator asked the scheduler to stop, and it has.  After a pass that returned Ok
\* its status is 0 and Restart=on-failure leaves it alone; no new start is assumed.
Stopped == pc = "down" /\ cancelled

\* A pass keeps running unless it crashes.  The daemon starts the next one after
\* its sleep; the service manager does after an error or a crash.  Time passes
\* during a pass as well as between passes.
FairSpec == Spec /\ WF_vars(~Stopped /\ Host) /\ \A r \in Runs : SF_vars(BackoffElapses(r))

-----------------------------------------------------------------------------
(* Properties.                                                             *)

\* Once a pass has recovered, a record is running on disk only while a thread
\* of this pass works on it.  In particular the classification never meets a
\* running record, which the code marks unreachable!.
RunningHasThread ==
    pc \notin {"down", "recover"} =>
        \A r \in Runs : jobs[r].state = "running" => stage[r] \notin {"none", "start", "ended"}

\* A generation the catalog publishes always has a job record: neither
\* retention nor a crash between its steps removes the state the next pass
\* needs to revalidate or repair the generation.
PublishedRunsHaveState == Protected(catalog) \subseteq Known

\* The catalog a refresh builds always passes OriginCatalogState::validate, so
\* the refresh never ends a pass there and a restart can load what it wrote: at
\* most one active and one previous generation, the previous one older, an
\* inventory that agrees with the completeness flag, only complete
\* longest-horizon runs in the extended lane; and every generation has hours.
CatalogValid ==
    /\ ValidCatalog(catalog)
    /\ \A gen \in Published(catalog) : gen.present # {}

\* Every hour the catalog advertises is in the store, listed and readable, in
\* every state of every pass, crashes included, unless somebody else touched
\* the run: ingest, retention and publication never race past each other.
PublishedHoursStored ==
    \A gen \in Published(catalog) : gen.run \notin tampered =>
        gen.present \subseteq Present(dirs[gen.run]) \cap dirs[gen.run].files

\* The jobs on disk that still need work never outnumber the configured
\* capacity, whatever a pass discovers, requeues or leaves behind.
AdmissionBounded == Cardinality(Active) <= JobCapacity

\* The host itself never removes the directory of a run that the durable
\* catalog publishes or whose job is active.
RetentionSparesPublished ==
    [][\A r \in Runs :
          dirs[r].kind # "absent" /\ dirs'[r].kind = "absent" /\ faults' = faults =>
              r \notin Protected(catalog) /\ ~IsActive(jobs[r])]_vars

\* A lane that follows the newest available cycle never moves back to an older
\* one, even when hours or runs are lost: the refresh keeps the old catalog
\* until the published runs are valid again.
AvailableLanesAdvance ==
    [][\A lane \in Lanes \ CompleteLanes :
          \A old \in catalog[lane].active :
              \E new \in catalog'[lane].active : Origin[old.run] <= Origin[new.run]]_vars

\* The host implements the abstract job life cycle: recovery and shutdown give
\* an interrupted attempt back, only outcomes spend the retry budget.
Lifecycle == INSTANCE JobLifecycle WITH
    status <- [r \in Runs |->
                 CASE jobs[r].state \in {"queued", "retry_backoff", "retry_due"} -> "waiting"
                   [] jobs[r].state = "running" -> "attempting"
                   [] OTHER -> jobs[r].state],
    spent <- [r \in Runs |->
                 CASE jobs[r].state = "running" -> jobs[r].attempts - 1
                   [] jobs[r].state = "succeeded" -> 0
                   [] OTHER -> jobs[r].attempts]
ImplementsLifecycle == Lifecycle!Spec

\* Every active job reaches a terminal state, unless the scheduler is stopped or
\* a run has an hour outside its plan: no job is stranded by restarts, failed
\* passes, lost files or newer cycles.  A run with such an hour is complete and
\* not queryable; execute_one returns that error with the record running, in
\* every pass anew, and the chunks behind it are never reached.
ActiveJobsSettle ==
    \A r \in Runs :
        IsActive(jobs[r]) ~> \/ ~IsActive(jobs[r]) \/ Stopped
                            \/ \E s \in Runs : dirs[s].extra

\* A cycle that stays the newest one upstream is eventually published, unless
\* the scheduler is stopped, its job used up its attempts or somebody else touched
\* the store.
NewestCyclePublished ==
    \A r \in Runs :
        upstream = Origin[r] ~> \/ r \in Protected(catalog) \/ upstream > Origin[r]
                               \/ jobs[r].state = "failed" \/ tampered # {} \/ Stopped

\* Applied retention keeps returning to a bounded number of state files: per
\* model KeepLatest runs beside the active and the published ones.
StateFilesBounded ==
    []<>(Cardinality(Known \ (Active \cup Protected(catalog)))
            <= KeepLatest * Cardinality(Models))

\* A published run that no longer verifies is eventually complete again.
PublishedRunsRepaired ==
    \A r \in Runs : (r \in Protected(catalog) /\ ~Verifies(dirs[r])) ~> CoverageComplete(dirs[r])

=============================================================================
