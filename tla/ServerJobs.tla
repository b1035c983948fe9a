----------------------------- MODULE ServerJobs -----------------------------
(***************************************************************************)
(* Asynchronous jobs of the server: JobManager of rw-server/src/jobs.rs,   *)
(* the task that routes.rs and observations.rs spawn for each job, and the *)
(* permits of AppState::run_bounded (state.rs).                            *)
(*                                                                         *)
(* A record is written to its file before the map in memory changes, both  *)
(* under the mutex `inner`, so one variable stands for the two.  A task is *)
(* one sequence of sections of that mutex; the mutex objects_guard spans   *)
(* several steps and is a variable.  A job's token outlives its record.    *)
(***************************************************************************)
EXTENDS Integers, FiniteSets

CONSTANTS
    Jobs,        \* identifiers; each is used for at most one request
    Earlier,     \* jobs that succeeded before the server was last started
    Hashes,      \* contents of results
    Nobody,      \* the holder of a free objects_guard
    MaxActive, MaxRecords, Retention,   \* limits of JobManager::open
    Heavy,       \* permits of the semaphore `heavy`
    MaxClock,    \* bound of the clock
    MaxFaults    \* bound of failed file operations and crashes

ASSUME JobsAssumption ==
    /\ IsFiniteSet(Jobs) /\ Nobody \notin Jobs /\ Earlier \subseteq Jobs
    /\ MaxActive \in Nat \ {0} /\ MaxRecords \in Nat \ {0} /\ Retention \in Nat \ {0}
    /\ Cardinality(Earlier) <= MaxRecords
    /\ Heavy \in Nat \ {0} /\ MaxClock \in Nat /\ MaxFaults \in Nat

VARIABLES
    status, updated, artifact,  \* the record of a job; an absent one has no artifact
    token,       \* jobs whose cancellation flag is set
    pc,          \* where the request or the task of a job is
    busy,        \* jobs whose closure runs on a blocking thread
    permits,     \* free permits of `heavy`
    objects,     \* contents stored under objects/
    guard,       \* the job whose request or task holds objects_guard
    referenced,  \* what the holder computed before the collection
    written,     \* the content the holder stored and has not recorded yet
    unsaved,     \* jobs whose task ended because their record could not be written
    up, clock, faults

record == <<status, updated, artifact>>
store == <<objects, guard, referenced, written>>
work == <<busy, permits>>
world == <<up, clock, faults>>
vars == <<status, updated, artifact, token, pc, busy, permits, objects, guard,
          referenced, written, unsaved, up, clock, faults>>

Active == {j \in Jobs : status[j] \in {"queued", "running"}}
Terminal == {j \in Jobs : status[j] \in {"succeeded", "failed", "cancelled"}}
Records == Active \cup Terminal
Statuses == {"absent", "queued", "running", "succeeded", "failed", "cancelled"}

\* Before and after the record exists.
RequestPlaces == {"new", "prune", "admit"}
TaskPlaces == {"spawned", "waiting", "running", "publish", "store", "record",
               "failing", "cancelling"}

TypeOK ==
    /\ status \in [Jobs -> Statuses] /\ updated \in [Jobs -> Nat]
    /\ artifact \in [Jobs -> SUBSET Hashes]
    /\ token \subseteq Jobs /\ busy \subseteq Jobs /\ unsaved \subseteq Jobs
    /\ pc \in [Jobs -> RequestPlaces \cup TaskPlaces \cup {"ended"}]
    /\ permits \in Nat
    /\ objects \subseteq Hashes /\ referenced \subseteq Hashes /\ written \subseteq Hashes
    /\ guard \in Jobs \cup {Nobody}
    /\ up \in BOOLEAN /\ clock \in Nat /\ faults \in Nat

Init ==
    /\ status = [j \in Jobs |-> IF j \in Earlier THEN "succeeded" ELSE "absent"]
    /\ updated = [j \in Jobs |-> 0]
    /\ \E content \in [Earlier -> Hashes] :
        /\ artifact = [j \in Jobs |-> IF j \in Earlier THEN {content[j]} ELSE {}]
        /\ objects = {content[j] : j \in Earlier}
    /\ token = {} /\ busy = {} /\ unsaved = {} /\ permits = Heavy
    /\ pc = [j \in Jobs |-> IF j \in Earlier THEN "ended" ELSE "new"]
    /\ guard = Nobody /\ referenced = {} /\ written = {}
    /\ up = TRUE /\ clock = 0 /\ faults = 0

Go(j, from, to) == up /\ pc[j] = from /\ pc' = [pc EXCEPT ![j] = to]
Fault == faults < MaxFaults /\ faults' = faults + 1
NoFault == UNCHANGED faults

\* persist_view and the assignment to entry.view
Save(j, s, hashes) ==
    /\ status' = [status EXCEPT ![j] = s]
    /\ updated' = [updated EXCEPT ![j] = clock]
    /\ artifact' = [artifact EXCEPT ![j] = hashes]

-----------------------------------------------------------------------------
(* prune_to_limit *)

Expired == {j \in Terminal : updated[j] + Retention < clock}

\* Expired terminal records, then the oldest terminal ones until `target` are
\* left.  Ties are broken by a random identifier.
Selected(sel, target) ==
    LET excess == Cardinality(Records \ Expired) - target
        others == Terminal \ Expired
    IN  /\ Expired \subseteq sel /\ sel \subseteq Terminal
        /\ \A a \in sel \ Expired, b \in Terminal \ sel : updated[a] <= updated[b]
        /\ Cardinality(sel \ Expired) =
              IF excess <= 0 THEN 0
              ELSE IF excess <= Cardinality(others) THEN excess ELSE Cardinality(others)

Remove(sel) ==
    /\ status' = [j \in Jobs |-> IF j \in sel THEN "absent" ELSE status[j]]
    /\ artifact' = [j \in Jobs |-> IF j \in sel THEN {} ELSE artifact[j]]
    /\ updated' = [j \in Jobs |-> IF j \in sel THEN 0 ELSE updated[j]]

\* Mutant: objects_guard is taken only after the references were read.
PruneUnguarded(j) ==
    /\ \E sel \in SUBSET Records :
        /\ Selected(sel, MaxRecords - 1) /\ Remove(sel)
        /\ referenced' = UNION {artifact[k] : k \in Jobs \ sel}
    /\ Go(j, "new", "prune") /\ guard' = j
    /\ UNCHANGED <<token, work, objects, written, unsaved, world>>

\* JobManager::create begins with prune_to_limit, which takes objects_guard for
\* all of its length.  A file that cannot be removed ends the request.
PruneRecords(j) ==
    /\ guard = Nobody
    /\ \E sel \in SUBSET Records :
        /\ Selected(sel, MaxRecords - 1)
        /\ \/ /\ Go(j, "new", "prune") /\ NoFault
              /\ Remove(sel)
              /\ guard' = j
              /\ referenced' = UNION {artifact[k] : k \in Jobs \ sel}
           \/ /\ Go(j, "new", "ended") /\ Fault
              /\ \E done \in SUBSET sel : done # sel /\ Remove(done)
              /\ UNCHANGED <<guard, referenced>>
    /\ UNCHANGED <<token, work, objects, written, unsaved, up, clock>>

\* gc_unreferenced_objects removes one directory after the other.
CollectObject(j) ==
    /\ \/ /\ Go(j, "prune", "prune") /\ NoFault
          /\ \E h \in objects \ referenced : objects' = objects \ {h}
          /\ UNCHANGED <<guard, referenced>>
       \/ /\ Go(j, "prune", "admit") /\ NoFault
          /\ objects \subseteq referenced
          /\ guard' = Nobody /\ referenced' = {} /\ UNCHANGED objects
       \/ /\ Go(j, "prune", "ended") /\ Fault
          /\ ~(objects \subseteq referenced)
          /\ guard' = Nobody /\ referenced' = {} /\ UNCHANGED objects
    /\ UNCHANGED <<record, token, work, written, unsaved, up, clock>>

\* Mutant: create relies on its prune for the number of records.
HasCapacityAfterPrune == Cardinality(Active) < MaxActive

HasCapacity ==
    Cardinality(Records) < MaxRecords /\ Cardinality(Active) < MaxActive

\* The second half of create: the job is recorded and its task spawned, or the
\* request is refused.
Admit(j) ==
    /\ \/ HasCapacity /\ Go(j, "admit", "spawned") /\ Save(j, "queued", {}) /\ NoFault
       \/ ~HasCapacity /\ Go(j, "admit", "ended") /\ UNCHANGED record /\ NoFault
       \/ HasCapacity /\ Go(j, "admit", "ended") /\ UNCHANGED record /\ Fault
    /\ UNCHANGED <<token, work, store, unsaved, up, clock>>

-----------------------------------------------------------------------------
(* The task of a job *)

IsCancelled(j) == j \in token \/ status[j] = "cancelled"

\* The section of `update` writes the record before anything else changes; when
\* the write fails, the task has lost its record.
SaveFails(j, from, to) ==
    /\ Go(j, from, to) /\ Fault /\ UNCHANGED record
    /\ unsaved' = IF to = "ended" THEN unsaved \cup {j} ELSE unsaved

\* mark_running: a cancelled or pruned job ends here.
MarkRunning(j) ==
    /\ \/ /\ status[j] = "queued" /\ ~IsCancelled(j)
          /\ Go(j, "spawned", "waiting") /\ Save(j, "running", {})
          /\ UNCHANGED unsaved /\ NoFault
       \/ /\ IsCancelled(j) \/ status[j] # "queued"
          /\ Go(j, "spawned", "ended") /\ UNCHANGED <<record, unsaved>> /\ NoFault
       \/ status[j] # "absent" /\ SaveFails(j, "spawned", "ended")
    /\ UNCHANGED <<token, work, store, up, clock>>

\* Mutant: the closure starts without a free permit.
AcquireUnchecked(j) ==
    /\ Go(j, "waiting", "running")
    /\ permits' = permits - 1 /\ busy' = busy \cup {j}
    /\ UNCHANGED <<record, token, store, unsaved, world>>

\* run_bounded: the permit moves into the closure of spawn_blocking.
AcquirePermit(j) ==
    /\ permits > 0 /\ Go(j, "waiting", "running")
    /\ permits' = permits - 1 /\ busy' = busy \cup {j}
    /\ UNCHANGED <<record, token, store, unsaved, world>>

\* Mutant: the deadline does not tell the closure.
TimeoutSilent(j) ==
    /\ Go(j, "waiting", "failing") \/ Go(j, "running", "failing")
    /\ UNCHANGED <<token, record, work, store, unsaved, world>>

\* AdmissionTimeout and ExecutionTimeout: the closure keeps its permit, and the
\* task sets the flag for it.
Timeout(j) ==
    /\ Go(j, "waiting", "failing") \/ Go(j, "running", "failing")
    /\ token' = token \cup {j}
    /\ UNCHANGED <<record, work, store, unsaved, world>>

\* wait_for_cancellation in the select! of a temporal-grid task.  An observation
\* task stays until its closure returns.
LeaveOnCancel(j) ==
    /\ j \in token
    /\ Go(j, "waiting", "ended") \/ Go(j, "running", "ended")
    /\ UNCHANGED <<record, token, work, store, unsaved, world>>

\* Mutant: a permit is given back only to a task that still waits.
ReleaseToTask(j) == permits' = IF pc[j] = "running" THEN permits + 1 ELSE permits

\* The permit is dropped when the closure returns or unwinds.
ReleasePermit(j) == permits' = permits + 1

\* The closure returns a result, an error or Cancelled, or it panics (Join), in
\* which case the task sets the flag.  Nobody listens if the task has left.
WorkEnds(j) ==
    /\ up /\ j \in busy
    /\ busy' = busy \ {j} /\ ReleasePermit(j)
    /\ \/ pc[j] = "running" /\ pc' = [pc EXCEPT ![j] = "publish"] /\ UNCHANGED token
       \/ pc[j] = "running" /\ pc' = [pc EXCEPT ![j] = "failing"] /\ UNCHANGED token
       \/ pc[j] = "running" /\ pc' = [pc EXCEPT ![j] = "failing"] /\ token' = token \cup {j}
       \/ pc[j] = "running" /\ j \in token
          /\ pc' = [pc EXCEPT ![j] = "cancelling"] /\ UNCHANGED token
       \/ pc[j] # "running" /\ UNCHANGED <<pc, token>>
    /\ UNCHANGED <<record, store, unsaved, world>>

\* Mutant: a result that is too large ends the task without an outcome.
PublishGivesUp(j) ==
    /\ \/ status[j] = "running" /\ ~IsCancelled(j) /\ Go(j, "publish", "store")
       \/ Go(j, "publish", "ended")
    /\ UNCHANGED <<record, token, work, store, unsaved, world>>

\* succeed_with_hook up to the end of its first section of `inner`.  A result
\* that is too large, or a record that is gone, is an error.
PublishCheck(j) ==
    /\ \/ status[j] = "running" /\ ~IsCancelled(j) /\ Go(j, "publish", "store")
       \/ status[j] # "absent" /\ IsCancelled(j) /\ Go(j, "publish", "ended")
       \/ Go(j, "publish", "failing")
    /\ UNCHANGED <<record, token, work, store, unsaved, world>>

\* The object becomes visible under objects_guard.
StoreObject(j) ==
    /\ guard = Nobody
    /\ \/ /\ Go(j, "store", "record") /\ NoFault
          /\ \E h \in Hashes : objects' = objects \cup {h} /\ written' = {h}
          /\ guard' = j
       \/ /\ Go(j, "store", "failing") /\ Fault
          /\ UNCHANGED <<objects, written, guard>>
    /\ UNCHANGED <<record, token, work, referenced, unsaved, up, clock>>

\* Mutant: success is recorded whatever was asked meanwhile.
MayRecordAlways(j) == status[j] # "absent"

\* The checks of the closure given to `update` by succeed_with_hook.
MayRecord(j) == status[j] = "running" /\ ~IsCancelled(j)

\* The second section: the record references the object, unless the job was
\* cancelled while the object was written.
RecordArtifact(j) ==
    /\ \/ /\ MayRecord(j) /\ Go(j, "record", "ended")
          /\ Save(j, "succeeded", written) /\ UNCHANGED unsaved /\ NoFault
       \/ /\ ~MayRecord(j) /\ IsCancelled(j) /\ status[j] # "absent"
          /\ Go(j, "record", "ended")
          /\ UNCHANGED <<record, unsaved>> /\ NoFault
       \/ /\ ~MayRecord(j) /\ (status[j] = "absent" \/ ~IsCancelled(j))
          /\ Go(j, "record", "failing")
          /\ UNCHANGED <<record, unsaved>> /\ NoFault
       \/ status[j] # "absent" /\ SaveFails(j, "record", "failing")
    /\ guard' = Nobody /\ written' = {}
    /\ UNCHANGED <<token, work, objects, referenced, up, clock>>

\* Mutant: a job whose flag is set is left as it is.
MayFailUncancelled(j) == status[j] \in {"queued", "running"} /\ j \notin token

MayFail(j) == status[j] \in {"queued", "running"}

\* JobManager::fail keeps a cancelled job cancelled.
Fail(j) ==
    /\ \/ /\ MayFail(j) /\ Go(j, "failing", "ended")
          /\ Save(j, "failed", artifact[j]) /\ UNCHANGED unsaved /\ NoFault
       \/ /\ ~MayFail(j) /\ Go(j, "failing", "ended")
          /\ UNCHANGED <<record, unsaved>> /\ NoFault
       \/ status[j] # "absent" /\ SaveFails(j, "failing", "ended")
    /\ UNCHANGED <<token, work, store, up, clock>>

\* JobManager::cancel as the task calls it when its closure saw the flag.
CancelSelf(j) ==
    /\ \/ /\ status[j] \in {"queued", "running"} /\ Go(j, "cancelling", "ended")
          /\ Save(j, "cancelled", artifact[j]) /\ UNCHANGED unsaved /\ NoFault
       \/ /\ status[j] \notin {"queued", "running"} /\ Go(j, "cancelling", "ended")
          /\ UNCHANGED <<record, unsaved>> /\ NoFault
       \/ status[j] # "absent" /\ SaveFails(j, "cancelling", "ended")
    /\ UNCHANGED <<token, work, store, up, clock>>

\* DELETE /v1/jobs/{id}.  A job that has ended keeps its state.
CancelRequest(j) ==
    /\ up /\ status[j] \in {"queued", "running"}
    /\ Save(j, "cancelled", artifact[j])
    /\ token' = token \cup {j}
    /\ UNCHANGED <<pc, work, store, unsaved, world>>

-----------------------------------------------------------------------------
(* Restart *)

\* Tasks, permits, flags and locks are gone.  A record that was not written is
\* as good as any other: it is on disk.
Crash ==
    /\ up /\ Fault /\ up' = FALSE
    /\ pc' = [j \in Jobs |-> IF pc[j] = "new" THEN "new" ELSE "ended"]
    /\ token' = {} /\ busy' = {} /\ permits' = Heavy /\ unsaved' = {}
    /\ guard' = Nobody /\ referenced' = {} /\ written' = {}
    /\ UNCHANGED <<record, objects, clock>>

\* JobManager::open: interrupted jobs are saved as failed, then prune(); nothing
\* else runs yet.
Interrupt(some) ==
    /\ status' = [j \in Jobs |-> IF j \in some THEN "failed" ELSE status[j]]
    /\ updated' = [j \in Jobs |-> IF j \in some THEN clock ELSE updated[j]]
    /\ UNCHANGED artifact

\* A file or a directory that cannot be removed ends prune, and with it open.
PruneStops(sel) ==
    \/ (\E done \in SUBSET sel : done # sel /\ Remove(done)) /\ UNCHANGED objects
    \/ LET kept == UNION {artifact[k] : k \in Jobs \ sel}
       IN  Remove(sel) /\ \E gone \in SUBSET (objects \ kept) :
                            gone # objects \ kept /\ objects' = objects \ gone

Open ==
    /\ ~up
    /\ \/ /\ Active # {} /\ Interrupt(Active) /\ UNCHANGED <<objects, up>> /\ NoFault
       \/ /\ Active # {} /\ Fault
          /\ \E some \in SUBSET Active : some # Active /\ Interrupt(some)
          /\ UNCHANGED <<objects, up>>
       \/ /\ Active = {} /\ NoFault
          /\ \E sel \in SUBSET Records :
                /\ Selected(sel, MaxRecords) /\ Remove(sel)
                /\ objects' = objects \cap UNION {artifact[k] : k \in Jobs \ sel}
          /\ up' = TRUE
       \/ /\ Active = {} /\ Fault /\ UNCHANGED up
          /\ \E sel \in SUBSET Records : Selected(sel, MaxRecords) /\ PruneStops(sel)
    /\ UNCHANGED <<token, pc, work, guard, referenced, written, unsaved, clock>>

Tick ==
    /\ clock < MaxClock /\ clock' = clock + 1
    /\ UNCHANGED <<record, token, pc, work, store, unsaved, up, faults>>

-----------------------------------------------------------------------------
Request(j) == PruneRecords(j) \/ CollectObject(j) \/ Admit(j)
Task(j) ==
    \/ MarkRunning(j) \/ AcquirePermit(j) \/ Timeout(j) \/ LeaveOnCancel(j)
    \/ PublishCheck(j) \/ StoreObject(j) \/ RecordArtifact(j)
    \/ Fail(j) \/ CancelSelf(j)

Next ==
    \/ \E j \in Jobs : Request(j) \/ Task(j) \/ WorkEnds(j) \/ CancelRequest(j)
    \/ Crash \/ Open \/ Tick

Spec == Init /\ [][Next]_vars

\* Requests and tasks that can run do run; closures return, for they finish or
\* reach a checkpoint; a server that is down is started again.
FairSpec ==
    /\ Spec /\ WF_vars(Open)
    /\ \A j \in Jobs : /\ WF_vars(CollectObject(j)) /\ WF_vars(Admit(j))
                       /\ WF_vars(Task(j)) /\ WF_vars(WorkEnds(j))

-----------------------------------------------------------------------------
(* Properties *)

\* The object of a succeeded job is stored for as long as its record exists:
\* the collection of create and open never removes what a concurrent
\* publication of the same content is about to reference.
ArtifactsKept ==
    \A j \in Jobs : /\ artifact[j] \subseteq objects
                    /\ status[j] = "succeeded" => artifact[j] # {}

\* A closure that runs on although its task has left, or its job has ended, has
\* been told to stop: its flag is set.
AbandonedWorkSignalled ==
    \A j \in busy : pc[j] # "running" \/ j \notin Active => j \in token

\* Permits are neither lost nor doubled by deadlines, cancellations and panics:
\* what is not free is held by a running closure.
PermitsConserved == permits + Cardinality(busy) = Heavy

\* Admission keeps both limits although create prunes and inserts in separate
\* sections.
CapacityKept ==
    Cardinality(Active) <= MaxActive /\ Cardinality(Records) <= MaxRecords

\* A job that is queued or running has a task that will end it, unless the write
\* of its record has failed.
ActiveHasTask ==
    up => \A j \in Active : pc[j] \in TaskPlaces \/ j \in unsaved

\* A job that has ended is never changed again, only removed: success never
\* replaces a cancellation, whichever section of `inner` comes first.
EndedIsFinal ==
    [][\A j \in Terminal : \/ status'[j] = "absent"
                           \/ /\ status'[j] = status[j]
                              /\ artifact'[j] = artifact[j]]_vars

\* Every accepted job ends, also if it never gets a permit, its closure hangs
\* past the deadline or the server restarts, unless its record could not be
\* written.
JobsSettle ==
    \A j \in Jobs : j \in Active ~> (j \notin Active \/ j \in unsaved)

=============================================================================
