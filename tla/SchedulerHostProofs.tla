------------------------ MODULE SchedulerHostProofs -------------------------
(***************************************************************************)
(* Proofs about the scheduler host for any number of runs, models, lanes   *)
(* and hours, any capacity, retry budget and number of faults.             *)
(***************************************************************************)
EXTENDS SchedulerHost, FiniteSetTheorems, TLAPS

\* A running record has its attempt charged, so that recovery can give it back.
RunningCharged == \A r \in Runs : jobs[r].state = "running" => jobs[r].attempts >= 1

\* A thread past start works on a record that is running on disk.
Working == {"space", "claim", "marker", "inspect", "ingest", "complete", "incomplete", "failed"}
ThreadsRun == \A r \in Runs : stage[r] \in Working => jobs[r].state = "running"

\* Threads exist only while a chunk executes.
ThreadsJoined == pc # "execute" => \A r \in Runs : stage[r] = "none"

TypeInv == TypeOK /\ RunningCharged /\ ThreadsRun /\ ThreadsJoined

-----------------------------------------------------------------------------
(* Facts about the operators.                                              *)

\* What a fault does to the counter.
LEMMA FaultType == ASSUME NEW k, TypeOK, Fault(k) PROVE faults' \in 0 .. MaxFaults
BY HostAssumption DEF Fault, TypeOK

\* The record operations keep the type of a record.
LEMMA RecordTypes ==
  ASSUME NEW job \in JobRecord
  PROVE  /\ NewRecord \in JobRecord
         /\ CanStart(job) => Start(job) \in JobRecord
         /\ FinishSuccess(job) \in JobRecord
         /\ FinishFailure(job) \in JobRecord
         /\ ReleaseRetry(job) \in JobRecord
         /\ job.attempts >= 1 => RecoverAfterRestart(job) \in JobRecord
<1> USE MaxAttemptsAssumption DEF JobRecord, JobStates
<1>1. NewRecord \in JobRecord
  BY DEF NewRecord
<1>2. CanStart(job) => Start(job) \in JobRecord
  BY DEF CanStart, Start
<1>3. FinishSuccess(job) \in JobRecord
  BY DEF FinishSuccess
<1>4. FinishFailure(job) \in JobRecord
  BY DEF FinishFailure
<1>5. ReleaseRetry(job) \in JobRecord
  BY DEF ReleaseRetry
<1>6. ASSUME job.attempts >= 1 PROVE RecoverAfterRestart(job) \in JobRecord
  <2>1. job.attempts - 1 \in 0 .. MaxAttempts
    BY <1>6
  <2> QED BY Zenon, <2>1 DEF RecoverAfterRestart
<1> QED BY <1>1, <1>2, <1>3, <1>4, <1>5, <1>6

\* Only candidates are published.
LEMMA PublishedAreCandidates ==
  ASSUME NEW S, NEW d
  PROVE  Protected(FromCandidates(S, d)) \subseteq S
BY DEF Protected, Published, FromCandidates, LaneGenerations, GenerationOf, Newest

\* Publication keeps the type of the catalog.
LEMMA CatalogType ==
  ASSUME NEW S \in SUBSET Runs, NEW d \in [Runs -> RunDir]
  PROVE  FromCandidates(S, d) \in [Lanes -> PublishedLane]
<1>1. \A r \in Runs : GenerationOf(r, d) \in Generation
  <2> SUFFICES ASSUME NEW r \in Runs PROVE GenerationOf(r, d) \in Generation
    OBVIOUS
  <2>1. CoverageComplete(d[r]) \in BOOLEAN
    BY DEF CoverageComplete
  <2>2. Present(d[r]) \in SUBSET Hours
    BY DEF Present, RunDir
  <2> QED BY <2>1, <2>2 DEF GenerationOf, Generation
<1>2. \A lane \in Lanes : LaneGenerations(lane, S, d) \in PublishedLane
  BY <1>1 DEF LaneGenerations, PublishedLane, Newest
<1> QED BY <1>2 DEF FromCandidates

-----------------------------------------------------------------------------
(* Type correctness.                                                       *)

\* The initial state is well typed and has no threads.
LEMMA TypeInit == Init => TypeInv
<1> SUFFICES ASSUME Init PROVE TypeInv
  OBVIOUS
<1>1. NoDir \in RunDir
  BY DEF NoDir, RunDir, DirKinds
<1>2. catalog \in [Lanes -> PublishedLane]
  BY DEF Init, EmptyCatalog, PublishedLane
<1>3. TypeOK
  <2>1. /\ jobs \in [Runs -> JobRecord \cup {NoJob}]
        /\ dirs \in [Runs -> RunDir]
        /\ stage \in [Runs -> Stages]
    BY <1>1 DEF Init, Stages
  <2>2. upstream \in Nat /\ faults \in 0 .. MaxFaults
    BY HostAssumption DEF Init
  <2>3. cancelled \in BOOLEAN /\ pc \in Phases /\ pid \in Pids
    BY Zenon DEF Init, Phases
  <2> QED BY <1>2, <2>1, <2>2, <2>3 DEF Init, TypeOK
<1>4. RunningCharged /\ ThreadsRun /\ ThreadsJoined
  BY DEF Init, RunningCharged, ThreadsRun, ThreadsJoined, NoJob, Working
<1> QED BY <1>3, <1>4 DEF TypeInv

\* The end of a pass clears the memory of the pass.
LEMMA EndPassType ==
  ASSUME EndPass, cancelled \in BOOLEAN
  PROVE  /\ pc' \in Phases /\ cancelled' \in BOOLEAN
         /\ fresh' \subseteq Runs /\ recs' \subseteq Runs /\ runnable' \subseteq Runs
         /\ stage' \in [Runs -> Stages]
         /\ doomed' \subseteq Runs /\ prunable' \subseteq Runs
         /\ pc' = "down" /\ \A r \in Runs : stage'[r] = "none"
<1>1. pc' \in Phases /\ cancelled' \in BOOLEAN
  BY Zenon DEF EndPass, Phases
<1> QED BY <1>1 DEF EndPass, Stages

\* A step that leaves records and threads alone keeps what relates them.
LEMMA FrameThreads ==
  ASSUME TypeInv, UNCHANGED <<jobs, stage>>, pc' = "execute" => pc = "execute",
         pc = "execute" => pc' = "execute"
  PROVE  RunningCharged' /\ ThreadsRun' /\ ThreadsJoined'
BY DEF TypeInv, RunningCharged, ThreadsRun, ThreadsJoined

\* A step outside the execution of a chunk that saves one record.
LEMMA SaveOutsideChunk ==
  ASSUME TypeInv, NEW r \in Runs, NEW job \in JobRecord \cup {NoJob},
         jobs' = [jobs EXCEPT ![r] = job], stage' = stage,
         job.state = "running" => job.attempts >= 1,
         pc # "execute", pc' # "execute"
  PROVE  /\ jobs' \in [Runs -> JobRecord \cup {NoJob}]
         /\ RunningCharged' /\ ThreadsRun' /\ ThreadsJoined'
<1>1. \A s \in Runs : stage'[s] = "none"
  BY DEF TypeInv, ThreadsJoined
<1>2. jobs' \in [Runs -> JobRecord \cup {NoJob}]
  BY DEF TypeInv, TypeOK
<1>3. RunningCharged'
  BY DEF TypeInv, TypeOK, RunningCharged
<1>4. ThreadsRun' /\ ThreadsJoined'
  BY <1>1 DEF ThreadsRun, ThreadsJoined, Working
<1> QED BY <1>2, <1>3, <1>4

\* A step that ends the pass and leaves the records alone.
LEMMA EndPassThreads ==
  ASSUME TypeInv, EndPass, UNCHANGED jobs
  PROVE  RunningCharged' /\ ThreadsRun' /\ ThreadsJoined'
<1>1. pc' = "down" /\ \A r \in Runs : stage'[r] = "none"
  BY EndPassType DEF TypeInv, TypeOK
<1> QED BY <1>1 DEF TypeInv, RunningCharged, ThreadsRun, ThreadsJoined, Working

\* Recovery, admission and classification keep the types.
LEMMA AdmissionType ==
  ASSUME TypeInv,
         \/ \E p \in Pids : StartPass(p)
         \/ RecoverRunning \/ AdmitDiscovered \/ PersistAdmitted \/ PersistDone
         \/ ClassifyRecord \/ ClassifyDone
  PROVE  TypeInv'
<1>0. TypeOK
  BY DEF TypeInv
<1>1. ASSUME NEW p \in Pids, StartPass(p) PROVE TypeInv'
  <2>1. RunningCharged' /\ ThreadsRun' /\ ThreadsJoined'
    BY <1>1, FrameThreads DEF StartPass, LeaseFree, durable, work
  <2>2. TypeOK'
    BY <1>0, <1>1 DEF TypeOK, StartPass, durable, work, Phases
  <2> QED BY <2>1, <2>2 DEF TypeInv
<1>2. CASE RecoverRunning
  <2>1. PICK r \in Least(Interrupted) : jobs' = [jobs EXCEPT ![r] = RecoverAfterRestart(jobs[r])]
    BY Zenon, <1>2 DEF RecoverRunning
  <2>2. r \in Runs /\ jobs[r].state = "running"
    BY <2>1 DEF Least, Interrupted
  <2>3. jobs[r] \in JobRecord /\ jobs[r].attempts >= 1
    BY <2>2, <1>0 DEF TypeInv, TypeOK, RunningCharged, NoJob
  <2>4. RecoverAfterRestart(jobs[r]) \in JobRecord
    BY <2>3, RecordTypes
  <2>5. RecoverAfterRestart(jobs[r]).state # "running"
    BY <2>3 DEF RecoverAfterRestart, JobRecord
  <2>6. pc # "execute" /\ pc' # "execute" /\ stage' = stage
    BY <1>2 DEF RecoverRunning, work
  <2>7. jobs' \in [Runs -> JobRecord \cup {NoJob}] /\ RunningCharged' /\ ThreadsRun' /\ ThreadsJoined'
    BY Zenon, <2>1, <2>2, <2>4, <2>5, <2>6, SaveOutsideChunk
  <2>8. TypeOK'
    BY SMTT(30), <1>0, <1>2, <2>7 DEF TypeOK, RecoverRunning, work
  <2> QED BY <2>7, <2>8 DEF TypeInv
<1>3. CASE AdmitDiscovered
  <2>1. faults' \in 0 .. MaxFaults
    BY <1>0, <1>3, FaultType DEF AdmitDiscovered, DiscoveredRuns, TypeOK
  <2>2. CASE EndPass
    <3>1. RunningCharged' /\ ThreadsRun' /\ ThreadsJoined'
      BY <1>3, <2>2, EndPassThreads DEF AdmitDiscovered, durable
    <3>2. TypeOK'
      BY <1>0, <1>3, <2>1, <2>2, EndPassType DEF TypeOK, AdmitDiscovered, durable
    <3> QED BY <3>1, <3>2 DEF TypeInv
  <2>3. CASE pc' = "persist" /\ fresh' \subseteq Runs /\ recs' \subseteq Runs
             /\ UNCHANGED <<cancelled, runnable, stage, doomed, prunable>>
    <3>1. pc = "recover" /\ UNCHANGED <<durable, upstream, tampered, pid>>
      BY <1>3 DEF AdmitDiscovered
    <3>2. RunningCharged' /\ ThreadsRun' /\ ThreadsJoined'
      BY <2>3, <3>1, FrameThreads DEF durable
    <3>3. TypeOK'
      BY <1>0, <2>1, <2>3, <3>1 DEF TypeOK, durable, Phases
    <3> QED BY <3>2, <3>3 DEF TypeInv
  <2> QED BY <1>3, <2>2, <2>3 DEF AdmitDiscovered, Active, Known
<1>4. CASE PersistAdmitted
  <2>1. PICK r \in fresh : jobs' = [jobs EXCEPT ![r] = NewRecord] /\ fresh' = fresh \ {r}
    BY Zenon, <1>4 DEF PersistAdmitted
  <2>2. r \in Runs
    BY <1>0, <2>1 DEF TypeOK
  <2>3. NewRecord \in JobRecord /\ NewRecord.state # "running"
    BY MaxAttemptsAssumption DEF NewRecord, JobRecord, JobStates
  <2>4. pc # "execute" /\ pc' # "execute" /\ stage' = stage
    BY <1>4 DEF PersistAdmitted
  <2>5. jobs' \in [Runs -> JobRecord \cup {NoJob}] /\ RunningCharged' /\ ThreadsRun' /\ ThreadsJoined'
    BY Zenon, <2>1, <2>2, <2>3, <2>4, SaveOutsideChunk
  <2>6. TypeOK'
    BY <1>0, <1>4, <2>1, <2>5 DEF TypeOK, PersistAdmitted
  <2> QED BY <2>5, <2>6 DEF TypeInv
<1>5. CASE PersistDone
  <2>1. RunningCharged' /\ ThreadsRun' /\ ThreadsJoined'
    BY <1>5, FrameThreads DEF PersistDone, durable, work
  <2>2. TypeOK'
    BY <1>0, <1>5 DEF TypeOK, PersistDone, durable, work, Phases
  <2> QED BY <2>1, <2>2 DEF TypeInv
<1>6. CASE ClassifyRecord
  <2>1. PICK r \in Least(recs) : /\ recs' = recs \ {r}
                                 /\ jobs' = [jobs EXCEPT ![r] = Classified(r)]
                                 /\ runnable' \in {runnable, runnable \cup {r}}
    BY Zenon, <1>6 DEF ClassifyRecord
  <2>2. r \in Runs /\ jobs[r] \in JobRecord \cup {NoJob}
    BY <1>0, <2>1 DEF Least, TypeOK
  <2>3. Classified(r) \in {ReleaseRetry(jobs[r]), NewRecord, jobs[r]}
    BY DEF Classified, RequeueForRepair
  <2>4. jobs[r].state # "none" => jobs[r] \in JobRecord
    BY <2>2 DEF NoJob
  <2>5. /\ Classified(r) \in JobRecord \cup {NoJob}
        /\ Classified(r).state = "running" => Classified(r).attempts >= 1
    <3>1. CASE jobs[r].state = "retry_due"
      BY <3>1, <2>4, RecordTypes DEF Classified, ReleaseRetry, JobRecord
    <3>2. CASE Classified(r) = NewRecord
      BY <3>2, MaxAttemptsAssumption DEF NewRecord, JobRecord, JobStates
    <3>3. CASE Classified(r) = jobs[r]
      BY <3>3, <2>2 DEF TypeInv, RunningCharged
    <3> QED BY <3>1, <3>2, <3>3 DEF Classified, RequeueForRepair
  <2>6. pc # "execute" /\ pc' # "execute" /\ stage' = stage
    BY <1>6 DEF ClassifyRecord
  <2>7. jobs' \in [Runs -> JobRecord \cup {NoJob}] /\ RunningCharged' /\ ThreadsRun' /\ ThreadsJoined'
    BY Zenon, <2>1, <2>2, <2>5, <2>6, SaveOutsideChunk
  <2>8. TypeOK'
    BY <1>0, <1>6, <2>1, <2>2, <2>7 DEF TypeOK, ClassifyRecord
  <2> QED BY <2>7, <2>8 DEF TypeInv
<1>7. CASE ClassifyDone
  <2>1. RunningCharged' /\ ThreadsRun' /\ ThreadsJoined'
    BY <1>7, FrameThreads DEF ClassifyDone, durable, work
  <2>2. TypeOK'
    BY <1>0, <1>7 DEF TypeOK, ClassifyDone, durable, work, Phases
  <2> QED BY <2>1, <2>2 DEF TypeInv
<1> QED BY SMTT(30), <1>1, <1>2, <1>3, <1>4, <1>5, <1>6, <1>7

\* Starting and joining a chunk keep the types.
LEMMA ChunkType ==
  ASSUME TypeInv, StartChunk \/ ChunksDone \/ ChunkEnds
  PROVE  TypeInv'
<1>0. TypeOK
  BY DEF TypeInv
<1>1. CASE StartChunk
  <2>1. stage' \in [Runs -> Stages] /\ \A r \in Runs : stage'[r] \in {"none", "start"}
    BY <1>1 DEF StartChunk, Stages
  <2>2. RunningCharged' /\ ThreadsRun' /\ ThreadsJoined'
    BY <1>1, <2>1 DEF TypeInv, RunningCharged, ThreadsRun, ThreadsJoined, Working, StartChunk, durable
  <2>3. TypeOK'
    BY <1>0, <1>1, <2>1 DEF TypeOK, StartChunk, durable, Phases
  <2> QED BY <2>2, <2>3 DEF TypeInv
<1>2. CASE ChunksDone
  <2>1. RunningCharged' /\ ThreadsRun' /\ ThreadsJoined'
    BY <1>2, FrameThreads DEF ChunksDone, durable, work
  <2>2. TypeOK'
    BY <1>0, <1>2 DEF TypeOK, ChunksDone, durable, work, Phases
  <2> QED BY <2>1, <2>2 DEF TypeInv
<1>3. CASE ChunkEnds
  <2>0. UNCHANGED <<durable, upstream, faults, tampered, pid>>
    BY <1>3 DEF ChunkEnds
  <2>1. CASE EndPass
    <3>1. RunningCharged' /\ ThreadsRun' /\ ThreadsJoined'
      BY <2>0, <2>1, EndPassThreads DEF durable
    <3>2. TypeOK'
      BY <1>0, <2>0, <2>1, EndPassType DEF TypeOK, durable
    <3> QED BY <3>1, <3>2 DEF TypeInv
  <2>2. CASE /\ pc' \in {"publish", "chunk"} /\ runnable' \in {{}, runnable}
             /\ stage' = [r \in Runs |-> "none"]
             /\ UNCHANGED <<cancelled, fresh, recs, doomed, prunable>>
    <3>1. stage' \in [Runs -> Stages] /\ \A r \in Runs : stage'[r] = "none"
      BY <2>2 DEF Stages
    <3>2. RunningCharged' /\ ThreadsRun' /\ ThreadsJoined'
      BY <2>0, <3>1 DEF TypeInv, RunningCharged, ThreadsRun, ThreadsJoined, Working, durable
    <3>3. TypeOK'
      BY <1>0, <2>0, <2>2, <3>1 DEF TypeOK, durable, Phases
    <3> QED BY <3>2, <3>3 DEF TypeInv
  <2> QED BY <1>3, <2>1, <2>2 DEF ChunkEnds
<1> QED BY <1>1, <1>2, <1>3

\* A thread that moves and leaves the records alone.
LEMMA ThreadType ==
  ASSUME TypeInv, pc = "execute",
         NEW r \in Runs, NEW from, NEW to \in Stages, Thread(r, from, to),
         to \in Working => from \in Working,
         jobs' = jobs, dirs' \in [Runs -> RunDir], faults' \in 0 .. MaxFaults
  PROVE  TypeInv'
<1>1. stage' \in [Runs -> Stages]
  BY DEF Thread, TypeInv, TypeOK
<1>2. TypeOK'
  BY <1>1 DEF Thread, TypeInv, TypeOK
<1>3. RunningCharged' /\ ThreadsJoined'
  BY DEF Thread, TypeInv, RunningCharged, ThreadsJoined
<1>4. ThreadsRun'
  BY DEF Thread, TypeInv, TypeOK, ThreadsRun
<1> QED BY <1>2, <1>3, <1>4 DEF TypeInv

\* A thread that saves the record of its own job.
LEMMA ThreadSaves ==
  ASSUME TypeInv, pc = "execute",
         NEW r \in Runs, NEW from, NEW to \in Stages, Thread(r, from, to),
         NEW job \in JobRecord, jobs' = [jobs EXCEPT ![r] = job],
         job.state = "running" => job.attempts >= 1,
         to \in Working => job.state = "running",
         dirs' = dirs, faults' = faults
  PROVE  TypeInv'
<1>1. stage' \in [Runs -> Stages] /\ jobs' \in [Runs -> JobRecord \cup {NoJob}]
  BY DEF Thread, TypeInv, TypeOK
<1>2. TypeOK'
  BY <1>1 DEF Thread, TypeInv, TypeOK
<1>3. RunningCharged' /\ ThreadsJoined'
  BY DEF Thread, TypeInv, TypeOK, RunningCharged, ThreadsJoined
<1>4. ThreadsRun'
  BY DEF Thread, TypeInv, TypeOK, ThreadsRun
<1> QED BY <1>2, <1>3, <1>4 DEF TypeInv

\* Every step of execute_one keeps the types.
LEMMA ExecuteType ==
  ASSUME TypeInv, NEW r \in Runs, ExecuteOne(r)
  PROVE  TypeInv'
<1>0. /\ pc = "execute" /\ dirs \in [Runs -> RunDir] /\ dirs[r] \in RunDir
      /\ faults \in 0 .. MaxFaults /\ jobs[r] \in JobRecord \cup {NoJob}
  BY DEF TypeInv, TypeOK, ExecuteOne
<1>1. CASE StartJob(r)
  <2>1. CASE CanStart(jobs[r])
    <3>1. jobs[r] \in JobRecord
      BY <1>0, <2>1 DEF CanStart, NoJob
    <3>2. Start(jobs[r]) \in JobRecord
      BY <2>1, <3>1, RecordTypes
    <3>3. Start(jobs[r]).attempts >= 1
      BY <3>1 DEF Start, JobRecord
    <3>4. Thread(r, "start", "space") /\ jobs' = [jobs EXCEPT ![r] = Start(jobs[r])]
          /\ dirs' = dirs /\ faults' = faults
      BY <1>1, <2>1 DEF StartJob
    <3>5. Start(jobs[r]).state = "running" /\ "space" \in Stages
      BY DEF Start, Stages
    <3> QED BY Zenon, <1>0, <3>2, <3>3, <3>4, <3>5, ThreadSaves
  <2>2. CASE ~CanStart(jobs[r])
    <3>1. Thread(r, "start", "error") /\ jobs' = jobs /\ dirs' = dirs /\ faults' = faults
      BY <1>1, <2>2 DEF StartJob
    <3> QED BY <1>0, <3>1, ThreadType DEF Stages, Working
  <2> QED BY <2>1, <2>2
<1>2. CASE CheckSpace(r)
  <2>1. faults' \in 0 .. MaxFaults /\ jobs' = jobs /\ dirs' = dirs
    BY <1>0, <1>2, FaultType DEF CheckSpace, TypeInv
  <2>2. Thread(r, "space", "claim") \/ Thread(r, "space", "failed")
    BY <1>2 DEF CheckSpace
  <2> QED BY <1>0, <2>1, <2>2, ThreadType DEF Stages, Working
<1>3. CASE ClaimRun(r)
  <2>1. dirs' \in [Runs -> RunDir]
    BY <1>0, <1>3 DEF ClaimRun, RunDir, DirKinds
  <2>2. \/ Thread(r, "claim", "claim") \/ Thread(r, "claim", "marker")
        \/ Thread(r, "claim", "failed") \/ Thread(r, "claim", "inspect")
    BY <1>3 DEF ClaimRun
  <2>3. jobs' = jobs /\ faults' = faults
    BY <1>3 DEF ClaimRun
  <2> QED BY <1>0, <2>1, <2>2, <2>3, ThreadType DEF Stages, Working
<1>4. CASE RenameMarker(r)
  <2>1. dirs' \in [Runs -> RunDir]
    BY <1>0, <1>4 DEF RenameMarker, RunDir, DirKinds
  <2> QED BY <1>0, <1>4, <2>1, ThreadType DEF RenameMarker, Stages, Working
<1>5. CASE InspectRun(r)
  <2>1. PICK to \in {"failed", "complete", "ingest"} : Thread(r, "inspect", to)
    BY <1>5 DEF InspectRun
  <2> QED BY <1>0, <1>5, <2>1, ThreadType DEF InspectRun, Stages, Working
<1>6. CASE IngestHour(r)
  <2>1. PICK h \in Hours :
          dirs' = [dirs EXCEPT ![r].manifest = {Present(dirs[r]) \cup {h}},
                               ![r].files = @ \cup {h}]
    BY Zenon, <1>6 DEF IngestHour
  <2>2. Present(dirs[r]) \in SUBSET Hours
    BY <1>0 DEF Present, RunDir
  <2>3. dirs' \in [Runs -> RunDir]
    BY ZenonT(30), <1>0, <2>1, <2>2 DEF RunDir
  <2> QED BY <1>0, <1>6, <2>3, ThreadType DEF IngestHour, Stages, Working
<1>7. CASE IngestFails(r)
  <2>1. faults' \in 0 .. MaxFaults /\ jobs' = jobs /\ dirs' = dirs
    BY <1>0, <1>7, FaultType DEF IngestFails, TypeInv
  <2> QED BY <1>0, <1>7, <2>1, ThreadType DEF IngestFails, Stages, Working
<1>8. CASE IngestReturns(r)
  <2>1. PICK to \in {"failed", "complete", "error"} : Thread(r, "ingest", to)
    BY <1>8 DEF IngestReturns
  <2> QED BY <1>0, <1>8, <2>1, ThreadType DEF IngestReturns, Stages, Working
<1>9. CASE ExecutionFallsShort(r)
  <2>1. faults' \in 0 .. MaxFaults /\ jobs' = jobs /\ dirs' = dirs
    BY <1>0, <1>9, FaultType DEF ExecutionFallsShort, TypeInv
  <2> QED BY <1>0, <1>9, <2>1, ThreadType DEF ExecutionFallsShort, Stages, Working
<1>10. CASE FinishJob(r)
  <2>1. stage[r] \in Working
    BY <1>10 DEF FinishJob, Thread, Working
  <2>2. jobs[r].state = "running" /\ jobs[r].attempts >= 1
    BY <2>1 DEF TypeInv, ThreadsRun, RunningCharged
  <2>3. jobs[r] \in JobRecord
    BY <1>0, <2>2 DEF NoJob
  <2>4. \/ /\ jobs' = jobs /\ Thread(r, "complete", "error") /\ faults' \in 0 .. MaxFaults
        \/ /\ \E job \in {FinishSuccess(jobs[r]), FinishFailure(jobs[r]),
                          RecoverAfterRestart(jobs[r])} : jobs' = [jobs EXCEPT ![r] = job]
           /\ faults' = faults
           /\ \E from \in Working : Thread(r, from, "ended")
    BY <1>0, <1>10, FaultType DEF FinishJob, TypeInv, Working
  <2>5. dirs' = dirs
    BY <1>10 DEF FinishJob
  <2>6. CASE jobs' = jobs /\ Thread(r, "complete", "error") /\ faults' \in 0 .. MaxFaults
    BY <1>0, <2>5, <2>6, ThreadType DEF Stages, Working
  <2>7. ASSUME NEW job \in {FinishSuccess(jobs[r]), FinishFailure(jobs[r]),
                            RecoverAfterRestart(jobs[r])},
               jobs' = [jobs EXCEPT ![r] = job], faults' = faults,
               NEW from \in Working, Thread(r, from, "ended")
        PROVE  TypeInv'
    <3>1. job \in JobRecord
      BY <2>2, <2>3, <2>7, RecordTypes
    <3>2. job.state # "running"
      BY Zenon, <2>3, <2>7 DEF FinishSuccess, FinishFailure, RecoverAfterRestart, JobRecord
    <3>3. "ended" \in Stages /\ "ended" \notin Working
      BY DEF Stages, Working
    <3> QED BY Zenon, <1>0, <2>5, <2>7, <3>1, <3>2, <3>3, ThreadSaves
  <2> QED BY <2>4, <2>6, <2>7
<1> QED BY <1>1, <1>2, <1>3, <1>4, <1>5, <1>6, <1>7, <1>8, <1>9, <1>10 DEF ExecuteOne

\* Publication and retention keep the types.
LEMMA RetentionType ==
  ASSUME TypeInv,
         RefreshCatalog \/ RetainRun \/ SweepTombstone \/ RetainDone \/ PruneState \/ FinishPass
  PROVE  TypeInv'
<1>0. TypeOK
  BY DEF TypeInv
<1>1. CASE RefreshCatalog
  <2>0. UNCHANGED <<jobs, dirs, tombs, upstream, faults, tampered, pid>> /\ pc = "publish"
    BY <1>1 DEF RefreshCatalog
  <2>1. catalog' \in [Lanes -> PublishedLane]
    <3>1. Candidates(Known, dirs) \in SUBSET Runs
      BY DEF Candidates, Known
    <3>2. catalog' = catalog \/ catalog' = FromCandidates(Candidates(Known, dirs), dirs)
      BY <1>1 DEF RefreshCatalog
    <3> QED BY Zenon, <1>0, <3>1, <3>2, CatalogType DEF TypeOK
  <2>2. CASE EndPass
    <3>1. RunningCharged' /\ ThreadsRun' /\ ThreadsJoined'
      BY <2>0, <2>2, EndPassThreads
    <3>2. TypeOK'
      BY <1>0, <2>0, <2>1, <2>2, EndPassType DEF TypeOK
    <3> QED BY <3>1, <3>2 DEF TypeInv
  <2>3. CASE /\ pc' = "retain" /\ doomed' = Doomed(catalog')
             /\ UNCHANGED <<cancelled, fresh, recs, runnable, stage, prunable>>
    <3>1. RunningCharged' /\ ThreadsRun' /\ ThreadsJoined'
      BY <2>0, <2>3, FrameThreads
    <3>2. doomed' \subseteq Runs
      BY <2>3 DEF Doomed, RetentionDelete, Known
    <3>3. TypeOK'
      BY <1>0, <2>0, <2>1, <2>3, <3>2 DEF TypeOK, Phases
    <3> QED BY <3>1, <3>3 DEF TypeInv
  <2> QED BY <1>1, <2>2, <2>3 DEF RefreshCatalog
<1>2. CASE RetainRun
  <2>0. UNCHANGED <<jobs, catalog, upstream, tampered, pid>> /\ pc = "retain"
    BY SMTT(30), <1>2 DEF RetainRun
  <2>1. PICK r \in Least(doomed) : RetainRun!2!(r)
    BY <1>2 DEF RetainRun
  <2>2. r \in Runs
    BY <1>0, <2>1 DEF Least, TypeOK
  <2>3. CASE /\ EndPass /\ UNCHANGED <<dirs, tombs, faults>>
    <3>1. RunningCharged' /\ ThreadsRun' /\ ThreadsJoined'
      BY <2>0, <2>3, EndPassThreads
    <3>2. TypeOK'
      BY <1>0, <2>0, <2>3, EndPassType DEF TypeOK
    <3> QED BY <3>1, <3>2 DEF TypeInv
  <2>4. CASE /\ pc' \in {"retain", "sweep"} /\ doomed' \subseteq doomed
             /\ prunable' \subseteq prunable \cup {r}
             /\ faults' \in 0 .. MaxFaults
             /\ dirs' \in {dirs, [dirs EXCEPT ![r] = NoDir]}
             /\ tombs' \subseteq tombs \cup {<<r, pid>>}
             /\ UNCHANGED <<cancelled, fresh, recs, runnable, stage>>
    <3>1. RunningCharged' /\ ThreadsRun' /\ ThreadsJoined'
      BY <2>0, <2>4, FrameThreads
    <3>2. dirs' \in [Runs -> RunDir]
      <4>1. NoDir \in RunDir
        BY DEF NoDir, RunDir, DirKinds
      <4>2. CASE dirs' = dirs
        BY <1>0, <4>2 DEF TypeOK
      <4>3. CASE dirs' = [dirs EXCEPT ![r] = NoDir]
        BY <1>0, <2>2, <4>1, <4>3 DEF TypeOK
      <4> QED BY SMTT(30), <2>4, <4>2, <4>3
    <3>3. tombs' \subseteq Runs \X Pids
      BY <1>0, <2>2, <2>4 DEF TypeOK
    <3>4. doomed' \subseteq Runs /\ prunable' \subseteq Runs /\ pc' \in Phases
      BY <1>0, <2>2, <2>4 DEF TypeOK, Phases
    <3>5. TypeOK'
      BY <1>0, <2>0, <2>4, <3>2, <3>3, <3>4 DEF TypeOK
    <3> QED BY <3>1, <3>5 DEF TypeInv
  <2>5. faults \in 0 .. MaxFaults
    BY <1>0 DEF TypeOK
  <2>6. Fault("lock") => faults' \in 0 .. MaxFaults
    BY <1>0, FaultType
  <2> QED BY SMTT(30), <2>0, <2>1, <2>3, <2>4, <2>5, <2>6 DEF PruneAbsent, work
<1>3. CASE SweepTombstone
  <2>1. PICK r \in Least(doomed) : /\ tombs' = tombs \ {<<r, pid>>}
                                   /\ doomed' = doomed \ {r} /\ prunable' = prunable \cup {r}
    BY <1>3 DEF SweepTombstone
  <2>2. r \in Runs
    BY <1>0, <2>1 DEF Least, TypeOK
  <2>3. RunningCharged' /\ ThreadsRun' /\ ThreadsJoined'
    BY <1>3, FrameThreads DEF SweepTombstone
  <2>4. TypeOK'
    BY <1>0, <1>3, <2>1, <2>2 DEF TypeOK, SweepTombstone, Phases
  <2> QED BY <2>3, <2>4 DEF TypeInv
<1>4. CASE RetainDone
  <2>1. RunningCharged' /\ ThreadsRun' /\ ThreadsJoined'
    BY <1>4, FrameThreads DEF RetainDone, durable, work
  <2>2. TypeOK'
    BY <1>0, <1>4 DEF TypeOK, RetainDone, durable, work, Phases
  <2> QED BY <2>1, <2>2 DEF TypeInv
<1>5. CASE PruneState
  <2>1. PICK r \in Least(prunable) : /\ jobs' = [jobs EXCEPT ![r] = NoJob]
                                     /\ prunable' = prunable \ {r}
    BY Zenon, <1>5 DEF PruneState
  <2>2. r \in Runs
    BY <1>0, <2>1 DEF Least, TypeOK
  <2>3. NoJob \in JobRecord \cup {NoJob} /\ NoJob.state # "running"
    BY DEF NoJob
  <2>4. pc # "execute" /\ pc' # "execute" /\ stage' = stage
    BY <1>5 DEF PruneState
  <2>5. jobs' \in [Runs -> JobRecord \cup {NoJob}] /\ RunningCharged' /\ ThreadsRun' /\ ThreadsJoined'
    BY Zenon, <2>1, <2>2, <2>3, <2>4, SaveOutsideChunk
  <2>6. TypeOK'
    BY <1>0, <1>5, <2>1, <2>5 DEF TypeOK, PruneState
  <2> QED BY <2>5, <2>6 DEF TypeInv
<1>6. CASE FinishPass
  <2>1. RunningCharged' /\ ThreadsRun' /\ ThreadsJoined'
    BY <1>6, EndPassThreads DEF FinishPass, durable
  <2>2. TypeOK'
    BY <1>0, <1>6, EndPassType DEF TypeOK, FinishPass, durable
  <2> QED BY <2>1, <2>2 DEF TypeInv
<1> QED BY <1>1, <1>2, <1>3, <1>4, <1>5, <1>6

\* Faults, time and the providers keep the types.
LEMMA WorldType ==
  ASSUME TypeInv, World \/ \E r \in Runs : BackoffElapses(r)
  PROVE  TypeInv'
<1>0. TypeOK
  BY DEF TypeInv
<1>1. CASE ProviderAdvances
  <2>1. RunningCharged' /\ ThreadsRun' /\ ThreadsJoined'
    BY <1>1, FrameThreads DEF ProviderAdvances, durable, work
  <2>2. TypeOK'
    BY <1>0, <1>1 DEF TypeOK, ProviderAdvances, durable, work
  <2> QED BY <2>1, <2>2 DEF TypeInv
<1>2. CASE Crash
  <2>1. RunningCharged' /\ ThreadsRun' /\ ThreadsJoined'
    BY <1>2, EndPassThreads DEF Crash, durable
  <2>2. faults' \in 0 .. MaxFaults
    BY <1>0, <1>2, FaultType DEF Crash
  <2>3. TypeOK'
    BY <1>0, <1>2, <2>2, EndPassType DEF TypeOK, Crash, durable
  <2> QED BY <2>1, <2>3 DEF TypeInv
<1>3. CASE Cancel
  <2>1. RunningCharged' /\ ThreadsRun' /\ ThreadsJoined'
    BY <1>3, FrameThreads DEF Cancel, durable, work
  <2>2. faults' \in 0 .. MaxFaults
    BY <1>0, <1>3, FaultType DEF Cancel
  <2>3. TypeOK'
    BY <1>0, <1>3, <2>2 DEF TypeOK, Cancel, durable, work
  <2> QED BY <2>1, <2>3 DEF TypeInv
<1>4. CASE StoreFault
  <2>1. RunningCharged' /\ ThreadsRun' /\ ThreadsJoined'
    BY <1>4, FrameThreads DEF StoreFault, work
  <2>2. PICK r \in Runs : StoreFault!1!(r)
    BY <1>4 DEF StoreFault
  <2>3. faults' \in 0 .. MaxFaults
    BY <1>0, <2>2, FaultType
  <2>4. dirs[r] \in RunDir /\ dirs \in [Runs -> RunDir]
    BY <1>0 DEF TypeOK
  <2>5. dirs' \in [Runs -> RunDir]
    <3>1. ASSUME NEW h \in dirs[r].files, dirs' = [dirs EXCEPT ![r].files = @ \ {h}]
          PROVE  dirs' \in [Runs -> RunDir]
      BY SMTT(30), <2>4, <3>1 DEF RunDir
    <3>2. CASE dirs' = [dirs EXCEPT ![r] = NoDir]
      BY <2>4, <3>2 DEF RunDir, NoDir, DirKinds
    <3>3. CASE dirs' = [dirs EXCEPT ![r].extra = TRUE]
      BY Zenon, <2>4, <3>3 DEF RunDir
    <3> QED BY <2>2, <3>1, <3>2, <3>3
  <2>6. tampered' \subseteq Runs
    BY <1>0, <2>2 DEF TypeOK
  <2>7. TypeOK'
    BY <1>0, <1>4, <2>3, <2>5, <2>6 DEF TypeOK, StoreFault, work
  <2> QED BY <2>1, <2>7 DEF TypeInv
<1>5. ASSUME NEW r \in Runs, BackoffElapses(r) PROVE TypeInv'
  <2>1. jobs[r] \in JobRecord
    BY <1>0, <1>5 DEF TypeOK, BackoffElapses, NoJob
  <2>2. [jobs[r] EXCEPT !.state = "retry_due"] \in JobRecord
    BY <2>1 DEF JobRecord, JobStates
  <2>3. jobs' = [jobs EXCEPT ![r] = [jobs[r] EXCEPT !.state = "retry_due"]]
    BY <1>0, <1>5 DEF TypeOK, BackoffElapses
  <2>4. [jobs[r] EXCEPT !.state = "retry_due"].state # "running"
    BY <2>1 DEF JobRecord
  <2>5. pc # "execute" /\ pc' # "execute" /\ stage' = stage
    BY <1>5 DEF BackoffElapses, work
  <2>6. jobs' \in [Runs -> JobRecord \cup {NoJob}] /\ RunningCharged' /\ ThreadsRun' /\ ThreadsJoined'
    BY Zenon, <2>2, <2>3, <2>4, <2>5, SaveOutsideChunk
  <2>7. TypeOK'
    BY <1>0, <1>5, <2>6 DEF TypeOK, BackoffElapses, work
  <2> QED BY <2>6, <2>7 DEF TypeInv
<1> QED BY <1>1, <1>2, <1>3, <1>4, <1>5 DEF World

\* TypeInv is inductive.
LEMMA TypeStep == TypeInv /\ [Next]_vars => TypeInv'
<1> SUFFICES ASSUME TypeInv, [Next]_vars PROVE TypeInv'
  OBVIOUS
<1>1. CASE UNCHANGED vars
  BY <1>1 DEF TypeInv, TypeOK, RunningCharged, ThreadsRun, ThreadsJoined, vars, durable, work
<1>2. CASE Next
  BY <1>2, AdmissionType, ChunkType, ExecuteType, RetentionType, WorldType DEF Next, Host
<1> QED BY <1>1, <1>2

\* Every state of every behaviour, with crashes, shutdown requests and a
\* damaged store, is well typed: the attempt counter stays within 0 and
\* max_attempts, recovery never takes it below zero and start never above.
THEOREM TypeCorrect == Spec => []TypeOK
<1>1. Spec => []TypeInv
  BY TypeInit, TypeStep, PTL DEF Spec
<1>2. TypeInv => TypeOK
  BY DEF TypeInv
<1> QED BY <1>1, <1>2, PTL

-----------------------------------------------------------------------------
(* Retention, publication and the job records.                             *)

\* What the deletion plan still holds is neither published nor active, from the
\* moment it is made until the last state file is pruned.  Nothing is planned
\* outside the retention phases, so that nothing can become active meanwhile.
Retaining == {"retain", "sweep", "prune"}
PlanDisjoint == \A r \in doomed \cup prunable : r \notin Protected(catalog) /\ ~IsActive(jobs[r])
PlanLocal == pc \notin Retaining => doomed = {} /\ prunable = {}
RetentionInv == PlanDisjoint /\ PlanLocal /\ PublishedRunsHaveState

\* A step before the retention phases that forgets no record.
LEMMA RecordsKept ==
  ASSUME RetentionInv, pc \notin Retaining, pc' \notin Retaining,
         UNCHANGED <<catalog, doomed, prunable>>, Known \subseteq Known'
  PROVE  RetentionInv'
BY DEF RetentionInv, PlanDisjoint, PlanLocal, PublishedRunsHaveState

\* A step that saves one record, under a state that is not none.
LEMMA SaveKeepsKnown ==
  ASSUME TypeOK, NEW r \in Runs, NEW job, jobs' = [jobs EXCEPT ![r] = job],
         jobs[r].state # "none" => job.state # "none"
  PROVE  Known \subseteq Known'
BY DEF TypeOK, Known

\* A step that leaves records, catalog and plan alone.
LEMMA PlanKept ==
  ASSUME RetentionInv, UNCHANGED <<jobs, catalog, doomed, prunable>>,
         pc' \notin Retaining => pc \notin Retaining
  PROVE  RetentionInv'
<1>1. Known' = Known
  BY DEF Known
<1> QED BY <1>1 DEF RetentionInv, PlanDisjoint, PlanLocal, PublishedRunsHaveState

\* The end of a pass drops the plan.
LEMMA PlanDropped ==
  ASSUME RetentionInv, EndPass, UNCHANGED <<jobs, catalog>>
  PROVE  RetentionInv'
<1>1. Known' = Known
  BY DEF Known
<1> QED BY <1>1 DEF RetentionInv, PlanDisjoint, PlanLocal, PublishedRunsHaveState, EndPass

\* Nothing is published or planned initially.
LEMMA RetentionInit == Init => RetentionInv
BY DEF Init, RetentionInv, PlanDisjoint, PlanLocal, PublishedRunsHaveState, Protected, Published,
       EmptyCatalog

\* Before the retention phases, records are saved and never removed.
LEMMA RetentionBefore ==
  ASSUME TypeInv, RetentionInv,
         \/ \E p \in Pids : StartPass(p)
         \/ RecoverRunning \/ AdmitDiscovered \/ PersistAdmitted \/ PersistDone
         \/ ClassifyRecord \/ ClassifyDone \/ StartChunk \/ ChunksDone \/ ChunkEnds
         \/ \E r \in Runs : ExecuteOne(r) \/ BackoffElapses(r)
  PROVE  RetentionInv'
<1>0. TypeOK
  BY DEF TypeInv
<1>1. ASSUME NEW p \in Pids, StartPass(p) PROVE RetentionInv'
  BY <1>1, PlanKept DEF StartPass, LeaseFree, durable, work, Retaining
<1>2. CASE RecoverRunning
  <2>1. PICK r \in Runs : jobs' = [jobs EXCEPT ![r] = RecoverAfterRestart(jobs[r])]
                          /\ jobs[r].state = "running"
    BY Zenon, <1>2 DEF RecoverRunning, Least, Interrupted
  <2>2. jobs[r] \in JobRecord
    BY <1>0, <2>1 DEF TypeOK, NoJob
  <2>3. RecoverAfterRestart(jobs[r]).state # "none"
    BY <2>2 DEF RecoverAfterRestart, JobRecord
  <2>4. Known \subseteq Known'
    BY Zenon, <1>0, <2>1, <2>3, SaveKeepsKnown
  <2> QED BY <1>2, <2>4, RecordsKept DEF RecoverRunning, work, Retaining
<1>3. CASE AdmitDiscovered
  <2>1. UNCHANGED durable /\ (EndPass \/ (pc = "recover" /\ pc' = "persist" /\ UNCHANGED <<doomed, prunable>>))
    BY <1>3 DEF AdmitDiscovered
  <2> QED BY <2>1, PlanKept, PlanDropped DEF durable, Retaining
<1>4. CASE PersistAdmitted
  <2>1. PICK r \in Runs : jobs' = [jobs EXCEPT ![r] = NewRecord]
    BY Zenon, <1>0, <1>4 DEF PersistAdmitted, TypeOK
  <2>2. NewRecord.state # "none"
    BY DEF NewRecord
  <2>3. Known \subseteq Known'
    BY ZenonT(30), <1>0, <2>1, <2>2, SaveKeepsKnown
  <2> QED BY <1>4, <2>3, RecordsKept DEF PersistAdmitted, Retaining
<1>5. CASE PersistDone \/ ClassifyDone \/ ChunksDone
  BY SMTT(30), <1>5, PlanKept DEF PersistDone, ClassifyDone, ChunksDone, durable, work, Retaining
<1>6. CASE ClassifyRecord
  <2>1. PICK r \in Runs : jobs' = [jobs EXCEPT ![r] = Classified(r)]
    BY Zenon, <1>0, <1>6 DEF ClassifyRecord, Least, TypeOK
  <2>2. jobs[r].state # "none" => Classified(r).state # "none"
    <3>1. CASE jobs[r].state = "retry_due"
      <4>1. jobs[r] \in JobRecord
        BY SMTT(30), <1>0, <3>1 DEF TypeOK, NoJob
      <4> QED BY <3>1, <4>1 DEF Classified, ReleaseRetry, JobRecord
    <3>2. CASE Classified(r) = NewRecord
      <4>1. NewRecord.state # "none"
        BY DEF NewRecord
      <4> QED BY Zenon, <3>2, <4>1
    <3>3. CASE Classified(r) = jobs[r]
      BY Zenon, <3>3
    <3> QED BY <3>1, <3>2, <3>3 DEF Classified, RequeueForRepair
  <2>3. Known \subseteq Known'
    BY Zenon, <1>0, <2>1, <2>2, SaveKeepsKnown
  <2> QED BY <1>6, <2>3, RecordsKept DEF ClassifyRecord, Retaining
<1>7. CASE StartChunk
  BY <1>7, PlanKept DEF StartChunk, durable, Retaining
<1>8. CASE ChunkEnds
  <2>1. UNCHANGED durable /\ (EndPass \/ (pc = "execute" /\ UNCHANGED <<doomed, prunable>>))
    BY <1>8 DEF ChunkEnds
  <2>2. EndPass \/ pc' \in {"publish", "chunk"}
    BY <1>8 DEF ChunkEnds
  <2> QED BY <2>1, <2>2, PlanKept, PlanDropped DEF durable, Retaining
<1>9. ASSUME NEW r \in Runs, ExecuteOne(r) PROVE RetentionInv'
  <2>1. pc = "execute" /\ pc' = pc /\ UNCHANGED <<catalog, doomed, prunable>>
    BY Zenon, <1>9 DEF ExecuteOne, StartJob, CheckSpace, ClaimRun, RenameMarker, InspectRun, IngestHour,
                IngestFails, IngestReturns, ExecutionFallsShort, FinishJob, Thread
  <2>2. \/ jobs' = jobs
        \/ jobs' = [jobs EXCEPT ![r] = Start(jobs[r])]
        \/ /\ stage[r] \in Working
           /\ \E job \in {FinishSuccess(jobs[r]), FinishFailure(jobs[r]),
                          RecoverAfterRestart(jobs[r])} : jobs' = [jobs EXCEPT ![r] = job]
    BY Zenon, <1>9 DEF ExecuteOne, StartJob, CheckSpace, ClaimRun, RenameMarker, InspectRun, IngestHour,
                IngestFails, IngestReturns, ExecutionFallsShort, FinishJob, Thread, Working
  <2>3. Known \subseteq Known'
    <3>1. CASE jobs' = jobs
      BY <3>1 DEF Known
    <3>2. CASE jobs' = [jobs EXCEPT ![r] = Start(jobs[r])]
      <4>1. Start(jobs[r]).state # "none"
        BY DEF Start
      <4> QED BY ZenonT(30), <1>0, <3>2, <4>1, SaveKeepsKnown
    <3>3. ASSUME stage[r] \in Working,
                 NEW job \in {FinishSuccess(jobs[r]), FinishFailure(jobs[r]),
                              RecoverAfterRestart(jobs[r])}, jobs' = [jobs EXCEPT ![r] = job]
          PROVE  Known \subseteq Known'
      <4>1. jobs[r] \in JobRecord
        BY <3>3 DEF TypeInv, TypeOK, ThreadsRun, NoJob
      <4>2. job.state # "none"
        BY Zenon, <3>3, <4>1 DEF FinishSuccess, FinishFailure, RecoverAfterRestart, JobRecord
      <4> QED BY Zenon, <1>0, <3>3, <4>2, SaveKeepsKnown
    <3> QED BY <2>2, <3>1, <3>2, <3>3
  <2> QED BY <2>1, <2>3, RecordsKept DEF Retaining
<1>10. ASSUME NEW r \in Runs, BackoffElapses(r) PROVE RetentionInv'
  <2>1. jobs[r] \in JobRecord
    BY <1>0, <1>10 DEF TypeOK, BackoffElapses, NoJob
  <2>2. jobs' = [jobs EXCEPT ![r] = [jobs[r] EXCEPT !.state = "retry_due"]]
    BY <1>0, <1>10 DEF TypeOK, BackoffElapses
  <2>3. [jobs[r] EXCEPT !.state = "retry_due"].state # "none"
    BY <2>1 DEF JobRecord
  <2>4. Known \subseteq Known'
    BY Zenon, <1>0, <2>2, <2>3, SaveKeepsKnown
  <2> QED BY <1>10, <2>4, RecordsKept DEF BackoffElapses, work, Retaining
<1> QED BY <1>1, <1>2, <1>3, <1>4, <1>5, <1>6, <1>7, <1>8, <1>9, <1>10

\* The refresh publishes only recorded runs, and plans with what it published.
LEMMA RetentionPlanned ==
  ASSUME TypeInv, RetentionInv, RefreshCatalog
  PROVE  RetentionInv'
<1>1. CASE EndPass /\ catalog' = catalog
  BY <1>1, PlanDropped DEF RefreshCatalog
<1>2. CASE catalog' = FromCandidates(Candidates(Known, dirs), dirs)
  <2>1. Known' = Known /\ jobs' = jobs /\ pc = "publish"
    BY DEF RefreshCatalog, Known
  <2>2. Protected(catalog') \subseteq Known'
    <3>1. Protected(catalog') \subseteq Candidates(Known, dirs)
      BY <1>2, PublishedAreCandidates
    <3> QED BY <2>1, <3>1 DEF Candidates
  <2>3. CASE EndPass
    BY <2>2, <2>3 DEF EndPass, RetentionInv, PlanDisjoint, PlanLocal, PublishedRunsHaveState
  <2>4. CASE pc' = "retain" /\ doomed' = Doomed(catalog') /\ prunable' = prunable
    <3>1. prunable = {}
      BY <2>1 DEF RetentionInv, PlanLocal, Retaining
    <3>2. \A r \in doomed' : r \in Runs /\ r \notin Protected(catalog') /\ r \notin Active
      BY <2>4 DEF Doomed, RetentionDelete, Known
    <3>3. PlanDisjoint'
      BY <2>1, <2>4, <3>1, <3>2 DEF PlanDisjoint, Active
    <3> QED BY <2>2, <2>4, <3>3 DEF RetentionInv, PlanLocal, PublishedRunsHaveState, Retaining
  <2> QED BY SMTT(30), <2>3, <2>4 DEF RefreshCatalog
<1> QED BY <1>1, <1>2 DEF RefreshCatalog

\* The retention phases only move runs from doomed to prunable and drop them.
LEMMA RetentionExecuted ==
  ASSUME TypeInv, RetentionInv,
         RetainRun \/ SweepTombstone \/ RetainDone \/ PruneState \/ FinishPass
  PROVE  RetentionInv'
<1>0. TypeOK
  BY DEF TypeInv
<1>1. ASSUME doomed' \cup prunable' \subseteq doomed \cup prunable,
             UNCHANGED <<jobs, catalog>>, pc' \in Retaining
      PROVE  RetentionInv'
  <2>1. Known' = Known
    BY <1>1 DEF Known
  <2> QED BY <1>1, <2>1 DEF RetentionInv, PlanDisjoint, PlanLocal, PublishedRunsHaveState
<1>2. CASE RetainRun
  <2>1. UNCHANGED <<jobs, catalog>> /\ pc = "retain"
    BY SMTT(30), <1>2 DEF RetainRun
  <2>2. EndPass \/ (pc' \in {"retain", "sweep"} /\ doomed' \cup prunable' \subseteq doomed \cup prunable)
    BY <1>2, <2>1 DEF RetainRun, Least, PruneAbsent, work
  <2> QED BY SMTT(30), <1>1, <2>1, <2>2, PlanDropped DEF Retaining
<1>3. CASE SweepTombstone
  <2>1. doomed' \cup prunable' \subseteq doomed \cup prunable
    BY <1>3 DEF SweepTombstone, Least
  <2> QED BY <1>1, <1>3, <2>1 DEF SweepTombstone, Retaining
<1>4. CASE RetainDone
  BY <1>4, PlanKept DEF RetainDone, durable, work, Retaining
<1>5. CASE PruneState
  <2>1. PICK r \in prunable : jobs' = [jobs EXCEPT ![r] = NoJob] /\ prunable' = prunable \ {r}
    BY Zenon, <1>5 DEF PruneState, Least
  <2>2. UNCHANGED <<catalog, doomed, pc>> /\ pc = "prune"
    BY <1>5 DEF PruneState
  <2>3. r \in Runs /\ r \notin Protected(catalog)
    BY <1>0, <2>1 DEF RetentionInv, PlanDisjoint, TypeOK
  <2>4. Known \ {r} \subseteq Known'
    BY <1>0, <2>1 DEF TypeOK, Known
  <2>5. PublishedRunsHaveState'
    BY <2>2, <2>3, <2>4 DEF RetentionInv, PublishedRunsHaveState
  <2>6. \A s \in Runs : IsActive(jobs'[s]) => IsActive(jobs[s])
    BY <1>0, <2>1 DEF TypeOK, IsActive, NoJob
  <2>7. PlanDisjoint'
    BY <1>0, <2>1, <2>2, <2>6 DEF RetentionInv, PlanDisjoint, TypeOK
  <2> QED BY <2>2, <2>5, <2>7 DEF RetentionInv, PlanLocal, Retaining
<1>6. CASE FinishPass
  BY <1>6, PlanDropped DEF FinishPass, durable
<1> QED BY <1>2, <1>3, <1>4, <1>5, <1>6

\* RetentionInv is inductive relative to TypeInv.
LEMMA RetentionStep == TypeInv /\ RetentionInv /\ [Next]_vars => RetentionInv'
<1> SUFFICES ASSUME TypeInv, RetentionInv, [Next]_vars PROVE RetentionInv'
  OBVIOUS
<1>1. CASE UNCHANGED vars
  BY <1>1, PlanKept DEF vars, durable, work
<1>2. CASE World
  <2>1. CASE Crash
    BY <2>1, PlanDropped DEF Crash, durable
  <2>2. CASE ProviderAdvances \/ Cancel \/ StoreFault
    BY <2>2, PlanKept DEF ProviderAdvances, Cancel, StoreFault, durable, work
  <2> QED BY <1>2, <2>1, <2>2 DEF World
<1>3. CASE Next /\ ~World
  BY <1>3, RetentionBefore, RetentionPlanned, RetentionExecuted DEF Next, Host
<1> QED BY <1>1, <1>2, <1>3

\* A generation the origin catalog publishes has a job record in every state,
\* for any number of runs and lanes, any retention policy and crashes anywhere:
\* remove_terminal and execute_retention never outrun the durable catalog.
THEOREM PublishedStateKept == Spec => []PublishedRunsHaveState
<1>1. Init => TypeInv /\ RetentionInv
  BY TypeInit, RetentionInit
<1>2. TypeInv /\ RetentionInv /\ [Next]_vars => (TypeInv /\ RetentionInv)'
  BY TypeStep, RetentionStep
<1>3. TypeInv /\ RetentionInv => PublishedRunsHaveState
  BY DEF RetentionInv
<1> QED BY <1>1, <1>2, <1>3, PTL DEF Spec

\* The only step of the host that removes a run directory is the rename of a
\* doomed run.
LEMMA RemovalIsPlanned ==
  ASSUME TypeInv, Next, NEW r \in Runs,
         dirs[r].kind # "absent", dirs'[r].kind = "absent", faults' = faults
  PROVE  r \in doomed
<1>0. /\ dirs \in [Runs -> RunDir] /\ faults \in Nat
      /\ doomed \subseteq Runs
  BY DEF TypeInv, TypeOK
<1>1. CASE UNCHANGED dirs
  BY <1>1
<1>2. ASSUME NEW s \in Runs, ExecuteOne(s) PROVE FALSE
  <2>1. CASE ClaimRun(s)
    BY <1>0, <2>1 DEF ClaimRun, RunDir
  <2>2. CASE RenameMarker(s)
    BY <1>0, <2>2 DEF RenameMarker, RunDir
  <2>3. CASE IngestHour(s)
    <3>1. PICK h \in Hours :
            dirs' = [dirs EXCEPT ![s].manifest = {Present(dirs[s]) \cup {h}},
                                 ![s].files = @ \cup {h}]
      BY Zenon, <2>3 DEF IngestHour
    <3> QED BY <1>0, <3>1 DEF RunDir
  <2>4. CASE dirs' = dirs
    BY <2>4
  <2> QED BY <1>2, <2>1, <2>2, <2>3, <2>4
          DEF ExecuteOne, StartJob, CheckSpace, InspectRun, IngestFails, IngestReturns,
              ExecutionFallsShort, FinishJob
<1>3. CASE StoreFault
  <2>1. faults' = faults + 1
    BY <1>3 DEF StoreFault, Fault
  <2> QED BY <1>0, <2>1
<1>4. CASE RetainRun
  <2>1. PICK s \in doomed : dirs' = dirs \/ dirs' = [dirs EXCEPT ![s] = NoDir]
    BY <1>4 DEF RetainRun, Least
  <2> QED BY SMTT(30), <1>0, <2>1
<1> QED BY ZenonT(30), <1>1, <1>2, <1>3, <1>4
        DEF Next, Host, World, StartPass, RecoverRunning, AdmitDiscovered, PersistAdmitted,
            PersistDone, ClassifyRecord, ClassifyDone, StartChunk, ChunksDone, ChunkEnds,
            RefreshCatalog, SweepTombstone, RetainDone, PruneState, FinishPass,
            ProviderAdvances, Crash, Cancel, BackoffElapses, durable

\* The host never removes the directory of a run that is published or whose
\* job is active.
THEOREM RetentionSafe == Spec => RetentionSparesPublished
<1> DEFINE Spares == \A r \in Runs :
             dirs[r].kind # "absent" /\ dirs'[r].kind = "absent" /\ faults' = faults =>
                 r \notin Protected(catalog) /\ ~IsActive(jobs[r])
<1>1. Init => TypeInv /\ RetentionInv
  BY TypeInit, RetentionInit
<1>2. TypeInv /\ RetentionInv /\ [Next]_vars => (TypeInv /\ RetentionInv)'
  BY TypeStep, RetentionStep
<1>3. TypeInv /\ RetentionInv /\ [Next]_vars => [Spares]_vars
  <2> SUFFICES ASSUME TypeInv, RetentionInv, Next PROVE Spares
    OBVIOUS
  <2> SUFFICES ASSUME NEW r \in Runs, dirs[r].kind # "absent", dirs'[r].kind = "absent",
                      faults' = faults
               PROVE  r \notin Protected(catalog) /\ ~IsActive(jobs[r])
    OBVIOUS
  <2>1. r \in doomed
    BY RemovalIsPlanned
  <2> QED BY <2>1 DEF RetentionInv, PlanDisjoint
<1> QED BY <1>1, <1>2, <1>3, PTL DEF Spec, RetentionSparesPublished

-----------------------------------------------------------------------------
(* Running records and the threads of the pass.                            *)

\* Stages at which no thread works on the job.
Idle == {"none", "start", "ended"}

\* A step that saves one record, and not as running.
LEMMA SavedNotRunning ==
  ASSUME TypeOK, RunningHasThread, NEW r \in Runs, NEW job, jobs' = [jobs EXCEPT ![r] = job],
         job.state = "running" => job = jobs[r], UNCHANGED <<stage, pc>>
  PROVE  RunningHasThread'
BY DEF TypeOK, RunningHasThread

\* A thread that moves on without going back to idle.
LEMMA ThreadMoves ==
  ASSUME TypeOK, RunningHasThread, NEW r \in Runs, NEW from, NEW to, Thread(r, from, to),
         to \notin Idle, jobs' = jobs \/ \E job : jobs' = [jobs EXCEPT ![r] = job]
  PROVE  RunningHasThread'
BY DEF TypeOK, RunningHasThread, Thread, Idle

\* A thread goes idle only after it saved an outcome.
LEMMA ExecuteThreads ==
  ASSUME TypeInv, RunningHasThread, NEW r \in Runs, ExecuteOne(r)
  PROVE  RunningHasThread'
<1>0. TypeOK
  BY DEF TypeInv
<1>1. CASE StartJob(r)
  <2>1. PICK to \in {"space", "error"} : Thread(r, "start", to)
    BY <1>1 DEF StartJob
  <2>2. jobs' = jobs \/ \E job : jobs' = [jobs EXCEPT ![r] = job]
    BY Zenon, <1>1 DEF StartJob
  <2> QED BY <1>0, <2>1, <2>2, ThreadMoves DEF Idle
<1>2. CASE FinishJob(r)
  <2>1. CASE jobs' = jobs /\ Thread(r, "complete", "error")
    BY SMTT(30), <1>0, <2>1, ThreadMoves DEF Idle
  <2>2. ASSUME NEW job \in {FinishSuccess(jobs[r]), FinishFailure(jobs[r]),
                            RecoverAfterRestart(jobs[r])},
               jobs' = [jobs EXCEPT ![r] = job],
               NEW from \in Working, Thread(r, from, "ended")
        PROVE  RunningHasThread'
    <3>1. jobs[r] \in JobRecord
      BY <2>2 DEF TypeInv, TypeOK, ThreadsRun, Thread, NoJob
    <3>2. job.state # "running"
      BY Zenon, <2>2, <3>1 DEF FinishSuccess, FinishFailure, RecoverAfterRestart, JobRecord
    <3> QED BY SMTT(30), <1>0, <2>2, <3>2 DEF TypeOK, RunningHasThread, Thread
  <2> QED BY <1>2, <2>1, <2>2 DEF FinishJob, Working
<1>3. CASE InspectRun(r)
  <2>1. PICK to \in {"failed", "complete", "ingest"} : Thread(r, "inspect", to)
    BY <1>3 DEF InspectRun
  <2> QED BY <1>0, <1>3, <2>1, ThreadMoves DEF InspectRun, Idle
<1>4. CASE IngestReturns(r)
  <2>1. PICK to \in {"failed", "complete", "error"} : Thread(r, "ingest", to)
    BY <1>4 DEF IngestReturns
  <2> QED BY <1>0, <1>4, <2>1, ThreadMoves DEF IngestReturns, Idle
<1>5. CASE ClaimRun(r)
  <2>1. PICK to \in {"claim", "marker", "failed", "inspect"} : Thread(r, "claim", to)
    BY <1>5 DEF ClaimRun
  <2> QED BY <1>0, <1>5, <2>1, ThreadMoves DEF ClaimRun, Idle
<1>6. CASE CheckSpace(r)
  <2>1. PICK to \in {"claim", "failed"} : Thread(r, "space", to)
    BY <1>6 DEF CheckSpace
  <2> QED BY <1>0, <1>6, <2>1, ThreadMoves DEF CheckSpace, Idle
<1>7. CASE RenameMarker(r)
  BY <1>0, <1>7, ThreadMoves DEF RenameMarker, Idle
<1>8. CASE IngestHour(r)
  BY <1>0, <1>8, ThreadMoves DEF IngestHour, Idle
<1>9. CASE IngestFails(r)
  BY <1>0, <1>9, ThreadMoves DEF IngestFails, Idle
<1>10. CASE ExecutionFallsShort(r)
  BY <1>0, <1>10, ThreadMoves DEF ExecutionFallsShort, Idle
<1> QED BY <1>1, <1>2, <1>3, <1>4, <1>5, <1>6, <1>7, <1>8, <1>9, <1>10 DEF ExecuteOne

\* No record is running initially.
LEMMA ThreadsInit == Init => RunningHasThread
BY DEF Init, RunningHasThread

\* RunningHasThread is inductive relative to TypeInv.
LEMMA ThreadsStep == TypeInv /\ RunningHasThread /\ [Next]_vars => RunningHasThread'
<1> SUFFICES ASSUME TypeInv, RunningHasThread, [Next]_vars PROVE RunningHasThread'
  OBVIOUS
<1>0. TypeOK
  BY DEF TypeInv
<1>1. CASE pc' \in {"down", "recover"}
  BY <1>1 DEF RunningHasThread
<1>2. ASSUME UNCHANGED <<jobs, stage>>, pc \notin {"down", "recover"} PROVE RunningHasThread'
  BY <1>2 DEF RunningHasThread
<1>3. CASE AdmitDiscovered
  BY Zenon, <1>3 DEF AdmitDiscovered, RecoveryDone, Interrupted, RunningHasThread, durable, EndPass
<1>4. CASE PersistAdmitted
  <2>1. PICK r \in Runs : jobs' = [jobs EXCEPT ![r] = NewRecord]
    BY Zenon, <1>0, <1>4 DEF PersistAdmitted, TypeOK
  <2>2. NewRecord.state # "running" /\ UNCHANGED <<stage, pc>>
    BY <1>4 DEF NewRecord, PersistAdmitted
  <2> QED BY Zenon, <1>0, <2>1, <2>2, SavedNotRunning
<1>5. CASE ClassifyRecord
  <2>1. PICK r \in Runs : jobs' = [jobs EXCEPT ![r] = Classified(r)]
    BY Zenon, <1>0, <1>5 DEF ClassifyRecord, Least, TypeOK
  <2>2. Classified(r).state = "running" => Classified(r) = jobs[r]
    <3>1. CASE jobs[r].state = "retry_due"
      <4>1. jobs[r] \in JobRecord
        BY <1>0, <3>1 DEF TypeOK, NoJob
      <4> QED BY <3>1, <4>1 DEF Classified, ReleaseRetry, JobRecord
    <3>2. CASE Classified(r) = NewRecord
      <4>1. NewRecord.state # "running"
        BY DEF NewRecord
      <4> QED BY <3>2, <4>1
    <3> QED BY <3>1, <3>2 DEF Classified, RequeueForRepair
  <2> QED BY Zenon, <1>0, <1>5, <2>1, <2>2, SavedNotRunning DEF ClassifyRecord
<1>6. CASE StartChunk
  <2>1. \A r \in Runs : jobs[r].state # "running"
    BY <1>6 DEF StartChunk, TypeInv, ThreadsJoined, RunningHasThread
  <2> QED BY ZenonT(30), <1>6, <2>1 DEF StartChunk, durable, RunningHasThread
<1>7. CASE ChunkEnds
  <2>1. CASE EndPass
    BY SMTT(30), <2>1 DEF EndPass, RunningHasThread
  <2>2. CASE ~\E r \in Runs : stage[r] = "error"
    <3>1. \A r \in Runs : jobs[r].state # "running"
      BY <1>7, <2>2 DEF ChunkEnds, RunningHasThread
    <3> QED BY SMTT(30), <1>7, <3>1 DEF ChunkEnds, durable, RunningHasThread
  <2> QED BY <1>7, <2>1, <2>2 DEF ChunkEnds
<1>8. ASSUME NEW r \in Runs, ExecuteOne(r) PROVE RunningHasThread'
  BY <1>8, ExecuteThreads
<1>9. CASE PruneState
  <2>1. PICK r \in Runs : jobs' = [jobs EXCEPT ![r] = NoJob]
    BY Zenon, <1>0, <1>9 DEF PruneState, Least, TypeOK
  <2>2. NoJob.state # "running" /\ UNCHANGED <<stage, pc>>
    BY <1>9 DEF NoJob, PruneState
  <2> QED BY Zenon, <1>0, <2>1, <2>2, SavedNotRunning
<1>10. CASE RefreshCatalog \/ RetainRun \/ SweepTombstone \/ RetainDone \/ FinishPass
            \/ PersistDone \/ ClassifyDone \/ ChunksDone
  BY Zenon, <1>1, <1>2, <1>10
     DEF RefreshCatalog, RetainRun, SweepTombstone, RetainDone, FinishPass, PersistDone,
         ClassifyDone, ChunksDone, EndPass, durable, work
<1>11. ASSUME NEW r \in Runs, BackoffElapses(r) PROVE RunningHasThread'
  BY <1>1, <1>11 DEF BackoffElapses
<1>12. CASE World \/ UNCHANGED vars
  BY <1>1, <1>2, <1>12 DEF World, ProviderAdvances, Crash, Cancel, StoreFault, EndPass, vars, durable, work
<1>13. ASSUME NEW p \in Pids, StartPass(p) PROVE RunningHasThread'
  BY <1>1, <1>13 DEF StartPass, LeaseFree
<1>14. CASE RecoverRunning
  BY <1>1, <1>14 DEF RecoverRunning
<1> QED BY <1>3, <1>4, <1>5, <1>6, <1>7, <1>8, <1>9, <1>10, <1>11, <1>12, <1>13, <1>14 DEF Next, Host

\* After recovery, a record is running on disk only while a thread of this very
\* pass works on it, so the unreachable! arm of the classification is never
\* reached: for any number of runs, threads, crashes and failed passes.
THEOREM RunningRecordsOwned == Spec => []RunningHasThread
<1>1. Init => TypeInv /\ RunningHasThread
  BY TypeInit, ThreadsInit
<1>2. TypeInv /\ RunningHasThread /\ [Next]_vars => (TypeInv /\ RunningHasThread)'
  BY TypeStep, ThreadsStep
<1> QED BY <1>1, <1>2, PTL DEF Spec

-----------------------------------------------------------------------------
(* The catalog a refresh builds.                                           *)

\* Runs of one model that share an origin are one run, so the newest run of a
\* set of them is unique.
LEMMA NewestUnique ==
  ASSUME NEW S \in SUBSET Runs, NEW m, \A r \in S : ModelOf[r] = m
  PROVE  \A r, s \in Newest(S) : r = s
<1> SUFFICES ASSUME NEW r \in Newest(S), NEW s \in Newest(S) PROVE r = s
  OBVIOUS
<1>1. r \in S /\ s \in S /\ Origin[s] <= Origin[r] /\ Origin[r] <= Origin[s]
  BY DEF Newest
<1>2. Origin[r] \in Nat /\ Origin[s] \in Nat
  BY <1>1, LanesAssumption
<1> QED BY <1>1, <1>2, LanesAssumption

\* A set without two different elements is finite and has at most one.
LEMMA AtMostOne ==
  ASSUME NEW S, \A x, y \in S : x = y
  PROVE  IsFiniteSet(S) /\ Cardinality(S) <= 1
<1>1. CASE S = {}
  BY <1>1, FS_EmptySet
<1>2. CASE S # {}
  <2>1. PICK x : x \in S
    BY <1>2
  <2>2. S = {x}
    BY <2>1
  <2>3. IsFiniteSet({x}) /\ Cardinality({x}) = 1
    BY FS_Singleton
  <2> QED BY <2>2, <2>3
<1> QED BY <1>1, <1>2

\* What from_candidates puts in a lane passes the validation of the lane.
LEMMA LaneValid ==
  ASSUME NEW S \in SUBSET Runs, NEW d \in [Runs -> RunDir], NEW lane \in Lanes,
         \A r \in S : Queryable(d[r]) /\ Present(d[r]) # {}
  PROVE  LET published == LaneGenerations(lane, S, d) IN
         /\ Cardinality(published.active) <= 1 /\ Cardinality(published.previous) <= 1
         /\ \A gen \in published.active \cup published.previous :
               ValidGeneration(gen, lane) /\ gen.present # {}
         /\ \A old \in published.previous :
               \E new \in published.active : Origin[old.run] < Origin[new.run]
<1> DEFINE matching == {r \in S : MatchesLane(r, lane, d)}
           active   == Newest(matching)
           previous == Newest(matching \ active)
           A == {GenerationOf(r, d) : r \in active}
           P == {GenerationOf(r, d) : r \in previous}
<1>1. /\ LaneGenerations(lane, S, d).active = A
      /\ LaneGenerations(lane, S, d).previous = P
  BY DEF LaneGenerations
<1>2. matching \in SUBSET Runs /\ \A r \in matching : ModelOf[r] = LaneModel[lane]
  BY DEF MatchesLane
<1>3. active \subseteq matching /\ previous \subseteq matching \ active
  BY SMTT(30) DEF Newest
<1>4. \A r, s \in active : r = s
  BY <1>2, NewestUnique
<1>5. \A r, s \in previous : r = s
  <2>1. matching \ active \in SUBSET Runs /\ \A r \in matching \ active : ModelOf[r] = LaneModel[lane]
    BY Zenon, <1>2
  <2> HIDE DEF matching, active
  <2> QED BY Zenon, <2>1, NewestUnique
<1>6. Cardinality(A) <= 1 /\ Cardinality(P) <= 1
  <2>1. \A x, y \in A : x = y
    BY Zenon, <1>4
  <2>2. \A x, y \in P : x = y
    BY Zenon, <1>5
  <2> HIDE DEF A, P
  <2> QED BY <2>1, <2>2, AtMostOne
<1>7. ASSUME NEW r \in matching
      PROVE  ValidGeneration(GenerationOf(r, d), lane) /\ GenerationOf(r, d).present # {}
  <2>1. d[r] \in RunDir /\ Queryable(d[r]) /\ Present(d[r]) # {}
    BY Zenon, <1>2
  <2>2. Present(d[r]) \subseteq Hours
    BY <2>1 DEF Present, RunDir
  <2>3. CoverageComplete(d[r]) <=> Present(d[r]) = Hours
    BY <2>1 DEF Queryable, CoverageComplete
  <2>4. /\ GenerationOf(r, d).run = r /\ GenerationOf(r, d).present = Present(d[r])
        /\ GenerationOf(r, d).complete = CoverageComplete(d[r])
    BY DEF GenerationOf
  <2>5. lane \in CompleteLanes => CoverageComplete(d[r]) /\ r \in LongHorizon
    BY Zenon, <1>7 DEF MatchesLane
  <2> QED BY Zenon, <1>2, <2>1, <2>2, <2>3, <2>4, <2>5 DEF ValidGeneration
<1>8. ASSUME NEW r \in previous PROVE \E s \in active : Origin[r] < Origin[s]
  <2>1. r \in matching /\ r \notin active
    BY Zenon, <1>3
  <2>2. active # {}
    <3>1. active = {} => matching \ active = matching
      OBVIOUS
    <3> QED BY Zenon, <2>1, <3>1
  <2>3. PICK s \in active : TRUE
    BY <2>2
  <2>4. s \in matching /\ Origin[r] <= Origin[s] /\ r # s
    BY Zenon, <1>3, <2>1, <2>3 DEF Newest
  <2>5. Origin[r] # Origin[s] /\ Origin[r] \in Nat /\ Origin[s] \in Nat
    BY <1>2, <2>1, <2>4, LanesAssumption
  <2> QED BY <2>3, <2>4, <2>5
<1>9. \A r : GenerationOf(r, d).run = r
  BY DEF GenerationOf
<1> QED
  <2>1. \A gen \in A \cup P : ValidGeneration(gen, lane) /\ gen.present # {}
    BY Zenon, <1>3, <1>7
  <2>2. \A old \in P : \E new \in A : Origin[old.run] < Origin[new.run]
    BY Zenon, <1>8, <1>9
  <2> QED BY Zenon, <1>1, <1>6, <2>1, <2>2

\* Only a refresh that found every published run still valid replaces the catalog.
LEMMA CatalogSteps ==
  ASSUME [Next]_vars
  PROVE  \/ catalog' = catalog
         \/ /\ Protected(catalog) \subseteq Candidates(Known, dirs)
            /\ catalog' = FromCandidates(Candidates(Known, dirs), dirs)
            /\ UNCHANGED <<jobs, dirs, tampered>>
<1>1. CASE RefreshCatalog
  BY SMTT(30), <1>1 DEF RefreshCatalog, PublishedStillValid
<1>2. ASSUME NEW r \in Runs, ExecuteOne(r) PROVE catalog' = catalog
  BY <1>2 DEF ExecuteOne, StartJob, CheckSpace, ClaimRun, RenameMarker, InspectRun, IngestHour,
              IngestFails, IngestReturns, ExecutionFallsShort, FinishJob, Thread
<1>3. CASE UNCHANGED vars
  BY <1>3 DEF vars, durable
<1> QED BY Zenon, <1>1, <1>2, <1>3
        DEF Next, Host, World, StartPass, RecoverRunning, AdmitDiscovered, PersistAdmitted,
            PersistDone, ClassifyRecord, ClassifyDone, StartChunk, ChunksDone, ChunkEnds,
            RetainRun, SweepTombstone, RetainDone, PruneState, FinishPass,
            ProviderAdvances, Crash, Cancel, StoreFault, BackoffElapses, durable

\* The empty catalog is valid, and a refresh makes a valid one.
LEMMA CatalogInit == Init => CatalogValid
<1>1. Cardinality({}) <= 1
  BY FS_EmptySet
<1>2. Init => \A lane \in Lanes : catalog[lane].active = {} /\ catalog[lane].previous = {}
  BY DEF Init, EmptyCatalog
<1>3. Init => Published(catalog) = {}
  BY <1>2 DEF Published
<1> QED BY <1>1, <1>2, <1>3 DEF CatalogValid, ValidCatalog

LEMMA CatalogStep == TypeInv /\ CatalogValid /\ [Next]_vars => CatalogValid'
<1> SUFFICES ASSUME TypeInv, CatalogValid, [Next]_vars PROVE CatalogValid'
  OBVIOUS
<1>1. CASE catalog' = catalog
  BY Zenon, <1>1 DEF CatalogValid, ValidCatalog, Published
<1>2. CASE catalog' = FromCandidates(Candidates(Known, dirs), dirs)
  <2> DEFINE S == Candidates(Known, dirs)
  <2>1. /\ S \in SUBSET Runs /\ dirs \in [Runs -> RunDir]
        /\ \A r \in S : Queryable(dirs[r]) /\ Present(dirs[r]) # {}
    BY DEF Candidates, Known, TypeInv, TypeOK
  <2> HIDE DEF S
  <2>2. \A lane \in Lanes : catalog'[lane] = LaneGenerations(lane, S, dirs)
    BY <1>2 DEF FromCandidates, S
  <2>3. ASSUME NEW lane \in Lanes
        PROVE  /\ Cardinality(catalog'[lane].active) <= 1
               /\ Cardinality(catalog'[lane].previous) <= 1
               /\ \A gen \in catalog'[lane].active \cup catalog'[lane].previous :
                     ValidGeneration(gen, lane) /\ gen.present # {}
               /\ \A old \in catalog'[lane].previous :
                     \E new \in catalog'[lane].active : Origin[old.run] < Origin[new.run]
    BY Zenon, <2>1, <2>2, LaneValid
  <2>4. ValidCatalog(catalog')
    BY Zenon, <2>3 DEF ValidCatalog
  <2>5. \A gen \in Published(catalog') : gen.present # {}
    BY <2>3 DEF Published
  <2> QED BY Zenon, <2>4, <2>5 DEF CatalogValid
<1> QED BY <1>1, <1>2, CatalogSteps

\* OriginCatalogState::validate accepts every catalog a refresh builds, for any
\* lanes, runs and coverage: the refresh never fails there, and what it wrote
\* loads again.
THEOREM CatalogAlwaysValid == Spec => []CatalogValid
<1>1. Init => TypeInv /\ CatalogValid
  BY TypeInit, CatalogInit
<1>2. TypeInv /\ CatalogValid /\ [Next]_vars => (TypeInv /\ CatalogValid)'
  BY TypeStep, CatalogStep
<1> QED BY <1>1, <1>2, PTL DEF Spec

-----------------------------------------------------------------------------
(* Published hours stay in the store.                                      *)

\* run.json is one list of hours: RunDir would allow several.
OneManifest == \A r \in Runs : \A a, b \in dirs[r].manifest : a = b

\* A run that verifies has every hour it lists.
LEMMA VerifiedHours ==
  ASSUME NEW d, Verifies(d), \A a, b \in d.manifest : a = b
  PROVE  Present(d) \subseteq d.files
BY DEF Verifies, Present

\* What a step may do to the directory of a run: nothing, add hours, rename its
\* marker; remove it as planned, or be somebody else's doing.
LEMMA DirSteps ==
  ASSUME TypeInv, OneManifest, [Next]_vars, NEW r \in Runs
  PROVE  /\ \A a, b \in dirs'[r].manifest : a = b
         /\ \/ /\ Present(dirs[r]) \subseteq Present(dirs'[r])
               /\ dirs[r].files \subseteq dirs'[r].files
            \/ r \in doomed \/ r \in tampered'
<1>0. dirs \in [Runs -> RunDir] /\ dirs[r] \in RunDir /\ \A a, b \in dirs[r].manifest : a = b
  BY ZenonT(30) DEF TypeInv, TypeOK, OneManifest
<1>1. CASE dirs' = dirs
  BY <1>0, <1>1
<1>2. ASSUME NEW s \in Runs, NEW k, dirs' = [dirs EXCEPT ![s].kind = k]
      PROVE  dirs'[r].manifest = dirs[r].manifest /\ dirs'[r].files = dirs[r].files
  BY SMTT(30), <1>0, <1>2 DEF RunDir
<1>3. ASSUME NEW s \in Runs, IngestHour(s)
      PROVE  /\ \A a, b \in dirs'[r].manifest : a = b
             /\ Present(dirs[r]) \subseteq Present(dirs'[r])
             /\ dirs[r].files \subseteq dirs'[r].files
  <2>1. PICK h \in Hours :
          dirs' = [dirs EXCEPT ![s].manifest = {Present(dirs[s]) \cup {h}},
                               ![s].files = @ \cup {h}]
    BY Zenon, <1>3 DEF IngestHour
  <2>2. CASE r # s
    BY <1>0, <2>1, <2>2
  <2>3. CASE r = s
    <3>1. /\ dirs'[r].manifest = {Present(dirs[r]) \cup {h}}
          /\ dirs'[r].files = dirs[r].files \cup {h}
      BY <1>0, <2>1, <2>3 DEF RunDir
    <3>2. Present(dirs'[r]) = Present(dirs[r]) \cup {h}
      BY <3>1 DEF Present
    <3> QED BY <3>1, <3>2
  <2> QED BY <2>2, <2>3
<1>4. CASE StoreFault
  <2>1. PICK s \in Runs : StoreFault!1!(s)
    BY SMTT(30), <1>4 DEF StoreFault
  <2>2. CASE r # s
    <3>1. dirs'[r] = dirs[r]
      BY <1>0, <2>1, <2>2
    <3> QED BY <1>0, <3>1
  <2>3. CASE r = s
    <3>1. dirs'[r].manifest \in {dirs[r].manifest, {}}
      BY <1>0, <2>1, <2>3 DEF RunDir, NoDir
    <3> QED BY <1>0, <2>1, <2>3, <3>1
  <2> QED BY Zenon, <2>2, <2>3
<1>5. CASE RetainRun
  <2>1. PICK s \in doomed : dirs' = dirs \/ dirs' = [dirs EXCEPT ![s] = NoDir]
    BY <1>5 DEF RetainRun, Least
  <2>2. CASE r = s /\ dirs' = [dirs EXCEPT ![s] = NoDir]
    BY SMTT(30), <1>0, <2>2 DEF NoDir
  <2>3. CASE r # s /\ dirs' = [dirs EXCEPT ![s] = NoDir]
    <3>1. dirs'[r] = dirs[r]
      BY <1>0, <2>3
    <3> QED BY SMTT(30), <1>0, <3>1
  <2> QED BY ZenonT(30), <1>1, <2>1, <2>2, <2>3
<1>6. ASSUME NEW s \in Runs, ExecuteOne(s)
      PROVE  \/ dirs' = dirs \/ IngestHour(s)
             \/ \E k : dirs' = [dirs EXCEPT ![s].kind = k]
  BY <1>6 DEF ExecuteOne, StartJob, CheckSpace, ClaimRun, RenameMarker, InspectRun,
              IngestFails, IngestReturns, ExecutionFallsShort, FinishJob
<1>7. \/ dirs' = dirs \/ StoreFault \/ RetainRun \/ \E s \in Runs : ExecuteOne(s)
  BY Zenon DEF Next, Host, World, StartPass, RecoverRunning, AdmitDiscovered, PersistAdmitted,
         PersistDone, ClassifyRecord, ClassifyDone, StartChunk, ChunksDone, ChunkEnds,
         RefreshCatalog, SweepTombstone, RetainDone, PruneState, FinishPass,
         ProviderAdvances, Crash, Cancel, BackoffElapses, durable, vars
<1>8. ASSUME dirs'[r].manifest = dirs[r].manifest, dirs'[r].files = dirs[r].files
      PROVE  /\ \A a, b \in dirs'[r].manifest : a = b
             /\ Present(dirs[r]) \subseteq Present(dirs'[r])
             /\ dirs[r].files \subseteq dirs'[r].files
  BY <1>0, <1>8 DEF Present
<1> QED BY SMTT(30), <1>1, <1>2, <1>3, <1>4, <1>5, <1>6, <1>7, <1>8

\* Nobody forgets which runs were touched.
LEMMA TamperedGrows == ASSUME [Next]_vars PROVE tampered \subseteq tampered'
<1>1. ASSUME NEW r \in Runs, ExecuteOne(r) PROVE tampered' = tampered
  BY <1>1 DEF ExecuteOne, StartJob, CheckSpace, ClaimRun, RenameMarker, InspectRun, IngestHour,
              IngestFails, IngestReturns, ExecutionFallsShort, FinishJob, Thread
<1> QED BY ZenonT(30), <1>1
        DEF Next, Host, World, StartPass, RecoverRunning, AdmitDiscovered, PersistAdmitted,
            PersistDone, ClassifyRecord, ClassifyDone, StartChunk, ChunksDone, ChunkEnds,
            RefreshCatalog, RetainRun, SweepTombstone, RetainDone, PruneState, FinishPass,
            ProviderAdvances, Crash, Cancel, StoreFault, BackoffElapses, vars

\* A published generation is a generation of a run.
LEMMA PublishedType ==
  ASSUME TypeOK, NEW gen \in Published(catalog)
  PROVE  gen \in Generation /\ gen.run \in Runs /\ gen.run \in Protected(catalog)
<1>1. gen \in Generation
  BY DEF TypeOK, Published, PublishedLane
<1> QED BY <1>1 DEF Generation, Protected

StoredInv == OneManifest /\ PublishedHoursStored

\* Nothing is published or stored initially.
LEMMA StoredInit == Init => StoredInv
<1>1. Init => OneManifest
  BY DEF Init, OneManifest, NoDir
<1>2. Init => Published(catalog) = {}
  BY DEF Init, EmptyCatalog, Published
<1> QED BY <1>1, <1>2 DEF StoredInv, PublishedHoursStored

\* StoredInv is inductive relative to the deletion plan: what is removed is not published.
LEMMA StoredStep == TypeInv /\ RetentionInv /\ StoredInv /\ [Next]_vars => StoredInv'
<1> SUFFICES ASSUME TypeInv, RetentionInv, StoredInv, [Next]_vars PROVE StoredInv'
  OBVIOUS
<1>0. TypeOK /\ OneManifest /\ OneManifest'
  BY ZenonT(30), DirSteps DEF TypeInv, StoredInv, OneManifest
<1>1. CASE catalog' = catalog
  <2> SUFFICES ASSUME NEW gen \in Published(catalog), gen.run \notin tampered'
               PROVE  gen.present \subseteq Present(dirs'[gen.run]) \cap dirs'[gen.run].files
    BY Zenon, <1>0, <1>1 DEF StoredInv, PublishedHoursStored, Published
  <2>1. gen.run \in Runs /\ gen.run \in Protected(catalog)
    BY SMTT(30), <1>0, PublishedType
  <2>2. gen.run \notin doomed
    BY <2>1 DEF RetentionInv, PlanDisjoint
  <2>3. gen.present \subseteq Present(dirs[gen.run]) \cap dirs[gen.run].files
    BY SMTT(30), TamperedGrows DEF StoredInv, PublishedHoursStored
  <2>4. /\ Present(dirs[gen.run]) \subseteq Present(dirs'[gen.run])
        /\ dirs[gen.run].files \subseteq dirs'[gen.run].files
    <3>1. PICK r \in Runs : r = gen.run
      BY Zenon, <2>1
    <3>2. \/ Present(dirs[r]) \subseteq Present(dirs'[r]) /\ dirs[r].files \subseteq dirs'[r].files
          \/ r \in doomed \/ r \in tampered'
      BY Zenon, <1>0, DirSteps
    <3> QED BY Zenon, <2>2, <3>1, <3>2
  <2> QED BY <2>3, <2>4
<1>2. CASE /\ catalog' = FromCandidates(Candidates(Known, dirs), dirs)
           /\ UNCHANGED <<jobs, dirs, tampered>>
  <2> SUFFICES ASSUME NEW gen \in Published(catalog')
               PROVE  gen.present \subseteq Present(dirs[gen.run]) \cap dirs[gen.run].files
    BY Zenon, <1>0, <1>2 DEF StoredInv, PublishedHoursStored
  <2>1. PICK r \in Candidates(Known, dirs) : gen = GenerationOf(r, dirs)
    BY <1>2 DEF Published, FromCandidates, LaneGenerations, Newest
  <2>2. gen.run = r /\ gen.present = Present(dirs[r])
    BY SMTT(30), <2>1 DEF GenerationOf
  <2>3. r \in Runs /\ Verifies(dirs[r])
    BY <2>1 DEF Candidates, Known, Queryable
  <2>4. Present(dirs[r]) \subseteq dirs[r].files
    BY Zenon, <1>0, <2>3, VerifiedHours DEF OneManifest
  <2> QED BY <2>2, <2>4
<1> QED BY <1>1, <1>2, CatalogSteps

\* Every hour the catalog advertises is listed and readable in the store, with
\* any runs, lanes and threads and with crashes anywhere, unless somebody else
\* touched the run: ingest only adds hours, retention removes nothing that is
\* published, and a refresh publishes only what verifies.
THEOREM PublishedHoursKept == Spec => []PublishedHoursStored
<1> DEFINE All == TypeInv /\ RetentionInv /\ StoredInv
<1>1. Init => All
  BY TypeInit, RetentionInit, StoredInit
<1>2. All /\ [Next]_vars => All'
  BY TypeStep, RetentionStep, StoredStep
<1>3. All => PublishedHoursStored
  BY DEF StoredInv
<1> QED BY <1>1, <1>2, <1>3, PTL DEF Spec

-----------------------------------------------------------------------------
(* The steps of one record, and the bound on the active ones.              *)

\* What a pass admitted: its records are finitely many, those not persisted yet
\* are among them and have no record on disk; and with the active jobs they are
\* within the capacity, although classification may requeue any of them.
AdmittedInv ==
    /\ IsFiniteSet(Known) /\ IsFiniteSet(recs)
    /\ pc # "persist" => fresh = {}
    /\ fresh \subseteq recs
    /\ \A r \in fresh : jobs[r].state = "none"
    /\ Cardinality(Active \cup recs) <= JobCapacity

\* What the host may do to one record.
JobStep(old, new) ==
    \/ old = NoJob /\ new = NewRecord
    \/ old.state = "succeeded" /\ new = NewRecord
    \/ CanStart(old) /\ new = Start(old)
    \/ /\ old.state = "running" /\ old.attempts >= 1
       /\ new \in {RecoverAfterRestart(old), FinishSuccess(old), FinishFailure(old)}
    \/ old.state = "retry_due" /\ new = ReleaseRetry(old)
    \/ old.state = "retry_backoff" /\ new = [old EXCEPT !.state = "retry_due"]
    \/ ~IsActive(old) /\ new = NoJob

\* A step saves one record, and activates only one that the pass admitted.
Saves(r, job) ==
    /\ jobs' = [jobs EXCEPT ![r] = job]
    /\ JobStep(jobs[r], job)
    /\ IsActive(job) => IsActive(jobs[r]) \/ r \in recs

\* A record that no file holds is NoJob, any other is a JobRecord.
LEMMA RecordCases ==
  ASSUME TypeOK, NEW r \in Runs
  PROVE  /\ jobs[r].state = "none" => jobs[r] = NoJob
         /\ jobs[r].state # "none" => jobs[r] \in JobRecord
BY DEF TypeOK, JobRecord, JobStates, NoJob

\* One step of the host saves at most one record, in one of these ways.
LEMMA RecordSteps ==
  ASSUME TypeInv, AdmittedInv, [Next]_vars
  PROVE  jobs' = jobs \/ \E r \in Runs : \E job : Saves(r, job)
<1>0. TypeOK
  BY DEF TypeInv
<1>1. CASE RecoverRunning
  <2>1. PICK r \in Least(Interrupted) : jobs' = [jobs EXCEPT ![r] = RecoverAfterRestart(jobs[r])]
    BY Zenon, <1>1 DEF RecoverRunning
  <2>2. r \in Runs /\ jobs[r].state = "running"
    BY <2>1 DEF Least, Interrupted
  <2>3. jobs[r].attempts >= 1 /\ IsActive(jobs[r])
    BY <2>2 DEF TypeInv, RunningCharged, IsActive
  <2>4. Saves(r, RecoverAfterRestart(jobs[r]))
    BY <2>1, <2>2, <2>3 DEF Saves, JobStep
  <2> QED BY <2>2, <2>4
<1>2. CASE PersistAdmitted
  <2>1. PICK r \in fresh : jobs' = [jobs EXCEPT ![r] = NewRecord]
    BY Zenon, <1>2 DEF PersistAdmitted
  <2>2. r \in Runs /\ r \in recs /\ jobs[r] = NoJob
    BY <1>0, <2>1, RecordCases DEF AdmittedInv, TypeOK
  <2>3. Saves(r, NewRecord)
    BY <2>1, <2>2 DEF Saves, JobStep
  <2> QED BY <2>2, <2>3
<1>3. CASE ClassifyRecord
  <2>1. PICK r \in recs : jobs' = [jobs EXCEPT ![r] = Classified(r)]
    BY Zenon, <1>3 DEF ClassifyRecord, Least
  <2>2. r \in Runs
    BY <1>0, <2>1 DEF TypeOK
  <2>3. CASE jobs[r].state = "retry_due"
    <3>1. Classified(r) = ReleaseRetry(jobs[r])
      BY <2>3 DEF Classified
    <3>2. Saves(r, ReleaseRetry(jobs[r]))
      BY <2>1, <2>3, <3>1 DEF Saves, JobStep
    <3> QED BY <2>2, <3>2
  <2>4. CASE jobs[r].state = "succeeded" /\ Classified(r) = NewRecord
    <3>1. Saves(r, NewRecord)
      BY <2>1, <2>4 DEF Saves, JobStep
    <3> QED BY <2>2, <3>1
  <2>5. CASE Classified(r) = jobs[r]
    <3>1. jobs' = jobs
      BY <1>0, <2>1, <2>2, <2>5 DEF TypeOK
    <3> QED BY <3>1
  <2> QED BY <2>3, <2>4, <2>5 DEF Classified, RequeueForRepair
<1>4. ASSUME NEW r \in Runs, ExecuteOne(r) PROVE jobs' = jobs \/ \E job : Saves(r, job)
  <2>1. CASE StartJob(r)
    <3>1. CASE CanStart(jobs[r])
      <4>1. jobs' = [jobs EXCEPT ![r] = Start(jobs[r])] /\ IsActive(jobs[r])
        BY <2>1, <3>1 DEF StartJob, CanStart, IsActive
      <4>2. Saves(r, Start(jobs[r]))
        BY <3>1, <4>1 DEF Saves, JobStep
      <4> QED BY <4>2
    <3>2. CASE ~CanStart(jobs[r])
      BY <2>1, <3>2 DEF StartJob
    <3> QED BY <3>1, <3>2
  <2>2. CASE FinishJob(r)
    <3>1. stage[r] \in Working
      BY <2>2 DEF FinishJob, Thread, Working
    <3>2. jobs[r].state = "running" /\ jobs[r].attempts >= 1 /\ IsActive(jobs[r])
      BY Zenon, <3>1 DEF TypeInv, ThreadsRun, RunningCharged, IsActive
    <3>3. \/ jobs' = jobs
          \/ \E job \in {FinishSuccess(jobs[r]), FinishFailure(jobs[r]),
                          RecoverAfterRestart(jobs[r])} : jobs' = [jobs EXCEPT ![r] = job]
      BY <2>2 DEF FinishJob
    <3>4. ASSUME NEW job \in {FinishSuccess(jobs[r]), FinishFailure(jobs[r]),
                              RecoverAfterRestart(jobs[r])}, jobs' = [jobs EXCEPT ![r] = job]
          PROVE  Saves(r, job)
      BY <3>2, <3>4 DEF Saves, JobStep
    <3> QED BY SMTT(30), <3>3, <3>4
  <2>3. CASE ~StartJob(r) /\ ~FinishJob(r)
    BY <1>4, <2>3 DEF ExecuteOne, CheckSpace, ClaimRun, RenameMarker, InspectRun, IngestHour,
                      IngestFails, IngestReturns, ExecutionFallsShort
  <2> QED BY <2>1, <2>2, <2>3
<1>5. CASE PruneState
  <2>1. PICK r \in Runs : jobs' = [jobs EXCEPT ![r] = NoJob] /\ ~IsActive(jobs[r])
    BY Zenon, <1>0, <1>5 DEF PruneState, Least, TypeOK
  <2>2. ~IsActive(NoJob)
    BY DEF IsActive, NoJob
  <2>3. Saves(r, NoJob)
    BY <2>1, <2>2 DEF Saves, JobStep
  <2> QED BY <2>3
<1>6. ASSUME NEW r \in Runs, BackoffElapses(r) PROVE \E job : Saves(r, job)
  <2>1. jobs' = [jobs EXCEPT ![r] = [jobs[r] EXCEPT !.state = "retry_due"]]
    BY <1>0, <1>6 DEF TypeOK, BackoffElapses
  <2>2. jobs[r].state = "retry_backoff" /\ IsActive(jobs[r])
    BY <1>6 DEF BackoffElapses, IsActive
  <2>3. Saves(r, [jobs[r] EXCEPT !.state = "retry_due"])
    BY <2>1, <2>2 DEF Saves, JobStep
  <2> QED BY <2>3
<1>7. \/ jobs' = jobs \/ RecoverRunning \/ PersistAdmitted \/ ClassifyRecord \/ PruneState
      \/ \E r \in Runs : ExecuteOne(r) \/ BackoffElapses(r)
  BY Zenon DEF Next, Host, World, StartPass, AdmitDiscovered, PersistDone, ClassifyDone, StartChunk,
         ChunksDone, ChunkEnds, RefreshCatalog, RetainRun, SweepTombstone, RetainDone, FinishPass,
         ProviderAdvances, Crash, Cancel, StoreFault, durable, vars
<1> QED BY <1>1, <1>2, <1>3, <1>4, <1>5, <1>6, <1>7

\* Finitely many feeds that report at most one run each report finitely many.
LEMMA FiniteReports ==
  ASSUME NEW F, IsFiniteSet(F), NEW D,
         \A feed \in F : \A r, s \in D[feed] : r = s
  PROVE  IsFiniteSet(UNION {D[feed] : feed \in F})
<1> DEFINE Answers == {feed \in F : D[feed] # {}}
           Found == UNION {D[feed] : feed \in F}
           report == [feed \in Answers |-> CHOOSE r : r \in D[feed]]
<1>1. IsFiniteSet(Answers)
  BY FS_Subset
<1>2. \A feed : feed \in Answers <=> feed \in F /\ \E r : r \in D[feed]
  BY Zenon
<1>3. \A feed \in Answers : report[feed] = CHOOSE r : r \in D[feed]
  BY Zenon
<1>4. \A r : r \in Found <=> \E feed \in F : r \in D[feed]
  BY Zenon
<1>5. \A S : S # {} => (CHOOSE r : r \in S) \in S
  BY Zenon
<1> HIDE DEF Answers, Found, report
<1>6. ASSUME NEW feed \in Answers PROVE report[feed] \in D[feed] /\ report[feed] \in Found
  <2>1. feed \in F /\ D[feed] # {} /\ report[feed] = CHOOSE r : r \in D[feed]
    BY Zenon, <1>2, <1>3
  <2>2. report[feed] \in D[feed]
    BY Zenon, <1>5, <2>1
  <2> QED BY Zenon, <1>4, <2>1, <2>2
<1>7. ASSUME NEW r \in Found PROVE \E feed \in Answers : report[feed] = r
  <2>1. PICK feed \in F : r \in D[feed]
    BY Zenon, <1>4
  <2>2. feed \in Answers
    BY Zenon, <1>2, <2>1
  <2>3. report[feed] \in D[feed]
    BY Zenon, <1>6, <2>2
  <2> QED BY Zenon, <2>1, <2>2, <2>3
<1>8. report \in [Answers -> Found]
  BY Zenon, <1>6 DEF report
<1>9. report \in Surjection(Answers, Found)
  BY Zenon, <1>7, <1>8 DEF Surjection
<1>10. IsFiniteSet(Found)
  BY Zenon, <1>1, <1>9, FS_Surjection
<1> QED BY <1>10 DEF Found

\* Whatever the probes answer, discovery reports finitely many runs.
LEMMA DiscoveryFinite ==
  ASSUME NEW found \in SUBSET Runs, DiscoveredRuns(found)
  PROVE  IsFiniteSet(found)
<1> DEFINE All == UNION {Discovered(feed) : feed \in Feeds}
<1>1. IsFiniteSet(Feeds)
  BY LanesAssumption DEF Feeds
<1>2. ASSUME NEW feed \in Feeds, NEW r \in Discovered(feed), NEW s \in Discovered(feed)
      PROVE  r = s
  <2>1. r \in Eligible(feed) /\ s \in Eligible(feed)
    BY SMTT(30) DEF Discovered, Newest
  <2>2. r \in Runs /\ s \in Runs /\ ModelOf[r] = ModelOf[s]
    BY <2>1 DEF Eligible
  <2>3. Origin[r] <= Origin[s] /\ Origin[s] <= Origin[r]
    BY <2>1 DEF Discovered, Newest
  <2> QED BY <2>2, <2>3, LanesAssumption
<1>3. IsFiniteSet(All)
  <2> DEFINE D == [feed \in Feeds |-> Discovered(feed)]
  <2>1. \A feed \in Feeds : D[feed] = Discovered(feed)
    OBVIOUS
  <2>2. \A feed \in Feeds : \A r, s \in D[feed] : r = s
    BY <1>2, <2>1
  <2>3. All = UNION {D[feed] : feed \in Feeds}
    BY <2>1
  <2> HIDE DEF D, All
  <2>4. IsFiniteSet(UNION {D[feed] : feed \in Feeds})
    BY <1>1, <2>2, FiniteReports
  <2> QED BY <2>3, <2>4
<1>4. PICK extra : found \subseteq All \cup extra /\ IsFiniteSet(extra)
  <2>1. CASE found \subseteq All
    BY <2>1, FS_EmptySet
  <2>2. CASE \E feed \in Feeds : \E report \in Degraded(feed) : found \subseteq All \cup report
    <3>0. PICK feed \in Feeds : \E report \in Degraded(feed) : found \subseteq All \cup report
      BY <2>2
    <3>1. PICK report \in Degraded(feed) : found \subseteq All \cup report
      BY <3>0
    <3>2. report = {} \/ \E r \in Eligible(feed) : report = {r}
      BY DEF Degraded
    <3>3. IsFiniteSet(report)
      BY Zenon, <3>2, FS_EmptySet, FS_Singleton
    <3> QED BY <3>1, <3>3
  <2>3. found \subseteq All
        \/ \E feed \in Feeds : \E report \in Degraded(feed) : found \subseteq All \cup report
    BY DEF DiscoveredRuns
  <2> QED BY <2>1, <2>2, <2>3
<1> HIDE DEF All
<1>5. IsFiniteSet(All \cup extra)
  BY Zenon, <1>3, <1>4, FS_Union
<1> QED BY <1>4, <1>5, FS_Subset

\* What is among finitely many records within the capacity is within it too.
LEMMA FewerFit ==
  ASSUME NEW S, NEW T, S \subseteq T, IsFiniteSet(T), Cardinality(T) <= JobCapacity
  PROVE  IsFiniteSet(S) /\ Cardinality(S) <= JobCapacity
<1>1. IsFiniteSet(S) /\ Cardinality(S) <= Cardinality(T)
  BY FS_Subset
<1>2. Cardinality(S) \in Nat /\ Cardinality(T) \in Nat
  BY <1>1, FS_CardinalityType
<1> QED BY <1>1, <1>2, HostAssumption

\* The active jobs and the records of the pass are finitely many.
LEMMA AdmittedFinite ==
  ASSUME AdmittedInv
  PROVE  /\ Active \subseteq Known /\ IsFiniteSet(Active) /\ IsFiniteSet(Active \cup recs)
         /\ Cardinality(Active) <= JobCapacity
<1>1. Active \subseteq Known
  BY DEF Active, Known, IsActive
<1>2. IsFiniteSet(Active)
  BY <1>1, FS_Subset DEF AdmittedInv
<1>3. IsFiniteSet(Active \cup recs)
  BY Zenon, <1>2, FS_Union DEF AdmittedInv
<1>4. Active \subseteq Active \cup recs
  OBVIOUS
<1>5. Cardinality(Active) <= JobCapacity
  BY SMTT(30), <1>3, <1>4, FewerFit DEF AdmittedInv
<1> QED BY <1>1, <1>2, <1>3, <1>5

LEMMA AdmittedInit == Init => AdmittedInv
<1> SUFFICES ASSUME Init PROVE AdmittedInv
  OBVIOUS
<1>1. Known = {} /\ Active = {} /\ recs = {} /\ fresh = {}
  BY DEF Init, Known, Active, IsActive, NoJob
<1>2. Cardinality({}) = 0 /\ IsFiniteSet({})
  BY FS_EmptySet
<1>3. Active \cup recs = {}
  BY <1>1
<1>4. Cardinality(Active \cup recs) <= JobCapacity
  BY SMTT(30), <1>2, <1>3, HostAssumption
<1> QED BY <1>1, <1>2, <1>4 DEF AdmittedInv

\* Only an admission adds records to a pass, and only until they are persisted
\* are there any without a file.
LEMMA PassSteps ==
  ASSUME AdmittedInv, [Next]_vars
  PROVE  \/ AdmitDiscovered
         \/ /\ recs' \subseteq recs
            /\ fresh' = {} \/ PersistAdmitted \/ UNCHANGED <<jobs, fresh, recs, pc>>
<1>1. CASE EndPass
  BY <1>1 DEF EndPass
<1>2. CASE UNCHANGED <<fresh, recs>> /\ fresh = {}
  BY <1>2
<1>3. CASE UNCHANGED <<jobs, fresh, recs, pc>>
  BY <1>3
<1>4. CASE PersistAdmitted
  BY Zenon, <1>4 DEF PersistAdmitted
<1>5. CASE ClassifyRecord
  BY <1>5 DEF ClassifyRecord, AdmittedInv
<1>6. CASE \E r \in Runs : ExecuteOne(r) \/ BackoffElapses(r)
  BY ZenonT(30), <1>2, <1>6 DEF ExecuteOne, StartJob, CheckSpace, ClaimRun, RenameMarker, InspectRun, IngestHour,
                    IngestFails, IngestReturns, ExecutionFallsShort, FinishJob, Thread,
                    BackoffElapses, work, AdmittedInv
<1>7. CASE (\E p \in Pids : StartPass(p)) \/ RecoverRunning \/ PersistDone \/ ClassifyDone
           \/ StartChunk \/ ChunksDone
  BY Zenon, <1>2, <1>7 DEF StartPass, LeaseFree, RecoverRunning, PersistDone, ClassifyDone, StartChunk,
                    ChunksDone, work, AdmittedInv
<1>8. CASE ChunkEnds \/ RefreshCatalog \/ RetainRun \/ SweepTombstone
  BY Zenon, <1>1, <1>2, <1>8 DEF ChunkEnds, RefreshCatalog, RetainRun, SweepTombstone, work, AdmittedInv
<1>9. CASE RetainDone \/ PruneState \/ FinishPass
  BY Zenon, <1>1, <1>2, <1>9 DEF RetainDone, PruneState, FinishPass, work, AdmittedInv
<1>10. CASE World \/ UNCHANGED vars
  BY <1>1, <1>3, <1>10 DEF World, ProviderAdvances, Crash, Cancel, StoreFault, work, durable, vars
<1> QED BY ZenonT(30), <1>4, <1>5, <1>6, <1>7, <1>8, <1>9, <1>10 DEF Next, Host

LEMMA AdmittedStep == TypeInv /\ AdmittedInv /\ [Next]_vars => AdmittedInv'
<1> SUFFICES ASSUME TypeInv, AdmittedInv, [Next]_vars PROVE AdmittedInv'
  OBVIOUS
<1>0. TypeOK
  BY DEF TypeInv
<1>1. IsFiniteSet(Known') /\ Active' \subseteq Active \cup recs
  <2>1. CASE jobs' = jobs
    <3>1. Known' = Known /\ Active' = Active
      BY <2>1 DEF Known, Active
    <3> QED BY <3>1 DEF AdmittedInv
  <2>2. CASE jobs' # jobs
    <3>1. PICK r \in Runs : \E job : Saves(r, job)
      BY <2>2, RecordSteps
    <3>2. PICK job : Saves(r, job)
      BY <3>1
    <3>3. \A s \in Runs : jobs'[s] = IF s = r THEN job ELSE jobs[s]
      BY <1>0, <3>2 DEF Saves, TypeOK
    <3>4. Known' \subseteq Known \cup {r}
      BY <3>3 DEF Known
    <3>5. IsFiniteSet({r}) /\ IsFiniteSet(Known)
      BY Zenon, FS_Singleton DEF AdmittedInv
    <3>6. IsFiniteSet(Known \cup {r})
      BY Zenon, <3>5, FS_Union
    <3>7. IsFiniteSet(Known')
      BY <3>4, <3>6, FS_Subset
    <3>8. Active' \subseteq Active \cup recs
      BY <3>2, <3>3 DEF Saves, Active
    <3> QED BY <3>7, <3>8
  <2> QED BY <2>1, <2>2
<1>2. CASE AdmitDiscovered
  <2>1. PICK found \in SUBSET Runs :
          /\ DiscoveredRuns(found)
          /\ LET records == Active \cup (Known \cap Protected(catalog)) \cup found IN
             IF OverCapacity(records)
             THEN EndPass
             ELSE /\ pc' = "persist"
                  /\ fresh' = found \ Known
                  /\ recs' = records
    BY <1>2 DEF AdmitDiscovered
  <2> DEFINE records == Active \cup (Known \cap Protected(catalog)) \cup found
  <2>2. jobs' = jobs
    BY <1>2 DEF AdmitDiscovered, durable
  <2>3. Active \subseteq Known
    BY AdmittedFinite
  <2>4. IsFiniteSet(records)
    <3>1. IsFiniteSet(Known \cup found)
      BY Zenon, <2>1, DiscoveryFinite, FS_Union DEF AdmittedInv
    <3>2. records \subseteq Known \cup found
      BY SMTT(30), <2>3
    <3> QED BY <3>1, <3>2, FS_Subset
  <2>5. CASE OverCapacity(records)
    <3>1. recs' = {} /\ fresh' = {}
      BY <2>1, <2>5 DEF EndPass
    <3>3. Active' = Active
      BY <2>2 DEF Active
    <3>4. Cardinality(Active) <= JobCapacity
      BY AdmittedFinite
    <3>5. Active' \cup recs' = Active
      BY <3>1, <3>3
    <3>6. Cardinality(Active' \cup recs') <= JobCapacity
      BY <3>4, <3>5
    <3>7. IsFiniteSet({})
      BY FS_EmptySet
    <3> QED BY <1>1, <3>1, <3>6, <3>7 DEF AdmittedInv
  <2>6. CASE ~OverCapacity(records)
    <3>1. recs' = records /\ fresh' = found \ Known /\ pc' = "persist"
      BY <2>1, <2>6
    <3>2. Active' \cup recs' = records
      BY <2>2, <3>1 DEF Active
    <3>3. Cardinality(records) <= JobCapacity
      <4> HIDE DEF records
      <4>1. Cardinality(records) \in Nat
        BY SMTT(30), <2>4, FS_CardinalityType
      <4> QED BY <2>6, <4>1, HostAssumption DEF OverCapacity
    <3>4. \A r \in fresh' : jobs'[r].state = "none"
      BY <2>1, <2>2, <3>1 DEF Known
    <3>5. fresh' \subseteq recs'
      BY SMTT(30), <3>1
    <3> QED BY Zenon, <1>1, <2>4, <3>1, <3>2, <3>3, <3>4, <3>5 DEF AdmittedInv
  <2> QED BY <2>5, <2>6
<1>3. CASE ~AdmitDiscovered
  <2>1. /\ recs' \subseteq recs
        /\ fresh' = {} \/ PersistAdmitted \/ UNCHANGED <<jobs, fresh, recs, pc>>
    BY SMTT(30), <1>3, PassSteps
  <2>2. IsFiniteSet(recs')
    BY <2>1, FS_Subset DEF AdmittedInv
  <2>3. Active' \cup recs' \subseteq Active \cup recs
    BY SMTT(30), <1>1, <2>1
  <2>4. IsFiniteSet(Active \cup recs) /\ Cardinality(Active \cup recs) <= JobCapacity
    BY AdmittedFinite DEF AdmittedInv
  <2>5. Cardinality(Active' \cup recs') <= JobCapacity
    BY SMTT(30), <2>3, <2>4, FewerFit
  <2>6. /\ pc' # "persist" => fresh' = {}
        /\ fresh' \subseteq recs'
        /\ \A r \in fresh' : jobs'[r].state = "none"
    <3>1. CASE fresh' = {}
      BY <3>1
    <3>2. CASE UNCHANGED <<jobs, fresh, recs, pc>>
      BY SMTT(30), <3>2 DEF AdmittedInv
    <3>3. CASE PersistAdmitted
      <4>1. PICK r \in fresh : jobs' = [jobs EXCEPT ![r] = NewRecord] /\ fresh' = fresh \ {r}
        BY Zenon, <3>3 DEF PersistAdmitted
      <4>2. \A s \in fresh' : jobs'[s] = jobs[s]
        BY <1>0, <4>1 DEF TypeOK
      <4> QED BY <3>3, <4>1, <4>2 DEF PersistAdmitted, AdmittedInv
    <3> QED BY SMTT(30), <2>1, <3>1, <3>2, <3>3
  <2> QED BY <1>1, <2>2, <2>5, <2>6 DEF AdmittedInv
<1> QED BY <1>2, <1>3

LEMMA AlwaysAdmitted == Spec => []AdmittedInv
<1>1. Init => TypeInv /\ AdmittedInv
  BY TypeInit, AdmittedInit
<1>2. TypeInv /\ AdmittedInv /\ [Next]_vars => (TypeInv /\ AdmittedInv)'
  BY TypeStep, AdmittedStep
<1> QED BY <1>1, <1>2, PTL DEF Spec

\* The active job records never outnumber the capacity of the configuration:
\* the check of run_once_at counts every record that the pass may activate
\* later, so neither a requeue nor a crash between two saves exceeds it.
THEOREM ActiveJobsBounded == Spec => []AdmissionBounded
<1>1. AdmittedInv => AdmissionBounded
  BY AdmittedFinite DEF AdmissionBounded
<1> QED BY <1>1, AlwaysAdmitted, PTL

-----------------------------------------------------------------------------
(* Lanes of the newest available cycle never move back.                    *)

\* A set of subsets of a finite set has a minimal element.
LEMMA LeastSet ==
  ASSUME NEW S, IsFiniteSet(S), NEW F \in SUBSET (SUBSET S), F # {}
  PROVE  \E A \in F : \A B \in F : B \subseteq A => B = A
<1>1. F \subseteq FiniteSubsetsOf(S)
  BY FS_FiniteSubsetsOfFinite
<1>2. PICK A \in F : \A B \in F : ~(<<B, A>> \in StrictSubsetOrdering(S))
  BY SMTT(30), <1>1, FS_StrictSubsetOrderingWellFounded, WFMin
<1> QED BY Zenon, <1>2 DEF StrictSubsetOrdering

\* A finite set of runs that is not empty has a newest run: a smallest set
\* without one would, less any of its runs, have one.
LEMMA NewestExists ==
  ASSUME NEW S \in SUBSET Runs, IsFiniteSet(S), S # {}
  PROVE  Newest(S) # {}
<1> DEFINE F == {T \in SUBSET S : T # {} /\ Newest(T) = {}}
<1> SUFFICES ASSUME Newest(S) = {} PROVE FALSE
  OBVIOUS
<1>1. F \in SUBSET (SUBSET S) /\ F # {}
  <2>1. S \in F
    OBVIOUS
  <2> QED BY <2>1
<1>2. PICK T \in F : \A U \in F : U \subseteq T => U = T
  <2> HIDE DEF F
  <2> QED BY <1>1, LeastSet
<1>3. T \subseteq Runs /\ T # {} /\ Newest(T) = {}
  OBVIOUS
<1>4. PICK x \in T : TRUE
  BY <1>3
<1> DEFINE U == T \ {x}
<1>5. \A r \in Runs : Origin[r] \in Nat
  BY LanesAssumption
<1>6. U # {}
  <2> SUFFICES ASSUME U = {} PROVE FALSE
    OBVIOUS
  <2>1. \A s \in T : s = x
    OBVIOUS
  <2>2. x \in Newest(T)
    BY <1>3, <1>5, <2>1 DEF Newest
  <2> QED BY <1>3, <2>2
<1>7. U \notin F
  BY <1>2, <1>4
<1>8. Newest(U) # {}
  BY <1>2, <1>6, <1>7
<1>9. PICK y \in Newest(U) : TRUE
  BY <1>8
<1>10. y \in T /\ \A s \in T : s = x \/ Origin[s] <= Origin[y]
  BY <1>9 DEF Newest
<1>11. CASE Origin[y] <= Origin[x]
  <2>1. \A s \in T : Origin[s] <= Origin[x]
    BY SMTT(30), <1>3, <1>4, <1>5, <1>10, <1>11
  <2>2. x \in Newest(T)
    BY <1>4, <2>1 DEF Newest
  <2> QED BY SMTT(30), <1>3, <2>2
<1>12. CASE ~(Origin[y] <= Origin[x])
  <2>1. \A s \in T : Origin[s] <= Origin[y]
    BY SMTT(30), <1>3, <1>4, <1>5, <1>10, <1>12
  <2>2. y \in Newest(T)
    BY <1>10, <2>1 DEF Newest
  <2> QED BY SMTT(30), <1>3, <2>2
<1> QED BY <1>11, <1>12

\* A refresh keeps or advances the active generation of such a lane.
LEMMA LaneAdvances ==
  ASSUME TypeInv, AdmittedInv, CatalogValid, [Next]_vars,
         NEW lane \in Lanes \ CompleteLanes, NEW old \in catalog[lane].active
  PROVE  \E new \in catalog'[lane].active : Origin[old.run] <= Origin[new.run]
<1>0. catalog[lane] \in PublishedLane
  BY DEF TypeInv, TypeOK
<1>1. old \in Generation
  BY <1>0 DEF PublishedLane
<1>2. old.run \in Runs
  BY <1>1 DEF Generation
<1>3. Origin[old.run] \in Nat
  BY Zenon, <1>2, LanesAssumption
<1>4. CASE catalog' = catalog
  BY SMTT(30), <1>3, <1>4
<1>5. CASE /\ Protected(catalog) \subseteq Candidates(Known, dirs)
           /\ catalog' = FromCandidates(Candidates(Known, dirs), dirs)
  <2> DEFINE S == Candidates(Known, dirs)
             matching == {r \in S : MatchesLane(r, lane, dirs)}
  <2>1. old \in Published(catalog)
    BY ZenonT(30) DEF Published
  <2>2. old.run \in S
    BY SMTT(30), <1>5, <2>1 DEF Protected
  <2>3. ModelOf[old.run] = LaneModel[lane]
    BY DEF CatalogValid, ValidCatalog, ValidGeneration
  <2>4. old.run \in matching
    BY Zenon, <2>2, <2>3 DEF MatchesLane
  <2>5. matching \subseteq Known /\ Known \subseteq Runs /\ IsFiniteSet(Known)
    BY Zenon DEF Candidates, Known, AdmittedInv
  <2>6. catalog'[lane].active = {GenerationOf(r, dirs) : r \in Newest(matching)}
    BY Zenon, <1>5 DEF FromCandidates, LaneGenerations
  <2> HIDE DEF matching
  <2>7. IsFiniteSet(matching)
    BY SMTT(30), <2>5, FS_Subset
  <2>8. Newest(matching) # {}
    BY SMTT(30), <2>4, <2>5, <2>7, NewestExists
  <2>9. PICK r \in Newest(matching) : TRUE
    BY <2>8
  <2>10. Origin[old.run] <= Origin[r]
    BY SMTT(30), <2>4, <2>9 DEF Newest
  <2>11. GenerationOf(r, dirs).run = r
    BY DEF GenerationOf
  <2> QED BY ZenonT(30), <2>6, <2>9, <2>10, <2>11
<1> QED BY ZenonT(30), <1>4, <1>5, CatalogSteps

\* A lane that follows the newest available cycle never moves back to an older
\* one, whatever is lost, removed or damaged in the store and wherever a pass
\* stops: for any lanes, models, runs and faults.
THEOREM LanesNeverMoveBack == Spec => AvailableLanesAdvance
<1> DEFINE Advance == \A lane \in Lanes \ CompleteLanes : \A old \in catalog[lane].active :
                         \E new \in catalog'[lane].active : Origin[old.run] <= Origin[new.run]
           I == TypeInv /\ AdmittedInv /\ CatalogValid
<1>1. Init => I
  BY TypeInit, AdmittedInit, CatalogInit
<1>2. I /\ [Next]_vars => I'
  BY TypeStep, AdmittedStep, CatalogStep
<1>3. I /\ [Next]_vars => [Advance]_vars
  BY LaneAdvances
<1>4. AvailableLanesAdvance <=> [][Advance]_vars
  BY PTL DEF AvailableLanesAdvance
<1> QED BY <1>1, <1>2, <1>3, <1>4, PTL DEF Spec

-----------------------------------------------------------------------------
(* The host implements the abstract job life cycle.                        *)

\* The refinement mapping of Lifecycle, for one record.
StatusOf(job) ==
    CASE job.state \in {"queued", "retry_backoff", "retry_due"} -> "waiting"
      [] job.state = "running" -> "attempting"
      [] OTHER -> job.state
SpentOf(job) ==
    CASE job.state = "running" -> job.attempts - 1
      [] job.state = "succeeded" -> 0
      [] OTHER -> job.attempts

\* What a step on one record is in the abstract life cycle.
LEMMA JobStepAbstract ==
  ASSUME NEW old \in JobRecord \cup {NoJob}, NEW new, JobStep(old, new)
  PROVE  LET from == StatusOf(old)  to == StatusOf(new)
             before == SpentOf(old)  after == SpentOf(new) IN
         \/ from = "none" /\ to = "waiting" /\ after = 0
         \/ before < MaxAttempts /\ from = "waiting" /\ to = "attempting" /\ after = before
         \/ from = "attempting" /\ to = "waiting" /\ after = before
         \/ from = "attempting" /\ to = "succeeded" /\ after = 0
         \/ before + 1 < MaxAttempts /\ from = "attempting" /\ to = "waiting" /\ after = before + 1
         \/ before + 1 = MaxAttempts /\ from = "attempting" /\ to = "failed" /\ after = MaxAttempts
         \/ from = "succeeded" /\ to = "waiting" /\ after = 0
         \/ from \in {"succeeded", "failed"} /\ to = "none" /\ after = 0
         \/ from = to /\ before = after
<1> USE MaxAttemptsAssumption
<1>0. old \in JobRecord \/ old = NoJob
  BY SMTT(30)
<1>1. CASE old = NoJob /\ new = NewRecord
  <2>1. StatusOf(old) = "none" /\ StatusOf(new) = "waiting" /\ SpentOf(new) = 0
    BY SMTT(30), <1>1 DEF StatusOf, SpentOf, NoJob, NewRecord
  <2> QED BY <2>1
<1>2. CASE old.state = "succeeded" /\ new = NewRecord
  <2>1. StatusOf(old) = "succeeded" /\ StatusOf(new) = "waiting" /\ SpentOf(new) = 0
    BY SMTT(30), <1>2 DEF StatusOf, SpentOf, NewRecord
  <2> QED BY <2>1
<1>3. CASE CanStart(old) /\ new = Start(old)
  <2>1. old \in JobRecord
    BY <1>0, <1>3 DEF CanStart, NoJob
  <2>2. old.attempts \in 0 .. MaxAttempts /\ old.attempts < MaxAttempts
    BY <1>3, <2>1 DEF CanStart, JobRecord
  <2>3. StatusOf(old) = "waiting" /\ SpentOf(old) = old.attempts
    BY <1>3 DEF CanStart, StatusOf, SpentOf
  <2>4. new.state = "running" /\ new.attempts = old.attempts + 1
    BY <1>3 DEF Start
  <2>5. StatusOf(new) = "attempting" /\ SpentOf(new) = old.attempts
    BY <2>2, <2>4 DEF StatusOf, SpentOf
  <2> QED BY SMTT(30), <2>2, <2>3, <2>5
<1>4. CASE /\ old.state = "running" /\ old.attempts >= 1
           /\ new \in {RecoverAfterRestart(old), FinishSuccess(old), FinishFailure(old)}
  <2>1. old \in JobRecord
    BY <1>0, <1>4 DEF NoJob
  <2>2. old.attempts \in 1 .. MaxAttempts
    BY <1>4, <2>1 DEF JobRecord
  <2>3. StatusOf(old) = "attempting" /\ SpentOf(old) = old.attempts - 1
    BY SMTT(30), <1>4 DEF StatusOf, SpentOf
  <2>4. CASE new = RecoverAfterRestart(old)
    <3>1. new.state = "queued" /\ new.attempts = old.attempts - 1
      BY <2>1, <2>4 DEF RecoverAfterRestart, JobRecord
    <3>2. StatusOf(new) = "waiting" /\ SpentOf(new) = old.attempts - 1
      BY SMTT(30), <3>1 DEF StatusOf, SpentOf
    <3> QED BY <2>3, <3>2
  <2>5. CASE new = FinishSuccess(old)
    <3>1. new.state = "succeeded"
      BY <2>1, <2>5 DEF FinishSuccess, JobRecord
    <3>2. StatusOf(new) = "succeeded" /\ SpentOf(new) = 0
      BY SMTT(30), <3>1 DEF StatusOf, SpentOf
    <3> QED BY <2>3, <3>2
  <2>6. CASE new = FinishFailure(old) /\ old.attempts >= MaxAttempts
    <3>1. new.state = "failed" /\ new.attempts = old.attempts /\ old.attempts = MaxAttempts
      BY <2>1, <2>2, <2>6 DEF FinishFailure, JobRecord
    <3>2. StatusOf(new) = "failed" /\ SpentOf(new) = MaxAttempts
      BY <3>1 DEF StatusOf, SpentOf
    <3>3. SpentOf(old) + 1 = MaxAttempts
      BY SMTT(30), <2>2, <2>3, <3>1
    <3> QED BY <2>3, <3>2, <3>3
  <2>7. CASE new = FinishFailure(old) /\ ~(old.attempts >= MaxAttempts)
    <3>1. new.state = "retry_backoff" /\ new.attempts = old.attempts
      BY <2>1, <2>7 DEF FinishFailure, JobRecord
    <3>2. StatusOf(new) = "waiting" /\ SpentOf(new) = old.attempts
      BY <3>1 DEF StatusOf, SpentOf
    <3>3. SpentOf(old) + 1 = old.attempts /\ old.attempts < MaxAttempts
      BY SMTT(30), <2>2, <2>3, <2>7
    <3> QED BY <2>3, <3>2, <3>3
  <2> QED BY Zenon, <1>4, <2>4, <2>5, <2>6, <2>7
<1>5. CASE old.state \in {"retry_due", "retry_backoff"}
           /\ new \in {ReleaseRetry(old), [old EXCEPT !.state = "retry_due"]}
  <2>1. old \in JobRecord
    BY <1>0, <1>5 DEF NoJob
  <2>2. new.state \in {"queued", "retry_due"} /\ new.attempts = old.attempts
    BY <1>5, <2>1 DEF ReleaseRetry, JobRecord
  <2>3. StatusOf(old) = "waiting" /\ SpentOf(old) = old.attempts
    BY <1>5 DEF StatusOf, SpentOf
  <2>4. StatusOf(new) = "waiting" /\ SpentOf(new) = old.attempts
    BY <2>2 DEF StatusOf, SpentOf
  <2> QED BY <2>3, <2>4
<1>6. CASE ~IsActive(old) /\ new = NoJob
  <2>1. CASE old = NoJob
    BY SMTT(30), <1>6, <2>1
  <2>2. CASE old \in JobRecord
    <3>1. old.state \in {"succeeded", "failed"}
      BY <1>6, <2>2 DEF IsActive, JobRecord, JobStates
    <3>2. StatusOf(old) \in {"succeeded", "failed"}
      BY <3>1 DEF StatusOf
    <3>3. StatusOf(new) = "none" /\ SpentOf(new) = 0
      BY SMTT(30), <1>6 DEF StatusOf, SpentOf, NoJob
    <3> QED BY <3>2, <3>3
  <2> QED BY ZenonT(30), <1>0, <2>1, <2>2
<1> QED BY SMTT(30), <1>1, <1>2, <1>3, <1>4, <1>5, <1>6 DEF JobStep

\* Saving one record moves one abstract job.
LEMMA LifecycleMove ==
  ASSUME TypeOK, NEW r \in Runs, NEW job, jobs' = [jobs EXCEPT ![r] = job]
  PROVE  /\ \A from, to, charge :
               from = StatusOf(jobs[r]) /\ to = StatusOf(job) /\ charge = SpentOf(job)
               => Lifecycle!Move(r, from, to, charge)
         /\ StatusOf(job) = StatusOf(jobs[r]) /\ SpentOf(job) = SpentOf(jobs[r])
               => UNCHANGED Lifecycle!lifecycle
<1> DEFINE Status == [s \in Runs |-> StatusOf(jobs[s])]
           Spent  == [s \in Runs |-> SpentOf(jobs[s])]
           NewStatus == [s \in Runs |-> StatusOf(jobs'[s])]
           NewSpent  == [s \in Runs |-> SpentOf(jobs'[s])]
<1>1. \A s \in Runs : jobs'[s] = IF s = r THEN job ELSE jobs[s]
  BY SMTT(30) DEF TypeOK
<1>2. /\ NewStatus = [Status EXCEPT ![r] = StatusOf(job)]
      /\ NewSpent = [Spent EXCEPT ![r] = SpentOf(job)]
  <2>1. \A s \in Runs : /\ StatusOf(jobs'[s]) = IF s = r THEN StatusOf(job) ELSE StatusOf(jobs[s])
                        /\ SpentOf(jobs'[s]) = IF s = r THEN SpentOf(job) ELSE SpentOf(jobs[s])
    BY <1>1
  <2>2. NewStatus = [Status EXCEPT ![r] = StatusOf(job)]
    BY Zenon, <2>1
  <2>3. NewSpent = [Spent EXCEPT ![r] = SpentOf(job)]
    BY Zenon, <2>1
  <2> QED BY SMTT(30), <2>2, <2>3
<1>3. Status[r] = StatusOf(jobs[r])
  OBVIOUS
<1>4. ASSUME NEW from, NEW to, NEW charge,
             from = StatusOf(jobs[r]), to = StatusOf(job), charge = SpentOf(job)
      PROVE  Lifecycle!Move(r, from, to, charge)
  BY <1>2, <1>3, <1>4 DEF Lifecycle!Move, StatusOf, SpentOf
<1>5. ASSUME StatusOf(job) = StatusOf(jobs[r]), SpentOf(job) = SpentOf(jobs[r])
      PROVE  UNCHANGED Lifecycle!lifecycle
  <2>1. NewStatus = Status /\ NewSpent = Spent
    BY <1>1, <1>5
  <2> QED BY <2>1 DEF Lifecycle!lifecycle, StatusOf, SpentOf
<1> QED BY SMTT(30), <1>4, <1>5

LEMMA LifecycleInit == Init => Lifecycle!Init
BY DEF Init, Lifecycle!Init, NoJob

LEMMA LifecycleStep ==
  TypeInv /\ AdmittedInv /\ [Next]_vars => [Lifecycle!Next]_(Lifecycle!lifecycle)
<1> SUFFICES ASSUME TypeInv, AdmittedInv, [Next]_vars
             PROVE  Lifecycle!Next \/ UNCHANGED Lifecycle!lifecycle
  OBVIOUS
<1>0. TypeOK
  BY DEF TypeInv
<1>1. CASE jobs' = jobs
  BY SMTT(30), <1>1 DEF Lifecycle!lifecycle
<1>2. CASE jobs' # jobs
  <2>1. PICK r \in Runs : \E job : Saves(r, job)
    BY <1>2, RecordSteps
  <2>2. PICK job : Saves(r, job)
    BY <2>1
  <2>3. jobs' = [jobs EXCEPT ![r] = job] /\ JobStep(jobs[r], job)
        /\ jobs[r] \in JobRecord \cup {NoJob}
    BY <1>0, <2>2 DEF Saves, TypeOK
  <2> DEFINE from == StatusOf(jobs[r])
             to == StatusOf(job)
             before == SpentOf(jobs[r])
             after == SpentOf(job)
  <2>4. /\ \A f, t, c : f = from /\ t = to /\ c = after => Lifecycle!Move(r, f, t, c)
        /\ (to = from /\ after = before => UNCHANGED Lifecycle!lifecycle)
    BY Zenon, <1>0, <2>3, LifecycleMove
  <2>5. \/ from = "none" /\ to = "waiting" /\ after = 0
        \/ before < MaxAttempts /\ from = "waiting" /\ to = "attempting" /\ after = before
        \/ from = "attempting" /\ to = "waiting" /\ after = before
        \/ from = "attempting" /\ to = "succeeded" /\ after = 0
        \/ before + 1 < MaxAttempts /\ from = "attempting" /\ to = "waiting" /\ after = before + 1
        \/ before + 1 = MaxAttempts /\ from = "attempting" /\ to = "failed" /\ after = MaxAttempts
        \/ from = "succeeded" /\ to = "waiting" /\ after = 0
        \/ from \in {"succeeded", "failed"} /\ to = "none" /\ after = 0
        \/ from = to /\ before = after
    BY Zenon, <2>3, JobStepAbstract
  <2> SUFFICES ASSUME ~(\/ Lifecycle!Admit(r) \/ Lifecycle!Begin(r) \/ Lifecycle!Interrupt(r)
                        \/ Lifecycle!Succeed(r) \/ Lifecycle!Retry(r) \/ Lifecycle!GiveUp(r)
                        \/ Lifecycle!Repair(r) \/ Lifecycle!Forget(r))
               PROVE  UNCHANGED Lifecycle!lifecycle
    BY DEF Lifecycle!Next
  <2>6. PICK b : b = before
    BY SMTT(30)
  <2>7. /\ Lifecycle!Begin(r) <=>
              b < MaxAttempts /\ Lifecycle!Move(r, "waiting", "attempting", b)
        /\ Lifecycle!Interrupt(r) <=> Lifecycle!Move(r, "attempting", "waiting", b)
        /\ Lifecycle!Retry(r) <=>
              /\ b + 1 < MaxAttempts
              /\ Lifecycle!Move(r, "attempting", "waiting", b + 1)
        /\ Lifecycle!GiveUp(r) <=>
              /\ b + 1 = MaxAttempts
              /\ Lifecycle!Move(r, "attempting", "failed", MaxAttempts)
    <3> DEFINE spent == [s \in Runs |-> CASE jobs[s].state = "running" -> jobs[s].attempts - 1
                                          [] jobs[s].state = "succeeded" -> 0
                                          [] OTHER -> jobs[s].attempts]
    <3>1. spent[r] = b
      BY <2>6 DEF SpentOf
    <3> HIDE DEF before
    <3>2. Lifecycle!Begin(r) <=>
              b < MaxAttempts /\ Lifecycle!Move(r, "waiting", "attempting", b)
      BY Zenon, <3>1 DEF Lifecycle!Begin, Lifecycle!Move
    <3>3. Lifecycle!Interrupt(r) <=> Lifecycle!Move(r, "attempting", "waiting", b)
      BY Zenon, <3>1 DEF Lifecycle!Interrupt, Lifecycle!Move
    <3>4. Lifecycle!Retry(r) <=>
              /\ b + 1 < MaxAttempts
              /\ Lifecycle!Move(r, "attempting", "waiting", b + 1)
      BY Zenon, <3>1 DEF Lifecycle!Retry, Lifecycle!Move
    <3>5. Lifecycle!GiveUp(r) <=>
              /\ b + 1 = MaxAttempts
              /\ Lifecycle!Move(r, "attempting", "failed", MaxAttempts)
      BY <3>1, Zenon DEF Lifecycle!GiveUp
    <3> QED BY <3>2, <3>3, <3>4, <3>5
  <2>8. /\ Lifecycle!Admit(r) <=> Lifecycle!Move(r, "none", "waiting", 0)
        /\ Lifecycle!Succeed(r) <=> Lifecycle!Move(r, "attempting", "succeeded", 0)
        /\ Lifecycle!Repair(r) <=> Lifecycle!Move(r, "succeeded", "waiting", 0)
        /\ Lifecycle!Forget(r) <=>
              \E f \in {"succeeded", "failed"} : Lifecycle!Move(r, f, "none", 0)
    BY DEF Lifecycle!Admit, Lifecycle!Succeed, Lifecycle!Repair, Lifecycle!Forget
  <2> HIDE DEF from, to, before, after
  <2>9. CASE from = "none" /\ to = "waiting" /\ after = 0
    <3>1. Lifecycle!Move(r, "none", "waiting", 0)
      BY SMTT(30), <2>4, <2>9
    <3> QED BY <2>8, <3>1
  <2>10. CASE before < MaxAttempts /\ from = "waiting" /\ to = "attempting" /\ after = before
    <3>1. Lifecycle!Move(r, "waiting", "attempting", b)
      BY SMTT(30), <2>4, <2>6, <2>10
    <3> QED BY SMTT(30), <2>6, <2>7, <2>10, <3>1
  <2>11. CASE from = "attempting" /\ to = "waiting" /\ after = before
    <3>1. Lifecycle!Move(r, "attempting", "waiting", b)
      BY SMTT(30), <2>4, <2>6, <2>11
    <3> QED BY <2>7, <3>1
  <2>12. CASE from = "attempting" /\ to = "succeeded" /\ after = 0
    <3>1. Lifecycle!Move(r, "attempting", "succeeded", 0)
      BY SMTT(30), <2>4, <2>12
    <3> QED BY <2>8, <3>1
  <2>13. CASE /\ before + 1 < MaxAttempts
              /\ from = "attempting" /\ to = "waiting" /\ after = before + 1
    <3>1. Lifecycle!Move(r, "attempting", "waiting", b + 1)
      BY SMTT(30), <2>4, <2>6, <2>13
    <3> QED BY SMTT(30), <2>6, <2>7, <2>13, <3>1
  <2>14. CASE /\ before + 1 = MaxAttempts
              /\ from = "attempting" /\ to = "failed" /\ after = MaxAttempts
    <3>1. Lifecycle!Move(r, "attempting", "failed", MaxAttempts)
      BY Zenon, <2>4, <2>6, <2>14
    <3> QED BY <2>6, <2>7, <2>14, <3>1
  <2>15. CASE from = "succeeded" /\ to = "waiting" /\ after = 0
    <3>1. Lifecycle!Move(r, "succeeded", "waiting", 0)
      BY SMTT(30), <2>4, <2>15
    <3> QED BY SMTT(30), <2>8, <3>1
  <2>16. CASE from \in {"succeeded", "failed"} /\ to = "none" /\ after = 0
    <3>1. \E f \in {"succeeded", "failed"} : Lifecycle!Move(r, f, "none", 0)
      BY <2>4, <2>16
    <3> QED BY SMTT(30), <2>8, <3>1
  <2>17. CASE from = to /\ before = after
    BY <2>4, <2>17
  <2> QED BY SMTT(30), <2>5, <2>9, <2>10, <2>11, <2>12, <2>13, <2>14, <2>15, <2>16, <2>17
<1> QED BY <1>1, <1>2

\* The scheduler implements the job life cycle for any number of runs and any
\* budget: whatever a pass, a crash, a shutdown or the recovery of the next
\* process does to a record, only outcomes spend attempts, an interrupted attempt
\* is given back, a failed job has spent them all, and only finished jobs are
\* forgotten.
THEOREM HostImplementsLifecycle == Spec => ImplementsLifecycle
<1> DEFINE I == TypeInv /\ AdmittedInv
<1>1. Init => I
  BY TypeInit, AdmittedInit
<1>2. I /\ [Next]_vars => I'
  BY TypeStep, AdmittedStep
<1>3. I /\ [Next]_vars => [Lifecycle!Next]_(Lifecycle!lifecycle)
  BY LifecycleStep
<1> QED BY <1>1, <1>2, <1>3, LifecycleInit, PTL DEF Spec, ImplementsLifecycle, Lifecycle!Spec

=============================================================================
