-------------------------- MODULE ServerJobsProofs --------------------------
(***************************************************************************)
(* Theorems about ServerJobs, for any number of jobs, records and permits. *)
(***************************************************************************)
EXTENDS ServerJobs, FiniteSetTheorems, TLAPS

\* Records that are removed are terminal ones.
LEMMA SelectedTerminal ==
    ASSUME NEW sel, NEW target, Selected(sel, target) PROVE sel \subseteq Terminal
BY DEF Selected

\* JobManager::open marks interrupted jobs or removes terminal ones, whether it gets to
\* its end or not, and removes no object that a record it leaves has.
LEMMA OpenWays ==
    ASSUME Open
    PROVE  \/ /\ UNCHANGED up
              /\ \E some \in SUBSET Active : Interrupt(some) /\ UNCHANGED objects
           \/ /\ Active = {} /\ objects' \subseteq objects
              /\ \E sel \in SUBSET Terminal :
                    Remove(sel) /\ \A k \in Jobs \ sel : artifact[k] \cap objects \subseteq objects'
<1>1. CASE Active # {}
  BY <1>1 DEF Open
<1>2. CASE Active = {} /\ up'
  <2>1. PICK sel : /\ Selected(sel, MaxRecords) /\ Remove(sel)
                   /\ objects' = objects \cap UNION {artifact[k] : k \in Jobs \ sel}
    BY <1>2 DEF Open
  <2>2. sel \in SUBSET Terminal
    BY <2>1, SelectedTerminal
  <2>3. objects' \subseteq objects /\ \A k \in Jobs \ sel : artifact[k] \cap objects \subseteq objects'
    BY <2>1
  <2> QED BY <1>2, <2>1, <2>2, <2>3
<1>3. CASE Active = {} /\ ~up'
  <2>1. PICK sel : Selected(sel, MaxRecords) /\ PruneStops(sel)
    BY <1>3 DEF Open
  <2>2. sel \in SUBSET Terminal
    BY <2>1, SelectedTerminal
  <2>3. CASE (\E done \in SUBSET sel : done # sel /\ Remove(done)) /\ UNCHANGED objects
    BY <1>3, <2>2, <2>3
  <2>4. CASE /\ Remove(sel)
             /\ \E gone \in SUBSET (objects \ UNION {artifact[k] : k \in Jobs \ sel}) :
                    objects' = objects \ gone
    BY SMTT(30), <1>3, <2>2, <2>4
  <2> QED BY <2>1, <2>3, <2>4 DEF PruneStops
<1> QED BY <1>1, <1>2, <1>3

\* Typing is preserved by every step.
LEMMA TypeStep == ASSUME TypeOK, [Next]_vars PROVE TypeOK'
<1> USE DEF TypeOK, Statuses, RequestPlaces, TaskPlaces, Active, Terminal, Records,
            record, store, work, world
<1>1. CASE UNCHANGED vars
  BY <1>1 DEF vars
<1>2. ASSUME NEW j \in Jobs, PruneRecords(j) PROVE TypeOK'
  <2>1. PICK sel \in SUBSET Records :
          \/ /\ Go(j, "new", "prune") /\ NoFault
             /\ Remove(sel) /\ guard' = j
             /\ referenced' = UNION {artifact[k] : k \in Jobs \ sel}
          \/ /\ Go(j, "new", "ended") /\ Fault
             /\ \E done \in SUBSET sel : done # sel /\ Remove(done)
             /\ UNCHANGED <<guard, referenced>>
    BY SMTT(30), <1>2 DEF PruneRecords
  <2>2. ASSUME NEW any \in SUBSET Jobs, Remove(any)
        PROVE  /\ status' \in [Jobs -> Statuses] /\ updated' \in [Jobs -> Nat]
               /\ artifact' \in [Jobs -> SUBSET Hashes]
    BY <2>2 DEF Remove
  <2>3. /\ status' \in [Jobs -> Statuses] /\ updated' \in [Jobs -> Nat]
        /\ artifact' \in [Jobs -> SUBSET Hashes]
    BY <2>1, <2>2
  <2>4. /\ referenced' \subseteq Hashes /\ guard' \in Jobs \cup {Nobody}
    BY <2>1
  <2>5. pc' \in [Jobs -> RequestPlaces \cup TaskPlaces \cup {"ended"}] /\ faults' \in Nat
    BY <2>1, JobsAssumption DEF Go, Fault, NoFault
  <2> QED
    BY <2>3, <2>4, <2>5, <1>2 DEF PruneRecords
<1>3. ASSUME NEW j \in Jobs, CollectObject(j) PROVE TypeOK'
  BY <1>3, JobsAssumption DEF CollectObject, Go, Fault, NoFault
<1>4. ASSUME NEW j \in Jobs, Admit(j) PROVE TypeOK'
  BY <1>4, JobsAssumption DEF Admit, Save, Go, Fault, NoFault
<1>5. ASSUME NEW j \in Jobs, MarkRunning(j) PROVE TypeOK'
  BY <1>5, JobsAssumption DEF MarkRunning, SaveFails, Save, Go, Fault, NoFault
<1>6. ASSUME NEW j \in Jobs, AcquirePermit(j) PROVE TypeOK'
  BY <1>6 DEF AcquirePermit, Go
<1>7. ASSUME NEW j \in Jobs, Timeout(j) PROVE TypeOK'
  BY <1>7 DEF Timeout, Go
<1>8. ASSUME NEW j \in Jobs, LeaveOnCancel(j) PROVE TypeOK'
  BY <1>8 DEF LeaveOnCancel, Go
<1>9. ASSUME NEW j \in Jobs, PublishCheck(j) PROVE TypeOK'
  BY <1>9 DEF PublishCheck, Go
<1>10. ASSUME NEW j \in Jobs, StoreObject(j) PROVE TypeOK'
  BY <1>10, JobsAssumption DEF StoreObject, Go, Fault, NoFault
<1>11. ASSUME NEW j \in Jobs, RecordArtifact(j) PROVE TypeOK'
  BY <1>11, JobsAssumption DEF RecordArtifact, SaveFails, Save, Go, Fault, NoFault
<1>12. ASSUME NEW j \in Jobs, Fail(j) PROVE TypeOK'
  BY <1>12, JobsAssumption DEF Fail, SaveFails, Save, Go, Fault, NoFault
<1>13. ASSUME NEW j \in Jobs, CancelSelf(j) PROVE TypeOK'
  BY <1>13, JobsAssumption DEF CancelSelf, SaveFails, Save, Go, Fault, NoFault
<1>14. ASSUME NEW j \in Jobs, WorkEnds(j) PROVE TypeOK'
  BY <1>14 DEF WorkEnds, ReleasePermit
<1>15. ASSUME NEW j \in Jobs, CancelRequest(j) PROVE TypeOK'
  BY <1>15 DEF CancelRequest, Save
<1>16. CASE Crash
  <2>1. faults' \in Nat /\ permits' \in Nat /\ guard' \in Jobs \cup {Nobody}
    BY <1>16, JobsAssumption DEF Crash, Fault
  <2>2. up' \in BOOLEAN
    BY <1>16 DEF Crash
  <2>3. pc' \in [Jobs -> RequestPlaces \cup TaskPlaces \cup {"ended"}]
    BY <1>16 DEF Crash
  <2> QED
    BY <2>1, <2>2, <2>3, <1>16 DEF Crash
<1>17. CASE Open
  <2>1. status' \in [Jobs -> Statuses] /\ updated' \in [Jobs -> Nat]
        /\ artifact' \in [Jobs -> SUBSET Hashes]
    BY <1>17, OpenWays DEF Interrupt, Remove, TypeOK
  <2>2. objects' \subseteq Hashes
    BY <1>17, OpenWays DEF TypeOK
  <2>3. faults' \in Nat
    BY <1>17 DEF Open, Fault, NoFault
  <2>4. up' \in BOOLEAN
    BY <1>17 DEF Open
  <2> QED
    BY <2>1, <2>2, <2>3, <2>4, <1>17 DEF Open
<1>18. CASE Tick
  BY <1>18, JobsAssumption DEF Tick
<1> QED
  BY <1>1, <1>2, <1>3, <1>4, <1>5, <1>6, <1>7, <1>8, <1>9, <1>10, <1>11, <1>12,
     <1>13, <1>14, <1>15, <1>16, <1>17, <1>18 DEF Next, Request, Task

\* The variables stay in their types.
THEOREM TypeCorrect == Spec => []TypeOK
<1>1. Init => TypeOK
  BY JobsAssumption DEF Init, TypeOK, Statuses, RequestPlaces, TaskPlaces
<1> QED
  BY <1>1, TypeStep, PTL DEF Spec

-----------------------------------------------------------------------------
(* Where a task is, and what its record, flag and closure are like there *)

\* What one job's place says about it.  A job whose flag is set while it is still
\* active is about to be failed by its own task, or that write has failed.
JobPlace(j) ==
    /\ pc[j] \in RequestPlaces => status[j] = "absent" /\ j \notin token
    /\ pc[j] \in RequestPlaces \cup {"spawned", "waiting"} => j \notin busy
    /\ pc[j] = "spawned" => status[j] # "running"
    /\ pc[j] \in {"waiting", "running"} => status[j] = "running" \/ j \in token
    /\ j \in busy => pc[j] = "running" \/ j \in token
    /\ j \in token /\ status[j] \in {"queued", "running"} =>
          pc[j] = "failing" \/ j \in unsaved

\* After a crash nothing runs until the server is open again.
DownIsQuiet ==
    ~up => token = {} /\ busy = {} /\ \A j \in Jobs : pc[j] \in {"new", "ended"}

PlaceInv == TypeOK /\ DownIsQuiet /\ ActiveHasTask /\ \A j \in Jobs : JobPlace(j)

\* PlaceInv is inductive.
LEMMA PlaceStep == ASSUME PlaceInv, [Next]_vars PROVE PlaceInv'
<1> USE DEF RequestPlaces, TaskPlaces, Active, Terminal, record, store, work, world
<1> TypeOK /\ TypeOK'
  BY TypeStep DEF PlaceInv
<1> SUFFICES DownIsQuiet' /\ ActiveHasTask' /\ \A k \in Jobs : JobPlace(k)'
  BY DEF PlaceInv
<1> USE DEF PlaceInv, DownIsQuiet, ActiveHasTask, JobPlace
<1>1. CASE UNCHANGED vars
  BY <1>1 DEF vars
<1>2. ASSUME NEW j \in Jobs, PruneRecords(j)
      PROVE DownIsQuiet' /\ ActiveHasTask' /\ \A k \in Jobs : JobPlace(k)'
  <2>1. PICK gone \in SUBSET Terminal :
          /\ Remove(gone)
          /\ Go(j, "new", "prune") \/ Go(j, "new", "ended")
    BY <1>2, SelectedTerminal DEF PruneRecords
  <2>2. \A k \in Jobs : status'[k] = (IF k \in gone THEN "absent" ELSE status[k])
    BY <2>1 DEF Remove
  <2>3. /\ up /\ up' = up /\ pc[j] = "new"
        /\ \A k \in Jobs : pc'[k] = (IF k = j THEN pc'[j] ELSE pc[k])
        /\ pc'[j] \in {"prune", "ended"}
    BY <2>1, <1>2 DEF Go, TypeOK, PruneRecords
  <2>4. UNCHANGED <<token, busy, unsaved>>
    BY <1>2 DEF PruneRecords
  <2> QED
    BY <2>2, <2>3, <2>4
<1>3. ASSUME NEW j \in Jobs, CollectObject(j)
      PROVE DownIsQuiet' /\ ActiveHasTask' /\ \A k \in Jobs : JobPlace(k)'
  BY <1>3 DEF CollectObject, Go, TypeOK
<1>4. ASSUME NEW j \in Jobs, Admit(j)
      PROVE DownIsQuiet' /\ ActiveHasTask' /\ \A k \in Jobs : JobPlace(k)'
  BY <1>4 DEF Admit, Save, Go, TypeOK
<1>5. ASSUME NEW j \in Jobs, MarkRunning(j)
      PROVE DownIsQuiet' /\ ActiveHasTask' /\ \A k \in Jobs : JobPlace(k)'
  BY <1>5 DEF MarkRunning, SaveFails, Save, Go, TypeOK, IsCancelled
<1>6. ASSUME NEW j \in Jobs, AcquirePermit(j)
      PROVE DownIsQuiet' /\ ActiveHasTask' /\ \A k \in Jobs : JobPlace(k)'
  BY <1>6 DEF AcquirePermit, Go, TypeOK
<1>7. ASSUME NEW j \in Jobs, Timeout(j)
      PROVE DownIsQuiet' /\ ActiveHasTask' /\ \A k \in Jobs : JobPlace(k)'
  BY <1>7 DEF Timeout, Go, TypeOK
<1>8. ASSUME NEW j \in Jobs, LeaveOnCancel(j)
      PROVE DownIsQuiet' /\ ActiveHasTask' /\ \A k \in Jobs : JobPlace(k)'
  BY <1>8 DEF LeaveOnCancel, Go, TypeOK
<1>9. ASSUME NEW j \in Jobs, PublishCheck(j)
      PROVE DownIsQuiet' /\ ActiveHasTask' /\ \A k \in Jobs : JobPlace(k)'
  BY <1>9 DEF PublishCheck, Go, TypeOK, IsCancelled
<1>10. ASSUME NEW j \in Jobs, StoreObject(j)
       PROVE DownIsQuiet' /\ ActiveHasTask' /\ \A k \in Jobs : JobPlace(k)'
  BY SMTT(30), <1>10 DEF StoreObject, Go, TypeOK
<1>11. ASSUME NEW j \in Jobs, RecordArtifact(j)
       PROVE DownIsQuiet' /\ ActiveHasTask' /\ \A k \in Jobs : JobPlace(k)'
  BY <1>11 DEF RecordArtifact, SaveFails, Save, Go, TypeOK, IsCancelled, MayRecord
<1>12. ASSUME NEW j \in Jobs, Fail(j)
       PROVE DownIsQuiet' /\ ActiveHasTask' /\ \A k \in Jobs : JobPlace(k)'
  BY <1>12 DEF Fail, SaveFails, Save, Go, TypeOK, MayFail
<1>13. ASSUME NEW j \in Jobs, CancelSelf(j)
       PROVE DownIsQuiet' /\ ActiveHasTask' /\ \A k \in Jobs : JobPlace(k)'
  BY <1>13 DEF CancelSelf, SaveFails, Save, Go, TypeOK
<1>14. ASSUME NEW j \in Jobs, WorkEnds(j)
       PROVE DownIsQuiet' /\ ActiveHasTask' /\ \A k \in Jobs : JobPlace(k)'
  BY <1>14 DEF WorkEnds, TypeOK
<1>15. ASSUME NEW j \in Jobs, CancelRequest(j)
       PROVE DownIsQuiet' /\ ActiveHasTask' /\ \A k \in Jobs : JobPlace(k)'
  BY <1>15 DEF CancelRequest, Save, TypeOK
<1>16. CASE Crash
  BY <1>16 DEF Crash, TypeOK
<1>17. CASE Open
  <2>1. ~up /\ UNCHANGED <<token, pc, busy>>
    BY <1>17 DEF Open
  <2>2. \A k \in Jobs : pc[k] = "new" => status'[k] = "absent"
    BY <2>1, <1>17, OpenWays DEF Interrupt, Remove, TypeOK
  <2>3. up' => \A k \in Jobs : status'[k] \notin {"queued", "running"}
    BY ZenonT(30), <2>1, <1>17, OpenWays DEF Remove, TypeOK
  <2> QED
    BY <2>1, <2>2, <2>3
<1>18. CASE Tick
  BY <1>18 DEF Tick
<1> QED
  BY <1>1, <1>2, <1>3, <1>4, <1>5, <1>6, <1>7, <1>8, <1>9, <1>10, <1>11, <1>12,
     <1>13, <1>14, <1>15, <1>16, <1>17, <1>18 DEF Next, Request, Task

LEMMA PlaceInit == Init => PlaceInv
<1> SUFFICES ASSUME Init PROVE PlaceInv
  OBVIOUS
<1>1. TypeOK
  BY JobsAssumption DEF Init, TypeOK, Statuses, RequestPlaces, TaskPlaces
<1>2. \A j \in Jobs : pc[j] \in {"new", "ended"} /\ status[j] \in {"absent", "succeeded"}
                      /\ (pc[j] = "new" => status[j] = "absent")
  BY JobsAssumption DEF Init
<1> QED
  BY <1>1, <1>2 DEF Init, PlaceInv, DownIsQuiet, ActiveHasTask, JobPlace, Active,
                    RequestPlaces, TaskPlaces

\* In every reachable state a job that has not ended has a task, or its record
\* could not be written (the tasks of routes.rs and observations.rs).
THEOREM NoJobOrphaned == Spec => []ActiveHasTask
<1>1. PlaceInv => ActiveHasTask
  BY DEF PlaceInv
<1> QED
  BY <1>1, PlaceInit, PlaceStep, PTL DEF Spec

\* In every reachable state a closure nobody waits for has its flag set.
THEOREM WorkIsSignalled == Spec => []AbandonedWorkSignalled
<1>1. PlaceInv => AbandonedWorkSignalled
  BY DEF PlaceInv, JobPlace, AbandonedWorkSignalled, Active, TypeOK
<1> QED
  BY <1>1, PlaceInit, PlaceStep, PTL DEF Spec

-----------------------------------------------------------------------------
(* What the holder of objects_guard may rely on *)

GuardInv ==
    /\ \A j \in Jobs : pc[j] = "record" => guard = j /\ written \subseteq objects /\ written # {}
    /\ \A j \in Jobs : pc[j] = "prune" =>
          guard = j /\ \A k \in Jobs : artifact[k] \subseteq referenced
    /\ ArtifactsKept

\* GuardInv is inductive: a collection never misses a reference, since only the
\* holder of the guard adds one.
LEMMA GuardStep == ASSUME PlaceInv, GuardInv, [Next]_vars PROVE GuardInv'
<1> USE JobsAssumption
    DEF GuardInv, ArtifactsKept, record, store, work, world
<1> TypeOK
  BY SMTT(30) DEF PlaceInv
<1>1. CASE UNCHANGED vars
  BY <1>1 DEF vars
<1>2. ASSUME NEW j \in Jobs, PruneRecords(j) PROVE GuardInv'
  <2>1. guard = Nobody /\ UNCHANGED <<objects, written>>
    BY <1>2 DEF PruneRecords
  <2>2. \A k \in Jobs : /\ artifact'[k] \subseteq artifact[k]
                        /\ status'[k] = "succeeded" => /\ status[k] = "succeeded"
                                                       /\ artifact'[k] = artifact[k]
    BY <1>2 DEF PruneRecords, Remove, TypeOK
  <2>3. \A k \in Jobs : pc'[k] = "record" => pc[k] = "record"
    BY SMTT(30), <1>2 DEF PruneRecords, Go, TypeOK
  <2>4. ASSUME NEW i \in Jobs, pc'[i] = "prune"
        PROVE guard' = i /\ \A k \in Jobs : artifact'[k] \subseteq referenced'
    <3>1. i = j /\ pc' = [pc EXCEPT ![j] = "prune"]
      BY <2>1, <2>4, <1>2 DEF PruneRecords, Go, TypeOK
    <3>2. PICK sel \in SUBSET Records :
            Remove(sel) /\ guard' = j /\ referenced' = UNION {artifact[k] : k \in Jobs \ sel}
      BY <3>1, <1>2 DEF PruneRecords, Go, TypeOK
    <3> QED
      BY <3>1, <3>2 DEF Remove
  <2> QED
    BY <2>1, <2>2, <2>3, <2>4
<1>3. ASSUME NEW j \in Jobs, CollectObject(j) PROVE GuardInv'
  BY <1>3 DEF CollectObject, Go, TypeOK
<1>4. ASSUME NEW j \in Jobs, Admit(j) PROVE GuardInv'
  BY <1>4 DEF Admit, Save, Go, TypeOK
<1>5. ASSUME NEW j \in Jobs, MarkRunning(j) PROVE GuardInv'
  BY <1>5 DEF MarkRunning, SaveFails, Save, Go, TypeOK
<1>6. ASSUME NEW j \in Jobs, AcquirePermit(j) PROVE GuardInv'
  BY <1>6 DEF AcquirePermit, Go, TypeOK
<1>7. ASSUME NEW j \in Jobs, Timeout(j) PROVE GuardInv'
  BY <1>7 DEF Timeout, Go, TypeOK
<1>8. ASSUME NEW j \in Jobs, LeaveOnCancel(j) PROVE GuardInv'
  BY <1>8 DEF LeaveOnCancel, Go, TypeOK
<1>9. ASSUME NEW j \in Jobs, PublishCheck(j) PROVE GuardInv'
  BY <1>9 DEF PublishCheck, Go, TypeOK
<1>10. ASSUME NEW j \in Jobs, StoreObject(j) PROVE GuardInv'
  BY <1>10 DEF StoreObject, Go, TypeOK
<1>11. ASSUME NEW j \in Jobs, RecordArtifact(j) PROVE GuardInv'
  <2>1. pc[j] = "record" /\ guard = j /\ guard' = Nobody
    BY <1>11 DEF RecordArtifact, SaveFails, Go
  <2>2. \A k \in Jobs : pc'[k] \notin {"record", "prune"}
    BY <2>1, <1>11 DEF RecordArtifact, SaveFails, Go, TypeOK
  <2>3. ArtifactsKept'
    BY <2>1, <1>11 DEF RecordArtifact, SaveFails, Save, TypeOK
  <2> QED
    BY SMTT(30), <2>2, <2>3
<1>12. ASSUME NEW j \in Jobs, Fail(j) PROVE GuardInv'
  BY <1>12 DEF Fail, SaveFails, Save, Go, TypeOK
<1>13. ASSUME NEW j \in Jobs, CancelSelf(j) PROVE GuardInv'
  BY <1>13 DEF CancelSelf, SaveFails, Save, Go, TypeOK
<1>14. ASSUME NEW j \in Jobs, WorkEnds(j) PROVE GuardInv'
  BY <1>14 DEF WorkEnds, TypeOK
<1>15. ASSUME NEW j \in Jobs, CancelRequest(j) PROVE GuardInv'
  BY <1>15 DEF CancelRequest, Save, TypeOK
<1>16. CASE Crash
  BY SMTT(30), <1>16 DEF Crash, TypeOK
<1>17. CASE Open
  <2>1. \A k \in Jobs : pc'[k] \notin {"record", "prune"}
    BY <1>17 DEF Open, PlaceInv, DownIsQuiet
  <2>2. CASE \E some \in SUBSET Active : Interrupt(some) /\ UNCHANGED objects
    BY SMTT(30), <2>1, <2>2 DEF Interrupt, TypeOK
  <2>3. CASE \E sel \in SUBSET Terminal :
                Remove(sel) /\ \A k \in Jobs \ sel : artifact[k] \cap objects \subseteq objects'
    <3>1. PICK sel \in SUBSET Terminal :
            Remove(sel) /\ \A k \in Jobs \ sel : artifact[k] \cap objects \subseteq objects'
      BY <2>3
    <3>2. ASSUME NEW k \in Jobs
          PROVE /\ artifact'[k] \subseteq objects'
                /\ status'[k] = "succeeded" => artifact'[k] # {}
      BY <3>1 DEF Remove
    <3> QED
      BY <2>1, <3>2
  <2> QED
    BY <1>17, <2>2, <2>3, OpenWays
<1>18. CASE Tick
  BY <1>18 DEF Tick
<1> QED
  BY <1>1, <1>2, <1>3, <1>4, <1>5, <1>6, <1>7, <1>8, <1>9, <1>10, <1>11, <1>12,
     <1>13, <1>14, <1>15, <1>16, <1>17, <1>18 DEF Next, Request, Task

\* In every reachable state the object of each succeeded job is stored, for any
\* number of jobs, limits and faults.
THEOREM ArtifactsNeverLost == Spec => []ArtifactsKept
<1>1. Init => GuardInv
  BY DEF Init, GuardInv, ArtifactsKept
<1>2. GuardInv => ArtifactsKept
  BY DEF GuardInv
<1> QED
  BY <1>1, <1>2, PlaceInit, PlaceStep, GuardStep, PTL DEF Spec

-----------------------------------------------------------------------------
(* Permits and limits *)

\* Each closure holds the permit it was started with.
LEMMA PermitStep == ASSUME PlaceInv, PermitsConserved, [Next]_vars PROVE PermitsConserved'
<1> USE DEF PermitsConserved, record, store, work, world
<1>1. IsFiniteSet(busy) /\ Cardinality(busy) \in Nat /\ permits \in Nat
  BY JobsAssumption, FS_Subset, FS_CardinalityType DEF PlaceInv, TypeOK
<1>2. CASE UNCHANGED <<busy, permits>>
  BY <1>2
<1>3. ASSUME NEW j \in Jobs, AcquirePermit(j) PROVE PermitsConserved'
  <2>1. j \notin busy /\ busy' = busy \cup {j} /\ permits' = permits - 1
    BY <1>3 DEF AcquirePermit, Go, PlaceInv, JobPlace
  <2>2. Cardinality(busy') = Cardinality(busy) + 1
    BY SMTT(30), <2>1, <1>1, FS_AddElement
  <2> QED
    BY <2>1, <2>2, <1>1, JobsAssumption
<1>4. ASSUME NEW j \in Jobs, WorkEnds(j) PROVE PermitsConserved'
  <2>1. j \in busy /\ busy' = busy \ {j} /\ permits' = permits + 1
    BY <1>4 DEF WorkEnds, ReleasePermit
  <2>2. Cardinality(busy') = Cardinality(busy) - 1
    BY <2>1, <1>1, FS_RemoveElement
  <2> QED
    BY <2>1, <2>2, <1>1, JobsAssumption
<1>5. CASE Crash
  BY SMTT(30), <1>5, FS_EmptySet, JobsAssumption DEF Crash
<1>6. \/ UNCHANGED <<busy, permits>> \/ Crash
      \/ \E j \in Jobs : AcquirePermit(j) \/ WorkEnds(j)
  BY ZenonT(30) DEF Next, Request, Task, vars, PruneRecords, CollectObject, Admit, MarkRunning,
         Timeout, LeaveOnCancel, PublishCheck, StoreObject, RecordArtifact, Fail,
         CancelSelf, CancelRequest, Open, Tick
<1> QED
  BY <1>2, <1>3, <1>4, <1>5, <1>6

\* In every reachable state the free permits and the running closures add up to
\* the size of the semaphore: run_bounded neither loses nor doubles a permit.
THEOREM PermitsNeverLost == Spec => []PermitsConserved
<1>1. Init => PermitsConserved
  BY FS_EmptySet, JobsAssumption DEF Init, PermitsConserved
<1> QED
  BY <1>1, PlaceInit, PlaceStep, PermitStep, PTL DEF Spec

\* Only admission adds an active job or a record.
LEMMA OnlyAdmissionAdds ==
    ASSUME PlaceInv, [Next]_vars
    PROVE  \/ Active' \subseteq Active /\ Records' \subseteq Records
           \/ \E j \in Jobs : /\ HasCapacity
                              /\ Active' = Active \cup {j} /\ Records' = Records \cup {j}
<1> USE DEF Active, Terminal, Records, record, store, work, world
<1> DEFINE Less == Active' \subseteq Active /\ Records' \subseteq Records
<1> TypeOK
  BY DEF PlaceInv
<1>1. CASE UNCHANGED status
  BY <1>1
<1>2. ASSUME NEW j \in Jobs, PruneRecords(j) PROVE Less
  BY <1>2 DEF PruneRecords, Remove, TypeOK
<1>3. ASSUME NEW j \in Jobs, Admit(j), ~UNCHANGED status
      PROVE HasCapacity /\ Active' = Active \cup {j} /\ Records' = Records \cup {j}
  BY <1>3 DEF Admit, Save, TypeOK
<1>4. ASSUME NEW j \in Jobs, MarkRunning(j) PROVE Less
  BY <1>4 DEF MarkRunning, SaveFails, Save, TypeOK
<1>5. ASSUME NEW j \in Jobs, RecordArtifact(j) PROVE Less
  BY SMTT(30), <1>5 DEF RecordArtifact, MayRecord, SaveFails, Save, TypeOK
<1>6. ASSUME NEW j \in Jobs, Fail(j) \/ CancelSelf(j) \/ CancelRequest(j) PROVE Less
  BY <1>6 DEF Fail, MayFail, CancelSelf, CancelRequest, SaveFails, Save, TypeOK
<1>7. CASE Open
  BY SMTT(30), <1>7, OpenWays DEF Interrupt, Remove, TypeOK
<1>8. \/ UNCHANGED status \/ Open
      \/ \E j \in Jobs : \/ PruneRecords(j) \/ Admit(j) \/ MarkRunning(j) \/ RecordArtifact(j)
                         \/ Fail(j) \/ CancelSelf(j) \/ CancelRequest(j)
  BY DEF Next, Request, Task, vars, CollectObject, AcquirePermit, Timeout, LeaveOnCancel,
         PublishCheck, StoreObject, WorkEnds, Crash, Tick
<1> QED
  BY <1>1, <1>2, <1>3, <1>4, <1>5, <1>6, <1>7, <1>8

\* In every reachable state both limits of JobManager hold.
THEOREM LimitsKept == Spec => []CapacityKept
<1>1. Init => CapacityKept
  <2> SUFFICES ASSUME Init PROVE CapacityKept
    OBVIOUS
  <2>1. Active = {} /\ Records = Earlier
    BY JobsAssumption DEF Init, Active, Records, Terminal
  <2> QED
    BY <2>1, FS_EmptySet, JobsAssumption DEF CapacityKept
<1>2. PlaceInv /\ CapacityKept /\ [Next]_vars => CapacityKept'
  <2> SUFFICES ASSUME PlaceInv, CapacityKept, [Next]_vars PROVE CapacityKept'
    BY SMTT(30)
  <2>1. /\ IsFiniteSet(Active) /\ IsFiniteSet(Records)
        /\ Cardinality(Active) \in Nat /\ Cardinality(Records) \in Nat
    BY JobsAssumption, FS_Subset, FS_CardinalityType DEF Active, Records, Terminal
  <2>2. CASE Active' \subseteq Active /\ Records' \subseteq Records
    <3>1. /\ Cardinality(Active') <= Cardinality(Active) /\ Cardinality(Active') \in Nat
          /\ Cardinality(Records') <= Cardinality(Records) /\ Cardinality(Records') \in Nat
      BY <2>1, <2>2, FS_Subset, FS_CardinalityType
    <3> QED
      BY <2>1, <3>1, JobsAssumption DEF CapacityKept
  <2>3. ASSUME NEW j \in Jobs, HasCapacity,
               Active' = Active \cup {j}, Records' = Records \cup {j}
        PROVE CapacityKept'
    <3>1. /\ Cardinality(Active') \in {Cardinality(Active), Cardinality(Active) + 1}
          /\ Cardinality(Records') \in {Cardinality(Records), Cardinality(Records) + 1}
      BY <2>1, <2>3, FS_AddElement
    <3> QED
      BY <2>1, <2>3, <3>1, JobsAssumption DEF CapacityKept, HasCapacity
  <2> QED
    BY <2>2, <2>3, OnlyAdmissionAdds
<1> QED
  BY <1>1, <1>2, PlaceInit, PlaceStep, PTL DEF Spec

-----------------------------------------------------------------------------
\* A job that has ended keeps its outcome: no step of any task, request or
\* restart replaces it.
THEOREM OutcomesAreFinal == Spec => EndedIsFinal
<1> DEFINE Final == \A j \in Terminal : \/ status'[j] = "absent"
                                        \/ /\ status'[j] = status[j]
                                           /\ artifact'[j] = artifact[j]
<1>1. PlaceInv /\ [Next]_vars => [Final]_vars
  <2> SUFFICES ASSUME PlaceInv, Next PROVE Final
    OBVIOUS
  <2> USE DEF Terminal, Active, record, store, work, world
  <2> TypeOK
    BY DEF PlaceInv
  <2>1. CASE UNCHANGED <<status, artifact>>
    BY <2>1
  <2>2. ASSUME NEW j \in Jobs, PruneRecords(j) PROVE Final
    BY SMTT(30), <2>2 DEF PruneRecords, Remove, TypeOK
  <2>3. ASSUME NEW j \in Jobs, Admit(j) PROVE Final
    BY <2>3 DEF Admit, Save, Go, PlaceInv, JobPlace, RequestPlaces, TypeOK
  <2>4. ASSUME NEW j \in Jobs, MarkRunning(j) PROVE Final
    BY <2>4 DEF MarkRunning, SaveFails, Save, TypeOK
  <2>5. ASSUME NEW j \in Jobs, RecordArtifact(j) PROVE Final
    BY SMTT(30), <2>5 DEF RecordArtifact, MayRecord, SaveFails, Save, TypeOK
  <2>6. ASSUME NEW j \in Jobs, Fail(j) \/ CancelSelf(j) \/ CancelRequest(j) PROVE Final
    BY <2>6 DEF Fail, MayFail, CancelSelf, CancelRequest, SaveFails, Save, TypeOK
  <2>7. CASE Open
    BY SMTT(30), <2>7, OpenWays DEF Interrupt, Remove, Active, TypeOK
  <2>8. \/ UNCHANGED <<status, artifact>> \/ Open
        \/ \E j \in Jobs : \/ PruneRecords(j) \/ Admit(j) \/ MarkRunning(j) \/ RecordArtifact(j)
                           \/ Fail(j) \/ CancelSelf(j) \/ CancelRequest(j)
    BY DEF Next, Request, Task, CollectObject, AcquirePermit, Timeout, LeaveOnCancel,
           PublishCheck, StoreObject, WorkEnds, Crash, Tick
  <2> QED
    BY <2>1, <2>2, <2>3, <2>4, <2>5, <2>6, <2>7, <2>8
<1> QED
  BY <1>1, PlaceInit, PlaceStep, PTL DEF Spec, EndedIsFinal

=============================================================================
