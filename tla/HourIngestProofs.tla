-------------------------- MODULE HourIngestProofs --------------------------
(***************************************************************************)
(* Proofs about the worker pool of ingest_hours for any number of jobs,    *)
(* hours and workers, any limit of the gate and any budget.                *)
(***************************************************************************)
EXTENDS HourIngest, TLAPS, FiniteSetTheorems

\* A worker past the queue has an hour.
Busy == {"acquire", "permitted", "space", "ingest"}
BusyHasHour == \A w \in Threads : at[w] \in Busy => hour[w] \in Hours

TypeInv == TypeOK /\ BusyHasHour

\* The initial state of the pool is well typed.
LEMMA TypeInit == Init => TypeInv
<1> SUFFICES ASSUME Init PROVE TypeInv
  OBVIOUS
<1>1. used \in Nat
  BY IngestAssumption DEF Init
<1>2. TypeOK
  BY <1>1 DEF Init, TypeOK, Places
<1>3. BusyHasHour
  BY DEF Init, BusyHasHour, Busy
<1> QED BY <1>2, <1>3 DEF TypeInv

\* TypeInv is inductive.
LEMMA TypeStep == TypeInv /\ [Next]_vars => TypeInv'
<1> SUFFICES ASSUME TypeInv, [Next]_vars PROVE TypeInv'
  OBVIOUS
<1> USE DEF TypeInv, TypeOK, BusyHasHour
<1>1. CASE UNCHANGED vars
  BY <1>1 DEF vars
<1>2. CASE Cancel
  BY <1>2 DEF Cancel
<1>3. ASSUME NEW j \in Jobs, Return(j) PROVE TypeInv'
  BY <1>3 DEF Return
<1>4. ASSUME NEW w \in Threads, Work(w) PROVE TypeInv'
  <2>0. w[1] \in Jobs
    BY DEF Threads
  <2>1. CASE Poll(w)
    BY <2>1, <2>0 DEF Poll, Go, Places, Busy
  <2>2. CASE Pop(w)
    BY <2>2, <2>0 DEF Pop, Go, Places, Busy
  <2>3. CASE Acquire(w)
    BY <2>3 DEF Acquire, Go, Places, GateHasRoom, Busy
  <2>4. CASE SeeFailure(w)
    BY <2>4 DEF SeeFailure, Go, Places, Release, Busy
  <2>5. CASE CheckSpace(w)
    BY <2>5 DEF CheckSpace, Go, Places, Release, Busy
  <2>6. CASE IngestHour(w)
    BY <2>6, <2>0 DEF IngestHour, Go, Places, Release, Busy
  <2>7. CASE Recheck(w)
    BY <2>7 DEF Recheck, Go, Places, Release, Busy
  <2>8. CASE Fail(w)
    BY <2>8, <2>0 DEF Fail, Go, Places, Busy
  <2> QED BY <1>4, <2>1, <2>2, <2>3, <2>4, <2>5, <2>6, <2>7, <2>8 DEF Work
<1> QED BY <1>1, <1>2, <1>3, <1>4 DEF Next, Progress

\* Every step of every thread keeps the types of the pool's state.
THEOREM TypeCorrect == Spec => []TypeOK
<1>1. TypeInv => TypeOK
  BY DEF TypeInv
<1> QED BY TypeInit, TypeStep, <1>1, PTL DEF Spec

-----------------------------------------------------------------------------
(* No hour is lost: ingest_hours returns Ok only with all of them stored.  *)

\* An hour not yet stored is still queued, in the hands of a worker (one that
\* panicked keeps it), or its job has failed.
InHand == Busy \cup {"fail", "panicked"}
HoursTracked ==
    \A j \in Jobs : \A h \in Hours :
        \/ h \in queue[j] \/ h \in ingested[j] \/ j \in failed
        \/ \E w \in Threads : w[1] = j /\ hour[w] = h /\ at[w] \in InHand

\* A worker stops for a reason, and a failed job has an error to report.
StopsForReason ==
    /\ failed = first
    /\ \A w \in Threads :
          at[w] = "stopped" => w[1] \in failed \/ cancelled \/ queue[w[1]] = {}

LossInv == TypeInv /\ HoursTracked /\ StopsForReason /\ OkMeansAllIngested

\* No hour is lost initially.
LEMMA LossInit == Init => LossInv
<1> SUFFICES ASSUME Init PROVE LossInv
  OBVIOUS
<1>1. TypeInv
  BY TypeInit
<1>2. HoursTracked /\ StopsForReason /\ OkMeansAllIngested
  BY DEF Init, HoursTracked, StopsForReason, OkMeansAllIngested
<1> QED BY <1>1, <1>2 DEF LossInv

\* LossInv is inductive: every hour is queued, held, ingested or accounted for by a failure.
LEMMA LossStep == LossInv /\ [Next]_vars => LossInv'
<1> SUFFICES ASSUME LossInv, [Next]_vars PROVE LossInv'
  OBVIOUS
<1>0. TypeInv /\ TypeInv'
  BY TypeStep DEF LossInv
<1> USE <1>0 DEF TypeInv, TypeOK
<1>1. CASE UNCHANGED vars
  BY <1>1 DEF vars, LossInv, HoursTracked, StopsForReason, OkMeansAllIngested
<1>2. CASE Cancel
  BY <1>2 DEF Cancel, LossInv, HoursTracked, StopsForReason, OkMeansAllIngested
<1>3. ASSUME NEW j \in Jobs, Return(j) PROVE LossInv'
  <2>1. HoursTracked' /\ StopsForReason'
    BY <1>3 DEF Return, LossInv, HoursTracked, StopsForReason
  <2>2. ASSUME Succeeds(j) PROVE ingested[j] = Hours
    <3>1. PICK u \in Workers : TRUE
      BY IngestAssumption
    <3>2. <<j, u>> \in Threads /\ <<j, u>>[1] = j
      BY DEF Threads
    <3>3. \A w \in Threads : w[1] = j => at[w] = "stopped"
      BY <1>3, <2>2 DEF Return, Joined, Succeeds
    <3>4. j \notin failed /\ ~cancelled
      BY <2>2 DEF Succeeds, LossInv, StopsForReason
    <3>5. queue[j] = {}
      BY <3>2, <3>3, <3>4 DEF LossInv, StopsForReason
    <3>6. \A w \in Threads : w[1] = j => at[w] \notin InHand
      BY <3>3 DEF InHand, Busy
    <3>7. \A h \in Hours : h \in ingested[j]
      BY <3>4, <3>5, <3>6 DEF LossInv, HoursTracked
    <3> QED BY ZenonT(30), <3>7
  <2>3. OkMeansAllIngested'
    BY <1>3, <2>2 DEF Return, LossInv, OkMeansAllIngested
  <2> QED BY <2>1, <2>3 DEF LossInv
<1>4. ASSUME NEW w \in Threads, Work(w) PROVE LossInv'
  <2>0. w[1] \in Jobs
    BY DEF Threads
  <2> USE DEF LossInv, HoursTracked, StopsForReason, OkMeansAllIngested, InHand, Busy, Go
  <2>1. CASE Poll(w)
    BY <2>1, <2>0 DEF Poll
  <2>2. CASE Pop(w)
    <3>0. OkMeansAllIngested'
      BY <2>2 DEF Pop
    <3>1. StopsForReason'
      <4>1. \A j \in Jobs : queue[j] = {} => queue'[j] = {}
        BY <2>2, <2>0 DEF Pop
      <4>2. at'[w] = "stopped" => queue'[w[1]] = {}
        BY <2>2 DEF Pop
      <4>3. UNCHANGED <<failed, first, cancelled>>
        BY <2>2 DEF Pop
      <4>4. \A v \in Threads : v # w => at'[v] = at[v]
        BY <2>2 DEF Pop
      <4>5. \A v \in Threads : v[1] \in Jobs
        BY DEF Threads
      <4> QED BY <4>1, <4>2, <4>3, <4>4, <4>5
    <3>2. HoursTracked'
      <4>1. CASE queue[w[1]] = {} /\ at' = [at EXCEPT ![w] = "stopped"] /\ UNCHANGED <<queue, hour>>
        BY <2>2, <4>1 DEF Pop
      <4>2. CASE \E h \in queue[w[1]] :
                    /\ at[w] = "pop" /\ at' = [at EXCEPT ![w] = "acquire"]
                    /\ queue' = [queue EXCEPT ![w[1]] = @ \ {h}]
                    /\ hour' = [hour EXCEPT ![w] = h]
        <5>1. PICK g \in queue[w[1]] :
                    /\ at[w] = "pop" /\ at' = [at EXCEPT ![w] = "acquire"]
                    /\ queue' = [queue EXCEPT ![w[1]] = @ \ {g}]
                    /\ hour' = [hour EXCEPT ![w] = g]
          BY <4>2
        <5>2. UNCHANGED <<failed, ingested>>
          BY <2>2 DEF Pop
        <5>3. \A v \in Threads : v # w => at'[v] = at[v] /\ hour'[v] = hour[v]
          BY <5>1
        <5>4. at'[w] \in InHand /\ hour'[w] = g
          BY <5>1
        <5> SUFFICES ASSUME NEW j \in Jobs, NEW h \in Hours
                     PROVE  \/ h \in queue'[j] \/ h \in ingested'[j] \/ j \in failed'
                            \/ \E v \in Threads : v[1] = j /\ hour'[v] = h /\ at'[v] \in InHand
          BY DEF HoursTracked
        <5>5. CASE h \in queue[j]
          BY <5>1, <5>4, <5>5, <2>0
        <5>6. CASE \E v \in Threads : v[1] = j /\ hour[v] = h /\ at[v] \in InHand
          BY <5>1, <5>3, <5>6
        <5> QED BY <5>2, <5>5, <5>6
      <4> QED BY <2>2, <4>1, <4>2 DEF Pop
    <3> QED BY <3>0, <3>1, <3>2
  <2>3. CASE Acquire(w)
    BY <2>3 DEF Acquire
  <2>4. CASE SeeFailure(w)
    BY <2>4 DEF SeeFailure
  <2>5. CASE CheckSpace(w)
    BY <2>5 DEF CheckSpace
  <2>6. CASE IngestHour(w)
    <3>1. CASE at[w] = "ingest" /\ at' = [at EXCEPT ![w] = "recheck"]
               /\ ingested' = [ingested EXCEPT ![w[1]] = @ \cup {hour[w]}]
      <4>1. UNCHANGED <<queue, failed, first, outcome, hour, cancelled>>
        BY <2>6 DEF IngestHour
      <4>2. StopsForReason'
        BY <3>1, <4>1
      <4>3. \A j \in Jobs : ingested[j] \subseteq ingested'[j] /\ ingested'[j] \subseteq Hours
        BY <3>1, <2>0
      <4>4. OkMeansAllIngested'
        <5>1. \A j \in Jobs : ingested[j] = Hours => ingested'[j] = Hours
          BY ONLY <4>3
        <5> QED BY <4>1, <5>1
      <4>5. hour[w] \in ingested'[w[1]]
        BY <3>1, <2>0
      <4>6. \A v \in Threads : v # w => at'[v] = at[v]
        BY <3>1
      <4>7. HoursTracked'
        BY <4>1, <4>3, <4>5, <4>6
      <4> QED BY <4>2, <4>4, <4>7
    <3>2. CASE at[w] = "ingest" /\ UNCHANGED ingested
      BY <2>6, <3>2 DEF IngestHour
    <3> QED BY <2>6, <3>1, <3>2 DEF IngestHour
  <2>7. CASE Recheck(w)
    BY <2>7 DEF Recheck
  <2>8. CASE Fail(w)
    BY <2>8, <2>0 DEF Fail
  <2> QED BY <1>4, <2>1, <2>2, <2>3, <2>4, <2>5, <2>6, <2>7, <2>8 DEF Work
<1> QED BY <1>1, <1>2, <1>3, <1>4 DEF Next, Progress

\* ingest_hours returns Ok only when every missing hour was committed.
THEOREM NoHourLost == Spec => []OkMeansAllIngested
<1>1. LossInv => OkMeansAllIngested
  BY DEF LossInv
<1> QED BY LossInit, LossStep, <1>1, PTL DEF Spec

-----------------------------------------------------------------------------
(* The gate and the disk budget.                                           *)

\* Threads that passed the space check and have not written their hour yet.
InFlight == {w \in Threads : at[w] = "ingest"}

\* What is written and what may still be written without another check.
BudgetInv == used + Cardinality(InFlight) <= Budget + HourLimit

GateInv == TypeInv /\ GateCountsHolders /\ BudgetInv

\* Sets of threads are finite.
LEMMA ThreadSetsFinite ==
  ASSUME NEW S \in SUBSET Threads
  PROVE  IsFiniteSet(S) /\ Cardinality(S) \in Nat
<1>1. IsFiniteSet(Threads)
  BY FS_Product, IngestAssumption DEF Threads
<1>2. IsFiniteSet(S)
  BY <1>1, FS_Subset
<1> QED BY <1>2, FS_CardinalityType

\* A thread that joins a set of threads adds one.
LEMMA CountJoin ==
  ASSUME NEW S \in SUBSET Threads, NEW w \in Threads, w \notin S
  PROVE  Cardinality(S \cup {w}) = Cardinality(S) + 1
BY ThreadSetsFinite, FS_AddElement

\* A thread that leaves a set of threads takes one.
LEMMA CountLeave ==
  ASSUME NEW S \in SUBSET Threads, NEW w \in S
  PROVE  Cardinality(S \ {w}) = Cardinality(S) - 1 /\ Cardinality(S) >= 1
<1>1. IsFiniteSet(S) /\ Cardinality(S) \in Nat
  BY ThreadSetsFinite
<1>2. Cardinality(S \ {w}) = Cardinality(S) - 1
  BY <1>1, FS_RemoveElement
<1>3. Cardinality(S \ {w}) \in Nat
  BY ThreadSetsFinite
<1> QED BY <1>1, <1>2, <1>3

\* Hours in flight are counted by permits.
LEMMA InFlightHold == InFlight \subseteq Holders /\ Cardinality(InFlight) <= Cardinality(Holders)
<1>1. InFlight \subseteq Holders /\ Holders \subseteq Threads
  BY DEF InFlight, Holders, Holding
<1>2. IsFiniteSet(Holders)
  BY <1>1, ThreadSetsFinite
<1> QED BY <1>1, <1>2, FS_Subset

\* No permit is held initially.
LEMMA GateInit == Init => GateInv
<1> SUFFICES ASSUME Init PROVE GateInv
  OBVIOUS
<1>1. TypeInv
  BY TypeInit
<1>2. Holders = {} /\ InFlight = {}
  BY DEF Init, Holders, Holding, InFlight
<1>3. Cardinality(Holders) = 0 /\ Cardinality(InFlight) = 0
  BY <1>2, FS_EmptySet
<1>4. used <= Budget /\ used \in Nat
  BY IngestAssumption DEF Init
<1> QED BY <1>1, <1>3, <1>4, IngestAssumption DEF GateInv, GateCountsHolders, BudgetInv, Init

\* GateInv is inductive: each step takes, keeps or returns the permit of its own thread.
LEMMA GateStep == GateInv /\ [Next]_vars => GateInv'
<1> SUFFICES ASSUME GateInv, [Next]_vars PROVE GateInv'
  OBVIOUS
<1>0. TypeInv /\ TypeInv'
  BY TypeStep DEF GateInv
<1>a. /\ active \in Nat /\ used \in Nat /\ at \in [Threads -> Places]
      /\ HourLimit \in Nat \ {0} /\ Budget \in Nat
      /\ Holders \in SUBSET Threads /\ InFlight \in SUBSET Threads
      /\ active = Cardinality(Holders) /\ active <= HourLimit
      /\ used + Cardinality(InFlight) <= Budget + HourLimit
  BY <1>0, IngestAssumption
     DEF TypeInv, TypeOK, Holders, InFlight, GateInv, GateCountsHolders, BudgetInv
<1>b. Cardinality(InFlight) \in Nat
  BY <1>a, ThreadSetsFinite
\* The three ways a step can leave the counts.
<1>c. ASSUME Holders' = Holders, InFlight' = InFlight, active' = active, used' = used
      PROVE  GateInv'
  BY <1>c, <1>0, <1>a DEF GateInv, GateCountsHolders, BudgetInv
<1>d. ASSUME NEW w \in Threads, w \in Holders, w \notin InFlight,
             Holders' = Holders \ {w}, InFlight' = InFlight, Release, used' = used
      PROVE  GateInv'
  <2>1. Cardinality(Holders \ {w}) = Cardinality(Holders) - 1 /\ Cardinality(Holders) >= 1
    BY <1>a, <1>d, CountLeave
  <2> QED BY <2>1, <1>d, <1>0, <1>a DEF GateInv, GateCountsHolders, BudgetInv, Release
<1>1. CASE UNCHANGED vars
  BY <1>1, <1>c DEF vars, Holders, InFlight
<1>2. CASE Cancel
  BY <1>2, <1>c DEF Cancel, Holders, InFlight
<1>3. ASSUME NEW j \in Jobs, Return(j) PROVE GateInv'
  BY <1>3, <1>c DEF Return, Holders, InFlight
<1>4. ASSUME NEW w \in Threads, Work(w) PROVE GateInv'
  <2>1. CASE Poll(w)
    BY <2>1, <1>a, <1>c DEF Poll, Go, Holders, Holding, InFlight
  <2>2. CASE Pop(w)
    BY <2>2, <1>a, <1>c DEF Pop, Go, Holders, Holding, InFlight
  <2>3. CASE Acquire(w)
    <3>1. CASE ~GateHasRoom
      BY <2>3, <3>1, <1>a, <1>c DEF Acquire, Go, Holders, Holding, InFlight
    <3>2. CASE GateHasRoom
      <4>1. w \notin Holders /\ Holders' = Holders \cup {w} /\ InFlight' = InFlight
        BY <2>3, <3>2, <1>a DEF Acquire, Go, Holders, Holding, InFlight
      <4>2. Cardinality(Holders \cup {w}) = Cardinality(Holders) + 1
        BY <4>1, <1>a, CountJoin
      <4>3. active' = active + 1 /\ used' = used /\ active < HourLimit
        BY <2>3, <3>2 DEF Acquire, GateHasRoom
      <4> QED BY <4>1, <4>2, <4>3, <1>0, <1>a DEF GateInv, GateCountsHolders, BudgetInv
    <3> QED BY <3>1, <3>2
  <2>4. CASE SeeFailure(w)
    <3>1. CASE w[1] \in failed
      BY <2>4, <3>1, <1>a, <1>d DEF SeeFailure, Go, Holders, Holding, InFlight
    <3>2. CASE w[1] \notin failed
      BY <2>4, <3>2, <1>a, <1>c DEF SeeFailure, Go, Holders, Holding, InFlight
    <3> QED BY <3>1, <3>2
  <2>5. CASE CheckSpace(w)
    <3>1. CASE Go(w, "space", "fail") /\ Release
      BY <2>5, <3>1, <1>a, <1>d DEF CheckSpace, Go, Holders, Holding, InFlight
    <3>2. CASE WithinBudget /\ Go(w, "space", "ingest") /\ UNCHANGED active
      <4>1. Holders' = Holders
        BY <2>5, <3>2, <1>a DEF CheckSpace, Go, Holders, Holding
      <4>2. active' = active /\ used' = used /\ used <= Budget
        BY <2>5, <3>2 DEF CheckSpace, WithinBudget
      <4>3. InFlight' \subseteq Holders'
        BY DEF InFlight, Holders, Holding
      <4>4. Cardinality(InFlight') <= Cardinality(Holders) /\ Cardinality(InFlight') \in Nat
        BY SMTT(30), <4>1, <4>3, <1>a, ThreadSetsFinite, FS_Subset
      <4> QED BY <4>1, <4>2, <4>4, <1>0, <1>a DEF GateInv, GateCountsHolders, BudgetInv
    <3> QED BY <2>5, <3>1, <3>2 DEF CheckSpace
  <2>6. CASE IngestHour(w)
    <3>0. w \in InFlight /\ w \in Holders /\ InFlight' = InFlight \ {w}
      BY <2>6, <1>a DEF IngestHour, Go, InFlight, Holders, Holding
    <3>1. Cardinality(InFlight') = Cardinality(InFlight) - 1
      BY <3>0, <1>a, CountLeave
    <3>2. CASE at' = [at EXCEPT ![w] = "recheck"] /\ used' = used + 1 /\ active' = active
      <4>1. Holders' = Holders
        BY <2>6, <3>2, <1>a DEF IngestHour, Go, Holders, Holding
      <4> QED BY <3>1, <3>2, <4>1, <1>0, <1>a, <1>b DEF GateInv, GateCountsHolders, BudgetInv
    <3>3. CASE at' \in {[at EXCEPT ![w] = "fail"], [at EXCEPT ![w] = "panicked"]}
               /\ Release /\ used' = used
      <4>1. Holders' = Holders \ {w}
        BY <3>0, <3>3, <1>a DEF Holders, Holding
      <4>2. Cardinality(Holders \ {w}) = Cardinality(Holders) - 1 /\ Cardinality(Holders) >= 1
        BY <3>0, <1>a, CountLeave
      <4> QED BY <3>1, <3>3, <4>1, <4>2, <1>0, <1>a, <1>b
              DEF GateInv, GateCountsHolders, BudgetInv, Release
    <3> QED BY <2>6, <3>2, <3>3 DEF IngestHour, Go
  <2>7. CASE Recheck(w)
    <3>1. w \in Holders /\ w \notin InFlight /\ Holders' = Holders \ {w} /\ InFlight' = InFlight
      BY <2>7, <1>a DEF Recheck, Go, Holders, Holding, InFlight
    <3> QED BY <2>7, <3>1, <1>d DEF Recheck
  <2>8. CASE Fail(w)
    BY <2>8, <1>a, <1>c DEF Fail, Go, Holders, Holding, InFlight
  <2> QED BY <1>4, <2>1, <2>2, <2>3, <2>4, <2>5, <2>6, <2>7, <2>8 DEF Work
<1> QED BY <1>1, <1>2, <1>3, <1>4 DEF Next, Progress

\* hour_gate counts its permits exactly and never exceeds its limit.
THEOREM GateNeverExceeded == Spec => []GateCountsHolders
<1>1. GateInv => GateCountsHolders
  BY DEF GateInv
<1> QED BY GateInit, GateStep, <1>1, PTL DEF Spec

\* The store exceeds the audited budget by at most one hour per permit.
THEOREM BudgetOvershootBounded == Spec => []OvershootBounded
<1>1. GateInv => OvershootBounded
  <2> SUFFICES ASSUME GateInv PROVE OvershootBounded
    OBVIOUS
  <2>1. InFlight \in SUBSET Threads
    BY DEF InFlight
  <2>2. Cardinality(InFlight) \in Nat
    BY <2>1, ThreadSetsFinite
  <2> QED BY <2>2, IngestAssumption
          DEF GateInv, TypeInv, TypeOK, BudgetInv, OvershootBounded
<1> QED BY GateInit, GateStep, <1>1, PTL DEF Spec

-----------------------------------------------------------------------------
(* The pool implements the contract of ingest_hours.                       *)

\* A call whose workers are not all joined has not returned, so nothing is
\* committed for a job whose outcome is known.
Halted == {"stopped", "panicked"}
RunningNotReturned == \A w \in Threads : at[w] \notin Halted => outcome[w[1]] = "none"

ContractInv == LossInv /\ RunningNotReturned

\* No call has returned initially.
LEMMA ContractInit == Init => ContractInv
<1>1. Init => RunningNotReturned
  BY DEF Init, RunningNotReturned, Threads
<1> QED BY <1>1, LossInit DEF ContractInv

\* ContractInv is inductive: a worker that has stopped stays so, and a call returns last.
LEMMA ContractStep == ContractInv /\ [Next]_vars => ContractInv'
<1> SUFFICES ASSUME ContractInv, [Next]_vars PROVE ContractInv'
  OBVIOUS
<1>0. LossInv' /\ TypeInv
  BY LossStep DEF ContractInv, LossInv
<1> SUFFICES RunningNotReturned'
  BY <1>0 DEF ContractInv
<1> USE <1>0 DEF ContractInv, TypeInv, TypeOK, RunningNotReturned, Halted
<1>1. CASE UNCHANGED vars
  BY <1>1 DEF vars
<1>2. CASE Cancel
  BY <1>2 DEF Cancel
<1>3. ASSUME NEW j \in Jobs, Return(j) PROVE RunningNotReturned'
  BY <1>3 DEF Return, Joined, Threads
<1>4. ASSUME NEW w \in Threads, Work(w) PROVE RunningNotReturned'
  <2>1. at[w] \notin Halted /\ UNCHANGED outcome /\ \A v \in Threads \ {w} : at'[v] = at[v]
    BY <1>4 DEF Work, Go, Poll, Pop, Acquire, SeeFailure, CheckSpace, IngestHour, Recheck, Fail
  <2> QED BY <2>1
<1> QED BY <1>1, <1>2, <1>3, <1>4 DEF Next, Progress

\* One step of the pool is one step of the contract, or leaves the caller's view alone:
\* a worker commits the hour it holds while the call runs, and a call returns Ok only
\* with every hour committed.
LEMMA ContractSimulation ==
    ContractInv /\ ContractInv' /\ [Next]_vars => [Contract!Next]_<<ingested, outcome>>
<1> SUFFICES ASSUME ContractInv, ContractInv', [Next]_vars
             PROVE  Contract!Next \/ UNCHANGED <<ingested, outcome>>
  OBVIOUS
<1>0. TypeOK /\ BusyHasHour
  BY DEF ContractInv, LossInv, TypeInv
<1>1. CASE UNCHANGED vars
  BY <1>1 DEF vars
<1>2. CASE Cancel
  BY <1>2 DEF Cancel
<1>3. ASSUME NEW j \in Jobs, Return(j) PROVE Contract!Return(j)
  <2>1. PICK result \in {"ok", "err"} : outcome' = [outcome EXCEPT ![j] = result]
    BY <1>3 DEF Return
  <2>2. outcome[j] = "none" /\ UNCHANGED ingested
    BY <1>3 DEF Return
  <2>3. outcome'[j] = result
    BY <1>0, <2>1 DEF TypeOK
  <2>4. result = "ok" => ingested[j] = Hours
    BY <2>2, <2>3 DEF ContractInv, LossInv, OkMeansAllIngested
  <2> QED BY <2>1, <2>2, <2>4 DEF Contract!Return
<1>4. ASSUME NEW w \in Threads, IngestHour(w)
      PROVE  Contract!Commit(w[1]) \/ UNCHANGED <<ingested, outcome>>
  <2>1. UNCHANGED outcome /\ at[w] = "ingest" /\ w[1] \in Jobs
    BY <1>4 DEF IngestHour, Go, Threads
  <2>2. outcome[w[1]] = "none" /\ hour[w] \in Hours
    BY <1>0, <2>1 DEF ContractInv, RunningNotReturned, Halted, BusyHasHour, Busy
  <2>3. CASE ingested' = [ingested EXCEPT ![w[1]] = @ \cup {hour[w]}]
    <3>1. CASE hour[w] \in ingested[w[1]]
      <4>1. ingested[w[1]] \cup {hour[w]} = ingested[w[1]]
        BY <3>1
      <4> QED BY <1>0, <2>1, <2>3, <4>1 DEF TypeOK
    <3>2. CASE hour[w] \notin ingested[w[1]]
      BY <2>1, <2>2, <2>3, <3>2 DEF Contract!Commit
    <3> QED BY <3>1, <3>2
  <2> QED BY <1>4, <2>1, <2>3 DEF IngestHour
<1>5. ASSUME NEW w \in Threads, Work(w), ~IngestHour(w) PROVE UNCHANGED <<ingested, outcome>>
  BY <1>5 DEF Work, Poll, Pop, Acquire, SeeFailure, CheckSpace, Recheck, Fail
<1>6. \A w \in Threads : w[1] \in Jobs
  BY DEF Threads
<1> QED BY <1>1, <1>2, <1>3, <1>4, <1>5, <1>6 DEF Next, Progress, Contract!Next

\* A caller of ingest_hours may rely on IngestContract: hours are committed only while
\* the call runs, one at a time and for good, and Ok means all of them.
THEOREM PoolImplementsContract == Spec => ImplementsContract
<1>1. Init => Contract!Init
  BY DEF Init, Contract!Init
<1> QED BY <1>1, ContractInit, ContractStep, ContractSimulation, PTL
        DEF Spec, ImplementsContract, Contract!Spec

=============================================================================
