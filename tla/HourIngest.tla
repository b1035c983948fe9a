----------------------------- MODULE HourIngest -----------------------------
(***************************************************************************)
(* SchedulerHost::ingest_hours of crates/rw-scheduler/src/executor.rs: the *)
(* worker threads of the jobs of one chunk.  Each job has its own queue,   *)
(* failed flag and first error; all of them share the gate hour_gate (a    *)
(* mutex and a condition variable around a counter), the shutdown flag and *)
(* the disk budget.  Sizes are counted in hours.                           *)
(***************************************************************************)
EXTENDS Integers, FiniteSets

CONSTANTS
    Jobs,        \* the jobs that run in parallel
    Hours,       \* the missing hours of a job
    Workers,     \* indices of the worker threads of a job
    HourLimit,   \* max_concurrent_hours, the limit of the gate
    Budget,      \* disk_budget_bytes
    InitialUse   \* what the store may hold at the start

ASSUME IngestAssumption ==
    /\ Hours \subseteq Nat /\ IsFiniteSet(Hours)
    /\ IsFiniteSet(Jobs) /\ IsFiniteSet(Workers) /\ Workers # {}
    /\ HourLimit \in Nat \ {0} /\ Cardinality(Workers) <= HourLimit
    /\ Budget \in Nat
    /\ InitialUse \subseteq 0 .. Budget

VARIABLES
    queue,      \* hours not taken yet, per job
    failed,     \* jobs whose failed flag is set
    first,      \* jobs whose first_error is set
    outcome,    \* what ingest_hours of the job returned
    at,         \* where a worker is
    hour,       \* the hour a worker has taken
    active,     \* the counter of the gate
    cancelled,
    used,       \* directory_bytes_no_symlinks of the store
    ingested    \* hours committed to the store, per job

vars == <<queue, failed, first, outcome, at, hour, active, cancelled, used, ingested>>

Threads == Jobs \X Workers
NoHour == -1
Places == {"poll", "pop", "acquire", "permitted", "space", "ingest", "recheck",
           "fail", "stopped", "panicked"}
Holding == {"permitted", "space", "ingest", "recheck"}
Holders == {w \in Threads : at[w] \in Holding}

TypeOK ==
    /\ queue \in [Jobs -> SUBSET Hours]
    /\ failed \subseteq Jobs /\ first \subseteq Jobs
    /\ outcome \in [Jobs -> {"none", "ok", "err"}]
    /\ at \in [Threads -> Places] /\ hour \in [Threads -> Hours \cup {NoHour}]
    /\ active \in Nat /\ used \in Nat /\ cancelled \in BOOLEAN
    /\ ingested \in [Jobs -> SUBSET Hours]

Init ==
    /\ queue = [j \in Jobs |-> Hours]
    /\ failed = {} /\ first = {}
    /\ outcome = [j \in Jobs |-> "none"]
    /\ at = [w \in Threads |-> "poll"] /\ hour = [w \in Threads |-> NoHour]
    /\ active = 0 /\ cancelled = FALSE
    /\ used \in InitialUse
    /\ ingested = [j \in Jobs |-> {}]

\* Worker w goes from one place to another.
Go(w, from, to) == at[w] = from /\ at' = [at EXCEPT ![w] = to]

\* The head of the loop reads the flags before it takes the queue's lock.
Poll(w) ==
    /\ Go(w, "poll", IF w[1] \in failed \/ cancelled THEN "stopped" ELSE "pop")
    /\ UNCHANGED <<queue, failed, first, outcome, hour, active, cancelled, used, ingested>>

\* Mutant: an empty queue is not noticed.
PopNothing(w) ==
    LET j == w[1] IN
    /\ Go(w, "pop", "acquire")
    /\ \/ queue[j] = {} /\ UNCHANGED <<queue, hour>>
       \/ \E h \in queue[j] : /\ queue' = [queue EXCEPT ![j] = @ \ {h}]
                              /\ hour' = [hour EXCEPT ![w] = h]
    /\ UNCHANGED <<failed, first, outcome, active, cancelled, used, ingested>>

Pop(w) ==
    LET j == w[1] IN
    /\ \/ /\ queue[j] = {} /\ Go(w, "pop", "stopped")
          /\ UNCHANGED <<queue, hour>>
       \/ /\ Go(w, "pop", "acquire")
          /\ \E h \in queue[j] :
                /\ \A other \in queue[j] : h <= other
                /\ queue' = [queue EXCEPT ![j] = @ \ {h}]
                /\ hour' = [hour EXCEPT ![w] = h]
    /\ UNCHANGED <<failed, first, outcome, active, cancelled, used, ingested>>

\* Mutant: off by one at the gate.
GateOneMore == active <= HourLimit

\* ConcurrencyGate::acquire.  A thread that finds the gate full waits; it looks
\* at the shutdown flag only then.
GateHasRoom == active < HourLimit
Acquire(w) ==
    /\ \/ GateHasRoom /\ Go(w, "acquire", "permitted") /\ active' = active + 1
       \/ ~GateHasRoom /\ cancelled /\ Go(w, "acquire", "fail") /\ UNCHANGED active
    /\ UNCHANGED <<queue, failed, first, outcome, hour, cancelled, used, ingested>>

\* Mutant: a permit is never given back.
NoRelease == UNCHANGED active

\* HourPermit::drop
Release == active' = IF active = 0 THEN 0 ELSE active - 1

\* After the permit: another worker of the job may have failed meanwhile.
SeeFailure(w) ==
    /\ \/ w[1] \in failed /\ Go(w, "permitted", "poll") /\ Release
       \/ w[1] \notin failed /\ Go(w, "permitted", "space") /\ UNCHANGED active
    /\ UNCHANGED <<queue, failed, first, outcome, hour, cancelled, used, ingested>>

\* The budget of check_space: the store may fill up to it, not beyond.
WithinBudget == used <= Budget

\* Mutant: no check under the permit, only after the hour.
SkipCheck(w) ==
    /\ Go(w, "space", "ingest")
    /\ UNCHANGED <<queue, failed, first, outcome, hour, active, cancelled, used, ingested>>

\* check_space also fails below the reserve of free space, or when it cannot look.
CheckSpace(w) ==
    /\ \/ WithinBudget /\ Go(w, "space", "ingest") /\ UNCHANGED active
       \/ Go(w, "space", "fail") /\ Release
    /\ UNCHANGED <<queue, failed, first, outcome, hour, cancelled, used, ingested>>

\* ingest_hour_serial commits the hour, returns an error (a shutdown among
\* others) or panics; the unwinding worker drops its permit and reports nothing.
IngestHour(w) ==
    /\ \/ /\ Go(w, "ingest", "recheck")
          /\ used' = used + 1
          /\ ingested' = [ingested EXCEPT ![w[1]] = @ \cup {hour[w]}]
          /\ UNCHANGED active
       \/ Go(w, "ingest", "fail") /\ Release /\ UNCHANGED <<used, ingested>>
       \/ Go(w, "ingest", "panicked") /\ Release /\ UNCHANGED <<used, ingested>>
    /\ UNCHANGED <<queue, failed, first, outcome, hour, cancelled>>

\* check_space again, and the end of the permit's scope.
Recheck(w) ==
    /\ Go(w, "recheck", "fail") \/ (WithinBudget /\ Go(w, "recheck", "poll"))
    /\ Release
    /\ UNCHANGED <<queue, failed, first, outcome, hour, cancelled, used, ingested>>

\* The error of a worker sets the flag and then first_error, which nobody reads
\* before the workers are joined.
Fail(w) ==
    /\ Go(w, "fail", "stopped")
    /\ failed' = failed \cup {w[1]}
    /\ first' = first \cup {w[1]}
    /\ UNCHANGED <<queue, outcome, hour, active, cancelled, used, ingested>>

\* thread::scope joins the workers of the job; a panic of one is raised again
\* and becomes an error in execute_one.
Joined(j) == \A w \in Threads : w[1] = j => at[w] \in {"stopped", "panicked"}

\* Mutants: a panic, or a recorded error, is overlooked.
SucceedsPanicked(j) == ~cancelled /\ j \notin first
SucceedsFailed(j) ==
    ~cancelled /\ \A w \in Threads : w[1] = j => at[w] # "panicked"

Succeeds(j) ==
    /\ ~cancelled /\ j \notin first
    /\ \A w \in Threads : w[1] = j => at[w] # "panicked"
Return(j) ==
    /\ outcome[j] = "none" /\ Joined(j)
    /\ outcome' = [outcome EXCEPT ![j] = IF Succeeds(j) THEN "ok" ELSE "err"]
    /\ UNCHANGED <<queue, failed, first, at, hour, active, cancelled, used, ingested>>

Cancel ==
    /\ ~cancelled /\ cancelled' = TRUE
    /\ UNCHANGED <<queue, failed, first, outcome, at, hour, active, used, ingested>>

Work(w) == \/ Poll(w) \/ Pop(w) \/ Acquire(w) \/ SeeFailure(w) \/ CheckSpace(w)
           \/ IngestHour(w) \/ Recheck(w) \/ Fail(w)

Progress == \/ \E w \in Threads : Work(w)
            \/ \E j \in Jobs : Return(j)

Next == Progress \/ Cancel

Spec == Init /\ [][Next]_vars

\* Some thread that can run does run.  A waiter at the gate wakes up at least
\* every 100 ms, so it can run as soon as a permit is free.
FairSpec == Spec /\ WF_vars(Progress)

-----------------------------------------------------------------------------
(* Properties.                                                             *)

\* The counter of the gate is the number of threads that hold a permit, and
\* never above the limit, whichever way a permit is given back: normal return,
\* error, failed job or panic.
GateCountsHolders == active = Cardinality(Holders) /\ active <= HourLimit

\* The audited budget is overshot by at most one hour per permit: the check
\* is made under a permit, so at most HourLimit hours pass it before any of
\* them is written.
OvershootBounded == used <= Budget + HourLimit

\* ingest_hours reports Ok only when every missing hour was committed: an hour
\* that a worker took and dropped because another one failed is never lost
\* silently.
OkMeansAllIngested == \A j \in Jobs : outcome[j] = "ok" => ingested[j] = Hours

\* Every call returns, with or without failures, panics and shutdown.
CallsReturn == \A j \in Jobs : <>(outcome[j] # "none")

\* The worker pool implements the contract the job execution relies on.
Contract == INSTANCE IngestContract
ImplementsContract == Contract!Spec

=============================================================================
