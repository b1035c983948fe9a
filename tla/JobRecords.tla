----------------------------- MODULE JobRecords -----------------------------
(***************************************************************************)
(* The durable record of one scheduler job (crates/rw-scheduler/src/       *)
(* state.rs): its states, the attempt counter and the operations on it.    *)
(*                                                                         *)
(* A record keeps what the control flow reads.  RetryBackoff is two        *)
(* states, before (retry_backoff) and after (retry_due) the clock reached  *)
(* retry_at_unix; the timestamps, the diagnostic text and recovery_count,  *)
(* which nothing reads back, are left out.                                 *)
(***************************************************************************)
EXTENDS Integers

CONSTANTS
    MaxAttempts   \* RetryPolicy.max_attempts

ASSUME MaxAttemptsAssumption == MaxAttempts \in Nat \ {0}

JobStates == {"queued", "running", "retry_backoff", "retry_due", "succeeded", "failed"}

JobRecord == [state : JobStates, attempts : 0 .. MaxAttempts]

\* JobState::is_active
IsActive(job) == job.state \in {"queued", "running", "retry_backoff", "retry_due"}

\* JobRecord::new
NewRecord == [state |-> "queued", attempts |-> 0]

\* Mutant: off by one, the last allowed attempt never starts.
CanStartTooStrict(job) ==
    /\ job.state \in {"queued", "retry_due"}
    /\ job.attempts + 1 < MaxAttempts

\* The guards of JobRecord::start: only a queued job or a due retry may start,
\* and only while the policy has attempts left.
CanStart(job) ==
    /\ job.state \in {"queued", "retry_due"}
    /\ job.attempts < MaxAttempts

\* JobRecord::start
Start(job) == [state |-> "running", attempts |-> job.attempts + 1]

\* JobRecord::finish_success
FinishSuccess(job) == [job EXCEPT !.state = "succeeded"]

\* Mutant: off by one, the exhausted job backs off once more.
FinishFailureTooLate(job) ==
    [job EXCEPT !.state = IF job.attempts > MaxAttempts THEN "failed" ELSE "retry_backoff"]

\* JobRecord::finish_failure and finish_failure_with_delay: the last allowed
\* attempt is terminal, an earlier one backs off for at least one second.
FinishFailure(job) ==
    [job EXCEPT !.state = IF job.attempts >= MaxAttempts THEN "failed"
                                                         ELSE "retry_backoff"]

\* JobRecord::requeue_for_repair: a fresh budget.
RequeueForRepair(job) == NewRecord

\* JobRecord::release_retry
ReleaseRetry(job) == [job EXCEPT !.state = "queued"]

\* Mutant: a restart consumes the retry budget.
RecoverCharged(job) == [job EXCEPT !.state = "queued"]

\* JobRecord::recover_after_restart: the unfinished attempt is given back.
RecoverAfterRestart(job) ==
    [job EXCEPT !.state = "queued", !.attempts = job.attempts - 1]

=============================================================================
