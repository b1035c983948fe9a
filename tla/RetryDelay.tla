----------------------------- MODULE RetryDelay -----------------------------
(***************************************************************************)
(* The backoff after a failed attempt: RetryPolicy::delay_after_attempt    *)
(* (state.rs) and deterministic_jittered_delay (executor.rs), with the     *)
(* integer widths of the source scaled down: U64Max and I64Max stand for   *)
(* u64::MAX and i64::MAX, Percent for the 100 of a percentage.  The hash   *)
(* of job id and attempt is any number.                                    *)
(*                                                                         *)
(* A behaviour is one job that keeps failing under one policy, at any time *)
(* the clock shows.  A failure that cannot be recorded ends the pass with  *)
(* the record still running; the next pass gives the attempt back.         *)
(***************************************************************************)
EXTENDS Integers

CONSTANTS
    U64Max,
    I64Max,
    Percent,
    Policies,       \* validated policies [initial, ceiling, jitter]
    Times,          \* what now_unix may return
    MaxAttempts     \* max_attempts of the policy

ASSUME DelayAssumption ==
    /\ U64Max \in Nat /\ I64Max \in Nat \ {0} /\ U64Max = 2 * I64Max + 1
    /\ Percent \in Nat \ {0}
    /\ MaxAttempts \in Nat \ {0}
    /\ Times \subseteq 0 .. I64Max
    \* RetryPolicy::validate, which does not bound the ceiling, and the check of
    \* jitter_percent
    /\ Policies \subseteq [initial : 1 .. U64Max, ceiling : 1 .. U64Max, jitter : 0 .. Percent \div 2]
    /\ \A p \in Policies : p.initial <= p.ceiling

VARIABLES policy, attempt, now, delay,
    outcome   \* of the last attempt: "none", "retry", "failed" or "rejected"

vars == <<policy, attempt, now, delay, outcome>>

\* Mutant: wrapping arithmetic.
Wrap(n) == n % (U64Max + 1)

Saturate(n) == IF n > U64Max THEN U64Max ELSE n
AtMost(n, bound) == IF n > bound THEN bound ELSE n

\* 2_u64.checked_pow(n).unwrap_or(u64::MAX)
Factor[n \in Nat] == IF n = 0 THEN 1
                     ELSE IF 2 * Factor[n - 1] > U64Max THEN U64Max ELSE 2 * Factor[n - 1]

\* RetryPolicy::delay_after_attempt
Base(p, n) == AtMost(Saturate(p.initial * Factor[n - 1]), p.ceiling)

\* span, width and offset of deterministic_jittered_delay
Span(p, n) == Saturate(Base(p, n) * p.jitter) \div Percent
Offsets(p, n) == 0 - Span(p, n) .. (Saturate(Saturate(2 * Span(p, n)) + 1) - 1) - Span(p, n)

\* Mutant: the jittered delay is not capped again.
JitteredUncapped(p, n, offset) ==
    LET sum == Base(p, n) + offset IN (IF sum < 1 THEN 1 ELSE sum) % (U64Max + 1)

\* The i128 sum, at least 1, cast to u64 and capped.
Jittered(p, n, offset) ==
    LET sum == Base(p, n) + offset IN
    AtMost((IF sum < 1 THEN 1 ELSE sum) % (U64Max + 1), p.ceiling)

\* i64::try_from and checked_add
Fits(t, d) == d <= I64Max /\ t + d <= I64Max

\* finish_failure_with_delay: the range of the delay is checked for every attempt;
\* then finish_failure adds the delay before jitter to the time, unless the
\* attempt was the last, and the jittered delay takes its place.
Recorded(p, n, t, d) ==
    IF d = 0 \/ d > p.ceiling THEN "rejected"
    ELSE IF n >= MaxAttempts THEN "failed"
    ELSE IF Fits(t, Base(p, n)) /\ Fits(t, d) THEN "retry" ELSE "rejected"

Init == policy \in Policies /\ attempt = 0 /\ now \in Times /\ delay = 0 /\ outcome = "none"

FailAgain ==
    /\ outcome \in {"none", "retry"}
    /\ attempt' = attempt + 1
    /\ now' \in Times
    /\ \E offset \in Offsets(policy, attempt') :
          delay' = Jittered(policy, attempt', offset)
    /\ outcome' = Recorded(policy, attempt', now', delay')
    /\ UNCHANGED policy

\* The `?` of execute_one left the record running, and recover_after_restart
\* queues it again.
RecoverAttempt ==
    /\ outcome = "rejected"
    /\ attempt' = attempt - 1 /\ delay' = 0 /\ outcome' = "none"
    /\ UNCHANGED <<policy, now>>

Next == FailAgain \/ RecoverAttempt
Spec == Init /\ [][Next]_vars

\* What the policy means, in unbounded numbers.
Exponential(p, n) == AtMost(p.initial * 2^(n - 1), p.ceiling)
Room(p, n, t) == t + AtMost((3 * Exponential(p, n)) \div 2, p.ceiling) <= I64Max

\* A failure is refused only when the clock leaves no room for it: as long as the
\* exponential delay, half as much again for the jitter and at most the ceiling,
\* can be added to the time, finish_failure_with_delay accepts what was computed.
\* A refused failure leaves the job running on disk, to fail again in every pass.
DelayAccepted == outcome = "rejected" => ~Room(policy, attempt, now)

\* Backoff never collapses: at the highest jitter a recorded delay is at least
\* half of the exponential delay, capped by the ceiling, however often the job
\* failed and whatever the ceiling.  Saturation keeps the doubling from wrapping
\* round; the cast of the jittered sum may wrap, and such a delay is not recorded.
BackoffHolds == outcome = "retry" => 2 * delay >= Exponential(policy, attempt)

=============================================================================
