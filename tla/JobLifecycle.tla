---------------------------- MODULE JobLifecycle ----------------------------
(***************************************************************************)
(* What the scheduler promises about a job, without passes, threads or     *)
(* files: only the outcome of an attempt spends its retry budget, an       *)
(* interrupted attempt does not, a job that failed for good has spent all  *)
(* of it, and a job is forgotten only after it reached an outcome.         *)
(***************************************************************************)
EXTENDS Naturals

CONSTANTS
    Runs,
    MaxAttempts

VARIABLES
    status,   \* none, waiting, attempting, succeeded or failed
    spent     \* failed attempts charged to the current budget

lifecycle == <<status, spent>>

Init == /\ status = [r \in Runs |-> "none"]
        /\ spent = [r \in Runs |-> 0]

Move(r, from, to, charge) ==
    /\ status[r] = from
    /\ status' = [status EXCEPT ![r] = to]
    /\ spent' = [spent EXCEPT ![r] = charge]

Admit(r)     == Move(r, "none", "waiting", 0)
Begin(r)     == spent[r] < MaxAttempts /\ Move(r, "waiting", "attempting", spent[r])
Interrupt(r) == Move(r, "attempting", "waiting", spent[r])
Succeed(r)   == Move(r, "attempting", "succeeded", 0)
Retry(r)     == spent[r] + 1 < MaxAttempts /\ Move(r, "attempting", "waiting", spent[r] + 1)
GiveUp(r)    == spent[r] + 1 = MaxAttempts /\ Move(r, "attempting", "failed", MaxAttempts)
Repair(r)    == Move(r, "succeeded", "waiting", 0)
Forget(r)    == \E from \in {"succeeded", "failed"} : Move(r, from, "none", 0)

Next == \E r \in Runs : \/ Admit(r) \/ Begin(r) \/ Interrupt(r) \/ Succeed(r)
                        \/ Retry(r) \/ GiveUp(r) \/ Repair(r) \/ Forget(r)

Spec == Init /\ [][Next]_lifecycle

=============================================================================
