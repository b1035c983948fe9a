--------------------------- MODULE IngestContract ---------------------------
(***************************************************************************)
(* What a caller may assume of SchedulerHost::ingest_hours: while the call *)
(* runs, hours are committed one at a time and never taken back; Ok means  *)
(* that every requested hour was committed; after the call returned, no    *)
(* worker of it commits anything.                                          *)
(***************************************************************************)
CONSTANTS
    Jobs,
    Hours

VARIABLES
    ingested,   \* hours committed for each job
    outcome     \* "none" until the call returns, then "ok" or "err"

Init == /\ ingested = [j \in Jobs |-> {}]
        /\ outcome = [j \in Jobs |-> "none"]

Commit(j) ==
    /\ outcome[j] = "none"
    /\ \E h \in Hours \ ingested[j] :
          ingested' = [ingested EXCEPT ![j] = @ \cup {h}]
    /\ UNCHANGED outcome

Return(j) ==
    /\ outcome[j] = "none"
    /\ \E result \in {"ok", "err"} :
          /\ result = "ok" => ingested[j] = Hours
          /\ outcome' = [outcome EXCEPT ![j] = result]
    /\ UNCHANGED ingested

Next == \E j \in Jobs : Commit(j) \/ Return(j)

Spec == Init /\ [][Next]_<<ingested, outcome>>

=============================================================================
