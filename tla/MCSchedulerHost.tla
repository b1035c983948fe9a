-------------------------- MODULE MCSchedulerHost ---------------------------
(***************************************************************************)
(* Instances of SchedulerHost for TLC: one model whose even-numbered       *)
(* cycles have the longest horizon.                                        *)
(***************************************************************************)
EXTENDS SchedulerHost

CONSTANTS hrrr, hourly, extended

MCModelOf == [r \in Runs |-> hrrr]
MCOrigin == [r \in Runs |-> r]
MCLongHorizon == {r \in Runs : r % 2 = 0}
MCEarlyLongHorizon == {r \in Runs : r <= 2}
MCLaneModel == [lane \in Lanes |-> hrrr]

=============================================================================
