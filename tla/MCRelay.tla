------------------------------- MODULE MCRelay -------------------------------
(***************************************************************************)
(* A small instance of Relay: one object of one unit, one moment of a first *)
(* month and two of a second.  A session granted in the first is still open *)
(* when the second begins and expires within it; the clock may go back.     *)
(***************************************************************************)
EXTENDS Relay, TLC

CONSTANTS ua, ub, obj

MCSize == [o \in Objects |-> 1]
MCRetained == [o \in Objects |-> 2]
Symmetry == Permutations(Users)
=============================================================================
