---------------------------- MODULE MCReplication ----------------------------
(* Two generations of one run, of one owner and with a chunk in common.  The *)
(* rights in the second end while those in the first go on.                 *)
EXTENDS Replication

CONSTANTS g1, g2, a, n1, x

MCOwner == [g \in Gens |-> a]
MCNs == [g \in Gens |-> n1]
MCChunks == [g \in Gens |-> {x}]
MCSize == [g \in Gens |-> 1]
MCSince == [g \in Gens |-> 0]
MCRetain == [g \in Gens |-> IF g = g1 THEN 2 ELSE 1]

=============================================================================
