--------------------------- MODULE GenerationRights ---------------------------
(***************************************************************************)
(* What the replication service promises about the rights in a generation, *)
(* seen by an owner and by a reader: each goes one way through its life,    *)
(* and a run directory has at most one generation with a claim to it.      *)
(* Several generations may move at once: when their time ends, or when the *)
(* service is started again.                                               *)
(***************************************************************************)
CONSTANTS Gens, Ns

VARIABLE phase

Phases == {"none", "uploading", "published", "retiring", "retired"}

\* An upload may be given up and begun again; a withdrawal is for ever.  An upload
\* is published without being seen before when a restart finds its publication on
\* disk, whose write was reported as failed, after the upload expired.
Moves == {<<"none", "uploading">>, <<"uploading", "none">>,
          <<"uploading", "published">>, <<"none", "published">>,
          <<"published", "retiring">>, <<"retiring", "retired">>}

Claims == {g \in Gens : phase[g] \in {"uploading", "published", "retiring"}}
Unique == \A g, h \in Claims : Ns[g] = Ns[h] => g = h

Init == phase = [g \in Gens |-> "none"]

Next ==
    /\ phase' # phase
    /\ phase' \in [Gens -> Phases]
    /\ \A g \in Gens : phase'[g] = phase[g] \/ <<phase[g], phase'[g]>> \in Moves
    /\ Unique'

Spec == Init /\ [][Next]_phase
=============================================================================
