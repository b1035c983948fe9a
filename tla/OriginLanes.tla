---------------------------- MODULE OriginLanes -----------------------------
(***************************************************************************)
(* What the scheduler believes about stored runs, and what it publishes    *)
(* and keeps because of it: coverage.rs (exact validation of a run),       *)
(* origin.rs (the active and the previous generation of each lane) and the *)
(* planning half of retention.rs.                                          *)
(*                                                                         *)
(* A run (a model cycle) is a number in the order of job ids.  An Option   *)
(* of the source is a set with at most one element.  Valid times are whole *)
(* hours: the slots of an exact-time axis (slot_mismatches, missing_slots) *)
(* are left out.  Ingest profiles are configuration, and suit their lanes. *)
(***************************************************************************)
EXTENDS Naturals, FiniteSets

CONSTANTS
    Runs,           \* run keys (model, run_id), numbered in job id order
    Models,
    ModelOf,        \* the model of a run
    Origin,         \* cycle_origin_unix of a run
    LongHorizon,    \* runs on a longest-horizon cycle of their model
    Hours,          \* expected valid times of a plan
    Lanes,          \* configured lanes, {} without origin_catalog_plan
    LaneModel,
    CompleteLanes,  \* lanes with NewestCompleteLongestHorizon
    KeepLatest      \* retention.keep_latest_per_model

ASSUME LanesAssumption ==
    /\ Runs \subseteq Nat /\ Hours # {}
    /\ ModelOf \in [Runs -> Models]
    /\ Origin \in [Runs -> Nat]
    /\ \A r, s \in Runs : ModelOf[r] = ModelOf[s] /\ Origin[r] = Origin[s] => r = s
    /\ LongHorizon \subseteq Runs
    /\ IsFiniteSet(Models) /\ IsFiniteSet(Lanes)
    /\ LaneModel \in [Lanes -> Models]
    /\ CompleteLanes \subseteq Lanes
    /\ KeepLatest \in Nat \ {0}

\* A run directory: absent, created but still empty, non-empty without an
\* owner marker, or owned by the scheduler.  manifest holds at most one set of
\* expected hours (run.json), files the hours whose file is present and valid,
\* extra says that run.json lists a time outside the plan.
DirKinds == {"absent", "empty", "unowned", "owned"}
RunDir == [kind : DirKinds, manifest : SUBSET (SUBSET Hours),
           files : SUBSET Hours, extra : BOOLEAN]
NoDir == [kind |-> "absent", manifest |-> {}, files |-> {}, extra |-> FALSE]

\* verify_run_json: the manifest loads and every hour it lists opens.
Verifies(dir) == \E listed \in dir.manifest : listed \subseteq dir.files

\* RunCoverage.present of a run that verifies.
Present(dir) == UNION dir.manifest

\* verify_run_json followed by RunCoverage::is_complete
CoverageComplete(dir) == Verifies(dir) /\ Present(dir) = Hours /\ ~dir.extra

\* verify_run_json followed by validate_queryable_coverage
Queryable(dir) == Verifies(dir) /\ ~dir.extra

\* OriginPublishedGeneration
Generation == [run : Runs, complete : BOOLEAN, present : SUBSET Hours]
GenerationOf(r, dirs) ==
    [run |-> r, complete |-> CoverageComplete(dirs[r]), present |-> Present(dirs[r])]

\* The records refresh_origin_catalog turns into candidates: the run is
\* queryable and at least one expected valid time is present.
Candidates(known, dirs) ==
    {r \in known : Queryable(dirs[r]) /\ Present(dirs[r]) # {}}

\* Mutant: the extended lane accepts incomplete runs.
MatchesLaneIncomplete(r, lane, dirs) ==
    /\ ModelOf[r] = LaneModel[lane]
    /\ lane \in CompleteLanes => r \in LongHorizon

\* candidate_matches_lane
MatchesLane(r, lane, dirs) ==
    /\ ModelOf[r] = LaneModel[lane]
    /\ lane \in CompleteLanes => CoverageComplete(dirs[r]) /\ r \in LongHorizon

\* The newest run of S: S holds runs of one model, so this set has at most one
\* element.
Newest(S) == {r \in S : \A s \in S : Origin[s] <= Origin[r]}

\* OriginPublicationPlan::build and OriginCatalogState::from_candidates.
LaneGenerations(lane, candidates, dirs) ==
    LET matching == {r \in candidates : MatchesLane(r, lane, dirs)}
        active   == Newest(matching)
        previous == Newest(matching \ active)
    IN  [active   |-> {GenerationOf(r, dirs) : r \in active},
         previous |-> {GenerationOf(r, dirs) : r \in previous}]

FromCandidates(candidates, dirs) ==
    [lane \in Lanes |-> LaneGenerations(lane, candidates, dirs)]

PublishedLane == [active : SUBSET Generation, previous : SUBSET Generation]

\* OriginCatalogState::empty
EmptyCatalog == [lane \in Lanes |-> [active |-> {}, previous |-> {}]]

\* OriginPublishedGeneration::validate_for_lane
ValidGeneration(gen, lane) ==
    /\ ModelOf[gen.run] = LaneModel[lane]
    /\ gen.present \subseteq Hours
    /\ gen.complete <=> gen.present = Hours
    /\ lane \in CompleteLanes => gen.complete /\ gen.run \in LongHorizon

\* OriginCatalogState::validate, which every write and every load applies.
ValidCatalog(cat) ==
    \A lane \in Lanes :
        LET active == cat[lane].active  previous == cat[lane].previous IN
        /\ Cardinality(active) <= 1 /\ Cardinality(previous) <= 1
        /\ \A gen \in active \cup previous : ValidGeneration(gen, lane)
        /\ \A old \in previous : \E new \in active : Origin[old.run] < Origin[new.run]

\* Every generation a catalog lists, and OriginCatalogState::protected.
Published(cat) == UNION {cat[lane].active \cup cat[lane].previous : lane \in Lanes}
Protected(cat) == {gen.run : gen \in Published(cat)}

\* plan_retention: keep active jobs, aliased runs and the newest
\* KeepLatest runs of every model.
Newer(r, known) == {s \in known : ModelOf[s] = ModelOf[r] /\ Origin[s] > Origin[r]}

\* Mutants: published runs, or runs of active jobs, are not kept.
DeleteAliased(known, active, aliased) ==
    {r \in known \ active : Cardinality(Newer(r, known)) >= KeepLatest}
DeleteActive(known, active, aliased) ==
    {r \in known \ aliased : Cardinality(Newer(r, known)) >= KeepLatest}

RetentionDelete(known, active, aliased) ==
    {r \in known \ (active \cup aliased) : Cardinality(Newer(r, known)) >= KeepLatest}

=============================================================================
