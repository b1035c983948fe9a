----------------------------- MODULE Replication -----------------------------
(***************************************************************************)
(* Replication of run generations: GenerationReplicationService of          *)
(* rw-generation-replication/src/lib.rs, next to the scheduler, a process of *)
(* its own that claims and retires directories of the same store             *)
(* (rw-scheduler/src/retention.rs).                                        *)
(*                                                                         *)
(* A request of the service is a sequence of sections of the mutex `state`.*)
(* Between two sections other requests may run; the time of the request is *)
(* read once, before the first, and the clock may have been set back.      *)
(* Only finalize keeps the mutex over several steps, since the scheduler   *)
(* acts on the directory meanwhile.  The signed manifest of a generation,  *)
(* hence its bytes, is fixed by its identifier.                            *)
(***************************************************************************)
EXTENDS Integers, Sequences, FiniteSets, FiniteSetsExt

CONSTANTS
    Gens, Owners, Namespaces, ChunkIds,
    Owner, Ns, Chunks, Size,  \* of a generation; Ns is its model and run
    Since, Retain,            \* when its rights begin, less the tolerated skew, and end
    Shared,                   \* namespaces for which the scheduler plans runs, too
    Times, Skew, UploadTtl, MonthLength,
    MaxOwnerUploads, MaxUploads, MaxOwnerGenerations, MaxGenerations,
    MaxOwnerStorage, MaxStorage, MaxOwnerMonthly, MaxMonthly, MaxDeletions,
    NoGen,
    MaxRequests, MaxSweeps,   \* bounds of the requests under way: for a generation,
                              \* and to collect or query
    MaxFaults                 \* bound of sections with failing file operations, and of crashes

ASSUME ReplicationAssumption ==
    /\ IsFiniteSet(Gens) /\ NoGen \notin Gens
    /\ Gens \cap {"absent", "empty", "other"} = {}
    /\ Owner \in [Gens -> Owners] /\ Ns \in [Gens -> Namespaces]
    /\ Chunks \in [Gens -> SUBSET ChunkIds] /\ Size \in [Gens -> Nat]
    /\ Times \subseteq Nat /\ Since \in [Gens -> Nat] /\ Retain \in [Gens -> Nat]
    /\ Shared \subseteq Namespaces
    /\ {Skew, UploadTtl, MonthLength, MaxOwnerUploads, MaxUploads, MaxOwnerGenerations,
        MaxGenerations, MaxOwnerStorage, MaxStorage, MaxOwnerMonthly, MaxMonthly,
        MaxDeletions, MaxRequests, MaxSweeps, MaxFaults} \subseteq Nat
    /\ MonthLength > 0 /\ UploadTtl > 0

VARIABLES
    mem, disk,   \* PersistentState in the mutex and in state.json
    chunks,      \* content objects under chunks/
    requests,    \* requests between two of their sections
    place, holder,  \* finalize inside install_candidate, and for which generation
    files,       \* the generation that a run directory holds, or that there is no
                 \* directory, an empty one, or one with anything else in it
    marker,      \* run directories that carry the scheduler's owner marker
    claim,       \* how far the scheduler is in claiming a directory
    faults,
    \* History, which no action reads:
    late,        \* a write failed after its rename, and none has succeeded since
    torn,        \* publications that such a write left on disk
    missed       \* withdrawn generations whose directory could not be read

control == <<mem, disk, late, torn>>
install == <<place, holder>>
store == <<files, marker>>
vars == <<mem, disk, chunks, requests, place, holder, files, marker,
          claim, faults, late, torn, missed>>

\* The sections of each request after its first, expire_due_publications.
Sections == [
    begin    |-> <<"begin">>,
    finalize |-> <<"finalize">>,
    revoke   |-> <<"revoke", "listOne", "retireOne",
                   "expire", "listAll", "retireAll", "collect">>,
    collect  |-> <<"listAll", "retireAll", "collect">>,
    query    |-> <<"listOne", "retireOne">>]

States == [kill: BOOLEAN, uploads: SUBSET Gens, created: [Gens -> Nat],
           published: SUBSET Gens, tombstones: SUBSET Gens, retirements: SUBSET Gens,
           month: Nat, used: [Owners -> Nat]]

\* What may be left of a collection or a query, and of any request.
SweepTodos == {<<"listAll", "retireAll", "collect">>, <<"retireAll", "collect">>, <<"collect">>,
               <<"listOne", "retireOne">>, <<"retireOne">>}
Todos == SweepTodos \cup
    {<<"begin">>, <<"finalize">>, Sections.revoke,
     <<"listOne", "retireOne", "expire", "listAll", "retireAll", "collect">>,
     <<"retireOne", "expire", "listAll", "retireAll", "collect">>,
     <<"expire", "listAll", "retireAll", "collect">>}

TypeOK ==
    /\ mem \in States /\ disk \in States
    /\ chunks \subseteq ChunkIds
    /\ requests \subseteq [todo: Todos, gen: Gens \cup {NoGen}, now: Times \cup {0},
                         work: SUBSET Gens]
    /\ \A r \in requests : r.gen = NoGen => r.todo \in SweepTodos
    /\ place \in {"free", "rename", "placed", "adopted"} /\ holder \in Gens \cup {NoGen}
    /\ place = "free" <=> holder = NoGen
    /\ files \in [Namespaces -> Gens \cup {"absent", "empty", "other"}]
    /\ marker \subseteq Namespaces
    /\ claim \in [Shared -> {"idle", "made", "checked"}]
    /\ faults \in Nat
    /\ late \in BOOLEAN /\ torn \subseteq Gens /\ missed \subseteq Gens

Init ==
    /\ mem = [kill |-> FALSE, uploads |-> {}, created |-> [g \in Gens |-> 0],
              published |-> {}, tombstones |-> {}, retirements |-> {},
              month |-> 0, used |-> [o \in Owners |-> 0]]
    /\ disk = mem
    /\ chunks = {} /\ requests = {}
    /\ place = "free" /\ holder = NoGen
    /\ files = [n \in Namespaces |-> "absent"] /\ marker = {}
    /\ claim = [n \in Shared |-> "idle"] /\ faults = 0
    /\ late = FALSE /\ torn = {} /\ missed = {}

-----------------------------------------------------------------------------
(* The durable state *)

Fault == faults < MaxFaults /\ faults' = faults + 1
NoFault == UNCHANGED faults

Live(st) == st.uploads \cup st.published \cup st.retirements
Of(owner, set) == {g \in set : Owner[g] = owner}
Bytes(set) == MapThenSumSet(LAMBDA g : Size[g], set)

Expires(st, g) ==
    IF st.created[g] + UploadTtl < Retain[g] THEN st.created[g] + UploadTtl ELSE Retain[g]

\* validate_state
Valid(st) ==
    /\ st.uploads \cap (st.published \cup st.tombstones \cup st.retirements) = {}
    /\ st.published \cap (st.tombstones \cup st.retirements) = {}
    /\ st.retirements \subseteq st.tombstones
    /\ \A g, h \in Live(st) : Ns[g] = Ns[h] => g = h
    /\ \A g \in st.uploads : st.created[g] < Expires(st, g)

\* persist, then the caller's success or its restoration of the memory.  A write
\* that fails leaves the old file, as does a state above max_state_bytes; when the
\* sync of the directory fails, the rename has put the new one in its place.
Write(st) == mem' = st /\ disk' = st /\ late' = FALSE /\ torn' = torn \cap mem.published
Persist(st) == Write(st) /\ NoFault
FailEarly == Fault /\ UNCHANGED control
FailLate(st) ==
    /\ Fault /\ UNCHANGED mem /\ disk' = st /\ late' = TRUE
    /\ torn' = (torn \cap mem.published) \cup (st.published \ mem.published)
PersistFails(st) == FailEarly \/ FailLate(st)

\* require_active and require_publication_time
Active(g, now) ==
    /\ g \in mem.uploads
    /\ mem.created[g] <= now + Skew /\ now < Expires(mem, g) /\ now < Retain[g]
InForce(g, now) == Since[g] <= now /\ now < Retain[g]

\* Mutant: a generation that waits for its removal does not occupy its run.
OccupiedByLive(g) == \E h \in (mem.uploads \cup mem.published) \ {g} : Ns[h] = Ns[g]

\* namespace_is_occupied_by_other_generation
Occupied(g) == \E h \in Live(mem) \ {g} : Ns[h] = Ns[g]

\* check_quotas
HasQuota(g) ==
    LET own == Of(Owner[g], Live(mem))
    IN  /\ Cardinality(Of(Owner[g], mem.uploads)) < MaxOwnerUploads
        /\ Cardinality(mem.uploads) < MaxUploads
        /\ Cardinality(own) < MaxOwnerGenerations
        /\ Cardinality(Live(mem)) < MaxGenerations
        /\ Bytes(own) + Size[g] <= MaxOwnerStorage
        /\ Bytes(Live(mem)) + Size[g] <= MaxStorage

-----------------------------------------------------------------------------
(* Requests and their sections *)

Section(r, name) == r \in requests /\ Head(r.todo) = name /\ place = "free"
Onward(r, todo, work) ==
    (requests \ {r}) \cup
        (IF todo = <<>> THEN {} ELSE {[r EXCEPT !.todo = todo, !.work = work]})
Finish(r) == requests' = requests \ {r}
Become(r, todo, work) == requests' = Onward(r, todo, work)
Advance(r) == Become(r, Tail(r.todo), {})

\* What the operations make of the state: begin, the end of some uploads,
\* finalize, the end of some publications, and a retirement that is done.
Begun(g, now) == [mem EXCEPT !.uploads = @ \cup {g}, !.created[g] = now]
Without(set) ==
    [mem EXCEPT !.uploads = @ \ set,
                !.created = [g \in Gens |-> IF g \in set THEN 0 ELSE @[g]]]
Committed(g) == [Without({g}) EXCEPT !.published = @ \cup {g}]
Withdrawn(set) ==
    [mem EXCEPT !.published = @ \ set, !.tombstones = @ \cup set, !.retirements = @ \cup set]
Dropped(g) == [mem EXCEPT !.retirements = @ \ {g}]

\* expire_due_publications, and the request that goes on, or ends with its error.
ExpireDue(now, onward, ended) ==
    LET due == {g \in mem.published : now >= Retain[g]}
    IN  /\ place = "free"
        /\ \/ due = {} /\ requests' = onward /\ UNCHANGED control /\ NoFault
           \/ due # {} /\ requests' = onward /\ Persist(Withdrawn(due))
           \/ due # {} /\ requests' = ended /\ PersistFails(Withdrawn(due))
        /\ UNCHANGED <<chunks, install, store, claim, missed>>

\* Every request begins with expire_due_publications; begin checks the time of the
\* manifest before that, and what a query reads later is not modelled.
Arrive(op, g, now) ==
    /\ g = NoGen <=> op \in {"collect", "query"}
    /\ LET others == Cardinality({r \in requests : r.gen = NoGen})
       IN  IF g = NoGen THEN others < MaxSweeps
                        ELSE Cardinality(requests) - others < MaxRequests
    /\ op = "begin" => InForce(g, now)
    /\ ExpireDue(now,
          requests \cup {[todo |-> Sections[op], gen |-> g, work |-> {},
                           now |-> IF op = "query" THEN 0 ELSE now]},
          requests)

\* garbage_collect at the end of revoke expires again.
Expire(r) ==
    /\ Section(r, "expire")
    /\ ExpireDue(r.now, Onward(r, Tail(r.todo), {}), requests \ {r})

\* Mutant: a generation that was withdrawn may be uploaded again.
MayBeginAgain(g) ==
    /\ ~mem.kill
    /\ g \notin mem.uploads \cup mem.published \cup mem.retirements
    /\ ~Occupied(g) /\ HasQuota(g)

MayBegin(g) ==
    /\ ~mem.kill
    /\ g \notin mem.tombstones \cup mem.uploads \cup mem.published
    /\ ~Occupied(g) /\ HasQuota(g)

\* Mutant: the memory keeps the upload when the state cannot be written.
BeginUnrestored(r) ==
    /\ Section(r, "begin") /\ Finish(r)
    /\ \/ MayBegin(r.gen) /\ Persist(Begun(r.gen, r.now))
       \/ /\ MayBegin(r.gen) /\ mem' = Begun(r.gen, r.now) /\ Fault
          /\ UNCHANGED <<disk, late, torn>>
       \/ ~MayBegin(r.gen) /\ UNCHANGED control /\ NoFault
    /\ UNCHANGED <<chunks, install, store, claim, missed>>

Begin(r) ==
    /\ Section(r, "begin") /\ Finish(r)
    /\ \/ MayBegin(r.gen) /\ Persist(Begun(r.gen, r.now))
       \/ MayBegin(r.gen) /\ PersistFails(Begun(r.gen, r.now))
       \/ ~MayBegin(r.gen) /\ UNCHANGED control /\ NoFault
    /\ UNCHANGED <<chunks, install, store, claim, missed>>

Revoke(r) ==
    LET may == r.gen \in mem.published /\ InForce(r.gen, r.now)
    IN  /\ Section(r, "revoke")
        /\ \/ may /\ Advance(r) /\ Persist(Withdrawn({r.gen}))
           \/ may /\ Finish(r) /\ PersistFails(Withdrawn({r.gen}))
           \/ ~may /\ Finish(r) /\ UNCHANGED control /\ NoFault
        /\ UNCHANGED <<chunks, install, store, claim, missed>>

-----------------------------------------------------------------------------
(* Requests of one section *)

\* charge_upload: a new month begins with an empty ledger.
Charged(owner, now) ==
    LET month == now \div MonthLength
        used == IF month = mem.month THEN mem.used ELSE [o \in Owners |-> 0]
    IN  [mem EXCEPT !.month = month, !.used = [used EXCEPT ![owner] = @ + 1]]
HasMonthlyQuota(st, owner) ==
    st.used[owner] <= MaxOwnerMonthly /\ MapThenSumSet(LAMBDA o : st.used[o], Owners) <= MaxMonthly

\* upload_chunk: what was charged is not refunded when the object cannot be written.
UploadChunk(g, c, now) ==
    LET charged == Charged(Owner[g], now)
    IN  /\ place = "free" /\ ~mem.kill /\ Active(g, now) /\ c \in Chunks[g]
        /\ HasMonthlyQuota(charged, Owner[g])
        /\ \/ Persist(charged) /\ chunks' = chunks \cup {c}
           \/ Write(charged) /\ Fault /\ UNCHANGED chunks
           \/ PersistFails(charged) /\ UNCHANGED chunks
        /\ UNCHANGED <<requests, install, store, claim, missed>>

\* cancel_upload is allowed at any time and under the kill switch.
CancelUpload(g) ==
    /\ place = "free" /\ g \in mem.uploads
    /\ Persist(Without({g})) \/ PersistFails(Without({g}))
    /\ UNCHANGED <<chunks, requests, install, store, claim, missed>>

SetKillSwitch(engaged) ==
    LET st == [mem EXCEPT !.kill = engaged]
    IN  /\ place = "free"
        /\ Persist(st) \/ PersistFails(st)
        /\ UNCHANGED <<chunks, requests, install, store, claim, missed>>

-----------------------------------------------------------------------------
(* finalize *)

\* The checks before the candidate is built.  A generation that is published
\* already is answered from its record.
MayInstall(g, now) ==
    /\ g \notin mem.published \cup mem.tombstones /\ ~mem.kill
    /\ Active(g, now) /\ Chunks[g] \subseteq chunks

\* The first part of install_candidate: it adopts an exact directory the
\* scheduler does not own, and leaves its lock file in any other one.
Finalize(r) ==
    LET g == r.gen  n == Ns[r.gen]
    IN  /\ Section(r, "finalize") /\ Finish(r)
        /\ \/ /\ MayInstall(g, r.now) /\ NoFault
              /\ \/ /\ files[n] = "absent"
                    /\ place' = "rename" /\ holder' = g /\ UNCHANGED files
                 \/ /\ files[n] = g /\ n \notin marker
                    /\ place' = "adopted" /\ holder' = g /\ UNCHANGED files
                 \/ /\ files[n] \notin {"absent", g} \/ n \in marker
                    /\ files' = IF files[n] = "empty" /\ n \notin marker
                                THEN [files EXCEPT ![n] = "other"] ELSE files
                    /\ UNCHANGED install
           \/ MayInstall(g, r.now) /\ Fault /\ UNCHANGED <<install, files>>
           \/ ~MayInstall(g, r.now) /\ NoFault /\ UNCHANGED <<install, files>>
        /\ UNCHANGED <<control, chunks, marker, claim, missed>>

\* Mutant: the transaction stays registered after its locks are dropped.
ReleaseLocks == place' = "free" /\ UNCHANGED holder

Release == place' = "free" /\ holder' = NoGen

\* The rename into the store replaces an empty directory (rename(2)) and fails on
\* any other; then the bytes are read back.
InstallRename ==
    LET n == Ns[holder]
    IN  /\ place = "rename"
        /\ \/ /\ files[n] \in {"absent", "empty"} /\ n \notin marker
              /\ files' = [files EXCEPT ![n] = holder]
              /\ place' = "placed" /\ UNCHANGED holder /\ NoFault
           \/ /\ files[n] \in {"absent", "empty"} /\ n \notin marker
              /\ files' = [files EXCEPT ![n] = "absent"]
              /\ Release /\ Fault
           \/ /\ files[n] \notin {"absent", "empty"} \/ n \in marker
              /\ Release /\ UNCHANGED files /\ NoFault
        /\ UNCHANGED <<control, chunks, requests, marker, claim, missed>>

\* The state is written last.  When that fails, the memory is restored and the
\* directory, if it was renamed, is moved back and removed; it stays when the
\* rollback fails, too, here and in the destructor of the transaction.
Commit ==
    LET n == Ns[holder]
    IN  /\ place \in {"placed", "adopted"} /\ Release
        /\ \/ Persist(Committed(holder)) /\ UNCHANGED store
           \/ /\ PersistFails(Committed(holder))
              /\ \/ UNCHANGED store
                 \/ /\ place = "placed" /\ marker' = marker \ {n}
                    /\ files' = [files EXCEPT ![n] = "absent"]
        /\ UNCHANGED <<chunks, requests, claim, missed>>

-----------------------------------------------------------------------------
(* drain_retirements and garbage_collect *)

\* The first section notes which retirements this call will try.
List(r, name, limit) ==
    /\ Section(r, name)
    /\ \E work \in SUBSET mem.retirements :
        /\ Cardinality(work) = Min({limit, Cardinality(mem.retirements)})
        /\ Become(r, Tail(IF work = {} THEN Tail(r.todo) ELSE r.todo), work)
    /\ UNCHANGED <<control, chunks, install, store, claim, faults, missed>>

\* retire_if_current: a directory that does not hold the generation, or that the
\* scheduler owns, is left alone.  run.json goes first; the lock file stays.
IsCurrent(g) == files[Ns[g]] = g /\ Ns[g] \notin marker
\* Mutant: a directory locked by a writer counts as retired.
RetireUnlocked(g) ==
    \/ UNCHANGED files
    \/ files' = IF IsCurrent(g) THEN [files EXCEPT ![Ns[g]] = "other"] ELSE files

RetireFiles(g) ==
    files' = IF IsCurrent(g) THEN [files EXCEPT ![Ns[g]] = "other"] ELSE files

\* A directory that cannot be looked at, opened or validated is taken for another.
Unreadable(g) == IsCurrent(g) /\ UNCHANGED files /\ missed' = missed \cup {g}

\* One retirement, tried in a section of its own.  A failed removal, or a lock held
\* by a writer, leaves the work item; an error of persist ends the drain, and with
\* it a collection.
Retire(r, name) ==
    /\ Section(r, name)
    /\ \E g \in r.work :
        LET next == IF r.work = {g} THEN Tail(r.todo) ELSE r.todo
            stop == IF name = "retireOne" THEN Tail(r.todo) ELSE <<>>
        IN  \/ /\ g \notin mem.retirements
               /\ Become(r, next, r.work \ {g})
               /\ UNCHANGED <<control, files, missed>> /\ NoFault
            \/ /\ g \in mem.retirements /\ ~Occupied(g)
               /\ Become(r, next, r.work \ {g})
               /\ \/ RetireFiles(g) /\ Persist(Dropped(g)) /\ UNCHANGED missed
                  \/ Unreadable(g) /\ Write(Dropped(g)) /\ Fault
                  \/ /\ IsCurrent(g) /\ FailEarly /\ UNCHANGED missed
                     /\ UNCHANGED files \/ RetireFiles(g)
            \/ /\ g \in mem.retirements /\ ~Occupied(g)
               /\ Become(r, stop, {}) /\ PersistFails(Dropped(g))
               /\ \/ RetireFiles(g) /\ UNCHANGED missed
                  \/ Unreadable(g)
            \/ /\ g \in mem.retirements /\ Occupied(g)
               /\ Become(r, stop, {}) /\ UNCHANGED <<control, files, missed>> /\ NoFault
    /\ UNCHANGED <<chunks, install, marker, claim>>

\* Mutant: only uploads keep their chunks.
ReferencedByUploads(st) == UNION {Chunks[g] : g \in st.uploads}

\* referenced_chunks
Referenced(st) == UNION {Chunks[g] : g \in st.uploads \cup st.published}

\* The last section of garbage_collect.  It does not restore the memory when the
\* state cannot be written.  Its deletions stop at a limit or at an error.
Collect(r) ==
    LET expired == {g \in mem.uploads : r.now >= Expires(mem, g)}
        st == Without(expired)
    IN  /\ Section(r, "collect") /\ Finish(r)
        /\ \/ /\ expired # {} /\ Fault /\ UNCHANGED chunks
              /\ \/ mem' = st /\ UNCHANGED <<disk, late, torn>>
                 \/ Write(st)
           \/ /\ IF expired = {} THEN UNCHANGED control /\ NoFault ELSE Persist(st)
              /\ \E gone \in SUBSET (chunks \ Referenced(st)) : chunks' = chunks \ gone
        /\ UNCHANGED <<install, store, claim, missed>>

-----------------------------------------------------------------------------
(* The scheduler's claim and its retention *)

Claim(n, from, to) == claim[n] = from /\ claim' = [claim EXCEPT ![n] = to]

\* ensure_owner_marker: the directory is created if there is none ...
ClaimCreate(n) ==
    /\ Claim(n, "idle", "made")
    /\ files' = IF files[n] = "absent" THEN [files EXCEPT ![n] = "empty"] ELSE files
    /\ UNCHANGED <<control, chunks, requests, install, marker, faults, missed>>

\* ... is the scheduler's if it carries the marker, and is refused if it is not empty ...
ClaimCheck(n) ==
    /\ \/ n \notin marker /\ files[n] = "empty" /\ Claim(n, "made", "checked")
       \/ (n \in marker \/ files[n] # "empty") /\ Claim(n, "made", "idle")
    /\ UNCHANGED <<control, chunks, requests, install, store, faults, missed>>

\* ... and is marked, by its path, and filled.
ClaimMark(n) ==
    /\ Claim(n, "checked", "idle")
    /\ marker' = IF files[n] = "absent" THEN marker ELSE marker \cup {n}
    /\ files' = IF files[n] = "empty" THEN [files EXCEPT ![n] = "other"] ELSE files
    /\ UNCHANGED <<control, chunks, requests, install, faults, missed>>

\* A crash of the scheduler, also between the temporary file and the marker.
ClaimCrash(n) ==
    /\ claim[n] # "idle" /\ claim' = [claim EXCEPT ![n] = "idle"] /\ Fault
    /\ \/ UNCHANGED files
       \/ claim[n] = "checked" /\ files[n] = "empty" /\ files' = [files EXCEPT ![n] = "other"]
    /\ UNCHANGED <<control, chunks, requests, install, marker, missed>>

\* execute_retention: under the writer lock, which an adoption holds as well.
Retention(n) ==
    /\ claim[n] = "idle" /\ n \in marker /\ files[n] # "absent"
    /\ ~(place = "adopted" /\ Ns[holder] = n)
    /\ files' = [files EXCEPT ![n] = "absent"] /\ marker' = marker \ {n}
    /\ UNCHANGED <<control, chunks, requests, install, claim, faults, missed>>

Scheduler ==
    \E n \in Shared : \/ ClaimCreate(n) \/ ClaimCheck(n) \/ ClaimMark(n)
                      \/ ClaimCrash(n) \/ Retention(n)

-----------------------------------------------------------------------------
\* The service stops anywhere and is opened again on what is on disk.
Crash ==
    /\ Fault /\ mem' = disk /\ late' = FALSE /\ requests' = {} /\ Release
    /\ UNCHANGED <<disk, chunks, store, claim, torn, missed>>

Request(r) ==
    \/ Expire(r) \/ Begin(r) \/ Revoke(r) \/ Finalize(r) \/ Collect(r)
    \/ List(r, "listOne", 1) \/ List(r, "listAll", MaxDeletions)
    \/ Retire(r, "retireOne") \/ Retire(r, "retireAll")

Next ==
    \/ \E op \in DOMAIN Sections, g \in Gens \cup {NoGen}, now \in Times : Arrive(op, g, now)
    \/ \E r \in requests : Request(r)
    \/ \E g \in Gens, c \in ChunkIds, now \in Times : UploadChunk(g, c, now)
    \/ \E g \in Gens : CancelUpload(g)
    \/ \E engaged \in BOOLEAN : SetKillSwitch(engaged)
    \/ InstallRename \/ Commit \/ Crash \/ Scheduler

Spec == Init /\ [][Next]_vars

-----------------------------------------------------------------------------
(* Properties *)

\* Both copies of the state pass validate_state and the count that `open` checks:
\* persist refuses nothing that an operation made but a state that is too large,
\* and the service can be opened again after a crash at any point.
StateValid ==
    /\ Valid(mem) /\ Cardinality(Live(mem)) <= MaxGenerations
    /\ Valid(disk) /\ Cardinality(Live(disk)) <= MaxGenerations

\* The rights in a generation, in the memory as its owner and its readers see them.
PhaseOf(st) ==
    [g \in Gens |-> IF g \in st.uploads THEN "uploading"
                   ELSE IF g \in st.published THEN "published"
                   ELSE IF g \in st.retirements THEN "retiring"
                   ELSE IF g \in st.tombstones THEN "retired" ELSE "none"]
Phase == PhaseOf(mem)
Rights == INSTANCE GenerationRights WITH phase <- Phase

\* The restorations after a failed write keep the memory from running ahead of the
\* disk.  While no write has failed after its rename, the memory is the disk but for
\* expired uploads, which only the memory may have lost.  After such a failure the
\* disk may be ahead, by the one move of a generation that was reported as failed.
MemoryIsDurable ==
    /\ \/ late
       \/ /\ mem.uploads \subseteq disk.uploads
          /\ \A g \in mem.uploads : mem.created[g] = disk.created[g]
          /\ \A field \in {"kill", "published", "tombstones", "retirements", "month", "used"} :
                mem[field] = disk[field]
    /\ \A g \in Gens : \/ Phase[g] = PhaseOf(disk)[g]
                       \/ <<Phase[g], PhaseOf(disk)[g]>> \in Rights!Moves

\* A published generation keeps every chunk it was built from, whatever is
\* collected around it; but not if its publication was reported as failed, and a
\* restart found it on disk.
PublicationsBacked ==
    \A g \in (mem.published \cup disk.published) \ torn : Chunks[g] \subseteq chunks

\* When the work item of a withdrawn generation is gone, from the memory or from the
\* disk, so is the generation: the store does not show its run any more, unless the
\* scheduler owns the directory, or the directory could not be read.
RetirementComplete ==
    \A st \in {mem, disk} : \A g \in (st.tombstones \ st.retirements) \ missed :
        files[Ns[g]] = g => Ns[g] \in marker

\* The service implements GenerationRights: through failed writes, crashes and a
\* clock set back, a generation that was withdrawn never has rights again, and no
\* run directory has two claims.
RightsKept == Rights!Spec

\* The scheduler's marker is never in the directory of a published generation
\* (docs/GENERATION_REPLICATION.md:110, retention.rs:391).
OneAuthority == \A g \in mem.published : Ns[g] \notin marker

=============================================================================
