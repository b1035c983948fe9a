-------------------------------- MODULE Relay --------------------------------
(***************************************************************************)
(* The community relay: the RelayCoordinator of                            *)
(* rw-community-relay/src/control.rs, its route registry (route.rs), and    *)
(* the broker of the server around them (rw-server/src/community_relay.rs).*)
(*                                                                         *)
(* Each call holds the broker's one mutex throughout, and is one action     *)
(* here.  What makes it hard is what survives it: a call changes the memory *)
(* first and then writes a snapshot, and some calls end without writing     *)
(* one; the write may fail, the process may stop, the month may end, and    *)
(* the clock may be set back.                                              *)
(*                                                                         *)
(* The credentials of a session are known by its identifier and a role.     *)
(* revoked_credentials is left out: it names sessions that are not pending, *)
(* and verify_active_credential asks for a pending session as well.         *)
(***************************************************************************)
EXTENDS Integers, FiniteSets, FiniteSetsExt

CONSTANTS
    Users, Objects,
    Size, Retained,        \* of an object: its bytes, and when its manifest expires
    Times, MonthLength, Lifetime,
    UploadQuota, DownloadQuota, StorageQuota, Concurrency,   \* of a user
    GlobalConcurrency, GlobalQuota, CostStop,
    PromoteCount, PromoteBytes,
    ConfigKill,            \* the kill switch of the configuration
    MaxSessions, MaxFaults \* bounds: sessions ever issued, and failures

ASSUME RelayAssumption ==
    /\ IsFiniteSet(Users) /\ IsFiniteSet(Objects)
    /\ Size \in [Objects -> Nat \ {0}] /\ Retained \in [Objects -> Nat]
    /\ Times \subseteq Nat /\ ConfigKill \in BOOLEAN
    /\ {MonthLength, Lifetime, PromoteCount, PromoteBytes} \subseteq Nat \ {0}
    /\ {UploadQuota, DownloadQuota, StorageQuota, Concurrency, GlobalConcurrency,
        GlobalQuota, CostStop, MaxSessions, MaxFaults} \subseteq Nat

Roles == {"uploader", "downloader"}

VARIABLES
    mem, disk,    \* the coordinator, and the snapshot in the state file
    healthy,      \* persistence_healthy
    dispatches,   \* grants that wait for their participant
    routes,       \* routes that participants registered
    promoted,     \* promotion signals that were delivered, by object
    issued, seen, \* sessions issued so far; the latest time read so far
    faults

transient == <<healthy, dispatches, routes>>
vars == <<mem, disk, healthy, dispatches, routes, promoted, issued, seen, faults>>

Sessions == [id: 1 .. MaxSessions, object: Objects, up: Users, down: Users,
             expires: Nat, done: SUBSET Roles]
Usages == [uploaded: Nat, downloaded: Nat, reservedUp: Nat, reservedDown: Nat,
           activeUp: Nat, activeDown: Nat, storage: Nat]
Snapshots == [kill: BOOLEAN, period: Nat, usage: [Users -> Usages], relayed: Nat, reserved: Nat,
              seeds: SUBSET (Users \X Objects), pending: SUBSET Sessions,
              recoveries: [Objects -> Nat], emitted: SUBSET Objects]
Keys == [id: 1 .. MaxSessions, role: Roles, expires: Nat]

TypeOK ==
    /\ mem \in Snapshots /\ disk \in Snapshots
    /\ \A s, t \in mem.pending : s.id = t.id => s = t
    /\ healthy \in BOOLEAN
    /\ dispatches \subseteq Keys /\ routes \subseteq Keys
    /\ promoted \in [Objects -> Nat]
    /\ issued \in 0 .. MaxSessions /\ seen \in Nat /\ faults \in Nat

Fresh ==
    [kill |-> ConfigKill, period |-> 0,
     usage |-> [u \in Users |-> [uploaded |-> 0, downloaded |-> 0, reservedUp |-> 0, reservedDown |-> 0,
                                 activeUp |-> 0, activeDown |-> 0, storage |-> 0]],
     relayed |-> 0, reserved |-> 0, seeds |-> {}, pending |-> {},
     recoveries |-> [o \in Objects |-> 0], emitted |-> {}]

Init ==
    /\ mem = Fresh /\ disk = Fresh /\ healthy = TRUE
    /\ dispatches = {} /\ routes = {} /\ promoted = [o \in Objects |-> 0]
    /\ issued = 0 /\ seen = 0 /\ faults = 0

-----------------------------------------------------------------------------
(* The ledger *)

Period(now) == now \div MonthLength
Less(a, b) == IF a > b THEN a - b ELSE 0
Bytes(set) == MapThenSumSet(LAMBDA s : Size[s.object], set)
UpOf(set, u) == {s \in set : s.up = u}
DownOf(set, u) == {s \in set : s.down = u}
StorageOf(seeds, u) == MapThenSumSet(LAMBDA e : Size[e[2]], {e \in seeds : e[1] = u})

\* release_reservation
Freed(use, up, down) ==
    [use EXCEPT !.reservedUp = Less(@, Bytes(up)), !.activeUp = Less(@, Cardinality(up)),
                !.reservedDown = Less(@, Bytes(down)), !.activeDown = Less(@, Cardinality(down))]
Released(st, set) ==
    [st EXCEPT !.reserved = Less(@, Bytes(set)),
               !.usage = [u \in Users |-> Freed(@[u], UpOf(set, u), DownOf(set, u))]]

\* commit_reserved_session, for sessions that are not pending any more: each is
\* charged in full, however it ended.
Spent(use, up, down) == [use EXCEPT !.uploaded = @ + Bytes(up), !.downloaded = @ + Bytes(down)]
Closed(st, set) ==
    IF set = {} THEN st
    ELSE [Released(st, set) EXCEPT
            !.pending = @ \ set,
            !.relayed = @ + Bytes(set),
            !.usage = [u \in Users |-> Spent(@[u], UpOf(set, u), DownOf(set, u))]]

\* reap_expired_sessions
Reaped(st, now) == Closed(st, {s \in st.pending : s.expires <= now})

\* remove_expired
Dropped(use, b) == [use EXCEPT !.storage = Less(@, b)]
Trimmed(st, now) ==
    LET old == {e \in st.seeds : Retained[e[2]] <= now}
    IN  IF old = {} THEN st
        ELSE [st EXCEPT !.seeds = @ \ old,
                        !.usage = [u \in Users |-> Dropped(@[u], StorageOf(old, u))]]

\* Mutant: a new month erases the reservations of open sessions, too.
ResetReserved(use) ==
    [use EXCEPT !.uploaded = 0, !.downloaded = 0, !.reservedUp = 0, !.reservedDown = 0]

\* roll_period: the month never goes back, and reservations outlive it.
Reset(use) == [use EXCEPT !.uploaded = 0, !.downloaded = 0]
Rolled(st, period) ==
    IF period <= st.period THEN st
    ELSE [st EXCEPT !.period = period, !.relayed = 0, !.usage = [u \in Users |-> Reset(@[u])]]

\* admission_gate, after it rolled the period
Admits(st) == ~st.kill /\ st.relayed + st.reserved < CostStop

\* reserve
MayReserve(st, up, down, b) ==
    /\ st.usage[up].activeUp < Concurrency /\ st.usage[down].activeDown < Concurrency
    /\ Cardinality(st.pending) < GlobalConcurrency
    /\ st.usage[up].uploaded + st.usage[up].reservedUp + b <= UploadQuota
    /\ st.usage[down].downloaded + st.usage[down].reservedDown + b <= DownloadQuota
    /\ st.relayed + st.reserved + b <= GlobalQuota
    /\ st.relayed + st.reserved + b <= CostStop
HeldUp(use, b) == [use EXCEPT !.reservedUp = @ + b, !.activeUp = @ + 1]
HeldDown(use, b) == [use EXCEPT !.reservedDown = @ + b, !.activeDown = @ + 1]
Reserved(st, up, down, b) ==
    [st EXCEPT !.reserved = @ + b,
               !.usage = [st.usage EXCEPT ![up] = HeldUp(@, b), ![down] = HeldDown(@, b)]]

\* set_kill_switch
Killed(st) == [Closed(st, st.pending) EXCEPT !.kill = TRUE]
Switched(st, on) == IF on THEN Killed(st) ELSE [st EXCEPT !.kill = FALSE]

-----------------------------------------------------------------------------
(* The snapshot *)

\* What restore_persistence_json asks of the sessions, quotas and reservations ...
TransfersAccepted(st) ==
    /\ Cardinality(st.pending) <= GlobalConcurrency
    /\ st.reserved = Bytes(st.pending)
    /\ st.relayed + st.reserved <= GlobalQuota /\ st.relayed + st.reserved <= CostStop
    /\ \A u \in Users :
        LET use == st.usage[u]
        IN  /\ use.reservedUp = Bytes(UpOf(st.pending, u))
            /\ use.reservedDown = Bytes(DownOf(st.pending, u))
            /\ use.activeUp = Cardinality(UpOf(st.pending, u)) /\ use.activeUp <= Concurrency
            /\ use.activeDown = Cardinality(DownOf(st.pending, u)) /\ use.activeDown <= Concurrency
            /\ use.uploaded + use.reservedUp <= UploadQuota
            /\ use.downloaded + use.reservedDown <= DownloadQuota
\* ... and of the advertisements
StorageAccepted(st) ==
    \A u \in Users : st.usage[u].storage = StorageOf(st.seeds, u) /\ st.usage[u].storage <= StorageQuota

\* Mutant: the sessions of the last process are dropped, not charged for.
RestoredForgiving(st, now) ==
    LET left == [Rolled(Released(st, st.pending), Period(now)) EXCEPT !.pending = {}]
    IN  Trimmed(left, now)

\* restore_persistence_json, after those checks: no session is resumed, each is
\* charged in full in the current month.
Restored(st, now) == Trimmed(Closed(Rolled(st, Period(now)), st.pending), now)

Fault == faults < MaxFaults /\ faults' = faults + 1
NoFault == UNCHANGED faults

\* Mutant: a failed write is only reported.
PersistOrReport(st, grants, open, signal) ==
    \/ /\ mem' = st /\ disk' = st /\ healthy' = TRUE /\ NoFault
       /\ dispatches' = grants /\ routes' = open
       /\ promoted' = [o \in Objects |-> promoted[o] + (IF o \in signal THEN 1 ELSE 0)]
    \/ /\ mem' = st /\ UNCHANGED <<disk, dispatches, routes, promoted>> /\ healthy' = FALSE /\ Fault

\* persist_or_kill, and what the call does after it: a failed write stops the relay,
\* and that is written if it can be.  A write that fails in the sync of its directory
\* has replaced the file.
PersistOrKill(st, grants, open, signal) ==
    \/ /\ mem' = st /\ disk' = st /\ healthy' = TRUE /\ NoFault
       /\ dispatches' = grants /\ routes' = open
       /\ promoted' = [o \in Objects |-> promoted[o] + (IF o \in signal THEN 1 ELSE 0)]
    \/ /\ Fault
       /\ \/ disk' = Killed(st) /\ healthy' = TRUE
          \/ disk' \in {disk, st, Killed(st)} /\ healthy' = FALSE
       /\ mem' = Killed(st) /\ dispatches' = {} /\ routes' = {} /\ UNCHANGED promoted

\* A call that ends without a snapshot.
Unsaved(st) == mem' = st /\ NoFault /\ UNCHANGED <<disk, transient, promoted, issued>>

-----------------------------------------------------------------------------
(* The calls *)

Clock(now) == seen' = IF now > seen THEN now ELSE seen
Key(s, role) == [id |-> s.id, role |-> role, expires |-> s.expires]
Other(set, id) == {k \in set : k.id # id}

\* advertise: it returns on the gate, the manifest, the seed's policy or the storage
\* quota.  The storage is counted before an identifier is drawn; a failing OsRng
\* panics there and leaves the mutex poisoned, so that only a restart is left.  A
\* random identifier that another advertisement has is left out.
Advertise(u, o, now) ==
    LET st == Rolled(Reaped(mem, now), Period(now))
        again == <<u, o>> \in st.seeds
        more == IF again THEN st ELSE [st EXCEPT !.usage[u].storage = @ + Size[o]]
    IN  /\ Clock(now) /\ UNCHANGED issued
        /\ \/ Unsaved(st)    \* refused: some manifest or policy always can be
           \/ /\ Admits(st) /\ now < Retained[o]
              /\ again \/ more.usage[u].storage <= StorageQuota
              /\ PersistOrKill([more EXCEPT !.seeds = @ \cup {<<u, o>>}], dispatches, routes, {})

\* select_seed: the first advertisement, by a random identifier, with quota left.
Selectable(st, o, down) ==
    {u \in Users \ {down} : /\ <<u, o>> \in st.seeds
                            /\ st.usage[u].activeUp < Concurrency
                            /\ st.usage[u].uploaded + st.usage[u].reservedUp + Size[o] <= UploadQuota}

\* issue_session fails: an identifier, or the provider's credentials.
Unissued(st, up, down, o) ==
    Released(Reserved(st, up, down, Size[o]),
             {[id |-> 0, object |-> o, up |-> up, down |-> down, expires |-> 0, done |-> {}]})

\* Mutant: the identifier of a pending session is accepted again.
UsedId == Max({1, issued})

\* A drawn identifier that a pending session has is refused.
NewId == issued + 1

\* historical_lookup and begin_cold_lookup.  Every fallback leaves what was reaped,
\* rolled and removed in memory only; a session is written before it is dispatched.
Lookup(down, o, now) ==
    LET st == Rolled(Reaped(mem, now), Period(now))
        ready == Trimmed(st, now)
    IN  /\ Clock(now)
        /\ \/ ~Admits(st) /\ Unsaved(st)
           \/ Admits(st) /\ Unsaved(ready)    \* no seed or no quota, or the requester's policy
           \/ \E up \in Selectable(ready, o, down) :
                LET s == [id |-> NewId, object |-> o, up |-> up, down |-> down,
                          expires |-> now + Lifetime, done |-> {}]
                    next == [Reserved(ready, up, down, Size[o]) EXCEPT !.pending = @ \cup {s}]
                IN  /\ Admits(st) /\ MayReserve(ready, up, down, Size[o])
                    /\ \/ Unsaved(Unissued(ready, up, down, o))
                       \/ /\ issued < MaxSessions /\ issued' = issued + 1
                          /\ PersistOrKill(next, dispatches \cup {Key(s, role) : role \in Roles},
                                           routes, {})

\* authorize_participant: the session is pending and its credential has not expired.
Authorized(s, now) == s \in mem.pending /\ now < s.expires

\* transport_grant, and a registration that is refused: the registry is reaped.
TransportGrant(now) ==
    /\ Clock(now) /\ routes' = {k \in routes : k.expires > now}
    /\ NoFault /\ UNCHANGED <<mem, disk, healthy, dispatches, promoted, issued>>

\* register_route: it reaps the registry, takes a role once, and the grant is
\* no longer offered.
RegisterRoute(s, role, now) ==
    LET kept == {k \in routes : k.expires > now}
    IN  /\ Authorized(s, now) /\ Key(s, role) \notin kept /\ Clock(now)
        /\ routes' = kept \cup {Key(s, role)} /\ dispatches' = dispatches \ {Key(s, role)}
        /\ NoFault /\ UNCHANGED <<mem, disk, healthy, promoted, issued>>

Popular(o, n) == n >= PromoteCount \/ n * Size[o] >= PromoteBytes

\* Mutant: the promotion is not remembered.
RecoveredAnew(st, o) ==
    LET n == st.recoveries[o] + 1
    IN  [st EXCEPT !.recoveries[o] = n]

\* finish_removed_session for a complete transfer
Recovered(st, o) ==
    LET n == st.recoveries[o] + 1
    IN  [st EXCEPT !.recoveries[o] = n,
                   !.emitted = IF Popular(o, n) THEN @ \cup {o} ELSE @]
Signal(st, o) == IF o \notin st.emitted /\ Popular(o, st.recoveries[o] + 1) THEN {o} ELSE {}

\* complete: a report of another size only rolls the period; the second role's report
\* ends the session.
Complete(s, role, now) ==
    LET st == Rolled(mem, Period(now))
        said == [s EXCEPT !.done = @ \cup {role}]
        noted == [st EXCEPT !.pending = (@ \ {s}) \cup {said}]
    IN  /\ Authorized(s, now) /\ Clock(now) /\ UNCHANGED issued
        /\ \/ Unsaved(st)
           \/ said.done # Roles /\ PersistOrKill(noted, dispatches, routes, {})
           \/ /\ said.done = Roles
              /\ PersistOrKill(Recovered(Closed(st, {s}), s.object), Other(dispatches, s.id),
                               Other(routes, s.id), Signal(st, s.object))

\* Mutant: a session that failed keeps its grants on offer.
FailKeepsGrants(s, now) ==
    /\ Authorized(s, now) /\ Clock(now) /\ UNCHANGED issued
    /\ PersistOrKill(Closed(Rolled(mem, Period(now)), {s}), dispatches, Other(routes, s.id), {})

\* fail_or_revoke
FailOrRevoke(s, now) ==
    /\ Authorized(s, now) /\ Clock(now) /\ UNCHANGED issued
    /\ PersistOrKill(Closed(Rolled(mem, Period(now)), {s}), Other(dispatches, s.id),
                     Other(routes, s.id), {})

\* The operator's kill switch.
SetKillSwitch(on) ==
    /\ PersistOrKill(Switched(mem, on), IF on THEN {} ELSE dispatches, {}, {})
    /\ UNCHANGED <<issued, seen>>

\* The process stops and starts again; a snapshot that is not accepted, or that is
\* of a later month, keeps it from starting.
Restart(now) ==
    LET st == Restored(disk, now)
        next == IF ConfigKill THEN Killed(st) ELSE st
    IN  /\ NoFault /\ disk.period <= Period(now)
        /\ TransfersAccepted(disk) /\ StorageAccepted(disk)
        /\ mem' = next /\ disk' = next /\ healthy' = TRUE
        /\ dispatches' = {} /\ routes' = {} /\ Clock(now) /\ UNCHANGED <<promoted, issued>>

Next ==
    \/ \E now \in Times :
        \/ \E u \in Users, o \in Objects : Advertise(u, o, now) \/ Lookup(u, o, now)
        \/ \E s \in mem.pending :
             \/ FailOrRevoke(s, now)
             \/ \E role \in Roles : RegisterRoute(s, role, now) \/ Complete(s, role, now)
        \/ TransportGrant(now) \/ Restart(now)
    \/ \E on \in BOOLEAN : SetKillSwitch(on)

Spec == Init /\ [][Next]_vars

-----------------------------------------------------------------------------
(* Properties *)

\* Through months that end while sessions are open, failed writes and restarts, the
\* ledger in memory and in the file stays what restore_persistence_json accepts: each
\* reservation belongs to a pending session, each counted byte of storage to an
\* advertisement, and no quota is passed.
LedgerAccepted == \A st \in {mem, disk} : TransfersAccepted(st) /\ StorageAccepted(st)

\* While writes succeed, a restart in the current month charges every user, and the
\* relay, with at least what the memory counts as used or reserved, keeps the kill
\* switch, and knows what was promoted.
RestartForgetsNothing ==
    healthy =>
        LET st == Restored(disk, mem.period * MonthLength)
        IN  /\ st.kill = mem.kill /\ st.emitted = mem.emitted /\ st.recoveries = mem.recoveries
            /\ st.relayed >= mem.relayed + mem.reserved
            /\ \A u \in Users :
                /\ st.usage[u].uploaded >= mem.usage[u].uploaded + mem.usage[u].reservedUp
                /\ st.usage[u].downloaded >= mem.usage[u].downloaded + mem.usage[u].reservedDown

\* No object is promoted twice, whatever was lost between two recoveries.
PromotedOnce == \A o \in Objects : promoted[o] <= 1

\* When neither the snapshot nor the stop could be written, nothing is granted any
\* more, and no grant that was made is still usable.
UnhealthyIsStopped == ~healthy => mem.kill /\ mem.pending = {} /\ dispatches = {} /\ routes = {}

\* A grant on offer, or a registered route, is of a pending session, unless the
\* session's time is over.
DispatchesLive ==
    \A k \in dispatches \cup routes :
        (\E s \in mem.pending : s.id = k.id /\ s.expires = k.expires) \/ k.expires <= seen

=============================================================================
