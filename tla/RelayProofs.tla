----------------------------- MODULE RelayProofs -----------------------------
(***************************************************************************)
(* Proofs about Relay, for any users, objects, quotas, times and faults.    *)
(*                                                                         *)
(* The first inductive invariant adds to the properties about promotions,   *)
(* stops and dispatches what a restart needs: what was promoted is          *)
(* remembered in the state file as well.  The second is about the ledger:   *)
(* both copies are sound and, while the service is healthy, what the one in *)
(* memory charges is charged again after a restart from the other.          *)
(*                                                                         *)
(* How a call changes the coordinator is stated once per operator of the    *)
(* ledger (RelayLedgerProofs); a call then ends in one of two ways, with a  *)
(* snapshot (PersistedOK, PersistedLedger) or without one (UnsavedOK,       *)
(* UnsavedLedger).                                                         *)
(***************************************************************************)
EXTENDS RelayLedgerProofs

Live(keys, set, t) ==
    \A k \in keys : (\E s \in set : s.id = k.id /\ s.expires = k.expires) \/ k.expires <= t

Promotions ==
    /\ promoted \in [Objects -> {0, 1}]
    /\ \A o \in Objects : promoted[o] = 1 => o \in mem.emitted /\ o \in disk.emitted

Inv ==
    /\ Shape(mem) /\ Shape(disk) /\ mem.pending \subseteq Sessions
    /\ dispatches \subseteq Keys /\ routes \subseteq Keys
    /\ seen \in Nat /\ issued \in Nat
    /\ Promotions
    /\ UnhealthyIsStopped
    /\ Live(dispatches \cup routes, mem.pending, seen)

-----------------------------------------------------------------------------
(* The two ways in which a call ends *)

LEMMA UnsavedOK ==
    ASSUME Inv, NEW st, Follows(st, mem), st.pending \subseteq mem.pending,
           Live(dispatches \cup routes, st.pending, seen'),
           seen' \in Nat, issued' \in Nat,
           mem' = st, UNCHANGED <<disk, healthy, dispatches, routes, promoted>>
    PROVE  Inv'
<1>1. Promotions'
  BY DEF Inv, Promotions, Follows
<1>2. UnhealthyIsStopped'
  BY DEF Inv, UnhealthyIsStopped, Follows
<1> QED BY <1>1, <1>2 DEF Inv, Follows, Live

LEMMA PersistedOK ==
    ASSUME Inv, NEW st, NEW grants, NEW open, NEW signal,
           Shape(st), st.pending \subseteq Sessions, mem.emitted \subseteq st.emitted,
           signal \subseteq st.emitted \ mem.emitted,
           grants \subseteq Keys, open \subseteq Keys,
           Live(grants \cup open, st.pending, seen'),
           seen' \in Nat, issued' \in Nat,
           PersistOrKill(st, grants, open, signal)
    PROVE  Inv'
<1>1. CASE /\ mem' = st /\ disk' = st /\ healthy' = TRUE
           /\ dispatches' = grants /\ routes' = open
           /\ promoted' = [o \in Objects |-> promoted[o] + (IF o \in signal THEN 1 ELSE 0)]
  <2>1. Promotions'
    <3>1. \A o \in Objects : promoted[o] \in {0, 1} /\ (promoted[o] = 1 => o \in mem.emitted)
      BY DEF Inv, Promotions
    <3>2. ASSUME NEW o \in Objects
          PROVE  promoted'[o] \in {0, 1} /\ (promoted'[o] = 1 => o \in st.emitted)
      BY <1>1, <3>1
    <3>3. promoted' \in [Objects -> {0, 1}]
      BY <1>1, <3>2
    <3> QED BY <1>1, <3>2, <3>3 DEF Promotions
  <2>2. UnhealthyIsStopped'
    BY <1>1 DEF UnhealthyIsStopped
  <2>3. Live(dispatches' \cup routes', mem'.pending, seen')
    BY <1>1
  <2> QED BY <1>1, <2>1, <2>2, <2>3 DEF Inv, Live
<1>2. CASE /\ mem' = Killed(st) /\ dispatches' = {} /\ routes' = {} /\ promoted' = promoted
           /\ disk' \in {disk, st, Killed(st)}
  <2>1. /\ Shape(Killed(st)) /\ Killed(st).emitted = st.emitted
        /\ Killed(st).kill = TRUE /\ Killed(st).pending = {}
    BY Zenon, KilledFields
  <2>2. Shape(disk') /\ (disk'.emitted = disk.emitted \/ disk'.emitted = st.emitted)
    BY <1>2, <2>1 DEF Inv
  <2>3. Promotions'
    BY <1>2, <2>1, <2>2 DEF Inv, Promotions
  <2>4. UnhealthyIsStopped'
    BY <1>2, <2>1 DEF UnhealthyIsStopped
  <2> QED BY <1>2, <2>1, <2>2, <2>3, <2>4 DEF Inv, Live
<1> QED BY Zenon, <1>1, <1>2 DEF PersistOrKill

-----------------------------------------------------------------------------
(* Initialisation *)

LEMMA InvInit == Init => Inv
<1> SUFFICES ASSUME Init PROVE Inv
  OBVIOUS
<1>1. Shape(Fresh) /\ Fresh.pending = {}
  BY DEF Shape, Fields, Fresh
<1>2. Promotions
  BY DEF Init, Promotions
<1> QED BY <1>1, <1>2 DEF Init, Inv, UnhealthyIsStopped, Live

-----------------------------------------------------------------------------
(* One lemma per call *)

\* Keys stay live when what was closed had expired.
LEMMA LiveReady ==
    ASSUME Inv, NEW now \in Times, Clock(now)
    PROVE  /\ seen' \in Nat
           /\ Live(dispatches \cup routes, {s \in mem.pending : ~(s.expires <= now)}, seen')
<1>1. seen' \in Nat /\ seen <= seen' /\ now <= seen'
  BY RelayAssumption DEF Inv, Clock
<1>2. ASSUME NEW k \in dispatches \cup routes
      PROVE  \/ \E s \in {s \in mem.pending : ~(s.expires <= now)} :
                    s.id = k.id /\ s.expires = k.expires
             \/ k.expires <= seen'
  <2>1. k.expires \in Nat /\ now \in Nat /\ seen \in Nat
    BY RelayAssumption DEF Inv, Keys
  <2>2. CASE k.expires <= seen
    BY <1>1, <2>1, <2>2
  <2>3. CASE \E s \in mem.pending : s.id = k.id /\ s.expires = k.expires
    <3>1. PICK s \in mem.pending : s.id = k.id /\ s.expires = k.expires
      BY <2>3
    <3>2. CASE s.expires <= now
      BY <3>1, <3>2, <1>1, <2>1
    <3>3. CASE ~(s.expires <= now)
      BY <3>1, <3>3
    <3> QED BY <3>2, <3>3
  <2> QED BY <2>2, <2>3 DEF Inv, Live
<1> QED BY <1>1, <1>2 DEF Live

LEMMA AdvertiseOK ==
    ASSUME Inv, NEW u \in Users, NEW o \in Objects, NEW now \in Times, Advertise(u, o, now)
    PROVE  Inv'
<1> DEFINE st == Rolled(Reaped(mem, now), Period(now))
           more == IF <<u, o>> \in st.seeds THEN st
                   ELSE [st EXCEPT !.usage[u].storage = @ + Size[o]]
           next == [more EXCEPT !.seeds = @ \cup {<<u, o>>}]
<1>1. Follows(st, mem) /\ st.pending = {s \in mem.pending : ~(s.expires <= now)}
  BY SMTT(30), ReadyFields DEF Inv
<1>2. seen' \in Nat /\ Live(dispatches \cup routes, st.pending, seen') /\ issued' \in Nat
  BY Zenon, <1>1, LiveReady DEF Advertise, Inv
<1>3. \/ Unsaved(st)
      \/ PersistOrKill(next, dispatches, routes, {})
  BY DEF Advertise
<1> HIDE DEF st
<1>4. Follows(more, mem) /\ more.pending = st.pending
  BY <1>1 DEF Follows, Shape, Fields
<1> HIDE DEF more
<1>5. Follows(next, mem) /\ next.pending = st.pending
  BY <1>4 DEF Follows, Shape, Fields
<1> HIDE DEF next
<1>6. CASE Unsaved(st)
  BY Zenon, <1>1, <1>2, <1>6, UnsavedOK DEF Unsaved, transient
<1>7. CASE PersistOrKill(next, dispatches, routes, {})
  <2>1. next.pending \subseteq Sessions /\ Shape(next) /\ mem.emitted \subseteq next.emitted
    BY <1>1, <1>5 DEF Inv, Follows
  <2>2. dispatches \subseteq Keys /\ routes \subseteq Keys
    BY DEF Inv
  <2>3. Live(dispatches \cup routes, next.pending, seen')
    BY <1>2, <1>5
  <2> QED BY Zenon, <1>2, <1>7, <2>1, <2>2, <2>3, PersistedOK
<1> QED BY <1>3, <1>6, <1>7

LEMMA LookupOK ==
    ASSUME Inv, NEW down \in Users, NEW o \in Objects, NEW now \in Times, Lookup(down, o, now)
    PROVE  Inv'
<1> DEFINE st == Rolled(Reaped(mem, now), Period(now))
           ready == Trimmed(st, now)
           S(up) == [id |-> NewId, object |-> o, up |-> up, down |-> down,
                     expires |-> now + Lifetime, done |-> {}]
           Granted(up) == [Reserved(ready, up, down, Size[o]) EXCEPT !.pending = @ \cup {S(up)}]
<1>1. Follows(st, mem) /\ st.pending = {s \in mem.pending : ~(s.expires <= now)}
  BY ReadyFields DEF Inv
<1>2. seen' \in Nat /\ Live(dispatches \cup routes, st.pending, seen')
  BY Zenon, <1>1, LiveReady DEF Lookup
<1>3. \/ Unsaved(st) \/ Unsaved(ready)
      \/ \E up \in Users :
            \/ Unsaved(Unissued(ready, up, down, o))
            \/ /\ issued < MaxSessions /\ issued' = issued + 1
               /\ PersistOrKill(Granted(up), dispatches \cup {Key(S(up), role) : role \in Roles},
                                routes, {})
  BY Zenon DEF Lookup, Selectable
<1> HIDE DEF st
<1>4. Follows(ready, mem) /\ ready.pending = st.pending
  BY <1>1, TrimmedFields DEF Follows
<1> HIDE DEF ready
<1>5. CASE Unsaved(st)
  <2>1. issued' \in Nat
    BY <1>5 DEF Unsaved, Inv
  <2> QED BY Zenon, <1>1, <1>2, <1>5, <2>1, UnsavedOK DEF Unsaved, transient
<1>6. CASE Unsaved(ready)
  <2>1. issued' \in Nat
    BY <1>6 DEF Unsaved, Inv
  <2> QED BY Zenon, <1>1, <1>2, <1>4, <1>6, <2>1, UnsavedOK DEF Unsaved, transient
<1>7. ASSUME NEW up \in Users, Unsaved(Unissued(ready, up, down, o))
      PROVE  Inv'
  <2>1. /\ Follows(Unissued(ready, up, down, o), mem)
        /\ Unissued(ready, up, down, o).pending = st.pending
    BY <1>4, UnissuedFields DEF Follows
  <2>2. issued' \in Nat
    BY <1>7 DEF Unsaved, Inv
  <2> QED BY Zenon, <1>1, <1>2, <1>7, <2>1, <2>2, UnsavedOK DEF Unsaved, transient
<1>8. ASSUME NEW up \in Users, issued < MaxSessions, issued' = issued + 1,
             PersistOrKill(Granted(up), dispatches \cup {Key(S(up), role) : role \in Roles},
                           routes, {})
      PROVE  Inv'
  <2> DEFINE next == Granted(up)
             keys == {Key(S(up), role) : role \in Roles}
  <2>1. S(up) \in Sessions
    BY <1>8, RelayAssumption DEF Inv, Sessions, NewId
  <2>2. keys \subseteq Keys /\ \A k \in keys : k.id = S(up).id /\ k.expires = S(up).expires
    BY <2>1 DEF Key, Keys, Sessions
  <2>3. Follows(next, mem) /\ next.pending = st.pending \cup {S(up)}
    <3>1. /\ Follows(Reserved(ready, up, down, Size[o]), mem)
          /\ Reserved(ready, up, down, Size[o]).pending = st.pending
      BY <1>4, ReservedFields DEF Follows
    <3> HIDE DEF S
    <3> QED BY <3>1 DEF Follows, Shape, Fields
  <2> HIDE DEF next, keys, S
  <2>4. Live((dispatches \cup keys) \cup routes, next.pending, seen')
    BY <1>2, <2>2, <2>3 DEF Live
  <2>5. /\ next.pending \subseteq Sessions /\ Shape(next) /\ mem.emitted \subseteq next.emitted
        /\ dispatches \cup keys \subseteq Keys /\ routes \subseteq Keys
    BY <1>1, <2>1, <2>2, <2>3 DEF Inv, Follows
  <2>6. issued' \in Nat
    BY <1>8 DEF Inv
  <2>7. PersistOrKill(next, dispatches \cup keys, routes, {})
    BY <1>8 DEF next, keys
  <2> QED BY Zenon, <1>2, <2>4, <2>5, <2>6, <2>7, PersistedOK
<1> QED BY Zenon, <1>3, <1>5, <1>6, <1>7, <1>8

\* Only the time moves on.
LEMMA LiveLater ==
    ASSUME Inv, NEW now \in Times, Clock(now)
    PROVE  /\ seen' \in Nat
           /\ Live(dispatches \cup routes, mem.pending, seen')
<1>1. seen' \in Nat /\ seen <= seen'
  BY RelayAssumption DEF Inv, Clock
<1>2. ASSUME NEW k \in dispatches \cup routes, k.expires <= seen
      PROVE  k.expires <= seen'
  <2>1. k.expires \in Nat /\ seen \in Nat
    BY DEF Inv, Keys
  <2> QED BY <1>1, <1>2, <2>1
<1> QED BY <1>1, <1>2 DEF Inv, Live

LEMMA RegistryOK ==
    ASSUME Inv, NEW now \in Times, Clock(now), NEW more \in SUBSET Keys,
           \A k \in more : \E s \in mem.pending : s.id = k.id /\ s.expires = k.expires,
           routes' \subseteq routes \cup more, dispatches' \subseteq dispatches,
           UNCHANGED <<mem, disk, healthy, promoted, issued>>
    PROVE  Inv'
<1>1. seen' \in Nat /\ Live(dispatches' \cup routes', mem.pending, seen')
  BY LiveLater DEF Live
<1>2. Promotions'
  BY DEF Inv, Promotions
<1>3. UnhealthyIsStopped'
  <2>1. mem.pending = {} => more = {}
    OBVIOUS
  <2> QED BY <2>1 DEF Inv, UnhealthyIsStopped
<1>4. dispatches' \subseteq Keys /\ routes' \subseteq Keys
  BY DEF Inv
<1> QED BY <1>1, <1>2, <1>3, <1>4 DEF Inv, Live

LEMMA RegisterRouteOK ==
    ASSUME Inv, NEW s \in mem.pending, NEW role \in Roles, NEW now \in Times,
           RegisterRoute(s, role, now)
    PROVE  Inv'
<1>1. {Key(s, role)} \in SUBSET Keys
  BY DEF Inv, Key, Keys, Sessions
<1>2. \A k \in {Key(s, role)} : k.id = s.id /\ k.expires = s.expires
  BY DEF Key
<1>3. Clock(now) /\ UNCHANGED <<mem, disk, healthy, promoted, issued>>
  BY DEF RegisterRoute
<1>4. routes' \subseteq routes \cup {Key(s, role)} /\ dispatches' \subseteq dispatches
  BY DEF RegisterRoute
<1> QED BY Zenon, <1>1, <1>2, <1>3, <1>4, RegistryOK

LEMMA TransportGrantOK ==
    ASSUME Inv, NEW now \in Times, TransportGrant(now)
    PROVE  Inv'
<1>1. Clock(now) /\ UNCHANGED <<mem, disk, healthy, promoted, issued>>
  BY DEF TransportGrant
<1>2. routes' \subseteq routes \cup {} /\ dispatches' \subseteq dispatches
  BY DEF TransportGrant
<1>3. {} \in SUBSET Keys /\ \A k \in {} : \E s \in mem.pending : s.id = k.id /\ s.expires = k.expires
  OBVIOUS
<1> QED BY Zenon, <1>1, <1>2, <1>3, RegistryOK

\* The session's own keys are gone, the other ones keep their sessions.
LEMMA LiveOther ==
    ASSUME Inv, NEW s \in mem.pending, NEW now \in Times, Clock(now)
    PROVE  Live(Other(dispatches, s.id) \cup Other(routes, s.id), mem.pending \ {s}, seen')
BY LiveLater DEF Live, Other

LEMMA FailOrRevokeOK ==
    ASSUME Inv, NEW s \in mem.pending, NEW now \in Times, FailOrRevoke(s, now)
    PROVE  Inv'
<1> DEFINE a == Rolled(mem, Period(now))
           st == Closed(a, {s})
           none == {}
<1>1. Follows(a, mem) /\ a.pending = mem.pending
  BY RolledFields DEF Inv
<1>2. Follows(st, mem) /\ st.pending = mem.pending \ {s}
  <2> HIDE DEF a
  <2> QED BY <1>1, ClosedFields DEF Follows
<1>3. Clock(now) /\ issued' = issued
  BY DEF FailOrRevoke
<1>4. PersistOrKill(st, Other(dispatches, s.id), Other(routes, s.id), none)
  BY SMTT(30) DEF FailOrRevoke
<1> HIDE DEF st
<1>5. /\ seen' \in Nat /\ issued' \in Nat
      /\ Live(Other(dispatches, s.id) \cup Other(routes, s.id), st.pending, seen')
  BY <1>2, <1>3, LiveLater, LiveOther DEF Inv
<1>6. /\ Shape(st) /\ st.pending \subseteq Sessions /\ mem.emitted \subseteq st.emitted
      /\ Other(dispatches, s.id) \subseteq Keys /\ Other(routes, s.id) \subseteq Keys
  BY <1>2 DEF Inv, Follows, Other
<1>7. none \subseteq st.emitted \ mem.emitted
  OBVIOUS
<1> HIDE DEF none
<1> QED BY Zenon, <1>4, <1>5, <1>6, <1>7, PersistedOK

LEMMA CompleteOK ==
    ASSUME Inv, NEW s \in mem.pending, NEW role \in Roles, NEW now \in Times,
           Complete(s, role, now)
    PROVE  Inv'
<1> DEFINE st == Rolled(mem, Period(now))
           said == [s EXCEPT !.done = @ \cup {role}]
           noted == [st EXCEPT !.pending = (@ \ {s}) \cup {said}]
           done == Recovered(Closed(st, {s}), s.object)
<1>1. Follows(st, mem) /\ st.pending = mem.pending
  BY RolledFields DEF Inv
<1>2. Clock(now) /\ issued' = issued
  BY DEF Complete
<1>3. seen' \in Nat /\ issued' \in Nat /\ Live(dispatches \cup routes, mem.pending, seen')
  BY <1>2, LiveLater DEF Inv
<1>4. s \in Sessions /\ dispatches \subseteq Keys /\ routes \subseteq Keys
  BY DEF Inv
<1>5. said \in Sessions /\ said.id = s.id /\ said.expires = s.expires
  BY <1>4 DEF Sessions
<1>6. \/ Unsaved(st)
      \/ PersistOrKill(noted, dispatches, routes, {})
      \/ PersistOrKill(done, Other(dispatches, s.id), Other(routes, s.id), Signal(st, s.object))
  BY DEF Complete
<1> HIDE DEF st, said
<1>7. CASE Unsaved(st)
  BY Zenon, <1>1, <1>3, <1>7, UnsavedOK DEF Unsaved, transient
<1>8. CASE PersistOrKill(noted, dispatches, routes, {})
  <2>1. Follows(noted, mem) /\ noted.pending = (mem.pending \ {s}) \cup {said}
    BY <1>1 DEF Follows, Shape, Fields
  <2> HIDE DEF noted
  <2>2. Live(dispatches \cup routes, noted.pending, seen')
    BY <1>3, <1>5, <2>1 DEF Live
  <2>3. Shape(noted) /\ noted.pending \subseteq Sessions /\ mem.emitted \subseteq noted.emitted
    BY <1>5, <2>1 DEF Inv, Follows
  <2> QED BY Zenon, <1>3, <1>4, <1>8, <2>2, <2>3, PersistedOK
<1>9. CASE PersistOrKill(done, Other(dispatches, s.id), Other(routes, s.id), Signal(st, s.object))
  <2> DEFINE closed == Closed(st, {s})
  <2>1. Follows(closed, mem) /\ closed.pending = mem.pending \ {s}
    BY <1>1, ClosedFields DEF Follows
  <2>2. closed.recoveries = st.recoveries
    BY <1>1, ClosedRecoveries DEF Follows
  <2>3. done = Recovered(closed, s.object)
    OBVIOUS
  <2> HIDE DEF closed, done
  <2>4. /\ Shape(done) /\ done.pending = closed.pending
        /\ done.emitted = IF Popular(s.object, closed.recoveries[s.object] + 1)
                          THEN closed.emitted \cup {s.object} ELSE closed.emitted
    BY <2>1, <2>3 DEF Recovered, Follows, Shape, Fields
  <2>5. Signal(st, s.object) \subseteq done.emitted \ mem.emitted
    BY <1>1, <2>1, <2>2, <2>4 DEF Signal, Follows
  <2>6. /\ mem.emitted \subseteq done.emitted /\ done.pending \subseteq Sessions
        /\ Other(dispatches, s.id) \subseteq Keys /\ Other(routes, s.id) \subseteq Keys
    BY <2>1, <2>4 DEF Inv, Follows, Other
  <2>7. Live(Other(dispatches, s.id) \cup Other(routes, s.id), done.pending, seen')
    BY <1>2, <2>1, <2>4, LiveOther
  <2> QED BY Zenon, <1>3, <1>9, <2>4, <2>5, <2>6, <2>7, PersistedOK
<1> QED BY <1>6, <1>7, <1>8, <1>9

LEMMA SetKillSwitchOK ==
    ASSUME Inv, NEW on \in BOOLEAN, SetKillSwitch(on)
    PROVE  Inv'
<1> DEFINE st == Switched(mem, on)
           grants == IF on THEN {} ELSE dispatches
           none == {}
<1>1. /\ Shape(st) /\ st.emitted = mem.emitted
      /\ st.pending = IF on THEN {} ELSE mem.pending
  BY Zenon, KilledFields DEF Inv, Switched, Shape, Fields
<1>2. PersistOrKill(st, grants, none, none) /\ seen' = seen /\ issued' = issued
  BY DEF SetKillSwitch
<1> HIDE DEF st
<1>3. grants \subseteq Keys /\ none \subseteq Keys /\ st.pending \subseteq Sessions
  BY <1>1 DEF Inv
<1>4. seen' \in Nat /\ issued' \in Nat /\ Live(grants \cup none, st.pending, seen')
  BY <1>1, <1>2 DEF Inv, Live
<1>5. none \subseteq st.emitted \ mem.emitted /\ mem.emitted \subseteq st.emitted
  BY <1>1
<1> HIDE DEF grants, none
<1> QED BY Zenon, <1>1, <1>2, <1>3, <1>4, <1>5, PersistedOK

LEMMA RestartOK ==
    ASSUME Inv, NEW now \in Times, Restart(now)
    PROVE  Inv'
<1> DEFINE st == Restored(disk, now)
           next == IF ConfigKill THEN Killed(st) ELSE st
<1>1. Follows(st, disk) /\ st.pending = {}
  BY RestoredFields DEF Inv
<1>2. /\ mem' = next /\ disk' = next /\ healthy' = TRUE /\ dispatches' = {} /\ routes' = {}
      /\ Clock(now) /\ UNCHANGED <<promoted, issued>>
  BY DEF Restart
<1> HIDE DEF st
<1>3. Shape(next) /\ next.emitted = disk.emitted /\ next.pending = {}
  BY Zenon, <1>1, KilledFields DEF Follows
<1> HIDE DEF next
<1>4. seen' \in Nat
  BY <1>2, LiveLater
<1>5. Promotions'
  BY <1>2, <1>3 DEF Inv, Promotions
<1>6. UnhealthyIsStopped'
  BY <1>2 DEF UnhealthyIsStopped
<1> QED BY SMTT(30), <1>2, <1>3, <1>4, <1>5, <1>6 DEF Inv, Live

LEMMA InvStep == Inv /\ [Next]_vars => Inv'
<1> SUFFICES ASSUME Inv, [Next]_vars PROVE Inv'
  OBVIOUS
<1>1. ASSUME NEW now \in Times, NEW u \in Users, NEW o \in Objects,
             Advertise(u, o, now) \/ Lookup(u, o, now)
      PROVE  Inv'
  BY <1>1, AdvertiseOK, LookupOK
<1>2. ASSUME NEW now \in Times, NEW s \in mem.pending, FailOrRevoke(s, now)
      PROVE  Inv'
  BY <1>2, FailOrRevokeOK
<1>3. ASSUME NEW now \in Times, NEW s \in mem.pending, NEW role \in Roles,
             RegisterRoute(s, role, now) \/ Complete(s, role, now)
      PROVE  Inv'
  BY <1>3, RegisterRouteOK, CompleteOK
<1>4. ASSUME NEW now \in Times, TransportGrant(now) \/ Restart(now)
      PROVE  Inv'
  BY <1>4, TransportGrantOK, RestartOK
<1>5. ASSUME NEW on \in BOOLEAN, SetKillSwitch(on)
      PROVE  Inv'
  BY <1>5, SetKillSwitchOK
<1>6. CASE UNCHANGED vars
  BY <1>6 DEF Inv, vars, Promotions, UnhealthyIsStopped, Live
<1> QED BY SMTT(30), <1>1, <1>2, <1>3, <1>4, <1>5, <1>6 DEF Next

LEMMA InvHolds == Spec => []Inv
BY InvInit, InvStep, PTL DEF Spec

-----------------------------------------------------------------------------
(* Theorems *)

\* An object's promotion signal is given at most once, whatever writes fail and
\* however often the process restarts: complete gives it after the snapshot that
\* remembers it.
THEOREM NeverPromotedTwice == Spec => []PromotedOnce
<1>1. Inv => PromotedOnce
  BY DEF Inv, Promotions, PromotedOnce
<1> QED BY <1>1, InvHolds, PTL

\* Once persist_or_kill could write neither snapshot, the relay has no session, no
\* grant and no route.
THEOREM StopsWhenUnwritable == Spec => []UnhealthyIsStopped
<1>1. Inv => UnhealthyIsStopped
  BY DEF Inv
<1> QED BY <1>1, InvHolds, PTL

\* Every grant on offer and every route belongs to a pending session or is past its
\* expiry, also when reap_expired_sessions closed the session behind the broker.
THEOREM GrantsHaveSessions == Spec => []DispatchesLive
<1>1. Inv => DispatchesLive
  BY DEF Inv, Live, DispatchesLive
<1> QED BY <1>1, InvHolds, PTL

-----------------------------------------------------------------------------
(* The inductive invariant *)

\* Identifiers are not used twice, and those up to n were drawn.
Ids(set, n) == /\ \A s \in set : s.id <= n
               /\ \A s, t \in set : s.id = t.id => s = t

LedgerInv ==
    /\ Sound(mem) /\ Sound(disk) /\ Ids(mem.pending, issued)
    /\ issued \in 0 .. MaxSessions /\ healthy \in BOOLEAN /\ faults \in Nat
    /\ healthy => Reduces(mem, disk)

LEMMA LedgerInit == Init => LedgerInv
<1> SUFFICES ASSUME Init PROVE LedgerInv
  OBVIOUS
<1>1. Sound(Fresh) /\ Fresh.pending = {}
  BY FreshSound
<1>2. Reduces(Fresh, Fresh)
  BY <1>1, ReducesSelf DEF Sound
<1>3. issued \in 0 .. MaxSessions
  BY QuotaTypes DEF Init
<1> QED BY <1>1, <1>2, <1>3 DEF Init, LedgerInv, Ids

LEMMA UnsavedLedger ==
    ASSUME LedgerInv, NEW st, Sound(st), Reduces(st, mem), st.pending \subseteq mem.pending,
           mem' = st, UNCHANGED <<disk, healthy, issued>>, faults' \in Nat
    PROVE  LedgerInv'
<1>1. mem \in Snapshots /\ disk \in Snapshots /\ st \in Snapshots
  BY DEF LedgerInv, Sound
<1>2. healthy' => Reduces(mem', disk')
  BY <1>1, ReducesTrans DEF LedgerInv
<1>3. Ids(mem'.pending, issued')
  BY DEF LedgerInv, Ids
<1>4. Sound(mem') /\ Sound(disk')
  BY DEF LedgerInv
<1> QED BY <1>2, <1>3, <1>4 DEF LedgerInv

LEMMA PersistedLedger ==
    ASSUME LedgerInv, NEW st, NEW grants, NEW open, NEW signal,
           Sound(st), Ids(st.pending, issued'), issued' \in 0 .. MaxSessions,
           PersistOrKill(st, grants, open, signal)
    PROVE  LedgerInv'
<1>1. Sound(Killed(st)) /\ Killed(st).pending = {}
  BY KilledOK
<1>2. Reduces(st, st) /\ Reduces(Killed(st), Killed(st))
  BY <1>1, ReducesSelf DEF Sound
<1>3. CASE mem' = st /\ disk' = st /\ healthy' = TRUE /\ NoFault
  BY <1>2, <1>3 DEF LedgerInv, NoFault
<1>4. CASE /\ mem' = Killed(st) /\ Fault
           /\ \/ disk' = Killed(st) /\ healthy' = TRUE
              \/ disk' \in {disk, st, Killed(st)} /\ healthy' = FALSE
  <2>1. Ids(mem'.pending, issued') /\ Sound(mem') /\ faults' \in Nat
    BY <1>1, <1>4 DEF Ids, LedgerInv, Fault
  <2>2. Sound(disk') /\ healthy' \in BOOLEAN
    BY Zenon, <1>1, <1>4 DEF LedgerInv
  <2>3. healthy' => Reduces(mem', disk')
    BY <1>2, <1>4
  <2> QED BY SMTT(30), <2>1, <2>2, <2>3 DEF LedgerInv
<1> QED BY Zenon, <1>3, <1>4 DEF PersistOrKill

LEMMA AdvertiseLedger ==
    ASSUME LedgerInv, NEW u \in Users, NEW o \in Objects, NEW now \in Times, Advertise(u, o, now)
    PROVE  LedgerInv'
<1> DEFINE st == Rolled(Reaped(mem, now), Period(now))
           more == Stocked(st, u, o)
           next == Seeded(st, u, o)
<1>1. now \in Nat /\ Sound(mem)
  BY QuotaTypes DEF LedgerInv
<1>2. Sound(st) /\ Reduces(st, mem) /\ st.pending \subseteq mem.pending
  BY <1>1, ReadyOK
<1>3. /\ issued' = issued
      /\ \/ Unsaved(st)
         \/ /\ <<u, o>> \in st.seeds \/ more.usage[u].storage <= StorageQuota
            /\ PersistOrKill(next, dispatches, routes, {})
  BY DEF Advertise, Stocked, Seeded
<1> HIDE DEF st
<1>4. CASE Unsaved(st)
  BY SMTT(30), <1>2, <1>4, UnsavedLedger DEF Unsaved, transient, NoFault, LedgerInv
<1>5. CASE /\ <<u, o>> \in st.seeds \/ more.usage[u].storage <= StorageQuota
           /\ PersistOrKill(next, dispatches, routes, {})
  <2>1. Sound(next) /\ next.pending = st.pending
    BY ZenonT(30), <1>2, <1>5, AdvertisedOK
  <2> HIDE DEF more, next
  <2>2. Ids(next.pending, issued') /\ issued' \in 0 .. MaxSessions
    BY SMTT(30), <1>2, <1>3, <2>1 DEF LedgerInv, Ids
  <2> QED BY <1>5, <2>1, <2>2, PersistedLedger
<1> QED BY <1>3, <1>4, <1>5

LEMMA LookupLedger ==
    ASSUME LedgerInv, NEW down \in Users, NEW o \in Objects, NEW now \in Times, Lookup(down, o, now)
    PROVE  LedgerInv'
<1> DEFINE st == Rolled(Reaped(mem, now), Period(now))
           ready == Trimmed(st, now)
           S(up) == [id |-> NewId, object |-> o, up |-> up, down |-> down,
                     expires |-> now + Lifetime, done |-> {}]
           Granted(up) == [Reserved(ready, up, down, Size[o]) EXCEPT !.pending = @ \cup {S(up)}]
<1>1. now \in Nat /\ Sound(mem) /\ issued \in 0 .. MaxSessions /\ mem \in Snapshots
  BY QuotaTypes DEF LedgerInv, Sound
<1>2. Sound(st) /\ Reduces(st, mem) /\ st.pending \subseteq mem.pending
  BY <1>1, ReadyOK
<1>3. \/ Unsaved(st) \/ Unsaved(ready)
      \/ \E up \in Users \ {down} :
            /\ MayReserve(ready, up, down, Size[o])
            /\ \/ Unsaved(Unissued(ready, up, down, o))
               \/ /\ issued < MaxSessions /\ issued' = issued + 1
                  /\ PersistOrKill(Granted(up), dispatches \cup {Key(S(up), role) : role \in Roles},
                                   routes, {})
  BY Zenon DEF Lookup, Selectable
<1> HIDE DEF st
<1>4. Sound(ready) /\ Reduces(ready, st) /\ ready.pending = st.pending
  BY SMTT(30), <1>2, TrimmedOK DEF Restocked
<1> HIDE DEF ready
<1>5. Reduces(ready, mem)
  BY SMTT(30), <1>1, <1>2, <1>4, ReducesTrans DEF Sound
<1>6. CASE Unsaved(st)
  BY <1>2, <1>6, UnsavedLedger DEF Unsaved, transient, NoFault, LedgerInv
<1>7. CASE Unsaved(ready)
  BY SMTT(30), <1>2, <1>4, <1>5, <1>7, UnsavedLedger DEF Unsaved, transient, NoFault, LedgerInv
<1>8. ASSUME NEW up \in Users, up # down, Unsaved(Unissued(ready, up, down, o))
      PROVE  LedgerInv'
  <2> DEFINE new == Unissued(ready, up, down, o)
  <2>1. Sound(new) /\ Reduces(new, ready)
    BY SMTT(30), <1>4, <1>8, UnissuedOK
  <2>2. new.pending = st.pending
    BY SMTT(30), <1>4, UnissuedFields, UsageType DEF Sound
  <2> HIDE DEF new
  <2>3. Reduces(new, mem)
    BY <1>1, <1>4, <1>5, <2>1, ReducesTrans DEF Sound
  <2>4. Unsaved(new)
    BY <1>8 DEF new
  <2> QED BY SMTT(30), <1>2, <2>1, <2>2, <2>3, <2>4, UnsavedLedger DEF Unsaved, transient, NoFault, LedgerInv
<1>9. ASSUME NEW up \in Users, up # down, MayReserve(ready, up, down, Size[o]),
             issued < MaxSessions, issued' = issued + 1,
             PersistOrKill(Granted(up), dispatches \cup {Key(S(up), role) : role \in Roles},
                           routes, {})
      PROVE  LedgerInv'
  <2> DEFINE keys == {Key(S(up), role) : role \in Roles}
  <2>1. PICK s : s = S(up)
    BY Zenon
  <2>2. /\ s \in Sessions /\ s.id = issued + 1 /\ s.object = o /\ s.up = up /\ s.down = down
    BY SMTT(30), <1>1, <1>9, <2>1, QuotaTypes DEF Sessions, NewId
  <2>3. Ids(ready.pending, issued) /\ ready.pending \subseteq Sessions
    BY <1>2, <1>4, UsageType DEF LedgerInv, Ids, Sound
  <2>4. s \notin ready.pending
    BY <1>1, <2>2, <2>3 DEF Ids
  <2> DEFINE next == [Reserved(ready, up, down, Size[o]) EXCEPT !.pending = @ \cup {s}]
  <2>5. Sound(next)
    BY SMTT(30), <1>4, <1>9, <2>2, <2>4, GrantedOK
  <2>6. next.pending = ready.pending \cup {s}
    <3>1. Shape(Reserved(ready, up, down, Size[o])) /\ Reserved(ready, up, down, Size[o]).pending = ready.pending
      BY SMTT(30), <1>4, ReservedFields, UsageType DEF Sound, Follows
    <3> QED BY SMTT(30), <3>1 DEF Shape, Fields
  <2>7. Ids(next.pending, issued') /\ issued' \in 0 .. MaxSessions
    <3>1. \A t \in ready.pending : t.id \in Nat /\ t.id <= issued
      BY <2>3 DEF Ids, Sessions
    <3>2. \A t \in ready.pending : t.id # s.id /\ t.id <= issued'
      BY SMTT(30), <1>1, <1>9, <2>2, <3>1
    <3>3. s.id <= issued' /\ issued' \in 0 .. MaxSessions
      BY SMTT(30), <1>1, <1>9, <2>2, QuotaTypes
    <3> HIDE DEF next
    <3> QED BY SMTT(30), <2>3, <2>6, <3>2, <3>3 DEF Ids
  <2>8. PersistOrKill(next, dispatches \cup keys, routes, {})
    BY SMTT(30), <1>9, <2>1
  <2> HIDE DEF next, keys, S
  <2> QED BY <2>5, <2>7, <2>8, PersistedLedger
<1> QED BY Zenon, <1>3, <1>6, <1>7, <1>8, <1>9

LEMMA FailOrRevokeLedger ==
    ASSUME LedgerInv, NEW s \in mem.pending, NEW now \in Times, FailOrRevoke(s, now)
    PROVE  LedgerInv'
<1> DEFINE a == Rolled(mem, Period(now))
           st == Closed(a, {s})
<1>1. Period(now) \in Nat /\ Sound(mem)
  BY PeriodType, QuotaTypes DEF LedgerInv
<1>2. Sound(a) /\ a.pending = mem.pending
  BY SMTT(30), <1>1, RolledOK
<1>3. issued' = issued /\ PersistOrKill(st, Other(dispatches, s.id), Other(routes, s.id), {})
  BY DEF FailOrRevoke
<1> HIDE DEF a
<1>4. Sound(st) /\ st.pending = mem.pending \ {s}
  <2>1. {s} \in SUBSET a.pending
    BY SMTT(30), <1>2
  <2>2. Sound(st)
    BY SMTT(30), <1>2, <2>1, ClosedOK
  <2>3. Shape(a)
    BY SMTT(30), <1>2, UsageType DEF Sound
  <2>4. st.pending = a.pending \ {s}
    BY <2>3, ClosedFields
  <2> QED BY SMTT(30), <1>2, <2>2, <2>4
<1> HIDE DEF st
<1>5. Ids(st.pending, issued') /\ issued' \in 0 .. MaxSessions
  BY <1>3, <1>4 DEF LedgerInv, Ids
<1> QED BY SMTT(30), <1>3, <1>4, <1>5, PersistedLedger

LEMMA CompleteLedger ==
    ASSUME LedgerInv, NEW s \in mem.pending, NEW role \in Roles, NEW now \in Times,
           Complete(s, role, now)
    PROVE  LedgerInv'
<1> DEFINE st == Rolled(mem, Period(now))
           said == [s EXCEPT !.done = @ \cup {role}]
           noted == [st EXCEPT !.pending = (@ \ {s}) \cup {said}]
           closed == Closed(st, {s})
           done == Recovered(closed, s.object)
<1>1. Period(now) \in Nat /\ Sound(mem) /\ Ids(mem.pending, issued) /\ s \in Sessions
  BY SMTT(30), PeriodType, QuotaTypes, UsageType DEF LedgerInv, Sound
<1>2. Sound(st) /\ Reduces(st, mem) /\ st.pending = mem.pending
  BY <1>1, RolledOK
<1>3. /\ issued' = issued
      /\ \/ Unsaved(st)
         \/ PersistOrKill(noted, dispatches, routes, {})
         \/ PersistOrKill(done, Other(dispatches, s.id), Other(routes, s.id), Signal(st, s.object))
  BY DEF Complete
<1>4. /\ said \in Sessions /\ said.id = s.id /\ said.object = s.object
      /\ said.up = s.up /\ said.down = s.down
  BY <1>1 DEF Sessions
<1> HIDE DEF st, said
<1>5. CASE Unsaved(st)
  BY SMTT(30), <1>2, <1>5, UnsavedLedger DEF Unsaved, transient, NoFault, LedgerInv
<1>6. CASE PersistOrKill(noted, dispatches, routes, {})
  <2>1. said \notin st.pending \ {s}
    BY <1>1, <1>2, <1>4 DEF Ids
  <2>2. Sound(noted) /\ noted.pending = (mem.pending \ {s}) \cup {said}
    BY SMTT(30), <1>2, <1>4, <2>1, NotedOK
  <2> HIDE DEF noted
  <2>3. Ids(noted.pending, issued') /\ issued' \in 0 .. MaxSessions
    BY SMTT(30), <1>1, <1>3, <1>4, <2>2 DEF LedgerInv, Ids
  <2> QED BY SMTT(30), <1>6, <2>2, <2>3, PersistedLedger
<1>7. CASE PersistOrKill(done, Other(dispatches, s.id), Other(routes, s.id), Signal(st, s.object))
  <2>1. Sound(closed) /\ closed.pending = mem.pending \ {s}
    <3>1. {s} \in SUBSET st.pending
      BY SMTT(30), <1>2
    <3>2. Sound(closed)
      BY SMTT(30), <1>2, <3>1, ClosedOK
    <3>3. Shape(st)
      BY <1>2, UsageType DEF Sound
    <3>4. closed.pending = st.pending \ {s}
      BY SMTT(30), <3>3, ClosedFields
    <3> QED BY SMTT(30), <1>2, <3>2, <3>4
  <2>2. s.object \in Objects
    BY <1>1 DEF Sessions
  <2> HIDE DEF closed
  <2>3. Sound(done) /\ done.pending = mem.pending \ {s}
    BY <2>1, <2>2, RecoveredOK
  <2> HIDE DEF done
  <2>4. Ids(done.pending, issued') /\ issued' \in 0 .. MaxSessions
    BY <1>1, <1>3, <2>3 DEF LedgerInv, Ids
  <2> QED BY <1>7, <2>3, <2>4, PersistedLedger
<1> QED BY SMTT(30), <1>3, <1>5, <1>6, <1>7

LEMMA SetKillSwitchLedger ==
    ASSUME LedgerInv, NEW on \in BOOLEAN, SetKillSwitch(on)
    PROVE  LedgerInv'
<1> DEFINE st == Switched(mem, on)
           grants == IF on THEN {} ELSE dispatches
<1>1. Sound(st) /\ st.pending \subseteq mem.pending
  BY SwitchedOK DEF LedgerInv
<1>2. PersistOrKill(st, grants, {}, {}) /\ issued' = issued
  BY DEF SetKillSwitch
<1> HIDE DEF st, grants
<1>3. Ids(st.pending, issued') /\ issued' \in 0 .. MaxSessions
  BY <1>1, <1>2 DEF LedgerInv, Ids
<1> QED BY SMTT(30), <1>1, <1>2, <1>3, PersistedLedger

LEMMA RestartLedger ==
    ASSUME LedgerInv, NEW now \in Times, Restart(now)
    PROVE  LedgerInv'
<1> DEFINE st == Restored(disk, now)
           next == IF ConfigKill THEN Killed(st) ELSE st
<1>1. /\ now \in Nat /\ Sound(disk) /\ disk.period <= Period(now)
      /\ mem' = next /\ disk' = next /\ healthy' = TRUE /\ UNCHANGED <<issued, faults>>
  BY SMTT(30), QuotaTypes DEF LedgerInv, Restart, NoFault
<1>2. Sound(st) /\ st.pending = {}
  BY <1>1, RestoredOK
<1> HIDE DEF st
<1>3. Sound(next) /\ next.pending = {}
  BY <1>2, KilledOK
<1> HIDE DEF next
<1>4. Reduces(next, next)
  BY SMTT(30), <1>3, ReducesSelf DEF Sound
<1> QED BY <1>1, <1>3, <1>4 DEF LedgerInv, Ids

LEMMA LedgerStep == LedgerInv /\ [Next]_vars => LedgerInv'
<1> SUFFICES ASSUME LedgerInv, [Next]_vars PROVE LedgerInv'
  OBVIOUS
<1>1. ASSUME NEW now \in Times, NEW u \in Users, NEW o \in Objects,
             Advertise(u, o, now) \/ Lookup(u, o, now)
      PROVE  LedgerInv'
  BY <1>1, AdvertiseLedger, LookupLedger
<1>2. ASSUME NEW now \in Times, NEW s \in mem.pending, FailOrRevoke(s, now)
      PROVE  LedgerInv'
  BY <1>2, FailOrRevokeLedger
<1>3. ASSUME NEW now \in Times, NEW s \in mem.pending, NEW role \in Roles, Complete(s, role, now)
      PROVE  LedgerInv'
  BY SMTT(30), <1>3, CompleteLedger
<1>4. ASSUME NEW now \in Times, NEW s \in mem.pending, NEW role \in Roles,
             RegisterRoute(s, role, now)
      PROVE  LedgerInv'
  BY <1>4 DEF RegisterRoute, NoFault, LedgerInv
<1>5. ASSUME NEW now \in Times, TransportGrant(now)
      PROVE  LedgerInv'
  BY <1>5 DEF TransportGrant, NoFault, LedgerInv
<1>6. ASSUME NEW now \in Times, Restart(now)
      PROVE  LedgerInv'
  BY SMTT(30), <1>6, RestartLedger
<1>7. ASSUME NEW on \in BOOLEAN, SetKillSwitch(on)
      PROVE  LedgerInv'
  BY <1>7, SetKillSwitchLedger
<1>8. CASE UNCHANGED vars
  BY <1>8 DEF vars, LedgerInv
<1> QED BY ZenonT(30), <1>1, <1>2, <1>3, <1>4, <1>5, <1>6, <1>7, <1>8 DEF Next

LEMMA LedgerHolds == Spec => []LedgerInv
BY LedgerInit, LedgerStep, PTL DEF Spec

-----------------------------------------------------------------------------
(* Theorems *)

\* The coordinator, the state file and the broker's registries are always well formed,
\* and no two pending sessions have one identifier.
THEOREM RelayTypes == Spec => []TypeOK
<1>1. Inv /\ LedgerInv => TypeOK
  <2> SUFFICES ASSUME Inv, LedgerInv PROVE TypeOK
    OBVIOUS
  <2>1. promoted \in [Objects -> Nat]
    BY DEF Inv, Promotions
  <2>2. mem \in Snapshots /\ disk \in Snapshots
    BY DEF LedgerInv, Sound
  <2> QED BY <2>1, <2>2 DEF Inv, LedgerInv, Ids, TypeOK
<1> QED BY <1>1, InvHolds, LedgerHolds, PTL

\* For any users, sizes, quotas and month, whatever fails and however often the process
\* restarts: what restore_persistence_json asks of the transfers and of the storage always
\* holds of the memory and of the state file.
THEOREM LedgerAlwaysAccepted == Spec => []LedgerAccepted
<1>1. LedgerInv => LedgerAccepted
  BY DEF LedgerInv, Sound, LedgerAccepted
<1> QED BY <1>1, LedgerHolds, PTL

LEMMA PeriodOfStart == ASSUME NEW p \in Nat PROVE Period(p * MonthLength) = p
<1>1. MonthLength \in Nat \ {0}
  BY SMTT(30), QuotaTypes
<1> QED BY <1>1 DEF Period

\* While the snapshots are written, a restart in the current month charges everybody at
\* least what the memory counts, used or reserved, and forgets neither the kill switch
\* nor a promotion, although reap_expired_sessions, roll_period and a reservation given
\* back change the memory alone.
THEOREM RestartKeepsCharges == Spec => []RestartForgetsNothing
<1>1. LedgerInv => RestartForgetsNothing
  <2> SUFFICES ASSUME LedgerInv, healthy PROVE
        LET st == Restored(disk, mem.period * MonthLength)
        IN  /\ st.kill = mem.kill /\ st.emitted = mem.emitted /\ st.recoveries = mem.recoveries
            /\ st.relayed >= mem.relayed + mem.reserved
            /\ \A u \in Users :
                /\ st.usage[u].uploaded >= mem.usage[u].uploaded + mem.usage[u].reservedUp
                /\ st.usage[u].downloaded >= mem.usage[u].downloaded + mem.usage[u].reservedDown
    BY SMTT(30) DEF RestartForgetsNothing
  <2> DEFINE now == mem.period * MonthLength
             st == Restored(disk, now)
             Used(n) == IF disk.period < mem.period THEN 0 ELSE n
  <2>1. Reduces(mem, disk) /\ Sound(disk) /\ mem \in Snapshots /\ disk \in Snapshots
    BY SMTT(30) DEF LedgerInv, Sound
  <2>2. mem.period \in Nat /\ disk.period \in Nat /\ disk.period <= mem.period
    BY <2>1, UsageType DEF Reduces
  <2>3. now \in Nat /\ Period(now) = mem.period
    BY SMTT(30), <2>2, PeriodOfStart, QuotaTypes
  <2> HIDE DEF now
  <2>4. /\ st.kill = disk.kill /\ st.emitted = disk.emitted /\ st.recoveries = disk.recoveries
        /\ st.relayed = Used(disk.relayed) + disk.reserved
        /\ \A u \in Users :
             /\ st.usage[u].uploaded = Used(disk.usage[u].uploaded) + disk.usage[u].reservedUp
             /\ st.usage[u].downloaded = Used(disk.usage[u].downloaded) + disk.usage[u].reservedDown
    BY SMTT(30), <2>1, <2>2, <2>3, RestoredOK
  <2> HIDE DEF st
  <2>5. st.relayed >= mem.relayed + mem.reserved
    <3>1. Within(mem.period, mem.relayed, mem.reserved, disk.period, disk.relayed, disk.reserved)
      BY Zenon, <2>1 DEF Reduces
    <3>2. /\ mem.relayed \in Nat /\ mem.reserved \in Nat
          /\ disk.relayed \in Nat /\ disk.reserved \in Nat
      BY SMTT(30), <2>1, UsageType
    <3>3. st.relayed = Used(disk.relayed) + disk.reserved
      BY Zenon, <2>4
    <3> QED BY SMTT(30), <2>2, <3>1, <3>2, <3>3 DEF Within
  <2>6. ASSUME NEW u \in Users
        PROVE  /\ st.usage[u].uploaded >= mem.usage[u].uploaded + mem.usage[u].reservedUp
               /\ st.usage[u].downloaded >= mem.usage[u].downloaded + mem.usage[u].reservedDown
    <3>1. PICK m \in Usages : m = mem.usage[u]
      BY <2>1, UsageType
    <3>2. PICK d \in Usages : d = disk.usage[u]
      BY SMTT(30), <2>1, UsageType
    <3>3. /\ Within(mem.period, m.uploaded, m.reservedUp, disk.period, d.uploaded, d.reservedUp)
          /\ Within(mem.period, m.downloaded, m.reservedDown, disk.period, d.downloaded, d.reservedDown)
      BY SMTT(30), <2>1, <3>1, <3>2 DEF Reduces
    <3>4. /\ st.usage[u].uploaded = Used(d.uploaded) + d.reservedUp
          /\ st.usage[u].downloaded = Used(d.downloaded) + d.reservedDown
      BY SMTT(30), <2>4, <3>2
    <3> QED BY SMTT(30), <2>2, <3>1, <3>3, <3>4, UseType DEF Within
  <2>7. st.kill = mem.kill /\ st.emitted = mem.emitted /\ st.recoveries = mem.recoveries
    BY <2>1, <2>4 DEF Reduces
  <2> QED BY SMTT(30), <2>5, <2>6, <2>7 DEF st, now
<1> QED BY <1>1, LedgerHolds, PTL

=============================================================================
