-------------------------- MODULE RelayLedgerProofs --------------------------
(***************************************************************************)
(* What the operators of Relay's ledger preserve, for any users, objects,   *)
(* quotas and times.                                                       *)
(*                                                                         *)
(* A ledger is Sound when restore_persistence_json accepts it: every        *)
(* counter is the sum the pending sessions, or the seeds, call for and      *)
(* within its quota.                                                       *)
(* Each operator gets one lemma: from a sound ledger it makes a             *)
(* sound one that charges no more than the old one would after a restart    *)
(* (Reduces), or it says what it adds.                                      *)
(***************************************************************************)
EXTENDS RelaySums

-----------------------------------------------------------------------------
(* Each operator keeps the ledger sound *)

\* What TransfersAccepted and StorageAccepted say of one user.
UserOK(use, P, seeds, u) ==
    /\ use.reservedUp = Bytes(UpOf(P, u)) /\ use.reservedDown = Bytes(DownOf(P, u))
    /\ use.activeUp = Cardinality(UpOf(P, u)) /\ use.activeUp <= Concurrency
    /\ use.activeDown = Cardinality(DownOf(P, u)) /\ use.activeDown <= Concurrency
    /\ use.uploaded + use.reservedUp <= UploadQuota
    /\ use.downloaded + use.reservedDown <= DownloadQuota
    /\ use.storage = StorageOf(seeds, u) /\ use.storage <= StorageQuota

GlobalOK(st) ==
    /\ Cardinality(st.pending) <= GlobalConcurrency /\ st.reserved = Bytes(st.pending)
    /\ st.relayed + st.reserved <= GlobalQuota /\ st.relayed + st.reserved <= CostStop

LEMMA SoundParts ==
    ASSUME NEW st
    PROVE  Sound(st) <=> /\ st \in Snapshots /\ IsFiniteSet(st.pending) /\ GlobalOK(st)
                         /\ \A u \in Users : UserOK(st.usage[u], st.pending, st.seeds, u)
BY DEF Sound, TransfersAccepted, StorageAccepted, GlobalOK, UserOK

LEMMA QuotaTypes ==
    /\ UploadQuota \in Nat /\ DownloadQuota \in Nat /\ StorageQuota \in Nat /\ Concurrency \in Nat
    /\ GlobalConcurrency \in Nat /\ GlobalQuota \in Nat /\ CostStop \in Nat
    /\ MaxSessions \in Nat /\ MonthLength \in Nat \ {0} /\ Lifetime \in Nat
    /\ Times \subseteq Nat
BY RelayAssumption

LEMMA ClosedOK ==
    ASSUME NEW st, Sound(st), NEW set \in SUBSET st.pending
    PROVE  LET new == Closed(st, set)
           IN  /\ Sound(new) /\ Reduces(new, st)
               /\ new.relayed + new.reserved = st.relayed + st.reserved
               /\ \A u \in Users :
                    /\ new.usage[u].uploaded + new.usage[u].reservedUp
                       = st.usage[u].uploaded + st.usage[u].reservedUp
                    /\ new.usage[u].downloaded + new.usage[u].reservedDown
                       = st.usage[u].downloaded + st.usage[u].reservedDown
<1>1. /\ st \in Snapshots /\ IsFiniteSet(st.pending) /\ GlobalOK(st)
      /\ \A u \in Users : UserOK(st.usage[u], st.pending, st.seeds, u)
  BY SoundParts
<1> DEFINE P == st.pending
           new == Closed(st, set)
<1>2. /\ new \in Snapshots /\ new.pending = P \ set
      /\ new.reserved = Less(st.reserved, Bytes(set)) /\ new.relayed = st.relayed + Bytes(set)
      /\ new.period = st.period /\ new.seeds = st.seeds /\ new.recoveries = st.recoveries
      /\ \A u \in Users : new.usage[u] =
                    IF set = {} THEN st.usage[u]
                    ELSE Spent(Freed(st.usage[u], UpOf(set, u), DownOf(set, u)),
                               UpOf(set, u), DownOf(set, u))
  BY <1>1, ClosedState
<1>3. new.kill = st.kill /\ new.emitted = st.emitted
  BY <1>1, ClosedFields, UsageType DEF Follows
<1> HIDE DEF new
<1>4. st.relayed \in Nat /\ st.reserved \in Nat /\ st.period \in Nat
  BY <1>1, UsageType
<1>5. Charged(P) /\ Charged(set)
  BY Zenon, <1>1, PendingCharged
<1>6. /\ Bytes(P) \in Nat /\ Bytes(set) \in Nat /\ Bytes(P \ set) \in Nat
      /\ Bytes(P) = Bytes(set) + Bytes(P \ set)
      /\ Cardinality(P) \in Nat /\ Cardinality(set) \in Nat /\ Cardinality(P \ set) \in Nat
      /\ Cardinality(P) = Cardinality(set) + Cardinality(P \ set)
      /\ Charged(P \ set)
  BY <1>5, BytesSplit
<1>7. /\ new.reserved = Bytes(P \ set) /\ new.reserved <= st.reserved
      /\ new.relayed + new.reserved = st.relayed + st.reserved
  <2>1. new.reserved = Bytes(P \ set)
    BY <1>1, <1>2, <1>6 DEF GlobalOK, Less
  <2> QED BY <1>1, <1>2, <1>4, <1>6, <2>1 DEF GlobalOK
<1>8. IsFiniteSet(new.pending) /\ GlobalOK(new)
  <2>1. Cardinality(P \ set) <= GlobalConcurrency
    BY SMTT(30), <1>1, <1>6, QuotaTypes DEF GlobalOK
  <2> QED BY <1>1, <1>2, <1>6, <1>7, <2>1 DEF GlobalOK, Charged
<1>9. ASSUME NEW u \in Users
      PROVE  /\ UserOK(new.usage[u], new.pending, new.seeds, u)
             /\ new.usage[u].reservedUp <= st.usage[u].reservedUp
             /\ new.usage[u].reservedDown <= st.usage[u].reservedDown
             /\ new.usage[u].uploaded + new.usage[u].reservedUp
                = st.usage[u].uploaded + st.usage[u].reservedUp
             /\ new.usage[u].downloaded + new.usage[u].reservedDown
                = st.usage[u].downloaded + st.usage[u].reservedDown
  <2>1. PICK use \in Usages : use = st.usage[u]
    BY <1>1, UsageType
  <2>2. PICK up : up = UpOf(set, u)
    OBVIOUS
  <2>3. PICK down : down = DownOf(set, u)
    OBVIOUS
  <2>4. PICK ups : ups = UpOf(P, u)
    OBVIOUS
  <2>5. PICK downs : downs = DownOf(P, u)
    OBVIOUS
  <2>6. /\ Charged(up) /\ Charged(down) /\ Charged(ups) /\ Charged(downs)
        /\ up \in SUBSET ups /\ down \in SUBSET downs
        /\ UpOf(P \ set, u) = ups \ up /\ DownOf(P \ set, u) = downs \ down
    <3>1. Charged(up) /\ Charged(down)
      BY <1>5, <2>2, <2>3, BytesType
    <3>2. Charged(ups) /\ Charged(downs)
      BY <1>5, <2>4, <2>5, BytesType
    <3> QED BY <2>2, <2>3, <2>4, <2>5, <3>1, <3>2 DEF UpOf, DownOf
  <2>7. /\ Bytes(ups) \in Nat /\ Bytes(up) \in Nat /\ Bytes(ups \ up) \in Nat
        /\ Bytes(ups) = Bytes(up) + Bytes(ups \ up)
        /\ Cardinality(ups) \in Nat /\ Cardinality(up) \in Nat /\ Cardinality(ups \ up) \in Nat
        /\ Cardinality(ups) = Cardinality(up) + Cardinality(ups \ up)
    BY <2>6, BytesSplit
  <2>8. /\ Bytes(downs) \in Nat /\ Bytes(down) \in Nat /\ Bytes(downs \ down) \in Nat
        /\ Bytes(downs) = Bytes(down) + Bytes(downs \ down)
        /\ Cardinality(downs) \in Nat /\ Cardinality(down) \in Nat /\ Cardinality(downs \ down) \in Nat
        /\ Cardinality(downs) = Cardinality(down) + Cardinality(downs \ down)
    BY Zenon, <2>6, BytesSplit
  <2>9. UserOK(use, P, st.seeds, u)
    BY <1>1, <2>1
  <2>10. /\ use.reservedUp = Bytes(ups) /\ use.reservedDown = Bytes(downs)
         /\ use.activeUp = Cardinality(ups) /\ use.activeDown = Cardinality(downs)
         /\ use.activeUp <= Concurrency /\ use.activeDown <= Concurrency
         /\ use.uploaded + use.reservedUp <= UploadQuota
         /\ use.downloaded + use.reservedDown <= DownloadQuota
         /\ use.storage = StorageOf(st.seeds, u) /\ use.storage <= StorageQuota
    BY <2>4, <2>5, <2>9 DEF UserOK
  <2>11. PICK n \in Usages : /\ n = new.usage[u] /\ n.storage = use.storage
                             /\ n.reservedUp = use.reservedUp - Bytes(up)
                             /\ n.reservedDown = use.reservedDown - Bytes(down)
                             /\ n.activeUp = use.activeUp - Cardinality(up)
                             /\ n.activeDown = use.activeDown - Cardinality(down)
                             /\ n.uploaded + n.reservedUp = use.uploaded + use.reservedUp
                             /\ n.downloaded + n.reservedDown = use.downloaded + use.reservedDown
    <3>1. CASE set = {}
      <4>1. up = {} /\ down = {} /\ Bytes(up) = 0 /\ Bytes(down) = 0
            /\ Cardinality(up) = 0 /\ Cardinality(down) = 0
        BY <2>2, <2>3, <3>1, EmptySums
      <4>2. new.usage[u] = use
        BY <1>2, <2>1, <3>1
      <4> QED BY <4>1, <4>2, UseType
    <3>2. CASE set # {}
      <4>1. new.usage[u] = Spent(Freed(use, up, down), up, down)
        BY <1>2, <2>1, <2>2, <2>3, <3>2
      <4>2. /\ Bytes(up) <= use.reservedUp /\ Bytes(down) <= use.reservedDown
            /\ Cardinality(up) <= use.activeUp /\ Cardinality(down) <= use.activeDown
        BY <2>7, <2>8, <2>10
      <4> QED BY <2>6, <4>1, <4>2, ClosedUse
    <3> QED BY <3>1, <3>2
  <2>12. n.reservedUp = Bytes(ups \ up) /\ n.activeUp = Cardinality(ups \ up)
    BY <2>7, <2>10, <2>11
  <2>13. n.reservedDown = Bytes(downs \ down) /\ n.activeDown = Cardinality(downs \ down)
    BY <2>8, <2>10, <2>11
  <2>14. n.activeUp <= Concurrency /\ n.activeDown <= Concurrency
    BY <2>7, <2>8, <2>10, <2>12, <2>13, QuotaTypes
  <2>15. UserOK(n, P \ set, st.seeds, u)
    BY Zenon, <2>6, <2>10, <2>11, <2>12, <2>13, <2>14 DEF UserOK
  <2>16. n.reservedUp <= use.reservedUp /\ n.reservedDown <= use.reservedDown
    BY <2>7, <2>8, <2>10, <2>12, <2>13
  <2> QED BY <1>2, <2>1, <2>11, <2>15, <2>16
<1>10. Sound(new)
  BY Zenon, <1>2, <1>8, <1>9, SoundParts
<1>11. \A u \in Users : new.usage[u] \in Usages /\ st.usage[u] \in Usages
  BY <1>1, <1>2, UsageType
<1>12. \A a, b, a0, b0, p \in Nat : b <= b0 /\ a + b = a0 + b0 => Within(p, a, b, p, a0, b0)
  BY DEF Within
<1>13. Within(new.period, new.relayed, new.reserved, st.period, st.relayed, st.reserved)
  <2>1. new.relayed \in Nat /\ new.reserved \in Nat
    BY <1>2, UsageType
  <2> QED BY SMTT(30), <1>2, <1>4, <1>7, <1>12, <2>1
<1>14. ASSUME NEW u \in Users
       PROVE  LET n == new.usage[u]
                  o == st.usage[u]
              IN  /\ Within(new.period, n.uploaded, n.reservedUp, st.period, o.uploaded, o.reservedUp)
                  /\ Within(new.period, n.downloaded, n.reservedDown, st.period, o.downloaded, o.reservedDown)
  BY Zenon, <1>2, <1>4, <1>9, <1>11, <1>12, UseType
<1>15. Reduces(new, st)
  BY <1>2, <1>3, <1>4, <1>13, <1>14 DEF Reduces
<1> QED BY <1>7, <1>9, <1>10, <1>15 DEF new

LEMMA RolledState ==
    ASSUME NEW st \in Snapshots, NEW p \in Nat, st.period < p
    PROVE  /\ Rolled(st, p) \in Snapshots
           /\ Rolled(st, p).period = p /\ Rolled(st, p).relayed = 0
           /\ Rolled(st, p).reserved = st.reserved /\ Rolled(st, p).pending = st.pending
           /\ Rolled(st, p).seeds = st.seeds /\ Rolled(st, p).recoveries = st.recoveries
           /\ \A u \in Users : Rolled(st, p).usage[u] = Reset(st.usage[u])
<1>1. \A use \in Usages : Reset(use) \in Usages
  BY Zenon DEF Usages, Reset
<1>2. PICK use \in [Users -> Usages] : use = [u \in Users |-> Reset(st.usage[u])]
  BY Zenon, <1>1, UsageType
<1>3. ~(p <= st.period)
  BY UsageType
<1>4. Rolled(st, p) = [st EXCEPT !.period = p, !.relayed = 0, !.usage = use]
  BY <1>2, <1>3, Zenon DEF Rolled
<1>5. PICK new : new = [st EXCEPT !.period = p, !.relayed = 0, !.usage = use]
  OBVIOUS
<1>6. /\ new \in Snapshots /\ new.period = p /\ new.relayed = 0 /\ new.usage = use
      /\ new.reserved = st.reserved /\ new.pending = st.pending /\ new.seeds = st.seeds
      /\ new.recoveries = st.recoveries
  BY Zenon, <1>5 DEF Snapshots
<1> QED BY <1>2, <1>4, <1>5, <1>6

LEMMA ResetUse ==
    ASSUME NEW use \in Usages
    PROVE  /\ Reset(use) \in Usages /\ Reset(use).uploaded = 0 /\ Reset(use).downloaded = 0
           /\ Reset(use).reservedUp = use.reservedUp /\ Reset(use).reservedDown = use.reservedDown
           /\ Reset(use).activeUp = use.activeUp /\ Reset(use).activeDown = use.activeDown
           /\ Reset(use).storage = use.storage
BY Zenon DEF Usages, Reset

LEMMA RolledOK ==
    ASSUME NEW st, Sound(st), NEW p \in Nat
    PROVE  /\ Sound(Rolled(st, p)) /\ Reduces(Rolled(st, p), st)
           /\ Rolled(st, p).pending = st.pending /\ p <= Rolled(st, p).period
<1>1. /\ st \in Snapshots /\ IsFiniteSet(st.pending) /\ GlobalOK(st)
      /\ \A u \in Users : UserOK(st.usage[u], st.pending, st.seeds, u)
  BY SoundParts
<1>2. st.relayed \in Nat /\ st.reserved \in Nat /\ st.period \in Nat
  BY <1>1, UsageType
<1>3. CASE p <= st.period
  <2>1. Rolled(st, p) = st
    BY <1>3 DEF Rolled
  <2> QED BY <1>1, <1>3, <2>1, ReducesSelf
<1>4. CASE st.period < p
  <2> DEFINE new == Rolled(st, p)
  <2>1. /\ new \in Snapshots /\ new.period = p /\ new.relayed = 0
        /\ new.reserved = st.reserved /\ new.pending = st.pending /\ new.seeds = st.seeds
        /\ new.recoveries = st.recoveries /\ \A u \in Users : new.usage[u] = Reset(st.usage[u])
    BY <1>1, <1>4, RolledState
  <2>2. new.kill = st.kill /\ new.emitted = st.emitted
    BY <1>1, RolledFields, UsageType DEF Follows
  <2> HIDE DEF new
  <2>3. IsFiniteSet(new.pending) /\ GlobalOK(new)
    BY <1>1, <1>2, <2>1, QuotaTypes DEF GlobalOK
  <2>4. \A a, b \in Nat : Within(p, 0, b, st.period, a, b)
    BY SMTT(30), <1>2, <1>4 DEF Within
  <2>5. ASSUME NEW u \in Users
        PROVE  /\ UserOK(new.usage[u], new.pending, new.seeds, u)
               /\ LET n == new.usage[u]
                      o == st.usage[u]
                  IN  /\ Within(p, n.uploaded, n.reservedUp, st.period, o.uploaded, o.reservedUp)
                      /\ Within(p, n.downloaded, n.reservedDown, st.period, o.downloaded, o.reservedDown)
    <3>1. PICK use \in Usages : use = st.usage[u]
      BY <1>1, UsageType
    <3>2. PICK n \in Usages :
            /\ n = new.usage[u] /\ n.uploaded = 0 /\ n.downloaded = 0
            /\ n.reservedUp = use.reservedUp /\ n.reservedDown = use.reservedDown
            /\ n.activeUp = use.activeUp /\ n.activeDown = use.activeDown /\ n.storage = use.storage
      BY <2>1, <3>1, ResetUse
    <3>3. /\ n.uploaded + n.reservedUp <= UploadQuota
          /\ n.downloaded + n.reservedDown <= DownloadQuota
      BY SMTT(30), <1>1, <3>1, <3>2, UseType, QuotaTypes DEF UserOK
    <3>4. UserOK(n, st.pending, st.seeds, u)
      BY <1>1, <3>1, <3>2, <3>3 DEF UserOK
    <3>5. /\ Within(p, n.uploaded, n.reservedUp, st.period, use.uploaded, use.reservedUp)
          /\ Within(p, n.downloaded, n.reservedDown, st.period, use.downloaded, use.reservedDown)
      BY <2>4, <3>2, UseType
    <3> QED BY <2>1, <3>1, <3>2, <3>4, <3>5
  <2>6. Sound(new)
    BY <2>1, <2>3, <2>5, SoundParts
  <2>7. Within(p, new.relayed, new.reserved, st.period, st.relayed, st.reserved)
    BY <1>2, <2>1, <2>4
  <2>8. Reduces(new, st)
    BY <1>2, <1>4, <2>1, <2>2, <2>5, <2>7 DEF Reduces
  <2> QED BY <2>1, <2>6, <2>8 DEF new
<1> QED BY <1>2, <1>3, <1>4

LEMMA DroppedUse ==
    ASSUME NEW use \in Usages, NEW b \in Nat
    PROVE  /\ Dropped(use, b) \in Usages /\ Dropped(use, b).storage = Less(use.storage, b)
           /\ Dropped(use, b).uploaded = use.uploaded /\ Dropped(use, b).downloaded = use.downloaded
           /\ Dropped(use, b).reservedUp = use.reservedUp /\ Dropped(use, b).reservedDown = use.reservedDown
           /\ Dropped(use, b).activeUp = use.activeUp /\ Dropped(use, b).activeDown = use.activeDown
<1>1. PICK a \in Nat : a = Less(use.storage, b)
  BY Zenon, LessType, UseType
<1>2. Dropped(use, b) = [use EXCEPT !.storage = a]
  BY <1>1, Zenon DEF Dropped
<1> QED BY <1>1, <1>2 DEF Usages

\* A ledger with the same transfers, where only what is advertised changed.
Restocked(new, st) ==
    /\ new \in Snapshots /\ new.kill = st.kill /\ new.emitted = st.emitted
    /\ new.recoveries = st.recoveries /\ new.period = st.period /\ new.relayed = st.relayed
    /\ new.reserved = st.reserved /\ new.pending = st.pending
    /\ \A u \in Users :
        LET n == new.usage[u]
            o == st.usage[u]
        IN  /\ n.uploaded = o.uploaded /\ n.downloaded = o.downloaded
            /\ n.reservedUp = o.reservedUp /\ n.reservedDown = o.reservedDown
            /\ n.activeUp = o.activeUp /\ n.activeDown = o.activeDown
            /\ n.storage = StorageOf(new.seeds, u) /\ n.storage <= StorageQuota

LEMMA RestockedOK ==
    ASSUME NEW st, Sound(st), NEW new, Restocked(new, st)
    PROVE  Sound(new) /\ Reduces(new, st)
<1>1. /\ st \in Snapshots /\ IsFiniteSet(st.pending) /\ GlobalOK(st)
      /\ \A u \in Users : UserOK(st.usage[u], st.pending, st.seeds, u)
  BY SoundParts
<1>2. new \in Snapshots /\ IsFiniteSet(new.pending) /\ GlobalOK(new)
  BY <1>1 DEF Restocked, GlobalOK
<1>3. \A u \in Users : UserOK(new.usage[u], new.pending, new.seeds, u)
  BY <1>1 DEF Restocked, UserOK
<1>4. Reduces(st, st)
  BY <1>1, ReducesSelf
<1>5. Reduces(new, st)
  BY <1>4 DEF Restocked, Reduces
<1> QED BY <1>2, <1>3, <1>5, SoundParts

LEMMA TrimmedOK ==
    ASSUME NEW st, Sound(st), NEW now
    PROVE  /\ Sound(Trimmed(st, now)) /\ Reduces(Trimmed(st, now), st)
           /\ Restocked(Trimmed(st, now), st)
<1>1. /\ st \in Snapshots /\ IsFiniteSet(st.pending) /\ GlobalOK(st)
      /\ \A u \in Users : UserOK(st.usage[u], st.pending, st.seeds, u)
  BY SoundParts
<1> DEFINE old == {e \in st.seeds : Retained[e[2]] <= now}
           new == Trimmed(st, now)
<1>2. CASE old = {}
  <2>1. new = st
    BY <1>2 DEF Trimmed
  <2>2. Restocked(st, st)
    BY <1>1 DEF Restocked, UserOK
  <2> QED BY <1>1, <2>1, <2>2, ReducesSelf
<1>3. CASE old # {}
  <2>1. st.seeds \in SUBSET (Users \X Objects) /\ old \in SUBSET st.seeds
    BY <1>1, UsageType
  <2>2. new = [st EXCEPT !.seeds = @ \ old, !.usage = [u \in Users |-> Dropped(@[u], StorageOf(old, u))]]
    BY <1>3, Zenon DEF Trimmed
  <2> HIDE DEF old, new
  <2>3. ASSUME NEW u
        PROVE  /\ StorageOf(st.seeds, u) \in Nat /\ StorageOf(old, u) \in Nat
               /\ StorageOf(st.seeds \ old, u) \in Nat
               /\ StorageOf(st.seeds, u) = StorageOf(old, u) + StorageOf(st.seeds \ old, u)
    BY Zenon, <2>1, StorageSplit
  <2>4. PICK use \in [Users -> Usages] : use = [u \in Users |-> Dropped(st.usage[u], StorageOf(old, u))]
    BY Zenon, <1>1, <2>3, UsageType, DroppedUse
  <2>5. PICK seeds \in SUBSET (Users \X Objects) : seeds = st.seeds \ old
    BY Zenon, <2>1
  <2>6. new = [st EXCEPT !.seeds = seeds, !.usage = use]
    BY <2>2, <2>4, <2>5, Zenon
  <2>7. /\ new \in Snapshots /\ new.seeds = seeds /\ new.usage = use /\ new.kill = st.kill
        /\ new.emitted = st.emitted /\ new.recoveries = st.recoveries /\ new.period = st.period
        /\ new.relayed = st.relayed /\ new.reserved = st.reserved /\ new.pending = st.pending
    BY Zenon, <1>1, <2>6 DEF Snapshots
  <2>8. ASSUME NEW u \in Users
        PROVE  LET n == new.usage[u]
                   o == st.usage[u]
               IN  /\ n.uploaded = o.uploaded /\ n.downloaded = o.downloaded
                   /\ n.reservedUp = o.reservedUp /\ n.reservedDown = o.reservedDown
                   /\ n.activeUp = o.activeUp /\ n.activeDown = o.activeDown
                   /\ n.storage = StorageOf(new.seeds, u) /\ n.storage <= StorageQuota
    <3>1. PICK o \in Usages : o = st.usage[u]
      BY <1>1, UsageType
    <3>2. new.usage[u] = Dropped(o, StorageOf(old, u))
      BY <2>4, <2>7, <3>1
    <3>3. PICK n \in Usages :
            /\ n = new.usage[u] /\ n.storage = Less(o.storage, StorageOf(old, u))
            /\ n.uploaded = o.uploaded /\ n.downloaded = o.downloaded
            /\ n.reservedUp = o.reservedUp /\ n.reservedDown = o.reservedDown
            /\ n.activeUp = o.activeUp /\ n.activeDown = o.activeDown
      BY Zenon, <2>3, <3>2, DroppedUse
    <3>4. o.storage = StorageOf(st.seeds, u) /\ o.storage <= StorageQuota /\ o.storage \in Nat
      BY <1>1, <3>1, UseType DEF UserOK
    <3>5. /\ Less(o.storage, StorageOf(old, u)) = StorageOf(st.seeds \ old, u)
          /\ Less(o.storage, StorageOf(old, u)) <= StorageQuota
      <4>1. \A b, c, d, q \in Nat : b = c + d /\ b <= q => Less(b, c) = d /\ Less(b, c) <= q
        BY DEF Less
      <4>2. PICK b, c, d, q \in Nat :
              b = o.storage /\ c = StorageOf(old, u) /\ d = StorageOf(st.seeds \ old, u) /\ q = StorageQuota
        BY Zenon, <2>3, <3>4, QuotaTypes
      <4>3. b = c + d /\ b <= q
        BY Zenon, <2>3, <3>4, <4>2
      <4>4. Less(b, c) = d /\ Less(b, c) <= q
        BY Zenon, <4>1, <4>3
      <4> QED BY <4>2, <4>4
    <3> QED BY <2>5, <2>7, <3>1, <3>3, <3>5
  <2>9. Restocked(new, st)
    BY <2>7, <2>8 DEF Restocked
  <2> QED BY <2>9, RestockedOK DEF new
<1> QED BY <1>2, <1>3

LEMMA StockedUse ==
    ASSUME NEW use \in Usages, NEW b \in Nat
    PROVE  LET n == [use EXCEPT !.storage = @ + b]
           IN  /\ n \in Usages /\ n.storage = use.storage + b
               /\ n.uploaded = use.uploaded /\ n.downloaded = use.downloaded
               /\ n.reservedUp = use.reservedUp /\ n.reservedDown = use.reservedDown
               /\ n.activeUp = use.activeUp /\ n.activeDown = use.activeDown
<1>1. PICK a \in Nat : a = use.storage + b
  BY UseType
<1>2. [use EXCEPT !.storage = @ + b] = [use EXCEPT !.storage = a]
  BY <1>1, Zenon
<1> QED BY <1>1, <1>2 DEF Usages

\* Advertise's two steps: the storage of an advertisement is counted, and then
\* it is made.
Stocked(st, u, o) ==
    IF <<u, o>> \in st.seeds THEN st ELSE [st EXCEPT !.usage[u].storage = @ + Size[o]]
Seeded(st, u, o) == [Stocked(st, u, o) EXCEPT !.seeds = @ \cup {<<u, o>>}]

LEMMA AdvertisedOK ==
    ASSUME NEW st, Sound(st), NEW u \in Users, NEW o \in Objects,
           <<u, o>> \in st.seeds \/ Stocked(st, u, o).usage[u].storage <= StorageQuota
    PROVE  Sound(Seeded(st, u, o)) /\ Seeded(st, u, o).pending = st.pending
<1> DEFINE more == Stocked(st, u, o)
           next == Seeded(st, u, o)
<1>1. /\ st \in Snapshots /\ IsFiniteSet(st.pending) /\ GlobalOK(st)
      /\ \A v \in Users : UserOK(st.usage[v], st.pending, st.seeds, v)
  BY SoundParts
<1>2. st.seeds \in SUBSET (Users \X Objects) /\ Size[o] \in Nat
  BY <1>1, UsageType, SizeNat
<1>3. CASE <<u, o>> \in st.seeds
  <2>1. more = st
    BY <1>3 DEF Stocked
  <2>2. st.seeds \cup {<<u, o>>} = st.seeds
    BY <1>3
  <2>3. next = [st EXCEPT !.seeds = st.seeds]
    BY <2>1, <2>2, Zenon DEF Seeded
  <2>4. next = st
    BY <1>1, <2>3 DEF Snapshots
  <2> QED BY Zenon, <2>4
<1>4. CASE <<u, o>> \notin st.seeds
  <2>1. PICK use \in [Users -> Usages] :
            use = [v \in Users |-> IF v = u THEN [st.usage[u] EXCEPT !.storage = @ + Size[o]] ELSE st.usage[v]]
    BY Zenon, <1>1, <1>2, UsageType, StockedUse
  <2>2. more = [st EXCEPT !.usage = use]
    <3>1. use = [st.usage EXCEPT ![u] = [st.usage[u] EXCEPT !.storage = @ + Size[o]]]
      BY <1>1, <2>1, UsageType
    <3> QED BY <1>4, <3>1, Zenon DEF Stocked
  <2>0. more.usage[u].storage <= StorageQuota
    BY <1>4
  <2> HIDE DEF more
  <2>3. /\ more \in Snapshots /\ more.seeds = st.seeds /\ more.usage = use /\ more.kill = st.kill
        /\ more.emitted = st.emitted /\ more.recoveries = st.recoveries /\ more.period = st.period
        /\ more.relayed = st.relayed /\ more.reserved = st.reserved /\ more.pending = st.pending
    BY <1>1, <2>2 DEF Snapshots
  <2>4. PICK seeds \in SUBSET (Users \X Objects) : seeds = st.seeds \cup {<<u, o>>}
    <3>1. <<u, o>> \in Users \X Objects
      OBVIOUS
    <3>2. st.seeds \cup {<<u, o>>} \in SUBSET (Users \X Objects)
      BY <1>2, <3>1, Zenon
    <3> QED BY <3>2, Zenon
  <2>5. next = [more EXCEPT !.seeds = seeds]
    BY <2>3, <2>4, Zenon DEF Seeded, more
  <2> HIDE DEF next
  <2>6. /\ next \in Snapshots /\ next.seeds = seeds /\ next.usage = use /\ next.kill = st.kill
        /\ next.emitted = st.emitted /\ next.recoveries = st.recoveries /\ next.period = st.period
        /\ next.relayed = st.relayed /\ next.reserved = st.reserved /\ next.pending = st.pending
    BY SMTT(30), <2>3, <2>5 DEF Snapshots
  <2>7. ASSUME NEW v \in Users
        PROVE  LET n == use[v]
                   m == st.usage[v]
               IN  /\ n.uploaded = m.uploaded /\ n.downloaded = m.downloaded
                   /\ n.reservedUp = m.reservedUp /\ n.reservedDown = m.reservedDown
                   /\ n.activeUp = m.activeUp /\ n.activeDown = m.activeDown
                   /\ n.storage = StorageOf(seeds, v) /\ n.storage <= StorageQuota
    <3>1. PICK m \in Usages : m = st.usage[v]
      BY <1>1, UsageType
    <3>2. /\ StorageOf(st.seeds, v) \in Nat
          /\ v = u => StorageOf(seeds, v) = StorageOf(st.seeds, v) + Size[o]
          /\ v # u => StorageOf(seeds, v) = StorageOf(st.seeds, v)
      <4>1. PICK old \in SUBSET (Users \X Objects) : old = st.seeds
        BY <1>2
      <4>2. AddsSeed(old, seeds, u, o)
        BY Zenon, <1>4, <2>4, <4>1 DEF AddsSeed
      <4>3. AddsStorage(old, seeds, u, o, v)
        BY Zenon, <4>2, StorageAdd
      <4> QED BY Zenon, <4>1, <4>3 DEF AddsStorage
    <3>3. m.storage = StorageOf(st.seeds, v) /\ m.storage <= StorageQuota /\ m.storage \in Nat
      BY <1>1, <3>1, UseType DEF UserOK
    <3>4. CASE v = u
      <4>1. use[v] = [m EXCEPT !.storage = @ + Size[o]]
        BY <2>1, <3>1, <3>4
      <4>2. PICK n \in Usages :
            /\ n = use[v] /\ n.storage = m.storage + Size[o]
            /\ n.uploaded = m.uploaded /\ n.downloaded = m.downloaded
            /\ n.reservedUp = m.reservedUp /\ n.reservedDown = m.reservedDown
            /\ n.activeUp = m.activeUp /\ n.activeDown = m.activeDown
        BY Zenon, <1>2, <4>1, StockedUse
      <4>3. n.storage = StorageOf(seeds, v) /\ n.storage <= StorageQuota
        BY SMTT(30), <1>2, <2>0, <2>3, <3>2, <3>3, <3>4, <4>2
      <4> QED BY <3>1, <4>2, <4>3
    <3>5. CASE v # u
      <4>1. use[v] = m
        BY <2>1, <3>1, <3>5
      <4> QED BY <3>1, <3>2, <3>3, <3>5, <4>1
    <3> QED BY SMTT(30), <3>4, <3>5
  <2>8. Restocked(next, st)
    BY <2>6, <2>7 DEF Restocked
  <2> QED BY <2>6, <2>8, RestockedOK DEF next
<1> QED BY <1>3, <1>4

\* A user's part of the ledger after a reservation of b bytes, as seed or as requester.
LEMMA HeldUse ==
    ASSUME NEW use \in Usages, NEW b \in Nat
    PROVE  /\ HeldUp(use, b) \in Usages
           /\ HeldUp(use, b).reservedUp = use.reservedUp + b /\ HeldUp(use, b).activeUp = use.activeUp + 1
           /\ HeldUp(use, b).reservedDown = use.reservedDown /\ HeldUp(use, b).activeDown = use.activeDown
           /\ HeldUp(use, b).uploaded = use.uploaded /\ HeldUp(use, b).downloaded = use.downloaded
           /\ HeldUp(use, b).storage = use.storage
           /\ HeldDown(use, b) \in Usages
           /\ HeldDown(use, b).reservedDown = use.reservedDown + b
           /\ HeldDown(use, b).activeDown = use.activeDown + 1
           /\ HeldDown(use, b).reservedUp = use.reservedUp /\ HeldDown(use, b).activeUp = use.activeUp
           /\ HeldDown(use, b).uploaded = use.uploaded /\ HeldDown(use, b).downloaded = use.downloaded
           /\ HeldDown(use, b).storage = use.storage
<1>1. PICK p \in Nat : p = use.reservedUp + b
  BY UseType
<1>2. PICK q \in Nat : q = use.activeUp + 1
  BY UseType
<1>3. PICK r \in Nat : r = use.reservedDown + b
  BY UseType
<1>4. PICK s \in Nat : s = use.activeDown + 1
  BY UseType
<1>5. PICK m : m = [use EXCEPT !.reservedUp = p, !.activeUp = q]
  OBVIOUS
<1>6. PICK n : n = [use EXCEPT !.reservedDown = r, !.activeDown = s]
  OBVIOUS
<1>7. HeldUp(use, b) = m /\ HeldDown(use, b) = n
  BY <1>1, <1>2, <1>3, <1>4, <1>5, <1>6, Zenon DEF HeldUp, HeldDown
<1>8. /\ m \in Usages /\ m.reservedUp = p /\ m.activeUp = q /\ m.reservedDown = use.reservedDown
      /\ m.activeDown = use.activeDown /\ m.uploaded = use.uploaded /\ m.downloaded = use.downloaded
      /\ m.storage = use.storage
  BY Zenon, <1>5 DEF Usages
<1>9. /\ n \in Usages /\ n.reservedDown = r /\ n.activeDown = s /\ n.reservedUp = use.reservedUp
      /\ n.activeUp = use.activeUp /\ n.uploaded = use.uploaded /\ n.downloaded = use.downloaded
      /\ n.storage = use.storage
  BY Zenon, <1>6 DEF Usages
<1> QED BY <1>1, <1>2, <1>3, <1>4, <1>7, <1>8, <1>9

LEMMA ReservedState ==
    ASSUME NEW st \in Snapshots, NEW up \in Users, NEW down \in Users, up # down, NEW b \in Nat
    PROVE  LET new == Reserved(st, up, down, b)
           IN  /\ new \in Snapshots /\ new.reserved = st.reserved + b
               /\ new.kill = st.kill /\ new.emitted = st.emitted /\ new.recoveries = st.recoveries
               /\ new.period = st.period /\ new.relayed = st.relayed /\ new.pending = st.pending
               /\ new.seeds = st.seeds
               /\ new.usage[up] = HeldUp(st.usage[up], b) /\ new.usage[down] = HeldDown(st.usage[down], b)
               /\ \A u \in Users \ {up, down} : new.usage[u] = st.usage[u]
<1> DEFINE new == Reserved(st, up, down, b)
<1>1. PICK r \in Nat : r = st.reserved + b
  BY UsageType
<1>2. PICK f \in [Users -> Usages] : f = st.usage
  BY UsageType
<1>3. PICK g \in [Users -> Usages] : g = [f EXCEPT ![up] = HeldUp(f[up], b), ![down] = HeldDown(f[down], b)]
  BY Zenon, HeldUse
<1>4. new = [st EXCEPT !.reserved = r, !.usage = g]
  BY <1>1, <1>2, <1>3, Zenon DEF Reserved
<1> HIDE DEF new
<1>5. /\ new \in Snapshots /\ new.reserved = r
      /\ new.kill = st.kill /\ new.emitted = st.emitted /\ new.recoveries = st.recoveries
      /\ new.period = st.period /\ new.relayed = st.relayed /\ new.pending = st.pending
      /\ new.seeds = st.seeds /\ new.usage = g
  BY Zenon, <1>4 DEF Snapshots
<1> QED BY <1>1, <1>2, <1>3, <1>5 DEF new

LEMMA ReserveRoom ==
    ASSUME NEW st, NEW up, NEW down, NEW b, MayReserve(st, up, down, b)
    PROVE  /\ st.usage[up].activeUp < Concurrency /\ st.usage[down].activeDown < Concurrency
           /\ st.usage[up].uploaded + st.usage[up].reservedUp + b <= UploadQuota
           /\ st.usage[down].downloaded + st.usage[down].reservedDown + b <= DownloadQuota
BY Zenon DEF MayReserve

LEMMA GrantedOK ==
    ASSUME NEW st, Sound(st), NEW up \in Users, NEW down \in Users, up # down, NEW o \in Objects,
           MayReserve(st, up, down, Size[o]),
           NEW s \in Sessions, s \notin st.pending, s.object = o, s.up = up, s.down = down
    PROVE  Sound([Reserved(st, up, down, Size[o]) EXCEPT !.pending = @ \cup {s}])
<1>1. /\ st \in Snapshots /\ IsFiniteSet(st.pending) /\ GlobalOK(st)
      /\ \A u \in Users : UserOK(st.usage[u], st.pending, st.seeds, u)
  BY SoundParts
<1>2. PICK b \in Nat : b = Size[o]
  BY SMTT(30), SizeNat
<1> DEFINE mid == Reserved(st, up, down, b)
           new == [mid EXCEPT !.pending = @ \cup {s}]
           P == st.pending
           Q == P \cup {s}
<1>3. /\ mid \in Snapshots /\ mid.reserved = st.reserved + b
      /\ mid.relayed = st.relayed /\ mid.pending = st.pending /\ mid.seeds = st.seeds
      /\ mid.usage[up] = HeldUp(st.usage[up], b) /\ mid.usage[down] = HeldDown(st.usage[down], b)
      /\ \A u \in Users \ {up, down} : mid.usage[u] = st.usage[u]
  BY SMTT(30), <1>1, ReservedState
<1> HIDE DEF mid
<1>4. Q \subseteq Sessions
  BY <1>1, UsageType
<1>5. new = [mid EXCEPT !.pending = Q]
  BY <1>3, Zenon
<1> HIDE DEF new
<1>6. /\ new \in Snapshots /\ new.reserved = st.reserved + b /\ new.relayed = st.relayed
      /\ new.pending = Q /\ new.seeds = st.seeds /\ new.usage = mid.usage
  <2> HIDE DEF Q
  <2> QED BY SMTT(30), <1>3, <1>4, <1>5 DEF Snapshots
<1>7. Charged(P)
  BY Zenon, <1>1, PendingCharged
<1>8. /\ Charged(Q) /\ Bytes(P) \in Nat /\ Bytes(Q) = Bytes(P) + b
      /\ Cardinality(P) \in Nat /\ Cardinality(Q) = Cardinality(P) + 1
  BY <1>2, <1>7, BytesAdd
<1>9. st.relayed \in Nat /\ st.reserved \in Nat
  BY <1>1, UsageType
<1>10. IsFiniteSet(new.pending) /\ GlobalOK(new)
  <2>1. /\ Cardinality(P) < GlobalConcurrency /\ st.reserved = Bytes(P)
        /\ st.relayed + st.reserved + b <= GlobalQuota /\ st.relayed + st.reserved + b <= CostStop
    BY <1>1, <1>2 DEF MayReserve, GlobalOK
  <2>2. Cardinality(Q) <= GlobalConcurrency
    BY <1>8, <2>1, QuotaTypes
  <2>3. st.relayed + (st.reserved + b) = st.relayed + st.reserved + b
    BY <1>9
  <2> HIDE DEF P, Q
  <2> QED BY SMTT(30), <1>6, <1>8, <2>1, <2>2, <2>3 DEF GlobalOK, Charged
<1>11. ASSUME NEW u \in Users PROVE UserOK(new.usage[u], Q, st.seeds, u)
  <2>1. PICK use \in Usages : use = st.usage[u] /\ UserOK(use, P, st.seeds, u)
    BY <1>1, UsageType
  <2>2. Charged(UpOf(P, u)) /\ Charged(DownOf(P, u)) /\ s \notin UpOf(P, u) /\ s \notin DownOf(P, u)
    BY ZenonT(30), <1>7, BytesType DEF UpOf, DownOf
  <2>3. CASE u = up
    <3>1. UpOf(Q, u) = UpOf(P, u) \cup {s} /\ DownOf(Q, u) = DownOf(P, u)
      BY SMTT(30), <2>3 DEF UpOf, DownOf
    <3>2. /\ Bytes(UpOf(P, u)) \in Nat /\ Bytes(UpOf(Q, u)) = Bytes(UpOf(P, u)) + b
          /\ Cardinality(UpOf(P, u)) \in Nat /\ Cardinality(UpOf(Q, u)) = Cardinality(UpOf(P, u)) + 1
      BY Zenon, <1>2, <2>2, <3>1, BytesAdd
    <3>3. PICK n \in Usages :
            /\ n = new.usage[u] /\ n.reservedUp = use.reservedUp + b /\ n.activeUp = use.activeUp + 1
            /\ n.reservedDown = use.reservedDown /\ n.activeDown = use.activeDown
            /\ n.uploaded = use.uploaded /\ n.downloaded = use.downloaded /\ n.storage = use.storage
      <4>1. new.usage[u] = HeldUp(use, b)
        BY SMTT(30), <1>3, <1>6, <2>1, <2>3
      <4> QED BY <4>1, HeldUse
    <3>4. use.activeUp < Concurrency /\ use.uploaded + use.reservedUp + b <= UploadQuota
      BY Zenon, <1>2, <2>1, <2>3, ReserveRoom
    <3>5. n.activeUp <= Concurrency /\ n.uploaded + n.reservedUp <= UploadQuota
      BY SMTT(30), <3>3, <3>4, UseType, QuotaTypes
    <3> QED BY Zenon, <2>1, <3>1, <3>2, <3>3, <3>5 DEF UserOK
  <2>4. CASE u = down
    <3>1. DownOf(Q, u) = DownOf(P, u) \cup {s} /\ UpOf(Q, u) = UpOf(P, u)
      BY SMTT(30), <2>4 DEF UpOf, DownOf
    <3>2. /\ Bytes(DownOf(P, u)) \in Nat /\ Bytes(DownOf(Q, u)) = Bytes(DownOf(P, u)) + b
          /\ Cardinality(DownOf(P, u)) \in Nat
          /\ Cardinality(DownOf(Q, u)) = Cardinality(DownOf(P, u)) + 1
      BY Zenon, <1>2, <2>2, <3>1, BytesAdd
    <3>3. PICK n \in Usages :
            /\ n = new.usage[u] /\ n.reservedDown = use.reservedDown + b
            /\ n.activeDown = use.activeDown + 1
            /\ n.reservedUp = use.reservedUp /\ n.activeUp = use.activeUp
            /\ n.uploaded = use.uploaded /\ n.downloaded = use.downloaded /\ n.storage = use.storage
      <4>1. new.usage[u] = HeldDown(use, b)
        BY SMTT(30), <1>3, <1>6, <2>1, <2>4
      <4> QED BY SMTT(30), <4>1, HeldUse
    <3>4. use.activeDown < Concurrency /\ use.downloaded + use.reservedDown + b <= DownloadQuota
      BY Zenon, <1>2, <2>1, <2>4, ReserveRoom
    <3>5. n.activeDown <= Concurrency /\ n.downloaded + n.reservedDown <= DownloadQuota
      BY SMTT(30), <3>3, <3>4, UseType, QuotaTypes
    <3> QED BY SMTT(30), <2>1, <3>1, <3>2, <3>3, <3>5 DEF UserOK
  <2>5. CASE u \notin {up, down}
    <3>1. UpOf(Q, u) = UpOf(P, u) /\ DownOf(Q, u) = DownOf(P, u)
      BY SMTT(30), <2>5 DEF UpOf, DownOf
    <3>2. new.usage[u] = use
      BY SMTT(30), <1>3, <1>6, <2>1, <2>5
    <3> QED BY <2>1, <3>1, <3>2 DEF UserOK
  <2> QED BY <2>3, <2>4, <2>5
<1>12. Sound(new)
  BY Zenon, <1>6, <1>10, <1>11, SoundParts
<1> QED BY <1>2, <1>12 DEF new, mid

\* A reservation that is given back leaves the ledger as it was.
LEMMA UnissuedOK ==
    ASSUME NEW st, Sound(st), NEW up \in Users, NEW down \in Users, up # down, NEW o \in Objects
    PROVE  Sound(Unissued(st, up, down, o)) /\ Reduces(Unissued(st, up, down, o), st)
<1>1. /\ st \in Snapshots /\ IsFiniteSet(st.pending) /\ GlobalOK(st)
      /\ \A u \in Users : UserOK(st.usage[u], st.pending, st.seeds, u)
  BY SoundParts
<1>2. PICK b \in Nat : b = Size[o]
  BY SizeNat
<1>3. PICK s : s = [id |-> 0, object |-> o, up |-> up, down |-> down, expires |-> 0, done |-> {}]
  BY Zenon
<1>4. s.object = o /\ s.up = up /\ s.down = down
  BY <1>3
<1>5. Charged({s}) /\ Bytes({s}) = b /\ Cardinality({s}) = 1
  <2>1. Charged({}) /\ Bytes({}) = 0 /\ Cardinality({}) = 0 /\ s \notin {}
    BY EmptySums
  <2>2. /\ Charged({} \cup {s}) /\ Bytes({} \cup {s}) = Bytes({}) + Size[o]
        /\ Cardinality({} \cup {s}) = Cardinality({}) + 1
    BY <1>4, <2>1, BytesAdd
  <2>3. {} \cup {s} = {s}
    OBVIOUS
  <2> QED BY <1>2, <2>1, <2>2, <2>3
<1> DEFINE mid == Reserved(st, up, down, b)
           new == Released(mid, {s})
<1>6. /\ mid \in Snapshots /\ mid.reserved = st.reserved + b
      /\ mid.kill = st.kill /\ mid.emitted = st.emitted /\ mid.recoveries = st.recoveries
      /\ mid.period = st.period /\ mid.relayed = st.relayed /\ mid.pending = st.pending
      /\ mid.seeds = st.seeds
      /\ mid.usage[up] = HeldUp(st.usage[up], b) /\ mid.usage[down] = HeldDown(st.usage[down], b)
      /\ \A u \in Users \ {up, down} : mid.usage[u] = st.usage[u]
  BY SMTT(30), <1>1, ReservedState
<1> HIDE DEF mid
<1>7. /\ new \in Snapshots /\ new.reserved = Less(mid.reserved, b) /\ new.relayed = mid.relayed
      /\ new.period = mid.period /\ new.seeds = mid.seeds /\ new.recoveries = mid.recoveries
      /\ \A u \in Users : new.usage[u] = Freed(mid.usage[u], UpOf({s}, u), DownOf({s}, u))
  BY ZenonT(30), <1>5, <1>6, ReleasedState
<1>8. new.kill = mid.kill /\ new.emitted = mid.emitted /\ new.pending = mid.pending
  BY SMTT(30), <1>6, UsageType, ReleasedFields DEF Follows
<1> HIDE DEF new
<1>9. new.reserved = st.reserved
  <2>1. PICK r \in Nat : r = st.reserved
    BY <1>1, UsageType
  <2>2. Less(r + b, b) = r
    BY SMTT(30), LessType
  <2> QED BY <1>6, <1>7, <2>1, <2>2
<1>10. ASSUME NEW u \in Users
       PROVE  LET n == new.usage[u]
                  m == st.usage[u]
              IN  /\ n.uploaded = m.uploaded /\ n.downloaded = m.downloaded
                  /\ n.reservedUp = m.reservedUp /\ n.reservedDown = m.reservedDown
                  /\ n.activeUp = m.activeUp /\ n.activeDown = m.activeDown
                  /\ n.storage = m.storage
  <2>1. PICK m \in Usages : m = st.usage[u]
    BY <1>1, UsageType
  <2>2. PICK h \in Usages : h = mid.usage[u]
    BY <1>6, UsageType
  <2>3. Charged(UpOf({s}, u)) /\ Charged(DownOf({s}, u))
    BY SMTT(30), <1>5, BytesType
  <2>4. PICK n \in Usages :
            /\ n = new.usage[u] /\ n.uploaded = h.uploaded /\ n.downloaded = h.downloaded
            /\ n.storage = h.storage
            /\ n.reservedUp = Less(h.reservedUp, Bytes(UpOf({s}, u)))
            /\ n.reservedDown = Less(h.reservedDown, Bytes(DownOf({s}, u)))
            /\ n.activeUp = Less(h.activeUp, Cardinality(UpOf({s}, u)))
            /\ n.activeDown = Less(h.activeDown, Cardinality(DownOf({s}, u)))
    <3>1. new.usage[u] = Freed(h, UpOf({s}, u), DownOf({s}, u))
      BY SMTT(30), <1>7, <2>2
    <3>2. PICK f \in Usages : f = Freed(h, UpOf({s}, u), DownOf({s}, u))
      BY SMTT(30), <2>3, FreedUse
    <3>3. /\ f.uploaded = h.uploaded /\ f.downloaded = h.downloaded /\ f.storage = h.storage
          /\ f.reservedUp = Less(h.reservedUp, Bytes(UpOf({s}, u)))
          /\ f.reservedDown = Less(h.reservedDown, Bytes(DownOf({s}, u)))
          /\ f.activeUp = Less(h.activeUp, Cardinality(UpOf({s}, u)))
          /\ f.activeDown = Less(h.activeDown, Cardinality(DownOf({s}, u)))
      BY SMTT(30), <2>3, <3>2, FreedUse
    <3> QED BY <3>1, <3>2, <3>3
  <2>5. ASSUME NEW a \in Nat PROVE Less(a, 0) = a /\ Less(a + b, b) = a /\ Less(a + 1, 1) = a
    BY SMTT(30) DEF Less
  <2>6. CASE u = up
    <3>1. UpOf({s}, u) = {s} /\ DownOf({s}, u) = {}
      BY <1>4, <2>6 DEF UpOf, DownOf
    <3>2. h = HeldUp(m, b)
      BY SMTT(30), <1>6, <2>1, <2>2, <2>6
    <3>3. /\ n.reservedUp = Less(h.reservedUp, b) /\ n.activeUp = Less(h.activeUp, 1)
          /\ n.reservedDown = Less(h.reservedDown, 0) /\ n.activeDown = Less(h.activeDown, 0)
      BY <1>5, <2>4, <3>1, EmptySums
    <3>4. /\ h.reservedUp = m.reservedUp + b /\ h.activeUp = m.activeUp + 1
          /\ h.reservedDown = m.reservedDown /\ h.activeDown = m.activeDown
          /\ h.uploaded = m.uploaded /\ h.downloaded = m.downloaded /\ h.storage = m.storage
      BY Zenon, <3>2, HeldUse
    <3>5. /\ n.reservedUp = m.reservedUp /\ n.activeUp = m.activeUp
          /\ n.reservedDown = m.reservedDown /\ n.activeDown = m.activeDown
      BY SMTT(30), <2>5, <3>3, <3>4, UseType
    <3> QED BY <2>1, <2>4, <3>4, <3>5
  <2>7. CASE u = down
    <3>1. UpOf({s}, u) = {} /\ DownOf({s}, u) = {s}
      BY <1>4, <2>7 DEF UpOf, DownOf
    <3>2. h = HeldDown(m, b)
      BY SMTT(30), <1>6, <2>1, <2>2, <2>7
    <3>3. /\ n.reservedUp = Less(h.reservedUp, 0) /\ n.activeUp = Less(h.activeUp, 0)
          /\ n.reservedDown = Less(h.reservedDown, b) /\ n.activeDown = Less(h.activeDown, 1)
      BY <1>5, <2>4, <3>1, EmptySums
    <3>4. /\ h.reservedUp = m.reservedUp /\ h.activeUp = m.activeUp
          /\ h.reservedDown = m.reservedDown + b /\ h.activeDown = m.activeDown + 1
          /\ h.uploaded = m.uploaded /\ h.downloaded = m.downloaded /\ h.storage = m.storage
      BY Zenon, <3>2, HeldUse
    <3>5. /\ n.reservedUp = m.reservedUp /\ n.activeUp = m.activeUp
          /\ n.reservedDown = m.reservedDown /\ n.activeDown = m.activeDown
      BY SMTT(30), <2>5, <3>3, <3>4, UseType
    <3> QED BY <2>1, <2>4, <3>4, <3>5
  <2>8. CASE u \notin {up, down}
    <3>1. UpOf({s}, u) = {} /\ DownOf({s}, u) = {}
      BY SMTT(30), <1>4, <2>8 DEF UpOf, DownOf
    <3>2. h = m
      BY SMTT(30), <1>6, <2>1, <2>2, <2>8
    <3>3. /\ n.reservedUp = Less(m.reservedUp, 0) /\ n.activeUp = Less(m.activeUp, 0)
          /\ n.reservedDown = Less(m.reservedDown, 0) /\ n.activeDown = Less(m.activeDown, 0)
      BY <2>4, <3>1, <3>2, EmptySums
    <3>4. /\ n.reservedUp = m.reservedUp /\ n.activeUp = m.activeUp
          /\ n.reservedDown = m.reservedDown /\ n.activeDown = m.activeDown
      BY SMTT(30), <2>5, <3>3, UseType
    <3> QED BY <2>1, <2>4, <3>2, <3>4
  <2> QED BY SMTT(30), <2>6, <2>7, <2>8
<1>11. new.seeds = st.seeds
  BY Zenon, <1>6, <1>7
<1>12. Restocked(new, st)
  <2>1. /\ new \in Snapshots /\ new.kill = st.kill /\ new.emitted = st.emitted
        /\ new.recoveries = st.recoveries /\ new.period = st.period /\ new.relayed = st.relayed
        /\ new.reserved = st.reserved /\ new.pending = st.pending
    BY Zenon, <1>6, <1>7, <1>8, <1>9
  <2>2. ASSUME NEW u \in Users
        PROVE  /\ new.usage[u].storage = StorageOf(new.seeds, u)
               /\ new.usage[u].storage <= StorageQuota
    <3>1. st.usage[u].storage = StorageOf(st.seeds, u) /\ st.usage[u].storage <= StorageQuota
      BY Zenon, <1>1 DEF UserOK
    <3>2. new.usage[u].storage = st.usage[u].storage
      BY Zenon, <1>10
    <3> QED BY Zenon, <1>11, <3>1, <3>2
  <2> QED BY Zenon, <1>10, <2>1, <2>2 DEF Restocked
<1>13. new = Unissued(st, up, down, o)
  BY <1>2, <1>3, Zenon DEF new, mid, Unissued
<1> QED BY <1>12, <1>13, RestockedOK

\* Only what is no bookkeeping of bytes changed.
LEMMA SameLedgerOK ==
    ASSUME NEW st, Sound(st), NEW new \in Snapshots, new.relayed = st.relayed,
           new.reserved = st.reserved, new.pending = st.pending, new.seeds = st.seeds,
           new.usage = st.usage
    PROVE  Sound(new)
BY SoundParts DEF GlobalOK

LEMMA KilledOK ==
    ASSUME NEW st, Sound(st)
    PROVE  Sound(Killed(st)) /\ Killed(st).pending = {}
<1> DEFINE mid == Closed(st, st.pending)
           new == [mid EXCEPT !.kill = TRUE]
<1>1. st \in Snapshots /\ IsFiniteSet(st.pending)
  BY SMTT(30) DEF Sound
<1>2. Sound(mid) /\ mid.pending = {}
  <2>1. st.pending \in SUBSET st.pending /\ st.pending \ st.pending = {}
    OBVIOUS
  <2> QED BY Zenon, <1>1, <2>1, ClosedOK, ClosedState
<1> HIDE DEF mid
<1>3. mid \in Snapshots
  BY <1>2 DEF Sound
<1>4. /\ new \in Snapshots /\ new.relayed = mid.relayed /\ new.reserved = mid.reserved
      /\ new.pending = mid.pending /\ new.seeds = mid.seeds /\ new.usage = mid.usage
  BY Zenon, <1>3 DEF Snapshots
<1> HIDE DEF new
<1>5. Sound(new) /\ new.pending = {}
  BY <1>2, <1>4, SameLedgerOK
<1>6. new = Killed(st)
  BY Zenon DEF new, mid, Killed
<1> QED BY <1>5, <1>6

LEMMA SwitchedOK ==
    ASSUME NEW st, Sound(st), NEW on \in BOOLEAN
    PROVE  Sound(Switched(st, on)) /\ Switched(st, on).pending \subseteq st.pending
<1>1. CASE on
  BY <1>1, KilledOK DEF Switched
<1>2. CASE ~on
  <2> DEFINE new == [st EXCEPT !.kill = FALSE]
  <2>1. st \in Snapshots
    BY DEF Sound
  <2>2. /\ new \in Snapshots /\ new.relayed = st.relayed /\ new.reserved = st.reserved
        /\ new.pending = st.pending /\ new.seeds = st.seeds /\ new.usage = st.usage
    BY Zenon, <2>1 DEF Snapshots
  <2>3. Switched(st, on) = new
    BY <1>2, Zenon DEF Switched
  <2> HIDE DEF new
  <2> QED BY <2>2, <2>3, SameLedgerOK
<1> QED BY <1>1, <1>2

LEMMA RecoveredOK ==
    ASSUME NEW st, Sound(st), NEW o \in Objects
    PROVE  Sound(Recovered(st, o)) /\ Recovered(st, o).pending = st.pending
<1>1. st \in Snapshots
  BY DEF Sound
<1>2. st.recoveries \in [Objects -> Nat] /\ st.emitted \subseteq Objects
  BY <1>1 DEF Snapshots
<1>3. PICK n \in Nat : n = st.recoveries[o] + 1
  BY <1>2
<1>4. PICK r \in [Objects -> Nat] : r = [st.recoveries EXCEPT ![o] = n]
  BY Zenon, <1>2
<1>5. PICK e \in SUBSET Objects : e = IF Popular(o, n) THEN st.emitted \cup {o} ELSE st.emitted
  BY Zenon, <1>2
<1>6. Recovered(st, o) = [st EXCEPT !.recoveries = r, !.emitted = e]
  BY <1>3, <1>4, <1>5, Zenon DEF Recovered
<1>7. PICK new : new = [st EXCEPT !.recoveries = r, !.emitted = e]
  OBVIOUS
<1>8. /\ new \in Snapshots /\ new.relayed = st.relayed /\ new.reserved = st.reserved
      /\ new.pending = st.pending /\ new.seeds = st.seeds /\ new.usage = st.usage
  BY Zenon, <1>1, <1>7 DEF Snapshots
<1> QED BY Zenon, <1>6, <1>7, <1>8, SameLedgerOK

\* A session takes the place of another one of the same size.
LEMMA SwappedSums ==
    ASSUME NEW P, Charged(P), NEW s \in P, NEW t, t \notin P \ {s}, t.object = s.object
    PROVE  LET Q == (P \ {s}) \cup {t}
           IN  /\ Charged(Q) /\ Bytes(Q) = Bytes(P) /\ Cardinality(Q) = Cardinality(P)
<1> DEFINE R == P \ {s}
<1>1. Charged(R) /\ s.object \in Objects
  BY Zenon, BytesSplit DEF Charged
<1>2. s \notin R /\ R \cup {s} = P /\ t \notin R
  OBVIOUS
<1> HIDE DEF R
<1>3. /\ Bytes(R \cup {s}) = Bytes(R) + Size[s.object]
      /\ Cardinality(R \cup {s}) = Cardinality(R) + 1
  BY <1>1, <1>2, BytesAdd
<1>4. /\ Charged(R \cup {t}) /\ Bytes(R \cup {t}) = Bytes(R) + Size[s.object]
      /\ Cardinality(R \cup {t}) = Cardinality(R) + 1
  BY <1>1, <1>2, BytesAdd
<1> QED BY <1>2, <1>3, <1>4 DEF R

\* A role reported: the session is noted with it.
LEMMA NotedOK ==
    ASSUME NEW st, Sound(st), NEW s \in st.pending, NEW t \in Sessions, t \notin st.pending \ {s},
           t.object = s.object, t.up = s.up, t.down = s.down
    PROVE  LET new == [st EXCEPT !.pending = (@ \ {s}) \cup {t}]
           IN  Sound(new) /\ new.pending = (st.pending \ {s}) \cup {t}
<1>1. /\ st \in Snapshots /\ IsFiniteSet(st.pending) /\ GlobalOK(st)
      /\ \A u \in Users : UserOK(st.usage[u], st.pending, st.seeds, u)
  BY SoundParts
<1> DEFINE P == st.pending
           Q == (P \ {s}) \cup {t}
           new == [st EXCEPT !.pending = (@ \ {s}) \cup {t}]
<1>2. Q \subseteq Sessions
  BY <1>1, UsageType
<1>3. new = [st EXCEPT !.pending = Q]
  BY Zenon
<1> HIDE DEF new
<1>4. /\ new \in Snapshots /\ new.relayed = st.relayed /\ new.reserved = st.reserved
      /\ new.pending = Q /\ new.seeds = st.seeds /\ new.usage = st.usage
  <2> HIDE DEF Q
  <2> QED BY SMTT(30), <1>1, <1>2, <1>3 DEF Snapshots
<1>5. Charged(P)
  BY ZenonT(30), <1>1, PendingCharged
<1>6. Charged(Q) /\ Bytes(Q) = Bytes(P) /\ Cardinality(Q) = Cardinality(P)
  BY SMTT(30), <1>5, SwappedSums
<1>7. ASSUME NEW u \in Users PROVE UserOK(st.usage[u], Q, st.seeds, u)
  <2>1. Charged(UpOf(P, u)) /\ Charged(DownOf(P, u))
    BY SMTT(30), <1>5, BytesType
  <2>2. Bytes(UpOf(Q, u)) = Bytes(UpOf(P, u)) /\ Cardinality(UpOf(Q, u)) = Cardinality(UpOf(P, u))
    <3>1. CASE s.up = u
      <4>1. /\ UpOf(Q, u) = (UpOf(P, u) \ {s}) \cup {t} /\ s \in UpOf(P, u)
            /\ t \notin UpOf(P, u) \ {s}
        BY <3>1 DEF UpOf
      <4> QED BY ZenonT(30), <2>1, <4>1, SwappedSums
    <3>2. CASE s.up # u
      <4>1. UpOf(Q, u) = UpOf(P, u)
        BY <3>2 DEF UpOf
      <4> QED BY <4>1
    <3> QED BY SMTT(30), <3>1, <3>2
  <2>3. /\ Bytes(DownOf(Q, u)) = Bytes(DownOf(P, u))
        /\ Cardinality(DownOf(Q, u)) = Cardinality(DownOf(P, u))
    <3>1. CASE s.down = u
      <4>1. /\ DownOf(Q, u) = (DownOf(P, u) \ {s}) \cup {t} /\ s \in DownOf(P, u)
            /\ t \notin DownOf(P, u) \ {s}
        BY <3>1 DEF DownOf
      <4> QED BY ZenonT(30), <2>1, <4>1, SwappedSums
    <3>2. CASE s.down # u
      <4>1. DownOf(Q, u) = DownOf(P, u)
        BY <3>2 DEF DownOf
      <4> QED BY <4>1
    <3> QED BY <3>1, <3>2
  <2> HIDE DEF P, Q
  <2>4. UserOK(st.usage[u], P, st.seeds, u)
    BY SMTT(30), <1>1 DEF P
  <2> QED BY ZenonT(30), <2>2, <2>3, <2>4 DEF UserOK
<1>8. GlobalOK(new) /\ IsFiniteSet(new.pending)
  <2> HIDE DEF Q
  <2> QED BY <1>1, <1>4, <1>6 DEF GlobalOK, Charged
<1>9. Sound(new)
  BY Zenon, <1>4, <1>7, <1>8, SoundParts
<1> QED BY <1>4, <1>9 DEF new

LEMMA PeriodType == ASSUME NEW now \in Nat PROVE Period(now) \in Nat
BY SMTT(30), QuotaTypes DEF Period

\* What a call finds after it reaped the sessions and rolled the period.
LEMMA ReadyOK ==
    ASSUME NEW st, Sound(st), NEW now \in Nat
    PROVE  LET new == Rolled(Reaped(st, now), Period(now))
           IN  Sound(new) /\ Reduces(new, st) /\ new.pending \subseteq st.pending
<1> DEFINE old == {s \in st.pending : s.expires <= now}
           mid == Reaped(st, now)
           new == Rolled(mid, Period(now))
<1>1. Sound(mid) /\ Reduces(mid, st) /\ mid.pending = st.pending \ old
  BY ZenonT(30), ClosedOK, ClosedState DEF Reaped, Sound
<1> HIDE DEF mid
<1>2. Sound(new) /\ Reduces(new, mid) /\ new.pending = mid.pending
  BY ZenonT(30), <1>1, PeriodType, RolledOK
<1> HIDE DEF new
<1>3. st \in Snapshots /\ mid \in Snapshots /\ new \in Snapshots
  BY <1>1, <1>2 DEF Sound
<1>4. Reduces(new, st)
  BY <1>1, <1>2, <1>3, ReducesTrans
<1> QED BY SMTT(30), <1>1, <1>2, <1>4 DEF new, mid

\* A restart charges in full for what was reserved.
LEMMA RestoredOK ==
    ASSUME NEW st, Sound(st), NEW now \in Nat, st.period <= Period(now)
    PROVE  LET new == Restored(st, now)
               Used(n) == IF st.period < Period(now) THEN 0 ELSE n
           IN  /\ Sound(new) /\ new.pending = {}
               /\ new.kill = st.kill /\ new.emitted = st.emitted /\ new.recoveries = st.recoveries
               /\ new.relayed = Used(st.relayed) + st.reserved
               /\ \A u \in Users :
                    /\ new.usage[u].uploaded = Used(st.usage[u].uploaded) + st.usage[u].reservedUp
                    /\ new.usage[u].downloaded = Used(st.usage[u].downloaded) + st.usage[u].reservedDown
<1> DEFINE p == Period(now)
           a == Rolled(st, p)
           c == Closed(a, st.pending)
           new == Trimmed(c, now)
           Used(n) == IF st.period < p THEN 0 ELSE n
<1>0. st \in Snapshots /\ p \in Nat /\ st.period \in Nat
  BY PeriodType, UsageType DEF Sound
<1>1. Sound(a) /\ Reduces(a, st) /\ a.pending = st.pending
  BY Zenon, <1>0, RolledOK
<1>2. /\ a.relayed = Used(st.relayed) /\ a.reserved = st.reserved
      /\ \A u \in Users : /\ a.usage[u].uploaded = Used(st.usage[u].uploaded)
                          /\ a.usage[u].downloaded = Used(st.usage[u].downloaded)
                          /\ a.usage[u].reservedUp = st.usage[u].reservedUp
                          /\ a.usage[u].reservedDown = st.usage[u].reservedDown
  <2>1. CASE st.period < p
    <3>1. /\ a.relayed = 0 /\ a.reserved = st.reserved
          /\ \A u \in Users : a.usage[u] = Reset(st.usage[u])
      BY <1>0, <2>1, RolledState
    <3>2. \A u \in Users : st.usage[u] \in Usages
      BY <1>0, UsageType
    <3>3. \A n : Used(n) = 0
      BY <2>1
    <3> HIDE DEF a, Used
    <3> QED BY SMTT(30), <3>1, <3>2, <3>3, ResetUse
  <2>2. CASE st.period = p
    <3>1. a = st
      BY <1>0, <2>2 DEF Rolled
    <3>2. \A n : Used(n) = n
      BY SMTT(30), <1>0, <2>2
    <3> HIDE DEF a, Used
    <3> QED BY <3>1, <3>2
  <2>3. st.period < p \/ st.period = p
    BY SMTT(30), <1>0
  <2> QED BY Zenon, <2>1, <2>2, <2>3
<1> HIDE DEF a
<1>3. /\ Sound(c) /\ Reduces(c, a) /\ c.pending = {}
      /\ c.relayed + c.reserved = a.relayed + a.reserved
      /\ \A u \in Users :
            /\ c.usage[u].uploaded + c.usage[u].reservedUp = a.usage[u].uploaded + a.usage[u].reservedUp
            /\ c.usage[u].downloaded + c.usage[u].reservedDown
               = a.usage[u].downloaded + a.usage[u].reservedDown
  <2>1. st.pending \in SUBSET a.pending /\ a.pending \ st.pending = {}
    BY SMTT(30), <1>1
  <2>2. a \in Snapshots /\ IsFiniteSet(a.pending)
    BY SMTT(30), <1>1 DEF Sound
  <2>3. c.pending = {}
    BY SMTT(30), <2>1, <2>2, ClosedState
  <2> QED BY SMTT(30), <1>1, <2>1, <2>3, ClosedOK
<1> HIDE DEF c
<1>4. /\ c.reserved = 0
      /\ \A u \in Users : c.usage[u].reservedUp = 0 /\ c.usage[u].reservedDown = 0
  BY ZenonT(30), <1>3, EmptySums DEF Sound, TransfersAccepted
<1>5. c \in Snapshots
  BY ZenonT(30), <1>3 DEF Sound
<1>6. /\ c.relayed = a.relayed + a.reserved
      /\ \A u \in Users : /\ c.usage[u].uploaded = a.usage[u].uploaded + a.usage[u].reservedUp
                          /\ c.usage[u].downloaded = a.usage[u].downloaded + a.usage[u].reservedDown
  <2>1. c.relayed \in Nat /\ \A u \in Users : c.usage[u].uploaded \in Nat /\ c.usage[u].downloaded \in Nat
    BY <1>5, UsageType, UseType
  <2>2. \A n \in Nat : n + 0 = n
    BY SMTT(30)
  <2> QED BY SMTT(30), <1>3, <1>4, <2>1, <2>2
<1>7. Sound(new) /\ Reduces(new, c) /\ Restocked(new, c)
  BY SMTT(30), <1>3, TrimmedOK
<1> HIDE DEF new
<1>8. /\ new.pending = {} /\ new.relayed = c.relayed
      /\ \A u \in Users : /\ new.usage[u].uploaded = c.usage[u].uploaded
                          /\ new.usage[u].downloaded = c.usage[u].downloaded
  BY SMTT(30), <1>3, <1>7 DEF Restocked
<1>9. new.kill = st.kill /\ new.emitted = st.emitted /\ new.recoveries = st.recoveries
  BY Zenon, <1>1, <1>3, <1>7 DEF Reduces
<1>10. new = Restored(st, now)
  BY Zenon DEF new, c, a, p, Restored
<1> HIDE DEF p
<1>11. /\ new.relayed = Used(st.relayed) + st.reserved
       /\ \A u \in Users :
            /\ new.usage[u].uploaded = Used(st.usage[u].uploaded) + st.usage[u].reservedUp
            /\ new.usage[u].downloaded = Used(st.usage[u].downloaded) + st.usage[u].reservedDown
  BY SMTT(30), <1>2, <1>6, <1>8
<1> QED BY ZenonT(30), <1>7, <1>8, <1>9, <1>10, <1>11 DEF p

LEMMA FreshSound == Sound(Fresh) /\ Fresh.pending = {}
<1> DEFINE none == [uploaded |-> 0, downloaded |-> 0, reservedUp |-> 0, reservedDown |-> 0,
                    activeUp |-> 0, activeDown |-> 0, storage |-> 0]
<1>1. none \in Usages
  BY SMTT(30) DEF Usages
<1>2. /\ Fresh.usage = [u \in Users |-> none] /\ Fresh.pending = {} /\ Fresh.seeds = {}
      /\ Fresh.relayed = 0 /\ Fresh.reserved = 0 /\ Fresh.kill = ConfigKill /\ Fresh.period = 0
      /\ Fresh.recoveries = [o \in Objects |-> 0] /\ Fresh.emitted = {}
  BY SMTT(30) DEF Fresh
<1>3. Fresh \in Snapshots
  <2> HIDE DEF none
  <2>1. [u \in Users |-> none] \in [Users -> Usages] /\ [o \in Objects |-> 0] \in [Objects -> Nat]
    BY <1>1
  <2>2. ConfigKill \in BOOLEAN
    BY SMTT(30), RelayAssumption
  <2> QED BY <2>1, <2>2 DEF Fresh, Snapshots, none
<1>4. GlobalOK(Fresh) /\ IsFiniteSet(Fresh.pending)
  BY SMTT(30), <1>2, EmptySums, QuotaTypes, FS_EmptySet DEF GlobalOK
<1>5. ASSUME NEW u \in Users PROVE UserOK(Fresh.usage[u], {}, {}, u)
  <2>1. Fresh.usage[u] = none
    BY Zenon, <1>2
  <2>2. StorageOf({}, u) = 0
    <3>1. {} \in SUBSET (Users \X Objects) /\ SeedsOf({}, u) = {}
      BY DEF SeedsOf
    <3> QED BY <3>1, StorageIsTotal, TotalEmpty
  <2>3. /\ 0 <= Concurrency /\ 0 + 0 = 0 /\ 0 <= UploadQuota /\ 0 <= DownloadQuota
        /\ 0 <= StorageQuota
    BY SMTT(30), QuotaTypes
  <2>4. /\ none.reservedUp = 0 /\ none.reservedDown = 0 /\ none.activeUp = 0 /\ none.activeDown = 0
        /\ none.uploaded = 0 /\ none.downloaded = 0 /\ none.storage = 0
    OBVIOUS
  <2> HIDE DEF none
  <2> QED BY Zenon, <2>1, <2>2, <2>3, <2>4, EmptySums DEF UserOK
<1> QED BY Zenon, <1>2, <1>3, <1>4, <1>5, SoundParts

=============================================================================
