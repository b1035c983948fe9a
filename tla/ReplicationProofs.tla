--------------------------- MODULE ReplicationProofs ---------------------------
(***************************************************************************)
(* Proofs about Replication, for any number of generations, owners, run     *)
(* directories, requests under way and faults.                              *)
(*                                                                         *)
(* StateSteps lists the few ways in which a step may change the state in    *)
(* memory and on disk; what is proved of that state goes through this list. *)
(***************************************************************************)
EXTENDS Replication, FiniteSetTheorems, TLAPS

\* What a request under way carries from its arrival: begin checked its time.
RequestTimes == \A r \in requests : r.todo = <<"begin">> => InForce(r.gen, r.now)

\* The upload that finalize installs stays: the mutex is held.
Installing == place # "free" => holder \in mem.uploads /\ Chunks[holder] \subseteq chunks

StateOK(st) == st \in States /\ Valid(st) /\ Cardinality(Live(st)) <= MaxGenerations

-----------------------------------------------------------------------------
(* What is left of a request *)

\* A request loses its first section, and never comes back to begin; a drain has its
\* two sections.
LEMMA TodoTail ==
    ASSUME NEW t \in Todos
    PROVE  /\ t # <<>>
           /\ Tail(t) \in Todos \cup {<<>>} /\ Tail(t) # <<"begin">>
           /\ t \in SweepTodos => Tail(t) \in SweepTodos \cup {<<>>}
           /\ Head(t) \in {"listOne", "listAll"} => Tail(t) # <<>>
<1>1. CASE t = <<"revoke", "listOne", "retireOne", "expire", "listAll", "retireAll", "collect">>
  <2>1. t # <<>> /\ Tail(t) = <<"listOne", "retireOne", "expire", "listAll", "retireAll", "collect">> /\ Head(t) = "revoke"
    BY <1>1
  <2>2. Tail(t) # <<"begin">>
    BY <2>1
  <2>. QED  BY <1>1, <2>1, <2>2 DEF Todos, SweepTodos
<1>2. CASE t = <<"listOne", "retireOne", "expire", "listAll", "retireAll", "collect">>
  <2>1. t # <<>> /\ Tail(t) = <<"retireOne", "expire", "listAll", "retireAll", "collect">> /\ Head(t) = "listOne"
    BY <1>2
  <2>2. Tail(t) # <<"begin">>
    BY <2>1
  <2>. QED  BY <1>2, <2>1, <2>2 DEF Todos, SweepTodos
<1>3. CASE t = <<"retireOne", "expire", "listAll", "retireAll", "collect">>
  <2>1. t # <<>> /\ Tail(t) = <<"expire", "listAll", "retireAll", "collect">> /\ Head(t) = "retireOne"
    BY <1>3
  <2>2. Tail(t) # <<"begin">>
    BY <2>1
  <2>. QED  BY <1>3, <2>1, <2>2 DEF Todos, SweepTodos
<1>4. CASE t = <<"expire", "listAll", "retireAll", "collect">>
  <2>1. t # <<>> /\ Tail(t) = <<"listAll", "retireAll", "collect">> /\ Head(t) = "expire"
    BY <1>4
  <2>2. Tail(t) # <<"begin">>
    BY <2>1
  <2>. QED  BY <1>4, <2>1, <2>2 DEF Todos, SweepTodos
<1>5. CASE t = <<"listAll", "retireAll", "collect">>
  <2>1. t # <<>> /\ Tail(t) = <<"retireAll", "collect">> /\ Head(t) = "listAll"
    BY <1>5
  <2>2. Tail(t) # <<"begin">>
    BY <2>1
  <2>. QED  BY <1>5, <2>1, <2>2 DEF Todos, SweepTodos
<1>6. CASE t = <<"retireAll", "collect">>
  <2>1. t # <<>> /\ Tail(t) = <<"collect">> /\ Head(t) = "retireAll"
    BY <1>6
  <2>2. Tail(t) # <<"begin">>
    BY <2>1
  <2>. QED  BY <1>6, <2>1, <2>2 DEF Todos, SweepTodos
<1>7. CASE t = <<"collect">>
  <2>1. t # <<>> /\ Tail(t) = <<>> /\ Head(t) = "collect"
    BY <1>7
  <2>2. Tail(t) # <<"begin">>
    BY <2>1
  <2>. QED  BY <1>7, <2>1, <2>2 DEF Todos, SweepTodos
<1>8. CASE t = <<"listOne", "retireOne">>
  <2>1. t # <<>> /\ Tail(t) = <<"retireOne">> /\ Head(t) = "listOne"
    BY <1>8
  <2>2. Tail(t) # <<"begin">>
    BY <2>1
  <2>. QED  BY <1>8, <2>1, <2>2 DEF Todos, SweepTodos
<1>9. CASE t = <<"retireOne">>
  <2>1. t # <<>> /\ Tail(t) = <<>> /\ Head(t) = "retireOne"
    BY <1>9
  <2>2. Tail(t) # <<"begin">>
    BY <2>1
  <2>. QED  BY <1>9, <2>1, <2>2 DEF Todos, SweepTodos
<1>10. CASE t = <<"begin">>
  <2>1. t # <<>> /\ Tail(t) = <<>> /\ Head(t) = "begin"
    BY <1>10
  <2>2. Tail(t) # <<"begin">>
    BY <2>1
  <2>. QED  BY <1>10, <2>1, <2>2 DEF Todos, SweepTodos
<1>11. CASE t = <<"finalize">>
  <2>1. t # <<>> /\ Tail(t) = <<>> /\ Head(t) = "finalize"
    BY <1>11
  <2>2. Tail(t) # <<"begin">>
    BY <2>1
  <2>. QED  BY <1>11, <2>1, <2>2 DEF Todos, SweepTodos
<1>. QED  BY Zenon, <1>1, <1>2, <1>3, <1>4, <1>5, <1>6, <1>7, <1>8, <1>9, <1>10, <1>11 DEF Todos, SweepTodos, Sections

\* The sections for one generation are not those of a collection or a query.
LEMMA TodoOfGeneration ==
    \A t \in Todos : /\ Head(t) \in {"begin", "finalize", "revoke"} => t \notin SweepTodos
                     /\ Head(t) = "begin" => t = <<"begin">>
BY DEF Todos, SweepTodos, Sections

\* A request begins with all its sections.
LEMMA TodoArrives ==
    \A op \in DOMAIN Sections : /\ Sections[op] \in Todos
                                /\ Sections[op] = <<"begin">> => op = "begin"
                                /\ op \in {"collect", "query"} => Sections[op] \in SweepTodos
BY DEF Todos, SweepTodos, Sections

-----------------------------------------------------------------------------
(* The requests under way *)

RequestsOK(set) ==
    /\ set \subseteq [todo: Todos, gen: Gens \cup {NoGen}, now: Times \cup {0}, work: SUBSET Gens]
    /\ \A r \in set : /\ r.gen = NoGen => r.todo \in SweepTodos
                      /\ r.todo = <<"begin">> => InForce(r.gen, r.now)

\* A request that goes on, or ends, keeps what it carries.
LEMMA OnwardOK ==
    ASSUME RequestsOK(requests), NEW r \in requests, NEW work \in SUBSET Gens,
           NEW todo \in Todos \cup {<<>>}, todo # <<"begin">>,
           r.todo \in SweepTodos => todo \in SweepTodos \cup {<<>>}
    PROVE  RequestsOK(Onward(r, todo, work))
<1>1. CASE todo = <<>>
  BY <1>1 DEF RequestsOK, Onward
<1>2. CASE todo # <<>>
  <2> DEFINE s == [r EXCEPT !.todo = todo, !.work = work]
  <2>1. r \in [todo: Todos, gen: Gens \cup {NoGen}, now: Times \cup {0}, work: SUBSET Gens]
    BY DEF RequestsOK
  <2>2. /\ s \in [todo: Todos, gen: Gens \cup {NoGen}, now: Times \cup {0}, work: SUBSET Gens]
        /\ s.todo = todo /\ s.gen = r.gen
    BY Zenon, <2>1, <1>2
  <2>3. Onward(r, todo, work) = (requests \ {r}) \cup {s}
    BY <1>2 DEF Onward
  <2>4. s.gen = NoGen => s.todo \in SweepTodos
    BY <2>2, <1>2 DEF RequestsOK
  <2> HIDE DEF s
  <2>. QED  BY Zenon, <2>2, <2>3, <2>4 DEF RequestsOK
<1>. QED  BY <1>1, <1>2

\* What `Onward` is given by the sections that pass on.
LEMMA TailOK ==
    ASSUME RequestsOK(requests), NEW r \in requests
    PROVE  /\ r.todo \in Todos /\ r.work \in SUBSET Gens /\ r.gen \in Gens \cup {NoGen}
           /\ Tail(r.todo) \in Todos \cup {<<>>} /\ Tail(r.todo) # <<"begin">>
           /\ r.todo \in SweepTodos => Tail(r.todo) \in SweepTodos \cup {<<>>}
BY TodoTail DEF RequestsOK

\* An arriving request is well formed.
LEMMA ArriveOK ==
    ASSUME RequestsOK(requests), NEW op \in DOMAIN Sections, NEW g \in Gens \cup {NoGen},
           NEW now \in Times, g = NoGen <=> op \in {"collect", "query"},
           op = "begin" => InForce(g, now)
    PROVE  RequestsOK(requests \cup {[todo |-> Sections[op], gen |-> g, work |-> {},
                                      now |-> IF op = "query" THEN 0 ELSE now]})
<1> DEFINE s == [todo |-> Sections[op], gen |-> g, work |-> {},
                 now |-> IF op = "query" THEN 0 ELSE now]
<1>1. /\ s \in [todo: Todos, gen: Gens \cup {NoGen}, now: Times \cup {0}, work: SUBSET Gens]
      /\ s.todo = Sections[op] /\ s.gen = g /\ op = "begin" => s.now = now
  BY TodoArrives
<1>2. s.gen = NoGen => s.todo \in SweepTodos
  BY <1>1, TodoArrives
<1>3. s.todo = <<"begin">> => InForce(s.gen, s.now)
  BY <1>1, TodoArrives
<1> HIDE DEF s
<1>4. RequestsOK(requests \cup {s})
  BY <1>1, <1>2, <1>3 DEF RequestsOK
<1>. QED  BY <1>4 DEF s

\* Every step leaves well formed requests.
LEMMA RequestsStep ==
    ASSUME RequestsOK(requests), mem.retirements \subseteq Gens, [Next]_vars
    PROVE  RequestsOK(requests')
<1>1. ASSUME NEW op \in DOMAIN Sections, NEW g \in Gens \cup {NoGen}, NEW now \in Times,
             Arrive(op, g, now)
      PROVE  RequestsOK(requests')
  BY <1>1, ArriveOK DEF Arrive, ExpireDue
<1>2. ASSUME NEW r \in requests, Expire(r) \/ Revoke(r)
      PROVE  RequestsOK(requests')
  <2>1. RequestsOK(Onward(r, Tail(r.todo), {}))
    BY Zenon, OnwardOK, TailOK
  <2>2. RequestsOK(requests \ {r})
    BY DEF RequestsOK
  <2>. QED  BY <1>2, <2>1, <2>2 DEF Expire, ExpireDue, Revoke, Advance, Become, Finish
<1>3. ASSUME NEW r \in requests, Begin(r) \/ Finalize(r) \/ Collect(r)
      PROVE  RequestsOK(requests')
  BY <1>3 DEF Begin, Finalize, Collect, Finish, RequestsOK
<1>4. ASSUME NEW r \in requests, NEW name \in {"listOne", "listAll"}, NEW limit,
             List(r, name, limit)
      PROVE  RequestsOK(requests')
  <2>1. PICK work \in SUBSET mem.retirements :
            requests' = Onward(r, Tail(IF work = {} THEN Tail(r.todo) ELSE r.todo), work)
    BY <1>4 DEF List, Become
  <2>2. Head(r.todo) = name
    BY <1>4 DEF List, Section
  <2>3. Tail(r.todo) # <<>> /\ r.todo \in Todos
    BY <2>2, TailOK, TodoTail
  <2>4. Tail(r.todo) \in Todos /\ (r.todo \in SweepTodos => Tail(r.todo) \in SweepTodos)
    BY <2>3, TailOK
  <2>5. /\ Tail(Tail(r.todo)) \in Todos \cup {<<>>} /\ Tail(Tail(r.todo)) # <<"begin">>
        /\ r.todo \in SweepTodos => Tail(Tail(r.todo)) \in SweepTodos \cup {<<>>}
    BY Zenon, <2>4, TodoTail
  <2>6. work \in SUBSET Gens
    OBVIOUS
  <2>7. CASE work = {}
    BY Zenon, <2>1, <2>5, <2>6, <2>7, OnwardOK
  <2>8. CASE work # {}
    BY Zenon, <2>1, <2>6, <2>8, OnwardOK, TailOK
  <2>. QED  BY <2>7, <2>8
<1>5. ASSUME NEW r \in requests, NEW name \in {"retireOne", "retireAll"}, Retire(r, name)
      PROVE  RequestsOK(requests')
  <2>0. r.todo \in Todos /\ r.work \in SUBSET Gens /\ Head(r.todo) = name
    BY <1>5, TailOK DEF Retire, Section
  <2>1. PICK g \in r.work :
          \/ requests' = Onward(r, IF r.work = {g} THEN Tail(r.todo) ELSE r.todo, r.work \ {g})
          \/ requests' = Onward(r, IF name = "retireOne" THEN Tail(r.todo) ELSE <<>>, {})
    BY Zenon, <1>5 DEF Retire, Become
  <2>2. CASE r.todo = <<"begin">>
    <3>1. FALSE
      BY <2>2, <1>5 DEF Retire, Section
    <3>. QED  BY <3>1
  <2>3. CASE r.todo # <<"begin">>
    <3>1. RequestsOK(Onward(r, r.todo, r.work \ {g})) /\ RequestsOK(Onward(r, <<>>, {}))
      BY <2>0, <2>3, OnwardOK
    <3>2. RequestsOK(Onward(r, Tail(r.todo), r.work \ {g})) /\ RequestsOK(Onward(r, Tail(r.todo), {}))
      BY Zenon, <2>0, OnwardOK, TailOK
    <3>. QED  BY <2>1, <3>1, <3>2
  <2>. QED  BY <2>2, <2>3
<1>6. ASSUME \/ \E g \in Gens, c \in ChunkIds, now \in Times : UploadChunk(g, c, now)
             \/ \E g \in Gens : CancelUpload(g)
             \/ \E engaged \in BOOLEAN : SetKillSwitch(engaged)
             \/ InstallRename \/ Commit \/ Crash \/ Scheduler \/ UNCHANGED vars
      PROVE  RequestsOK(requests')
  <2>1. requests' = requests \/ requests' = {}
    BY Zenon, <1>6 DEF UploadChunk, CancelUpload, SetKillSwitch, InstallRename, Commit, Crash, Scheduler,
                ClaimCreate, ClaimCheck, ClaimMark, ClaimCrash, Retention, vars
  <2>. QED  BY <2>1 DEF RequestsOK
<1>. QED  BY <1>1, <1>2, <1>3, <1>4, <1>5, <1>6 DEF Next, Request

-----------------------------------------------------------------------------
(* What the operations make of the state *)

\* A state whose live generations were live before holds no more than it may.
LEMMA CountKept ==
    ASSUME NEW st \in States, NEW set, set \subseteq Live(st),
           Cardinality(Live(st)) <= MaxGenerations
    PROVE  Cardinality(set) <= MaxGenerations
<1>1. IsFiniteSet(Live(st))
  BY ReplicationAssumption, FS_Subset DEF Live, States
<1>2. Cardinality(set) <= Cardinality(Live(st)) /\ Cardinality(set) \in Nat
      /\ Cardinality(Live(st)) \in Nat
  BY <1>1, FS_Subset, FS_CardinalityType
<1>. QED  BY <1>2, ReplicationAssumption

LEMMA WithdrawnOK ==
    ASSUME StateOK(mem), NEW set \in SUBSET mem.published
    PROVE  StateOK(Withdrawn(set))
<1> DEFINE st == Withdrawn(set)
<1>1. /\ st \in States /\ st.uploads = mem.uploads /\ st.published = mem.published \ set
      /\ st.tombstones = mem.tombstones \cup set /\ st.retirements = mem.retirements \cup set
      /\ st.created = mem.created
  BY Zenon DEF StateOK, States, Withdrawn
<1> HIDE DEF st
<1>2. Live(st) = Live(mem)
  BY <1>1 DEF Live
<1>3. Valid(st)
  BY <1>1, <1>2 DEF Valid, StateOK, Expires
<1>4. StateOK(st)
  BY <1>1, <1>2, <1>3 DEF StateOK
<1>. QED  BY <1>4 DEF st

LEMMA WithoutOK ==
    ASSUME StateOK(mem), NEW set \in SUBSET mem.uploads
    PROVE  /\ StateOK(Without(set))
           /\ Without(set).uploads = mem.uploads \ set
           /\ \A g \in Gens \ set : Without(set).created[g] = mem.created[g]
           /\ Without(set) = [mem EXCEPT !.uploads = Without(set).uploads,
                                         !.created = Without(set).created]
<1> DEFINE st == Without(set)
<1>1. /\ st \in States /\ st.uploads = mem.uploads \ set /\ st.published = mem.published
      /\ st.tombstones = mem.tombstones /\ st.retirements = mem.retirements
      /\ st.created = [g \in Gens |-> IF g \in set THEN 0 ELSE mem.created[g]]
      /\ st = [mem EXCEPT !.uploads = st.uploads, !.created = st.created]
  BY Zenon DEF StateOK, States, Without
<1> HIDE DEF st
<1>2. Live(st) \subseteq Live(mem)
  BY Zenon, <1>1 DEF Live
<1>3. \A g \in st.uploads : st.created[g] = mem.created[g]
  BY Zenon, <1>1 DEF StateOK, States
<1>4. Valid(st)
  BY Zenon, <1>1, <1>2, <1>3 DEF Valid, StateOK, Expires
<1>5. StateOK(st)
  BY Zenon, <1>1, <1>2, <1>4, CountKept DEF StateOK
<1>. QED  BY Zenon, <1>1, <1>5 DEF st

LEMMA BegunOK ==
    ASSUME StateOK(mem), NEW g \in Gens, NEW now \in Nat, MayBegin(g), InForce(g, now)
    PROVE  StateOK(Begun(g, now))
<1> DEFINE st == Begun(g, now)
<1>1. /\ st \in States /\ st.uploads = mem.uploads \cup {g} /\ st.published = mem.published
      /\ st.tombstones = mem.tombstones /\ st.retirements = mem.retirements
      /\ st.created = [mem.created EXCEPT ![g] = now]
  BY Zenon DEF StateOK, States, Begun
<1> HIDE DEF st
<1>2. Live(st) = Live(mem) \cup {g}
  BY <1>1 DEF Live
<1>3. g \notin mem.uploads /\ g \notin mem.published /\ g \notin mem.tombstones
  BY DEF MayBegin
<1>4. \A h \in Live(mem) : Ns[h] = Ns[g] => h = g
  BY DEF MayBegin, Occupied
<1>5. \A h, k \in Live(st) : Ns[h] = Ns[k] => h = k
  BY <1>2, <1>4 DEF StateOK, Valid
<1>6. \A h \in mem.uploads : st.created[h] = mem.created[h]
  BY <1>1, <1>3 DEF StateOK, States
<1>7. st.created[g] = now
  BY <1>1 DEF StateOK, States
<1>8. now < Expires(st, g)
  BY <1>7, ReplicationAssumption DEF Expires, InForce
<1>9. \A h \in st.uploads : st.created[h] < Expires(st, h)
  BY <1>1, <1>6, <1>7, <1>8 DEF Expires, StateOK, Valid
<1>10. Valid(st)
  BY <1>1, <1>3, <1>5, <1>9 DEF Valid, StateOK
<1>11. IsFiniteSet(Live(mem))
  BY ReplicationAssumption, FS_Subset DEF Live, StateOK, States
<1>12. /\ Cardinality(Live(mem) \cup {g}) \in {Cardinality(Live(mem)), Cardinality(Live(mem)) + 1}
       /\ Cardinality(Live(mem)) \in Nat
  BY <1>11, FS_AddElement, FS_CardinalityType
<1>13. Cardinality(Live(mem)) < MaxGenerations
  BY DEF MayBegin, HasQuota
<1>14. StateOK(st)
  BY <1>1, <1>2, <1>10, <1>12, <1>13, ReplicationAssumption DEF StateOK
<1>. QED  BY <1>14 DEF st

LEMMA CommittedOK ==
    ASSUME StateOK(mem), NEW g \in mem.uploads
    PROVE  StateOK(Committed(g))
<1> DEFINE w == Without({g})  st == Committed(g)
<1>0. {g} \in SUBSET mem.uploads
  OBVIOUS
<1>1. /\ StateOK(w) /\ w.uploads = mem.uploads \ {g} /\ w.published = mem.published
      /\ w.tombstones = mem.tombstones /\ w.retirements = mem.retirements
  <2>1. StateOK(w) /\ w.uploads = mem.uploads \ {g}
    BY Zenon, <1>0, WithoutOK
  <2>2. /\ w.published = mem.published
        /\ w.tombstones = mem.tombstones /\ w.retirements = mem.retirements
    BY DEF StateOK, States, Without
  <2>. QED  BY <2>1, <2>2
<1>2. st = [w EXCEPT !.published = @ \cup {g}] /\ g \in Gens
  BY DEF Committed, StateOK, States
<1> HIDE DEF w, st
<1>3. /\ st \in States /\ st.uploads = mem.uploads \ {g} /\ st.published = mem.published \cup {g}
      /\ st.tombstones = mem.tombstones /\ st.retirements = mem.retirements
      /\ st.created = w.created
  BY <1>1, <1>2 DEF StateOK, States
<1>4. Live(st) = Live(mem)
  BY <1>3 DEF Live
<1>5. \A h \in st.uploads : st.created[h] < Expires(st, h)
  BY <1>1, <1>3 DEF StateOK, Valid, Expires
<1>6. Valid(st)
  BY <1>3, <1>4, <1>5 DEF Valid, StateOK
<1>7. StateOK(st)
  BY <1>3, <1>4, <1>6 DEF StateOK
<1>. QED  BY <1>7 DEF st

LEMMA DroppedOK ==
    ASSUME StateOK(mem), NEW g
    PROVE  StateOK(Dropped(g))
<1> DEFINE st == Dropped(g)
<1>1. /\ st \in States /\ st.uploads = mem.uploads /\ st.published = mem.published
      /\ st.tombstones = mem.tombstones /\ st.retirements = mem.retirements \ {g}
      /\ st.created = mem.created
  BY DEF StateOK, States, Dropped
<1> HIDE DEF st
<1>2. Live(st) \subseteq Live(mem)
  BY <1>1 DEF Live
<1>3. Valid(st)
  BY <1>1, <1>2 DEF Valid, StateOK, Expires
<1>4. StateOK(st)
  BY <1>1, <1>2, <1>3, CountKept DEF StateOK
<1>. QED  BY <1>4 DEF st

\* Only the kill switch or the ledger differ.
LEMMA BookkeepingOK ==
    ASSUME StateOK(mem), NEW st \in States,
           st.uploads = mem.uploads, st.created = mem.created, st.published = mem.published,
           st.tombstones = mem.tombstones, st.retirements = mem.retirements
    PROVE  StateOK(st)
<1>1. Live(st) = Live(mem)
  BY DEF Live
<1>. QED  BY <1>1 DEF StateOK, Valid, Expires

LEMMA ChargedState ==
    ASSUME mem \in States, NEW o \in Owners, NEW now \in Nat
    PROVE  /\ Charged(o, now) \in States
           /\ Charged(o, now).uploads = mem.uploads /\ Charged(o, now).created = mem.created
           /\ Charged(o, now).published = mem.published
           /\ Charged(o, now).tombstones = mem.tombstones
           /\ Charged(o, now).retirements = mem.retirements
<1> DEFINE month == now \div MonthLength
           used == IF month = mem.month THEN mem.used ELSE [p \in Owners |-> 0]
           more == [used EXCEPT ![o] = @ + 1]
<1>1. month \in Nat
  BY ReplicationAssumption
<1>2. used \in [Owners -> Nat]
  BY DEF States
<1> HIDE DEF used, month
<1>3. more \in [Owners -> Nat]
  BY <1>2
<1>4. Charged(o, now) = [mem EXCEPT !.month = month, !.used = more]
  BY DEF Charged, used, month
<1> HIDE DEF more
<1>. QED  BY Zenon, <1>1, <1>3, <1>4 DEF States

-----------------------------------------------------------------------------
(* The ways a step may change the two copies of the state *)

\* What an operation may make of the memory.
Withdraws(st) == \E set \in SUBSET mem.published : st = Withdrawn(set)
Begins(st) == \E g \in Gens, now \in Nat :
                  MayBegin(g) /\ InForce(g, now) /\ st = Begun(g, now)
GivesUp(st) == \E set \in SUBSET mem.uploads : st = Without(set)
Charges(st) == \E o \in Owners, now \in Nat : st = Charged(o, now)
Switches(st) == \E k \in BOOLEAN : st = [mem EXCEPT !.kill = k]
Publishes(st) == /\ holder \in mem.uploads /\ Chunks[holder] \subseteq chunks
                 /\ st = Committed(holder)
Drops(st) == \E g \in mem.retirements : /\ st = Dropped(g) /\ UNCHANGED marker
                                        /\ RetireFiles(g) \/ g \in missed'

\* It is written, or its write fails after the rename.
Lands(st) ==
    \/ Write(st)
    \/ /\ UNCHANGED mem /\ disk' = st /\ late' = TRUE
       /\ torn' = (torn \cap mem.published) \cup (st.published \ mem.published)

\* The start on what is on disk, and uploads that only the memory loses.
Reopens == mem' = disk /\ disk' = disk /\ late' = FALSE /\ torn' = torn
Forgets == \E set \in SUBSET mem.uploads : mem' = Without(set) /\ UNCHANGED <<disk, late, torn>>

\* A failing write leaves everything as it is, or lands.
LEMMA PersistLands ==
    ASSUME NEW st
    PROVE  /\ Persist(st) => Lands(st)
           /\ PersistFails(st) => UNCHANGED control \/ Lands(st)
           /\ FailEarly => UNCHANGED control
BY DEF Persist, PersistFails, FailEarly, FailLate, Lands

\* Whoever changes the state holds the mutex, hence it is one of these.
LEMMA StateSteps ==
    ASSUME TypeOK, RequestTimes, Installing, [Next]_vars
    PROVE  /\ \/ UNCHANGED control \/ Reopens \/ Forgets
              \/ \E st : /\ Lands(st)
                         /\ \/ Withdraws(st) \/ Begins(st) \/ GivesUp(st) \/ Charges(st)
                            \/ Switches(st) \/ Publishes(st) \/ Drops(st)
           /\ place # "free" /\ place' # "free" => UNCHANGED <<mem, chunks, holder>>
<1> DEFINE Made(st) == \/ Withdraws(st) \/ Begins(st) \/ GivesUp(st) \/ Charges(st)
                       \/ Switches(st) \/ Publishes(st) \/ Drops(st)
           Changes == UNCHANGED control \/ Reopens \/ Forgets \/ \E st : Lands(st) /\ Made(st)
<1>0. RequestsOK(requests) /\ Times \cup {0} \subseteq Nat
  BY ReplicationAssumption DEF RequestsOK, RequestTimes, TypeOK
<1>a. ASSUME NEW st, Made(st), UNCHANGED control \/ Lands(st) PROVE Changes
  BY Zenon, <1>a
<1>1. ASSUME NEW now, NEW onward, NEW ended, ExpireDue(now, onward, ended)
      PROVE  Changes /\ place = "free"
  <2> DEFINE due == {g \in mem.published : now >= Retain[g]}
  <2>1. Made(Withdrawn(due))
    BY Zenon DEF Withdraws
  <2>2. (UNCHANGED control \/ Lands(Withdrawn(due))) /\ place = "free"
    BY Zenon, <1>1, PersistLands DEF ExpireDue
  <2> HIDE DEF Made, Changes
  <2>. QED  BY Zenon, <2>1, <2>2, <1>a
<1>2. ASSUME NEW r \in requests, Begin(r)
      PROVE  Changes /\ place = "free"
  <2>1. r.todo \in Todos /\ Head(r.todo) = "begin" /\ place = "free"
    BY <1>0, <1>2, TailOK DEF Begin, Section
  <2>2. r.todo = <<"begin">> /\ r.todo \notin SweepTodos
    BY <2>1, TodoOfGeneration
  <2>3. r.gen \in Gens /\ InForce(r.gen, r.now) /\ r.now \in Nat
    BY <2>2, <1>0 DEF RequestsOK
  <2>4. UNCHANGED control \/ (MayBegin(r.gen) /\ Lands(Begun(r.gen, r.now)))
    BY Zenon, <1>2, PersistLands DEF Begin
  <2>5. MayBegin(r.gen) => Made(Begun(r.gen, r.now))
    BY Zenon, <2>3 DEF Begins
  <2> HIDE DEF Made
  <2>. QED  BY Zenon, <2>1, <2>4, <2>5
<1>3. ASSUME NEW r \in requests, Revoke(r)
      PROVE  Changes /\ place = "free"
  <2>1. /\ UNCHANGED control
           \/ (r.gen \in mem.published /\ Lands(Withdrawn({r.gen})))
        /\ place = "free"
    BY Zenon, <1>3, PersistLands DEF Revoke, Section
  <2>2. r.gen \in mem.published => {r.gen} \in SUBSET mem.published
    OBVIOUS
  <2>3. r.gen \in mem.published => Made(Withdrawn({r.gen}))
    BY Zenon, <2>2 DEF Withdraws
  <2> HIDE DEF Made
  <2>. QED  BY Zenon, <2>1, <2>3
<1>4. ASSUME NEW r \in requests, Collect(r)
      PROVE  Changes /\ place = "free"
  <2> DEFINE expired == {g \in mem.uploads : r.now >= Expires(mem, g)}
  <2>1. expired \in SUBSET mem.uploads
    OBVIOUS
  <2>2. \/ UNCHANGED control \/ Lands(Without(expired))
        \/ mem' = Without(expired) /\ UNCHANGED <<disk, late, torn>>
    BY Zenon, <1>4 DEF Collect, Persist, Lands
  <2>3. place = "free"
    BY <1>4 DEF Collect, Section
  <2> HIDE DEF expired
  <2>4. Made(Without(expired))
    BY Zenon, <2>1 DEF GivesUp
  <2>5. mem' = Without(expired) /\ UNCHANGED <<disk, late, torn>> => Forgets
    BY Zenon, <2>1 DEF Forgets
  <2> HIDE DEF Made
  <2>. QED  BY Zenon, <2>2, <2>3, <2>4, <2>5
<1>5. ASSUME NEW r \in requests, NEW name, Retire(r, name)
      PROVE  Changes /\ place = "free"
  <2>1. place = "free" /\ UNCHANGED marker
    BY Zenon, <1>5 DEF Retire, Section
  <2>2. \/ UNCHANGED control
        \/ \E g \in mem.retirements : Lands(Dropped(g)) /\ (RetireFiles(g) \/ g \in missed')
    BY Zenon, <1>5, PersistLands DEF Retire, Unreadable, Lands
  <2>3. \/ UNCHANGED control
        \/ \E g \in mem.retirements : Lands(Dropped(g)) /\ Drops(Dropped(g))
    BY Zenon, <2>1, <2>2 DEF Drops
  <2>. QED  BY Zenon, <2>1, <2>3
<1>6. ASSUME NEW r \in requests, Finalize(r)
      PROVE  UNCHANGED control /\ place = "free"
  BY <1>6 DEF Finalize, Section
<1>7. ASSUME NEW r \in requests, NEW name, NEW limit, List(r, name, limit)
      PROVE  UNCHANGED control /\ place = "free"
  BY <1>7 DEF List, Section
<1>8. ASSUME NEW g \in Gens, NEW c, NEW now \in Times, UploadChunk(g, c, now)
      PROVE  Changes /\ place = "free"
  <2>1. Owner[g] \in Owners /\ now \in Nat
    BY ReplicationAssumption
  <2>2. (UNCHANGED control \/ Lands(Charged(Owner[g], now))) /\ place = "free"
    BY Zenon, <1>8, PersistLands DEF UploadChunk, Lands
  <2>3. Made(Charged(Owner[g], now))
    BY Zenon, <2>1 DEF Charges
  <2> HIDE DEF Made
  <2>. QED  BY Zenon, <2>2, <2>3
<1>9. ASSUME NEW g \in Gens, CancelUpload(g)
      PROVE  Changes /\ place = "free"
  <2>1. g \in mem.uploads /\ place = "free" /\ (UNCHANGED control \/ Lands(Without({g})))
    BY Zenon, <1>9, PersistLands DEF CancelUpload
  <2>2. {g} \in SUBSET mem.uploads
    BY <2>1
  <2>3. Made(Without({g}))
    BY Zenon, <2>2 DEF GivesUp
  <2> HIDE DEF Made
  <2>. QED  BY Zenon, <2>1, <2>3
<1>10. ASSUME NEW k \in BOOLEAN, SetKillSwitch(k)
       PROVE  Changes /\ place = "free"
  <2>1. place = "free" /\ (UNCHANGED control \/ Lands([mem EXCEPT !.kill = k]))
    BY Zenon, <1>10, PersistLands DEF SetKillSwitch
  <2>2. Made([mem EXCEPT !.kill = k])
    BY Zenon DEF Switches
  <2> HIDE DEF Made
  <2>. QED  BY Zenon, <2>1, <2>2
<1>11. ASSUME InstallRename
       PROVE  UNCHANGED control /\ UNCHANGED chunks /\ (place' # "free" => UNCHANGED holder)
  BY <1>11 DEF InstallRename, Release
<1>12. ASSUME Commit
       PROVE  Changes /\ place' = "free"
  <2>1. /\ UNCHANGED control \/ Lands(Committed(holder))
        /\ place' = "free" /\ place # "free"
    BY Zenon, <1>12, PersistLands DEF Commit, Release
  <2>2. Made(Committed(holder))
    BY Zenon, <2>1 DEF Publishes, Installing
  <2> HIDE DEF Made
  <2>. QED  BY Zenon, <2>1, <2>2
<1>13. ASSUME Crash PROVE Reopens /\ place' = "free"
  BY <1>13 DEF Crash, Release, Reopens
<1>14. ASSUME Scheduler \/ UNCHANGED vars
       PROVE  UNCHANGED <<control, chunks, holder>>
  BY <1>14 DEF Scheduler, ClaimCreate, ClaimCheck, ClaimMark, ClaimCrash, Retention,
               install, control, vars
<1> HIDE DEF Made
<1>15. ASSUME NEW r \in requests, Request(r)
       PROVE  Changes /\ place = "free"
  BY Zenon, <1>1, <1>2, <1>3, <1>4, <1>5, <1>6, <1>7, <1>15 DEF Request, Expire
<1>16. ASSUME NEW op, NEW g, NEW now, Arrive(op, g, now)
       PROVE  Changes /\ place = "free"
  BY Zenon, <1>1, <1>16 DEF Arrive
<1>17. Changes
  BY Zenon, <1>8, <1>9, <1>10, <1>11, <1>12, <1>13, <1>14, <1>15, <1>16 DEF Next
<1>18. place # "free" /\ place' # "free" => UNCHANGED <<mem, chunks, holder>>
  <2> HIDE DEF Changes
  <2>. QED  BY <1>8, <1>9, <1>10, <1>11, <1>12, <1>13, <1>14, <1>15, <1>16 DEF Next, control
<1>. QED  BY Zenon, <1>17, <1>18 DEF Made

-----------------------------------------------------------------------------
(* The inductive invariant and its parts *)

\* A publication on disk that the memory does not know was reported as failed.
TornCovers == disk.published \subseteq mem.published \cup torn

Inv == /\ TypeOK /\ RequestTimes /\ StateOK(mem) /\ StateOK(disk) /\ MemoryIsDurable
       /\ Installing /\ TornCovers /\ PublicationsBacked /\ RetirementComplete

Made(st) == \/ Withdraws(st) \/ Begins(st) \/ GivesUp(st) \/ Charges(st)
            \/ Switches(st) \/ Publishes(st) \/ Drops(st)

\* The four ways of a step.
LEMMA Ways ==
    ASSUME Inv, [Next]_vars
    PROVE  \/ UNCHANGED control \/ Reopens \/ Forgets
           \/ \E st : Lands(st) /\ Made(st)
BY Zenon, StateSteps DEF Inv, Made

\* How the live sets move in each of the ways.
LEMMA WithdrawnFields ==
    ASSUME mem \in States, NEW set \in SUBSET Gens
    PROVE  /\ Withdrawn(set).uploads = mem.uploads
           /\ Withdrawn(set).published = mem.published \ set
           /\ Withdrawn(set).tombstones = mem.tombstones \cup set
           /\ Withdrawn(set).retirements = mem.retirements \cup set
BY DEF States, Withdrawn

LEMMA WithoutFields ==
    ASSUME mem \in States, NEW set \in SUBSET Gens
    PROVE  /\ Without(set).uploads = mem.uploads \ set
           /\ Without(set).published = mem.published
           /\ Without(set).tombstones = mem.tombstones
           /\ Without(set).retirements = mem.retirements
BY DEF States, Without

LEMMA BegunFields ==
    ASSUME mem \in States, NEW g \in Gens, NEW now \in Nat
    PROVE  /\ Begun(g, now).uploads = mem.uploads \cup {g}
           /\ Begun(g, now).published = mem.published
           /\ Begun(g, now).tombstones = mem.tombstones
           /\ Begun(g, now).retirements = mem.retirements
BY DEF States, Begun

LEMMA CommittedFields ==
    ASSUME mem \in States, NEW g \in Gens
    PROVE  /\ Committed(g).uploads = mem.uploads \ {g}
           /\ Committed(g).published = mem.published \cup {g}
           /\ Committed(g).tombstones = mem.tombstones
           /\ Committed(g).retirements = mem.retirements
BY DEF States, Committed, Without

LEMMA DroppedFields ==
    ASSUME mem \in States, NEW g \in Gens
    PROVE  /\ Dropped(g).uploads = mem.uploads
           /\ Dropped(g).published = mem.published
           /\ Dropped(g).tombstones = mem.tombstones
           /\ Dropped(g).retirements = mem.retirements \ {g}
BY DEF States, Dropped

\* Whatever an operation makes is accepted by validate_state.
LEMMA MadeOK ==
    ASSUME StateOK(mem), NEW st, Made(st)
    PROVE  StateOK(st)
<1>0. mem \in States
  BY DEF StateOK
<1>2. CASE Withdraws(st)
  BY <1>2, WithdrawnOK DEF Withdraws
<1>3. CASE Begins(st)
  BY <1>3, BegunOK DEF Begins
<1>4. CASE GivesUp(st)
  BY Zenon, <1>4, WithoutOK DEF GivesUp
<1>5. CASE Charges(st)
  <2>1. PICK o \in Owners, now \in Nat : st = Charged(o, now)
    BY <1>5 DEF Charges
  <2>2. StateOK(Charged(o, now))
    BY <1>0, ChargedState, BookkeepingOK
  <2>. QED  BY <2>1, <2>2
<1>6. CASE Switches(st)
  <2>1. PICK k \in BOOLEAN : st = [mem EXCEPT !.kill = k]
    BY <1>6 DEF Switches
  <2>2. /\ [mem EXCEPT !.kill = k] \in States
        /\ [mem EXCEPT !.kill = k].uploads = mem.uploads
        /\ [mem EXCEPT !.kill = k].created = mem.created
        /\ [mem EXCEPT !.kill = k].published = mem.published
        /\ [mem EXCEPT !.kill = k].tombstones = mem.tombstones
        /\ [mem EXCEPT !.kill = k].retirements = mem.retirements
    BY <1>0 DEF States
  <2>3. StateOK([mem EXCEPT !.kill = k])
    BY Zenon, <2>2, BookkeepingOK
  <2>. QED  BY <2>1, <2>3
<1>7. CASE Publishes(st)
  BY <1>7, CommittedOK DEF Publishes
<1>8. CASE Drops(st)
  BY <1>8, DroppedOK DEF Drops
<1>. QED  BY Zenon, <1>2, <1>3, <1>4, <1>5, <1>6, <1>7, <1>8 DEF Made

LEMMA StateOKStep ==
    ASSUME Inv, [Next]_vars
    PROVE  StateOK(mem') /\ StateOK(disk')
<1>0. StateOK(mem) /\ StateOK(disk)
  BY DEF Inv
<1>1. CASE UNCHANGED control \/ Reopens
  BY <1>0, <1>1 DEF control, Reopens
<1>2. CASE Forgets
  BY Zenon, <1>0, <1>2, WithoutOK DEF Forgets
<1>3. CASE \E st : Lands(st) /\ Made(st)
  <2>1. PICK st : Lands(st) /\ Made(st)
    BY Zenon, <1>3
  <2>2. StateOK(st)
    BY Zenon, <1>0, <2>1, MadeOK
  <2>3. mem' \in {mem, st} /\ disk' = st
    BY Zenon, <2>1 DEF Lands, Write
  <2>. QED  BY Zenon, <1>0, <2>2, <2>3
<1>. QED  BY Zenon, <1>1, <1>2, <1>3, Ways

Same(st, fields) == \A f \in fields : st[f] = mem[f]

\* What an operation makes, as moves of generations between the four sets.
LEMMA SetMoves ==
    ASSUME mem \in States, NEW st, Made(st)
    PROVE  \/ /\ st.uploads \subseteq mem.uploads
              /\ Same(st, {"published", "tombstones", "retirements"})
           \/ /\ mem.uploads \subseteq st.uploads
              /\ Same(st, {"published", "tombstones", "retirements"})
           \/ \E set \in SUBSET mem.published :
                /\ st.published = mem.published \ set /\ st.tombstones = mem.tombstones \cup set
                /\ st.retirements = mem.retirements \cup set /\ Same(st, {"uploads"})
           \/ \E g \in mem.uploads :
                /\ st.uploads = mem.uploads \ {g} /\ st.published = mem.published \cup {g}
                /\ Same(st, {"tombstones", "retirements"}) /\ Chunks[g] \subseteq chunks
           \/ \E g \in mem.retirements :
                /\ st.retirements = mem.retirements \ {g}
                /\ Same(st, {"uploads", "published", "tombstones"})
                /\ UNCHANGED marker /\ (RetireFiles(g) \/ g \in missed')
<1>3. CASE Withdraws(st)
  <2>1. PICK set \in SUBSET mem.published : st = Withdrawn(set)
    BY <1>3 DEF Withdraws
  <2>2. set \in SUBSET Gens
    BY DEF States
  <2>. QED  BY Zenon, <2>1, <2>2, WithdrawnFields DEF Same
<1>4. CASE Begins(st)
  <2>1. PICK g \in Gens, now \in Nat : st = Begun(g, now)
    BY <1>4 DEF Begins
  <2>2. mem.uploads \subseteq st.uploads /\ Same(st, {"published", "tombstones", "retirements"})
    BY <2>1, BegunFields DEF Same
  <2>. QED  BY <2>2
<1>5. CASE GivesUp(st)
  <2>1. PICK set \in SUBSET mem.uploads : st = Without(set)
    BY <1>5 DEF GivesUp
  <2>2. set \in SUBSET Gens
    BY DEF States
  <2>3. st.uploads \subseteq mem.uploads /\ Same(st, {"published", "tombstones", "retirements"})
    BY Zenon, <2>1, <2>2, WithoutFields DEF Same
  <2>. QED  BY <2>3
<1>6. CASE Charges(st) \/ Switches(st)
  <2>1. st.uploads = mem.uploads /\ Same(st, {"published", "tombstones", "retirements"})
    <3>1. CASE Charges(st)
      BY <3>1, ChargedState DEF Charges, Same
    <3>2. CASE Switches(st)
      BY <3>2 DEF Switches, States, Same
    <3>. QED  BY <1>6, <3>1, <3>2
  <2>. QED  BY <2>1
<1>8. CASE Publishes(st)
  <2>1. /\ holder \in mem.uploads /\ st = Committed(holder) /\ holder \in Gens
        /\ Chunks[holder] \subseteq chunks
    BY <1>8 DEF Publishes, States
  <2>2. /\ st.uploads = mem.uploads \ {holder} /\ st.published = mem.published \cup {holder}
        /\ Same(st, {"tombstones", "retirements"})
    BY <2>1, CommittedFields DEF Same
  <2>. QED  BY <2>1, <2>2
<1>9. CASE Drops(st)
  <2>1. PICK g \in mem.retirements :
          st = Dropped(g) /\ UNCHANGED marker /\ (RetireFiles(g) \/ g \in missed')
    BY Zenon, <1>9 DEF Drops
  <2>2. g \in Gens
    BY DEF States
  <2>3. /\ st.retirements = mem.retirements \ {g}
        /\ Same(st, {"uploads", "published", "tombstones"})
    BY <2>1, <2>2, DroppedFields DEF Same
  <2>. QED  BY Zenon, <2>1, <2>3
<1>. QED  BY Zenon, <1>3, <1>4, <1>5, <1>6, <1>8, <1>9 DEF Made

\* In an accepted state a generation has one phase.
LEMMA PhaseCases ==
    ASSUME NEW st, Valid(st), NEW g \in Gens
    PROVE  \/ /\ g \in st.uploads /\ g \notin st.published /\ g \notin st.tombstones
              /\ g \notin st.retirements /\ PhaseOf(st)[g] = "uploading"
           \/ /\ g \notin st.uploads /\ g \in st.published /\ g \notin st.tombstones
              /\ g \notin st.retirements /\ PhaseOf(st)[g] = "published"
           \/ /\ g \notin st.uploads /\ g \notin st.published /\ g \in st.tombstones
              /\ g \in st.retirements /\ PhaseOf(st)[g] = "retiring"
           \/ /\ g \notin st.uploads /\ g \notin st.published /\ g \in st.tombstones
              /\ g \notin st.retirements /\ PhaseOf(st)[g] = "retired"
           \/ /\ g \notin st.uploads /\ g \notin st.published /\ g \notin st.tombstones
              /\ g \notin st.retirements /\ PhaseOf(st)[g] = "none"
BY SMTT(30) DEF PhaseOf, Valid

\* The moves of GenerationRights, with those of a stuttering generation.
Goes(a, b) == a = b \/ <<a, b>> \in Rights!Moves

LEMMA GoesFacts ==
    /\ \A a : Goes(a, a)
    /\ Goes("none", "uploading") /\ Goes("uploading", "none") /\ Goes("uploading", "published")
    /\ Goes("none", "published") /\ Goes("published", "retiring") /\ Goes("retiring", "retired")
    /\ ~Goes("uploading", "retired")
    /\ \A b : Goes("uploading", b) => Goes("none", b)
BY DEF Goes, Rights!Moves

\* Each generation makes at most one move.
LEMMA PhaseMoves ==
    ASSUME StateOK(mem), NEW st, Made(st), NEW g \in Gens
    PROVE  Goes(PhaseOf(mem)[g], PhaseOf(st)[g])
<1>0. mem \in States /\ Valid(mem) /\ Valid(st)
  BY MadeOK DEF StateOK
<1> DEFINE U == g \in mem.uploads  P == g \in mem.published
           T == g \in mem.tombstones  R == g \in mem.retirements
           V == g \in st.uploads  Q == g \in st.published
           X == g \in st.tombstones  Y == g \in st.retirements
           a == PhaseOf(mem)[g]  b == PhaseOf(st)[g]
<1>1. \/ U /\ ~P /\ ~T /\ ~R /\ a = "uploading"
      \/ ~U /\ P /\ ~T /\ ~R /\ a = "published"
      \/ ~U /\ ~P /\ T /\ R /\ a = "retiring"
      \/ ~U /\ ~P /\ T /\ ~R /\ a = "retired"
      \/ ~U /\ ~P /\ ~T /\ ~R /\ a = "none"
  BY Zenon, <1>0, PhaseCases
<1>2. \/ V /\ ~Q /\ ~X /\ ~Y /\ b = "uploading"
      \/ ~V /\ Q /\ ~X /\ ~Y /\ b = "published"
      \/ ~V /\ ~Q /\ X /\ Y /\ b = "retiring"
      \/ ~V /\ ~Q /\ X /\ ~Y /\ b = "retired"
      \/ ~V /\ ~Q /\ ~X /\ ~Y /\ b = "none"
  BY Zenon, <1>0, PhaseCases
<1>3. \/ (Q <=> P) /\ (X <=> T) /\ (Y <=> R)
      \/ (V <=> U) /\ P /\ ~Q /\ X /\ Y
      \/ (V <=> U) /\ (Q <=> P) /\ (X <=> T) /\ (Y <=> R)
      \/ U /\ ~V /\ Q /\ (X <=> T) /\ (Y <=> R)
      \/ (V <=> U) /\ (Q <=> P) /\ (X <=> T) /\ R /\ ~Y
  BY SMTT(30), <1>0, SetMoves DEF Same
<1> HIDE DEF U, P, T, R, V, Q, X, Y, a, b
<1>4. \/ a = b
      \/ a = "uploading" /\ b = "none"
      \/ a = "none" /\ b = "uploading"
      \/ a = "uploading" /\ b = "published"
      \/ a = "published" /\ b = "retiring"
      \/ a = "retiring" /\ b = "retired"
  BY <1>1, <1>2, <1>3
<1>5. Goes(a, b)
  BY Zenon, <1>4, GoesFacts
<1>. QED  BY <1>5 DEF a, b

\* A generation whose upload the memory loses has no rights in it any more.
LEMMA ForgetMoves ==
    ASSUME StateOK(mem), NEW set \in SUBSET mem.uploads, NEW g \in Gens
    PROVE  \/ PhaseOf(Without(set))[g] = PhaseOf(mem)[g]
           \/ PhaseOf(mem)[g] = "uploading" /\ PhaseOf(Without(set))[g] = "none"
<1>1. mem \in States /\ Valid(mem) /\ set \in SUBSET Gens
  BY DEF StateOK, States
<1>2. /\ Without(set).uploads = mem.uploads \ set /\ Without(set).published = mem.published
      /\ Without(set).tombstones = mem.tombstones /\ Without(set).retirements = mem.retirements
  BY Zenon, <1>1, WithoutFields
<1>3. Valid(Without(set))
  BY Zenon, WithoutOK DEF StateOK
<1> DEFINE st == Without(set)
<1> HIDE DEF st
<1>4. /\ st.uploads = mem.uploads \ set /\ st.published = mem.published
      /\ st.tombstones = mem.tombstones /\ st.retirements = mem.retirements /\ Valid(st)
  BY <1>2, <1>3 DEF st
<1>5. g \in st.uploads => g \in mem.uploads
  BY Zenon, <1>4
<1>6. PhaseOf(st)[g] = PhaseOf(mem)[g] \/ (PhaseOf(mem)[g] = "uploading" /\ PhaseOf(st)[g] = "none")
  BY Zenon, <1>1, <1>4, <1>5, PhaseCases
<1>. QED  BY <1>6 DEF st

\* The two halves of MemoryIsDurable.
Equal == /\ mem.uploads \subseteq disk.uploads
         /\ \A g \in mem.uploads : mem.created[g] = disk.created[g]
         /\ \A field \in {"kill", "published", "tombstones", "retirements", "month", "used"} :
               mem[field] = disk[field]
Ahead == \A g \in Gens : Goes(PhaseOf(mem)[g], PhaseOf(disk)[g])

LEMMA DurableParts == MemoryIsDurable <=> (late \/ Equal) /\ Ahead
BY Zenon DEF MemoryIsDurable, Equal, Ahead, Goes, Phase

LEMMA DurableStep ==
    ASSUME Inv, [Next]_vars
    PROVE  MemoryIsDurable'
<1>0. StateOK(mem) /\ mem \in States /\ (late \/ Equal) /\ Ahead
  BY DurableParts DEF Inv, StateOK
<1>1. CASE UNCHANGED control
  BY Zenon, <1>1 DEF Inv, control, MemoryIsDurable, Phase, PhaseOf
<1>2. CASE mem' = disk'
  <2>1. Equal'
    BY <1>2 DEF Equal
  <2>2. Ahead'
    BY Zenon, <1>2, GoesFacts DEF Ahead, PhaseOf
  <2>. QED  BY <2>1, <2>2, DurableParts, PTL
<1>3. CASE Forgets
  <2>1. PICK set \in SUBSET mem.uploads : mem' = Without(set) /\ UNCHANGED <<disk, late, torn>>
    BY Zenon, <1>3 DEF Forgets
  <2>2. late' \/ Equal'
    <3>1. /\ mem'.uploads = mem.uploads \ set
          /\ \A g \in mem.uploads \ set : mem'.created[g] = mem.created[g]
      BY Zenon, <2>1, <1>0, WithoutOK DEF States
    <3>2. \A field \in {"kill", "published", "tombstones", "retirements", "month", "used"} :
              mem'[field] = mem[field]
      BY Zenon, <2>1, <1>0 DEF Without, States
    <3>. QED  BY <1>0, <2>1, <3>1, <3>2 DEF Equal
  <2>3. \A g \in Gens : Goes(PhaseOf(Without(set))[g], PhaseOf(disk)[g])
    BY Zenon, <1>0, ForgetMoves, GoesFacts DEF Ahead
  <2>4. Ahead'
    BY Zenon, <2>1, <2>3 DEF Ahead, PhaseOf
  <2>. QED  BY <2>2, <2>4, DurableParts, PTL
<1>4. ASSUME NEW st, Made(st), UNCHANGED mem, disk' = st, late' = TRUE
      PROVE  MemoryIsDurable'
  <2>1. \A g \in Gens : Goes(PhaseOf(mem)[g], PhaseOf(st)[g])
    BY Zenon, <1>0, <1>4, PhaseMoves
  <2>2. Ahead'
    BY Zenon, <1>4, <2>1 DEF Ahead, PhaseOf
  <2>3. late'
    BY <1>4
  <2>. QED  BY <2>2, <2>3, DurableParts, PTL
<1>5. ASSUME NEW st, Lands(st), Made(st)
      PROVE  MemoryIsDurable'
  BY Zenon, <1>2, <1>4, <1>5 DEF Lands, Write
<1>6. Reopens => mem' = disk'
  BY DEF Reopens
<1>. QED  BY Zenon, <1>1, <1>2, <1>3, <1>5, <1>6, Ways

\* Finalize holds the mutex until it publishes or gives up.
LEMMA InstallingStep ==
    ASSUME Inv, [Next]_vars
    PROVE  Installing'
<1>1. CASE place' = "free"
  BY <1>1 DEF Installing
<1>2. CASE place # "free" /\ place' # "free"
  BY <1>2, StateSteps DEF Inv, Installing
<1>3. CASE place = "free" /\ place' # "free"
  <2>1. PICK r \in requests : Finalize(r)
    BY Zenon, <1>3 DEF Next, Request, Arrive, Expire, ExpireDue, Begin, Revoke, Collect, List, Retire,
       UploadChunk, CancelUpload, SetKillSwitch, InstallRename, Commit, Crash, Release,
       Scheduler, ClaimCreate, ClaimCheck, ClaimMark, ClaimCrash, Retention, install, vars
  <2>2. MayInstall(r.gen, r.now) /\ holder' = r.gen /\ UNCHANGED <<mem, chunks>>
    BY <2>1, <1>3 DEF Finalize, control, install
  <2>. QED  BY <2>2 DEF MayInstall, Active, Installing
<1>. QED  BY <1>1, <1>2, <1>3

\* Chunks go only when a collection finds no reference to them.
LEMMA ChunksStep ==
    ASSUME mem \in States, [Next]_vars
    PROVE  \/ chunks \subseteq chunks'
           \/ /\ \A g \in mem.published : Chunks[g] \cap (chunks \ chunks') = {}
              /\ mem'.published = mem.published
              /\ \/ disk' = disk /\ torn' = torn
                 \/ disk' = mem' /\ torn' = torn \cap mem.published
<1>1. ASSUME NEW r \in requests, Collect(r), chunks' # chunks
      PROVE  /\ \A g \in mem.published : Chunks[g] \cap (chunks \ chunks') = {}
             /\ mem'.published = mem.published
             /\ \/ disk' = disk /\ torn' = torn
                \/ disk' = mem' /\ torn' = torn \cap mem.published
  <2> DEFINE expired == {g \in mem.uploads : r.now >= Expires(mem, g)}
             st == Without(expired)
  <2>1. PICK gone \in SUBSET (chunks \ Referenced(st)) : chunks' = chunks \ gone
    BY SMTT(30), <1>1 DEF Collect
  <2>2. \/ mem' = mem /\ disk' = disk /\ torn' = torn
        \/ mem' = st /\ disk' = mem' /\ torn' = torn \cap mem.published
    BY <1>1 DEF Collect, Persist, Write, control
  <2>3. st.published = mem.published
    BY Zenon DEF Without, States
  <2>4. \A g \in mem.published : Chunks[g] \subseteq Referenced(st)
    BY Zenon, <2>3 DEF Referenced
  <2> HIDE DEF st
  <2>. QED  BY <2>1, <2>2, <2>3, <2>4
<1>2. \/ chunks \subseteq chunks' \/ \E r \in requests : Collect(r)
  BY Zenon DEF Next, Request, Arrive, Expire, ExpireDue, Begin, Revoke, Finalize, List, Retire,
       UploadChunk, CancelUpload, SetKillSwitch, InstallRename, Commit, Crash,
       Scheduler, ClaimCreate, ClaimCheck, ClaimMark, ClaimCrash, Retention, vars
<1>. QED  BY <1>1, <1>2

\* What a step makes of the publications.
LEMMA PublishedStep ==
    ASSUME Inv, [Next]_vars
    PROVE  \/ disk'.published = mem'.published /\ torn' = torn /\ mem'.published = disk.published
           \/ mem'.published = mem.published /\ disk'.published = disk.published /\ torn' = torn
           \/ /\ mem'.published = mem.published
              /\ torn' = (torn \cap mem.published) \cup (disk'.published \ mem.published)
           \/ /\ disk'.published = mem'.published /\ torn' = torn \cap mem.published
              /\ \/ mem'.published \subseteq mem.published
                 \/ \E g : mem'.published = mem.published \cup {g} /\ Chunks[g] \subseteq chunks
<1>0. mem \in States
  BY DEF Inv, StateOK
<1>1. CASE UNCHANGED control \/ Reopens
  BY Zenon, <1>1 DEF control, Reopens
<1>2. CASE Forgets
  <2>1. PICK set \in SUBSET mem.uploads : mem' = Without(set) /\ UNCHANGED <<disk, late, torn>>
    BY Zenon, <1>2 DEF Forgets
  <2>2. set \in SUBSET Gens
    BY <1>0 DEF States
  <2>. QED  BY Zenon, <1>0, <2>1, <2>2, WithoutFields
<1>3. ASSUME NEW st, Made(st), Write(st)
      PROVE  /\ disk'.published = mem'.published /\ torn' = torn \cap mem.published
             /\ \/ mem'.published \subseteq mem.published
                \/ \E g : mem'.published = mem.published \cup {g} /\ Chunks[g] \subseteq chunks
  <2>1. \/ st.published \subseteq mem.published
        \/ \E g : st.published = mem.published \cup {g} /\ Chunks[g] \subseteq chunks
    BY <1>0, <1>3, SetMoves DEF Same
  <2>. QED  BY Zenon, <1>3, <2>1 DEF Write
<1>4. CASE \E st : Lands(st) /\ Made(st)
  BY Zenon, <1>3, <1>4 DEF Lands
<1>. QED  BY Zenon, <1>1, <1>2, <1>4, Ways

LEMMA BackedStep ==
    ASSUME Inv, [Next]_vars
    PROVE  PublicationsBacked' /\ TornCovers'
<1>0. mem \in States /\ PublicationsBacked /\ TornCovers
  BY DEF Inv, StateOK
<1>1. TornCovers'
  BY Zenon, <1>0, PublishedStep DEF TornCovers
<1>2. CASE ~(chunks \subseteq chunks')
  BY <1>0, <1>1, <1>2, ChunksStep DEF PublicationsBacked, TornCovers
<1>3. CASE chunks \subseteq chunks'
  <2>1. ASSUME NEW h \in (mem'.published \cup disk'.published) \ torn'
        PROVE  h \in (mem.published \cup disk.published) \ torn \/ Chunks[h] \subseteq chunks
    BY Zenon, PublishedStep
  <2>2. \A h \in (mem'.published \cup disk'.published) \ torn' : Chunks[h] \subseteq chunks
    BY Zenon, <1>0, <2>1 DEF PublicationsBacked
  <2>. QED  BY <1>1, <1>3, <2>2 DEF PublicationsBacked
<1>. QED  BY <1>1, <1>2, <1>3

\* Which generation a directory holds changes only where finalize renames it into
\* place; a marker goes only with its directory.
LEMMA FilesStep ==
    ASSUME TypeOK, [Next]_vars, NEW g \in Gens, files'[Ns[g]] = g, Ns[g] \notin marker'
    PROVE  \/ files[Ns[g]] = g /\ Ns[g] \notin marker
           \/ holder = g /\ place = "rename" /\ UNCHANGED control
<1>0. /\ g \notin {"absent", "empty", "other"} /\ Ns[g] \in Namespaces
      /\ files \in [Namespaces -> Gens \cup {"absent", "empty", "other"}]
      /\ Shared \subseteq Namespaces
  BY ReplicationAssumption DEF TypeOK
<1>1. CASE UNCHANGED store
  BY Zenon, <1>1 DEF store
<1>2. CASE \E r \in requests : Finalize(r)
  BY <1>0, <1>2 DEF Finalize
<1>3. CASE InstallRename
  <2>1. /\ UNCHANGED <<control, marker>> /\ place = "rename"
        /\ files' \in {files, [files EXCEPT ![Ns[holder]] = holder],
                       [files EXCEPT ![Ns[holder]] = "absent"]}
    BY <1>3 DEF InstallRename
  <2>. QED  BY <1>0, <2>1
<1>4. CASE Commit
  <2>1. \/ files' = files /\ marker' = marker
        \/ (files' = [files EXCEPT ![Ns[holder]] = "absent"] /\ marker' = marker \ {Ns[holder]})
    BY <1>4 DEF Commit, store
  <2>. QED  BY <1>0, <2>1
<1>5. CASE \E r \in requests, name \in {"retireOne", "retireAll"} : Retire(r, name)
  <2>1. UNCHANGED marker /\ (UNCHANGED files \/ \E h : files' = [files EXCEPT ![Ns[h]] = "other"])
    BY Zenon, <1>5 DEF Retire, RetireFiles, Unreadable
  <2>. QED  BY <1>0, <2>1
<1>6. CASE Scheduler
  <2>1. PICK n \in Shared : \/ ClaimCreate(n) \/ ClaimCheck(n) \/ ClaimMark(n)
                            \/ ClaimCrash(n) \/ Retention(n)
    BY Zenon, <1>6 DEF Scheduler
  <2>2. /\ files' = files \/ \E x \in {"absent", "empty", "other"} : files' = [files EXCEPT ![n] = x]
        /\ marker \subseteq marker' \/ (marker' = marker \ {n} /\ files' = [files EXCEPT ![n] = "absent"])
    BY <2>1 DEF ClaimCreate, ClaimCheck, ClaimMark, ClaimCrash, Retention, store
  <2>. QED  BY <1>0, <2>2
<1>. QED
  BY Zenon, <1>1, <1>2, <1>3, <1>4, <1>5, <1>6
  DEF Next, Request, Arrive, Expire, ExpireDue, Begin, Revoke, Collect, List,
      UploadChunk, CancelUpload, SetKillSwitch, Crash, vars, store

\* A work item goes from the memory or from the disk after the files are removed,
\* or after they could not be read.
LEMMA RetiredStep ==
    ASSUME Inv, [Next]_vars, NEW g, NEW st \in {mem', disk'}, g \in st.tombstones \ st.retirements
    PROVE  \/ g \in mem.tombstones \ mem.retirements
           \/ g \in disk.tombstones \ disk.retirements
           \/ g \in mem.retirements /\ UNCHANGED marker /\ (RetireFiles(g) \/ g \in missed')
<1>0. mem \in States
  BY DEF Inv, StateOK
<1>1. CASE UNCHANGED control \/ Reopens
  BY Zenon, <1>1 DEF control, Reopens
<1>2. CASE Forgets
  <2>1. PICK set \in SUBSET mem.uploads : mem' = Without(set) /\ UNCHANGED <<disk, late, torn>>
    BY Zenon, <1>2 DEF Forgets
  <2>2. set \in SUBSET Gens
    BY <1>0 DEF States
  <2>. QED  BY Zenon, <1>0, <2>1, <2>2, WithoutFields
<1>3. ASSUME NEW t, Lands(t), Made(t)
      PROVE  \/ g \in mem.tombstones \ mem.retirements
             \/ g \in mem.retirements /\ UNCHANGED marker /\ (RetireFiles(g) \/ g \in missed')
  <2>1. st \in {mem, t}
    BY Zenon, <1>3 DEF Lands, Write
  <2>2. CASE st = t
    <3>1. g \in t.tombstones \ t.retirements
      BY Zenon, <2>2
    <3>2. \/ t.tombstones = mem.tombstones /\ t.retirements = mem.retirements
          \/ \E set : /\ t.tombstones = mem.tombstones \cup set
                      /\ t.retirements = mem.retirements \cup set
          \/ \E h \in mem.retirements :
                /\ t.tombstones = mem.tombstones /\ t.retirements = mem.retirements \ {h}
                /\ UNCHANGED marker /\ (RetireFiles(h) \/ h \in missed')
      BY Zenon, <1>0, <1>3, SetMoves DEF Same
    <3>. QED  BY Zenon, <3>1, <3>2
  <2>. QED  BY Zenon, <2>1, <2>2
<1>. QED  BY Zenon, <1>1, <1>2, <1>3, Ways

\* Nothing is forgotten of what could not be read.
LEMMA MissedStep ==
    ASSUME Inv, [Next]_vars
    PROVE  missed \subseteq missed' /\ missed' \subseteq Gens
<1>0. /\ missed \subseteq Gens /\ \A r \in requests : r.work \subseteq Gens
      /\ mem.retirements \subseteq Gens
  BY DEF Inv, TypeOK, States
<1>1. UNCHANGED missed \/ \E g \in mem.retirements : missed' = missed \cup {g}
  <2>1. CASE \E r \in requests, name \in {"retireOne", "retireAll"} : Retire(r, name)
    BY Zenon, <2>1 DEF Retire, Unreadable
  <2>. QED  BY Zenon, <2>1
     DEF Next, Request, Arrive, Expire, ExpireDue, Begin, Revoke, Finalize, Collect,
       List, UploadChunk, CancelUpload, SetKillSwitch, InstallRename, Commit,
       Crash, Scheduler, ClaimCreate, ClaimCheck, ClaimMark, ClaimCrash, Retention, vars
<1>. QED  BY Zenon, <1>0, <1>1

LEMMA RetirementStep ==
    ASSUME Inv, [Next]_vars
    PROVE  RetirementComplete'
<1> SUFFICES ASSUME NEW st \in {mem', disk'}, NEW g \in (st.tombstones \ st.retirements) \ missed',
                    files'[Ns[g]] = g, Ns[g] \notin marker'
             PROVE  FALSE
  BY Zenon DEF RetirementComplete
<1>0. TypeOK /\ Valid(mem) /\ Valid(disk) /\ RetirementComplete /\ g \in Gens /\ g \notin missed
  BY StateOKStep, MissedStep DEF Inv, StateOK, States
<1>1. ASSUME g \in mem.tombstones \ mem.retirements \/ g \in disk.tombstones \ disk.retirements
      PROVE  FALSE
  <2>1. ~(files[Ns[g]] = g /\ Ns[g] \notin marker)
    BY Zenon, <1>0, <1>1 DEF RetirementComplete
  <2>2. holder = g /\ place = "rename"
    BY <1>0, <2>1, FilesStep
  <2>3. g \in mem.uploads
    BY <2>2 DEF Inv, Installing
  <2>4. PhaseOf(mem)[g] = "uploading" /\ g \notin mem.tombstones
    BY <1>0, <2>3, PhaseCases
  <2>5. PhaseOf(disk)[g] = "retired"
    BY <1>0, <1>1, <2>4, PhaseCases
  <2>6. Goes("uploading", "retired")
    BY <1>0, <2>4, <2>5, DurableParts DEF Inv, Ahead
  <2>. QED  BY <2>6, GoesFacts
<1>2. ASSUME RetireFiles(g), UNCHANGED marker
      PROVE  FALSE
  <2>2. /\ g \notin {"absent", "empty", "other"} /\ Ns[g] \in Namespaces
        /\ files \in [Namespaces -> Gens \cup {"absent", "empty", "other"}]
    BY <1>0, ReplicationAssumption DEF TypeOK
  <2>. QED  BY <1>2, <2>2 DEF RetireFiles, IsCurrent
<1>. QED  BY Zenon, <1>1, <1>2, RetiredStep

\* The type of what is not in the state.
LEMMA TypeStep ==
    ASSUME Inv, [Next]_vars
    PROVE  TypeOK' /\ RequestTimes'
<1>0. /\ TypeOK /\ RequestsOK(requests) /\ mem.retirements \subseteq Gens /\ Installing
      /\ mem.uploads \subseteq Gens
  BY DEF Inv, TypeOK, RequestsOK, RequestTimes, States
<1>1. RequestsOK(requests')
  BY <1>0, RequestsStep
<1>2. mem' \in States /\ disk' \in States
  BY StateOKStep DEF StateOK
<1>3. chunks' \subseteq ChunkIds
  BY Zenon, <1>0 DEF TypeOK, Next, Request, Arrive, Expire, ExpireDue, Begin, Revoke, Finalize, Collect,
     List, Retire, UploadChunk, CancelUpload, SetKillSwitch, InstallRename, Commit, Crash,
     Scheduler, ClaimCreate, ClaimCheck, ClaimMark, ClaimCrash, Retention, vars
<1>4. /\ place' \in {"free", "rename", "placed", "adopted"} /\ holder' \in Gens \cup {NoGen}
      /\ place' = "free" <=> holder' = NoGen
  <2>1. CASE UNCHANGED install \/ Release
    BY Zenon, <1>0, <2>1 DEF TypeOK, install, Release
  <2>2. CASE InstallRename
    BY Zenon, <1>0, <2>2 DEF TypeOK, InstallRename, Release
  <2>3. ASSUME NEW r \in requests, Finalize(r)
        PROVE  \/ UNCHANGED install
               \/ r.gen \in Gens /\ holder' = r.gen /\ place' \in {"rename", "adopted"}
    <3>1. r.gen \in mem.uploads \/ UNCHANGED install
      BY Zenon, <2>3 DEF Finalize, MayInstall, Active, install
    <3>. QED  BY <1>0, <2>3, <3>1 DEF Finalize
  <2>4. CASE \E r \in requests : Finalize(r)
    BY <1>0, <2>1, <2>3, <2>4, ReplicationAssumption
  <2>. QED  BY Zenon, <2>1, <2>2, <2>4
     DEF Next, Request, Arrive, Expire, ExpireDue, Begin, Revoke, Collect, List, Retire,
       UploadChunk, CancelUpload, SetKillSwitch, Commit, Crash, Scheduler,
       ClaimCreate, ClaimCheck, ClaimMark, ClaimCrash, Retention, install, vars
<1>5. /\ files' \in [Namespaces -> Gens \cup {"absent", "empty", "other"}]
      /\ marker' \subseteq Namespaces
  <2>0. /\ files \in [Namespaces -> Gens \cup {"absent", "empty", "other"}]
        /\ marker \subseteq Namespaces /\ Shared \subseteq Namespaces
    BY <1>0, ReplicationAssumption DEF TypeOK
  <2>00. holder \in Gens \/ place = "free"
    BY <1>0 DEF TypeOK
  <2>1. CASE UNCHANGED store
    BY <2>0, <2>1 DEF store
  <2>2. CASE \E r \in requests : Finalize(r)
    BY <2>0, <2>2 DEF Finalize
  <2>3. CASE InstallRename
    BY <2>0, <2>00, <2>3 DEF InstallRename
  <2>4. CASE Commit
    BY <2>0, <2>4 DEF Commit, store
  <2>5. CASE \E r \in requests, name \in {"retireOne", "retireAll"} : Retire(r, name)
    <3>1. UNCHANGED marker /\ (UNCHANGED files \/ \E h : files' = [files EXCEPT ![Ns[h]] = "other"])
      BY Zenon, <2>5 DEF Retire, RetireFiles, Unreadable
    <3>. QED  BY <2>0, <3>1
  <2>6. CASE Scheduler
    BY <2>0, <2>6 DEF Scheduler, ClaimCreate, ClaimCheck, ClaimMark, ClaimCrash, Retention, store
  <2>. QED
    BY Zenon, <2>1, <2>2, <2>3, <2>4, <2>5, <2>6
    DEF Next, Request, Arrive, Expire, ExpireDue, Begin, Revoke, Collect, List,
        UploadChunk, CancelUpload, SetKillSwitch, Crash, vars, store
<1>6. claim' \in [Shared -> {"idle", "made", "checked"}]
  <2>1. UNCHANGED claim \/ \E n \in Shared, to \in {"idle", "made", "checked"} :
                               claim' = [claim EXCEPT ![n] = to]
    BY Zenon DEF Next, Request, Arrive, Expire, ExpireDue, Begin, Revoke, Finalize, Collect,
     List, Retire, UploadChunk, CancelUpload, SetKillSwitch, InstallRename, Commit, Crash,
     Scheduler, ClaimCreate, ClaimCheck, ClaimMark, ClaimCrash, Retention, Claim, vars
  <2>. QED  BY <1>0, <2>1 DEF TypeOK
<1>7. faults' \in Nat
  <2>1. UNCHANGED faults \/ faults' = faults + 1
    <3>1. ASSUME NEW r \in requests, Request(r) PROVE UNCHANGED faults \/ faults' = faults + 1
      <4>1. CASE Expire(r) \/ Begin(r) \/ Revoke(r)
        BY Zenon, <4>1 DEF Expire, ExpireDue, Begin, Revoke, Persist, PersistFails, FailEarly, FailLate, Fault, NoFault
      <4>2. CASE Finalize(r) \/ Collect(r)
        BY <4>2 DEF Finalize, Collect, Persist, Fault, NoFault
      <4>3. CASE \E name, limit : List(r, name, limit)
        BY <4>3 DEF List
      <4>4. CASE \E name : Retire(r, name)
        BY Zenon, <4>4 DEF Retire, Persist, PersistFails, FailEarly, FailLate, Fault, NoFault
      <4>. QED  BY <3>1, <4>1, <4>2, <4>3, <4>4 DEF Request
    <3>2. CASE \E op, g, now : Arrive(op, g, now)
      BY ZenonT(30), <3>2 DEF Arrive, ExpireDue, Persist, PersistFails, FailEarly, FailLate, Fault, NoFault
    <3>5. CASE \E g, c, now : UploadChunk(g, c, now)
      BY ZenonT(30), <3>5 DEF UploadChunk, Persist, PersistFails, FailEarly, FailLate, Fault, NoFault
    <3>3. CASE \E g : CancelUpload(g) \/ SetKillSwitch(g)
      BY SMTT(30), <3>3 DEF CancelUpload, SetKillSwitch, Persist, PersistFails, FailEarly, FailLate, Fault, NoFault
    <3>4. CASE InstallRename \/ Commit \/ Crash \/ Scheduler \/ UNCHANGED vars
      BY <3>4 DEF InstallRename, Commit, Crash, Scheduler, ClaimCreate, ClaimCheck, ClaimMark,
         ClaimCrash, Retention, Persist, PersistFails, FailEarly, FailLate, Fault, NoFault, vars
    <3>. QED  BY <3>1, <3>2, <3>3, <3>4, <3>5 DEF Next
  <2>. QED  BY <1>0, <2>1 DEF TypeOK
<1>8. late' \in BOOLEAN /\ torn' \subseteq Gens /\ missed' \subseteq Gens
  <2>1. late' \in BOOLEAN
    BY Zenon, <1>0, Ways DEF TypeOK, control, Reopens, Forgets, Lands, Write
  <2>2. torn' \subseteq torn \cup disk'.published
    BY Zenon, Ways DEF control, Reopens, Forgets, Lands, Write
  <2>3. torn' \subseteq Gens
    BY <1>0, <1>2, <2>2 DEF TypeOK, States
  <2>. QED  BY <2>1, <2>3, MissedStep
<1>. QED  BY <1>1, <1>2, <1>3, <1>4, <1>5, <1>6, <1>7, <1>8 DEF TypeOK, RequestTimes, RequestsOK

-----------------------------------------------------------------------------
(* The theorems *)

\* At the start nothing is known and nothing runs.
LEMMA InvInit == Init => Inv
<1> SUFFICES ASSUME Init PROVE Inv
  OBVIOUS
<1>1. mem \in States /\ disk = mem
  BY Zenon DEF Init, States
<1>2. Live(mem) = {} /\ mem.uploads = {} /\ mem.published = {} /\ mem.tombstones = {}
      /\ mem.retirements = {}
  BY SMTT(30) DEF Init, Live
<1>3. Valid(mem)
  BY <1>2 DEF Valid
<1>4. Cardinality(Live(mem)) <= MaxGenerations
  <2>1. Cardinality(Live(mem)) = 0
    BY <1>2, FS_EmptySet
  <2>2. MaxGenerations \in Nat
    BY ReplicationAssumption
  <2>. QED  BY <2>1, <2>2
<1>5. StateOK(mem) /\ StateOK(disk) /\ MemoryIsDurable
  <2>1. Equal /\ Ahead
    BY Zenon, <1>1, GoesFacts DEF Equal, Ahead
  <2>. QED  BY <1>1, <1>3, <1>4, <2>1, DurableParts DEF StateOK
<1>6. TypeOK
  BY <1>1 DEF Init, TypeOK
<1>7. RequestTimes /\ Installing /\ TornCovers /\ PublicationsBacked /\ RetirementComplete
  BY <1>1, <1>2 DEF Init, RequestTimes, Installing, TornCovers, PublicationsBacked, RetirementComplete
<1>. QED  BY <1>5, <1>6, <1>7 DEF Inv

\* Every step of the service and of the scheduler keeps the invariant.
LEMMA InvStep == Inv /\ [Next]_vars => Inv'
BY StateOKStep, DurableStep, InstallingStep, BackedStep, RetirementStep, TypeStep DEF Inv

LEMMA InvHolds == Spec => []Inv
BY InvInit, InvStep, PTL DEF Spec

\* The variables keep their types; in particular the transaction of finalize is
\* registered exactly as long as its locks are held.
THEOREM TypeCorrect == Spec => []TypeOK
BY InvHolds, PTL DEF Inv

\* What an operation writes is always accepted by validate_state, and the service
\* can be opened again after a crash anywhere.
THEOREM StateAlwaysValid == Spec => []StateValid
<1>1. Inv => StateValid
  BY DEF Inv, StateOK, StateValid
<1>. QED  BY <1>1, InvHolds, PTL

\* The memory never runs ahead of the disk: it is the disk, but for expired uploads,
\* and after a write that failed late the disk may be one move ahead of it.
THEOREM MemoryNeverAhead == Spec => []MemoryIsDurable
BY InvHolds, PTL DEF Inv

\* Garbage collection never takes a chunk of a published generation, unless its
\* publication was reported as failed and found on disk at a restart.
THEOREM PublicationsKeepChunks == Spec => []PublicationsBacked
BY InvHolds, PTL DEF Inv

\* A retirement is dropped, from the memory and from the disk, only when the store
\* shows the generation no more, or when its directory could not be read.
THEOREM RetirementsFinish == Spec => []RetirementComplete
BY InvHolds, PTL DEF Inv

\* Every move of a generation is one that GenerationRights allows.
LEMMA RightsStep ==
    ASSUME Inv, Inv', [Next]_vars, Phase' # Phase
    PROVE  Rights!Next
<1>0. StateOK(mem) /\ Valid(mem') /\ Ahead
  BY DurableParts, StateOKStep DEF Inv, StateOK
<1>1. Phase' \in [Gens -> Rights!Phases]
  BY DEF Phase, PhaseOf, Rights!Phases
<1>2. ASSUME NEW g \in Gens
      PROVE  Goes(PhaseOf(mem)[g], PhaseOf(mem')[g])
  <2>1. CASE UNCHANGED control
    BY Zenon, <2>1, GoesFacts DEF control
  <2>2. CASE Reopens
    BY Zenon, <1>0, <2>2 DEF Reopens, Ahead
  <2>3. CASE Forgets
    <3>1. PICK set \in SUBSET mem.uploads : mem' = Without(set)
      BY Zenon, <2>3 DEF Forgets
    <3>. QED  BY Zenon, <1>0, <3>1, ForgetMoves, GoesFacts
  <2>4. ASSUME NEW st, Lands(st), Made(st)
        PROVE  Goes(PhaseOf(mem)[g], PhaseOf(mem')[g])
    <3>1. Goes(PhaseOf(mem)[g], PhaseOf(st)[g])
      BY Zenon, <1>0, <2>4, PhaseMoves
    <3>2. mem' \in {mem, st}
      BY Zenon, <2>4 DEF Lands, Write
    <3>. QED  BY Zenon, <3>1, <3>2, GoesFacts
  <2>. QED  BY Zenon, <2>1, <2>2, <2>3, <2>4, Ways
<1>3. \A g \in Gens : Phase'[g] = Phase[g] \/ <<Phase[g], Phase'[g]>> \in Rights!Moves
  BY Zenon, <1>2 DEF Goes, Phase, PhaseOf
<1>4. Rights!Unique'
  <2>1. \A g \in Gens : Phase'[g] \in {"uploading", "published", "retiring"} => g \in Live(mem')
    BY SMTT(30) DEF Phase, PhaseOf, Live
  <2>2. \A g, h \in Live(mem') : Ns[g] = Ns[h] => g = h
    BY <1>0 DEF Valid, Live
  <2>. QED  BY <2>1, <2>2 DEF Rights!Unique, Rights!Claims
<1>. QED  BY <1>1, <1>3, <1>4 DEF Rights!Next

\* The service implements GenerationRights.
THEOREM RightsImplemented == Spec => RightsKept
<1>1. Init => Rights!Init
  BY DEF Init, Phase, PhaseOf, Rights!Init
<1>2. Inv /\ Inv' /\ [Next]_vars => [Rights!Next]_Phase
  BY RightsStep
<1>. QED  BY <1>1, <1>2, InvHolds, PTL DEF Spec, RightsKept, Rights!Spec

=============================================================================
