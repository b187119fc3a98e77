--------------------------- MODULE TTLCacheProofs ---------------------------
(***************************************************************************)
(* Proofs about TTLCache, for any finite set of keys, any clients and      *)
(* mutators, and any TTL and capacity.                                     *)
(*                                                                         *)
(* CleanValuesCurrent is not inductive: it says nothing of what a Get in   *)
(* flight is about to store.  InFlight adds that a clean value held by a   *)
(* Get is at least as new as the row last invalidated, and that the floor  *)
(* of a call never exceeds it; SettledCommitted adds that what has been    *)
(* invalidated had been committed, which makes every new read clean.  With *)
(* NotAhead (no value is newer than its row) a clean entry is the row, as  *)
(* soon as all changes of it are invalidated; and what is not the row      *)
(* only grows older.                                                       *)
(***************************************************************************)
EXTENDS TTLCache, FiniteSetTheorems, TLAPS

SettledCommitted == \A k \in Keys : settled[k] <= db[k]

InFlight ==
  \A c \in Clients :
    /\ pc[c] # "idle" => floor[c] <= settled[key[c]]
    /\ pc[c] = "loading" /\ clean[c] => \A e \in old[c] : e.v >= settled[key[c]]
    /\ pc[c] = "storing" /\ clean[c] => got[c] >= settled[key[c]]

FreshInv == TypeOK /\ SettledCommitted /\ InFlight /\ CleanValuesCurrent

-----------------------------------------------------------------------------
(* What a store leaves in the map: k and at most the keys it held before   *)
(* (verify.go:50-53).                                                      *)
LEMMA InsertShape ==
  ASSUME NEW map, NEW k, NEW e
  PROVE  /\ DOMAIN Insert(map, k, e) \subseteq DOMAIN map \cup {k}
         /\ k \in DOMAIN Insert(map, k, e)
         /\ \A x \in DOMAIN Insert(map, k, e) :
              Insert(map, k, e)[x] = IF x = k THEN e ELSE map[x]
BY DEF Insert

(* A store of a well-typed entry keeps the map well typed.                 *)
LEMMA InsertType ==
  ASSUME NEW map, DOMAIN map \subseteq Keys, map \in [DOMAIN map -> Entry],
         NEW k \in Keys, NEW e \in Entry
  PROVE  /\ DOMAIN Insert(map, k, e) \subseteq Keys
         /\ Insert(map, k, e) \in [DOMAIN Insert(map, k, e) -> Entry]
BY DEF Insert

(* A store never takes a finite map beyond its capacity.                   *)
LEMMA InsertCapacity ==
  ASSUME NEW map, IsFiniteSet(DOMAIN map), Cardinality(DOMAIN map) <= MaxEntries,
         NEW k, NEW e
  PROVE  Cardinality(DOMAIN Insert(map, k, e)) <= MaxEntries
<1>. DEFINE full == Cardinality(DOMAIN map) >= MaxEntries
            kept == IF full THEN {} ELSE DOMAIN map
<1>1. DOMAIN Insert(map, k, e) = kept \cup {k}
  BY DEF Insert
<1>2. IsFiniteSet(kept) /\ Cardinality(kept) \in Nat
  BY FS_EmptySet, FS_CardinalityType
<1>3. Cardinality(kept) + 1 <= MaxEntries
  <2>1. CASE full
    BY <2>1, FS_EmptySet, CacheAssumption
  <2>2. CASE ~full
    BY <2>2, FS_CardinalityType, CacheAssumption
  <2>. QED  BY <2>1, <2>2
<1>4. Cardinality(kept \cup {k}) \in {Cardinality(kept), Cardinality(kept) + 1}
  BY <1>2, FS_AddElement
<1>. QED  BY <1>1, <1>2, <1>3, <1>4, CacheAssumption

-----------------------------------------------------------------------------
(* Every variable keeps its type (the whole of Get, Clear and the          *)
(* mutators' write, verify.go:35-62).                                      *)
THEOREM TypeCorrect == Spec => []TypeOK
<1>1. Init => TypeOK
  BY CacheAssumption DEF Init, TypeOK, NoEntries, Version, Entry, Answer
<1>2. TypeOK /\ [Next]_vars => TypeOK'
  <2>. SUFFICES ASSUME TypeOK, [Next]_vars PROVE TypeOK'
    OBVIOUS
  <2>. USE CacheAssumption DEF TypeOK, Version, Entry, Answer
  <2>1. ASSUME NEW c \in Clients, NEW k \in Keys, Hit(c, k) PROVE TypeOK'
    BY <2>1 DEF Hit
  <2>2. ASSUME NEW c \in Clients, NEW k \in Keys, Miss(c, k) PROVE TypeOK'
    BY <2>2 DEF Miss
  <2>3. ASSUME NEW c \in Clients, Load(c) PROVE TypeOK'
    BY <2>3 DEF Load
  <2>4. ASSUME NEW c \in Clients, LoadFails(c) PROVE TypeOK'
    <3>1. {[v |-> e.v, floor |-> floor[c], clean |-> clean[c]] : e \in old[c]}
            \in SUBSET Answer
      OBVIOUS
    <3>. QED  BY <2>4, <3>1 DEF LoadFails
  <2>5. ASSUME NEW c \in Clients, Store(c) PROVE TypeOK'
    <3>1. [v |-> got[c], age |-> 0, clean |-> clean[c]] \in Entry
      OBVIOUS
    <3>2. DOMAIN m' \subseteq Keys /\ m' \in [DOMAIN m' -> Entry]
      BY <2>5, <3>1, InsertType DEF Store
    <3>. QED  BY <2>5, <3>2 DEF Store
  <2>6. ASSUME NEW w \in Mutators, NEW k \in Keys, Write(w, k) PROVE TypeOK'
    BY <2>6 DEF Write, cacheVars, history
  <2>7. ASSUME NEW w \in Mutators, Clear(w) PROVE TypeOK'
    BY <2>7 DEF Clear, NoEntries
  <2>8. ASSUME NEW w \in Mutators, Abandon(w) PROVE TypeOK'
    BY <2>8 DEF Abandon, cacheVars, history
  <2>9. CASE Restart
    BY <2>9 DEF Restart, NoEntries
  <2>10. CASE Tick
    BY <2>10 DEF Tick, history
  <2>11. CASE UNCHANGED vars
    BY <2>11 DEF vars
  <2>. QED
    BY <2>1, <2>2, <2>3, <2>4, <2>5, <2>6, <2>7, <2>8, <2>9, <2>10, <2>11
    DEF Next, Get, Mutate
<1>. QED  BY <1>1, <1>2, PTL DEF Spec

-----------------------------------------------------------------------------
(* The map never outgrows ttlCache.max, whatever stores and clears         *)
(* interleave (verify.go:49-54).                                           *)
THEOREM CapacityHolds == Spec => []WithinCapacity
<1>1. Init => WithinCapacity
  BY CacheAssumption, FS_EmptySet DEF Init, WithinCapacity, NoEntries
<1>2. TypeOK /\ WithinCapacity /\ [Next]_vars => WithinCapacity'
  <2>. SUFFICES ASSUME TypeOK, WithinCapacity, [Next]_vars PROVE WithinCapacity'
    OBVIOUS
  <2>0. IsFiniteSet(DOMAIN m)
    BY CacheAssumption, FS_Subset DEF TypeOK
  <2>1. ASSUME NEW c \in Clients, Store(c) PROVE WithinCapacity'
    BY <2>0, <2>1, InsertCapacity DEF Store, WithinCapacity
  <2>2. CASE m' = NoEntries
    BY <2>2, CacheAssumption, FS_EmptySet DEF WithinCapacity, NoEntries
  <2>3. CASE DOMAIN m' = DOMAIN m
    BY <2>3 DEF WithinCapacity
  <2>. QED
    BY <2>1, <2>2, <2>3
    DEF Next, Get, Mutate, Hit, Miss, Load, LoadFails, Write, Clear, Abandon, Restart,
        Tick, vars, cacheVars
<1>. QED  BY <1>1, <1>2, TypeCorrect, PTL DEF Spec

-----------------------------------------------------------------------------
(* Invalidation works for every value read since: no clean value, cached   *)
(* or answered, predates a Clear (verify.go:35-62, 96-100).                *)
THEOREM CleanCurrent == Spec => []CleanValuesCurrent
<1>1. Init => FreshInv
  <2>1. Init => TypeOK
    BY CacheAssumption DEF Init, TypeOK, NoEntries, Version, Entry, Answer
  <2>. QED
    BY <2>1, CacheAssumption
    DEF Init, FreshInv, SettledCommitted, InFlight, CleanValuesCurrent, NoEntries
<1>2. FreshInv /\ TypeOK' /\ [Next]_vars => FreshInv'
  <2>. SUFFICES ASSUME FreshInv, TypeOK', [Next]_vars PROVE FreshInv'
    OBVIOUS
  <2>. USE CacheAssumption DEF FreshInv, Version
  <2>1. ASSUME NEW c \in Clients, NEW k \in Keys, Hit(c, k) PROVE FreshInv'
    <3>1. SettledCommitted' /\ InFlight'
      BY <2>1 DEF Hit, SettledCommitted, InFlight, TypeOK
    <3>2. CleanValuesCurrent'
      BY <2>1 DEF Hit, CleanValuesCurrent, TypeOK, Entry, Answer
    <3>. QED  BY <3>1, <3>2
  <2>2. ASSUME NEW c \in Clients, NEW k \in Keys, Miss(c, k) PROVE FreshInv'
    <3>1. SettledCommitted' /\ CleanValuesCurrent'
      BY <2>2 DEF Miss, SettledCommitted, CleanValuesCurrent
    <3>2. InFlight'
      BY <2>2 DEF Miss, InFlight, TypeOK, Entry, CleanValuesCurrent
    <3>. QED  BY <3>1, <3>2
  <2>3. ASSUME NEW c \in Clients, Load(c) PROVE FreshInv'
    <3>1. SettledCommitted' /\ CleanValuesCurrent'
      BY <2>3 DEF Load, SettledCommitted, CleanValuesCurrent
    <3>2. InFlight'
      BY <2>3 DEF Load, InFlight, SettledCommitted, TypeOK
    <3>. QED  BY <3>1, <3>2
  <2>4. ASSUME NEW c \in Clients, LoadFails(c) PROVE FreshInv'
    <3>1. SettledCommitted' /\ InFlight'
      BY <2>4 DEF LoadFails, SettledCommitted, InFlight, TypeOK
    <3>2. \A e \in old[c] : clean[c] => e.v >= floor[c]
      BY <2>4 DEF LoadFails, InFlight, TypeOK, Entry
    <3>3. CleanValuesCurrent'
      BY <2>4, <3>2 DEF LoadFails, CleanValuesCurrent, TypeOK
    <3>. QED  BY <3>1, <3>3
  <2>5. ASSUME NEW c \in Clients, Store(c) PROVE FreshInv'
    <3>1. SettledCommitted' /\ InFlight'
      BY <2>5 DEF Store, SettledCommitted, InFlight, TypeOK
    <3>2. clean[c] => got[c] >= settled[key[c]] /\ got[c] >= floor[c]
      BY <2>5 DEF Store, InFlight, TypeOK
    <3>3. \A k \in DOMAIN m' : m'[k].clean => m'[k].v >= settled[k]
      <4>. DEFINE e == [v |-> got[c], age |-> 0, clean |-> clean[c]]
      <4>1. /\ DOMAIN m' \subseteq DOMAIN m \cup {key[c]}
            /\ \A k \in DOMAIN m' : m'[k] = IF k = key[c] THEN e ELSE m[k]
        BY <2>5, InsertShape DEF Store
      <4>. QED  BY <3>2, <4>1 DEF CleanValuesCurrent
    <3>4. \A d \in Clients : \A a \in ans'[d] : a.clean => a.v >= a.floor
      BY <2>5, <3>2 DEF Store, CleanValuesCurrent, TypeOK
    <3>5. settled' = settled
      BY <2>5 DEF Store
    <3>. QED  BY <3>1, <3>3, <3>4, <3>5 DEF CleanValuesCurrent
  <2>6. ASSUME NEW w \in Mutators, NEW k \in Keys, Write(w, k) PROVE FreshInv'
    <3>1. SettledCommitted'
      BY <2>6 DEF Write, SettledCommitted, TypeOK, history
    <3>2. InFlight' /\ CleanValuesCurrent'
      BY <2>6 DEF Write, InFlight, CleanValuesCurrent, cacheVars, history
    <3>. QED  BY <3>1, <3>2
  <2>7. ASSUME NEW w \in Mutators, Clear(w) PROVE FreshInv'
    <3>1. SettledCommitted' /\ CleanValuesCurrent'
      BY <2>7 DEF Clear, SettledCommitted, CleanValuesCurrent, TypeOK, NoEntries
    <3>2. \A c \in Clients : pc[c] # "idle" => floor[c] <= db[key[c]]
      BY DEF InFlight, SettledCommitted, TypeOK
    <3>3. InFlight'
      BY <2>7, <3>2 DEF Clear, InFlight
    <3>. QED  BY <3>1, <3>3
  <2>8. ASSUME NEW w \in Mutators, Abandon(w) PROVE FreshInv'
    BY <2>8
    DEF Abandon, SettledCommitted, InFlight, CleanValuesCurrent, cacheVars, history
  <2>9. CASE Restart
    BY <2>9 DEF Restart, SettledCommitted, InFlight, CleanValuesCurrent, NoEntries, TypeOK
  <2>10. CASE Tick
    <3>1. SettledCommitted' /\ InFlight'
      BY <2>10 DEF Tick, SettledCommitted, InFlight, history
    <3>2. \A k \in DOMAIN m' : k \in DOMAIN m /\ m'[k].v = m[k].v /\ m'[k].clean = m[k].clean
      BY <2>10 DEF Tick, TypeOK, Entry
    <3>3. CleanValuesCurrent'
      BY <2>10, <3>2 DEF Tick, CleanValuesCurrent, history
    <3>. QED  BY <3>1, <3>3
  <2>11. CASE UNCHANGED vars
    BY <2>11 DEF vars, SettledCommitted, InFlight, CleanValuesCurrent
  <2>. QED
    BY <2>1, <2>2, <2>3, <2>4, <2>5, <2>6, <2>7, <2>8, <2>9, <2>10, <2>11
    DEF Next, Get, Mutate
<1>3. FreshInv => CleanValuesCurrent
  BY DEF FreshInv
<1>. QED  BY <1>1, <1>2, <1>3, TypeCorrect, PTL DEF Spec

-----------------------------------------------------------------------------
(* Nothing in the cache, or on its way there, is newer than its row.       *)
NotAhead ==
  /\ \A k \in DOMAIN m : m[k].v <= db[k]
  /\ \A c \in Clients : pc[c] = "storing" => got[c] <= db[key[c]]

(* Once every change of a row is invalidated, its entry is that row unless *)
(* a Clear overtook the load that brought it (verify.go:35-62, 96-100).    *)
OnlyOvertakenDiffer ==
  \A k \in DOMAIN m : m[k].clean /\ settled[k] = db[k] => m[k].v = db[k]

LEMMA NotAheadStep == TypeOK /\ NotAhead /\ [Next]_vars => NotAhead'
<1>. SUFFICES ASSUME TypeOK, NotAhead, [Next]_vars PROVE NotAhead'
  OBVIOUS
<1>. USE CacheAssumption DEF NotAhead, Version
<1>1. ASSUME NEW c \in Clients, NEW k \in Keys, Hit(c, k) \/ Miss(c, k) PROVE NotAhead'
  BY <1>1 DEF Hit, Miss, TypeOK
<1>2. ASSUME NEW c \in Clients, Load(c) \/ LoadFails(c) PROVE NotAhead'
  BY <1>2 DEF Load, LoadFails, TypeOK
<1>3. ASSUME NEW c \in Clients, Store(c) PROVE NotAhead'
  <2>. DEFINE e == [v |-> got[c], age |-> 0, clean |-> clean[c]]
  <2>1. /\ DOMAIN m' \subseteq DOMAIN m \cup {key[c]}
        /\ \A k \in DOMAIN m' : m'[k] = IF k = key[c] THEN e ELSE m[k]
    BY <1>3, InsertShape DEF Store
  <2>2. \A k \in DOMAIN m' : m'[k].v <= db[k]
    BY <1>3, <2>1 DEF Store
  <2>. QED BY <1>3, <2>2 DEF Store, TypeOK
<1>4. ASSUME NEW w \in Mutators, NEW k \in Keys, Write(w, k) PROVE NotAhead'
  <2>1. \A x \in Keys : db[x] \in Nat /\ db[x] <= db'[x]
    BY <1>4 DEF Write, TypeOK
  <2>2. \A x \in DOMAIN m : x \in Keys /\ m[x].v \in Nat
    BY DEF TypeOK, Entry
  <2>3. UNCHANGED <<m, pc, got, key>>
    BY <1>4 DEF Write, cacheVars
  <2>4. \A x \in Keys : db'[x] \in Nat
    BY <1>4 DEF Write, TypeOK
  <2>. QED BY <2>1, <2>2, <2>3, <2>4 DEF TypeOK
<1>5. CASE \/ \E w \in Mutators : Clear(w) \/ Abandon(w)
           \/ Restart \/ UNCHANGED vars
  BY <1>5 DEF Clear, Abandon, Restart, NoEntries, vars, cacheVars
<1>6. CASE Tick
  <2>1. \A k \in DOMAIN m' : k \in DOMAIN m /\ m'[k].v = m[k].v
    BY <1>6 DEF Tick, TypeOK, Entry
  <2>. QED BY <1>6, <2>1 DEF Tick
<1>. QED BY <1>1, <1>2, <1>3, <1>4, <1>5, <1>6 DEF Next, Get, Mutate

(* A row whose changes are all invalidated differs from its entry only by  *)
(* a load that was in flight over a Clear (verify.go:35-62, 96-100).       *)
THEOREM OvertakenAlone == Spec => []OnlyOvertakenDiffer
<1>1. Init => NotAhead
  BY CacheAssumption DEF Init, NotAhead, NoEntries
<1>2. TypeOK /\ NotAhead /\ CleanValuesCurrent => OnlyOvertakenDiffer
  <2>. SUFFICES ASSUME TypeOK, NotAhead, CleanValuesCurrent,
                       NEW k \in DOMAIN m, m[k].clean, settled[k] = db[k]
                PROVE  m[k].v = db[k]
    BY DEF OnlyOvertakenDiffer
  <2>1. m[k].v \in Nat /\ db[k] \in Nat
    BY CacheAssumption DEF TypeOK, Entry, Version
  <2>2. m[k].v <= db[k] /\ m[k].v >= db[k]
    BY DEF NotAhead, CleanValuesCurrent
  <2>. QED BY <2>1, <2>2
<1>. QED BY <1>1, <1>2, NotAheadStep, TypeCorrect, CleanCurrent, PTL DEF Spec

-----------------------------------------------------------------------------
(* The Gets that are about to store an answer which is out of date.        *)
Lagging == {c \in Clients : pc[c] = "storing" /\ got[c] # db[key[c]]}

(* While rows do not change, no further Get falls behind, and an entry     *)
(* that is not its row is either no younger than before, or the last act   *)
(* of a Get that was behind; it is never renewed (verify.go:35-56).        *)
StaleEntriesRunOut ==
  [][ db' = db =>
        /\ Lagging' \subseteq Lagging
        /\ \A k \in DOMAIN m' : m'[k].v # db[k] =>
             \/ k \in DOMAIN m /\ m[k].v = m'[k].v /\ m[k].age <= m'[k].age
             \/ \E c \in Lagging \ Lagging' : key[c] = k /\ got[c] = m'[k].v
    ]_vars

LEMMA RunOutStep ==
  ASSUME TypeOK, [Next]_vars, db' = db
  PROVE  /\ Lagging' \subseteq Lagging
         /\ \A k \in DOMAIN m' : m'[k].v # db[k] =>
              \/ k \in DOMAIN m /\ m[k].v = m'[k].v /\ m[k].age <= m'[k].age
              \/ \E c \in Lagging \ Lagging' : key[c] = k /\ got[c] = m'[k].v
<1>. DEFINE Kept == \A k \in DOMAIN m' :
              k \in DOMAIN m /\ m[k].v = m'[k].v /\ m[k].age <= m'[k].age
<1>0. \A k \in DOMAIN m : m[k].age \in Nat
  BY CacheAssumption DEF TypeOK, Entry
<1>1. ASSUME m' = m \/ m' = NoEntries PROVE Kept
  BY <1>0, <1>1 DEF NoEntries
<1>2. ASSUME NEW c \in Clients, NEW k \in Keys, Hit(c, k) \/ Miss(c, k)
      PROVE  Lagging' \subseteq Lagging /\ Kept
  BY <1>1, <1>2 DEF Hit, Miss, Lagging, TypeOK
<1>3. ASSUME NEW c \in Clients, Load(c) \/ LoadFails(c) PROVE Lagging' \subseteq Lagging /\ Kept
  BY <1>1, <1>3 DEF Load, LoadFails, Lagging, TypeOK
<1>4. ASSUME NEW c \in Clients, Store(c)
      PROVE  /\ Lagging' \subseteq Lagging
             /\ \A k \in DOMAIN m' : m'[k].v # db[k] =>
                  \/ k \in DOMAIN m /\ m[k].v = m'[k].v /\ m[k].age <= m'[k].age
                  \/ \E d \in Lagging \ Lagging' : key[d] = k /\ got[d] = m'[k].v
  <2>. DEFINE e == [v |-> got[c], age |-> 0, clean |-> clean[c]]
  <2>1. /\ DOMAIN m' \subseteq DOMAIN m \cup {key[c]}
        /\ \A k \in DOMAIN m' : m'[k] = IF k = key[c] THEN e ELSE m[k]
    BY <1>4, InsertShape DEF Store
  <2>2. pc[c] = "storing" /\ pc' = [pc EXCEPT ![c] = "idle"] /\ UNCHANGED <<got, key>>
    BY <1>4 DEF Store
  <2>3. Lagging' = Lagging \ {c}
    BY <2>2 DEF Lagging, TypeOK
  <2>4. ASSUME NEW k \in DOMAIN m', m'[k].v # db[k], k = key[c]
        PROVE  c \in Lagging \ Lagging' /\ key[c] = k /\ got[c] = m'[k].v
    <3>1. m'[k].v = got[c]
      BY <2>1, <2>4
    <3>. QED BY <2>2, <2>3, <2>4, <3>1 DEF Lagging
  <2>5. ASSUME NEW k \in DOMAIN m', k # key[c]
        PROVE  k \in DOMAIN m /\ m[k].v = m'[k].v /\ m[k].age <= m'[k].age
    BY <1>0, <2>1, <2>5
  <2>. QED BY <2>3, <2>4, <2>5
<1>5. ASSUME NEW w \in Mutators, NEW k \in Keys, Write(w, k) PROVE FALSE
  BY <1>5 DEF Write, TypeOK, Version
<1>6. CASE (\E w \in Mutators : Clear(w) \/ Abandon(w)) \/ Restart \/ UNCHANGED vars
  <2>1. m' = m \/ m' = NoEntries
    BY <1>6 DEF Clear, Abandon, Restart, vars, cacheVars
  <2>2. Lagging' \subseteq Lagging
    BY <1>6 DEF Clear, Abandon, Restart, vars, cacheVars, Lagging
  <2>. QED BY <1>1, <2>1, <2>2
<1>7. CASE Tick
  <2>1. \A k \in DOMAIN m' : k \in DOMAIN m /\ m'[k].v = m[k].v
    BY <1>7 DEF Tick, TypeOK, Entry
  <2>2. \A k \in DOMAIN m' : m[k].age <= m'[k].age
    BY <1>0, <1>7 DEF Tick, TypeOK, Entry
  <2>3. Lagging' = Lagging
    BY <1>7 DEF Tick, Lagging
  <2>. QED BY <2>1, <2>2, <2>3
<1>. QED BY <1>2, <1>3, <1>4, <1>5, <1>6, <1>7 DEF Next, Get, Mutate

(* What a load in flight over a Clear brought back wears out: hits do not  *)
(* renew it and only the loads that were behind already can replace it     *)
(* by the like (verify.go:35-56).  With the clock and the fairness left to *)
(* TLC that is FreshEntriesConverge.                                       *)
THEOREM StaleEntriesAge == Spec => StaleEntriesRunOut
BY RunOutStep, TypeCorrect, PTL DEF Spec, StaleEntriesRunOut
=============================================================================
