------------------------------ MODULE TTLCache ------------------------------
(***************************************************************************)
(* The read-through cache ttlCache[T] of internal/handler/verify.go, which *)
(* holds the users, tokens and route policies that /session/verify reads,  *)
(* together with the database rows behind it and the handlers that change  *)
(* a row and then call invalidateAuth.                                     *)
(*                                                                         *)
(* A Get takes the mutex twice: once to look the key up and once to store  *)
(* what the loader returned.  Between the two the loader reads the         *)
(* database with no lock held, so anything may happen there: other Gets,   *)
(* writes of the row, and Clear.                                           *)
(*                                                                         *)
(* A row is abstracted to its version, the number of times it was changed; *)
(* version 0 also stands for a row that does not exist, which the cache    *)
(* stores like any other value.  Time is the age of an entry, which stops  *)
(* growing at TTL because nothing tells older entries apart.               *)
(***************************************************************************)
EXTENDS Naturals, FiniteSets

CONSTANTS
  Keys,         \* the keys the cache is asked for
  Clients,      \* the requests that call Get concurrently
  Mutators,     \* the handlers that change a row and then invalidate
  TTL,          \* ttlCache.ttl, in ticks
  MaxEntries,   \* ttlCache.max
  MaxVersion    \* bound: how often each row may change

ASSUME CacheAssumption ==
  /\ IsFiniteSet(Keys)
  /\ TTL \in Nat \ {0}
  /\ MaxEntries \in Nat \ {0}
  /\ MaxVersion \in Nat

VARIABLES
  db,       \* db[k]: the committed version of k's row
  m,        \* ttlCache.m: a function from the cached keys to entries
  pc,       \* where each Get is: "idle", "loading" or "storing"
  key,      \* the key a Get is for
  old,      \* the entry its lookup found, as a set of at most one entry
  got,      \* the version its loader returned
  ans,      \* what the last Get returned, as a set of at most one answer
  mpc,      \* where each mutator is: "idle" or "written"
  settled,  \* history: the version of each row that the last Clear followed
  floor,    \* history: settled[key] when the Get was called
  clean     \* history: no Clear since the value the Get holds was read

cacheVars == <<m, pc, key, old, got, ans>>
history == <<settled, floor, clean>>
vars == <<db, m, pc, key, old, got, ans, mpc, settled, floor, clean>>

Version == 0..MaxVersion
Entry == [v : Version, age : 0..TTL, clean : BOOLEAN]
Answer == [v : Version, floor : Version, clean : BOOLEAN]

TypeOK ==
  /\ db \in [Keys -> Version]
  /\ DOMAIN m \subseteq Keys
  /\ m \in [DOMAIN m -> Entry]
  /\ pc \in [Clients -> {"idle", "loading", "storing"}]
  /\ key \in [Clients -> Keys]
  /\ old \in [Clients -> SUBSET Entry]
  /\ got \in [Clients -> Version]
  /\ ans \in [Clients -> SUBSET Answer]
  /\ mpc \in [Mutators -> {"idle", "written"}]
  /\ settled \in [Keys -> Version]
  /\ floor \in [Clients -> Version]
  /\ clean \in [Clients -> BOOLEAN]

NoEntries == [k \in {} |-> 0]

Fresh(e) == e.age < TTL

(* Mutant: the map is emptied one entry too late.                          *)
InsertOffByOne(map, k, e) ==
  LET kept == IF Cardinality(DOMAIN map) > MaxEntries THEN {} ELSE DOMAIN map
  IN  [x \in kept \cup {k} |-> IF x = k THEN e ELSE map[x]]

(* The map after the second critical section of Get: emptied first if it   *)
(* is full, even when k is one of its keys.                                *)
Insert(map, k, e) ==
  LET kept == IF Cardinality(DOMAIN map) >= MaxEntries THEN {} ELSE DOMAIN map
  IN  [x \in kept \cup {k} |-> IF x = k THEN e ELSE map[x]]

Init ==
  /\ db = [k \in Keys |-> 0]
  /\ m = NoEntries
  /\ pc = [c \in Clients |-> "idle"]
  /\ key \in [Clients -> Keys]
  /\ old = [c \in Clients |-> {}]
  /\ got = [c \in Clients |-> 0]
  /\ ans = [c \in Clients |-> {}]
  /\ mpc = [w \in Mutators |-> "idle"]
  /\ settled = [k \in Keys |-> 0]
  /\ floor = [c \in Clients |-> 0]
  /\ clean = [c \in Clients |-> FALSE]

-----------------------------------------------------------------------------
(* Mutant: a hit renews the entry's time.                                  *)
HitRenews(c, k) ==
  /\ pc[c] = "idle"
  /\ k \in DOMAIN m
  /\ Fresh(m[k])
  /\ m' = [m EXCEPT ![k].age = 0]
  /\ key' = [key EXCEPT ![c] = k]
  /\ floor' = [floor EXCEPT ![c] = settled[k]]
  /\ ans' = [ans EXCEPT ![c] = {[v |-> m[k].v, floor |-> settled[k], clean |-> m[k].clean]}]
  /\ UNCHANGED <<db, pc, old, got, mpc, settled, clean>>

(* Get, first critical section: a fresh entry is returned at once.         *)
Hit(c, k) ==
  /\ pc[c] = "idle"
  /\ k \in DOMAIN m
  /\ Fresh(m[k])
  /\ key' = [key EXCEPT ![c] = k]
  /\ floor' = [floor EXCEPT ![c] = settled[k]]
  /\ ans' = [ans EXCEPT ![c] = {[v |-> m[k].v, floor |-> settled[k], clean |-> m[k].clean]}]
  /\ UNCHANGED <<db, m, pc, old, got, mpc, settled, clean>>

(* ... otherwise the entry, if any, is remembered and the loader called.   *)
Miss(c, k) ==
  /\ pc[c] = "idle"
  /\ k \in DOMAIN m => ~Fresh(m[k])
  /\ pc' = [pc EXCEPT ![c] = "loading"]
  /\ key' = [key EXCEPT ![c] = k]
  /\ old' = [old EXCEPT ![c] = IF k \in DOMAIN m THEN {m[k]} ELSE {}]
  /\ floor' = [floor EXCEPT ![c] = settled[k]]
  /\ clean' = [clean EXCEPT ![c] = k \in DOMAIN m /\ m[k].clean]
  /\ UNCHANGED <<db, m, got, ans, mpc, settled>>

(* The loader's query reads the committed row; its answer has yet to be    *)
(* stored.                                                                 *)
Load(c) ==
  /\ pc[c] = "loading"
  /\ pc' = [pc EXCEPT ![c] = "storing"]
  /\ got' = [got EXCEPT ![c] = db[key[c]]]
  /\ clean' = [clean EXCEPT ![c] = TRUE]
  /\ UNCHANGED <<db, m, key, old, ans, mpc, settled, floor>>

(* The loader fails: the remembered entry is served whatever its age, and  *)
(* the error is returned when there is none.                               *)
LoadFails(c) ==
  /\ pc[c] = "loading"
  /\ pc' = [pc EXCEPT ![c] = "idle"]
  /\ ans' = [ans EXCEPT ![c] =
               {[v |-> e.v, floor |-> floor[c], clean |-> clean[c]] : e \in old[c]}]
  /\ old' = [old EXCEPT ![c] = {}]
  /\ UNCHANGED <<db, m, key, got, mpc, settled, floor, clean>>

(* Mutant: the entry is dated in the past by more than its lifetime.       *)
StoreBackdated(c) ==
  /\ pc[c] = "storing"
  /\ pc' = [pc EXCEPT ![c] = "idle"]
  /\ m' = Insert(m, key[c], [v |-> got[c], age |-> TTL + 1, clean |-> clean[c]])
  /\ ans' = [ans EXCEPT ![c] = {[v |-> got[c], floor |-> floor[c], clean |-> clean[c]]}]
  /\ old' = [old EXCEPT ![c] = {}]
  /\ UNCHANGED <<db, key, got, mpc, settled, floor, clean>>

(* Get, second critical section: the entry's age starts here, not when the *)
(* row was read.                                                           *)
Store(c) ==
  /\ pc[c] = "storing"
  /\ pc' = [pc EXCEPT ![c] = "idle"]
  /\ m' = Insert(m, key[c], [v |-> got[c], age |-> 0, clean |-> clean[c]])
  /\ ans' = [ans EXCEPT ![c] = {[v |-> got[c], floor |-> floor[c], clean |-> clean[c]]}]
  /\ old' = [old EXCEPT ![c] = {}]
  /\ UNCHANGED <<db, key, got, mpc, settled, floor, clean>>

(* A mutator commits a change of one row ...                               *)
Write(w, k) ==
  /\ mpc[w] = "idle"
  /\ db[k] < MaxVersion
  /\ db' = [db EXCEPT ![k] = @ + 1]
  /\ mpc' = [mpc EXCEPT ![w] = "written"]
  /\ UNCHANGED <<cacheVars, history>>

(* Mutant: the mutator returns without emptying the map.                   *)
ClearKeepsMap(w) ==
  /\ mpc[w] = "written"
  /\ mpc' = [mpc EXCEPT ![w] = "idle"]
  /\ settled' = db
  /\ clean' = [c \in Clients |-> FALSE]
  /\ UNCHANGED <<db, m, pc, key, old, got, ans, floor>>

(* ... and then empties the cache.  What Clear drops is gone, but a value  *)
(* that a Get has read and not yet stored is no longer clean.              *)
Clear(w) ==
  /\ mpc[w] = "written"
  /\ mpc' = [mpc EXCEPT ![w] = "idle"]
  /\ m' = NoEntries
  /\ settled' = db
  /\ clean' = [c \in Clients |-> FALSE]
  /\ UNCHANGED <<db, pc, key, old, got, ans, floor>>

(* A mutator whose next step fails returns without invalidating            *)
(* (AccountPassword after SetPassword, when BumpSessions fails).           *)
Abandon(w) ==
  /\ mpc[w] = "written"
  /\ mpc' = [mpc EXCEPT ![w] = "idle"]
  /\ UNCHANGED <<db, cacheVars, history>>

(* The process restarts: the map and every call in flight are lost.        *)
Restart ==
  /\ m' = NoEntries
  /\ pc' = [c \in Clients |-> "idle"]
  /\ old' = [c \in Clients |-> {}]
  /\ ans' = [c \in Clients |-> {}]
  /\ mpc' = [w \in Mutators |-> "idle"]
  /\ settled' = db
  /\ clean' = [c \in Clients |-> FALSE]
  /\ UNCHANGED <<db, key, got, floor>>

(* Time passes.                                                            *)
Tick ==
  /\ \E k \in DOMAIN m : Fresh(m[k])
  /\ m' = [k \in DOMAIN m |-> [m[k] EXCEPT !.age = IF @ < TTL THEN @ + 1 ELSE @]]
  /\ UNCHANGED <<db, pc, key, old, got, ans, mpc, history>>

Get(c) ==
  \/ \E k \in Keys : Hit(c, k) \/ Miss(c, k)
  \/ Load(c) \/ LoadFails(c) \/ Store(c)

Mutate(w) == (\E k \in Keys : Write(w, k)) \/ Clear(w) \/ Abandon(w)

Next ==
  \/ \E c \in Clients : Get(c)
  \/ \E w \in Mutators : Mutate(w)
  \/ Restart
  \/ Tick

Spec == Init /\ [][Next]_vars

(* The clock runs, and a Get that holds a loaded value goes on to store it *)
(* (it waits for nothing but the mutex).                                   *)
Fairness == WF_vars(Tick) /\ \A c \in Clients : WF_vars(Store(c))
FairSpec == Spec /\ Fairness

-----------------------------------------------------------------------------
(* The map never holds more than its configured number of entries, in      *)
(* whatever order concurrent stores and clears run (verify.go:49-54).      *)
WithinCapacity == Cardinality(DOMAIN m) <= MaxEntries

(* What invalidation guarantees: a value whose database read no Clear has  *)
(* followed, cached or answered, shows every change that was invalidated   *)
(* before the Get was called (verify.go:49-62, 96-100).  Only a load in    *)
(* flight across a Clear can bring an older value back.                    *)
CleanValuesCurrent ==
  /\ \A k \in DOMAIN m : m[k].clean => m[k].v >= settled[k]
  /\ \A c \in Clients : \A a \in ans[c] : a.clean => a.v >= a.floor

(* What verify.go:94-95 and the README say of invalidateAuth: it takes     *)
(* effect immediately, so a Get called after it never answers an older row. *)
TakesEffectImmediately == \A c \in Clients : \A a \in ans[c] : a.v >= a.floor

(* An entry brought back by a load that straddled a Clear does not last:   *)
(* once rows stop changing, every entry young enough to be served is       *)
(* eventually, and from then on, the committed row.  Hits do not prolong   *)
(* an entry's life (verify.go:39, 53).                                     *)
FreshEntriesConverge ==
  <>[](\A k \in DOMAIN m : Fresh(m[k]) => m[k].v = db[k])
=============================================================================
