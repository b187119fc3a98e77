---------------------------- MODULE VerifyProofs ----------------------------
(***************************************************************************)
(* Proofs about /session/verify (Verify), for any number of requests and   *)
(* of handlers that change rows, with outages at any moment.               *)
(***************************************************************************)
EXTENDS Verify, FiniteSetTheorems, TLAPS

(* A cache of one entry, and a request without leftovers between calls.    *)
Single == \A c \in Caches : cache[c] = {} \/ \E e \in Entry : cache[c] = {e}

Rested == \A r \in Requests : at[r] \notin Caches => phase[r] = "lookup" /\ old[r] = {}

Typed == TypeOK /\ Single /\ Rested

(* Values no Clear has overtaken are those of the rows, while no change of *)
(* the row waits for its Clear.                                            *)
CleanIsCurrent ==
  /\ \A c \in Caches : ~dirty[c] => \A e \in cache[c] : e.clean => e.v = db[c]
  /\ \A r \in Requests : at[r] \in Caches /\ ~dirty[at[r]] /\ clean[r] =>
       /\ phase[r] = "load" => \A e \in old[r] : e.v = db[at[r]]
       /\ phase[r] = "store" => got[r] = db[at[r]]

(* No handler forgets a cache: what a change made stale it still clears.   *)
DirtyIsOwed == \A c \in Caches : dirty[c] => Owed(c)

(* How far a request has come, if the rows are those it was answered from  *)
(* wherever it could learn anything.                                       *)
OnItsWay(r) ==
  \/ cred[r] = "pat" /\ at[r] = "tok" /\ blind[r] = {}
  \/ cred[r] = "pat" /\ at[r] = "user" /\ blind[r] = {} /\ "live" \in db["tok"] /\ ~expired
  \/ cred[r] \in {"cookie", "desktop"} /\ at[r] = "user" /\ blind[r] = {}
  \/ cred[r] = "cookie" /\ at[r] = "policy" /\ blind[r] = {}
       /\ ("approved" \notin db["user"] \/ "ended" \in db["user"])
  \/ cred[r] = "none" /\ at[r] = "policy" /\ blind[r] = {}
  \/ cred[r] = "desktop" /\ at[r] = "row" /\ blind[r] = {}
       /\ "approved" \in db["user"] /\ "ended" \notin db["user"]
  \/ cred[r] = "desktop" /\ at[r] = "row" /\ blind[r] = {"user"}

SteadyOnItsWay == \A r \in Requests : at[r] # "idle" /\ steady[r] => OnItsWay(r)

(* A request that has met nothing but the outage waits for its first Get.  *)
AtItsFirst(r) ==
  /\ \/ cred[r] = "pat" /\ at[r] = "tok"
     \/ cred[r] = "cookie" /\ at[r] = "user"
     \/ cred[r] = "none" /\ at[r] = "policy"
  /\ phase[r] \in {"lookup", "load"}
  /\ old[r] = {}

OfflineAtItsFirst == \A r \in Requests : at[r] # "idle" /\ offline[r] => AtItsFirst(r)

Inv == Typed /\ CleanIsCurrent /\ DirtyIsOwed /\ SteadyOnItsWay /\ OfflineAtItsFirst

-----------------------------------------------------------------------------
LEMMA SmallSets ==
  ASSUME NEW S, S = {} \/ \E e \in Entry : S = {e}
  PROVE  S \in SUBSET Entry /\ Cardinality(S) <= 1
<1>1. CASE S = {}
  BY <1>1, FS_EmptySet
<1>2. CASE \E e \in Entry : S = {e}
  <2>1. PICK e \in Entry : S = {e}
    BY <1>2
  <2>2. Cardinality({e}) = 1
    BY FS_Singleton
  <2>. QED BY <2>1, <2>2
<1>. QED BY <1>1, <1>2

(* The variables of the requests, with what Proceed leaves of them.        *)
ReqTypes ==
  /\ at \in [Requests -> Stops \cup {"idle"}]
  /\ phase \in [Requests -> {"lookup", "load", "store"}]
  /\ cred \in [Requests -> Credentials]
  /\ old \in [Requests -> SUBSET Entry]
  /\ got \in [Requests -> Rows]
  /\ answer \in [Requests -> Answers]
  /\ blind \in [Requests -> SUBSET Stops]
  /\ clean \in [Requests -> BOOLEAN]

RowTypes ==
  /\ db \in [Caches -> Rows]
  /\ issued \in BOOLEAN /\ expired \in BOOLEAN /\ up \in BOOLEAN
  /\ mpc \in [Mutators -> {"idle", "bump", "put"} \cup Caches]
  /\ row \in [Mutators -> Rows]
  /\ changes \in [Mutators -> 0..MaxChanges]
  /\ abandoned \in BOOLEAN
  /\ dirty \in [Caches -> BOOLEAN]

CacheTypes == cache \in [Caches -> SUBSET Entry] /\ Single

LEMMA AfterTypes ==
  ASSUME NEW c \in Stops, NEW cr, NEW res
  PROVE  After(c, cr, res) \in Stops \cup Answers
BY DEF After, AfterToken, AfterUser, AfterPolicy, AfterRow, Stops, Caches, Answers

LEMMA ProceedTypes ==
  ASSUME ReqTypes, NEW r \in Requests, at[r] \in Stops, Rested, NEW res, Proceed(r, res)
  PROVE  ReqTypes' /\ Rested'
<1>. DEFINE next == After(at[r], cred[r], res)
<1>1. next \in Stops \cup Answers
  BY AfterTypes
<1>. HIDE DEF next
<1>2. /\ at' = [at EXCEPT ![r] = IF next \in Stops THEN next ELSE "idle"]
      /\ answer' = [answer EXCEPT ![r] = IF next \in Stops THEN @ ELSE next]
      /\ phase' = [phase EXCEPT ![r] = "lookup"]
      /\ old' = [old EXCEPT ![r] = {}]
      /\ got' = [got EXCEPT ![r] = {}]
      /\ clean' = [clean EXCEPT ![r] = FALSE]
      /\ cred' = [cred EXCEPT ![r] = IF next \in Stops THEN @ ELSE "none"]
      /\ blind' = [blind EXCEPT ![r] = IF res = {} THEN @ \cup {at[r]} ELSE @]
  BY DEF Proceed, next
<1>3. ReqTypes'
  BY <1>1, <1>2 DEF ReqTypes, Rows, Credentials
<1>4. Rested'
  BY <1>2 DEF Rested, ReqTypes
<1>. QED BY <1>3, <1>4

LEMMA TypeParts ==
  Typed <=> /\ ReqTypes /\ RowTypes /\ CacheTypes /\ Rested
            /\ steady \in [Requests -> BOOLEAN] /\ offline \in [Requests -> BOOLEAN]
<1>1. Single => \A c \in Caches : cache[c] \in SUBSET Entry /\ Cardinality(cache[c]) <= 1
  BY SmallSets DEF Single
<1>. QED BY <1>1, Zenon DEF Typed, TypeOK, ReqTypes, RowTypes, CacheTypes

-----------------------------------------------------------------------------
(* The caches of a request that goes on with a hit, a load or a failure.   *)
LEMMA RequestTypes ==
  ASSUME Typed, NEW r \in Requests,
         \/ \E cr \in Creds[r] : Begin(r, cr)
         \/ Hit(r) \/ Miss(r) \/ Load(r) \/ LoadFails(r) \/ Store(r) \/ ReadRow(r)
  PROVE  ReqTypes' /\ RowTypes' /\ CacheTypes' /\ Rested'
<1>. USE TypeParts
<1>1. CASE \E cr \in Creds[r] : Begin(r, cr)
  <2>1. PICK cr \in Creds[r] : Begin(r, cr)
    BY <1>1
  <2>2. cr \in Credentials
    BY VerifyAssumption
  <2>3. ReqTypes' /\ Rested'
    BY <2>1, <2>2 DEF Begin, ReqTypes, Rested, Stops, Caches, Answers, Credentials
  <2>4. RowTypes' /\ CacheTypes'
    BY <2>1 DEF Begin, RowTypes, CacheTypes, Single, rowVars, mutVars
  <2>. QED BY <2>3, <2>4
<1>2. CASE Hit(r)
  <2>1. PICK e \in cache[at[r]] : Proceed(r, {e.v})
    BY <1>2 DEF Hit
  <2>2. at[r] \in Caches
    BY <1>2 DEF Hit, ReqTypes
  <2>3. ReqTypes' /\ Rested'
    BY <2>1, <2>2, ProceedTypes DEF Stops
  <2>4. RowTypes' /\ CacheTypes'
    BY <1>2 DEF Hit, RowTypes, CacheTypes, Single, rowVars, mutVars
  <2>. QED BY <2>3, <2>4
<1>3. CASE Miss(r)
  <2>1. at[r] \in Caches /\ cache[at[r]] \in SUBSET Entry
    BY <1>3 DEF Miss, ReqTypes, CacheTypes
  <2>2. (\A e \in cache[at[r]] : e.clean) \in BOOLEAN
    BY Zenon
  <2>3. ReqTypes' /\ Rested'
    BY <1>3, <2>1, <2>2 DEF Miss, ReqTypes, Rested
  <2>4. RowTypes' /\ CacheTypes'
    BY <1>3 DEF Miss, RowTypes, CacheTypes, Single, rowVars, mutVars
  <2>. QED BY <2>3, <2>4
<1>4. CASE Load(r)
  <2>1. at[r] \in Caches /\ db[at[r]] \in Rows
    BY <1>4 DEF Load, ReqTypes, Rested, RowTypes
  <2>2. ReqTypes' /\ Rested'
    BY <1>4, <2>1 DEF Load, ReqTypes, Rested
  <2>3. RowTypes' /\ CacheTypes'
    BY <1>4 DEF Load, RowTypes, CacheTypes, Single, rowVars, mutVars
  <2>. QED BY <2>2, <2>3
<1>5. CASE LoadFails(r)
  <2>1. at[r] \in Caches
    BY <1>5 DEF LoadFails, Rested
  <2>2. ReqTypes' /\ Rested'
    BY <1>5, <2>1, ProceedTypes DEF LoadFails, Stops
  <2>3. RowTypes' /\ CacheTypes'
    BY <1>5 DEF LoadFails, RowTypes, CacheTypes, Single, rowVars, mutVars
  <2>. QED BY <2>2, <2>3
<1>7. CASE ReadRow(r)
  <2>1. at[r] \in Stops /\ Proceed(r, IF up THEN {db["user"]} ELSE {})
    BY <1>7 DEF ReadRow, Stops
  <2>2. ReqTypes' /\ Rested'
    BY <2>1, ProceedTypes
  <2>3. RowTypes' /\ CacheTypes'
    BY <1>7 DEF ReadRow, RowTypes, CacheTypes, Single, rowVars, mutVars
  <2>. QED BY <2>2, <2>3
<1>6. CASE Store(r)
  <2>. DEFINE new == [v |-> got[r], fresh |-> TRUE, clean |-> clean[r]]
  <2>1. at[r] \in Caches
    BY <1>6 DEF Store, ReqTypes, Rested
  <2>2. ReqTypes' /\ Rested'
    BY <1>6, <2>1, ProceedTypes DEF Store, Stops
  <2>3. new \in Entry
    BY DEF ReqTypes, Entry
  <2>4. cache' = [cache EXCEPT ![at[r]] = {new}]
    BY <1>6 DEF Store
  <2>. HIDE DEF new
  <2>5. CacheTypes'
    BY <2>1, <2>3, <2>4 DEF CacheTypes, Single
  <2>6. RowTypes'
    BY <1>6 DEF Store, RowTypes, rowVars, mutVars
  <2>. QED BY <2>2, <2>5, <2>6
<1>. QED BY <1>1, <1>2, <1>3, <1>4, <1>5, <1>6, <1>7

-----------------------------------------------------------------------------
(* What every commit does, whatever it writes: only a password's leaves    *)
(* the invalidation for later.                                             *)
Committed(w, new) ==
  \E from \in {"idle", "put"}, next \in {"bump", "user"} :
    /\ Commit(w, from, new, next)
    /\ next = "bump" => \A c \in Caches \ {"user"} : new[c] = db[c]

(* The handlers' changes of rows.                                          *)
Change(w) ==
  \/ \E approved \in BOOLEAN : SetUserApproved(w, approved)
  \/ DeleteUserData(w) \/ UpdateUser(w) \/ BumpSessions(w) \/ SetPassword(w)
  \/ CreateAPIToken(w) \/ RenameAPIToken(w) \/ RevokeAPIToken(w)
  \/ \E policy \in {{}, {"public"}} : SetRoutePolicy(w, policy)

(* Their other steps, apart from their Clears.                             *)
Move(w) ==
  AdminActionFails(w) \/ ReadUser(w) \/ UpdateUserFails(w) \/ BumpAfterPassword(w)

LEMMA ChangeCommits ==
  ASSUME RowTypes, NEW w \in Mutators, Change(w)
  PROVE  \E new \in [Caches -> Rows] : Committed(w, new)
<1>. USE DEF RowTypes, Caches, Rows
<1>1. ASSUME NEW from \in {"idle", "put"}, NEW new \in [Caches -> Rows], Commit(w, from, new, "user")
      PROVE  \E n \in [Caches -> Rows] : Committed(w, n)
  BY <1>1 DEF Committed
<1>2. ASSUME NEW facts \in Rows, NEW next \in {"bump", "user"}, UpdateUserRow(w, facts, next)
      PROVE  \E n \in [Caches -> Rows] : Committed(w, n)
  <2>. DEFINE user == IF db["user"] = {} THEN {} ELSE facts
              new == [db EXCEPT !["user"] = user]
  <2>1. user \in Rows
    OBVIOUS
  <2>2. Commit(w, "idle", new, next)
    BY <1>2 DEF UpdateUserRow
  <2>. HIDE DEF user
  <2>3. new \in [Caches -> Rows] /\ \A c \in Caches \ {"user"} : new[c] = db[c]
    BY <2>1
  <2>. HIDE DEF new
  <2>. QED BY <2>2, <2>3 DEF Committed
<1>3. CASE \E approved \in BOOLEAN : SetUserApproved(w, approved)
  <2>1. PICK approved \in BOOLEAN : SetUserApproved(w, approved)
    BY <1>3
  <2>. DEFINE facts == IF approved THEN db["user"] \cup {"approved"} ELSE db["user"] \ {"approved"}
  <2>2. facts \in Rows
    OBVIOUS
  <2>3. UpdateUserRow(w, facts, "user")
    BY <2>1 DEF SetUserApproved
  <2>. HIDE DEF facts
  <2>. QED BY <1>2, <2>2, <2>3
<1>4. CASE BumpSessions(w) \/ SetPassword(w)
  <2>1. db["user"] \cup {"ended"} \in Rows
    OBVIOUS
  <2>. QED BY <1>2, <1>4, <2>1 DEF BumpSessions, SetPassword
<1>5. CASE DeleteUserData(w)
  <2>1. [db EXCEPT !["user"] = {}, !["tok"] = {}] \in [Caches -> Rows]
    OBVIOUS
  <2>. QED BY <1>1, <1>5, <2>1 DEF DeleteUserData
<1>6. CASE UpdateUser(w)
  <2>1. [db EXCEPT !["user"] = row[w]] \in [Caches -> Rows]
    OBVIOUS
  <2>. QED BY <1>1, <1>6, <2>1 DEF UpdateUser
<1>7. CASE CreateAPIToken(w)
  <2>1. [db EXCEPT !["tok"] = {"row", "live"}] \in [Caches -> Rows]
    OBVIOUS
  <2>. QED BY <1>1, <1>7, <2>1 DEF CreateAPIToken
<1>8. CASE RenameAPIToken(w)
  BY <1>1, <1>8 DEF RenameAPIToken
<1>9. CASE RevokeAPIToken(w)
  <2>1. [db EXCEPT !["tok"] = @ \ {"live"}] \in [Caches -> Rows]
    OBVIOUS
  <2>. QED BY <1>1, <1>9, <2>1 DEF RevokeAPIToken
<1>10. CASE \E policy \in {{}, {"public"}} : SetRoutePolicy(w, policy)
  <2>1. PICK policy \in {{}, {"public"}} : SetRoutePolicy(w, policy)
    BY <1>10
  <2>2. [db EXCEPT !["policy"] = policy] \in [Caches -> Rows]
    OBVIOUS
  <2>. QED BY <1>1, <2>1, <2>2 DEF SetRoutePolicy
<1>. QED BY <1>3, <1>4, <1>5, <1>6, <1>7, <1>8, <1>9, <1>10 DEF Change

LEMMA MutateSplit ==
  ASSUME NEW w, Mutate(w)
  PROVE  Change(w) \/ Move(w) \/ Clear(w)
BY DEF Mutate, Change, Move

(* What every other step of a handler leaves alone.                        *)
LEMMA MoveKeeps ==
  ASSUME NEW w, Move(w)
  PROVE  UNCHANGED <<rowVars, cache, reqVars, dirty, clean>>
BY DEF Move, AdminActionFails, ReadUser, UpdateUserFails, BumpAfterPassword, Fail

LEMMA MoveTypes ==
  ASSUME RowTypes, NEW w \in Mutators, Move(w)
  PROVE  RowTypes'
<1>. USE DEF RowTypes, Caches
<1>1. ASSUME NEW from, NEW next \in {"idle", "user"}, Fail(w, from, next)
      PROVE  RowTypes'
  <2>1. changes' \in [Mutators -> 0..MaxChanges]
    BY <1>1, VerifyAssumption DEF Fail
  <2>2. row' \in [Mutators -> Rows] /\ mpc' \in [Mutators -> {"idle", "bump", "put"} \cup Caches]
    BY <1>1 DEF Fail, Rows
  <2>. QED BY <1>1, <2>1, <2>2 DEF Fail, rowVars
<1>2. CASE ReadUser(w)
  BY <1>2 DEF ReadUser, rowVars
<1>3. CASE BumpAfterPassword(w)
  <2>1. abandoned' \in BOOLEAN
    BY <1>3, Zenon DEF BumpAfterPassword
  <2>. QED BY <1>3, <2>1 DEF BumpAfterPassword, rowVars
<1>. QED BY <1>1, <1>2, <1>3 DEF Move, AdminActionFails, UpdateUserFails

LEMMA OtherTypes ==
  ASSUME Typed,
         \/ \E w \in Mutators : Mutate(w)
         \/ \E c \in Caches : Age(c)
         \/ Expire \/ SwitchDB
  PROVE  ReqTypes' /\ RowTypes' /\ CacheTypes' /\ Rested'
<1>. USE TypeParts
<1>1. ASSUME NEW w \in Mutators, Change(w)
      PROVE  ReqTypes' /\ RowTypes' /\ CacheTypes' /\ Rested'
  <2>1. PICK new \in [Caches -> Rows] : Committed(w, new)
    BY <1>1, ChangeCommits
  <2>2. PICK from \in {"idle", "put"}, next \in {"bump", "user"} : Commit(w, from, new, next)
    BY <2>1 DEF Committed
  <2>3. /\ changes' \in [Mutators -> 0..MaxChanges] /\ row' \in [Mutators -> Rows]
        /\ mpc' \in [Mutators -> {"idle", "bump", "put"} \cup Caches]
    BY <2>2, VerifyAssumption DEF Commit, RowTypes, Caches, Rows
  <2>4. dirty' \in [Caches -> BOOLEAN] /\ issued' \in BOOLEAN
    BY <2>2, Zenon DEF Commit
  <2>5. db' \in [Caches -> Rows] /\ expired' \in BOOLEAN /\ up' \in BOOLEAN /\ abandoned' \in BOOLEAN
    BY <2>2 DEF Commit, RowTypes
  <2>6. ReqTypes' /\ CacheTypes' /\ Rested'
    BY <2>2 DEF Commit, ReqTypes, CacheTypes, Rested, Single, reqVars
  <2>. QED BY <2>3, <2>4, <2>5, <2>6 DEF RowTypes
<1>2. ASSUME NEW w \in Mutators, Move(w)
      PROVE  ReqTypes' /\ RowTypes' /\ CacheTypes' /\ Rested'
  <2>1. RowTypes'
    BY <1>2, MoveTypes
  <2>. QED BY <1>2, <2>1, MoveKeeps DEF ReqTypes, CacheTypes, Rested, Single, reqVars
<1>3. ASSUME NEW w \in Mutators, Clear(w)
      PROVE  ReqTypes' /\ RowTypes' /\ CacheTypes' /\ Rested'
  <2>1. clean' \in [Requests -> BOOLEAN]
    <3>1. clean' = [r \in Requests |-> clean[r] /\ at[r] # mpc[w]]
      BY <1>3 DEF Clear
    <3>2. \A r \in Requests : (clean[r] /\ at[r] # mpc[w]) \in BOOLEAN
      BY Zenon
    <3>. QED BY <3>1, <3>2, Zenon
  <2>2. ReqTypes' /\ Rested'
    BY <1>3, <2>1 DEF Clear, ReqTypes, Rested, reqVars
  <2>5. abandoned' \in BOOLEAN
    BY <1>3, Zenon DEF Clear
  <2>3. RowTypes'
    BY <1>3, <2>5 DEF Clear, RowTypes, Caches, rowVars
  <2>4. CacheTypes'
    BY <1>3 DEF Clear, CacheTypes, Single
  <2>. QED BY <2>2, <2>3, <2>4
<1>4. ASSUME NEW c \in Caches, Age(c)
      PROVE  ReqTypes' /\ RowTypes' /\ CacheTypes' /\ Rested'
  <2>. DEFINE aged == {[e EXCEPT !.fresh = FALSE] : e \in cache[c]}
  <2>1. cache' = [cache EXCEPT ![c] = aged]
    BY <1>4 DEF Age
  <2>2. PICK e \in Entry : cache[c] = {e}
    BY <1>4 DEF Age, CacheTypes, Single
  <2>3. aged = {[e EXCEPT !.fresh = FALSE]} /\ [e EXCEPT !.fresh = FALSE] \in Entry
    BY <2>2 DEF Entry
  <2>. HIDE DEF aged
  <2>4. CacheTypes'
    BY <2>1, <2>3 DEF CacheTypes, Single
  <2>5. ReqTypes' /\ RowTypes' /\ Rested'
    BY <1>4 DEF Age, ReqTypes, RowTypes, Rested, rowVars, reqVars, mutVars
  <2>. QED BY <2>4, <2>5
<1>5. CASE Expire
  BY <1>5 DEF Expire, ReqTypes, RowTypes, CacheTypes, Rested, Single, reqVars, mutVars
<1>6. CASE SwitchDB
  <2>1. up' \in BOOLEAN
    BY <1>6, Zenon DEF SwitchDB
  <2>. QED BY <1>6, <2>1 DEF SwitchDB, ReqTypes, RowTypes, CacheTypes, Rested, Single, reqVars, mutVars
<1>. QED BY <1>1, <1>2, <1>3, <1>4, <1>5, <1>6, MutateSplit

LEMMA TypeStep ==
  ASSUME Typed, Next
  PROVE  Typed'
<1>1. ReqTypes' /\ RowTypes' /\ CacheTypes' /\ Rested'
  BY RequestTypes, OtherTypes DEF Next, Step
<1>2. steady' \in [Requests -> BOOLEAN] /\ offline' \in [Requests -> BOOLEAN]
  BY Zenon DEF Next, Observe
<1>3. Single' => \A c \in Caches : cache'[c] \in SUBSET Entry /\ Cardinality(cache'[c]) <= 1
  BY SmallSets DEF Single
<1>. QED BY <1>1, <1>2, <1>3, Zenon DEF Typed, TypeOK, ReqTypes, RowTypes, CacheTypes

-----------------------------------------------------------------------------
(* A request that goes on holds no value any more.                         *)
LEMMA ProceedHolds ==
  ASSUME Typed, CleanIsCurrent, NEW r \in Requests, NEW res, Proceed(r, res),
         UNCHANGED <<rowVars, dirty>>,
         NEW s \in Requests, at'[s] \in Caches, ~dirty'[at'[s]], clean'[s]
  PROVE  /\ phase'[s] = "load" => \A e \in old'[s] : e.v = db'[at'[s]]
         /\ phase'[s] = "store" => got'[s] = db'[at'[s]]
<1>. USE TypeParts
<1>1. clean' = [clean EXCEPT ![r] = FALSE]
  BY DEF Proceed
<1>2. s # r
  BY <1>1 DEF ReqTypes
<1>3. /\ at'[s] = at[s] /\ phase'[s] = phase[s] /\ old'[s] = old[s] /\ got'[s] = got[s]
      /\ clean'[s] = clean[s]
  BY <1>2 DEF Proceed, ReqTypes
<1>4. db' = db /\ dirty' = dirty
  BY DEF rowVars
<1>. QED BY <1>3, <1>4 DEF CleanIsCurrent

LEMMA RequestClean ==
  ASSUME Typed, CleanIsCurrent, NEW r \in Requests,
         \/ \E cr \in Creds[r] : Begin(r, cr)
         \/ Hit(r) \/ Miss(r) \/ Load(r) \/ LoadFails(r) \/ Store(r) \/ ReadRow(r)
  PROVE  CleanIsCurrent'
<1>. USE TypeParts
<1>1. CASE \E cr \in Creds[r] : Begin(r, cr)
  <2>1. PICK cr \in Creds[r] : Begin(r, cr)
    BY <1>1
  <2>2. /\ phase' = phase /\ old' = old /\ got' = got /\ clean' = clean /\ dirty' = dirty
        /\ cache' = cache /\ db' = db
    BY <2>1 DEF Begin, rowVars
  <2>3. phase[r] = "lookup" /\ \A s \in Requests \ {r} : at'[s] = at[s]
    BY <2>1 DEF Begin, Rested, ReqTypes, Caches
  <2>. QED BY <2>2, <2>3 DEF CleanIsCurrent
<1>2. CASE Hit(r)
  <2>1. PICK e \in cache[at[r]] : Proceed(r, {e.v})
    BY <1>2 DEF Hit
  <2>2. UNCHANGED <<rowVars, dirty>> /\ cache' = cache /\ db' = db /\ dirty' = dirty
    BY <1>2 DEF Hit, rowVars
  <2>. QED BY <2>1, <2>2, ProceedHolds DEF CleanIsCurrent
<1>3. CASE Miss(r)
  <2>1. /\ phase' = [phase EXCEPT ![r] = "load"]
        /\ old' = [old EXCEPT ![r] = cache[at[r]]]
        /\ clean' = [clean EXCEPT ![r] = \A e \in cache[at[r]] : e.clean]
        /\ at[r] \in Caches
    BY <1>3 DEF Miss, ReqTypes
  <2>2. at' = at /\ got' = got /\ dirty' = dirty /\ cache' = cache /\ db' = db
    BY <1>3 DEF Miss, rowVars
  <2>3. clean'[r] => \A e \in cache[at[r]] : e.clean
    BY <2>1 DEF ReqTypes
  <2>4. phase'[r] = "load" /\ old'[r] = cache[at[r]]
    BY <2>1 DEF ReqTypes
  <2>5. \A s \in Requests \ {r} : phase'[s] = phase[s] /\ old'[s] = old[s] /\ clean'[s] = clean[s]
    BY <2>1 DEF ReqTypes
  <2>. QED BY <2>1, <2>2, <2>3, <2>4, <2>5 DEF CleanIsCurrent
<1>4. CASE Load(r)
  <2>1. /\ phase' = [phase EXCEPT ![r] = "store"]
        /\ got' = [got EXCEPT ![r] = db[at[r]]]
        /\ clean' = [clean EXCEPT ![r] = TRUE]
    BY <1>4 DEF Load
  <2>2. at' = at /\ old' = old /\ dirty' = dirty /\ cache' = cache /\ db' = db
    BY <1>4 DEF Load, rowVars
  <2>3. phase'[r] = "store" /\ got'[r] = db[at[r]]
    BY <2>1 DEF ReqTypes
  <2>4. \A s \in Requests \ {r} : phase'[s] = phase[s] /\ got'[s] = got[s] /\ clean'[s] = clean[s]
    BY <2>1 DEF ReqTypes
  <2>. QED BY <2>2, <2>3, <2>4 DEF CleanIsCurrent
<1>5. CASE LoadFails(r)
  <2>1. UNCHANGED <<rowVars, dirty>> /\ cache' = cache /\ db' = db /\ dirty' = dirty
    BY <1>5 DEF LoadFails, rowVars
  <2>. QED BY <1>5, <2>1, ProceedHolds DEF CleanIsCurrent, LoadFails
<1>7. CASE ReadRow(r)
  <2>1. UNCHANGED <<rowVars, dirty>> /\ cache' = cache /\ db' = db /\ dirty' = dirty
    BY <1>7 DEF ReadRow, rowVars
  <2>. QED BY <1>7, <2>1, ProceedHolds DEF CleanIsCurrent, ReadRow
<1>6. CASE Store(r)
  <2>. DEFINE new == [v |-> got[r], fresh |-> TRUE, clean |-> clean[r]]
  <2>1. cache' = [cache EXCEPT ![at[r]] = {new}] /\ Proceed(r, {got[r]}) /\ phase[r] = "store"
    BY <1>6 DEF Store
  <2>2. UNCHANGED <<rowVars, dirty>> /\ db' = db /\ dirty' = dirty
    BY <1>6 DEF Store, rowVars
  <2>3. new.v = got[r] /\ new.clean = clean[r]
    OBVIOUS
  <2>4. at[r] \in Caches
    BY <2>1 DEF ReqTypes, Rested
  <2>. HIDE DEF new
  <2>5. ASSUME NEW c \in Caches, ~dirty'[c], NEW e \in cache'[c], e.clean
        PROVE  e.v = db'[c]
    <3>1. CASE c = at[r]
      <4>1. e = new
        BY <2>1, <2>4, <2>5, <3>1 DEF CacheTypes
      <4>2. clean[r]
        BY <2>3, <2>5, <4>1
      <4>3. ~dirty[at[r]] /\ at[r] # "idle"
        BY <2>2, <2>4, <2>5, <3>1 DEF Caches
      <4>4. got[r] = db[at[r]]
        BY <2>1, <2>4, <4>2, <4>3 DEF CleanIsCurrent
      <4>. QED BY <2>2, <2>3, <3>1, <4>1, <4>4
    <3>2. CASE c # at[r]
      BY <2>1, <2>2, <2>5, <3>2 DEF CleanIsCurrent, CacheTypes
    <3>. QED BY <3>1, <3>2
  <2>. QED BY <2>1, <2>2, <2>5, ProceedHolds DEF CleanIsCurrent
<1>. QED BY <1>1, <1>2, <1>3, <1>4, <1>5, <1>6, <1>7

LEMMA OtherClean ==
  ASSUME Typed, CleanIsCurrent,
         \/ \E w \in Mutators : Mutate(w)
         \/ \E c \in Caches : Age(c)
         \/ Expire \/ SwitchDB
  PROVE  CleanIsCurrent'
<1>. USE TypeParts
<1>1. ASSUME NEW w \in Mutators, Change(w) PROVE CleanIsCurrent'
  <2>1. PICK new \in [Caches -> Rows] : Committed(w, new)
    BY <1>1, ChangeCommits
  <2>2. db' = new /\ dirty' = [c \in Caches |-> dirty[c] \/ new[c] # db[c]]
    BY <2>1 DEF Committed, Commit
  <2>3. \A c \in Caches : ~dirty'[c] => ~dirty[c] /\ db'[c] = db[c]
    BY <2>2
  <2>4. UNCHANGED <<cache, at, phase, old, got, clean>>
    BY <2>1 DEF Committed, Commit, reqVars
  <2>. QED BY <2>3, <2>4 DEF CleanIsCurrent, ReqTypes
<1>2. ASSUME NEW w \in Mutators, Move(w) PROVE CleanIsCurrent'
  BY <1>2, MoveKeeps DEF CleanIsCurrent, rowVars, reqVars
<1>3. ASSUME NEW w \in Mutators, Clear(w) PROVE CleanIsCurrent'
  <2>1. /\ mpc[w] \in Caches
        /\ cache' = [cache EXCEPT ![mpc[w]] = {}]
        /\ dirty' = [dirty EXCEPT ![mpc[w]] = FALSE]
        /\ clean' = [r \in Requests |-> clean[r] /\ at[r] # mpc[w]]
    BY <1>3 DEF Clear
  <2>2. UNCHANGED <<db, at, phase, old, got>>
    BY <1>3 DEF Clear, rowVars, reqVars
  <2>3. \A r \in Requests : clean'[r] => clean[r] /\ at[r] # mpc[w]
    BY <2>1
  <2>4. \A c \in Caches : c # mpc[w] => cache'[c] = cache[c] /\ dirty'[c] = dirty[c]
    BY <2>1 DEF CacheTypes, RowTypes
  <2>5. cache'[mpc[w]] = {}
    BY <2>1 DEF CacheTypes
  <2>6. \A c \in Caches : ~dirty'[c] => \A e \in cache'[c] : e.clean => e.v = db'[c]
    BY <2>2, <2>4, <2>5 DEF CleanIsCurrent
  <2>. QED BY <2>2, <2>3, <2>4, <2>6 DEF CleanIsCurrent, ReqTypes
<1>4. ASSUME NEW c \in Caches, Age(c) PROVE CleanIsCurrent'
  <2>1. cache' = [cache EXCEPT ![c] = {[e EXCEPT !.fresh = FALSE] : e \in cache[c]}]
    BY <1>4 DEF Age
  <2>2. UNCHANGED <<db, dirty, at, phase, old, got, clean>>
    BY <1>4 DEF Age, rowVars, reqVars
  <2>3. cache[c] \in SUBSET Entry
    BY DEF CacheTypes
  <2>4. \A e \in cache'[c] : \E f \in cache[c] : e.clean = f.clean /\ e.v = f.v
    BY <2>1, <2>3 DEF CacheTypes, Entry
  <2>5. \A d \in Caches \ {c} : cache'[d] = cache[d]
    BY <2>1 DEF CacheTypes
  <2>. QED BY <2>2, <2>4, <2>5 DEF CleanIsCurrent
<1>5. CASE Expire
  BY <1>5 DEF Expire, CleanIsCurrent, reqVars
<1>6. CASE SwitchDB
  BY <1>6 DEF SwitchDB, CleanIsCurrent, reqVars
<1>. QED BY <1>1, <1>2, <1>3, <1>4, <1>5, <1>6, MutateSplit

-----------------------------------------------------------------------------
(* Every change waits for a Clear that its handler owes.                   *)
LEMMA OwedOn ==
  ASSUME RowTypes, NEW w \in Mutators, NEW pc, NEW c, Owed(c),
         mpc' = [mpc EXCEPT ![w] = pc], abandoned /\ c = "user" => abandoned',
         c \in ToClear(mpc[w]) => c \in ToClear(pc)
  PROVE  Owed(c)'
<1>1. CASE abandoned /\ c = "user"
  BY <1>1 DEF Owed
<1>2. CASE \E v \in Mutators : c \in ToClear(mpc[v])
  <2>1. PICK v \in Mutators : c \in ToClear(mpc[v])
    BY <1>2
  <2>2. c \in ToClear(mpc'[v])
    BY <2>1 DEF RowTypes
  <2>3. c \in ToClear(mpc[v])'
    BY <2>2 DEF ToClear
  <2>. QED BY <2>3 DEF Owed
<1>. QED BY <1>1, <1>2 DEF Owed

LEMMA OwedNow ==
  ASSUME RowTypes, NEW w \in Mutators, NEW pc, NEW c,
         mpc' = [mpc EXCEPT ![w] = pc], c \in ToClear(pc)
  PROVE  Owed(c)'
<1>1. mpc'[w] = pc
  BY DEF RowTypes
<1>2. c \in ToClear(mpc[w])'
  BY <1>1 DEF ToClear
<1>. QED BY <1>2 DEF Owed

LEMMA OwedStep ==
  ASSUME Typed, DirtyIsOwed, Next
  PROVE  DirtyIsOwed'
<1>. USE TypeParts
<1>. SUFFICES ASSUME NEW c \in Caches, dirty'[c] PROVE Owed(c)'
  BY DEF DirtyIsOwed
<1>1. CASE UNCHANGED <<dirty, mutVars>>
  <2>1. Owed(c)
    BY <1>1 DEF DirtyIsOwed
  <2>. QED BY <1>1, <2>1 DEF Owed, ToClear, mutVars
<1>2. ASSUME NEW w \in Mutators, Change(w) PROVE Owed(c)'
  <2>1. PICK new \in [Caches -> Rows] : Committed(w, new)
    BY <1>2, ChangeCommits
  <2>2. PICK from \in {"idle", "put"}, next \in {"bump", "user"} :
          /\ Commit(w, from, new, next)
          /\ next = "bump" => \A d \in Caches \ {"user"} : new[d] = db[d]
    BY <2>1 DEF Committed
  <2>3. /\ mpc[w] = from /\ mpc' = [mpc EXCEPT ![w] = next] /\ abandoned' = abandoned
        /\ dirty' = [d \in Caches |-> dirty[d] \/ new[d] # db[d]]
    BY <2>2 DEF Commit
  <2>4. CASE c \in ToClear(next)
    BY <2>3, <2>4, OwedNow
  <2>5. CASE c \notin ToClear(next)
    <3>1. next = "bump" /\ c # "user"
      BY <2>5 DEF ToClear
    <3>2. dirty[c]
      BY <2>2, <2>3, <3>1
    <3>3. Owed(c) /\ ToClear(mpc[w]) = {}
      BY <2>3, <3>2 DEF DirtyIsOwed, ToClear
    <3>. QED BY <2>3, <3>3, OwedOn
  <2>. QED BY <2>4, <2>5
<1>3. ASSUME NEW w \in Mutators, Move(w) PROVE Owed(c)'
  <2>1. Owed(c)
    BY <1>3, MoveKeeps DEF DirtyIsOwed
  <2>2. CASE BumpAfterPassword(w)
    <3>1. /\ mpc[w] = "bump" /\ mpc' = [mpc EXCEPT ![w] = IF up THEN "user" ELSE "idle"]
          /\ abandoned' = (abandoned \/ ~up)
      BY <2>2 DEF BumpAfterPassword
    <3>2. CASE up
      <4>1. mpc' = [mpc EXCEPT ![w] = "user"] /\ c \in ToClear("user")
        BY <3>1, <3>2 DEF ToClear
      <4>. QED BY <4>1, OwedNow
    <3>3. CASE ~up /\ c = "user"
      BY <3>1, <3>3 DEF Owed
    <3>4. CASE ~up /\ c # "user"
      <4>1. mpc' = [mpc EXCEPT ![w] = "idle"] /\ c \notin ToClear(mpc[w])
        BY <3>1, <3>4 DEF ToClear
      <4>. QED BY <2>1, <3>4, <4>1, OwedOn
    <3>. QED BY <3>2, <3>3, <3>4
  <2>3. CASE ~BumpAfterPassword(w)
    <3>1. PICK pc : mpc' = [mpc EXCEPT ![w] = pc]
      BY <1>3, <2>3 DEF Move, AdminActionFails, ReadUser, UpdateUserFails, Fail
    <3>2. mpc[w] \in {"idle", "put"} /\ abandoned' = abandoned
      BY <1>3, <2>3 DEF Move, AdminActionFails, ReadUser, UpdateUserFails, Fail
    <3>3. ToClear(mpc[w]) = {}
      BY <3>2 DEF ToClear
    <3>. QED BY <2>1, <3>1, <3>2, <3>3, OwedOn
  <2>. QED BY <2>2, <2>3
<1>4. ASSUME NEW w \in Mutators, Clear(w) PROVE Owed(c)'
  <2>. DEFINE pc == CASE mpc[w] = "user" -> "tok" [] mpc[w] = "tok" -> "policy"
                      [] mpc[w] = "policy" -> "idle"
  <2>1. /\ mpc[w] \in Caches /\ mpc' = [mpc EXCEPT ![w] = pc]
        /\ dirty' = [dirty EXCEPT ![mpc[w]] = FALSE]
        /\ abandoned' = (abandoned /\ mpc[w] # "user")
    BY <1>4 DEF Clear
  <2>2. c # mpc[w] /\ dirty[c]
    BY <2>1 DEF RowTypes
  <2>3. Owed(c)
    BY <2>2 DEF DirtyIsOwed
  <2>4. c \in ToClear(mpc[w]) => c \in ToClear(pc)
    BY <2>1, <2>2 DEF ToClear, Caches
  <2>5. abandoned /\ c = "user" => abandoned'
    BY <2>1, <2>2
  <2>. HIDE DEF pc
  <2>. QED BY <2>1, <2>3, <2>4, <2>5, OwedOn
<1>5. ASSUME NEW r \in Requests,
             \/ \E cr \in Creds[r] : Begin(r, cr)
             \/ Hit(r) \/ Miss(r) \/ Load(r) \/ LoadFails(r) \/ Store(r) \/ ReadRow(r)
      PROVE  UNCHANGED <<dirty, mutVars>>
  BY <1>5 DEF Begin, Hit, Miss, Load, LoadFails, Store, ReadRow
<1>6. ASSUME (\E d \in Caches : Age(d)) \/ Expire \/ SwitchDB
      PROVE  UNCHANGED <<dirty, mutVars>>
  BY <1>6 DEF Age, Expire, SwitchDB
<1>. QED BY <1>1, <1>2, <1>3, <1>4, <1>5, <1>6, MutateSplit DEF Next, Step

-----------------------------------------------------------------------------
(* The row behind a stop.                                                  *)
RowAt(c) == IF c = "row" THEN db["user"] ELSE db[c]

(* What a request reads while nothing is disturbed is the present row, or  *)
(* nothing at all.                                                         *)
LEMMA CalmReads ==
  ASSUME Typed, CleanIsCurrent, DirtyIsOwed, Calm, NEW r \in Requests,
         Hit(r) \/ LoadFails(r) \/ Store(r) \/ ReadRow(r)
  PROVE  at[r] \in Stops /\ \E res \in {{}, {RowAt(at[r])}} : Proceed(r, res)
<1>. USE TypeParts
<1>1. CASE ReadRow(r)
  BY <1>1 DEF ReadRow, RowAt, Stops
<1>2. CASE Hit(r) \/ LoadFails(r) \/ Store(r)
  <2>1. at[r] \in Caches
    BY <1>2 DEF Hit, LoadFails, Store, Rested
  <2>2. at[r] \in Stops /\ RowAt(at[r]) = db[at[r]] /\ ~dirty[at[r]]
    BY <2>1 DEF RowAt, Stops, Caches, Calm, DirtyIsOwed
  <2>3. CASE Hit(r)
    <3>1. PICK e \in cache[at[r]] : Proceed(r, {e.v})
      BY <2>3 DEF Hit
    <3>2. e.v = db[at[r]]
      BY <2>1, <2>2 DEF Calm, CleanIsCurrent
    <3>. QED BY <2>2, <3>1, <3>2
  <2>4. CASE LoadFails(r)
    <3>1. phase[r] = "load" /\ Proceed(r, {e.v : e \in old[r]})
      BY <2>4 DEF LoadFails
    <3>2. \A e \in old[r] : e.v = db[at[r]]
      BY <2>1, <2>2, <3>1 DEF Calm, CleanIsCurrent
    <3>3. {e.v : e \in old[r]} \in {{}, {db[at[r]]}}
      BY <3>2
    <3>. QED BY <2>2, <3>1, <3>3
  <2>5. CASE Store(r)
    <3>1. phase[r] = "store" /\ Proceed(r, {got[r]})
      BY <2>5 DEF Store
    <3>2. got[r] = db[at[r]]
      BY <2>1, <2>2, <3>1 DEF Calm, CleanIsCurrent
    <3>. QED BY <2>2, <3>1, <3>2
  <2>. QED BY <1>2, <2>3, <2>4, <2>5
<1>. QED BY <1>1, <1>2

(* Where a request is after it went on with the present row or none.       *)
LEMMA OnTheRows ==
  ASSUME Typed, NEW r \in Requests, OnItsWay(r), NEW res \in {{}, {RowAt(at[r])}},
         Proceed(r, res), db' = db, expired' = expired
  PROVE  /\ at'[r] # "idle" => OnItsWay(r)'
         /\ at'[r] = "idle" => answer'[r] = Entitled(cred[r], db, expired, blind'[r])
<1>. USE TypeParts
<1>. DEFINE next == After(at[r], cred[r], res)
<1>1. /\ at'[r] = IF next \in Stops THEN next ELSE "idle"
      /\ answer'[r] = IF next \in Stops THEN answer[r] ELSE next
      /\ cred'[r] = IF next \in Stops THEN cred[r] ELSE "none"
      /\ blind'[r] = IF res = {} THEN blind[r] \cup {at[r]} ELSE blind[r]
  BY DEF Proceed, ReqTypes
<1>2. CASE cred[r] = "pat" /\ at[r] = "tok" /\ blind[r] = {}
  <2>1. next = IF res # {} /\ "live" \in db["tok"] /\ ~expired THEN "user" ELSE "401"
    BY <1>2 DEF After, AfterToken, RowAt
  <2>. HIDE DEF next
  <2>. QED BY <1>1, <1>2, <2>1 DEF OnItsWay, Entitled, Stops, Caches
<1>3. CASE cred[r] = "pat" /\ at[r] = "user" /\ blind[r] = {} /\ "live" \in db["tok"] /\ ~expired
  <2>1. next = IF res # {} /\ "approved" \in db["user"] THEN "token" ELSE "401"
    BY <1>3 DEF After, AfterUser, RowAt
  <2>. HIDE DEF next
  <2>. QED BY <1>1, <1>3, <2>1 DEF Entitled, Stops, Caches
<1>4. CASE cred[r] = "cookie" /\ at[r] = "user" /\ blind[r] = {}
  <2>1. next = IF res = {} \/ ("approved" \in db["user"] /\ "ended" \notin db["user"])
               THEN "session" ELSE "policy"
    BY <1>4 DEF After, AfterUser, RowAt
  <2>. HIDE DEF next
  <2>. QED BY <1>1, <1>4, <2>1 DEF OnItsWay, Entitled, Stops, Caches
<1>5. CASE cred[r] = "desktop" /\ at[r] = "user" /\ blind[r] = {}
  <2>1. next = IF res = {} \/ ("approved" \in db["user"] /\ "ended" \notin db["user"])
               THEN "row" ELSE "401"
    BY <1>5 DEF After, AfterUser, RowAt
  <2>. HIDE DEF next
  <2>. QED BY <1>1, <1>5, <2>1 DEF OnItsWay, Entitled, Stops, Caches
<1>6. CASE \/ cred[r] = "none" /\ at[r] = "policy" /\ blind[r] = {}
           \/ cred[r] = "cookie" /\ at[r] = "policy" /\ blind[r] = {}
                /\ ("approved" \notin db["user"] \/ "ended" \in db["user"])
  <2>1. next = IF res # {} /\ "public" \in db["policy"] THEN "anonymous" ELSE "401"
    BY <1>6 DEF After, AfterPolicy, RowAt
  <2>. HIDE DEF next
  <2>. QED BY <1>1, <1>6, <2>1 DEF Entitled, Stops, Caches
<1>7. CASE \/ cred[r] = "desktop" /\ at[r] = "row" /\ blind[r] = {}
                /\ "approved" \in db["user"] /\ "ended" \notin db["user"]
           \/ cred[r] = "desktop" /\ at[r] = "row" /\ blind[r] = {"user"}
  <2>1. next = IF res # {} /\ "approved" \in db["user"] THEN "code" ELSE "401"
    BY <1>7 DEF After, AfterRow, RowAt
  <2>. HIDE DEF next
  <2>. QED BY <1>1, <1>7, <2>1 DEF Entitled, Stops, Caches
<1>. QED BY <1>2, <1>3, <1>4, <1>5, <1>6, <1>7 DEF OnItsWay

(* A step leaves the requests it is not of alone.                          *)
Waits(r) ==
  /\ at'[r] = at[r] /\ cred'[r] = cred[r] /\ phase'[r] = phase[r] /\ old'[r] = old[r]
  /\ blind'[r] = blind[r]

LEMMA OthersWait ==
  ASSUME Typed, NEW r \in Requests, NEW s \in Requests, s # r,
         \/ \E cr \in Creds[s] : Begin(s, cr)
         \/ Hit(s) \/ Miss(s) \/ Load(s) \/ LoadFails(s) \/ Store(s) \/ ReadRow(s)
  PROVE  Waits(r)
<1>. USE TypeParts DEF ReqTypes, Waits
<1>1. ASSUME NEW res, Proceed(s, res) PROVE Waits(r)
  BY <1>1 DEF Proceed
<1>2. CASE \E cr \in Creds[s] : Begin(s, cr)
  BY <1>2 DEF Begin
<1>3. CASE Miss(s) \/ Load(s)
  BY <1>3 DEF Miss, Load
<1>. QED BY <1>1, <1>2, <1>3 DEF Hit, LoadFails, Store, ReadRow

LEMMA AllWait ==
  ASSUME NEW r \in Requests,
         \/ \E w \in Mutators : Mutate(w)
         \/ \E c \in Caches : Age(c)
         \/ Expire \/ SwitchDB
  PROVE  Waits(r)
<1>1. ASSUME NEW w \in Mutators, Mutate(w) PROVE UNCHANGED reqVars
  BY <1>1, MutateSplit, MoveKeeps DEF Change, SetUserApproved, DeleteUserData, UpdateUser,
     BumpSessions, SetPassword, UpdateUserRow, CreateAPIToken, RenameAPIToken, RevokeAPIToken,
     SetRoutePolicy, Clear, Commit
<1>2. UNCHANGED reqVars
  BY <1>1 DEF Age, Expire, SwitchDB
<1>. QED BY <1>2 DEF reqVars, Waits

-----------------------------------------------------------------------------
(* A steady request, of the one that moves.                                *)
LEMMA SteadyMoves ==
  ASSUME Typed, CleanIsCurrent, DirtyIsOwed, Undisturbed, NEW r \in Requests,
         \/ \E cr \in Creds[r] : Begin(r, cr)
         \/ Hit(r) \/ Miss(r) \/ Load(r) \/ LoadFails(r) \/ Store(r) \/ ReadRow(r),
         at[r] # "idle" => OnItsWay(r)
  PROVE  /\ at'[r] # "idle" => OnItsWay(r)'
         /\ Answered(r) => answer'[r] = Entitled(cred[r], db, expired, blind'[r])
<1>. USE TypeParts
<1>1. Calm /\ db' = db /\ expired' = expired
  BY DEF Undisturbed
<1>2. CASE \E cr \in Creds[r] : Begin(r, cr)
  <2>1. PICK cr \in Creds[r] : Begin(r, cr)
    BY <1>2
  <2>2. cr \in Credentials
    BY VerifyAssumption
  <2>3. blind'[r] = {} /\ at[r] = "idle"
    BY <2>1 DEF Begin, ReqTypes
  <2>. QED BY <2>1, <2>2, <2>3 DEF Begin, OnItsWay, Answered, ReqTypes, Credentials
<1>3. CASE Miss(r) \/ Load(r)
  <2>1. at[r] # "idle" /\ at' = at /\ cred' = cred /\ blind' = blind
    BY <1>3 DEF Miss, Load, Rested, Caches
  <2>. QED BY <1>1, <2>1 DEF OnItsWay, Answered
<1>4. CASE Hit(r) \/ LoadFails(r) \/ Store(r) \/ ReadRow(r)
  <2>1. PICK res \in {{}, {RowAt(at[r])}} : Proceed(r, res)
    BY <1>1, <1>4, CalmReads
  <2>2. at[r] # "idle"
    BY <1>1, <1>4, CalmReads DEF Stops, Caches
  <2>. QED BY <1>1, <2>1, <2>2, OnTheRows DEF Answered
<1>. QED BY <1>2, <1>3, <1>4

LEMMA SteadyStep ==
  ASSUME Inv, Next, NEW r \in Requests, Undisturbed, at[r] # "idle" => steady[r]
  PROVE  /\ at'[r] # "idle" => OnItsWay(r)'
         /\ Answered(r) => answer'[r] = Entitled(cred[r], db, expired, blind'[r])
<1>. USE DEF Inv
<1>1. (at[r] # "idle" => OnItsWay(r)) /\ db' = db /\ expired' = expired
  BY DEF SteadyOnItsWay, Undisturbed
<1>2. CASE \/ \E cr \in Creds[r] : Begin(r, cr)
           \/ Hit(r) \/ Miss(r) \/ Load(r) \/ LoadFails(r) \/ Store(r) \/ ReadRow(r)
  BY <1>1, <1>2, SteadyMoves
<1>3. CASE Waits(r)
  BY <1>1, <1>3 DEF Waits, OnItsWay, Answered
<1>. QED BY <1>2, <1>3, OthersWait, AllWait DEF Next, Step

(* A request in an outage with nothing cached.                             *)
LEMMA OfflineStep ==
  ASSUME Inv, Next, NEW r \in Requests, Empty, at[r] # "idle" => offline[r]
  PROVE  /\ at'[r] # "idle" => AtItsFirst(r)'
         /\ Answered(r) => answer'[r] = IF cred[r] = "cookie" THEN "session" ELSE "401"
<1>. USE TypeParts DEF Inv
<1>1. (at[r] # "idle" => AtItsFirst(r)) /\ ~up
  BY DEF OfflineAtItsFirst, Empty
<1>2. CASE \E cr \in Creds[r] : Begin(r, cr)
  <2>1. PICK cr \in Creds[r] : Begin(r, cr)
    BY <1>2
  <2>2. cr \in Credentials \ {"desktop"}
    BY <1>1, <2>1, VerifyAssumption DEF Begin
  <2>3. phase'[r] = "lookup" /\ old'[r] = {}
    BY <2>1 DEF Begin, Rested, Caches
  <2>. QED BY <2>1, <2>2, <2>3 DEF Begin, AtItsFirst, Answered, ReqTypes, Credentials
<1>3. ~Hit(r) /\ ~Load(r) /\ ~Store(r) /\ ~ReadRow(r)
  BY <1>1 DEF Hit, Load, Store, ReadRow, Empty, AtItsFirst
<1>4. CASE Miss(r)
  <2>1. cache[at[r]] = {} /\ at[r] # "idle"
    BY <1>4 DEF Miss, Empty, Caches
  <2>2. at' = at /\ cred' = cred /\ phase'[r] = "load" /\ old'[r] = {}
    BY <1>4, <2>1 DEF Miss, ReqTypes
  <2>. QED BY <1>1, <2>1, <2>2 DEF AtItsFirst, Answered
<1>5. CASE LoadFails(r)
  <2>1. at[r] # "idle" /\ AtItsFirst(r)
    BY <1>1, <1>5 DEF LoadFails, Rested, Caches
  <2>2. {e.v : e \in old[r]} = {}
    BY <2>1 DEF AtItsFirst
  <2>3. Proceed(r, {})
    BY <1>5, <2>2 DEF LoadFails
  <2>. DEFINE next == After(at[r], cred[r], {})
  <2>4. next = IF cred[r] = "cookie" THEN "session" ELSE "401"
    BY <2>1 DEF AtItsFirst, After, AfterToken, AfterUser, AfterPolicy
  <2>5. /\ at'[r] = IF next \in Stops THEN next ELSE "idle"
        /\ answer'[r] = IF next \in Stops THEN answer[r] ELSE next
    BY <2>3 DEF Proceed, ReqTypes
  <2>. HIDE DEF next
  <2>. QED BY <2>4, <2>5 DEF Stops, Caches
<1>6. CASE Waits(r)
  BY <1>1, <1>6 DEF Waits, AtItsFirst, Answered
<1>. QED BY <1>2, <1>3, <1>4, <1>5, <1>6, OthersWait, AllWait DEF Next, Step

LEMMA InvStep ==
  ASSUME Inv, Next
  PROVE  Inv'
<1>1. Typed'
  BY TypeStep DEF Inv
<1>2. CleanIsCurrent'
  BY RequestClean, OtherClean DEF Inv, Next, Step
<1>3. DirtyIsOwed'
  BY OwedStep DEF Inv
<1>4. SteadyOnItsWay'
  <2>1. ASSUME NEW r \in Requests, steady'[r]
        PROVE  Undisturbed /\ (at[r] # "idle" => steady[r])
    BY <2>1 DEF Next, Observe
  <2>. QED BY <2>1, SteadyStep DEF SteadyOnItsWay
<1>5. OfflineAtItsFirst'
  <2>1. ASSUME NEW r \in Requests, offline'[r]
        PROVE  Empty /\ (at[r] # "idle" => offline[r])
    BY <2>1 DEF Next, Observe
  <2>. QED BY <2>1, OfflineStep DEF OfflineAtItsFirst
<1>. QED BY <1>1, <1>2, <1>3, <1>4, <1>5 DEF Inv

LEMMA InvHolds == Spec => []Inv
<1>1. Init => Inv
  <2>. SUFFICES ASSUME Init PROVE Inv
    OBVIOUS
  <2>1. db \in [Caches -> Rows] /\ issued \in BOOLEAN /\ expired \in BOOLEAN /\ up \in BOOLEAN
    BY DEF Init
  <2>2. \A c \in Caches : cache[c] = {} /\ Cardinality(cache[c]) <= 1
    BY FS_EmptySet DEF Init
  <2>3. ReqTypes
    BY DEF Init, ReqTypes, Rows, Answers, Credentials
  <2>9. RowTypes
    <3>1. 0 \in 0..MaxChanges
      BY VerifyAssumption
    <3>. QED BY <2>1, <3>1 DEF Init, RowTypes, Rows
  <2>7. CacheTypes /\ Rested
    BY <2>2 DEF Init, CacheTypes, Single, Rested
  <2>8. steady \in [Requests -> BOOLEAN] /\ offline \in [Requests -> BOOLEAN]
    BY DEF Init
  <2>4. Typed
    BY <2>3, <2>7, <2>8, <2>9, TypeParts
  <2>5. CleanIsCurrent /\ DirtyIsOwed
    BY <2>2 DEF Init, CleanIsCurrent, DirtyIsOwed
  <2>6. SteadyOnItsWay /\ OfflineAtItsFirst
    BY DEF Init, SteadyOnItsWay, OfflineAtItsFirst
  <2>. QED BY <2>4, <2>5, <2>6 DEF Inv
<1>2. Inv /\ UNCHANGED vars => Inv'
  BY DEF vars, rowVars, reqVars, mutVars, Inv, Typed, TypeOK, Single, Rested, CleanIsCurrent,
     DirtyIsOwed, Owed, ToClear, SteadyOnItsWay, OnItsWay, OfflineAtItsFirst, AtItsFirst
<1>3. Inv /\ [Next]_vars => Inv'
  BY <1>2, InvStep
<1>. QED BY <1>1, <1>3, PTL DEF Spec

-----------------------------------------------------------------------------
(* Every variable has its type; a cache never holds two entries for a key. *)
THEOREM TypeCorrect == Spec => []TypeOK
BY InvHolds, PTL DEF Inv, Typed

(* A request that nothing disturbs is answered as the rows demand wherever *)
(* it could read or had cached any (verify.go:96-197, oauth.go:126-143),   *)
(* for any number of requests and of the ten handlers that invalidate.     *)
THEOREM SteadyAnswersAreRight == Spec => SteadyAnswersFollowRows
<1>1. Inv /\ [Next]_vars =>
        [\A r \in Requests :
           Answered(r) /\ steady[r] /\ Undisturbed =>
             answer'[r] = Entitled(cred[r], db, expired, blind'[r])]_vars
  BY SteadyStep DEF Answered
<1>. QED BY <1>1, InvHolds, PTL DEF Spec, SteadyAnswersFollowRows

(* With the database down and nothing cached only cookies pass             *)
(* (verify.go:102-137).                                                    *)
THEOREM OfflineAnswersAreRight == Spec => OfflineAnswers
<1>1. Inv /\ [Next]_vars =>
        [\A r \in Requests :
           Answered(r) /\ offline[r] /\ Empty =>
             answer'[r] = IF cred[r] = "cookie" THEN "session" ELSE "401"]_vars
  BY OfflineStep DEF Answered
<1>. QED BY <1>1, InvHolds, PTL DEF Spec, OfflineAnswers
=============================================================================
