------------------------------- MODULE Verify -------------------------------
(***************************************************************************)
(* GET /session/verify (internal/handler/verify.go), and the step of POST  *)
(* /oauth/authorize that trusts the browser's cookie, together with what   *)
(* they decide from: the three caches of users, tokens and route policies, *)
(* the database rows behind them, and the ten handlers that call           *)
(* invalidateAuth (account.go:100, 120, 162, 302, 355, 373, admin.go:80,   *)
(* 102, 360, routes.go:196).                                               *)
(*                                                                         *)
(* One user with one personal access token and one session cookie asks for *)
(* one host; each cache holds at most the one entry they need, so the      *)
(* capacity of a cache plays no part here (TTLCache has it).  A row is the *)
(* set of facts about it that the handler tests, {} when it does not exist:*)
(*   user:   "row", "approved", "ended" (the cookie's iat is before        *)
(*           sessions_valid_after)                                         *)
(*   tok:    "row", "live" (revoked_at is null)                            *)
(*   policy: "public" (a row that is not public decides as none does)      *)
(***************************************************************************)
EXTENDS Naturals, FiniteSets

CONSTANTS
  Requests,    \* concurrent calls of VerifySession
  Mutators,    \* concurrent handlers that change a row
  Creds,       \* Creds[r]: those r may carry, of Credentials
  Outages,     \* whether the database may become unreachable
  MaxChanges   \* bound: how many writes each mutator tries

(* "desktop" is a cookie presented to /oauth/authorize.                    *)
Credentials == {"pat", "cookie", "none", "desktop"}

ASSUME VerifyAssumption ==
  /\ Creds \in [Requests -> SUBSET Credentials]
  /\ Outages \in BOOLEAN
  /\ MaxChanges \in Nat

Caches == {"tok", "user", "policy"}
Stops == Caches \cup {"row"}      \* "row": the user, from the database itself
Answers == {"401", "session", "token", "anonymous", "code"}
Rows == SUBSET {"row", "approved", "ended", "live", "public"}

VARIABLES
  db,       \* db[c]: the committed row behind cache c
  issued,   \* the token has been created
  expired,  \* the token's expires_at has passed
  up,       \* the database answers
  cache,    \* cache[c]: its entry for the key, as a set of at most one
  at,       \* the stop each request is reading, or "idle"
  phase,    \* where in ttlCache.Get it is: "lookup", "load" or "store"
  cred,     \* the credential of each request
  old,      \* the entry its lookup found
  got,      \* the row its loader returned
  answer,   \* its last answer
  mpc,      \* where each mutator is
  row,      \* the user's row as the PUT of each mutator read it
  changes,  \* how many writes each tried
  abandoned, \* history: a password changed without invalidateAuth
  dirty,    \* history: a change of db[c] no Clear of cache c has followed
  clean,    \* history: no Clear since the value a request holds was read
  blind,    \* history: the stops where a request found neither row nor entry
  steady,   \* history: nothing was changing since the request began
  offline   \* history: down and nothing cached since the request began

rowVars == <<db, issued, expired, up>>
reqVars == <<at, phase, cred, old, got, answer, blind>>
mutVars == <<mpc, row, changes, abandoned>>
vars == <<rowVars, cache, reqVars, mutVars, dirty, clean, steady, offline>>

Entry == [v : Rows, fresh : BOOLEAN, clean : BOOLEAN]

TypeOK ==
  /\ db \in [Caches -> Rows]
  /\ issued \in BOOLEAN /\ expired \in BOOLEAN /\ up \in BOOLEAN
  /\ cache \in [Caches -> SUBSET Entry]
  /\ \A c \in Caches : Cardinality(cache[c]) <= 1
  /\ at \in [Requests -> Stops \cup {"idle"}]
  /\ phase \in [Requests -> {"lookup", "load", "store"}]
  /\ cred \in [Requests -> Credentials]
  /\ old \in [Requests -> SUBSET Entry]
  /\ got \in [Requests -> Rows]
  /\ answer \in [Requests -> Answers]
  /\ mpc \in [Mutators -> {"idle", "bump", "put"} \cup Caches]
  /\ row \in [Mutators -> Rows]
  /\ changes \in [Mutators -> 0..MaxChanges]
  /\ abandoned \in BOOLEAN
  /\ dirty \in [Caches -> BOOLEAN]
  /\ clean \in [Requests -> BOOLEAN]
  /\ blind \in [Requests -> SUBSET Stops]
  /\ steady \in [Requests -> BOOLEAN]
  /\ offline \in [Requests -> BOOLEAN]

Init ==
  /\ db \in [Caches -> Rows]
  /\ db["user"] \in {{"row"}, {"row", "approved"}}
  /\ db["tok"] \in {{}, {"row", "live"}}
  /\ db["policy"] \in {{}, {"public"}}
  /\ issued = (db["tok"] # {})
  /\ expired = FALSE
  /\ up = TRUE
  /\ cache = [c \in Caches |-> {}]
  /\ at = [r \in Requests |-> "idle"]
  /\ phase = [r \in Requests |-> "lookup"]
  /\ cred = [r \in Requests |-> "none"]
  /\ old = [r \in Requests |-> {}]
  /\ got = [r \in Requests |-> {}]
  /\ answer = [r \in Requests |-> "401"]
  /\ mpc = [w \in Mutators |-> "idle"]
  /\ row = [w \in Mutators |-> {}]
  /\ changes = [w \in Mutators |-> 0]
  /\ abandoned = FALSE
  /\ dirty = [c \in Caches |-> FALSE]
  /\ clean = [r \in Requests |-> FALSE]
  /\ blind = [r \in Requests |-> {}]
  /\ steady = [r \in Requests |-> FALSE]
  /\ offline = [r \in Requests |-> FALSE]

-----------------------------------------------------------------------------
(* What a request with credential cr does once its read at a stop has      *)
(* returned: the next stop or its answer.  res is the row read, as a       *)
(* singleton, or {} for an error.                                          *)
AfterToken(res) ==
  IF \E v \in res : "live" \in v /\ ~expired THEN "user" ELSE "401"

AfterUser(cr, res) ==
  LET approved == \E v \in res : "approved" \in v
      ended == \E v \in res : "ended" \in v
      identified == res = {} \/ (approved /\ ~ended)  \* fail open: the JWT alone
  IN  CASE cr = "pat" -> IF approved THEN "token" ELSE "401"
        [] cr = "desktop" -> IF identified THEN "row" ELSE "401"
        [] OTHER -> IF identified THEN "session" ELSE "policy"

(* Mutant of the next: an unknown policy opens the host.                   *)
AfterPolicyOpen(res) ==
  IF res = {} \/ \E v \in res : "public" \in v THEN "anonymous" ELSE "401"

AfterPolicy(res) == IF \E v \in res : "public" \in v THEN "anonymous" ELSE "401"

(* The user's row decides again (oauth.go:130-143); a login form is "401". *)
AfterRow(res) == IF \E v \in res : "approved" \in v THEN "code" ELSE "401"

After(c, cr, res) ==
  CASE c = "tok" -> AfterToken(res)
    [] c = "user" -> AfterUser(cr, res)
    [] c = "policy" -> AfterPolicy(res)
    [] c = "row" -> AfterRow(res)

(* The request goes on with the result of its read.                        *)
Proceed(r, res) ==
  LET next == After(at[r], cred[r], res)
  IN  /\ at' = [at EXCEPT ![r] = IF next \in Stops THEN next ELSE "idle"]
      /\ answer' = [answer EXCEPT ![r] = IF next \in Stops THEN @ ELSE next]
      /\ phase' = [phase EXCEPT ![r] = "lookup"]
      /\ old' = [old EXCEPT ![r] = {}]
      /\ got' = [got EXCEPT ![r] = {}]
      /\ clean' = [clean EXCEPT ![r] = FALSE]
      /\ cred' = [cred EXCEPT ![r] = IF next \in Stops THEN @ ELSE "none"]
      /\ blind' = [blind EXCEPT ![r] = IF res = {} THEN @ \cup {at[r]} ELSE @]

-----------------------------------------------------------------------------
(* VerifySession begins: a sirpat_ bearer is checked instead of the cookie;*)
(* without either, only the host's policy is left.  The authorization of a *)
(* desktop client has read the client's row by then.                       *)
Begin(r, cr) ==
  /\ at[r] = "idle"
  /\ cr = "desktop" => up
  /\ cred' = [cred EXCEPT ![r] = cr]
  /\ at' = [at EXCEPT ![r] = CASE cr = "pat" -> "tok"
                                [] cr \in {"cookie", "desktop"} -> "user"
                                [] cr = "none" -> "policy"]
  /\ answer' = [answer EXCEPT ![r] = "401"]
  /\ blind' = [blind EXCEPT ![r] = {}]
  /\ UNCHANGED <<rowVars, cache, phase, old, got, mutVars, dirty, clean>>

(* POST /oauth/authorize reads the user after the cookie was accepted; an  *)
(* error is a login form.                                                  *)
ReadRow(r) ==
  /\ at[r] = "row"
  /\ Proceed(r, IF up THEN {db["user"]} ELSE {})
  /\ UNCHANGED <<rowVars, cache, mutVars, dirty>>

Hit(r) ==
  /\ at[r] \in Caches /\ phase[r] = "lookup"
  /\ \E e \in cache[at[r]] : e.fresh /\ Proceed(r, {e.v})
  /\ UNCHANGED <<rowVars, cache, mutVars, dirty>>

Miss(r) ==
  /\ at[r] \in Caches /\ phase[r] = "lookup"
  /\ \A e \in cache[at[r]] : ~e.fresh
  /\ phase' = [phase EXCEPT ![r] = "load"]
  /\ old' = [old EXCEPT ![r] = cache[at[r]]]
  /\ clean' = [clean EXCEPT ![r] = \A e \in cache[at[r]] : e.clean]
  /\ UNCHANGED <<rowVars, cache, at, cred, got, answer, blind, mutVars, dirty>>

Load(r) ==
  /\ phase[r] = "load" /\ up
  /\ phase' = [phase EXCEPT ![r] = "store"]
  /\ got' = [got EXCEPT ![r] = db[at[r]]]
  /\ clean' = [clean EXCEPT ![r] = TRUE]
  /\ UNCHANGED <<rowVars, cache, at, cred, old, answer, blind, mutVars, dirty>>

LoadFails(r) ==
  /\ phase[r] = "load" /\ ~up
  /\ Proceed(r, {e.v : e \in old[r]})
  /\ UNCHANGED <<rowVars, cache, mutVars, dirty>>

(* Mutant of the next: the new entry is added beside the old one.          *)
StoreBeside(r) ==
  /\ phase[r] = "store"
  /\ cache' = [cache EXCEPT ![at[r]] =
                 @ \cup {[v |-> got[r], fresh |-> TRUE, clean |-> clean[r]]}]
  /\ Proceed(r, {got[r]})
  /\ UNCHANGED <<rowVars, mutVars, dirty>>

Store(r) ==
  /\ phase[r] = "store"
  /\ cache' = [cache EXCEPT ![at[r]] = {[v |-> got[r], fresh |-> TRUE, clean |-> clean[r]]}]
  /\ Proceed(r, {got[r]})
  /\ UNCHANGED <<rowVars, mutVars, dirty>>

-----------------------------------------------------------------------------
(* The write of a handler that stands at `from`: new gives the rows        *)
(* afterwards.  What a handler checked in an earlier query guards nothing  *)
(* here, so a write may find no row to change.                             *)
Commit(w, from, new, next) ==
  /\ mpc[w] = from /\ up /\ changes[w] < MaxChanges
  /\ db' = new
  /\ issued' = (issued \/ new["tok"] # {})
  /\ changes' = [changes EXCEPT ![w] = @ + 1]
  /\ mpc' = [mpc EXCEPT ![w] = next]
  /\ row' = [row EXCEPT ![w] = {}]
  /\ dirty' = [c \in Caches |-> dirty[c] \/ new[c] # db[c]]
  /\ UNCHANGED <<expired, up, cache, reqVars, abandoned, clean>>

(* A write that fails in an outage.                                        *)
Fail(w, from, next) ==
  /\ mpc[w] = from /\ ~up /\ changes[w] < MaxChanges
  /\ changes' = [changes EXCEPT ![w] = @ + 1]
  /\ mpc' = [mpc EXCEPT ![w] = next]
  /\ row' = [row EXCEPT ![w] = {}]
  /\ UNCHANGED <<rowVars, cache, reqVars, abandoned, dirty, clean>>

(* UPDATE users of facts about the user's row, if there is one.            *)
UpdateUserRow(w, facts, next) ==
  Commit(w, "idle", [db EXCEPT !["user"] = IF @ = {} THEN {} ELSE facts], next)

(* AdminAction approve and revoke.                                         *)
SetUserApproved(w, approved) ==
  UpdateUserRow(w, IF approved THEN db["user"] \cup {"approved"}
                               ELSE db["user"] \ {"approved"}, "user")

(* AdminAction reject and delete, AccountDelete, DELETE /api/admin/users:  *)
(* the tokens go with the user by the foreign key.                         *)
DeleteUserData(w) ==
  Commit(w, "idle", [db EXCEPT !["user"] = {}, !["tok"] = {}], "user")

(* AdminAction calls invalidateAuth even when its write failed.            *)
AdminActionFails(w) == Fail(w, "idle", "user")

(* PUT /api/admin/users/{id}: the row it read is saved whole, an e-mail,   *)
(* a role or a password apart, over what others wrote since; Save inserts  *)
(* it again if it is gone.                                                 *)
ReadUser(w) ==
  /\ mpc[w] = "idle" /\ up /\ db["user"] # {} /\ changes[w] < MaxChanges
  /\ mpc' = [mpc EXCEPT ![w] = "put"]
  /\ row' = [row EXCEPT ![w] = db["user"]]
  /\ UNCHANGED <<rowVars, cache, reqVars, changes, abandoned, dirty, clean>>

UpdateUser(w) == Commit(w, "put", [db EXCEPT !["user"] = row[w]], "user")

UpdateUserFails(w) == Fail(w, "put", "idle")

(* AccountLogoutAll.                                                       *)
BumpSessions(w) == UpdateUserRow(w, db["user"] \cup {"ended"}, "user")

(* AccountPassword: SetPassword ends the sessions, and only if the         *)
(* BumpSessions after it succeeds too is the cache invalidated.            *)
SetPassword(w) == UpdateUserRow(w, db["user"] \cup {"ended"}, "bump")

BumpAfterPassword(w) ==
  /\ mpc[w] = "bump"
  /\ mpc' = [mpc EXCEPT ![w] = IF up THEN "user" ELSE "idle"]
  /\ abandoned' = (abandoned \/ ~up)
  /\ UNCHANGED <<rowVars, cache, reqVars, row, changes, dirty, clean>>

(* Mutant of the next: the cached "not found" is left to its TTL.          *)
CreateAPITokenQuietly(w) ==
  /\ ~issued /\ db["user"] # {}
  /\ Commit(w, "idle", [db EXCEPT !["tok"] = {"row", "live"}], "idle")

(* createToken: the foreign key wants the user; the token may have been    *)
(* asked for, and cached as missing, before.                               *)
CreateAPIToken(w) ==
  /\ ~issued /\ db["user"] # {}
  /\ Commit(w, "idle", [db EXCEPT !["tok"] = {"row", "live"}], "user")

(* TokenRename: found, revoked or not.                                     *)
RenameAPIToken(w) == db["tok"] # {} /\ Commit(w, "idle", db, "user")

(* TokenRevoke: found, and not revoked yet.                                *)
RevokeAPIToken(w) ==
  /\ "live" \in db["tok"]
  /\ Commit(w, "idle", [db EXCEPT !["tok"] = @ \ {"live"}], "user")

(* setRoutePolicy with action public, or with login or delete.             *)
SetRoutePolicy(w, policy) ==
  Commit(w, "idle", [db EXCEPT !["policy"] = policy], "user")

(* invalidateAuth clears the caches one after the other.                   *)
Clear(w) ==
  /\ mpc[w] \in Caches
  /\ cache' = [cache EXCEPT ![mpc[w]] = {}]
  /\ dirty' = [dirty EXCEPT ![mpc[w]] = FALSE]
  /\ clean' = [r \in Requests |-> clean[r] /\ at[r] # mpc[w]]
  /\ mpc' = [mpc EXCEPT ![w] = CASE @ = "user" -> "tok"
                                 [] @ = "tok" -> "policy"
                                 [] @ = "policy" -> "idle"]
  /\ abandoned' = (abandoned /\ mpc[w] # "user")
  /\ UNCHANGED <<rowVars, reqVars, row, changes>>

Mutate(w) ==
  \/ \E approved \in BOOLEAN : SetUserApproved(w, approved)
  \/ DeleteUserData(w) \/ AdminActionFails(w)
  \/ ReadUser(w) \/ UpdateUser(w) \/ UpdateUserFails(w)
  \/ BumpSessions(w) \/ SetPassword(w) \/ BumpAfterPassword(w)
  \/ CreateAPIToken(w) \/ RenameAPIToken(w) \/ RevokeAPIToken(w)
  \/ \E policy \in {{}, {"public"}} : SetRoutePolicy(w, policy)
  \/ Clear(w)

-----------------------------------------------------------------------------
(* The environment: an entry's TTL passes, the token expires, the database *)
(* becomes unreachable or comes back.                                      *)
Age(c) ==
  /\ \E e \in cache[c] : e.fresh
  /\ cache' = [cache EXCEPT ![c] = {[e EXCEPT !.fresh = FALSE] : e \in @}]
  /\ UNCHANGED <<rowVars, reqVars, mutVars, dirty, clean>>

Expire ==
  /\ issued /\ ~expired
  /\ expired' = TRUE
  /\ UNCHANGED <<db, issued, up, cache, reqVars, mutVars, dirty, clean>>

SwitchDB ==
  /\ Outages
  /\ up' = ~up
  /\ UNCHANGED <<db, issued, expired, cache, reqVars, mutVars, dirty, clean>>

Step ==
  \/ \E r \in Requests :
       \/ \E cr \in Creds[r] : Begin(r, cr)
       \/ Hit(r) \/ Miss(r) \/ Load(r) \/ LoadFails(r) \/ Store(r) \/ ReadRow(r)
  \/ \E w \in Mutators : Mutate(w)
  \/ \E c \in Caches : Age(c)
  \/ Expire \/ SwitchDB

(* The caches a handler at pc is still going to clear, and those a change  *)
(* may be missing from: for good once a password change was abandoned.     *)
ToClear(pc) ==
  CASE pc = "bump" -> {"user"}
    [] pc = "user" -> Caches
    [] pc = "tok" -> {"tok", "policy"}
    [] pc = "policy" -> {"policy"}
    [] OTHER -> {}

Owed(c) == (\E w \in Mutators : c \in ToClear(mpc[w])) \/ (abandoned /\ c = "user")

(* Nothing a request could read is out of date or about to become so: no   *)
(* handler has yet to clear what its change made stale, and no value that  *)
(* a Clear has overtaken is cached or about to be.  The database may be    *)
(* down.                                                                   *)
Calm ==
  /\ \A c \in Caches : ~(dirty[c] /\ Owed(c)) /\ \A e \in cache[c] : e.clean
  /\ \A r \in Requests : phase[r] # "lookup" => clean[r]

Undisturbed == Calm /\ Calm' /\ db' = db /\ expired' = expired

Empty == ~up /\ (\A c \in Caches : cache[c] = {}) /\ \A r \in Requests : phase[r] # "store"

(* The history of a request under way: whether each step since the state   *)
(* it began in was undisturbed, or taken in an outage with nothing cached. *)
Observe ==
  /\ steady' = [r \in Requests |->
       at'[r] # "idle" /\ (at[r] # "idle" => steady[r]) /\ Undisturbed]
  /\ offline' = [r \in Requests |->
       at'[r] # "idle" /\ (at[r] # "idle" => offline[r]) /\ Empty /\ Empty']

Next == Step /\ Observe

Spec == Init /\ [][Next]_vars

-----------------------------------------------------------------------------
(* Who may pass, as the README states it, from the rows alone, when        *)
(* nothing could be learned at the stops `unread`.                         *)
Entitled(cr, rows, exp, unread) ==
  LET approved == "approved" \in rows["user"]
      identified == "user" \in unread \/ (approved /\ "ended" \notin rows["user"])
  IN  CASE cr = "pat" ->
             IF unread = {} /\ approved /\ "live" \in rows["tok"] /\ ~exp
             THEN "token" ELSE "401"
        [] cr = "desktop" ->
             IF identified /\ "row" \notin unread /\ approved THEN "code" ELSE "401"
        [] cr = "cookie" /\ identified -> "session"
        [] OTHER ->
             IF "policy" \notin unread /\ "public" \in rows["policy"]
             THEN "anonymous" ELSE "401"

Answered(r) == at[r] # "idle" /\ at'[r] = "idle"

(* A request during which nothing changes is answered as the committed     *)
(* rows demand, whatever the three caches, their separate Clears, outages  *)
(* and every other request and handler did before and meanwhile            *)
(* (verify.go:96-197, oauth.go:126-143): what a handler committed and      *)
(* invalidated holds for the next request, and so does a cached entry that *)
(* an outage lets live on.  Only what was neither cached nor readable is   *)
(* decided without its row.                                                *)
SteadyAnswersFollowRows ==
  [][\A r \in Requests :
       Answered(r) /\ steady[r] /\ Undisturbed =>
         answer'[r] = Entitled(cred[r], db, expired, blind'[r])]_vars

(* With the database down and nothing cached, a token is refused, a cookie *)
(* passes on its signature alone, and no host is public                    *)
(* (verify.go:102-137).                                                    *)
OfflineAnswers ==
  [][\A r \in Requests :
       Answered(r) /\ offline[r] /\ Empty =>
         answer'[r] = IF cred[r] = "cookie" THEN "session" ELSE "401"]_vars
=============================================================================
