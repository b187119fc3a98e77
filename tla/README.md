# Verification of sir-auth

TLA+ models of sir-auth (a Go service: sign-in, OAuth and the `auth_request`
endpoint for nginx), checked with TLC on small instances, and theorems about
them checked with TLAPS for every value of the constants. Paths below are
relative to `src/internal/` unless they begin with `src/`.

## The system

One process, one PostgreSQL database, no other shared state. Every HTTP request
is a goroutine; handlers talk to the database one autocommitted query at a time
(`SkipDefaultTransaction`; only `BumpSessions` and `DeleteUserData` are
transactions) and share memory in three places only: the caches of
`handler/verify.go`, the list of routes in a fourth cache (`handler/ui.go`), and
the usage log of `store/usage.go`.

| component | state | operations | interacts with |
|---|---|---|---|
| ttlCache (`handler/verify.go`) | a map of entries with a time, under a mutex | `Get` (lookup, load, store), `Clear` | every `/session/verify`; ten handlers through `invalidateAuth` |
| /session/verify (`handler/verify.go`) | three ttlCaches: users, tokens, policies | `VerifySession` by cookie, `sirpat_` token or host policy; `cookieIdentity`, also for `/oauth/authorize` of a desktop client | the caches, the usage log |
| OAuth (`handler/oauth.go`, `store/store.go`) | `auth_codes`, `refresh_tokens` | authorize, code exchange, refresh exchange, revoke | users; password change, logout-all and deletion end tokens |
| usage log (`store/usage.go`) | channel, read-write lock, drop counter, batch; `request_logs`, `last_used_at` | `LogUsage`, `flushLoop`, `writeUsage`, `CloseUsage` | `/session/verify` produces, the stats pages read, `main` closes |
| accounts, administration (`handler/admin.go`, `account.go`, `user.go`, `setup.go`) | `users` | setup, register, approve, reject, revoke, delete, user API, self-deletion | caches, OAuth rows, request log |
| sessions, passwords (`handler/session.go`, `account.go`) | the signed cookie, `sessions_valid_after` | login, logout, password change, logout-all | `/session/verify` |
| personal access tokens (`handler/account.go`) | `api_tokens` | create under a limit of 50, rename, revoke | `/session/verify` |
| route policies (`handler/routes.go`) | `route_policies`, the cached list of routes | public, login, delete; the page | `/session/verify`; the watcher |
| dashboard (`handler/ui.go`) | the same cached list | the page | the watcher, `/admin/routes` |
| stats and usage pages (`handler/stats.go`) | none; `request_logs` is read | a page of nine queries, older pages, CSV export | the usage log inserts and deletion deletes meanwhile |
| MCP text, crypto, middleware | none of their own | formatting, signing, checks of headers | |

What is hard here, and what would make each part correct:

- **Stale caches.** A loader reads the database with no lock held, so its answer
  may be stored after the change it missed was invalidated. Correct: only such
  loads can bring an old row back, it does not last, and an undisturbed request
  is answered as the rows demand.
- **Partial outages.** A cached row is served as long as the database is down.
  Where none is cached, an outage means three different things to a cookie
  (trusted), a token (refused) and a policy (closed).
- **Races over one-shot rows.** Codes and refresh tokens are read, checked and
  claimed in separate queries. Correct: one exchange each, one live token per
  authorization, bound to its user and client, and no authorization lost
  except to a failure, a revocation or a deletion.
- **Failures between two queries** of one handler: the claimed token without a
  successor, the changed password without ended sessions, the user without a
  client.
- **Two halves of one check**: what `authorize` lets through (redirect URI, PKCE)
  is checked again, by other rules, when the code comes back. Correct: whatever
  passed the first can pass the second.
- **A shared slice**: the routes cache returns the slice it holds, and every page
  sorts it in place. Correct, but for a page whose use overlaps another one's
  sort: every route once, in order.
- **Many reads of moving data**: tiles, charts, tables and pages of recent rows
  are queried one after the other while rows come and go; an export is streamed
  after its headers are sent. Correct: numbers that fit, no row skipped by
  following the pages, and no export that looks whole and is not.
- **Check-then-act** on the number of admins, of tokens, of users; and the user
  API's read-modify-write of a whole row.
- **Shutdown** of the usage log under requests that are still logging, its full
  buffer, its failing database, and rows deleted while more are in memory.

## Modules

- `TTLCache` with `MCTTLCache` and `TTLCacheProofs`: one ttlCache, its loaders
  and the handlers that write a row and clear.
- `Verify` with `MCVerify` and `VerifyProofs`: `/session/verify` and the cookie of
  `/oauth/authorize` over three caches, the rows behind them and the ten handlers
  that call `invalidateAuth`. It
  composes what `TTLCache` has for one cache with the decision of the handler;
  each cache holds one entry here, which leaves eviction to `TTLCache`.
- `OAuth` with `MCOAuth` and `OAuthProofs`: codes and refresh tokens under
  concurrent exchanges and the account handlers that end them. It uses
  `AuthRequest`, the pure rules for redirect URIs and PKCE, and implements
  `Grants`, what the endpoints promise of an authorization.
- `UsageLog` with `MCUsageLog` and `UsageLogProofs`: the buffered request log
  from `LogUsage` to the table, and its shutdown. It implements `LossyLog`, what
  the log promises of an event: accepted, refused or ignored, then logged or
  given up, each at most once; one that finds no room or cannot be written is
  counted.
- `Accounts` with `AccountsProofs`: the users table under setup, registration, the
  user API, the admin page, self-deletion and restarts.
- `Sessions` with `MCSessions` and `SessionsProofs`: one user's cookies, password
  and `sessions_valid_after`.
- `MCAccounts`: the instances of these two, which share no column; a behaviour is
  one of one of them (`about`).
- `ApiTokens` with `ApiTokensProofs`: personal access tokens, created under their
  limit, renamed and revoked.
- `Stats` and `Routes`, with `PagesProofs`: the usage pages and their exports; the
  pages that list routes.
- `MCPages`: the instances of the last three, which share no state. A behaviour is
  one of one of them (`page`), so that their states do not multiply.

`PROJECT.json` gives the source lines of every definition. The correspondence in
short:

**TTLCache.** `m` is the Go map, `Hit` and `Miss` the first critical section of
`Get`, `Load`/`LoadFails` the loader, `Store` the second critical section, with
`Insert` emptying the full map. `Write` and then `Clear` are any handler that
commits and calls `invalidateAuth`; `Abandon` one that returns without. A row is
its version; time is the age of an entry. `settled`, `floor` and `clean` are
history: what was invalidated before a Get was called, and whether a Clear has
come since a value was read.

**Verify.** A row is the set of facts the handler tests. Each request goes
through the caches in the order of the code, with the same four steps for each
Get; `After` is the decision. A `desktop` request is the authorization of a public
client with the browser's cookie: `cookieIdentity` first, then the user's row
(`ReadRow`). The handlers are those that call `invalidateAuth`, with what each
does to the rows:

| action | handler | call |
|---|---|---|
| `SetUserApproved`, `DeleteUserData`, `AdminActionFails` | approve, revoke, reject and delete of the admin page, which clears also when its write failed | `admin.go:360` |
| `ReadUser`, `UpdateUser`, `UpdateUserFails` | `PUT /api/admin/users/{id}`: the row is read, and later saved whole over what others wrote, or inserted again | `admin.go:80` |
| `DeleteUserData` | `DELETE /api/admin/users/{id}`; `/account/delete` | `admin.go:102`, `account.go:162` |
| `SetPassword`, `BumpAfterPassword` | `/account/password`; when `BumpSessions` fails nothing is cleared (`abandoned`) | `account.go:100` |
| `BumpSessions` | `/account/logout-all` | `account.go:120` |
| `CreateAPIToken` | the token may have been asked for before, and be cached as "not found" | `account.go:302` |
| `RenameAPIToken` | clears, and changes nothing that is tested | `account.go:355` |
| `RevokeAPIToken` | | `account.go:373` |
| `SetRoutePolicy` | public, login or delete | `routes.go:196` |

`Clear` clears users, tokens and policies one after the other. `steady` and
`offline` are history of one request: nothing changed while it ran; the database
was down and nothing was cached. `Undisturbed` does not ask for the database to be
up: an outage leaves rows and entries as they are, and `blind` has the stops where
a request found neither. `dirty` is a cache that a change has made stale, `Owed` says
whether the handler of a change has yet to clear it; a handler that forgot to
clear would owe nothing, and `SteadyAnswersFollowRows` would fail. After an
abandoned password change the cache of users counts as out of date until the next
Clear of it; that it does not stay so is `FreshEntriesConverge`, in `TTLCache`.

**OAuth.** One step per query. `pc`, `src`, `usr`, `cli`, `form` are the local
variables of a request, read earlier and possibly out of date. A form is a
redirect URI and a PKCE value; `AuthRequest` has what `authorize` asks of it and
what `token` asks of the form that comes with the code, as the helpers compare
them: by parts, with any port for a loopback URI, with the URI as a whole for a
public client. A challenge is its verifier under an injective `S256`, or that of
no known verifier. `expires_at` is kept as before, at, or past its second,
because the code compares it in two ways. `parent`, `root`, `lost`, `before`,
`open`, `late` are history. A crash of the process is every request failing,
because nothing else is in memory. `GrantOf` is the refinement mapping to
`Grants`: an authorization is held while one of its tokens lives or a request
has spent one and is about to create the next, and over when neither is so.

**UsageLog.** `readers` is the read lock, `closer` is `CloseUsage` in `main`,
with the waiting writer holding up new readers as Go's `RWMutex` does.
`flusher`, `batch` and `final` are the locals of `flushLoop`; `Insert`,
`InsertFails` and `TouchTokens` are `writeUsage`, during which requests go on
logging. `sent` and `written` are history. `Reboot` is a crash or a restart at
any moment. `FateOf` is the refinement mapping to `LossyLog`: an event is named by
its time, is pending in the channel or in a batch not yet inserted, and logged
when it is a row. An insert that fails is taken to have inserted nothing; a commit
whose acknowledgement was lost is not modelled.

**Accounts.** One step per query; between two of them `pc`, `who`, `target`,
`sawAdmin` and `sawApproved` are what the handler keeps in local variables. The
page and `/account` check the caller's row (`SessionAdmin`, `PostUser`), the user
API the role in the JWT (`jwts`), which a demotion does not change. JWTs come from
a login or a refresh, which ask for the user's approval, and from the exchange of
a code (`codes`), which does not. `POST /api/admin/users` asks for any valid JWT,
although `src/main.go:82` calls it admin only: `AdminUsers` takes whichever there
is. `registered` and `blessed` are history: who came in through `/register`, and
whom `/setup` or a request with the admin role created, approved or promoted; what
a user of the other role creates is not blessed, nor is a row written back.
`UpdateUser` is gorm's `Save`: all columns, and an insert if the row is gone.
`overtaken` is history: the requests after whose last read another request wrote
the table.

**Stats.** A page is nine queries in the order of `handler/stats.go`: the tiles of
24 hours, 7 and 30 days, the total, the chart, the tables by host, by token and
(for an admin) by user, the recent rows. `num` is what they returned; `asked` is
the `time.Now()` all their windows start from. Time is in minutes, and a day of
the chart starts `Offset` before a day of the clock, as in Bangkok. Rows are
inserted with stamps that lag, as the usage log writes them, and are deleted with
their user. `turned` and `more` are the pages a reader has followed; `missing` is
history, the rows they have yet to see. An export is one query whose rows are
streamed; `marked` is the failure line it ends with when the query failed in
between.

**Routes.** A route is its host, a number by its place in order. The arrays are
Go's: the cache and visitors hold references to them, and one that nothing holds
is free again (`Keep` is the collector). `sort.Slice` on lists of at most 12 is
insertion sort, and `Compare`, `Copy`, `Put` are its steps: an exchange copies an
element to a temporary place, the other over it, and the temporary one back. The
comparison and the first copy are one step: another visitor's exchange between the
two is left out, one after the copy is not, and either makes the page raced.
Elements are copied whole: an element torn in its fields, which Go's memory model
also allows, is left out, so `ListsEveryRoute` fails here by whole routes lost
or shown twice. `torn` and `raced` are history: arrays that two visitors
exchanged elements in, and visitors whose use of a list overlapped another one's
exchange. Longer lists are sorted by quicksort, with more exchanges.

**ApiTokens.** `CountActive` and `CreateAPIToken` are the two queries of
`createToken`, `RevokeAPIToken` and `CreateSystemLog` those of `TokenRevoke`: an
`UPDATE` whose row count decides `found`, and the entry in the log, whose error is
ignored and which a stopped process does not write. `found` counts the first,
`logged` the second, as history. The comment at `account.go:284`
knows that two parallel creates can reach 51 tokens where `src/README.md:118`
says 50; `LimitWithinRaces` is what holds for any number of them. Approval of
the caller is not asked for here, which only adds behaviours.

**Sessions.** A cookie is `signedIn`, its `iat`, and, as history, the password it
was given for. The clock counts whole seconds. The time bcrypt takes is a step
between the read of a row and the write, or the cookie, that follows; a change
takes its `stamp` before it writes. `SetPassword` and `BumpSessions` are two
queries that both write the stamp. `outdated` is what `overtaken` is in `Accounts`.

## Runs

All bounds are constants in the `.cfg` files.

| run | bounds | what it shows |
|---|---|---|
| `cache` | 2 keys, 2 Gets, 1 mutator, capacity 1, TTL 2, 1 change per row | capacity holds; a value no Clear has overtaken is never out of date; after the last change, servable entries become and stay current |
| `cache_immediate` | 1 key, 2 Gets, 1 mutator, 1 change | **violated**: invalidation does not always take effect at once |
| `verify` | a browser with or without its cookie, and one of: a token at the same time; a second handler; outages (`beside`); 1 write per handler | an undisturbed request, also in an outage, is answered as the committed rows demand of what it could read; the answers with nothing to go by |
| `oauth_exchange` | 1 code, 2 refresh tokens, 1 user, a public and a confidential client, 5 forms, 2 requests | the five invariants of an authorization's line; whatever `authorize` accepts can be redeemed; one more token at most after an approval is revoked; `Grants` is implemented |
| `oauth_bump` | the same | **violated**: a password change leaves no live token of an older authorization |
| `usage` | 2 requests, 1 user, buffer 1, batch 2, 3 events | conservation of events, no send on a closed channel, shutdown that ends, truthful `last_used_at`, no event left in memory; `LossyLog` is implemented, so that shutdown is complete and an event is logged once |
| `usage_deleted` | 1 request, 1 user, 2 events | **violated**: a deleted user's request log stays deleted |
| `accounts` | 2 ids, 2 requests; or 2 browsers, 1 editor, 1 second, 2 new passwords | the last approved admin goes only to a race or the user API; removals come back only by an overtaken PUT, an approval or a restart; who registered waits for an admin; `/setup` and the admin page keep their own rules but for races. Changes of sessions and passwords are taken back only by overtaken requests; a new cookie is accepted |
| `accounts_create` | 3 ids, 1 request | **violated**: only `/setup` and admins create approved accounts |
| `pages` | tokens: 3 of them, 2 users, 2 requests, limit 1; usage: 2 kinds of rows, 3 views, 3 rows, 2 minutes; routes: 3 hosts, 2 arrays, 2 visitors | the limit is exceeded by at most one, a revocation is found once and logged once at most; the numbers of a page fit, paging skips no row, an export is whole or says it is not; a page is right unless raced, and lists in order stay |
| `routes_listed` | the same | **violated**: `/admin/routes` lists every route |
| `sessions_password` | 2 browsers, 1 editor, 1 second, 2 new passwords | **violated**: a password change signs out all other browsers |

Why the bounds are enough for what they check. A stale store needs one load in
flight and one change; the second Get reads what the first stored. Two keys and
capacity one make every second store meet a full map. A cookie and a token meet in
the users' cache and use the other two; a PUT that saves over another change, or a
Clear that ends another handler's, takes two handlers, and an outage works on each
of them in the same way, so that the three are not needed together (4.5 million
states; the proof has them together). Two requests are the race for a code or a
token, and the second refresh token is a rotation, whose claim races again. Two
clients tell the right one from the wrong one, and the public from the
confidential; the forms differ in port, method, verifier and whether there is one.
A buffer of one is full at once, a batch of two fills by events as well as by the
ticker, and with three events the buffer, the batch and a waiting request each
hold one. Two users are the last admin and another one who removes him, or who is
removed. The third id of `accounts_create` is the account that the second creates,
whom the first created. With a limit of one, both creates of a race find room, and
a third token is there for a revocation between. On a usage page three rows of two
kinds fill three pages of one row (`PageSize`), and a table of two groups is full
(`GroupLimit`, for the code's 50 and 100); spans of 2, 4 and 6 minutes with rows
lagging by 0 or 2 put rows on both sides of every edge while the clock moves one
minute; days of 2 minutes offset by 1 start inside a window, and the longest view
has five of them against `MaxBars` 4. Three hosts are the shortest list in which
an exchange is neither the first nor the last; two arrays are an old list and its
successor. One tick of the clock tells the second of a change from the one before
it. The proofs cover the other sizes for the safety properties (and, for the usage
log, more users).

Deadlock is checked except where a finite stock (codes and tokens in `OAuth`,
ids in `ApiTokens`, rows and minutes in `Stats`, see the `.cfg` files) runs out
and the model then stops; the service draws new ones.

**Fairness.** `TTLCache!Fairness`: the clock runs, and a Get that has loaded
goes on to store (it waits for a mutex held for a few instructions). Loads may
hang for ever and rows need not stop changing by fairness: the bound
`MaxVersion` stops them. `UsageLog!Fairness`: each goroutine that can take a
step takes one, the ticker fires, and a write ends in success or failure
(it has a timeout of ten seconds, `usage.go:99`). Weak fairness is enough for
`Receive`: a tick that flushes needs an event received since the one before.
Nothing obliges a request to come, a query to succeed, or `main` to shut down.

### What the violated runs mean

- `cache_immediate`: a load that read the row before the change stores it after
  `Clear`; until it is 30 seconds old it is served. `verify.go:94-95` and
  `src/README.md:76` say the change takes effect immediately.
- `oauth_bump`: `BumpSessions` revokes the tokens there are. A code not yet
  exchanged, or an exchange past its claim, still yields a live token.
  `BumpEndsTheRest` is what does hold, and is proved.
- `usage_deleted`: events in the channel or the batch are written after
  `DeleteUserData`, contrary to `src/README.md:78,103`.
- `sessions_password`: a login compares the old password, the password is
  changed, and the login then issues a cookie of that later moment; or all of
  it happens within one second (`src/README.md:100`, `account.go:39`).
- `accounts_create`: an admin creates a user, who signs in and creates an approved
  account with `POST /api/admin/users`; it may be an admin's. `src/main.go:82`,
  `user.go:297` and `src/README.md:70` say that only admins do.
  `RegistrationWaits` is what does hold, and is proved.
- `routes_listed`: `routesCache.Get` hands out the slice it holds, and
  `routes.go:95` and `ui.go:239` sort it in place. While two requests of the
  minute after a load sort it, a page can show one route twice and another not at
  all, with that one's policy as stale and a button to delete it
  (`src/README.md:89,91`). The write is a data race in Go's terms too.
  `RightUnlessRaced` and `SortedListsStay` say how far it goes, and are proved:
  only such pages are wrong, and only until the list is in order once.

`Accounts` shows more of the kind, which its properties name as the exceptions
to what holds: a request that was overtaken, or a caller who is no longer
approved. The excepted behaviours are there:

- Two page requests, or a page request and a self-deletion, count the admins
  before either removes one, and none is left (`LastAdminGoesByRace`;
  `src/README.md:74,103` refuse the last approved admin). The user API does not
  count at all.
- A `PUT` that had read the row saves it after the account was deleted, and so
  creates it again (`NothingComesBack`; `account.go:54` calls deletion
  permanent), or approves again who was revoked meanwhile.
- Two setups both count no users and create an admin each (`SetupOnce`;
  `setup.go:17`).
- An admin whom another revokes between `sessionAdmin` and `ListUsers` of his
  own request is pending when `checkAdminAction` looks, and may reject, that is
  delete, himself (`PageSparesCaller`; `src/README.md:74`).

## Proofs

Checked by TLAPS with SMT, Zenon and LS4, for all values of the constants under
the assumptions named in the modules (`CacheAssumption`: finite keys, positive
TTL and capacity; `OAuthAssumption`: codes and tokens are different values;
`UsageAssumption`: positive buffer and batch; `AccountsAssumption`,
`ApiTokensAssumption`: finite ids and, for tokens, requests, a limit of at least
one; `SessionsAssumption`: browsers and editors are different requests;
`VerifyAssumption`: the types of its parameters; `StatsAssumption`,
`ViewsAssumption`: spans in order, positive lengths, finitely many kinds of rows,
queries as `parseWindow` takes them; `RoutesAssumption`: hosts and arrays are
positive numbers, finitely many hosts).

- `TTLCacheProofs`: types; `WithinCapacity`, from what `Insert` does to the
  cardinality of the map's domain (`InsertCapacity`, by the library's facts on
  finite sets); `CleanValuesCurrent`, strengthened by what a request holds
  between its load and its store. With `NotAhead` (no value is newer than its row)
  it gives `OnlyOvertakenDiffer`: when every change of a row is invalidated, only a
  load in flight over a `Clear` makes its entry differ. `StaleEntriesRunOut` is the
  safe half of `FreshEntriesConverge`: while rows do not change, a hit renews
  nothing, no more requests fall behind, and an outdated entry is replaced by
  another only by one that was behind already.
- `VerifyProofs`: types, with `Single`: a cache has at most one entry for its key.
  `SteadyAnswersFollowRows` from `DirtyIsOwed` (a cache that a change made stale
  will be cleared by the handler of a change, or was abandoned: here every handler
  has to call `invalidateAuth`), `CleanIsCurrent` (what no Clear has overtaken is
  what the row is, unless the cache is stale) and `SteadyOnItsWay` (an undisturbed
  request got to its present stop by answers the rows demanded of what it could
  read). `OfflineAnswers` from `OfflineAtItsFirst`: who met nothing but the outage
  has not got past its first stop.
- `OAuthProofs`: one inductive invariant, `LineInv`. No property is inductive
  alone: two exchanges of a code are excluded because a request that holds a line
  has spent its source and nothing descends from it yet (`Spent`), two requests
  cannot hold one line (`OneHolder`), and every token goes back to a used code
  through spent parents (`Descent`). From it: `ExchangedOnce`,
  `OneLiveTokenPerLine`, `BoundToAuthorization`; and on top of it
  `NoLineVanishes`, `BumpEndsTheRest` (strengthened to `BumpInv`),
  `RevokedUserGetsOneMore` (`LateInv`: no request holds a line that has its late
  token), `CodesAreRedeemable` (`FormInv`: every code carries a form that
  `authorize` accepted) and the action properties `SpentStaysSpent` and
  `GrantsMoveOn` (an authorization that is over stays so), which no run repeats.
  `GrantsImplemented` is the refinement of `Grants`: the proof maps each action to
  a step of it (`Simulated`) or shows that it changes no grant.
- `UsageLogProofs`: `TypeOK` with the bounds of buffer and batch (inductive
  with `Room`: the flusher never waits with a full batch); `NeverPanics` from
  `LockInv`: who is about to send holds the read lock and saw the channel open,
  and `CloseUsage` closes it only after it had the write lock; from that
  `ClosedMeansFlushed` by `Drained`; `Accounted` by counting; `LastUsedIsLogged`
  with `BatchIsLogged`. `LogImplemented` is the refinement of `LossyLog`. It needs
  `Once`: an event is in the hands of one request, in the channel, in the batch or
  in the table, and in one place of it; only then does moving a batch move the
  fates of just its events, and does `Len(batch)` count them. `EventsMoveOn` follows:
  none is logged twice, after a failure, a deletion or a restart. Two theorems are
  the safe halves of liveness. `ShutdownEnds`: while `CloseUsage` runs a step is
  there to take, nothing raises the number `Work`, and each step of a holder of
  the lock, of the flusher or of `CloseUsage` lowers it. `EventsLeaveInTurn`: the
  flusher does not end with an event in memory, nothing overtakes an event, and
  each of its steps lowers the event's `Delay`, but for those that receive into
  its batch.
- `AccountsProofs`: `LastAdminGoesByRace` and `NothingComesBack` from one
  invariant, `Checked`: what a request concluded from its last read holds as
  long as it is not overtaken. It is inductive because every write overtakes all
  other requests. `RegistrationWaits` needs `Remembered`: a request that saw a
  registered target as an admin or approved, and may write that back, saw a blessed
  one.
  `SetupOnce` and `PageSparesCaller` follow from `Checked` and from the
  comparison with the caller that `revoke` and `delete` have passed.
- `PagesProofs`: `PagesSpec`, which TLC checks, takes steps of one component and
  leaves the others, so it implements each of the three (`PagesImplement`); their
  types (`PagesTypeOK`) and properties (`PagesHold`) carry over. For `Stats`:
  `PageAddsUp` because rows are only inserted unless a user is deleted, so a
  number counted earlier is at most what the same query would count now
  (`Counts`), and because the windows and days nest. `PagingSkipsNothing` from
  `Behind`: a row not yet seen has at least as many rows before it as were turned,
  since windows only move forward. `ExportIsWholeOrMarked` from `Unsent`. For
  `Routes`: `SortedListsStay` follows from types and from where a sort may stand
  (`PlaceOK`); `RightUnlessRaced` needs `Lists`: an array no two have sorted at
  once is an order of what was loaded, but for the element in the hands of its
  sorter, and insertion sort has its usual invariant on it (`NextRow`, `NextCol`).
- `ApiTokensProofs`: a bound on the active tokens is not inductive, as a request
  that has counted may insert later. `Reserved` adds those requests to the
  count: together they stay within the limit plus the requests less one.
  `RevokedOnce` adds to the entries the requests that are about to write one.
  `OnlyTheOwnerEnds`, which no run repeats: a token ends by its age, its owner's
  request or its owner's deletion.
- `SessionsProofs`: `NewCookieIsAccepted` from the order of the times in
  `TypeOK`; `ChangesStay` from `UpToDate`: a request that no write overtook has a
  stamp not before `sessions_valid_after`, or the row as it is.

Every invariant, action property and refinement of the passing runs has a
theorem. Only model-checked is liveness (`FreshEntriesConverge`,
`CloseUsageReturns`, `EventsLeave`), which needs fairness and `ENABLED` and is out
of this prover's reach; what each rests on besides is proved, as above.

## Not modelled

HTML, CSV and MCP text, cookies' encoding, password hashing, signatures and random
values; login forms and where they redirect to; CORS and method checks; the
connection to the database and its schema (it either is there at boot or the
process ends). Hosts of redirect URIs that differ only in case, which `EqualFold`
takes for equal, are left out. Access tokens are signed and kept nowhere, so their
remaining lifetime after a revocation is a matter of the signature alone. The
system log is written and shown, and decides nothing. A page number too large for
the database is an error page nobody is linked to.

## Plan

Done: `TTLCache`, `Verify`, `OAuth`, `UsageLog`, `Accounts`, `ApiTokens`,
`Sessions`, `Stats`, `Routes` (in this order: what decides who may pass, what
issues credentials, what records them, the rows behind all of it, and the pages
that read them); their safety proofs; `Grants` as the abstraction of `OAuth`
and `LossyLog` as that of `UsageLog`, with proofs that they are implemented.

Next, in order:

1. An abstract specification of the cache, a register that may be read late,
   which `TTLCache` and each cache of `Verify` implement.
2. Redirect targets after a login (`safeRedirect`, `rawRD`) against a reference
   definition.
3. Liveness of a revoked user's and a revoked token's last accepted request in
   `Verify`, under the fairness of `TTLCache`.
4. `Routes` with lists longer than twelve, that is quicksort, and with elements
   that are torn in their fields.
