-------------------------------- MODULE Stats --------------------------------
(***************************************************************************)
(* The usage pages and their CSV exports: internal/handler/stats.go over   *)
(* the request_logs queries of internal/store/store.go:277-386.            *)
(*                                                                         *)
(* A page is nine queries, one after the other, for windows fixed when it  *)
(* was asked for; an export is one query whose rows are streamed.  Rows    *)
(* are inserted meanwhile, with the stamps of earlier requests, and go     *)
(* with their user.  One viewer is enough: viewers only read.              *)
(*                                                                         *)
(* Time is counted in minutes and starts at 0; a day of the pages, in      *)
(* Bangkok, is DayLen of them and starts Offset before one of the clock's. *)
(***************************************************************************)
EXTENDS Integers, FiniteSets, Sequences

CONSTANTS
  Kinds,       \* bound: the [user, host, cred] that rows have
  Views,       \* bound: the [admin, query, users, hosts] that are asked for
  DayLen, Offset,
  Spans,       \* the presets 24h, 7d and 30d
  Grace,       \* how far past now a preset reaches, a minute
  PageSize,    \* logsPerPage, 50
  MaxBars,     \* the bars of a chart, 400
  GroupLimit,  \* the groups of a table, 50 or 100
  Horizon,     \* bound: the last minute of a run
  Lags,        \* bound: how long a row waits in memory
  MaxRows      \* bound: the rows that are inserted

ASSUME StatsAssumption ==
  /\ Spans \in [1..3 -> Nat] /\ Spans[1] <= Spans[2] /\ Spans[2] <= Spans[3]
  /\ PageSize \in Nat \ {0} /\ Grace \in Nat \ {0} /\ DayLen \in Nat \ {0} /\ Offset \in Nat
  /\ MaxBars \in Nat /\ GroupLimit \in Nat /\ IsFiniteSet(Kinds)
  /\ Horizon \in Nat /\ MaxRows \in Nat /\ Lags \subseteq Nat

ASSUME ViewsAssumption ==
  \A v \in Views : v.query \in Seq(Int) /\ (Len(v.query) = 1 => v.query[1] \in 1..3)

VARIABLES
  rows,     \* request_logs: [id, at, kind]
  nextId,   \* the sequence behind id
  now,
  step,     \* 0, the number of the next query of a page, or a step of an export
  view,     \* what was asked for
  asked,    \* when: time.Now() of the request
  num,      \* the numbers of the page under way, in the order of the queries
  turned,   \* pages of recent requests seen in a row, from the first
  more,     \* whether the last of them has a link to older ones
  left,     \* rows of an export that are still to come
  export,   \* "none", "open", "whole" or "marked" (as failed)
  missing,  \* history: rows that were there for the first page or the export to
            \* show, and that were not shown yet
  cut       \* history: rows were deleted since then

dbVars == <<rows, nextId, now>>
pageVars == <<num, turned, more>>
exportVars == <<left, export>>
askVars == <<view, asked>>
history == <<missing, cut>>
statsVars == <<dbVars, step, askVars, pageVars, exportVars, history>>

TheRows == [id : 1..MaxRows, at : {t - lag : t \in 0..Horizon, lag \in Lags}, kind : Kinds]

NumbersOK == num \in Seq(Nat) /\ Len(num) = IF step \in 1..9 THEN step - 1 ELSE 0

StatsTypeOK ==
  /\ rows \subseteq TheRows /\ nextId \in 1..(MaxRows + 1)
  /\ \A r \in rows : r.id < nextId /\ r.at <= now
  /\ now \in 0..Horizon
  /\ step \in 0..11
  /\ view \in Views /\ asked \in 0..now
  /\ NumbersOK
  /\ turned \in Nat /\ more \in BOOLEAN
  /\ left \subseteq TheRows /\ missing \subseteq TheRows
  /\ export \in {"none", "open", "whole", "marked"}
  /\ cut \in BOOLEAN

StatsInit ==
  /\ rows = {} /\ nextId = 1 /\ now = 0
  /\ step = 0 /\ view \in Views /\ asked = 0
  /\ num = <<>> /\ turned = 0 /\ more = FALSE
  /\ left = {} /\ export = "none"
  /\ missing = {} /\ cut = FALSE

-----------------------------------------------------------------------------
Preset(i, at) == [from |-> at - Spans[i], to |-> at + Grace]

(* from and to, if both are days in order, else the preset of range, else  *)
(* a week.  query is <<from, to>>, <<range>> or <<>>.                      *)
parseWindow(query, at) ==
  CASE Len(query) = 2 /\ query[1] <= query[2] ->
         [from |-> query[1] * DayLen - Offset, to |-> (query[2] + 1) * DayLen - Offset]
    [] Len(query) = 1 -> Preset(query[1], at)
    [] OTHER -> Preset(2, at)

(* The rows of a window, of the users and hosts asked for.                 *)
logs(rs, w, users, hosts) ==
  {r \in rs : /\ w.from <= r.at /\ r.at < w.to
              /\ r.kind.user \in users /\ r.kind.host \in hosts}

AnyHost == {k.host : k \in Kinds}

Window == parseWindow(view.query, asked)

(* What the tables count: the filter by host is for the recent rows only.  *)
Counted(w) == logs(rows, w, view.users, AnyHost)

Newer(r, s) == r.at > s.at \/ (r.at = s.at /\ r.id > s.id)

Rank(r, rs) == Cardinality({s \in rs : Newer(s, r)})

(* Mutant of the next: the oldest row comes first.                         *)
OldestFirst(rs, offset) ==
  {r \in rs : Cardinality({s \in rs : Newer(r, s)}) \in offset..(offset + PageSize - 1)}

(* ORDER BY ts DESC, id DESC with an offset, cut to one page.              *)
RecentLogs(rs, offset) ==
  {r \in rs : Rank(r, rs) \in offset..(offset + PageSize - 1)}

Day(t) == (t + Offset) \div DayLen

(* Mutant of the next: the first bar is not moved to the start of its day. *)
BarsFrom(w) ==
  {Day(w.from + i * DayLen) : i \in {j \in 0..(MaxBars - 1) : w.from + j * DayLen < w.to}}

(* The days with a bar: from that of the window's start, MaxBars at most.  *)
Bars(w) == {d \in Day(w.from)..(Day(w.from) + MaxBars - 1) : d * DayLen - Offset < w.to}

(* The bars of a chart together.                                           *)
Charted(rs, w) == Cardinality({r \in rs : Day(r.at) \in Bars(w)})

(* The rows in the groups of a table, the largest GroupLimit of them.      *)
Grouped(rs, by) ==
  LET n(g) == Cardinality({r \in rs : r.kind[by] = g})
      groups == {r.kind[by] : r \in rs}
      top == CHOOSE gs \in SUBSET groups :
               /\ Cardinality(gs) = IF Cardinality(groups) <= GroupLimit
                                    THEN Cardinality(groups) ELSE GroupLimit
               /\ \A g \in gs, h \in groups \ gs : n(g) >= n(h)
  IN  Cardinality({r \in rs : r.kind[by] \in top})

-----------------------------------------------------------------------------
Asked(v) == logs(rows, parseWindow(v.query, now), v.users, v.hosts)

(* renderStats for the first page of a view: the clock is read once.       *)
OpenStats(v) ==
  /\ step = 0
  /\ step' = 1
  /\ view' = v /\ asked' = now
  /\ num' = <<>> /\ turned' = 0 /\ more' = FALSE
  /\ left' = {} /\ export' = "none"
  /\ missing' = Asked(v) /\ cut' = FALSE
  /\ UNCHANGED dbVars

(* The link to older rows: the same query, the next page.                  *)
TurnPage ==
  /\ step = 0 /\ more
  /\ step' = 1
  /\ asked' = now
  /\ num' = <<>>
  /\ UNCHANGED <<dbVars, view, turned, more, exportVars, history>>

Show(n) ==
  /\ num' = Append(num, n)
  /\ step' = step + 1
  /\ UNCHANGED <<dbVars, askVars, turned, more, exportVars, history>>

Tile(i) == [from |-> asked - Spans[i], to |-> asked + Grace]

CountTile == step \in 1..3 /\ Show(Cardinality(Counted(Tile(step))))

CountTotal == step = 4 /\ Show(Cardinality(Counted(Window)))

DailyCounts == step = 5 /\ Show(Charted(Counted(Window), Window))

(* By host, by token and, for an admin, by user.                           *)
CountBy ==
  /\ step \in 6..8 /\ (step = 8 => view.admin)
  /\ Show(Grouped(Counted(Window), <<"host", "cred", "user">>[step - 5]))

(* The last query and the page; a row too many makes the link.             *)
ShowRecent ==
  /\ step = IF view.admin THEN 9 ELSE 8
  /\ LET rs == logs(rows, Window, view.users, view.hosts)
         offset == turned * PageSize
     IN  /\ missing' = missing \ RecentLogs(rs, offset)
         /\ more' = (Cardinality(rs) > offset + PageSize)
  /\ turned' = turned + 1
  /\ step' = 0
  /\ num' = <<>>
  /\ UNCHANGED <<dbVars, askVars, exportVars, cut>>

(* A query of the page fails: nothing is shown.                            *)
FailStats ==
  /\ step \in 1..9
  /\ step' = 0
  /\ num' = <<>>
  /\ UNCHANGED <<dbVars, askVars, turned, more, exportVars, history>>

-----------------------------------------------------------------------------
(* writeCSV: the headers are sent ...                                      *)
AskCSV(v) ==
  /\ step = 0
  /\ step' = 10
  /\ view' = v /\ asked' = now
  /\ num' = <<>> /\ turned' = 0 /\ more' = FALSE
  /\ left' = {} /\ export' = "open"
  /\ missing' = Asked(v) /\ cut' = FALSE
  /\ UNCHANGED dbVars

(* ... EachLog: one statement sees the rows of one moment ...              *)
EachLog ==
  /\ step = 10
  /\ left' = logs(rows, Window, view.users, view.hosts)
  /\ step' = 11
  /\ UNCHANGED <<dbVars, askVars, pageVars, export, history>>

(* ... which are sent newest first.                                        *)
SendRow ==
  /\ step = 11 /\ left # {}
  /\ \E r \in left :
       /\ \A s \in left \ {r} : Newer(r, s)
       /\ left' = left \ {r} /\ missing' = missing \ {r}
  /\ UNCHANGED <<dbVars, step, askVars, pageVars, export, cut>>

EndCSV ==
  /\ step = 11 /\ left = {}
  /\ step' = 0 /\ export' = "whole"
  /\ UNCHANGED <<dbVars, askVars, pageVars, left, history>>

(* Mutant of the next: the error that ended the rows is not asked for.     *)
BreakUnmarked ==
  /\ step \in 10..11
  /\ step' = 0 /\ export' = "whole"
  /\ UNCHANGED <<dbVars, askVars, pageVars, left, history>>

(* The query or the connection fails under way: a line says so.            *)
Break ==
  /\ step \in 10..11
  /\ step' = 0 /\ export' = "marked"
  /\ UNCHANGED <<dbVars, askVars, pageVars, left, history>>

-----------------------------------------------------------------------------
Stamp(lag) == now - lag

(* writeUsage inserts a row, stamped when its request came.                *)
InsertRow(k, lag) ==
  /\ nextId <= MaxRows
  /\ rows' = rows \cup {[id |-> nextId, at |-> Stamp(lag), kind |-> k]}
  /\ nextId' = nextId + 1
  /\ UNCHANGED <<now, step, askVars, pageVars, exportVars, history>>

(* DeleteUserData.                                                         *)
DeleteRows(u) ==
  /\ \E r \in rows : r.kind.user = u
  /\ rows' = {r \in rows : r.kind.user # u}
  /\ cut' = TRUE /\ missing' = {}
  /\ UNCHANGED <<nextId, now, step, askVars, pageVars, exportVars>>

StatsTick ==
  /\ now < Horizon
  /\ now' = now + 1
  /\ UNCHANGED <<rows, nextId, step, askVars, pageVars, exportVars, history>>

Render == CountTile \/ CountTotal \/ DailyCounts \/ CountBy \/ ShowRecent \/ FailStats

WriteCSV == EachLog \/ SendRow \/ EndCSV \/ Break

StatsNext ==
  \/ \E v \in Views : OpenStats(v) \/ AskCSV(v)
  \/ TurnPage \/ Render
  \/ WriteCSV
  \/ \E k \in Kinds, lag \in Lags : InsertRow(k, lag)
  \/ \E k \in Kinds : DeleteRows(k.user)
  \/ StatsTick

StatsSpec == StatsInit /\ [][StatsNext]_statsVars

-----------------------------------------------------------------------------
(* The numbers of a page are of different moments and still go together,   *)
(* unless a user was deleted: a tile is at most the next one and, for its  *)
(* preset, at most the total (stats.go:105-131).                           *)
TilesNest ==
  ~cut => \A i \in 1..3, j \in DOMAIN num :
    \/ i < j /\ j <= 3
    \/ i < j /\ j = 4 /\ Window = Preset(i, asked)
    => num[i] <= num[j]

(* No row that a total counts is missing from the chart and the tables     *)
(* below it, unless the range has more days than bars, there are more      *)
(* groups than a table shows, or a user was deleted (stats.go:132-153,     *)
(* 243-272).                                                               *)
TablesCoverTotal ==
  ~cut /\ Len(num) >= 4 =>
    /\ Len(num) >= 5 /\ (Day(Window.to - 1) - Day(Window.from) < MaxBars) => num[4] <= num[5]
    /\ \A i \in 6..Len(num) :
         Cardinality({k[<<"host", "cred", "user">>[i - 5]] : k \in Kinds}) <= GroupLimit =>
           num[4] <= num[i]

(* Both, for all the numbers of a page.                                    *)
PageAddsUp == TilesNest /\ TablesCoverTotal

(* Who follows "Older" to the last page has seen every row that was there  *)
(* at the start and is still in the window, however many are inserted or   *)
(* leave the window meanwhile: rows only move to later pages.  A deleted   *)
(* user's rows move others to earlier ones (stats.go:155-168,              *)
(* store.go:355-368).                                                      *)
PagingSkipsNothing ==
  turned > 0 /\ ~more /\ ~cut =>
    logs(missing, Window, view.users, view.hosts) = {}

(* An export that does not say it failed has every row that was there when *)
(* it was asked for (stats.go:404-426, store.go:371-386).                  *)
ExportIsWholeOrMarked ==
  export = "whole" /\ ~cut => logs(missing, Window, view.users, view.hosts) = {}
=============================================================================
