----------------------------- MODULE PagesProofs ----------------------------
(***************************************************************************)
(* Proofs about Stats for any rows, any views, any length of a page and of *)
(* a day, and about Routes for any hosts and any number of visitors.       *)
(*                                                                         *)
(* Behind says what a reader who turns pages has not missed: a row they    *)
(* have yet to see comes after as many rows as they have turned.  It holds *)
(* because the window only moves forward and rows are only inserted.       *)
(* Counts says that a number on the page is at most what a query would     *)
(* count now.                                                              *)
(*                                                                         *)
(* Lists says how far a visitor's insertion sort is, and that an array no  *)
(* two visitors have sorted at once is an order of what was loaded but for *)
(* the element that one of them has in hand.                               *)
(*                                                                         *)
(* Last, the instances that MCPages runs side by side: what holds of each  *)
(* component holds of them together.                                       *)
(***************************************************************************)
EXTENDS MCPages, ApiTokensProofs, FiniteSetTheorems, TLAPS

(* The rows asked for, now.                                                *)
Wanted == logs(rows, Window, view.users, view.hosts)

Behind ==
  ~cut => /\ missing \subseteq rows
          /\ \A r \in missing : /\ r.kind.user \in view.users /\ r.kind.host \in view.hosts
                                /\ r.at < Window.to
          /\ \A r \in missing : Window.from <= r.at => Rank(r, Wanted) >= turned * PageSize

(* The rows an export has yet to send have the missing ones among them.    *)
Unsent ==
  step = 11 /\ ~cut => logs(missing, Window, view.users, view.hosts) \subseteq left

Counts ==
  ~cut => \A i \in 1..Len(num) :
    /\ i \in 1..3 => num[i] <= Cardinality(Counted(Tile(i)))
    /\ i = 4 => num[i] <= Cardinality(Counted(Window))

(* There are finitely many rows, and a page is not an export.              *)
Finite ==
  /\ IsFiniteSet(rows)
  /\ more => export = "none"
  /\ step \in 1..9 => export = "none"
  /\ step \in 10..11 => export = "open"

-----------------------------------------------------------------------------
LEMMA RowType ==
  ASSUME NEW r \in TheRows
  PROVE  r.at \in Int /\ r.id \in Nat /\ r.id \in 1..MaxRows /\ r.kind \in Kinds /\ r.at <= Horizon
<1>1. PICK id \in 1..MaxRows, t \in 0..Horizon, lag \in Lags, k \in Kinds :
        r = [id |-> id, at |-> t - lag, kind |-> k]
  BY DEF TheRows
<1>. QED BY <1>1, StatsAssumption

(* A window is two instants; later it is the same or further on.           *)
LEMMA WindowMoves ==
  ASSUME NEW v \in Views, NEW s \in Int, NEW t \in Int, s <= t
  PROVE  /\ parseWindow(v.query, s) \in [from : Int, to : Int]
         /\ parseWindow(v.query, s).from <= parseWindow(v.query, t).from
         /\ parseWindow(v.query, s).to <= parseWindow(v.query, t).to
<1>. DEFINE q == v.query
            p == parseWindow(q, s)
            n == parseWindow(q, t)
<1>1. q \in Seq(Int) /\ (Len(q) = 1 => q[1] \in 1..3)
  BY ViewsAssumption
<1>2. Spans[1] \in Nat /\ Spans[2] \in Nat /\ Spans[3] \in Nat
  BY StatsAssumption
<1>3. Grace \in Nat /\ DayLen \in Nat /\ Offset \in Nat
  BY StatsAssumption
<1>. SUFFICES p \in [from : Int, to : Int] /\ p.from <= n.from /\ p.to <= n.to
  OBVIOUS
<1>. HIDE DEF q
<1>4. CASE Len(q) = 2 /\ q[1] <= q[2]
  <2>1. q[1] \in Int /\ q[2] \in Int
    BY <1>1, <1>4
  <2>2. q[1] * DayLen \in Int /\ (q[2] + 1) * DayLen \in Int
    BY <1>3, <2>1
  <2>3. \A x : parseWindow(q, x) =
          [from |-> q[1] * DayLen - Offset, to |-> (q[2] + 1) * DayLen - Offset]
    BY <1>4 DEF parseWindow
  <2>. QED BY <2>2, <2>3, <1>3
<1>5. CASE Len(q) = 1
  <2>1. \A x : parseWindow(q, x) = [from |-> x - Spans[q[1]], to |-> x + Grace]
    BY <1>5 DEF parseWindow, Preset
  <2>2. Spans[q[1]] \in Nat
    BY <1>1, <1>2, <1>5
  <2>. QED BY <2>1, <2>2, <1>3
<1>6. CASE Len(q) # 1 /\ ~(Len(q) = 2 /\ q[1] <= q[2])
  <2>1. \A x : parseWindow(q, x) = [from |-> x - Spans[2], to |-> x + Grace]
    BY <1>6 DEF parseWindow, Preset
  <2>. QED BY <2>1, <1>2, <1>3
<1>. QED BY <1>4, <1>5, <1>6

LEMMA LogsFinite ==
  ASSUME NEW rs, IsFiniteSet(rs), NEW w, NEW us, NEW hs, NEW ss, rs \subseteq ss
  PROVE  /\ IsFiniteSet(logs(rs, w, us, hs))
         /\ Cardinality(logs(rs, w, us, hs)) \in Nat
         /\ logs(rs, w, us, hs) \subseteq rs
         /\ logs(rs, w, us, hs) \subseteq logs(ss, w, us, hs)
<1>1. logs(rs, w, us, hs) \subseteq rs /\ logs(rs, w, us, hs) \subseteq logs(ss, w, us, hs)
  BY DEF logs
<1>. QED BY <1>1, FS_Subset, FS_CardinalityType

(* As many rows are before one in a list as were in a shorter list, if     *)
(* none of those before it left.                                           *)
LEMMA RankGrows ==
  ASSUME NEW r, NEW rs, NEW ss, IsFiniteSet(ss),
         {s \in rs : Newer(s, r)} \subseteq ss
  PROVE  /\ Rank(r, rs) <= Rank(r, ss)
         /\ Rank(r, rs) \in Nat /\ Rank(r, ss) \in Nat
<1>1. {s \in rs : Newer(s, r)} \subseteq {s \in ss : Newer(s, r)}
  OBVIOUS
<1>2. IsFiniteSet({s \in ss : Newer(s, r)})
  BY FS_Subset
<1>3. IsFiniteSet({s \in rs : Newer(s, r)})
  BY <1>1, <1>2, FS_Subset
<1>. QED BY <1>1, <1>2, <1>3, FS_Subset, FS_CardinalityType DEF Rank

(* A row of a list has fewer rows before it than the list has.             *)
LEMMA RankBelow ==
  ASSUME NEW rs, IsFiniteSet(rs), rs \subseteq TheRows, NEW r \in rs
  PROVE  Rank(r, rs) < Cardinality(rs)
<1>1. r \in TheRows /\ r.at \in Int /\ r.id \in Int
  BY RowType
<1>2. ~Newer(r, r)
  BY <1>1 DEF Newer
<1>3. {s \in rs : Newer(s, r)} \subseteq rs \ {r}
  BY <1>2
<1>4. IsFiniteSet(rs \ {r}) /\ Cardinality(rs \ {r}) = Cardinality(rs) - 1
  BY FS_RemoveElement
<1>5. Rank(r, rs) <= Cardinality(rs \ {r})
  BY <1>3, <1>4, FS_Subset DEF Rank
<1>6. Rank(r, rs) \in Nat /\ Cardinality(rs) \in Nat
  BY RankGrows, FS_CardinalityType
<1>. QED BY <1>4, <1>5, <1>6

LEMMA SubsetCount ==
  ASSUME NEW ss, IsFiniteSet(ss), NEW rs, rs \subseteq ss
  PROVE  /\ IsFiniteSet(rs)
         /\ Cardinality(rs) \in Nat /\ Cardinality(ss) \in Nat
         /\ Cardinality(rs) <= Cardinality(ss)
BY FS_Subset, FS_CardinalityType

LEMMA CountedFinite ==
  ASSUME IsFiniteSet(rows), NEW w
  PROVE  IsFiniteSet(Counted(w)) /\ Cardinality(Counted(w)) \in Nat
BY LogsFinite DEF Counted

LEMMA GroupedBelow ==
  ASSUME NEW rs, IsFiniteSet(rs), NEW by
  PROVE  Grouped(rs, by) \in Nat /\ Grouped(rs, by) <= Cardinality(rs)
<1>1. \E top : Grouped(rs, by) = Cardinality({r \in rs : r.kind[by] \in top})
  BY DEF Grouped
<1>. QED BY <1>1, SubsetCount

-----------------------------------------------------------------------------
(* Every variable keeps its type.                                          *)
LEMMA StatsTypeStep ==
  StatsTypeOK /\ Finite /\ [StatsNext]_statsVars => (StatsTypeOK /\ Finite)'
<1>. DEFINE TypeInv == StatsTypeOK /\ Finite
<1>. SUFFICES ASSUME TypeInv, [StatsNext]_statsVars PROVE TypeInv'
  OBVIOUS
<1>. USE StatsAssumption
     DEF StatsTypeOK, Finite, dbVars, pageVars, exportVars, askVars, history
<1>0. \A rs \in SUBSET TheRows : \A w, us, hs : logs(rs, w, us, hs) \in SUBSET TheRows
  BY DEF logs
<1>1. ASSUME NEW v \in Views, OpenStats(v) \/ AskCSV(v)
      PROVE  TypeInv'
  <2>1. Asked(v) \in SUBSET TheRows
    BY <1>0 DEF Asked
  <2>2. <<>> \in Seq(Nat) /\ Len(<<>>) = 0
    OBVIOUS
  <2>3. CASE OpenStats(v)
    <3>1. NumbersOK'
      BY <2>2, <2>3 DEF OpenStats, NumbersOK
    <3>2. UNCHANGED <<rows, nextId, now>> /\ step' = 1 /\ view' = v /\ asked' = now
      BY <2>3 DEF OpenStats
    <3>3. turned' = 0 /\ left' = {} /\ export' = "none" /\ missing' = Asked(v)
      BY <2>3 DEF OpenStats
    <3>4. more' \in BOOLEAN /\ cut' \in BOOLEAN /\ ~more'
      BY <2>3, Zenon DEF OpenStats
    <3>. QED BY <2>1, <3>1, <3>2, <3>3, <3>4
  <2>4. CASE AskCSV(v)
    <3>1. NumbersOK'
      BY <2>2, <2>4 DEF AskCSV, NumbersOK
    <3>2. UNCHANGED <<rows, nextId, now>> /\ step' = 10 /\ view' = v /\ asked' = now
      BY <2>4 DEF AskCSV
    <3>3. turned' = 0 /\ left' = {} /\ export' = "open" /\ missing' = Asked(v)
      BY <2>4 DEF AskCSV
    <3>4. more' \in BOOLEAN /\ cut' \in BOOLEAN /\ ~more'
      BY <2>4, Zenon DEF AskCSV
    <3>. QED BY <2>1, <3>1, <3>2, <3>3, <3>4
  <2>. QED BY <1>1, <2>3, <2>4
<1>2. CASE TurnPage
  <2>1. NumbersOK'
    BY <1>2 DEF TurnPage, NumbersOK
  <2>. QED BY <1>2, <2>1 DEF TurnPage
<1>3. ASSUME NEW n \in Nat, Show(n), step \in 1..8
      PROVE  TypeInv'
  <2>1. num' \in Seq(Nat) /\ Len(num') = Len(num) + 1
    BY <1>3 DEF Show, NumbersOK
  <2>2. NumbersOK'
    BY <1>3, <2>1 DEF Show, NumbersOK
  <2>. QED BY <2>2, <1>3 DEF Show
<1>4. CASE CountTile \/ CountTotal
  <2>1. \A w : Cardinality(Counted(w)) \in Nat
    BY CountedFinite
  <2>2. CASE CountTile
    <3>1. PICK n \in Nat : Show(n) /\ step \in 1..8
      BY <2>1, <2>2 DEF CountTile
    <3>. QED BY <1>3, <3>1
  <2>3. CASE CountTotal
    BY <1>3, <2>1, <2>3 DEF CountTotal
  <2>. QED BY <1>4, <2>2, <2>3
<1>5. CASE DailyCounts
  <2>1. Charted(Counted(Window), Window) \in Nat
    BY CountedFinite, SubsetCount DEF Charted
  <2>. QED BY <1>3, <1>5, <2>1 DEF DailyCounts
<1>6. CASE CountBy
  <2>1. \A by : Grouped(Counted(Window), by) \in Nat
    BY CountedFinite, GroupedBelow
  <2>2. PICK n \in Nat : Show(n) /\ step \in 1..8
    BY <1>6, <2>1 DEF CountBy
  <2>. QED BY <1>3, <2>2
<1>7. CASE ShowRecent
  <2>1. missing' \subseteq TheRows /\ more' \in BOOLEAN /\ turned' = turned + 1
    BY <1>7 DEF ShowRecent
  <2>2. NumbersOK'
    BY <1>7 DEF ShowRecent, NumbersOK
  <2>. QED BY <2>1, <2>2, <1>7 DEF ShowRecent
<1>8. CASE FailStats
  <2>1. NumbersOK'
    BY <1>8 DEF FailStats, NumbersOK
  <2>. QED BY <1>8, <2>1 DEF FailStats
<1>9. CASE EachLog
  <2>1. NumbersOK'
    BY <1>9 DEF EachLog, NumbersOK
  <2>. QED BY <1>0, <1>9, <2>1 DEF EachLog
<1>10. CASE SendRow
  BY <1>10 DEF SendRow, NumbersOK
<1>11. CASE EndCSV \/ Break
  <2>1. CASE EndCSV
    <3>1. NumbersOK'
      BY <2>1 DEF EndCSV, NumbersOK
    <3>. QED BY <2>1, <3>1 DEF EndCSV
  <2>2. CASE Break
    <3>1. NumbersOK'
      BY <2>2 DEF Break, NumbersOK
    <3>. QED BY <2>2, <3>1 DEF Break
  <2>. QED BY <1>11, <2>1, <2>2
<1>12. ASSUME NEW k \in Kinds, NEW lag \in Lags, InsertRow(k, lag)
       PROVE  TypeInv'
  <2>. lag \in Nat /\ now \in Nat /\ nextId \in Nat
    OBVIOUS
  <2>. DEFINE row == [id |-> nextId, at |-> Stamp(lag), kind |-> k]
  <2>1. row \in TheRows
    <3>1. nextId \in 1..MaxRows /\ now \in 0..Horizon
      BY <1>12 DEF InsertRow
    <3>2. Stamp(lag) \in {t - l : t \in 0..Horizon, l \in Lags}
      BY <3>1 DEF Stamp
    <3>. QED BY <3>1, <3>2 DEF TheRows
  <2>2. IsFiniteSet(rows \cup {row})
    BY FS_AddElement
  <2>3. row.id < nextId + 1 /\ row.at <= now
    BY SMT DEF Stamp
  <2>4. \A r \in rows : r.id \in Int
    <3>1. \A r \in TheRows : r.id \in Int
      BY RowType
    <3>. QED BY <3>1
  <2>5. rows' = rows \cup {row} /\ nextId' = nextId + 1 /\ nextId <= MaxRows
    BY <1>12 DEF InsertRow
  <2>6. UNCHANGED <<now, step, askVars, pageVars, exportVars, history>>
    BY <1>12 DEF InsertRow
  <2>7. NumbersOK'
    BY <2>6 DEF NumbersOK
  <2>. HIDE DEF row
  <2>8. \A r \in rows' : r.id < nextId' /\ r.at <= now'
    BY <2>3, <2>4, <2>5, <2>6
  <2>. QED BY <2>1, <2>2, <2>5, <2>6, <2>7, <2>8
<1>13. ASSUME NEW u, DeleteRows(u)
       PROVE  TypeInv'
  <2>1. rows' \subseteq rows
    BY <1>13 DEF DeleteRows
  <2>2. IsFiniteSet(rows')
    BY <2>1, FS_Subset
  <2>3. NumbersOK'
    BY <1>13 DEF DeleteRows, NumbersOK
  <2>. QED BY <2>1, <2>2, <2>3, <1>13 DEF DeleteRows
<1>14. CASE StatsTick
  <2>1. \A r \in rows : r.at \in Int
    BY RowType
  <2>2. NumbersOK'
    BY <1>14 DEF StatsTick, NumbersOK
  <2>. QED BY <2>1, <2>2, <1>14 DEF StatsTick
<1>15. CASE UNCHANGED statsVars
  BY <1>15 DEF statsVars, NumbersOK
<1>. QED
  BY <1>1, <1>2, <1>4, <1>5, <1>6, <1>7, <1>8, <1>9, <1>10, <1>11, <1>12, <1>13, <1>14, <1>15
  DEF StatsNext, Render, WriteCSV

-----------------------------------------------------------------------------
Inv == StatsTypeOK /\ Finite /\ Behind /\ Unsent /\ Counts

(* Nothing that a reader of pages is shown changes, but rows may come.     *)
Quiet ==
  /\ rows \subseteq rows' /\ missing' \subseteq missing
  /\ UNCHANGED <<view, asked, turned, cut>>

LEMMA QuietSteps ==
  ASSUME StatsTypeOK,
         \/ \E n : Show(n)
         \/ FailStats \/ WriteCSV \/ StatsTick \/ UNCHANGED statsVars
         \/ \E k \in Kinds, lag \in Lags : InsertRow(k, lag)
  PROVE  Quiet /\ UNCHANGED more
<1>. USE DEF Quiet, dbVars, askVars, pageVars, exportVars, history
<1>1. ASSUME NEW n, Show(n) PROVE Quiet /\ UNCHANGED more
  BY <1>1 DEF Show
<1>2. CASE FailStats
  BY <1>2 DEF FailStats
<1>3. CASE WriteCSV
  BY <1>3 DEF WriteCSV, EachLog, SendRow, EndCSV, Break
<1>4. CASE StatsTick \/ UNCHANGED statsVars
  BY <1>4 DEF StatsTick, statsVars
<1>5. ASSUME NEW k \in Kinds, NEW lag \in Lags, InsertRow(k, lag)
      PROVE  Quiet /\ UNCHANGED more
  BY <1>5 DEF InsertRow
<1>. QED BY <1>1, <1>2, <1>3, <1>4, <1>5

LEMMA WindowType ==
  ASSUME StatsTypeOK
  PROVE  Window.from \in Int /\ Window.to \in Int
<1>1. view \in Views /\ asked \in Int
  BY StatsAssumption DEF StatsTypeOK
<1>. QED BY <1>1, WindowMoves DEF Window

(* The missing rows of the window are among the wanted ones.               *)
LEMMA MissingWanted ==
  ASSUME StatsTypeOK, Behind, ~cut
  PROVE  logs(missing, Window, view.users, view.hosts) \subseteq Wanted
BY DEF Behind, Wanted, logs

LEMMA BehindQuiet ==
  ASSUME StatsTypeOK, Finite', Behind, Quiet
  PROVE  Behind'
<1>. SUFFICES ASSUME ~cut PROVE Behind'
  BY DEF Behind, Quiet
<1>1. Window' = Window /\ view' = view /\ turned' = turned
  BY DEF Quiet, Window
<1>2. ASSUME NEW r \in missing', Window.from <= r.at
      PROVE  Rank(r, Wanted') >= turned * PageSize
  <2>1. Wanted \subseteq Wanted'
    BY <1>1 DEF Wanted, logs, Quiet
  <2>2. IsFiniteSet(Wanted')
    BY LogsFinite, <1>1 DEF Wanted, Finite
  <2>3. Rank(r, Wanted) <= Rank(r, Wanted') /\ Rank(r, Wanted) \in Nat /\ Rank(r, Wanted') \in Nat
    BY <2>1, <2>2, RankGrows
  <2>4. Rank(r, Wanted) >= turned * PageSize
    BY <1>2 DEF Behind, Quiet
  <2>5. turned * PageSize \in Nat
    BY StatsAssumption DEF StatsTypeOK
  <2>. QED BY <2>3, <2>4, <2>5
<1>3. missing' \subseteq rows'
  BY DEF Behind, Quiet
<1>. QED BY <1>1, <1>2, <1>3 DEF Behind, Quiet

LEMMA BehindStep == Inv /\ [StatsNext]_statsVars /\ Finite' => Behind'
<1>. SUFFICES ASSUME Inv, [StatsNext]_statsVars, Finite' PROVE Behind'
  OBVIOUS
<1>. USE DEF Inv
<1>0. /\ \A r \in TheRows : r.at \in Int
      /\ \A r \in rows : r.at \in Int
      /\ PageSize \in Nat \ {0} /\ turned \in Nat /\ turned * PageSize \in Nat
      /\ asked \in Int /\ now \in Int /\ asked <= now /\ view \in Views
  <2>1. \A r \in TheRows : r.at \in Int
    BY RowType
  <2>2. PageSize \in Nat \ {0} /\ turned \in Nat /\ Horizon \in Nat
    BY StatsAssumption DEF StatsTypeOK
  <2>3. turned * PageSize \in Nat
    BY <2>2
  <2>. QED BY <2>1, <2>2, <2>3 DEF StatsTypeOK
<1>1. ASSUME NEW v \in Views, OpenStats(v) \/ AskCSV(v)
      PROVE  Behind'
  <2>1. rows' = rows /\ view' = v /\ asked' = now /\ turned' = 0 /\ missing' = Asked(v)
    BY <1>1 DEF OpenStats, AskCSV, dbVars
  <2>2. Window' = parseWindow(v.query, now)
    BY <2>1 DEF Window
  <2>3. missing' \subseteq rows'
    BY <2>1 DEF Asked, logs
  <2>4. \A r \in missing' : /\ r.kind.user \in v.users /\ r.kind.host \in v.hosts
                            /\ r.at < Window'.to
    BY <2>1, <2>2 DEF Asked, logs
  <2>5. ASSUME NEW r PROVE Rank(r, Wanted') \in Nat
    <3>1. IsFiniteSet(Wanted')
      BY LogsFinite DEF Wanted, Finite
    <3>. QED BY <3>1, RankGrows
  <2>6. turned' * PageSize = 0
    BY <2>1, <1>0
  <2>. QED BY <2>1, <2>3, <2>4, <2>5, <2>6 DEF Behind
<1>2. CASE TurnPage
  <2>1. UNCHANGED <<rows, view, turned, missing, cut>> /\ asked' = now
    BY <1>2 DEF TurnPage, dbVars, history
  <2>. SUFFICES ASSUME ~cut PROVE Behind'
    BY <2>1 DEF Behind
  <2>2. Window' = parseWindow(view.query, now) /\ Window = parseWindow(view.query, asked)
    BY <2>1 DEF Window
  <2>3. /\ Window.from \in Int /\ Window.to \in Int /\ Window'.from \in Int /\ Window'.to \in Int
        /\ Window.from <= Window'.from /\ Window.to <= Window'.to
    BY <2>2, <1>0, WindowMoves
  <2>4. \A r \in missing : r \in rows /\ r.at \in Int /\ r.at < Window.to
    BY <1>0 DEF Behind
  <2>5. ASSUME NEW r \in missing, Window'.from <= r.at
        PROVE  Rank(r, Wanted') >= turned * PageSize
    <3>1. Rank(r, Wanted) >= turned * PageSize
      BY <2>3, <2>4, <2>5 DEF Behind
    <3>2. ASSUME NEW s \in Wanted, Newer(s, r) PROVE s \in Wanted'
      <4>1. /\ s \in rows /\ s.at \in Int /\ s.at < Window.to
            /\ s.kind.user \in view.users /\ s.kind.host \in view.hosts
        BY <1>0 DEF Wanted, logs
      <4>2. s.at >= r.at
        BY <3>2, <2>4, <4>1 DEF Newer
      <4>3. Window'.from <= s.at /\ s.at < Window'.to
        BY <4>1, <4>2, <2>3, <2>4, <2>5
      <4>. QED BY <4>1, <4>3, <2>1 DEF Wanted, logs
    <3>3. IsFiniteSet(Wanted')
      BY LogsFinite DEF Wanted, Finite
    <3>4. Rank(r, Wanted) <= Rank(r, Wanted') /\ Rank(r, Wanted) \in Nat /\ Rank(r, Wanted') \in Nat
      BY <3>2, <3>3, RankGrows
    <3>. QED BY <3>1, <3>4, <1>0
  <2>6. \A r \in missing : r.at < Window'.to
    BY <2>3, <2>4
  <2>. QED BY <2>1, <2>5, <2>6 DEF Behind
<1>3. CASE ShowRecent
  <2>1. /\ UNCHANGED <<rows, view, asked, cut>> /\ turned' = turned + 1
        /\ missing' = missing \ RecentLogs(Wanted, turned * PageSize)
    BY <1>3 DEF ShowRecent, dbVars, askVars, Wanted
  <2>. SUFFICES ASSUME ~cut PROVE Behind'
    BY <2>1 DEF Behind
  <2>2. Window' = Window /\ Wanted' = Wanted
    BY <2>1 DEF Window, Wanted
  <2>3. IsFiniteSet(Wanted)
    BY LogsFinite DEF Wanted, Finite
  <2>4. turned' * PageSize = turned * PageSize + PageSize
    BY <2>1, <1>0
  <2>5. ASSUME NEW r \in missing', Window.from <= r.at
        PROVE  Rank(r, Wanted) >= turned' * PageSize
    <3>1. Rank(r, Wanted) >= turned * PageSize /\ r \in Wanted
      BY <2>1, <2>5 DEF Behind, Wanted, logs
    <3>2. Rank(r, Wanted) \in Nat
      BY <2>3, RankGrows
    <3>3. Rank(r, Wanted) \notin (turned * PageSize)..(turned * PageSize + PageSize - 1)
      BY <2>1, <2>5, <3>1 DEF RecentLogs
    <3>. QED BY <3>1, <3>2, <3>3, <2>4, <1>0
  <2>. QED BY <2>1, <2>2, <2>5 DEF Behind
<1>4. ASSUME NEW u, DeleteRows(u) PROVE Behind'
  BY <1>4, Zenon DEF DeleteRows, Behind
<1>5. CASE Quiet
  BY <1>5, BehindQuiet
<1>6. CASE \/ \E n : Show(n)
           \/ FailStats \/ WriteCSV \/ StatsTick \/ UNCHANGED statsVars
           \/ \E k \in Kinds, lag \in Lags : InsertRow(k, lag)
  BY <1>5, <1>6, QuietSteps
<1>. QED
  BY <1>1, <1>2, <1>3, <1>4, <1>6
  DEF StatsNext, Render, CountTile, CountTotal, DailyCounts, CountBy

LEMMA UnsentStep == Inv /\ [StatsNext]_statsVars => Unsent'
<1>. SUFFICES ASSUME Inv, [StatsNext]_statsVars, step' = 11, ~cut' PROVE Unsent'
  BY DEF Unsent
<1>. USE DEF Inv
<1>1. ASSUME NEW v \in Views, OpenStats(v) \/ AskCSV(v) PROVE Unsent'
  BY <1>1 DEF OpenStats, AskCSV
<1>2. CASE TurnPage \/ ShowRecent \/ FailStats \/ EndCSV \/ Break
  BY <1>2 DEF TurnPage, ShowRecent, FailStats, EndCSV, Break
<1>3. ASSUME NEW n, Show(n), step \in 1..8 PROVE Unsent'
  BY <1>3 DEF Show
<1>4. CASE EachLog
  <2>1. UNCHANGED <<rows, view, asked, missing, cut>> /\ left' = Wanted
    BY <1>4 DEF EachLog, dbVars, askVars, history, Wanted
  <2>. QED BY <2>1, MissingWanted DEF Unsent, Window
<1>5. CASE SendRow
  <2>1. UNCHANGED <<view, asked, cut, step>>
    BY <1>5 DEF SendRow, askVars
  <2>2. PICK r \in left : left' = left \ {r} /\ missing' = missing \ {r}
    BY <1>5 DEF SendRow
  <2>. QED BY <2>1, <2>2 DEF Unsent, Window, logs
<1>6. ASSUME NEW k \in Kinds, NEW lag \in Lags, InsertRow(k, lag) PROVE Unsent'
  BY <1>6 DEF InsertRow, askVars, exportVars, history, Unsent, Window
<1>7. ASSUME NEW u, DeleteRows(u) PROVE Unsent'
  BY <1>7 DEF DeleteRows
<1>8. CASE StatsTick \/ UNCHANGED statsVars
  BY <1>8 DEF StatsTick, statsVars, askVars, exportVars, history, Unsent, Window
<1>. QED
  BY <1>1, <1>2, <1>3, <1>4, <1>5, <1>6, <1>7, <1>8
  DEF StatsNext, Render, WriteCSV, CountTile, CountTotal, DailyCounts, CountBy

-----------------------------------------------------------------------------
LEMMA TileCounts ==
  ASSUME StatsTypeOK, Finite
  PROVE  /\ \A w : Cardinality(Counted(w)) \in Nat
         /\ \A i, j \in 1..3 : i <= j =>
              Cardinality(Counted(Tile(i))) <= Cardinality(Counted(Tile(j)))
<1>1. \A w : IsFiniteSet(Counted(w)) /\ Cardinality(Counted(w)) \in Nat
  BY CountedFinite DEF Finite
<1>2. ASSUME NEW i \in 1..3, NEW j \in 1..3, i <= j
      PROVE  Cardinality(Counted(Tile(i))) <= Cardinality(Counted(Tile(j)))
  <2>1. asked \in Int /\ Grace \in Int /\ Spans[i] \in Nat /\ Spans[j] \in Nat
    BY StatsAssumption DEF StatsTypeOK
  <2>2. Spans[i] <= Spans[j]
    <3>1. i = j \/ (i = 1 /\ j = 2) \/ (i = 1 /\ j = 3) \/ (i = 2 /\ j = 3)
      BY <1>2
    <3>2. Spans[1] \in Nat /\ Spans[2] \in Nat /\ Spans[3] \in Nat
      BY StatsAssumption
    <3>. QED BY <2>1, <3>1, <3>2, StatsAssumption
  <2>3. \A r \in rows : r.at \in Int
    BY RowType DEF StatsTypeOK
  <2>4. Counted(Tile(i)) \subseteq Counted(Tile(j))
    BY <2>1, <2>2, <2>3 DEF Counted, logs, Tile
  <2>. QED BY <1>1, <2>4, SubsetCount
<1>. QED BY <1>1, <1>2

(* Rows are only inserted while a page is under way, so counts only grow.  *)
LEMMA CountsGrow ==
  ASSUME Inv, Finite', Quiet
  PROVE  /\ Window' = Window
         /\ \A i : Tile(i)' = Tile(i)
         /\ \A w : Cardinality(Counted(w)) \in Nat
         /\ \A w : /\ Cardinality(logs(rows', w, view'.users, AnyHost)) \in Nat
                  /\ Cardinality(Counted(w)) <= Cardinality(logs(rows', w, view'.users, AnyHost))
<1>1. Window' = Window /\ view' = view /\ \A i : Tile(i)' = Tile(i)
  BY DEF Quiet, Window, Tile
<1>2. ASSUME NEW w
      PROVE  /\ Cardinality(Counted(w)) \in Nat
             /\ Cardinality(logs(rows', w, view'.users, AnyHost)) \in Nat
             /\ Cardinality(Counted(w)) <= Cardinality(logs(rows', w, view'.users, AnyHost))
  <2>1. IsFiniteSet(logs(rows', w, view'.users, AnyHost))
    BY LogsFinite DEF Finite
  <2>2. Counted(w) \subseteq logs(rows', w, view'.users, AnyHost)
    BY <1>1 DEF Counted, logs, Quiet
  <2>. QED BY <2>1, <2>2, SubsetCount
<1>. QED BY <1>1, <1>2

(* A day of the pages is DayLen instants, and later days have later        *)
(* numbers.                                                                *)
LEMMA Days ==
  ASSUME NEW s \in Int, NEW t \in Int, s <= t
  PROVE  /\ Day(s) \in Int /\ Day(s) <= Day(t)
         /\ Day(s) * DayLen - Offset <= s
<1>1. DayLen \in Nat \ {0} /\ Offset \in Nat
  BY StatsAssumption
<1>2. ASSUME NEW n \in Int
      PROVE  /\ n \div DayLen \in Int
             /\ (n \div DayLen) * DayLen <= n
             /\ n < (n \div DayLen) * DayLen + DayLen
  BY <1>1, SMTT(60)
<1>3. ASSUME NEW a \in Int, NEW b \in Int, a * DayLen < b * DayLen + DayLen
      PROVE  a <= b
  BY <1>1, <1>3, SMTT(60)
<1>. DEFINE m == s + Offset
            n == t + Offset
            a == m \div DayLen
            b == n \div DayLen
<1>4. a \in Int /\ b \in Int /\ a * DayLen <= m /\ n < b * DayLen + DayLen /\ m <= n
  BY <1>1, <1>2
<1>5. a * DayLen \in Int /\ b * DayLen \in Int
  BY <1>1, <1>4
<1>6. a * DayLen < b * DayLen + DayLen
  BY <1>1, <1>4, <1>5
<1>7. a <= b
  BY <1>3, <1>4, <1>6
<1>. QED BY <1>1, <1>4, <1>5, <1>7 DEF Day

(* Unless there are more days than bars, every row of a window has a bar.  *)
LEMMA AllCharted ==
  ASSUME NEW w, w.from \in Int, w.to \in Int, NEW rs, \A r \in rs : r.at \in Int,
         \A r \in rs : w.from <= r.at /\ r.at < w.to,
         Day(w.to - 1) - Day(w.from) < MaxBars
  PROVE  Charted(rs, w) = Cardinality(rs)
<1>1. ASSUME NEW r \in rs PROVE Day(r.at) \in Bars(w)
  <2>1. Day(r.at) \in Int /\ Day(w.from) \in Int /\ Day(w.to - 1) \in Int
    BY Days
  <2>2. Day(w.from) <= Day(r.at) /\ Day(r.at) <= Day(w.to - 1)
    BY Days
  <2>3. Day(r.at) * DayLen - Offset <= r.at
    BY Days
  <2>4. Day(r.at) * DayLen - Offset \in Int /\ MaxBars \in Nat
    BY <2>1, StatsAssumption
  <2>5. Day(r.at) * DayLen - Offset < w.to
    BY <2>3, <2>4
  <2>6. Day(r.at) \in Day(w.from)..(Day(w.from) + MaxBars - 1)
    BY <2>1, <2>2, <2>4
  <2>. QED BY <2>5, <2>6 DEF Bars
<1>2. {r \in rs : Day(r.at) \in Bars(w)} = rs
  BY <1>1
<1>. QED BY <1>2 DEF Charted

(* Unless there are more groups than a table has, every row is in one.     *)
LEMMA AllGrouped ==
  ASSUME NEW rs, \A r \in rs : r.kind \in Kinds, NEW by,
         Cardinality({k[by] : k \in Kinds}) <= GroupLimit
  PROVE  Grouped(rs, by) = Cardinality(rs)
<1>. DEFINE n(g) == Cardinality({r \in rs : r.kind[by] = g})
            groups == {r.kind[by] : r \in rs}
            Top(gs) == /\ Cardinality(gs) = IF Cardinality(groups) <= GroupLimit
                                            THEN Cardinality(groups) ELSE GroupLimit
                       /\ \A g \in gs, h \in groups \ gs : n(g) >= n(h)
            top == CHOOSE gs \in SUBSET groups : Top(gs)
<1>1. IsFiniteSet(Kinds)
  BY StatsAssumption
<1>2. IsFiniteSet({k[by] : k \in Kinds})
  <2>. DEFINE T == {k[by] : k \in Kinds}
              f == [k \in Kinds |-> k[by]]
  <2>1. f \in Surjection(Kinds, T)
    BY DEF Surjection
  <2>. HIDE DEF f, T
  <2>2. IsFiniteSet(T)
    BY <1>1, <2>1, FS_Surjection
  <2>. QED BY <2>2 DEF T
<1>3. groups \subseteq {k[by] : k \in Kinds}
  OBVIOUS
<1>4. IsFiniteSet(groups) /\ Cardinality(groups) <= GroupLimit
  <2>1. /\ IsFiniteSet(groups) /\ Cardinality(groups) \in Nat
        /\ Cardinality({k[by] : k \in Kinds}) \in Nat
        /\ Cardinality(groups) <= Cardinality({k[by] : k \in Kinds})
    BY <1>2, <1>3, SubsetCount
  <2>2. GroupLimit \in Nat
    BY StatsAssumption
  <2>. QED BY <2>1, <2>2
<1>5. Top(groups)
  BY <1>4
<1>6. top \in SUBSET groups /\ Top(top)
  BY <1>5, Zenon
<1>7. Cardinality(top) = Cardinality(groups)
  BY <1>4, <1>6
<1>8. top = groups
  BY <1>4, <1>6, <1>7, FS_Subset
<1>9. Grouped(rs, by) = Cardinality({r \in rs : r.kind[by] \in top})
  BY DEF Grouped
<1>10. {r \in rs : r.kind[by] \in top} = rs
  BY <1>8
<1>. QED BY <1>9, <1>10

-----------------------------------------------------------------------------
Numbers == Counts /\ TilesNest /\ TablesCoverTotal

(* The next number goes with those before it.                              *)
LEMMA ShowStep ==
  ASSUME Inv, Numbers, CountTile \/ CountTotal \/ DailyCounts \/ CountBy
  PROVE  Numbers'
<1>. USE DEF Inv
<1>1. PICK n \in Nat :
        /\ Show(n) /\ step \in 1..8
        /\ step \in 1..3 => n = Cardinality(Counted(Tile(step)))
        /\ step = 4 => n = Cardinality(Counted(Window))
        /\ step = 5 => n = Charted(Counted(Window), Window)
        /\ step \in 6..8 =>
             n = Grouped(Counted(Window), <<"host", "cred", "user">>[step - 5])
  <2>1. /\ \A w : Cardinality(Counted(w)) \in Nat
        /\ Charted(Counted(Window), Window) \in Nat
        /\ \A by : Grouped(Counted(Window), by) \in Nat
    BY CountedFinite, GroupedBelow, SubsetCount DEF Charted, Finite
  <2>2. CASE CountTile
    BY <2>1, <2>2 DEF CountTile
  <2>3. CASE CountTotal
    BY <2>1, <2>3 DEF CountTotal
  <2>4. CASE DailyCounts
    BY <2>1, <2>4 DEF DailyCounts
  <2>5. CASE CountBy
    BY <2>1, <2>5 DEF CountBy
  <2>. QED BY <2>2, <2>3, <2>4, <2>5
<1>2. UNCHANGED <<rows, view, asked, cut>>
  BY <1>1 DEF Show, dbVars, askVars, history
<1>3. /\ Window' = Window /\ Counted(Window)' = Counted(Window)
      /\ \A i : Counted(Tile(i))' = Counted(Tile(i))
  BY <1>2 DEF Window, Tile, Counted, logs
<1>4. /\ num \in Seq(Nat) /\ Len(num) = step - 1
      /\ Len(num') = step /\ num'[step] = n
      /\ \A i \in 1..(step - 1) : num'[i] = num[i] /\ num[i] \in Nat
  <2>1. num' = Append(num, n)
    BY <1>1 DEF Show
  <2>2. num \in Seq(Nat) /\ Len(num) = step - 1
    BY <1>1 DEF StatsTypeOK, NumbersOK
  <2>. QED BY <1>1, <2>1, <2>2
<1>. SUFFICES ASSUME ~cut PROVE Numbers'
  BY <1>2, Zenon DEF Numbers, Counts, TilesNest, TablesCoverTotal
<1>5. \A i \in 1..step :
        /\ i \in 1..3 => num'[i] <= Cardinality(Counted(Tile(i)))
        /\ i = 4 => num'[i] <= Cardinality(Counted(Window))
  <2>1. \A i \in 1..(step - 1) :
          /\ i \in 1..3 => num'[i] <= Cardinality(Counted(Tile(i)))
          /\ i = 4 => num'[i] <= Cardinality(Counted(Window))
    BY <1>4 DEF Numbers, Counts
  <2>2. step \in 1..4 => n <= n
    OBVIOUS
  <2>3. ASSUME NEW i \in 1..step, i \notin 1..(step - 1) PROVE i = step
    BY <1>1, <2>3
  <2>. QED BY <1>1, <1>4, <2>1, <2>2, <2>3
<1>6. Counts'
  <2>1. Counts' <=> \A i \in 1..step :
          /\ i \in 1..3 => num'[i] <= Cardinality(Counted(Tile(i)))
          /\ i = 4 => num'[i] <= Cardinality(Counted(Window))
    BY <1>2, <1>3, <1>4 DEF Counts
  <2>. QED BY <1>5, <2>1
<1>7. TilesNest'
  <2>. SUFFICES ASSUME NEW i \in 1..3, NEW j \in 1..step, i < j,
                       j <= 3 \/ (j = 4 /\ Window = Preset(i, asked))
                PROVE  num'[i] <= num'[j]
    <3>1. DOMAIN num' = 1..step
      BY <1>1, <1>4 DEF Show
    <3>. QED BY <3>1, <1>2, <1>3 DEF TilesNest
  <2>1. i \in 1..(step - 1) /\ num'[i] = num[i]
    BY <1>1, <1>4
  <2>2. CASE j # step
    <3>1. j \in 1..(step - 1) /\ num'[j] = num[j] /\ j \in DOMAIN num
      BY <1>1, <1>4, <2>2
    <3>. QED BY <2>1, <3>1 DEF Numbers, TilesNest
  <2>3. CASE j = step
    <3>1. num'[i] <= Cardinality(Counted(Tile(i))) /\ num'[i] \in Nat
      BY <1>1, <1>4, <1>5, <2>1
    <3>2. CASE j <= 3
      <4>1. Cardinality(Counted(Tile(i))) <= Cardinality(Counted(Tile(j)))
        BY <1>1, <2>3, <3>2, TileCounts
      <4>2. Cardinality(Counted(Tile(i))) \in Nat /\ Cardinality(Counted(Tile(j))) \in Nat
        BY TileCounts
      <4>. QED BY <1>1, <1>4, <2>3, <3>1, <3>2, <4>1, <4>2
    <3>3. CASE j = 4 /\ Window = Preset(i, asked)
      <4>1. Window = Tile(i)
        BY <3>3 DEF Preset, Tile
      <4>. QED BY <1>1, <1>4, <2>3, <3>1, <3>3, <4>1
    <3>. QED BY <3>2, <3>3
  <2>. QED BY <2>2, <2>3
<1>8. TablesCoverTotal'
  <2>. SUFFICES ASSUME step >= 4
                PROVE  /\ step >= 5 /\ (Day(Window.to - 1) - Day(Window.from) < MaxBars)
                             => num'[4] <= num'[5]
                       /\ \A i \in 6..step :
                            Cardinality({k[<<"host", "cred", "user">>[i - 5]] : k \in Kinds})
                              <= GroupLimit => num'[4] <= num'[i]
    BY <1>2, <1>3, <1>4 DEF TablesCoverTotal
  <2>1. num'[4] <= Cardinality(Counted(Window)) /\ num'[4] \in Nat
    BY <1>1, <1>4, <1>5
  <2>2. \A r \in Counted(Window) : /\ r.kind \in Kinds /\ r.at \in Int
                                  /\ Window.from <= r.at /\ r.at < Window.to
    <3>1. \A r \in rows : r.kind \in Kinds /\ r.at \in Int
      BY RowType DEF StatsTypeOK
    <3>. QED BY <3>1 DEF Counted, logs
  <2>3. CASE step = 4
    BY <2>3
  <2>4. CASE step = 5
    <3>1. Day(Window.to - 1) - Day(Window.from) < MaxBars => n = Cardinality(Counted(Window))
      BY <1>1, <2>2, <2>4, WindowType, AllCharted
    <3>. QED BY <1>4, <2>1, <2>4, <3>1
  <2>5. CASE step \in 6..8
    <3>. DEFINE Few(i) ==
                  Cardinality({k[<<"host", "cred", "user">>[i - 5]] : k \in Kinds}) <= GroupLimit
    <3>1. Few(step) => n = Cardinality(Counted(Window))
      BY <1>1, <2>2, <2>5, AllGrouped
    <3>. HIDE DEF Few
    <3>2. Few(step) => num'[4] <= num'[step]
      BY <1>4, <2>1, <3>1
    <3>3. \A i \in 6..(step - 1) : Few(i) => num'[4] <= num'[i]
      BY <1>4, <2>5 DEF Numbers, TablesCoverTotal, Few
    <3>4. (Day(Window.to - 1) - Day(Window.from) < MaxBars) => num'[4] <= num'[5]
      BY <1>4, <2>5 DEF Numbers, TablesCoverTotal
    <3>5. \A i \in 6..step : i = step \/ i \in 6..(step - 1)
      BY <2>5
    <3>6. \A i \in 6..step : Few(i) => num'[4] <= num'[i]
      BY <3>2, <3>3, <3>5
    <3>. QED BY <3>4, <3>6 DEF Few
  <2>. QED BY <1>1, <2>3, <2>4, <2>5
<1>. QED BY <1>6, <1>7, <1>8 DEF Numbers

LEMMA NumbersStep == Inv /\ Numbers /\ [StatsNext]_statsVars /\ Finite' => Numbers'
<1>. SUFFICES ASSUME Inv, Numbers, [StatsNext]_statsVars, Finite' PROVE Numbers'
  OBVIOUS
<1>. USE DEF Inv
<1>1. CASE num' = <<>>
  <2>1. Len(num') = 0 /\ DOMAIN num' = {}
    BY <1>1
  <2>. QED BY <2>1 DEF Numbers, Counts, TilesNest, TablesCoverTotal
<1>2. CASE Quiet /\ num' = num
  <2>1. UNCHANGED <<view, asked, cut>>
    BY <1>2 DEF Quiet
  <2>2. /\ Window' = Window
        /\ \A i : Cardinality(Counted(Tile(i))) <= Cardinality(Counted(Tile(i)))'
        /\ Cardinality(Counted(Window)) <= Cardinality(Counted(Window))'
        /\ \A i : Cardinality(Counted(Tile(i)))' \in Nat /\ Cardinality(Counted(Tile(i))) \in Nat
        /\ Cardinality(Counted(Window))' \in Nat /\ Cardinality(Counted(Window)) \in Nat
    BY <1>2, CountsGrow DEF Counted
  <2>3. Counts'
    <3>. SUFFICES ASSUME ~cut, NEW i \in 1..Len(num)
                  PROVE  /\ i \in 1..3 => num[i] <= Cardinality(Counted(Tile(i)))'
                         /\ i = 4 => num[i] <= Cardinality(Counted(Window))'
      BY <1>2, <2>1 DEF Counts
    <3>1. num[i] \in Nat
      BY DEF StatsTypeOK, NumbersOK
    <3>2. /\ i \in 1..3 => num[i] <= Cardinality(Counted(Tile(i)))
          /\ i = 4 => num[i] <= Cardinality(Counted(Window))
      BY DEF Counts
    <3>. QED BY <2>2, <3>1, <3>2
  <2>4. TilesNest'
    BY <1>2, <2>1, <2>2 DEF Numbers, TilesNest
  <2>5. TablesCoverTotal'
    BY <1>2, <2>1, <2>2 DEF Numbers, TablesCoverTotal
  <2>. QED BY <2>3, <2>4, <2>5 DEF Numbers
<1>3. ASSUME NEW v \in Views, OpenStats(v) \/ AskCSV(v) PROVE num' = <<>>
  BY <1>3 DEF OpenStats, AskCSV
<1>4. CASE TurnPage \/ ShowRecent \/ FailStats
  BY <1>1, <1>4 DEF TurnPage, ShowRecent, FailStats
<1>5. CASE CountTile \/ CountTotal \/ DailyCounts \/ CountBy
  BY <1>5, ShowStep
<1>6. CASE WriteCSV \/ StatsTick \/ UNCHANGED statsVars
  <2>1. num' = num
    BY <1>6 DEF WriteCSV, EachLog, SendRow, EndCSV, Break, StatsTick, statsVars, pageVars
  <2>. QED BY <1>2, <1>6, <2>1, QuietSteps
<1>7. ASSUME NEW k \in Kinds, NEW lag \in Lags, InsertRow(k, lag) PROVE Numbers'
  <2>1. num' = num
    BY <1>7 DEF InsertRow, pageVars
  <2>. QED BY <1>2, <1>7, <2>1, QuietSteps
<1>8. ASSUME NEW u, DeleteRows(u) PROVE Numbers'
  BY <1>8, Zenon DEF DeleteRows, Numbers, Counts, TilesNest, TablesCoverTotal
<1>. QED BY <1>1, <1>3, <1>4, <1>5, <1>6, <1>7, <1>8 DEF StatsNext, Render

-----------------------------------------------------------------------------
(* A window with fewer rows than the pages that were turned have room for  *)
(* has none after them.                                                    *)
LEMMA PagingStep == Inv /\ PagingSkipsNothing /\ [StatsNext]_statsVars => PagingSkipsNothing'
<1>. SUFFICES ASSUME Inv, PagingSkipsNothing, [StatsNext]_statsVars PROVE PagingSkipsNothing'
  OBVIOUS
<1>. USE DEF Inv
<1>1. ASSUME NEW v \in Views, OpenStats(v) \/ AskCSV(v) PROVE PagingSkipsNothing'
  BY <1>1 DEF OpenStats, AskCSV, PagingSkipsNothing
<1>2. CASE TurnPage
  BY <1>2, Zenon DEF TurnPage, PagingSkipsNothing
<1>3. CASE ShowRecent
  <2>1. /\ UNCHANGED <<rows, view, asked, cut>>
        /\ missing' = missing \ RecentLogs(Wanted, turned * PageSize)
    BY <1>3 DEF ShowRecent, dbVars, askVars, Wanted
  <2>2. more' = (Cardinality(Wanted) > turned * PageSize + PageSize)
    BY <1>3 DEF ShowRecent, Wanted
  <2>. SUFFICES ASSUME ~cut, ~more', NEW r \in logs(missing', Window, view.users, view.hosts)
                PROVE  FALSE
    BY <2>1 DEF PagingSkipsNothing, Window
  <2>3. r \in missing /\ Window.from <= r.at /\ r \notin RecentLogs(Wanted, turned * PageSize)
    BY <2>1 DEF logs
  <2>4. r \in Wanted
    BY <2>1, MissingWanted DEF logs
  <2>5. IsFiniteSet(Wanted) /\ Wanted \subseteq TheRows
    BY LogsFinite DEF Wanted, Finite, StatsTypeOK, logs
  <2>6. Rank(r, Wanted) < Cardinality(Wanted) /\ Rank(r, Wanted) >= turned * PageSize
    BY <2>3, <2>4, <2>5, RankBelow DEF Behind
  <2>7. /\ Rank(r, Wanted) \in Nat /\ Cardinality(Wanted) \in Nat
        /\ PageSize \in Nat /\ turned * PageSize \in Nat
    BY <2>5, RankGrows, FS_CardinalityType, StatsAssumption DEF StatsTypeOK
  <2>8. Rank(r, Wanted) \notin (turned * PageSize)..(turned * PageSize + PageSize - 1)
    BY <2>3, <2>4 DEF RecentLogs
  <2>9. ~(Cardinality(Wanted) > turned * PageSize + PageSize)
    BY <2>2
  <2>. QED BY <2>6, <2>7, <2>8, <2>9
<1>4. ASSUME NEW u, DeleteRows(u) PROVE PagingSkipsNothing'
  BY <1>4, Zenon DEF DeleteRows, PagingSkipsNothing
<1>5. CASE Quiet /\ UNCHANGED more
  <2>1. /\ UNCHANGED <<view, asked, turned, more, cut>> /\ missing' \subseteq missing
        /\ Window' = Window
    BY <1>5 DEF Quiet, Window
  <2>. QED BY <2>1 DEF PagingSkipsNothing, logs
<1>. QED
  BY <1>1, <1>2, <1>3, <1>4, <1>5, QuietSteps
  DEF StatsNext, Render, CountTile, CountTotal, DailyCounts, CountBy

LEMMA ExportStep ==
  Inv /\ ExportIsWholeOrMarked /\ [StatsNext]_statsVars => ExportIsWholeOrMarked'
<1>. SUFFICES ASSUME Inv, ExportIsWholeOrMarked, [StatsNext]_statsVars, export' = "whole", ~cut'
              PROVE  logs(missing', Window', view'.users, view'.hosts) = {}
  BY DEF ExportIsWholeOrMarked
<1>. USE DEF Inv
<1>1. ASSUME NEW v \in Views, OpenStats(v) \/ AskCSV(v) PROVE FALSE
  BY <1>1 DEF OpenStats, AskCSV
<1>2. CASE TurnPage
  BY <1>2 DEF TurnPage, Finite, exportVars
<1>3. CASE Render
  BY <1>3 DEF Render, CountTile, CountTotal, DailyCounts, CountBy, ShowRecent, FailStats, Show,
              Finite, exportVars
<1>4. CASE EndCSV
  <2>1. UNCHANGED <<view, asked, missing, cut>> /\ left = {} /\ step = 11
    BY <1>4 DEF EndCSV, askVars, history
  <2>. QED BY <2>1 DEF Unsent, Window
<1>5. CASE EachLog \/ SendRow \/ Break
  BY <1>5 DEF EachLog, SendRow, Break, Finite
<1>6. CASE UNCHANGED <<askVars, export, history>>
  BY <1>6 DEF ExportIsWholeOrMarked, Window, askVars, history
<1>7. ASSUME NEW k \in Kinds, NEW lag \in Lags, InsertRow(k, lag)
      PROVE  UNCHANGED <<askVars, export, history>>
  BY <1>7 DEF InsertRow, exportVars
<1>8. ASSUME NEW u, DeleteRows(u) PROVE FALSE
  BY <1>8 DEF DeleteRows
<1>9. CASE StatsTick \/ UNCHANGED statsVars
  BY <1>6, <1>9 DEF StatsTick, statsVars, exportVars
<1>. QED BY <1>1, <1>2, <1>3, <1>4, <1>5, <1>6, <1>7, <1>8, <1>9 DEF StatsNext, WriteCSV

-----------------------------------------------------------------------------
LEMMA StatsInvariant ==
  StatsSpec => [](Inv /\ Numbers /\ PagingSkipsNothing /\ ExportIsWholeOrMarked)
<1>. DEFINE AllInv == Inv /\ Numbers /\ PagingSkipsNothing /\ ExportIsWholeOrMarked
<1>1. StatsInit => AllInv
  <2>. SUFFICES ASSUME StatsInit PROVE AllInv
    OBVIOUS
  <2>. USE StatsAssumption DEF StatsInit
  <2>1. NumbersOK
    BY DEF NumbersOK
  <2>2. StatsTypeOK
    <3>1. rows = {} /\ nextId = 1 /\ now = 0 /\ step = 0 /\ view \in Views /\ asked = 0
      OBVIOUS
    <3>2. turned = 0 /\ left = {} /\ missing = {} /\ export = "none"
      OBVIOUS
    <3>3. more \in BOOLEAN /\ cut \in BOOLEAN
      BY Zenon
    <3>. QED BY <2>1, <3>1, <3>2, <3>3 DEF StatsTypeOK
  <2>3. Finite
    BY FS_EmptySet DEF Finite
  <2>4. Behind /\ Unsent
    BY DEF Behind, Unsent
  <2>5. Len(num) = 0 /\ DOMAIN num = {}
    OBVIOUS
  <2>6. Counts /\ TilesNest /\ TablesCoverTotal
    BY <2>5 DEF Counts, TilesNest, TablesCoverTotal
  <2>7. PagingSkipsNothing /\ ExportIsWholeOrMarked
    BY DEF PagingSkipsNothing, ExportIsWholeOrMarked
  <2>. QED BY <2>2, <2>3, <2>4, <2>6, <2>7 DEF Inv, Numbers
<1>2. AllInv /\ [StatsNext]_statsVars => AllInv'
  BY StatsTypeStep, BehindStep, UnsentStep, NumbersStep, PagingStep, ExportStep DEF Inv, Numbers
<1>. QED BY <1>1, <1>2, PTL DEF StatsSpec

(* Every variable has its type.                                            *)
THEOREM StatsTypeCorrect == StatsSpec => []StatsTypeOK
BY StatsInvariant, PTL DEF Inv

(* The numbers of a page nest, and the chart and the tables have every row *)
(* of the total unless they are cut, for any rows that come while the page *)
(* is made (stats.go:105-153, 243-272).                                    *)
THEOREM NumbersAddUp == StatsSpec => []PageAddsUp
BY StatsInvariant, PTL DEF Numbers, PageAddsUp

(* Turning pages to the last misses no row that was there at the start     *)
(* (stats.go:155-168, store.go:355-368).                                   *)
THEOREM NoRowSkipped == StatsSpec => []PagingSkipsNothing
BY StatsInvariant, PTL

(* An export without a mark has every row that was there when it was asked *)
(* for (stats.go:404-426, store.go:371-386).                               *)
THEOREM UnmarkedExportWhole == StatsSpec => []ExportIsWholeOrMarked
BY StatsInvariant, PTL

-----------------------------------------------------------------------------
(* The list of routes.  Where a visitor's sort stands.                     *)
Row(v) == place[v][1]
Col(v) == place[v][2]
List(v) == array[mine[v]]

(* The list once v has put the element it has in its hands.                *)
Swapped(v) == [List(v) EXCEPT ![Col(v) - 1] = temp[v]]

(* In order up to the row i, apart from what may be before its column j.   *)
SortedTo(s, i, j) ==
  \A l \in 1..Len(s) : \A k \in 1..(l - 1) : l <= i /\ l # j => s[k] < s[l]

PlaceOK(v) ==
  /\ at[v] \in {"idle", "get"} => mine[v] = 0
  /\ at[v] \notin Sorting => place[v] = <<2, 2>>
  /\ at[v] \notin {"list", "done"} => listed[v] = <<>>
  /\ at[v] \in Sorting =>
       /\ 2 <= Row(v) /\ 1 <= Col(v) /\ Col(v) <= Row(v)
       /\ Row(v) <= Len(List(v)) \/ Col(v) = Row(v)
  /\ at[v] \in {"copy", "put"} =>
       2 <= Col(v) /\ Row(v) <= Len(List(v)) /\ temp[v] \in Hosts

(* An array no two visitors have sorted at the same time is an order of    *)
(* what was loaded, or will be with the element in the hands of the one    *)
(* who sorts it.                                                           *)
ArrayOK(a) ==
  InUse(a) /\ a \notin torn =>
    /\ (\A w \in Visitors : mine[w] = a => at[w] # "put") => array[a] \in Orders(loaded[a])
    /\ \A w \in Visitors : mine[w] = a /\ at[w] = "copy" => temp[w] = array[a][Col(w)]
    /\ \A w \in Visitors : mine[w] = a /\ at[w] = "put" =>
         /\ Swapped(w) \in Orders(loaded[a])
         /\ \A u \in Visitors : mine[u] = a /\ at[u] = "put" => u = w

(* A visitor no other one got in the way of works on such an array, and    *)
(* finds it as it left it.                                                 *)
VisitorOK(v) ==
  v \notin raced /\ mine[v] # 0 =>
    /\ at[v] \in Sorting \cup {"list"} =>
         /\ mine[v] \notin torn
         /\ \A w \in Visitors : w # v /\ mine[w] = mine[v] => at[w] # "put"
    /\ at[v] = "sort" => SortedTo(List(v), Row(v), Col(v))
    /\ at[v] = "copy" =>
         SortedTo(List(v), Row(v), Col(v)) /\ List(v)[Col(v)] < List(v)[Col(v) - 1]
    /\ at[v] = "put" => SortedTo(Swapped(v), Row(v), Col(v) - 1)
    /\ at[v] = "list" =>
         /\ InOrder(List(v))
         /\ Len(listed[v]) <= Len(List(v))
         /\ \A k \in 1..Len(listed[v]) : listed[v][k] = List(v)[k]
    /\ at[v] = "done" => IsRight(v) /\ InOrder(listed[v])

Typed ==
  /\ RoutesTypeOK
  /\ \A v \in Visitors : PlaceOK(v)
  /\ \A a \in torn : InUse(a)

Lists ==
  /\ Typed
  /\ \A a \in Arrays : ArrayOK(a)
  /\ \A v \in Visitors : VisitorOK(v)

-----------------------------------------------------------------------------
LEMMA OrdersAre ==
  ASSUME NEW S \in SUBSET Hosts, NEW s \in Orders(S)
  PROVE  /\ Cardinality(S) \in Nat
         /\ s \in [1..Cardinality(S) -> S] /\ s \in Seq(Hosts) /\ Len(s) = Cardinality(S)
         /\ {s[k] : k \in DOMAIN s} = S
         /\ \A k, l \in 1..Len(s) : s[k] \in S /\ (s[k] = s[l] => k = l)
<1>. DEFINE n == Cardinality(S)
<1>1. IsFiniteSet(S) /\ n \in Nat
  BY RoutesAssumption, FS_Subset, FS_CardinalityType
<1>2. s \in [1..n -> S] /\ \A x \in S : \E k \in DOMAIN s : s[k] = x
  BY DEF Orders
<1>. HIDE DEF n
<1>3. s \in Seq(S) /\ Len(s) = n
  BY <1>1, <1>2
<1>4. s \in Seq(Hosts)
  BY <1>1, <1>2
<1>5. {s[k] : k \in DOMAIN s} = S
  BY <1>2
<1>6. s \in Surjection(1..n, S)
  BY <1>2 DEF Surjection
<1>7. IsFiniteSet(1..n) /\ Cardinality(1..n) = n
  BY <1>1, FS_Interval
<1>8. s \in Injection(1..n, S)
  BY <1>1, <1>6, <1>7, FS_SurjSameCardinalityImpliesInj DEF n
<1>9. \A k, l \in 1..n : s[k] = s[l] => k = l
  BY <1>2, <1>8, Zenon DEF Injection, IsInjective
<1>. QED BY <1>1, <1>2, <1>3, <1>4, <1>5, <1>9 DEF n

LEMMA SwapOrders ==
  ASSUME NEW S \in SUBSET Hosts, NEW s \in Orders(S), NEW j \in 2..Len(s)
  PROVE  [[s EXCEPT ![j] = s[j - 1]] EXCEPT ![j - 1] = s[j]] \in Orders(S)
<1>. DEFINE t == [[s EXCEPT ![j] = s[j - 1]] EXCEPT ![j - 1] = s[j]]
<1>1. /\ s \in [1..Len(s) -> S] /\ Len(s) = Cardinality(S) /\ Len(s) \in Nat
      /\ \A x \in S : \E k \in 1..Len(s) : s[k] = x
  BY OrdersAre DEF Orders
<1>2. /\ t \in [1..Len(s) -> S]
      /\ t[j] = s[j - 1] /\ t[j - 1] = s[j]
      /\ \A k \in 1..Len(s) : k # j /\ k # j - 1 => t[k] = s[k]
  BY <1>1
<1>. HIDE DEF t
<1>3. ASSUME NEW x \in S PROVE \E k \in DOMAIN t : t[k] = x
  <2>1. PICK k \in 1..Len(s) : s[k] = x
    BY <1>1
  <2>2. j - 1 \in 1..Len(s) /\ j \in 1..Len(s)
    BY <1>1
  <2>3. CASE k = j
    BY <1>2, <2>1, <2>2, <2>3
  <2>4. CASE k = j - 1
    BY <1>2, <2>1, <2>2, <2>4
  <2>5. CASE k # j /\ k # j - 1
    BY <1>2, <2>1, <2>5
  <2>. QED BY <2>3, <2>4, <2>5
<1>4. t \in Orders(S)
  BY <1>1, <1>2, <1>3 DEF Orders
<1>. QED BY <1>4 DEF t

(* Insertion sort: the next row, if the element need not move ...          *)
LEMMA NextRow ==
  ASSUME NEW S \in SUBSET Hosts, NEW s \in Orders(S), NEW i \in Nat, NEW j \in Nat,
         1 <= j, j <= i, i <= Len(s), SortedTo(s, i, j), ~(j > 1 /\ s[j] < s[j - 1])
  PROVE  SortedTo(s, i + 1, i + 1)
<1>1. Len(s) \in Nat /\ \A k, l \in 1..Len(s) : s[k] \in Nat /\ (s[k] = s[l] => k = l)
  <2>1. Len(s) \in Nat /\ \A k, l \in 1..Len(s) : s[k] \in S /\ (s[k] = s[l] => k = l)
    BY OrdersAre
  <2>. QED BY <2>1, RoutesAssumption
<1>2. \A l \in 1..Len(s) : \A k \in 1..(l - 1) : l <= i /\ l # j => s[k] < s[l]
  BY DEF SortedTo
<1>3. ASSUME NEW k \in 1..(j - 1) PROVE s[k] < s[j]
  <2>1. j \in 1..Len(s) /\ j - 1 \in 1..Len(s) /\ k \in 1..Len(s) /\ j > 1
    BY <1>1
  <2>2. s[j - 1] \in Nat /\ s[j] \in Nat /\ s[k] \in Nat /\ s[j - 1] # s[j]
    BY <1>1, <2>1
  <2>3. s[j - 1] < s[j]
    BY <2>1, <2>2
  <2>4. CASE k = j - 1
    BY <2>3, <2>4
  <2>5. CASE k # j - 1
    <3>1. s[k] < s[j - 1]
      BY <1>2, <2>1, <2>5
    <3>. QED BY <2>2, <2>3, <3>1
  <2>. QED BY <2>4, <2>5
<1>4. ASSUME NEW l \in 1..Len(s), NEW k \in 1..(l - 1), l <= i + 1, l # i + 1 PROVE s[k] < s[l]
  BY <1>1, <1>2, <1>3, <1>4
<1>. QED BY <1>4 DEF SortedTo

(* ... and the same row, if it has to go before its neighbour.             *)
LEMMA NextCol ==
  ASSUME NEW S \in SUBSET Hosts, NEW s \in Orders(S), NEW i \in Nat, NEW j \in Nat,
         2 <= j, j <= i, i <= Len(s), SortedTo(s, i, j), s[j] < s[j - 1]
  PROVE  SortedTo([[s EXCEPT ![j] = s[j - 1]] EXCEPT ![j - 1] = s[j]], i, j - 1)
<1>. DEFINE t == [[s EXCEPT ![j] = s[j - 1]] EXCEPT ![j - 1] = s[j]]
<1>1. Len(s) \in Nat /\ \A k \in 1..Len(s) : s[k] \in Nat
  <2>1. Len(s) \in Nat /\ \A k \in 1..Len(s) : s[k] \in S
    BY OrdersAre
  <2>. QED BY <2>1, RoutesAssumption
<1>2. s \in [1..Len(s) -> S]
  BY OrdersAre
<1>3. /\ t \in Orders(S)
      /\ t[j] = s[j - 1] /\ t[j - 1] = s[j]
      /\ \A k \in 1..Len(s) : k # j /\ k # j - 1 => t[k] = s[k]
  <2>1. j \in 1..Len(s) /\ j - 1 \in 1..Len(s) /\ j # j - 1 /\ j \in 2..Len(s)
    BY <1>1
  <2>2. t \in Orders(S)
    BY <2>1, SwapOrders
  <2>. QED BY <1>2, <2>1, <2>2
<1>. HIDE DEF t
<1>4. Len(t) = Len(s)
  BY <1>3, OrdersAre
<1>5. \A l \in 1..Len(s) : \A k \in 1..(l - 1) : l <= i /\ l # j => s[k] < s[l]
  BY DEF SortedTo
<1>6. ASSUME NEW l \in 1..Len(s), NEW k \in 1..(l - 1), l <= i, l # j - 1 PROVE t[k] < t[l]
  <2>1. CASE l = j /\ k = j - 1
    BY <1>3, <2>1
  <2>2. CASE l = j /\ k # j - 1
    <3>1. s[k] < s[j - 1]
      BY <1>1, <1>5, <1>6, <2>2
    <3>. QED BY <1>1, <1>3, <2>2, <3>1
  <2>3. CASE l # j /\ k = j
    <3>1. s[j - 1] < s[l]
      BY <1>1, <1>5, <1>6, <2>3
    <3>. QED BY <1>1, <1>3, <1>6, <2>3, <3>1
  <2>4. CASE l # j /\ k = j - 1
    <3>1. s[j] < s[l]
      BY <1>1, <1>5, <1>6, <2>4
    <3>. QED BY <1>1, <1>3, <1>6, <2>4, <3>1
  <2>5. CASE l # j /\ k # j /\ k # j - 1
    <3>1. s[k] < s[l]
      BY <1>1, <1>5, <1>6, <2>5
    <3>. QED BY <1>1, <1>3, <1>6, <2>5, <3>1
  <2>. QED BY <2>1, <2>2, <2>3, <2>4, <2>5
<1>7. SortedTo(t, i, j - 1)
  BY <1>4, <1>6 DEF SortedTo
<1>. QED BY <1>7 DEF t

-----------------------------------------------------------------------------
(* Types, and where a sort may stand, are invariant: an array may be       *)
(* written under a sort, but it stays as long as it was.                   *)
LEMMA Starts == RoutesInit => Lists
<1>. SUFFICES ASSUME RoutesInit PROVE Lists
  OBVIOUS
<1>1. RoutesTypeOK
  <2>1. <<>> \in Seq(Hosts) /\ {} \in SUBSET Hosts /\ <<2, 2>> \in Nat \X Nat
    OBVIOUS
  <2>. QED BY <2>1 DEF RoutesInit, RoutesTypeOK, Sorting
<1>2. (\A v \in Visitors : PlaceOK(v)) /\ torn = {}
  BY DEF RoutesInit, PlaceOK, Sorting
<1>3. Typed
  BY <1>1, <1>2 DEF Typed
<1>4. \A v \in Visitors : VisitorOK(v)
  BY DEF RoutesInit, VisitorOK
<1>5. \A a \in Arrays : ~InUse(a)
  BY RoutesAssumption DEF RoutesInit, InUse
<1>. QED BY <1>3, <1>4, <1>5 DEF Lists, ArrayOK

LEMMA KeepTypes ==
  ASSUME NEW kept, NEW arrays \in [Arrays -> Seq(Hosts)], NEW hosts \in [Arrays -> SUBSET Hosts],
         torn \subseteq Arrays,
         array' = [a \in Arrays |-> IF a \in kept THEN arrays[a] ELSE <<>>],
         loaded' = [a \in Arrays |-> IF a \in kept THEN hosts[a] ELSE {}],
         torn' = torn \cap kept
  PROVE  /\ array' \in [Arrays -> Seq(Hosts)] /\ loaded' \in [Arrays -> SUBSET Hosts]
         /\ torn' \subseteq Arrays /\ torn' = torn \cap kept
         /\ \A a \in Arrays \cap kept : array'[a] = arrays[a] /\ loaded'[a] = hosts[a]
<1>1. <<>> \in Seq(Hosts) /\ {} \in SUBSET Hosts
  OBVIOUS
<1>. QED BY <1>1

(* An element of the array is written.                                     *)
LEMMA WriteTypes ==
  ASSUME NEW f \in [Arrays -> Seq(Hosts)], NEW a \in Arrays, NEW j \in Nat, NEW h \in Hosts
  PROVE  /\ [f EXCEPT ![a][j] = h] \in [Arrays -> Seq(Hosts)]
         /\ [f EXCEPT ![a][j] = h][a] = [f[a] EXCEPT ![j] = h]
         /\ Len([f[a] EXCEPT ![j] = h]) = Len(f[a])
         /\ \A b \in Arrays : b # a => [f EXCEPT ![a][j] = h][b] = f[b]
<1>1. f[a] \in Seq(Hosts)
  OBVIOUS
<1>2. [f[a] EXCEPT ![j] = h] \in Seq(Hosts) /\ Len([f[a] EXCEPT ![j] = h]) = Len(f[a])
  <2>. DEFINE s == f[a]
              r == [s EXCEPT ![j] = h]
  <2>1. s \in [1..Len(s) -> Hosts] /\ Len(s) \in Nat
    BY <1>1
  <2>2. r \in [1..Len(s) -> Hosts]
    BY <2>1
  <2>. HIDE DEF r
  <2>3. r \in Seq(Hosts) /\ Len(r) = Len(s)
    BY <2>1, <2>2
  <2>. QED BY <2>3 DEF r
<1>. QED BY <1>2

(* What v's own locals become decides where its sort stands; the others'   *)
(* do not change, and their arrays stay as long.                           *)
LEMMA PlaceKept ==
  ASSUME Typed, NEW u \in Visitors,
         at'[u] = at[u], mine'[u] = mine[u], place'[u] = place[u], temp'[u] = temp[u],
         listed'[u] = listed[u],
         at[u] \in Sorting => Len(array'[mine[u]]) = Len(array[mine[u]])
  PROVE  PlaceOK(u)'
BY DEF Typed, PlaceOK, Row, Col, List, Sorting

LEMMA VisitTyped ==
  ASSUME Typed, NEW v \in Visitors, NEW isAdmin \in BOOLEAN, Visit(v, isAdmin)
  PROVE  Typed'
<1>. USE DEF Visit, Become
<1>1. RoutesTypeOK'
  BY Zenon DEF Typed, RoutesTypeOK, Sorting
<1>2. ASSUME NEW u \in Visitors PROVE PlaceOK(u)'
  <2>1. CASE u = v
    BY <2>1 DEF Typed, RoutesTypeOK, PlaceOK, Sorting
  <2>2. CASE u # v
    BY <2>2, PlaceKept DEF Typed, RoutesTypeOK
  <2>. QED BY <2>1, <2>2
<1>3. \A a \in torn : InUse(a)'
  BY DEF Typed, InUse
<1>. QED BY <1>1, <1>2, <1>3 DEF Typed

LEMMA TakeTyped ==
  ASSUME Typed, NEW v \in Visitors, NEW a \in Arrays \cup {0}, at[v] \in {"get", "load"},
         mine[v] \in {0, a}, Take(v, a),
         UNCHANGED <<policies, cached, fresh, array, admin, read, place, temp, listed, loaded, torn>>
  PROVE  Typed'
<1>. USE DEF Take, Become
<1>1. RoutesTypeOK'
  BY DEF Typed, RoutesTypeOK, Sorting
<1>2. ASSUME NEW u \in Visitors PROVE PlaceOK(u)'
  <2>1. CASE u = v
    <3>1. at'[v] \in {"done", "sort"} /\ at[v] \notin Sorting
      BY DEF Typed, RoutesTypeOK, Sorting
    <3>2. place'[v] = <<2, 2>> /\ listed'[v] = <<>>
      BY <3>1 DEF Typed, PlaceOK, Sorting
    <3>. QED BY <2>1, <3>1, <3>2 DEF PlaceOK, Sorting, Row, Col
  <2>2. CASE u # v
    BY <2>2, PlaceKept DEF Typed, RoutesTypeOK
  <2>. QED BY <2>1, <2>2
<1>3. ASSUME NEW b \in torn PROVE InUse(b)'
  <2>1. b \in Arrays /\ b # 0
    BY RoutesAssumption DEF Typed, RoutesTypeOK
  <2>. QED BY <2>1 DEF Typed, RoutesTypeOK, InUse
<1>. QED BY <1>1, <1>2, <1>3 DEF Typed

LEMMA GetTyped ==
  ASSUME Typed, NEW v \in Visitors, GetRoutes(v)
  PROVE  Typed'
<1>0. mine[v] = 0 /\ at[v] = "get" /\ cached \in Arrays \cup {0}
  BY DEF GetRoutes, Typed, RoutesTypeOK, PlaceOK
<1>1. CASE fresh
  BY <1>0, <1>1, TakeTyped DEF GetRoutes
<1>2. CASE ~fresh
  <2>. USE <1>2 DEF GetRoutes, Become
  <2>1. RoutesTypeOK'
    BY <1>0 DEF Typed, RoutesTypeOK, Sorting
  <2>2. ASSUME NEW u \in Visitors PROVE PlaceOK(u)'
    <3>1. CASE u = v
      BY <1>0, <3>1 DEF Typed, RoutesTypeOK, PlaceOK, Sorting
    <3>2. CASE u # v
      BY <3>2, PlaceKept DEF Typed, RoutesTypeOK
    <3>. QED BY <3>1, <3>2
  <2>3. ASSUME NEW b \in torn PROVE InUse(b)'
    <3>1. b \in Arrays /\ b # 0
      BY RoutesAssumption DEF Typed, RoutesTypeOK
    <3>. QED BY <1>0, <3>1 DEF Typed, RoutesTypeOK, InUse
  <2>. QED BY <2>1, <2>2, <2>3 DEF Typed
<1>. QED BY <1>1, <1>2

LEMMA LoadTyped ==
  ASSUME Typed, NEW v \in Visitors, NEW a \in Arrays, NEW S \in Answers, LoadRoutes(v, a, S)
  PROVE  Typed'
<1>. DEFINE kept == {a} \cup {mine[w] : w \in Visitors \ {v}}
<1>0. S \in SUBSET Hosts
  BY RoutesAssumption
<1>1. PICK s \in Orders(S) :
        Keep(kept, [array EXCEPT ![a] = s], [loaded EXCEPT ![a] = S])
  BY DEF LoadRoutes
<1>2. s \in Seq(Hosts)
  BY <1>0, OrdersAre
<1>3. /\ [array EXCEPT ![a] = s] \in [Arrays -> Seq(Hosts)]
      /\ [loaded EXCEPT ![a] = S] \in [Arrays -> SUBSET Hosts]
      /\ torn \subseteq Arrays
  BY <1>0, <1>2 DEF Typed, RoutesTypeOK
<1>. HIDE DEF kept
<1>4. /\ array' \in [Arrays -> Seq(Hosts)] /\ loaded' \in [Arrays -> SUBSET Hosts]
      /\ torn' \subseteq Arrays /\ torn' = torn \cap kept
      /\ \A b \in Arrays \cap kept : array'[b] = [array EXCEPT ![a] = s][b]
  <2>. DEFINE arrays == [array EXCEPT ![a] = s]
              hosts == [loaded EXCEPT ![a] = S]
  <2>1. /\ array' = [b \in Arrays |-> IF b \in kept THEN arrays[b] ELSE <<>>]
        /\ loaded' = [b \in Arrays |-> IF b \in kept THEN hosts[b] ELSE {}]
        /\ torn' = torn \cap kept
    BY <1>1 DEF Keep
  <2>2. arrays \in [Arrays -> Seq(Hosts)] /\ hosts \in [Arrays -> SUBSET Hosts]
    BY <1>3
  <2>. HIDE DEF arrays, hosts
  <2>3. /\ array' \in [Arrays -> Seq(Hosts)] /\ loaded' \in [Arrays -> SUBSET Hosts]
        /\ torn' \subseteq Arrays /\ torn' = torn \cap kept
        /\ \A b \in Arrays \cap kept : array'[b] = arrays[b]
    BY <1>3, <2>1, <2>2, KeepTypes
  <2>. QED BY <2>3 DEF arrays
<1>. USE DEF kept
<1>5. /\ at[v] = "load" /\ ~InUse(a) /\ cached' = a /\ fresh' = TRUE
      /\ at' = [at EXCEPT ![v] = "sort"] /\ mine' = [mine EXCEPT ![v] = a]
      /\ UNCHANGED <<policies, admin, read, place, temp, listed, raced>>
  BY DEF LoadRoutes, Become
<1>6. RoutesTypeOK'
  BY <1>4, <1>5, RoutesAssumption DEF Typed, RoutesTypeOK, Sorting
<1>7. ASSUME NEW u \in Visitors PROVE PlaceOK(u)'
  <2>1. CASE u = v
    <3>1. place[v] = <<2, 2>> /\ listed[v] = <<>>
      BY <1>5 DEF Typed, PlaceOK, Sorting
    <3>2. at'[v] = "sort" /\ place'[v] = <<2, 2>> /\ listed'[v] = <<>>
      BY <1>5, <3>1 DEF Typed, RoutesTypeOK
    <3>3. Row(v)' = 2 /\ Col(v)' = 2
      BY <3>2 DEF Row, Col
    <3>. QED BY <2>1, <3>2, <3>3 DEF PlaceOK, Sorting
  <2>2. CASE u # v
    <3>1. /\ at'[u] = at[u] /\ mine'[u] = mine[u] /\ place'[u] = place[u] /\ temp'[u] = temp[u]
          /\ listed'[u] = listed[u]
      BY <1>5, <2>2 DEF Typed, RoutesTypeOK
    <3>2. ASSUME at[u] \in Sorting PROVE array'[mine[u]] = array[mine[u]]
      <4>1. mine[u] \in Arrays \cap kept /\ mine[u] # a
        BY <1>5, <2>2, <3>2 DEF Typed, RoutesTypeOK, InUse
      <4>. QED BY <1>4, <4>1 DEF Typed, RoutesTypeOK
    <3>. QED BY <3>1, <3>2, PlaceKept
  <2>. QED BY <2>1, <2>2
<1>8. \A b \in torn' : InUse(b)'
  BY <1>4, <1>5 DEF Typed, RoutesTypeOK, InUse
<1>. QED BY <1>6, <1>7, <1>8 DEF Typed

LEMMA LoadFailsTyped ==
  ASSUME Typed, NEW v \in Visitors, LoadFails(v)
  PROVE  Typed'
BY TakeTyped DEF LoadFails, Typed, RoutesTypeOK

LEMMA CompareTyped ==
  ASSUME Typed, NEW v \in Visitors, Compare(v)
  PROVE  Typed'
<1>. DEFINE s == List(v)
            i == Row(v)
            j == Col(v)
<1>1. /\ at[v] = "sort" /\ mine[v] \in Arrays /\ s \in Seq(Hosts)
      /\ i \in Nat /\ j \in Nat /\ 2 <= i /\ 1 <= j /\ j <= i /\ (i <= Len(s) \/ j = i)
      /\ listed[v] = <<>> /\ place[v] = <<i, j>>
  <2>1. at[v] = "sort" /\ at[v] \in Sorting
    BY DEF Compare, Sorting
  <2>2. mine[v] \in Arrays /\ place[v] \in Nat \X Nat /\ s \in Seq(Hosts)
    BY <2>1 DEF Typed, RoutesTypeOK, List
  <2>3. i \in Nat /\ j \in Nat /\ place[v] = <<i, j>>
    BY <2>2 DEF Row, Col
  <2>4. 2 <= i /\ 1 <= j /\ j <= i /\ (i <= Len(s) \/ j = i) /\ listed[v] = <<>>
    BY <2>1 DEF Typed, PlaceOK
  <2>. QED BY <2>1, <2>2, <2>3, <2>4
<1>2. UNCHANGED <<policies, cached, fresh, array, admin, read, mine, listed, loaded, torn, raced>>
  BY DEF Compare
<1>. SUFFICES RoutesTypeOK' /\ PlaceOK(v)' /\ \A u \in Visitors \ {v} :
                at'[u] = at[u] /\ place'[u] = place[u] /\ temp'[u] = temp[u]
  <2>1. ASSUME NEW u \in Visitors \ {v}, at'[u] = at[u] /\ place'[u] = place[u] /\ temp'[u] = temp[u]
        PROVE  PlaceOK(u)'
    BY <1>2, <2>1, PlaceKept
  <2>2. \A b \in torn' : InUse(b)'
    BY <1>2 DEF Typed, InUse
  <2>. QED BY <2>1, <2>2 DEF Typed
<1>3. CASE i > Len(s)
  <2>1. at' = [at EXCEPT ![v] = "list"] /\ place' = [place EXCEPT ![v] = <<2, 2>>] /\ temp' = temp
    BY <1>3 DEF Compare, Become, List, Row
  <2>. QED BY <1>1, <1>2, <2>1 DEF Typed, RoutesTypeOK, PlaceOK, Sorting
<1>4. CASE i <= Len(s) /\ j > 1 /\ s[j] < s[j - 1]
  <2>1. at' = [at EXCEPT ![v] = "copy"] /\ temp' = [temp EXCEPT ![v] = s[j]] /\ place' = place
    BY <1>1, <1>4 DEF Compare, Become, List, Row, Col, Less
  <2>2. s[j] \in Hosts
    BY <1>1, <1>4
  <2>3. RoutesTypeOK'
    BY <1>1, <1>2, <2>1, <2>2 DEF Typed, RoutesTypeOK, Sorting
  <2>4. at'[v] = "copy" /\ temp'[v] = s[j] /\ Row(v)' = i /\ Col(v)' = j /\ List(v)' = s
    BY <1>2, <2>1 DEF Typed, RoutesTypeOK, Row, Col, List
  <2>5. PlaceOK(v)'
    BY <1>1, <1>2, <1>4, <2>2, <2>4 DEF PlaceOK, Sorting
  <2>. QED BY <2>1, <2>3, <2>5 DEF Typed, RoutesTypeOK
<1>5. CASE i <= Len(s) /\ ~(j > 1 /\ s[j] < s[j - 1])
  <2>1. place' = [place EXCEPT ![v] = <<i + 1, i + 1>>] /\ at' = at /\ temp' = temp
    BY <1>1, <1>5 DEF Compare, Become, List, Row, Col, Less
  <2>2. RoutesTypeOK'
    BY <1>1, <1>2, <2>1 DEF Typed, RoutesTypeOK, Sorting
  <2>3. at'[v] = "sort" /\ Row(v)' = i + 1 /\ Col(v)' = i + 1 /\ List(v)' = s
    BY <1>1, <1>2, <2>1 DEF Typed, RoutesTypeOK, Row, Col, List
  <2>4. PlaceOK(v)'
    BY <1>1, <1>2, <1>5, <2>3 DEF PlaceOK, Sorting
  <2>. QED BY <2>1, <2>2, <2>4 DEF Typed, RoutesTypeOK
<1>. QED BY <1>1, <1>3, <1>4, <1>5

LEMMA ListTyped ==
  ASSUME Typed, NEW v \in Visitors, ListRoute(v)
  PROVE  Typed'
<1>. DEFINE s == List(v)
            n == Len(listed[v]) + 1
<1>1. at[v] = "list" /\ mine[v] \in Arrays /\ s \in Seq(Hosts) /\ listed[v] \in Seq(Hosts)
  BY DEF ListRoute, Typed, RoutesTypeOK, List
<1>2. UNCHANGED <<policies, cached, fresh, array, admin, read, mine, place, temp, loaded, torn, raced>>
  BY DEF ListRoute
<1>3. \/ /\ n <= Len(s) /\ at' = at
         /\ listed' = [listed EXCEPT ![v] = Append(@, s[n])]
      \/ at' = [at EXCEPT ![v] = "done"] /\ listed' = listed
  BY DEF ListRoute, Become, List
<1>4. /\ listed' \in [Visitors -> Seq(Hosts)] /\ at'[v] \in {"list", "done"}
      /\ at' \in [Visitors -> {"idle", "get", "load", "list", "done"} \cup Sorting]
      /\ \A u \in Visitors \ {v} : at'[u] = at[u] /\ listed'[u] = listed[u]
  <2>1. CASE n <= Len(s) /\ at' = at /\ listed' = [listed EXCEPT ![v] = Append(@, s[n])]
    <3>1. s[n] \in Hosts
      BY <1>1, <2>1
    <3>2. Append(listed[v], s[n]) \in Seq(Hosts)
      BY <1>1, <3>1
    <3>. QED BY <1>1, <2>1, <3>2 DEF Typed, RoutesTypeOK
  <2>2. CASE at' = [at EXCEPT ![v] = "done"] /\ listed' = listed
    BY <2>2 DEF Typed, RoutesTypeOK
  <2>. QED BY <1>3, <2>1, <2>2
<1>5. RoutesTypeOK'
  BY <1>1, <1>2, <1>4 DEF Typed, RoutesTypeOK, Sorting
<1>6. ASSUME NEW u \in Visitors PROVE PlaceOK(u)'
  <2>1. CASE u = v
    BY <1>1, <1>2, <1>4, <2>1 DEF Typed, PlaceOK, Sorting
  <2>2. CASE u # v
    BY <1>2, <1>4, <2>2, PlaceKept
  <2>. QED BY <2>1, <2>2
<1>7. \A b \in torn' : InUse(b)'
  BY <1>2 DEF Typed, InUse
<1>. QED BY <1>5, <1>6, <1>7 DEF Typed

LEMMA LeaveTyped ==
  ASSUME Typed, NEW v \in Visitors, Leave(v)
  PROVE  Typed'
<1>. DEFINE kept == {cached} \cup {mine[w] : w \in Visitors \ {v}}
<1>1. /\ array' \in [Arrays -> Seq(Hosts)] /\ loaded' \in [Arrays -> SUBSET Hosts]
      /\ torn' \subseteq Arrays /\ torn' = torn \cap kept
      /\ \A b \in Arrays \cap kept : array'[b] = array[b]
  <2>1. /\ array' = [b \in Arrays |-> IF b \in kept THEN array[b] ELSE <<>>]
        /\ loaded' = [b \in Arrays |-> IF b \in kept THEN loaded[b] ELSE {}]
        /\ torn' = torn \cap kept
    BY DEF Leave, Keep
  <2>2. array \in [Arrays -> Seq(Hosts)] /\ loaded \in [Arrays -> SUBSET Hosts] /\ torn \subseteq Arrays
    BY DEF Typed, RoutesTypeOK
  <2>. HIDE DEF kept
  <2>. QED BY <2>1, <2>2, KeepTypes
<1>2. /\ at[v] = "done" /\ at' = [at EXCEPT ![v] = "idle"] /\ admin' = [admin EXCEPT ![v] = FALSE]
      /\ read' = [read EXCEPT ![v] = {}] /\ mine' = [mine EXCEPT ![v] = 0]
      /\ listed' = [listed EXCEPT ![v] = <<>>] /\ raced' = raced \ {v}
      /\ UNCHANGED <<policies, cached, fresh, place, temp>>
  BY DEF Leave, Become
<1>3. RoutesTypeOK'
  <2>1. <<>> \in Seq(Hosts)
    OBVIOUS
  <2>. QED BY <1>1, <1>2, <2>1 DEF Typed, RoutesTypeOK, Sorting
<1>4. ASSUME NEW u \in Visitors PROVE PlaceOK(u)'
  <2>1. CASE u = v
    BY <1>2, <2>1 DEF Typed, RoutesTypeOK, PlaceOK, Sorting
  <2>2. CASE u # v
    <3>1. /\ at'[u] = at[u] /\ mine'[u] = mine[u] /\ place'[u] = place[u] /\ temp'[u] = temp[u]
          /\ listed'[u] = listed[u]
      BY <1>2, <2>2 DEF Typed, RoutesTypeOK
    <3>2. ASSUME at[u] \in Sorting PROVE array'[mine[u]] = array[mine[u]]
      <4>1. mine[u] \in Arrays \cap kept
        BY <2>2, <3>2 DEF Typed, RoutesTypeOK
      <4>. QED BY <1>1, <4>1
    <3>. QED BY <3>1, <3>2, PlaceKept
  <2>. QED BY <2>1, <2>2
<1>5. \A b \in torn' : InUse(b)'
  BY <1>1, <1>2 DEF Typed, RoutesTypeOK, InUse
<1>. QED BY <1>3, <1>4, <1>5 DEF Typed

(* Who exchanges two elements has two to exchange.                         *)
LEMMA Exchange ==
  ASSUME Typed, NEW v \in Visitors, at[v] \in {"copy", "put"}
  PROVE  /\ mine[v] \in Arrays /\ List(v) \in Seq(Hosts) /\ Len(List(v)) \in Nat
         /\ Row(v) \in Nat /\ Col(v) \in Nat /\ place[v] = <<Row(v), Col(v)>>
         /\ 2 <= Col(v) /\ Col(v) <= Row(v) /\ Row(v) <= Len(List(v))
         /\ temp[v] \in Hosts /\ listed[v] = <<>> /\ List(v)[Col(v) - 1] \in Hosts
<1>1. at[v] \in Sorting
  BY DEF Sorting
<1>2. mine[v] \in Arrays /\ place[v] \in Nat \X Nat /\ List(v) \in Seq(Hosts)
  BY <1>1 DEF Typed, RoutesTypeOK, List
<1>3. Row(v) \in Nat /\ Col(v) \in Nat /\ place[v] = <<Row(v), Col(v)>>
  BY <1>2 DEF Row, Col
<1>4. /\ 2 <= Col(v) /\ Col(v) <= Row(v) /\ Row(v) <= Len(List(v))
      /\ temp[v] \in Hosts /\ listed[v] = <<>>
  BY <1>1 DEF Typed, PlaceOK
<1>. QED BY <1>2, <1>3, <1>4

(* A write changes one element of the writer's array.                      *)
LEMMA WriteTyped ==
  ASSUME Typed, NEW v \in Visitors, at[v] \in {"copy", "put"}, Disturb(v),
         NEW k \in Nat, NEW h \in Hosts, array' = [array EXCEPT ![mine[v]][k] = h],
         NEW then \in Sorting, at' = [at EXCEPT ![v] = then],
         place' \in [Visitors -> Nat \X Nat], temp' \in [Visitors -> Hosts \cup {0}],
         \A u \in Visitors \ {v} : place'[u] = place[u] /\ temp'[u] = temp[u],
         UNCHANGED <<policies, cached, fresh, admin, read, mine, listed, loaded>>,
         PlaceOK(v)'
  PROVE  Typed'
<1>1. mine[v] \in Arrays
  BY Exchange
<1>2. array \in [Arrays -> Seq(Hosts)]
  BY DEF Typed, RoutesTypeOK
<1>3. /\ array' \in [Arrays -> Seq(Hosts)]
      /\ \A b \in Arrays : Len(array'[b]) = Len(array[b])
  <2>1. array' \in [Arrays -> Seq(Hosts)]
    BY <1>1, <1>2, WriteTypes
  <2>2. Len(array'[mine[v]]) = Len(array[mine[v]])
    BY <1>1, <1>2, WriteTypes
  <2>3. \A b \in Arrays : b # mine[v] => array'[b] = array[b]
    BY <1>1, <1>2
  <2>. QED BY <2>1, <2>2, <2>3
<1>4. /\ raced' \subseteq Visitors /\ torn' \subseteq Arrays
      /\ \A a \in torn' : a \in torn \/ a = mine[v]
  BY <1>1 DEF Disturb, Others, Typed, RoutesTypeOK
<1>5. RoutesTypeOK'
  BY <1>1, <1>3, <1>4 DEF Typed, RoutesTypeOK, Sorting
<1>6. ASSUME NEW u \in Visitors PROVE PlaceOK(u)'
  <2>1. CASE u # v
    <3>1. at[u] \in Sorting => Len(array'[mine[u]]) = Len(array[mine[u]])
      BY <1>3 DEF Typed, RoutesTypeOK
    <3>2. at'[u] = at[u]
      BY <2>1 DEF Typed, RoutesTypeOK
    <3>. QED BY <2>1, <3>1, <3>2, PlaceKept
  <2>. QED BY <2>1
<1>7. \A a \in torn' : InUse(a)'
  BY <1>4 DEF Typed, InUse
<1>. QED BY <1>5, <1>6, <1>7 DEF Typed

LEMMA CopyTyped ==
  ASSUME Typed, NEW v \in Visitors, Copy(v)
  PROVE  Typed'
<1>. DEFINE k == Col(v)
            h == List(v)[Col(v) - 1]
<1>1. at[v] = "copy" /\ Disturb(v)
  BY DEF Copy
<1>2. /\ array' = [array EXCEPT ![mine[v]][k] = h]
      /\ at' = [at EXCEPT ![v] = "put"]
      /\ UNCHANGED <<policies, cached, fresh, admin, read, mine, place, temp, listed, loaded>>
  BY DEF Copy, Become, Col, List
<1>3. /\ mine[v] \in Arrays /\ Row(v) \in Nat /\ k \in Nat /\ h \in Hosts /\ listed[v] = <<>>
      /\ 2 <= k /\ k <= Row(v) /\ Row(v) <= Len(List(v)) /\ temp[v] \in Hosts
  BY <1>1, Exchange
<1>4. Row(v)' = Row(v) /\ Col(v)' = k /\ Len(List(v)') = Len(List(v)) /\ at'[v] = "put"
  <2>1. array \in [Arrays -> Seq(Hosts)]
    BY DEF Typed, RoutesTypeOK
  <2>2. Len(array'[mine[v]]) = Len(array[mine[v]])
    BY <1>2, <1>3, <2>1, WriteTypes
  <2>. QED BY <1>2, <2>2 DEF Row, Col, List, Typed, RoutesTypeOK
<1>. HIDE DEF h, k
<1>5. PlaceOK(v)'
  BY <1>2, <1>3, <1>4 DEF PlaceOK, Sorting, k
<1>6. place' \in [Visitors -> Nat \X Nat] /\ temp' \in [Visitors -> Hosts \cup {0}]
  BY <1>2 DEF Typed, RoutesTypeOK
<1>7. "put" \in Sorting
  BY DEF Sorting
<1>. QED BY <1>1, <1>2, <1>3, <1>5, <1>6, <1>7, WriteTyped

LEMMA PutTyped ==
  ASSUME Typed, NEW v \in Visitors, Put(v)
  PROVE  Typed'
<1>. DEFINE k == Col(v) - 1
            h == temp[v]
<1>1. at[v] = "put" /\ Disturb(v)
  BY DEF Put
<1>2. /\ array' = [array EXCEPT ![mine[v]][k] = h]
      /\ at' = [at EXCEPT ![v] = "sort"]
      /\ place' = [place EXCEPT ![v] = <<Row(v), k>>] /\ temp' = [temp EXCEPT ![v] = 0]
      /\ UNCHANGED <<policies, cached, fresh, admin, read, mine, listed, loaded>>
  BY DEF Put, Become, Row, Col
<1>3. /\ mine[v] \in Arrays /\ Row(v) \in Nat /\ k \in Nat /\ h \in Hosts /\ listed[v] = <<>>
      /\ 1 <= k /\ k <= Row(v) /\ 2 <= Row(v) /\ Row(v) <= Len(List(v))
  BY <1>1, Exchange
<1>4. Row(v)' = Row(v) /\ Col(v)' = k /\ Len(List(v)') = Len(List(v)) /\ at'[v] = "sort"
  <2>1. array \in [Arrays -> Seq(Hosts)]
    BY DEF Typed, RoutesTypeOK
  <2>2. Len(array'[mine[v]]) = Len(array[mine[v]])
    BY <1>2, <1>3, <2>1, WriteTypes
  <2>. QED BY <1>2, <2>2 DEF Row, Col, List, Typed, RoutesTypeOK
<1>. HIDE DEF h, k
<1>5. PlaceOK(v)'
  BY <1>2, <1>3, <1>4 DEF PlaceOK, Sorting
<1>6. /\ place' \in [Visitors -> Nat \X Nat] /\ temp' \in [Visitors -> Hosts \cup {0}]
      /\ \A u \in Visitors \ {v} : place'[u] = place[u] /\ temp'[u] = temp[u]
  BY <1>2, <1>3 DEF Typed, RoutesTypeOK
<1>7. "sort" \in Sorting
  BY DEF Sorting
<1>. QED BY <1>1, <1>2, <1>3, <1>5, <1>6, <1>7, WriteTyped

LEMMA OutsideTyped ==
  ASSUME Typed,
         \/ \E h \in Managed : SetRoutePolicy(h) \/ DeleteRoutePolicy(h)
         \/ ExpireRoutes
  PROVE  Typed'
<1>1. Managed \subseteq Hosts
  BY RoutesAssumption
<1>2. RoutesTypeOK'
  <2>1. /\ UNCHANGED <<cached, array, visitVars, loaded, torn, raced>>
        /\ policies' \subseteq Hosts \ {AuthHost}
        /\ fresh' = fresh \/ fresh' = FALSE
    BY <1>1 DEF Typed, RoutesTypeOK, SetRoutePolicy, DeleteRoutePolicy, ExpireRoutes
  <2>2. CASE fresh' = fresh
    BY <2>1, <2>2 DEF Typed, RoutesTypeOK, visitVars
  <2>3. CASE fresh' = FALSE
    BY <2>1, <2>3 DEF Typed, RoutesTypeOK, visitVars
  <2>. QED BY <2>1, <2>2, <2>3
<1>3. \A u \in Visitors : PlaceOK(u)'
  BY PlaceKept DEF SetRoutePolicy, DeleteRoutePolicy, ExpireRoutes, visitVars
<1>4. \A a \in torn' : InUse(a)'
  BY DEF Typed, InUse, SetRoutePolicy, DeleteRoutePolicy, ExpireRoutes, visitVars
<1>. QED BY <1>2, <1>3, <1>4 DEF Typed

LEMMA TypedStep == Typed /\ [RoutesNext]_routesVars => Typed'
<1>. SUFFICES ASSUME Typed, [RoutesNext]_routesVars PROVE Typed'
  OBVIOUS
<1>1. ASSUME NEW v \in Visitors, Page(v) PROVE Typed'
  BY <1>1, VisitTyped, GetTyped, LoadTyped, LoadFailsTyped, CompareTyped, CopyTyped, PutTyped,
     ListTyped, LeaveTyped DEF Page
<1>2. CASE UNCHANGED routesVars
  <2>1. RoutesTypeOK'
    BY <1>2 DEF Typed, RoutesTypeOK, routesVars, visitVars, Sorting
  <2>2. \A u \in Visitors : PlaceOK(u)'
    BY <1>2, PlaceKept DEF routesVars, visitVars
  <2>3. \A a \in torn' : InUse(a)'
    BY <1>2 DEF Typed, InUse, routesVars, visitVars
  <2>. QED BY <2>1, <2>2, <2>3 DEF Typed
<1>. QED BY <1>1, <1>2, OutsideTyped DEF RoutesNext

(* The types of the program are as declared.                               *)
THEOREM RoutesTypeCorrect == RoutesSpec => []RoutesTypeOK
<1>1. RoutesInit => Typed
  BY Starts DEF Lists
<1>2. Typed => RoutesTypeOK
  BY DEF Typed
<1>. QED BY <1>1, <1>2, TypedStep, PTL DEF RoutesSpec

-----------------------------------------------------------------------------
(* A list in order has no neighbours to exchange, whoever sorts it again.  *)
LEMMA SettledStays ==
  ASSUME Typed, [RoutesNext]_routesVars, NEW a \in Arrays, Settled(a), InUse(a)'
  PROVE  Settled(a)' /\ array'[a] = array[a]
<1>0. /\ a # 0 /\ InOrder(array[a])
      /\ \A v \in Visitors : mine[v] = a => at[v] \notin {"copy", "put"}
      /\ array \in [Arrays -> Seq(Hosts)] /\ mine \in [Visitors -> Arrays \cup {0}]
      /\ at \in [Visitors -> {"idle", "get", "load", "list", "done"} \cup Sorting]
  BY RoutesAssumption DEF Settled, Typed, RoutesTypeOK
<1>. SUFFICES /\ array'[a] = array[a]
              /\ \A w \in Visitors : mine'[w] = a => at'[w] \notin {"copy", "put"}
  BY <1>0 DEF Settled, InOrder
<1>1. ASSUME NEW v \in Visitors, NEW isAdmin \in BOOLEAN, Visit(v, isAdmin)
      PROVE  /\ array'[a] = array[a]
             /\ \A w \in Visitors : mine'[w] = a => at'[w] \notin {"copy", "put"}
  BY <1>0, <1>1 DEF Visit, Become
<1>2. ASSUME NEW v \in Visitors, GetRoutes(v) \/ LoadFails(v)
      PROVE  /\ array'[a] = array[a]
             /\ \A w \in Visitors : mine'[w] = a => at'[w] \notin {"copy", "put"}
  BY <1>0, <1>2 DEF GetRoutes, LoadFails, Take, Become
<1>3. ASSUME NEW v \in Visitors, NEW b \in Arrays, NEW S \in Answers, LoadRoutes(v, b, S)
      PROVE  /\ array'[a] = array[a]
             /\ \A w \in Visitors : mine'[w] = a => at'[w] \notin {"copy", "put"}
  <2>. DEFINE kept == {b} \cup {mine[w] : w \in Visitors \ {v}}
  <2>1. ~InUse(b) /\ cached' = b /\ mine' = [mine EXCEPT ![v] = b] /\ at' = [at EXCEPT ![v] = "sort"]
    BY <1>3 DEF LoadRoutes, Become
  <2>2. a # b
    BY <2>1 DEF Settled
  <2>3. PICK w \in Visitors \ {v} : mine[w] = a
    BY <1>0, <2>1, <2>2 DEF InUse
  <2>4. PICK s : array' = [c \in Arrays |-> IF c \in kept THEN [array EXCEPT ![b] = s][c] ELSE <<>>]
    BY <1>3 DEF LoadRoutes, Keep
  <2>5. array'[a] = array[a]
    BY <1>0, <2>2, <2>3, <2>4
  <2>. QED BY <1>0, <2>1, <2>2, <2>5
<1>4. ASSUME NEW v \in Visitors, Compare(v)
      PROVE  /\ array'[a] = array[a]
             /\ \A w \in Visitors : mine'[w] = a => at'[w] \notin {"copy", "put"}
  <2>1. /\ at[v] = "sort" /\ array' = array /\ mine' = mine
        /\ at' \in {at, [at EXCEPT ![v] = "list"], [at EXCEPT ![v] = "copy"]}
    BY <1>4 DEF Compare, Become
  <2>2. ASSUME mine[v] = a PROVE at' # [at EXCEPT ![v] = "copy"]
    <3>1. /\ Row(v) \in Nat /\ Col(v) \in Nat /\ Col(v) <= Row(v) /\ Len(List(v)) \in Nat
          /\ \A k \in 1..Len(List(v)) : List(v)[k] \in Nat
      <4>1. at[v] \in Sorting /\ List(v) \in Seq(Hosts)
        BY <1>0, <2>1, <2>2 DEF Sorting, List
      <4>2. \A k \in 1..Len(List(v)) : List(v)[k] \in Hosts
        BY <4>1
      <4>3. place[v] \in Nat \X Nat
        BY DEF Typed, RoutesTypeOK
      <4>4. Row(v) \in Nat /\ Col(v) \in Nat
        BY <4>3 DEF Row, Col
      <4>5. Col(v) <= Row(v)
        BY <4>1 DEF Typed, PlaceOK
      <4>6. Len(List(v)) \in Nat
        BY <4>1
      <4>7. \A k \in 1..Len(List(v)) : List(v)[k] \in Nat
        BY <4>2, RoutesAssumption
      <4>. QED BY <4>4, <4>5, <4>6, <4>7
    <3>2. SUFFICES ASSUME at'[v] = "copy" PROVE FALSE
      BY <1>0
    <3>3. Row(v) <= Len(List(v)) /\ Col(v) > 1 /\ List(v)[Col(v)] < List(v)[Col(v) - 1]
      BY <1>0, <1>4, <2>1, <3>1, <3>2 DEF Compare, Become, Less, Row, Col, List
    <3>4. /\ Col(v) \in 1..Len(List(v)) /\ Col(v) - 1 \in 1..Len(List(v)) /\ Col(v) - 1 < Col(v)
      BY <3>1, <3>3
    <3>5. \A k, l \in 1..Len(List(v)) : k < l => List(v)[k] < List(v)[l]
      BY <1>0, <2>2 DEF InOrder, List
    <3>. QED BY <3>1, <3>3, <3>4, <3>5
  <2>. QED BY <1>0, <2>1, <2>2
<1>5. ASSUME NEW v \in Visitors, Copy(v) \/ Put(v)
      PROVE  /\ array'[a] = array[a]
             /\ \A w \in Visitors : mine'[w] = a => at'[w] \notin {"copy", "put"}
  BY <1>0, <1>5 DEF Copy, Put, Become
<1>6. ASSUME NEW v \in Visitors, ListRoute(v)
      PROVE  /\ array'[a] = array[a]
             /\ \A w \in Visitors : mine'[w] = a => at'[w] \notin {"copy", "put"}
  BY <1>0, <1>6 DEF ListRoute, Become
<1>7. ASSUME NEW v \in Visitors, Leave(v)
      PROVE  /\ array'[a] = array[a]
             /\ \A w \in Visitors : mine'[w] = a => at'[w] \notin {"copy", "put"}
  <2>1. /\ cached' = cached /\ mine' = [mine EXCEPT ![v] = 0] /\ at' = [at EXCEPT ![v] = "idle"]
        /\ array' = [c \in Arrays |-> IF c \in {cached} \cup {mine[w] : w \in Visitors \ {v}}
                                      THEN array[c] ELSE <<>>]
    BY <1>7 DEF Leave, Become, Keep
  <2>2. a \in {cached} \cup {mine[w] : w \in Visitors \ {v}}
    BY <1>0, <2>1 DEF InUse
  <2>. QED BY <1>0, <2>1, <2>2
<1>8. CASE \/ \E h \in Managed : SetRoutePolicy(h) \/ DeleteRoutePolicy(h)
           \/ ExpireRoutes \/ UNCHANGED routesVars
  BY <1>0, <1>8 DEF SetRoutePolicy, DeleteRoutePolicy, ExpireRoutes, routesVars, visitVars
<1>. QED BY <1>1, <1>2, <1>3, <1>4, <1>5, <1>6, <1>7, <1>8 DEF RoutesNext, Page

(* A list that is in order is never written again, however many visitors   *)
(* sort it (routes.go:95, ui.go:237).                                      *)
THEOREM SortedListsStayHold == RoutesSpec => SortedListsStay
<1>1. RoutesInit => Typed
  BY Starts DEF Lists
<1>2. Typed /\ [RoutesNext]_routesVars =>
        [\A a \in Arrays :
           Settled(a) => ~InUse(a)' \/ (Settled(a)' /\ array'[a] = array[a])]_routesVars
  BY SettledStays
<1>. QED BY <1>1, <1>2, TypedStep, PTL DEF RoutesSpec, SortedListsStay

-----------------------------------------------------------------------------
(* Who a step leaves alone: a visitor whose own place has not changed and  *)
(* whose array, while it is at work on it, is as it was.                   *)
LEMMA VisitorKept ==
  ASSUME Typed, NEW u \in Visitors, VisitorOK(u), u \notin raced' => u \notin raced,
         at'[u] = at[u], mine'[u] = mine[u], place'[u] = place[u], temp'[u] = temp[u],
         listed'[u] = listed[u], read'[u] = read[u],
         mine[u] # 0 => loaded'[mine[u]] = loaded[mine[u]],
         at[u] \in Sorting \cup {"list"} /\ u \notin raced' /\ mine[u] # 0 =>
           /\ array'[mine[u]] = array[mine[u]]
           /\ mine[u] \in torn' => mine[u] \in torn
           /\ \A w \in Visitors : w # u /\ mine'[w] = mine[u] /\ at'[w] = "put"
                                    => mine[w] = mine[u] /\ at[w] = "put"
  PROVE  VisitorOK(u)'
<1>. SUFFICES ASSUME u \notin raced', mine[u] # 0 PROVE VisitorOK(u)'
  BY DEF VisitorOK
<1>1. u \notin raced
  OBVIOUS
<1>2. Row(u)' = Row(u) /\ Col(u)' = Col(u)
  BY DEF Row, Col
<1>3. CASE at[u] = "done"
  BY <1>1, <1>3 DEF VisitorOK, IsRight, Sorting
<1>4. CASE at[u] \in Sorting \cup {"list"}
  <2>1. List(u)' = List(u) /\ Swapped(u)' = Swapped(u)
    BY <1>2, <1>4 DEF List, Swapped, Col
  <2>2. /\ mine'[u] \notin torn'
        /\ \A w \in Visitors : w # u /\ mine'[w] = mine'[u] => at'[w] # "put"
    BY <1>1, <1>4 DEF VisitorOK
  <2>. QED BY <1>1, <1>2, <1>4, <2>1, <2>2 DEF VisitorOK, Sorting
<1>5. CASE at[u] \notin Sorting \cup {"list", "done"}
  BY <1>5 DEF VisitorOK, Sorting
<1>. QED BY <1>3, <1>4, <1>5

LEMMA ArrayKept ==
  ASSUME Typed, NEW a \in Arrays, ArrayOK(a),
         InUse(a)' /\ a \notin torn' =>
           /\ InUse(a) /\ a \notin torn
           /\ array'[a] = array[a] /\ loaded'[a] = loaded[a],
         \A w \in Visitors :
           mine[w] = a /\ at[w] = "put" => mine'[w] = a /\ at'[w] = "put",
         \A w \in Visitors : mine'[w] = a /\ at'[w] \in {"copy", "put"} =>
           mine[w] = a /\ at[w] = at'[w] /\ place'[w] = place[w] /\ temp'[w] = temp[w]
  PROVE  ArrayOK(a)'
<1>. SUFFICES ASSUME InUse(a)', a \notin torn' PROVE ArrayOK(a)'
  BY DEF ArrayOK
<1>1. InUse(a) /\ a \notin torn /\ array'[a] = array[a] /\ loaded'[a] = loaded[a]
  OBVIOUS
<1>2. ASSUME \A w \in Visitors : mine'[w] = a => at'[w] # "put"
      PROVE  array'[a] \in Orders(loaded'[a])
  BY <1>1, <1>2 DEF ArrayOK
<1>3. ASSUME NEW w \in Visitors, mine'[w] = a, at'[w] = "copy"
      PROVE  temp'[w] = array'[a][Col(w)']
  BY <1>1, <1>3 DEF ArrayOK, Col
<1>4. ASSUME NEW w \in Visitors, mine'[w] = a, at'[w] = "put"
      PROVE  /\ Swapped(w)' \in Orders(loaded'[a])
             /\ \A u \in Visitors : mine'[u] = a /\ at'[u] = "put" => u = w
  <2>1. mine[w] = a /\ at[w] = "put" /\ Swapped(w)' = Swapped(w)
    BY <1>1, <1>4 DEF Swapped, List, Col
  <2>. QED BY <1>1, <1>4, <2>1 DEF ArrayOK
<1>5. Orders(loaded[a])' = Orders(loaded[a])
  BY <1>1 DEF Orders
<1>. QED BY <1>1, <1>2, <1>3, <1>4, <1>5 DEF ArrayOK

(* What a visitor no other one got in the way of works on is an order of   *)
(* what was loaded, unless it has an element of it in its hands.           *)
LEMMA Whole ==
  ASSUME Lists, NEW v \in Visitors, v \notin raced, mine[v] # 0,
         at[v] \in {"sort", "copy", "list"}
  PROVE  List(v) \in Orders(loaded[mine[v]]) /\ loaded[mine[v]] \in SUBSET Hosts
<1>1. mine[v] \in Arrays /\ InUse(mine[v])
  BY DEF Lists, Typed, RoutesTypeOK, InUse
<1>2. /\ mine[v] \notin torn
      /\ \A w \in Visitors : mine[w] = mine[v] => at[w] # "put"
  BY DEF Lists, VisitorOK, Sorting
<1>. QED BY <1>1, <1>2 DEF Lists, Typed, RoutesTypeOK, ArrayOK, List

-----------------------------------------------------------------------------
LEMMA VisitRight ==
  ASSUME Lists, NEW v \in Visitors, NEW isAdmin \in BOOLEAN, Visit(v, isAdmin)
  PROVE  Lists'
<1>0. mine[v] = 0 /\ at[v] = "idle" /\ Typed
  BY DEF Visit, Lists, Typed, PlaceOK
<1>1. /\ at' = [at EXCEPT ![v] = "get"]
      /\ UNCHANGED <<policies, cached, fresh, array, mine, place, temp, listed, loaded, torn, raced>>
      /\ \A u \in Visitors \ {v} : read'[u] = read[u] /\ at'[u] = at[u]
      /\ at'[v] = "get" /\ mine'[v] = 0
  BY <1>0 DEF Visit, Become, Typed, RoutesTypeOK
<1>2. Typed'
  BY <1>0, VisitTyped
<1>3. ASSUME NEW a \in Arrays PROVE ArrayOK(a)'
  <2>1. ArrayOK(a)
    BY DEF Lists
  <2>2. InUse(a)' => InUse(a)
    BY <1>1 DEF InUse
  <2>3. a # 0
    BY RoutesAssumption
  <2>. QED BY <1>0, <1>1, <2>1, <2>2, <2>3, ArrayKept
<1>4. ASSUME NEW u \in Visitors PROVE VisitorOK(u)'
  <2>1. VisitorOK(u)
    BY DEF Lists
  <2>2. CASE u = v
    BY <1>0, <1>1, <2>2 DEF VisitorOK
  <2>3. CASE u # v
    BY <1>0, <1>1, <2>1, <2>3, VisitorKept
  <2>. QED BY <2>2, <2>3
<1>. QED BY <1>2, <1>3, <1>4 DEF Lists

LEMMA TakeRight ==
  ASSUME Lists, NEW v \in Visitors, NEW a \in Arrays \cup {0}, at[v] \in {"get", "load"},
         a = 0 \/ InUse(a), mine[v] \in {0, a}, Take(v, a), Typed',
         UNCHANGED <<policies, cached, fresh, array, admin, read, place, temp, listed, loaded, torn>>
  PROVE  Lists'
<1>0. Typed
  BY DEF Lists
<1>1. /\ mine' = [mine EXCEPT ![v] = a] /\ at' = [at EXCEPT ![v] = IF a = 0 THEN "done" ELSE "sort"]
      /\ raced' = IF Midway(a) THEN raced \cup {v} ELSE raced
  BY DEF Take, Become
<1>2. /\ mine'[v] = a /\ at'[v] = IF a = 0 THEN "done" ELSE "sort"
      /\ \A u \in Visitors \ {v} : mine'[u] = mine[u] /\ at'[u] = at[u] /\ (u \in raced' <=> u \in raced)
  BY <1>0, <1>1 DEF Typed, RoutesTypeOK
<1>3. ASSUME NEW b \in Arrays PROVE ArrayOK(b)'
  <2>1. ArrayOK(b)
    BY DEF Lists
  <2>2. b # 0
    BY RoutesAssumption
  <2>3. InUse(b)' => InUse(b)
    BY <1>2, <2>2 DEF InUse
  <2>. QED BY <1>0, <1>2, <2>1, <2>2, <2>3, ArrayKept
<1>4. ASSUME NEW u \in Visitors PROVE VisitorOK(u)'
  <2>1. VisitorOK(u)
    BY DEF Lists
  <2>2. CASE u = v
    <3>. SUFFICES ASSUME v \notin raced', a # 0 PROVE VisitorOK(v)'
      BY <1>2, <2>2 DEF VisitorOK
    <3>1. ~Midway(a)
      BY <1>1
    <3>2. place'[v] = <<2, 2>>
      BY <1>0 DEF Typed, PlaceOK, Sorting
    <3>3. SortedTo(List(v)', Row(v)', Col(v)')
      <4>1. Row(v)' = 2 /\ Col(v)' = 2
        BY <3>2 DEF Row, Col
      <4>2. List(v)' \in Seq(Hosts)
        BY <1>2 DEF Typed, RoutesTypeOK, List
      <4>. QED BY <4>1, <4>2 DEF SortedTo
    <3>4. a \notin torn' /\ \A w \in Visitors : w # v /\ mine'[w] = a => at'[w] # "put"
      BY <1>2, <3>1 DEF Midway
    <3>. QED BY <1>2, <3>3, <3>4 DEF VisitorOK, Sorting
  <2>3. CASE u # v
    BY <1>0, <1>2, <2>1, <2>3, VisitorKept
  <2>. QED BY <2>2, <2>3
<1>. QED BY <1>3, <1>4 DEF Lists

LEMMA GetRight ==
  ASSUME Lists, NEW v \in Visitors, GetRoutes(v)
  PROVE  Lists'
<1>0. Typed /\ mine[v] = 0 /\ at[v] = "get" /\ cached \in Arrays \cup {0} /\ Typed'
  BY GetTyped DEF GetRoutes, Lists, Typed, RoutesTypeOK, PlaceOK
<1>1. CASE fresh
  BY <1>0, <1>1, TakeRight DEF GetRoutes, InUse
<1>2. CASE ~fresh
  <2>1. /\ at' = [at EXCEPT ![v] = "load"] /\ mine' = [mine EXCEPT ![v] = cached]
        /\ UNCHANGED <<policies, cached, fresh, array, admin, read, place, temp, listed, loaded,
                       torn, raced>>
    BY <1>2 DEF GetRoutes, Become
  <2>2. /\ mine'[v] = cached /\ at'[v] = "load"
        /\ \A u \in Visitors \ {v} : mine'[u] = mine[u] /\ at'[u] = at[u]
    BY <1>0, <2>1 DEF Typed, RoutesTypeOK
  <2>3. ASSUME NEW b \in Arrays PROVE ArrayOK(b)'
    <3>1. ArrayOK(b)
      BY DEF Lists
    <3>2. b # 0
      BY RoutesAssumption
    <3>3. InUse(b)' => InUse(b)
      BY <2>1, <2>2, <3>2 DEF InUse
    <3>. QED BY <1>0, <2>1, <2>2, <3>1, <3>2, <3>3, ArrayKept
  <2>4. ASSUME NEW u \in Visitors PROVE VisitorOK(u)'
    <3>1. VisitorOK(u)
      BY DEF Lists
    <3>2. CASE u = v
      BY <2>2, <3>2 DEF VisitorOK, Sorting
    <3>3. CASE u # v
      BY <1>0, <2>1, <2>2, <3>1, <3>3, VisitorKept
    <3>. QED BY <3>2, <3>3
  <2>. QED BY <1>0, <2>3, <2>4 DEF Lists
<1>. QED BY <1>1, <1>2

LEMMA LoadFailsRight ==
  ASSUME Lists, NEW v \in Visitors, LoadFails(v)
  PROVE  Lists'
<1>1. Typed /\ Typed' /\ mine[v] \in Arrays \cup {0}
  BY LoadFailsTyped DEF Lists, Typed, RoutesTypeOK
<1>. QED BY <1>1, TakeRight DEF LoadFails, InUse

LEMMA LoadRight ==
  ASSUME Lists, NEW v \in Visitors, NEW a \in Arrays, NEW S \in Answers, LoadRoutes(v, a, S)
  PROVE  Lists'
<1>. DEFINE kept == {a} \cup {mine[w] : w \in Visitors \ {v}}
<1>0. Typed /\ Typed' /\ S \in SUBSET Hosts /\ a # 0
  BY LoadTyped, RoutesAssumption DEF Lists
<1>1. PICK s \in Orders(S) :
        /\ array' = [b \in Arrays |-> IF b \in kept THEN [array EXCEPT ![a] = s][b] ELSE <<>>]
        /\ loaded' = [b \in Arrays |-> IF b \in kept THEN [loaded EXCEPT ![a] = S][b] ELSE {}]
        /\ torn' = torn \cap kept
  BY DEF LoadRoutes, Keep
<1>2. /\ at[v] = "load" /\ ~InUse(a) /\ cached' = a
      /\ at' = [at EXCEPT ![v] = "sort"] /\ mine' = [mine EXCEPT ![v] = a]
      /\ UNCHANGED <<read, place, temp, listed, raced>>
  BY DEF LoadRoutes, Become
<1>3. /\ array'[a] = s /\ loaded'[a] = S /\ a \notin torn'
      /\ \A b \in Arrays : b # a /\ (\E w \in Visitors \ {v} : mine[w] = b) =>
           array'[b] = array[b] /\ loaded'[b] = loaded[b]
  BY <1>0, <1>1, <1>2 DEF Typed, RoutesTypeOK
<1>4. /\ mine'[v] = a /\ at'[v] = "sort"
      /\ \A u \in Visitors \ {v} : mine'[u] = mine[u] /\ at'[u] = at[u] /\ mine[u] # a
  BY <1>0, <1>2 DEF Typed, RoutesTypeOK, InUse
<1>5. ASSUME NEW b \in Arrays PROVE ArrayOK(b)'
  <2>1. CASE b = a
    <3>1. array'[b] \in Orders(S)
      BY <1>3, <2>1
    <3>2. \A w \in Visitors : mine'[w] = b => at'[w] \notin {"copy", "put"}
      BY <1>4, <2>1
    <3>. QED BY <1>3, <2>1, <3>1, <3>2 DEF ArrayOK, Orders
  <2>2. CASE b # a
    <3>1. ArrayOK(b)
      BY DEF Lists
    <3>2. ASSUME InUse(b)', b \notin torn'
          PROVE  InUse(b) /\ b \notin torn /\ array'[b] = array[b] /\ loaded'[b] = loaded[b]
      <4>1. PICK w \in Visitors \ {v} : mine[w] = b
        BY <1>2, <1>4, <2>2, <3>2 DEF InUse
      <4>. QED BY <1>1, <1>3, <2>2, <3>2, <4>1 DEF InUse
    <3>3. \A w \in Visitors : mine[w] = b /\ at[w] = "put" => mine'[w] = b /\ at'[w] = "put"
      BY <1>2, <1>4
    <3>4. \A w \in Visitors : mine'[w] = b /\ at'[w] \in {"copy", "put"} =>
            mine[w] = b /\ at[w] = at'[w] /\ place'[w] = place[w] /\ temp'[w] = temp[w]
      BY <1>2, <1>4, <2>2
    <3>. QED BY <1>0, <3>1, <3>2, <3>3, <3>4, ArrayKept
  <2>. QED BY <2>1, <2>2
<1>6. ASSUME NEW u \in Visitors PROVE VisitorOK(u)'
  <2>1. CASE u = v
    <3>1. place'[v] = <<2, 2>>
      BY <1>0, <1>2 DEF Typed, PlaceOK, Sorting
    <3>2. SortedTo(List(v)', Row(v)', Col(v)')
      <4>1. Row(v)' = 2 /\ Col(v)' = 2
        BY <3>1 DEF Row, Col
      <4>2. List(v)' \in Seq(Hosts)
        BY <1>0, <1>4 DEF Typed, RoutesTypeOK, List
      <4>. QED BY <4>1, <4>2 DEF SortedTo
    <3>. QED BY <1>3, <1>4, <2>1, <3>2 DEF VisitorOK, Sorting
  <2>2. CASE u # v
    <3>1. VisitorOK(u)
      BY DEF Lists
    <3>2. mine[u] # 0 => /\ array'[mine[u]] = array[mine[u]] /\ loaded'[mine[u]] = loaded[mine[u]]
                         /\ mine[u] \in torn' => mine[u] \in torn
      BY <1>0, <1>1, <1>3, <1>4, <2>2 DEF Typed, RoutesTypeOK
    <3>3. \A w \in Visitors : w # u /\ mine'[w] = mine[u] /\ at'[w] = "put"
                                    => mine[w] = mine[u] /\ at[w] = "put"
      BY <1>4
    <3>. QED BY <1>0, <1>2, <1>4, <2>2, <3>1, <3>2, <3>3, VisitorKept
  <2>. QED BY <2>1, <2>2
<1>. QED BY <1>0, <1>5, <1>6 DEF Lists

LEMMA CompareRight ==
  ASSUME Lists, NEW v \in Visitors, Compare(v)
  PROVE  Lists'
<1>. DEFINE s == List(v)
            i == Row(v)
            j == Col(v)
            S == loaded[mine[v]]
<1>0. Typed /\ Typed'
  BY CompareTyped DEF Lists
<1>1. /\ at[v] = "sort" /\ mine[v] \in Arrays /\ mine[v] # 0 /\ s \in Seq(Hosts) /\ Len(s) \in Nat
      /\ i \in Nat /\ j \in Nat /\ 2 <= i /\ 1 <= j /\ j <= i /\ (i <= Len(s) \/ j = i)
      /\ listed[v] = <<>> /\ place[v] = <<i, j>>
  <2>1. at[v] = "sort" /\ at[v] \in Sorting
    BY DEF Compare, Sorting
  <2>2. mine[v] \in Arrays /\ place[v] \in Nat \X Nat /\ s \in Seq(Hosts)
    BY <1>0, <2>1 DEF Typed, RoutesTypeOK, List
  <2>3. i \in Nat /\ j \in Nat /\ place[v] = <<i, j>>
    BY <2>2 DEF Row, Col
  <2>4. 2 <= i /\ 1 <= j /\ j <= i /\ (i <= Len(s) \/ j = i) /\ listed[v] = <<>>
    BY <1>0, <2>1 DEF Typed, PlaceOK
  <2>. QED BY <2>1, <2>2, <2>3, <2>4, RoutesAssumption
<1>2. UNCHANGED <<cached, array, read, mine, listed, loaded, torn, raced>>
  BY DEF Compare
<1>3. ASSUME v \notin raced
      PROVE  /\ s \in Orders(S) /\ S \in SUBSET Hosts /\ SortedTo(s, i, j)
             /\ mine[v] \notin torn
             /\ \A w \in Visitors : w # v /\ mine[w] = mine[v] => at[w] # "put"
  <2>1. s \in Orders(S) /\ S \in SUBSET Hosts
    BY <1>1, <1>3, Whole
  <2>. QED BY <1>1, <1>3, <2>1 DEF Lists, VisitorOK, Sorting
<1>. HIDE DEF s, i, j, S
(* What v does next, and what it has in its hands, is all that changes.    *)
<1>4. SUFFICES
        /\ \A u \in Visitors \ {v} : at'[u] = at[u] /\ place'[u] = place[u] /\ temp'[u] = temp[u]
        /\ at'[v] \in {"sort", "list", "copy"}
        /\ at'[v] = "copy" => temp'[v] = s[j] /\ place'[v] = place[v]
        /\ v \notin raced => VisitorOK(v)'
  <2>1. ASSUME NEW a \in Arrays PROVE ArrayOK(a)'
    <3>1. ArrayOK(a)
      BY DEF Lists
    <3>2. InUse(a)' => InUse(a)
      BY <1>2 DEF InUse
    <3>. SUFFICES ASSUME InUse(a), a \notin torn PROVE ArrayOK(a)'
      BY <1>2, <3>2 DEF ArrayOK
    <3>3. ASSUME \A w \in Visitors : mine'[w] = a => at'[w] # "put"
          PROVE  array'[a] \in Orders(loaded'[a])
      <4>1. \A w \in Visitors : mine[w] = a => at[w] # "put"
        BY <1>1, <1>2, <1>4, <3>3
      <4>. QED BY <1>2, <3>1, <4>1 DEF ArrayOK
    <3>4. ASSUME NEW w \in Visitors, mine'[w] = a, at'[w] = "copy"
          PROVE  temp'[w] = array'[a][Col(w)']
      BY <1>2, <1>4, <3>1, <3>4 DEF ArrayOK, Col, List, s, j
    <3>5. ASSUME NEW w \in Visitors, mine'[w] = a, at'[w] = "put"
          PROVE  /\ Swapped(w)' \in Orders(loaded'[a])
                 /\ \A u \in Visitors : mine'[u] = a /\ at'[u] = "put" => u = w
      <4>1. w # v /\ mine[w] = a /\ at[w] = "put"
        BY <1>2, <1>4, <3>5
      <4>2. Swapped(w)' = Swapped(w)
        BY <1>2, <1>4, <4>1 DEF Swapped, List, Col
      <4>. QED BY <1>2, <1>4, <3>1, <4>1, <4>2 DEF ArrayOK
    <3>6. Orders(loaded[a])' = Orders(loaded[a])
      BY <1>2 DEF Orders
    <3>. QED BY <3>3, <3>4, <3>5, <3>6 DEF ArrayOK
  <2>2. ASSUME NEW u \in Visitors PROVE VisitorOK(u)'
    <3>1. CASE u = v
      BY <1>2, <1>4, <3>1 DEF VisitorOK
    <3>2. CASE u # v
      <4>1. VisitorOK(u)
        BY DEF Lists
      <4>. QED BY <1>0, <1>2, <1>4, <3>2, <4>1, VisitorKept
    <3>. QED BY <3>1, <3>2
  <2>. QED BY <1>0, <2>1, <2>2 DEF Lists
<1>5. CASE i > Len(s)
  <2>1. at' = [at EXCEPT ![v] = "list"] /\ place' = [place EXCEPT ![v] = <<2, 2>>] /\ temp' = temp
    BY <1>5 DEF Compare, Become, List, Row, s, i
  <2>2. ASSUME v \notin raced PROVE VisitorOK(v)'
    <3>1. InOrder(s)
      <4>1. j = i /\ \A l \in 1..Len(s) : \A k \in 1..(l - 1) : l <= i /\ l # j => s[k] < s[l]
        BY <1>1, <1>3, <1>5, <2>2 DEF SortedTo
      <4>2. \A k, l \in 1..Len(s) : k < l => s[k] < s[l]
        BY <1>1, <1>5, <4>1
      <4>3. DOMAIN s = 1..Len(s)
        BY <1>1
      <4>. QED BY <4>2, <4>3 DEF InOrder
    <3>2. at'[v] = "list" /\ List(v)' = s /\ Len(listed'[v]) = 0 /\ mine'[v] = mine[v]
      BY <1>0, <1>1, <1>2, <2>1 DEF Typed, RoutesTypeOK, List, s
    <3>3. /\ mine'[v] \notin torn'
          /\ \A w \in Visitors : w # v /\ mine'[w] = mine'[v] => at'[w] # "put"
      BY <1>0, <1>2, <1>3, <2>1, <2>2 DEF Typed, RoutesTypeOK
    <3>4. InOrder(List(v)')
      BY <3>1, <3>2
    <3>. QED BY <1>1, <3>2, <3>3, <3>4 DEF VisitorOK, Sorting, InOrder
  <2>. QED BY <1>0, <2>1, <2>2 DEF Typed, RoutesTypeOK
<1>6. CASE i <= Len(s) /\ j > 1 /\ s[j] < s[j - 1]
  <2>1. at' = [at EXCEPT ![v] = "copy"] /\ temp' = [temp EXCEPT ![v] = s[j]] /\ place' = place
    BY <1>1, <1>6 DEF Compare, Become, List, Row, Col, Less, s, i, j
  <2>2. ASSUME v \notin raced PROVE VisitorOK(v)'
    <3>1. at'[v] = "copy" /\ List(v)' = s /\ Row(v)' = i /\ Col(v)' = j
      BY <1>0, <1>2, <2>1 DEF Typed, RoutesTypeOK, List, Row, Col, s, i, j
    <3>2. /\ mine'[v] \notin torn'
          /\ \A w \in Visitors : w # v /\ mine'[w] = mine'[v] => at'[w] # "put"
      BY <1>0, <1>2, <1>3, <2>1, <2>2 DEF Typed, RoutesTypeOK
    <3>3. SortedTo(List(v)', Row(v)', Col(v)') /\ List(v)'[Col(v)'] < List(v)'[Col(v)' - 1]
      BY <1>3, <1>6, <2>2, <3>1
    <3>. QED BY <3>1, <3>2, <3>3 DEF VisitorOK, Sorting
  <2>. QED BY <1>0, <2>1, <2>2 DEF Typed, RoutesTypeOK
<1>7. CASE i <= Len(s) /\ ~(j > 1 /\ s[j] < s[j - 1])
  <2>1. place' = [place EXCEPT ![v] = <<i + 1, i + 1>>] /\ at' = at /\ temp' = temp
    BY <1>1, <1>7 DEF Compare, Become, List, Row, Col, Less, s, i, j
  <2>2. ASSUME v \notin raced PROVE VisitorOK(v)'
    <3>1. at'[v] = "sort" /\ List(v)' = s /\ Row(v)' = i + 1 /\ Col(v)' = i + 1
      BY <1>0, <1>1, <1>2, <2>1 DEF Typed, RoutesTypeOK, List, Row, Col, s
    <3>2. /\ mine'[v] \notin torn'
          /\ \A w \in Visitors : w # v /\ mine'[w] = mine'[v] => at'[w] # "put"
      BY <1>2, <1>3, <2>1, <2>2
    <3>3. SortedTo(s, i + 1, i + 1)
      BY <1>1, <1>3, <1>7, <2>2, NextRow
    <3>4. SortedTo(List(v)', Row(v)', Col(v)')
      BY <3>1, <3>3
    <3>. QED BY <3>1, <3>2, <3>4 DEF VisitorOK, Sorting
  <2>. QED BY <1>0, <1>1, <2>1, <2>2 DEF Typed, RoutesTypeOK
<1>. QED BY <1>1, <1>5, <1>6, <1>7

(* A write leaves the other arrays alone, and gets in the way of everyone  *)
(* it concerns.                                                            *)
LEMMA WriteApart ==
  ASSUME Lists, NEW v \in Visitors, at[v] \in {"copy", "put"}, Disturb(v),
         NEW k \in Nat, NEW h \in Hosts, array' = [array EXCEPT ![mine[v]][k] = h],
         NEW then \in Sorting, at' = [at EXCEPT ![v] = then],
         \A u \in Visitors \ {v} : place'[u] = place[u] /\ temp'[u] = temp[u],
         UNCHANGED <<cached, read, mine, listed, loaded>>
  PROVE  /\ \A a \in Arrays : a # mine[v] => ArrayOK(a)'
         /\ \A u \in Visitors : u # v => VisitorOK(u)'
         /\ mine[v] \notin torn' =>
              /\ mine[v] \notin torn
              /\ \A w \in Visitors : w # v /\ mine[w] = mine[v] => at[w] \notin Sorting
         /\ v \notin raced' => v \notin raced /\ mine[v] \notin torn'
<1>0. Typed /\ mine[v] \in Arrays /\ mine[v] # 0 /\ array \in [Arrays -> Seq(Hosts)]
  BY Exchange, RoutesAssumption DEF Lists, Typed, RoutesTypeOK
<1>1. \A u \in Visitors \ {v} : at'[u] = at[u]
  BY <1>0 DEF Typed, RoutesTypeOK
<1>2. \A b \in Arrays : b # mine[v] => array'[b] = array[b]
  BY <1>0
<1>3. /\ raced \subseteq raced' /\ torn \subseteq torn'
      /\ \A a \in torn' : a \in torn \/ a = mine[v]
      /\ \A u \in Visitors : u # v /\ mine[u] = mine[v] /\ at[u] \in Sorting \cup {"list"} => u \in raced'
  BY DEF Disturb, Others
<1>4. ASSUME NEW w \in Visitors, w # v, mine[w] = mine[v], at[w] \in Sorting
      PROVE  v \in raced' /\ mine[v] \in torn'
  BY <1>4 DEF Disturb, Others
<1>5. ASSUME NEW a \in Arrays, a # mine[v] PROVE ArrayOK(a)'
  <2>1. ArrayOK(a)
    BY DEF Lists
  <2>2. InUse(a)' => InUse(a)
    BY DEF InUse
  <2>. QED BY <1>0, <1>1, <1>2, <1>3, <1>5, <2>1, <2>2, ArrayKept
<1>6. ASSUME NEW u \in Visitors, u # v PROVE VisitorOK(u)'
  <2>1. VisitorOK(u)
    BY DEF Lists
  <2>2. at'[u] = at[u] /\ place'[u] = place[u] /\ temp'[u] = temp[u] /\ (u \notin raced' => u \notin raced)
    BY <1>1, <1>3, <1>6
  <2>3. ASSUME at[u] \in Sorting \cup {"list"}, u \notin raced', mine[u] # 0
        PROVE  /\ array'[mine[u]] = array[mine[u]]
               /\ mine[u] \in torn' => mine[u] \in torn
               /\ \A w \in Visitors : w # u /\ mine'[w] = mine[u] /\ at'[w] = "put"
                                        => mine[w] = mine[u] /\ at[w] = "put"
    <3>1. mine[u] # mine[v] /\ mine[u] \in Arrays
      BY <1>0, <1>3, <1>6, <2>3 DEF Typed, RoutesTypeOK
    <3>. QED BY <1>1, <1>2, <1>3, <3>1
  <2>. QED BY <1>0, <2>1, <2>2, <2>3, VisitorKept
<1>7. v \notin raced' => v \notin raced /\ mine[v] \notin torn'
  <2>. SUFFICES ASSUME v \notin raced' PROVE v \notin raced /\ mine[v] \notin torn'
    OBVIOUS
  <2>1. v \notin raced
    BY <1>3
  <2>2. mine[v] \notin torn
    BY <1>0, <2>1 DEF Lists, VisitorOK, Sorting
  <2>3. {w \in Others(v) : at[w] \in Sorting} = {}
    BY DEF Disturb
  <2>. QED BY <2>1, <2>2, <2>3 DEF Disturb
<1>. QED BY <1>3, <1>4, <1>5, <1>6, <1>7

LEMMA CopyRight ==
  ASSUME Lists, NEW v \in Visitors, Copy(v)
  PROVE  Lists'
<1>. DEFINE s == List(v)
            j == Col(v)
            m == mine[v]
            S == loaded[mine[v]]
<1>0. Typed /\ Typed' /\ at[v] = "copy" /\ Disturb(v)
  BY CopyTyped DEF Lists, Copy
<1>1. /\ m \in Arrays /\ m # 0 /\ s \in Seq(Hosts) /\ Len(s) \in Nat /\ Row(v) \in Nat /\ j \in Nat
      /\ 2 <= j /\ j <= Row(v) /\ Row(v) <= Len(s) /\ temp[v] \in Hosts /\ s[j - 1] \in Hosts
  BY <1>0, Exchange, RoutesAssumption
<1>2. /\ array' = [array EXCEPT ![m][j] = s[j - 1]]
      /\ at' = [at EXCEPT ![v] = "put"]
      /\ UNCHANGED <<policies, cached, fresh, admin, read, mine, place, temp, listed, loaded>>
  BY DEF Copy, Become, Col, List
<1>3. /\ \A a \in Arrays : a # m => ArrayOK(a)'
      /\ \A u \in Visitors : u # v => VisitorOK(u)'
      /\ m \notin torn' =>
           /\ m \notin torn
           /\ \A w \in Visitors : w # v /\ mine[w] = m => at[w] \notin Sorting
      /\ v \notin raced' => v \notin raced /\ m \notin torn'
  <2>1. "put" \in Sorting
    BY DEF Sorting
  <2>. HIDE DEF s, j
  <2>. QED BY <1>0, <1>1, <1>2, <2>1, WriteApart
<1>4. /\ at'[v] = "put" /\ Row(v)' = Row(v) /\ Col(v)' = j
      /\ Swapped(v)' = [[s EXCEPT ![j] = s[j - 1]] EXCEPT ![j - 1] = temp[v]]
      /\ \A w \in Visitors : w # v => at'[w] = at[w]
  <2>1. array \in [Arrays -> Seq(Hosts)]
    BY <1>0 DEF Typed, RoutesTypeOK
  <2>2. List(v)' = [s EXCEPT ![j] = s[j - 1]]
    BY <1>1, <1>2, <2>1 DEF List
  <2>3. at'[v] = "put" /\ \A w \in Visitors : w # v => at'[w] = at[w]
    BY <1>0, <1>2 DEF Typed, RoutesTypeOK
  <2>4. Col(v)' = j /\ Row(v)' = Row(v)
    BY <1>2 DEF Row, Col
  <2>. QED BY <1>2, <2>2, <2>3, <2>4 DEF Swapped
<1>5. ASSUME m \notin torn'
      PROVE  S \in SUBSET Hosts /\ s \in Orders(S) /\ temp[v] = s[j]
  <2>1. \A w \in Visitors : mine[w] = m => at[w] # "put"
    BY <1>0, <1>3, <1>5 DEF Sorting
  <2>2. InUse(m)
    BY DEF InUse
  <2>3. ArrayOK(m)
    BY <1>1 DEF Lists
  <2>. QED BY <1>0, <1>1, <1>3, <1>5, <2>1, <2>2, <2>3 DEF ArrayOK, List, Typed, RoutesTypeOK
<1>6. ASSUME m \notin torn'
      PROVE  Swapped(v)' \in Orders(S)
  <2>1. Swapped(v)' = [[s EXCEPT ![j] = s[j - 1]] EXCEPT ![j - 1] = s[j]]
    BY <1>4, <1>5, <1>6
  <2>2. j \in 2..Len(s)
    BY <1>1
  <2>. HIDE DEF s, j, S
  <2>. QED BY <1>5, <1>6, <2>1, <2>2, SwapOrders
<1>7. ASSUME NEW a \in Arrays, a = m PROVE ArrayOK(a)'
  <2>. SUFFICES ASSUME a \notin torn' PROVE ArrayOK(a)'
    BY DEF ArrayOK
  <2>1. mine'[v] = a /\ at'[v] = "put" /\ loaded'[a] = S
    BY <1>2, <1>4, <1>7
  <2>2. \A w \in Visitors : mine'[w] = a /\ at'[w] \in {"copy", "put"} => w = v
    BY <1>2, <1>3, <1>4, <1>7 DEF Sorting
  <2>3. Swapped(v)' \in Orders(loaded[a])'
    <3>1. Swapped(v)' \in Orders(S)
      BY <1>6, <1>7
    <3>. HIDE DEF S
    <3>. QED BY <2>1, <3>1 DEF Orders
  <2>4. \A w \in Visitors : ~(mine'[w] = a /\ at'[w] = "copy")
    BY <2>1, <2>2
  <2>. HIDE DEF m, S
  <2>5. ~(\A w \in Visitors : mine'[w] = a => at'[w] # "put")
    BY <2>1
  <2>6. ASSUME NEW w \in Visitors, mine'[w] = a, at'[w] = "put"
        PROVE  /\ Swapped(w)' \in Orders(loaded[a])'
               /\ \A u \in Visitors : mine'[u] = a /\ at'[u] = "put" => u = w
    BY <2>2, <2>3, <2>6
  <2>. QED BY <2>4, <2>5, <2>6 DEF ArrayOK
<1>8. VisitorOK(v)'
  <2>. SUFFICES ASSUME v \notin raced' PROVE VisitorOK(v)'
    BY DEF VisitorOK
  <2>1. SortedTo(s, Row(v), j) /\ s[j] < s[j - 1]
    BY <1>0, <1>1, <1>3 DEF Lists, VisitorOK, Sorting
  <2>2. m \notin torn'
    BY <1>3
  <2>3. SortedTo([[s EXCEPT ![j] = s[j - 1]] EXCEPT ![j - 1] = s[j]], Row(v), j - 1)
    <3>. HIDE DEF s, j, S
    <3>. QED BY <1>1, <1>5, <2>1, <2>2, NextCol
  <2>4. SortedTo(Swapped(v)', Row(v)', Col(v)' - 1)
    BY <1>4, <1>5, <2>2, <2>3
  <2>5. \A w \in Visitors : w # v /\ mine'[w] = mine'[v] => at'[w] # "put"
    BY <1>2, <1>3, <1>4, <2>2 DEF Sorting
  <2>. QED BY <1>2, <1>4, <2>2, <2>4, <2>5 DEF VisitorOK, Sorting
<1>. QED BY <1>0, <1>3, <1>7, <1>8 DEF Lists

LEMMA PutRight ==
  ASSUME Lists, NEW v \in Visitors, Put(v)
  PROVE  Lists'
<1>. DEFINE s == List(v)
            j == Col(v)
            m == mine[v]
<1>0. Typed /\ Typed' /\ at[v] = "put" /\ Disturb(v)
  BY PutTyped DEF Lists, Put
<1>1. /\ m \in Arrays /\ m # 0 /\ s \in Seq(Hosts) /\ Len(s) \in Nat /\ Row(v) \in Nat /\ j \in Nat
      /\ 2 <= j /\ j <= Row(v) /\ Row(v) <= Len(s) /\ temp[v] \in Hosts /\ j - 1 \in Nat
  BY <1>0, Exchange, RoutesAssumption
<1>2. /\ array' = [array EXCEPT ![m][j - 1] = temp[v]]
      /\ at' = [at EXCEPT ![v] = "sort"]
      /\ place' = [place EXCEPT ![v] = <<Row(v), j - 1>>] /\ temp' = [temp EXCEPT ![v] = 0]
      /\ UNCHANGED <<policies, cached, fresh, admin, read, mine, listed, loaded>>
  BY DEF Put, Become, Row, Col
<1>3. /\ \A a \in Arrays : a # m => ArrayOK(a)'
      /\ \A u \in Visitors : u # v => VisitorOK(u)'
      /\ m \notin torn' =>
           /\ m \notin torn
           /\ \A w \in Visitors : w # v /\ mine[w] = m => at[w] \notin Sorting
      /\ v \notin raced' => v \notin raced /\ m \notin torn'
  <2>1. "sort" \in Sorting
    BY DEF Sorting
  <2>2. \A u \in Visitors \ {v} : place'[u] = place[u] /\ temp'[u] = temp[u]
    BY <1>0, <1>2 DEF Typed, RoutesTypeOK
  <2>. HIDE DEF s, j
  <2>. QED BY <1>0, <1>1, <1>2, <2>1, <2>2, WriteApart
<1>4. /\ at'[v] = "sort" /\ Row(v)' = Row(v) /\ Col(v)' = j - 1
      /\ List(v)' = Swapped(v)
      /\ \A w \in Visitors : w # v => at'[w] = at[w]
  <2>1. array \in [Arrays -> Seq(Hosts)]
    BY <1>0 DEF Typed, RoutesTypeOK
  <2>2. List(v)' = Swapped(v)
    BY <1>1, <1>2, <2>1 DEF List, Swapped
  <2>3. at'[v] = "sort" /\ \A w \in Visitors : w # v => at'[w] = at[w]
    BY <1>0, <1>2 DEF Typed, RoutesTypeOK
  <2>4. place'[v] = <<Row(v), j - 1>>
    BY <1>0, <1>2 DEF Typed, RoutesTypeOK
  <2>. QED BY <2>2, <2>3, <2>4 DEF Row, Col
<1>5. ASSUME NEW a \in Arrays, a = m PROVE ArrayOK(a)'
  <2>. SUFFICES ASSUME a \notin torn' PROVE ArrayOK(a)'
    BY DEF ArrayOK
  <2>1. Swapped(v) \in Orders(loaded[a])
    <3>1. ArrayOK(a) /\ a \notin torn /\ InUse(a)
      BY <1>3, <1>5 DEF Lists, InUse
    <3>. QED BY <1>0, <1>5, <3>1 DEF ArrayOK
  <2>2. \A w \in Visitors : mine'[w] = a => at'[w] \notin {"copy", "put"}
    BY <1>2, <1>3, <1>4, <1>5 DEF Sorting
  <2>3. array'[a] \in Orders(loaded[a])'
    BY <1>2, <1>4, <1>5, <2>1 DEF Orders, List
  <2>. HIDE DEF m
  <2>. QED BY <2>2, <2>3 DEF ArrayOK
<1>6. VisitorOK(v)'
  <2>. SUFFICES ASSUME v \notin raced' PROVE VisitorOK(v)'
    BY DEF VisitorOK
  <2>1. SortedTo(Swapped(v), Row(v), j - 1)
    BY <1>0, <1>1, <1>3 DEF Lists, VisitorOK
  <2>2. SortedTo(List(v)', Row(v)', Col(v)')
    BY <1>4, <2>1
  <2>3. mine'[v] \notin torn' /\ \A w \in Visitors : w # v /\ mine'[w] = mine'[v] => at'[w] # "put"
    BY <1>2, <1>3, <1>4 DEF Sorting
  <2>. QED BY <1>4, <2>2, <2>3 DEF VisitorOK, Sorting
<1>. QED BY <1>0, <1>3, <1>5, <1>6 DEF Lists

LEMMA ListRight ==
  ASSUME Lists, NEW v \in Visitors, ListRoute(v)
  PROVE  Lists'
<1>. DEFINE s == List(v)
            n == Len(listed[v]) + 1
            S == loaded[mine[v]]
<1>0. /\ Typed /\ Typed' /\ at[v] = "list" /\ mine[v] \in Arrays /\ mine[v] # 0
      /\ s \in Seq(Hosts) /\ listed[v] \in Seq(Hosts) /\ n \in Nat /\ Len(s) \in Nat
  <2>1. Typed /\ Typed' /\ at[v] = "list"
    BY ListTyped DEF Lists, ListRoute
  <2>2. mine[v] \in Arrays /\ s \in Seq(Hosts) /\ listed[v] \in Seq(Hosts)
    BY <2>1 DEF Typed, RoutesTypeOK, List
  <2>. QED BY <2>1, <2>2, RoutesAssumption
<1>1. /\ UNCHANGED <<cached, array, read, mine, place, temp, loaded, torn, raced>>
      /\ \/ n <= Len(s) /\ at' = at /\ listed' = [listed EXCEPT ![v] = Append(@, s[n])]
         \/ n > Len(s) /\ at' = [at EXCEPT ![v] = "done"] /\ listed' = listed
  BY <1>0 DEF ListRoute, Become, List
<1>2. /\ at'[v] \in {"list", "done"}
      /\ \A u \in Visitors \ {v} : at'[u] = at[u] /\ listed'[u] = listed[u]
  BY <1>0, <1>1 DEF Typed, RoutesTypeOK
<1>3. ASSUME NEW a \in Arrays PROVE ArrayOK(a)'
  <2>1. ArrayOK(a)
    BY DEF Lists
  <2>2. InUse(a)' => InUse(a)
    BY <1>1 DEF InUse
  <2>3. \A w \in Visitors : mine[w] = a /\ at[w] = "put" => mine'[w] = a /\ at'[w] = "put"
    BY <1>0, <1>1, <1>2
  <2>4. \A w \in Visitors : mine'[w] = a /\ at'[w] \in {"copy", "put"} =>
            mine[w] = a /\ at[w] = at'[w] /\ place'[w] = place[w] /\ temp'[w] = temp[w]
    BY <1>0, <1>1, <1>2
  <2>. QED BY <1>0, <1>1, <2>1, <2>2, <2>3, <2>4, ArrayKept
<1>4. ASSUME NEW u \in Visitors PROVE VisitorOK(u)'
  <2>1. VisitorOK(u)
    BY DEF Lists
  <2>2. CASE u # v
    <3>1. \A w \in Visitors : w # u /\ mine'[w] = mine[u] /\ at'[w] = "put"
                                    => mine[w] = mine[u] /\ at[w] = "put"
      BY <1>1, <1>2
    <3>. QED BY <1>0, <1>1, <1>2, <2>1, <2>2, <3>1, VisitorKept
  <2>3. CASE u = v
    <3>. SUFFICES ASSUME v \notin raced' PROVE VisitorOK(v)'
      BY <2>3 DEF VisitorOK
    <3>1. /\ mine[v] \notin torn
          /\ \A w \in Visitors : w # v /\ mine[w] = mine[v] => at[w] # "put"
          /\ InOrder(s) /\ Len(listed[v]) <= Len(s)
          /\ \A k \in 1..Len(listed[v]) : listed[v][k] = s[k]
      BY <1>0, <1>1 DEF Lists, VisitorOK, Sorting
    <3>2. CASE n <= Len(s) /\ at' = at /\ listed' = [listed EXCEPT ![v] = Append(@, s[n])]
      <4>1. listed'[v] = Append(listed[v], s[n])
        BY <1>0, <3>2 DEF Typed, RoutesTypeOK
      <4>2. /\ Len(listed'[v]) = n
            /\ \A k \in 1..n : listed'[v][k] = s[k]
        <5>1. s[n] \in Hosts
          BY <1>0, <3>2
        <5>. QED BY <1>0, <3>1, <4>1, <5>1
      <4>3. List(v)' = s /\ at'[v] = "list" /\ mine'[v] = mine[v]
        BY <1>0, <1>1, <3>2 DEF List
      <4>4. /\ mine'[v] \notin torn'
            /\ \A w \in Visitors : w # v /\ mine'[w] = mine'[v] => at'[w] # "put"
        BY <1>1, <1>2, <3>1
      <4>5. InOrder(List(v)')
        BY <3>1, <4>3
      <4>. HIDE DEF s
      <4>. QED BY <3>2, <4>2, <4>3, <4>4, <4>5 DEF VisitorOK, Sorting, InOrder
    <3>3. CASE n > Len(s) /\ at' = [at EXCEPT ![v] = "done"] /\ listed' = listed
      <4>1. Len(listed[v]) = Len(s) /\ \A k \in 1..Len(s) : listed[v][k] = s[k]
        BY <1>0, <3>1, <3>3
      <4>2. s \in Orders(S) /\ S \in SUBSET Hosts
        BY <1>0, <1>1, Whole
      <4>3. listed[v] = s
        BY <1>0, <4>1
      <4>4. {s[k] : k \in DOMAIN s} = S /\ Len(s) = Cardinality(S)
        <5>. HIDE DEF s, S
        <5>. QED BY <4>2, OrdersAre
      <4>5. /\ at'[v] = "done" /\ listed'[v] = s /\ loaded'[mine'[v]] = S /\ read'[v] = read[v]
        BY <1>0, <1>1, <3>3, <4>3 DEF Typed, RoutesTypeOK
      <4>. HIDE DEF s, S
      <4>6. IsRight(v)'
        BY <4>4, <4>5 DEF IsRight
      <4>7. InOrder(listed[v])'
        BY <3>1, <4>5 DEF InOrder
      <4>. QED BY <4>5, <4>6, <4>7 DEF VisitorOK, Sorting
    <3>. QED BY <1>1, <3>2, <3>3
  <2>. QED BY <2>2, <2>3
<1>. QED BY <1>0, <1>3, <1>4 DEF Lists

LEMMA LeaveRight ==
  ASSUME Lists, NEW v \in Visitors, Leave(v)
  PROVE  Lists'
<1>. DEFINE kept == {cached} \cup {mine[w] : w \in Visitors \ {v}}
<1>0. Typed /\ Typed' /\ at[v] = "done"
  BY LeaveTyped DEF Lists, Leave
<1>1. /\ array' = [a \in Arrays |-> IF a \in kept THEN array[a] ELSE <<>>]
      /\ loaded' = [a \in Arrays |-> IF a \in kept THEN loaded[a] ELSE {}]
      /\ torn' = torn \cap kept
      /\ at' = [at EXCEPT ![v] = "idle"] /\ mine' = [mine EXCEPT ![v] = 0]
      /\ raced' = raced \ {v}
      /\ \A u \in Visitors \ {v} : read'[u] = read[u] /\ listed'[u] = listed[u]
      /\ UNCHANGED <<cached, place, temp>>
  BY <1>0 DEF Leave, Become, Keep, Typed, RoutesTypeOK
<1>2. /\ mine'[v] = 0 /\ at'[v] = "idle"
      /\ \A u \in Visitors \ {v} : mine'[u] = mine[u] /\ at'[u] = at[u]
  BY <1>0, <1>1 DEF Typed, RoutesTypeOK
<1>3. ASSUME NEW a \in Arrays PROVE ArrayOK(a)'
  <2>1. ArrayOK(a) /\ a # 0
    BY RoutesAssumption DEF Lists
  <2>2. ASSUME InUse(a)', a \notin torn'
        PROVE  InUse(a) /\ a \notin torn /\ array'[a] = array[a] /\ loaded'[a] = loaded[a]
    <3>1. a \in kept
      BY <1>1, <1>2, <2>1, <2>2 DEF InUse
    <3>. QED BY <1>1, <2>2, <3>1 DEF InUse
  <2>3. \A w \in Visitors : mine[w] = a /\ at[w] = "put" => mine'[w] = a /\ at'[w] = "put"
    BY <1>0, <1>2
  <2>4. \A w \in Visitors : mine'[w] = a /\ at'[w] \in {"copy", "put"} =>
          mine[w] = a /\ at[w] = at'[w] /\ place'[w] = place[w] /\ temp'[w] = temp[w]
    BY <1>1, <1>2
  <2>. QED BY <1>0, <2>1, <2>2, <2>3, <2>4, ArrayKept
<1>4. ASSUME NEW u \in Visitors PROVE VisitorOK(u)'
  <2>1. VisitorOK(u)
    BY DEF Lists
  <2>2. CASE u = v
    BY <1>2, <2>2 DEF VisitorOK
  <2>3. CASE u # v
    <3>1. mine[u] # 0 => /\ array'[mine[u]] = array[mine[u]] /\ loaded'[mine[u]] = loaded[mine[u]]
                         /\ mine[u] \in torn' => mine[u] \in torn
      BY <1>0, <1>1, <2>3 DEF Typed, RoutesTypeOK
    <3>2. \A w \in Visitors : w # u /\ mine'[w] = mine[u] /\ at'[w] = "put"
                                    => mine[w] = mine[u] /\ at[w] = "put"
      BY <1>2
    <3>3. u \notin raced' => u \notin raced
      BY <1>1, <2>3
    <3>. QED BY <1>0, <1>1, <1>2, <2>1, <2>3, <3>1, <3>2, <3>3, VisitorKept
  <2>. QED BY <2>2, <2>3
<1>. QED BY <1>0, <1>3, <1>4 DEF Lists

LEMMA OutsideRight ==
  ASSUME Lists,
         UNCHANGED <<cached, array, visitVars, loaded, torn, raced>>, Typed'
  PROVE  Lists'
<1>0. Typed
  BY DEF Lists
<1>1. \A a \in Arrays : ArrayOK(a)'
  BY <1>0, ArrayKept DEF Lists, InUse, visitVars
<1>2. \A u \in Visitors : VisitorOK(u)'
  BY <1>0, VisitorKept DEF Lists, visitVars
<1>. QED BY <1>1, <1>2 DEF Lists

(* A page whose use of the list overlapped no other one's sort shows every *)
(* route that was loaded once and in order, whoever sorted the list before *)
(* (routes.go:94-140, ui.go:226-254).                                      *)
THEOREM RacesApart == RoutesSpec => []RightUnlessRaced
<1>1. RoutesInit => Lists
  BY Starts
<1>2. Lists /\ [RoutesNext]_routesVars => Lists'
  <2>. SUFFICES ASSUME Lists, [RoutesNext]_routesVars PROVE Lists'
    OBVIOUS
  <2>1. ASSUME NEW v \in Visitors, Page(v) PROVE Lists'
    BY <2>1, VisitRight, GetRight, LoadRight, LoadFailsRight, CompareRight, CopyRight, PutRight,
       ListRight, LeaveRight DEF Page
  <2>2. CASE UNCHANGED <<cached, array, visitVars, loaded, torn, raced>>
    BY <2>2, TypedStep, OutsideRight DEF Lists
  <2>3. CASE \/ \E h \in Managed : SetRoutePolicy(h) \/ DeleteRoutePolicy(h)
             \/ ExpireRoutes \/ UNCHANGED routesVars
    BY <2>2, <2>3 DEF SetRoutePolicy, DeleteRoutePolicy, ExpireRoutes, routesVars
  <2>. QED BY <2>1, <2>3 DEF RoutesNext
<1>3. Lists => RightUnlessRaced
  BY DEF Lists, VisitorOK, RightUnlessRaced
<1>. QED BY <1>1, <1>2, <1>3, PTL DEF RoutesSpec

-----------------------------------------------------------------------------
(* A step of one component changes nothing of the other two.               *)
LEMMA PagesStep ==
  [PagesNext]_<<page, vars, statsVars, routesVars>> =>
    [Next]_vars /\ [StatsNext]_statsVars /\ [RoutesNext]_routesVars
BY DEF PagesNext, Only

LEMMA PagesImplement == PagesSpec => Spec /\ StatsSpec /\ RoutesSpec
<1>1. PagesInit => Init /\ StatsInit /\ RoutesInit
  BY DEF PagesInit
<1>. QED BY <1>1, PagesStep, PTL DEF PagesSpec, Spec, StatsSpec, RoutesSpec

(* Every variable keeps its type whichever of the pages are used; no token *)
(* is left without its owner, no list is fresh without an array, and no    *)
(* row comes from the future (account.go:170-377, stats.go, ui.go:180-268).*)
THEOREM PagesTypeCorrect == PagesSpec => []PagesTypeOK
BY PagesImplement, TypeCorrect, StatsTypeCorrect, RoutesTypeCorrect, PTL DEF PagesTypeOK

(* The other properties of the three components hold of them side by side: *)
(* the limit of tokens and who ends them, the numbers, pages and           *)
(* exports of the usage log, and the order of the routes.                  *)
THEOREM PagesHold ==
  PagesSpec => /\ [](LimitWithinRaces /\ RevokedOnce) /\ OnlyTheOwnerEnds
               /\ [](PageAddsUp /\ PagingSkipsNothing /\ ExportIsWholeOrMarked)
               /\ []RightUnlessRaced /\ SortedListsStay
BY PagesImplement, LimitIsExceededOnlyByRaces, OneRequestRevokes, OwnersEndTheirTokens,
   NumbersAddUp, NoRowSkipped, UnmarkedExportWhole, RacesApart, SortedListsStayHold, PTL
=============================================================================
