--------------------------- MODULE UsageLogProofs ---------------------------
(***************************************************************************)
(* Proofs about UsageLog for any number of requests and users, any buffer  *)
(* and batch size.                                                         *)
(*                                                                         *)
(* LockInv says what the lock is for: a request about to send holds the    *)
(* read lock and saw the channel open, and once CloseUsage had the write   *)
(* lock nobody sends any more.  Drained adds that what the flusher finds   *)
(* empty after the close stays empty.  Once says that an event, named by   *)
(* its time, is at one place only: that is what makes the steps of         *)
(* usage.go steps of LossyLog.                                             *)
(***************************************************************************)
EXTENDS UsageLog, FiniteSetTheorems, TLAPS

LockInv ==
  /\ \A p \in Loggers : pc[p] = "send" => p \in readers /\ accepting
  /\ accepting <=> closer \in {"serving", "locking"}
  /\ closed <=> closer \in {"waiting", "returned"}
  /\ NeverPanics

(* The flusher waits only with room in its batch.                          *)
Room == flusher = "select" => Len(batch) < UsageBatch

Drained ==
  /\ final => closed /\ queue = <<>>
  /\ flusher = "exited" => final /\ batch = <<>>
  /\ closer = "returned" => flusher = "exited"

-----------------------------------------------------------------------------
(* What Head, Tail and Append do to a sequence and its length.             *)
LEMMA Shrinks ==
  ASSUME NEW S, NEW q \in Seq(S), q # <<>>
  PROVE  /\ Head(q) \in S /\ Tail(q) \in Seq(S)
         /\ Len(q) \in Nat \ {0} /\ Len(Tail(q)) = Len(q) - 1
BY SMT

LEMMA Grows ==
  ASSUME NEW S, NEW q \in Seq(S), NEW e \in S
  PROVE  Append(q, e) \in Seq(S) /\ Len(q) \in Nat /\ Len(Append(q, e)) = Len(q) + 1
BY SMT

LEMMA EmptySeq == ASSUME NEW S PROVE <<>> \in Seq(S) /\ Len(<<>>) = 0
BY SMT

LEMMA LenNat == ASSUME NEW S, NEW q \in Seq(S) PROVE Len(q) \in Nat
BY SMT

LEMMA InBatch == ASSUME NEW S, NEW q \in Seq(S) PROVE ToSet(q) \subseteq S
BY SMT DEF ToSet

LEMMA EventTime == ASSUME NEW e \in Event PROVE e.ts \in 0..MaxEvents
BY DEF Event

-----------------------------------------------------------------------------
(* Every variable keeps its type; buffer and batch keep their bounds.      *)
LEMMA TypeStep == TypeOK /\ Room /\ [Next]_vars => (TypeOK /\ Room)'
<1>. DEFINE TypeInv == TypeOK /\ Room
<1>. SUFFICES ASSUME TypeInv, [Next]_vars PROVE TypeInv'
  OBVIOUS
<1>. USE UsageAssumption, EmptySeq
     DEF TypeOK, Room, Goto, FlushDone, chanVars, logVars, flushVars, dbVars
<1>1. ASSUME NEW p \in Loggers, NEW u \in Users, NEW pat \in BOOLEAN, Stamp(p, u, pat)
      PROVE  TypeInv'
  <2>1. clock + 1 \in 0..MaxEvents
    BY <1>1 DEF Stamp
  <2>2. [ts |-> clock + 1, user |-> u, pat |-> pat] \in Event
    BY <2>1 DEF Event
  <2>. QED  BY <1>1, <2>1, <2>2 DEF Stamp
<1>2. ASSUME NEW p \in Loggers, RLock(p) PROVE TypeInv'
  BY <1>2 DEF RLock
<1>3. ASSUME NEW p \in Loggers, TrySend(p) PROVE TypeInv'
  <2>1. queue' \in Seq(Event) /\ Len(queue') <= UsageBuffer
    <3>1. Append(queue, event[p]) \in Seq(Event) /\ Len(queue) \in Nat
          /\ Len(Append(queue, event[p])) = Len(queue) + 1
      BY Grows
    <3>2. CASE Len(queue) < UsageBuffer
      <4>1. queue' = Append(queue, event[p])
        BY <1>3, <3>2 DEF TrySend
      <4>. QED  BY ONLY <3>1, <3>2, <4>1, UsageAssumption
    <3>3. CASE ~(Len(queue) < UsageBuffer)
      BY <1>3, <3>3 DEF TrySend
    <3>. QED  BY <3>2, <3>3
  <2>2. dropped' \in Nat /\ sent' \in Nat
    BY <1>3 DEF TrySend
  <2>. QED  BY <1>3, <2>1, <2>2 DEF TrySend
<1>4. ASSUME NEW p \in Loggers, RUnlock(p) PROVE TypeInv'
  BY <1>4 DEF RUnlock
<1>5. CASE Receive
  <2>1. Head(queue) \in Event /\ queue' \in Seq(Event) /\ Len(queue') <= UsageBuffer
    BY <1>5, Shrinks DEF Receive
  <2>2. batch' \in Seq(Event) /\ Len(batch) \in Nat /\ Len(batch') = Len(batch) + 1
    BY <1>5, <2>1, Grows DEF Receive
  <2>. QED  BY <1>5, <2>1, <2>2 DEF Receive
<1>6. CASE ReceiveClosed \/ Tick
  BY <1>6 DEF ReceiveClosed, Tick
<1>7. CASE Insert
  BY <1>7, InBatch, LenNat DEF Insert
<1>8. CASE InsertFails
  BY <1>8, LenNat DEF InsertFails
<1>9. ASSUME NEW ok \in SUBSET Users, TouchTokens(ok) PROVE TypeInv'
  <2>1. ASSUME NEW u \in Users, Newest(u) # {}
        PROVE  (CHOOSE e \in Newest(u) : TRUE).ts \in 0..MaxEvents
    <3>1. Newest(u) \subseteq Event
      BY InBatch DEF Newest
    <3>. QED  BY <2>1, <3>1, EventTime
  <2>2. lastUsed' \in [Users -> 0..MaxEvents]
    BY <1>9, <2>1 DEF TouchTokens
  <2>. QED  BY <1>9, <2>2 DEF TouchTokens
<1>10. CASE CloseUsage
  BY <1>10 DEF CloseUsage, Shutdown, StopAccepting, CloseChannel, CloseReturns
<1>11. CASE Reboot
  <2>1. batch' \in Seq(Event) /\ queue' \in Seq(Event) /\ Len(batch') = 0 /\ Len(queue') = 0
    BY <1>11 DEF Reboot
  <2>2. UNCHANGED <<event, clock, rows, present, lastUsed>>
    BY <1>11 DEF Reboot
  <2>3. pc' \in [Loggers -> {"idle", "stamped", "send", "unlock"}]
    BY <1>11 DEF Reboot
  <2>4. /\ accepting' \in BOOLEAN /\ closed' \in BOOLEAN /\ final' \in BOOLEAN
        /\ panicked' \in BOOLEAN /\ readers' \in SUBSET Loggers
        /\ dropped' \in Nat /\ sent' \in Nat /\ written' \in Nat
        /\ flusher' = "select" /\ closer' = "serving"
    BY <1>11 DEF Reboot
  <2>. QED  BY <2>1, <2>2, <2>3, <2>4
<1>12. ASSUME NEW u \in Users, DeleteUserData(u) PROVE TypeInv'
  BY <1>12 DEF DeleteUserData
<1>13. CASE UNCHANGED vars
  BY <1>13 DEF vars
<1>. HIDE DEF TypeInv
<1>. QED
  BY <1>1, <1>2, <1>3, <1>4, <1>5, <1>6, <1>7, <1>8, <1>9, <1>10, <1>11, <1>12, <1>13
  DEF Next, LogUsage, flushLoop

(* The variables of usage.go keep their types, the channel holds at most   *)
(* usageBuffer events and the batch at most usageBatch (usage.go:15-26,    *)
(* 68-94).                                                                 *)
THEOREM TypeCorrect == Spec => []TypeOK
<1>1. Init => TypeOK /\ Room
  <2>. SUFFICES ASSUME Init PROVE TypeOK /\ Room
    OBVIOUS
  <2>1. queue \in Seq(Event) /\ batch \in Seq(Event) /\ Len(queue) = 0 /\ Len(batch) = 0
    BY EmptySeq DEF Init
  <2>2. event \in [Loggers -> Event]
    <3>1. \A u \in Users : [ts |-> 0, user |-> u, pat |-> FALSE] \in Event
      BY UsageAssumption DEF Event
    <3>. QED  BY <3>1 DEF Init
  <2>3. Room /\ Len(queue) <= UsageBuffer /\ Len(batch) <= UsageBatch
    BY <2>1, UsageAssumption DEF Room
  <2>4. lastUsed \in [Users -> 0..MaxEvents] /\ clock \in 0..MaxEvents
    BY UsageAssumption DEF Init
  <2>. QED  BY <2>1, <2>2, <2>3, <2>4 DEF Init, TypeOK
<1>. QED  BY <1>1, TypeStep, PTL DEF Spec

-----------------------------------------------------------------------------
LEMMA LockStep == TypeOK /\ LockInv /\ [Next]_vars => LockInv'
<1>. SUFFICES ASSUME TypeOK, LockInv, [Next]_vars PROVE LockInv'
  OBVIOUS
<1>. USE DEF LockInv, NeverPanics, Goto, FlushDone, chanVars, logVars, flushVars, dbVars
<1>1. ASSUME NEW p \in Loggers, LogUsage(p) PROVE LockInv'
  <2>. USE DEF TypeOK
  <2>1. ASSUME NEW u \in Users, NEW pat \in BOOLEAN, Stamp(p, u, pat) PROVE LockInv'
    BY <2>1 DEF Stamp
  <2>2. CASE RLock(p)
    BY <2>2 DEF RLock
  <2>3. CASE TrySend(p)
    BY <2>3 DEF TrySend
  <2>4. CASE RUnlock(p)
    BY <2>4 DEF RUnlock
  <2>. QED  BY <1>1, <2>1, <2>2, <2>3, <2>4 DEF LogUsage
<1>2. CASE flushLoop
  BY <1>2 DEF flushLoop, Receive, ReceiveClosed, Tick, Insert, InsertFails, TouchTokens
<1>3. CASE CloseUsage
  BY <1>3 DEF CloseUsage, Shutdown, StopAccepting, CloseChannel, CloseReturns
<1>4. CASE Reboot
  BY <1>4 DEF Reboot
<1>5. ASSUME NEW u \in Users, DeleteUserData(u) PROVE LockInv'
  BY <1>5 DEF DeleteUserData
<1>6. CASE UNCHANGED vars
  BY <1>6 DEF vars
<1>. QED  BY <1>1, <1>2, <1>3, <1>4, <1>5, <1>6 DEF Next

LEMMA LockInvariant == Spec => []LockInv
<1>1. Init => LockInv
  BY DEF Init, LockInv, NeverPanics
<1>. QED  BY <1>1, LockStep, TypeCorrect, PTL DEF Spec

(* No send finds the channel closed, whatever logs while CloseUsage runs   *)
(* (usage.go:39-50, 56-65).                                                *)
THEOREM SendsNeverPanic == Spec => []NeverPanics
BY LockInvariant, PTL DEF LockInv

-----------------------------------------------------------------------------
LEMMA DrainedStep == LockInv /\ Drained /\ [Next]_vars => Drained'
<1>. SUFFICES ASSUME LockInv, Drained, [Next]_vars PROVE Drained'
  OBVIOUS
<1>. USE DEF Drained, FlushDone, chanVars, logVars, flushVars, dbVars
<1>1. ASSUME NEW p \in Loggers, LogUsage(p) PROVE Drained'
  BY <1>1 DEF LockInv, LogUsage, Stamp, RLock, TrySend, RUnlock
<1>2. CASE flushLoop
  BY <1>2 DEF flushLoop, Receive, ReceiveClosed, Tick, Insert, InsertFails, TouchTokens
<1>3. CASE CloseUsage
  BY <1>3 DEF CloseUsage, Shutdown, StopAccepting, CloseChannel, CloseReturns
<1>4. CASE Reboot
  BY <1>4 DEF Reboot
<1>5. ASSUME NEW u \in Users, DeleteUserData(u) PROVE Drained'
  BY <1>5 DEF DeleteUserData
<1>6. CASE UNCHANGED vars
  BY <1>6 DEF vars
<1>. QED  BY <1>1, <1>2, <1>3, <1>4, <1>5, <1>6 DEF Next

(* Nothing queued is left behind when CloseUsage returns (usage.go:55-66). *)
THEOREM CloseFlushes == Spec => []ClosedMeansFlushed
<1>1. Init => Drained
  BY DEF Init, Drained
<1>2. Drained => ClosedMeansFlushed
  BY DEF Drained, ClosedMeansFlushed
<1>. QED  BY <1>1, <1>2, DrainedStep, LockInvariant, PTL DEF Spec

-----------------------------------------------------------------------------
LEMMA AccountStep == TypeOK /\ Accounted /\ [Next]_vars => Accounted'
<1>. SUFFICES ASSUME TypeOK, Accounted, [Next]_vars PROVE Accounted'
  OBVIOUS
<1>. USE DEF Accounted, Unwritten
<1>0. /\ Len(queue) \in Nat /\ Len(batch) \in Nat
      /\ sent \in Nat /\ written \in Nat /\ dropped \in Nat
  BY LenNat DEF TypeOK
<1>1. ASSUME NEW p \in Loggers, LogUsage(p) PROVE Accounted'
  <2>1. CASE TrySend(p)
    <3>1. CASE Len(queue) < UsageBuffer
      <4>1. Len(queue') = Len(queue) + 1
        BY <2>1, <3>1, Grows DEF TrySend, TypeOK
      <4>2. /\ sent' = sent + 1 /\ dropped' = dropped /\ written' = written
            /\ batch' = batch /\ flusher' = flusher
        BY <2>1, <3>1 DEF TrySend, flushVars
      <4>3. Unwritten' = Unwritten /\ Unwritten \in Nat
        BY <1>0, <4>2
      <4>. HIDE DEF Unwritten
      <4>. QED  BY <1>0, <4>1, <4>2, <4>3
    <3>2. CASE ~(Len(queue) < UsageBuffer)
      BY <1>0, <2>1, <3>2 DEF TrySend, flushVars
    <3>. QED  BY <3>1, <3>2
  <2>. QED
    BY <1>1, <2>1 DEF LogUsage, Stamp, RLock, RUnlock, chanVars, flushVars
<1>2. CASE Receive
  <2>1. /\ Head(queue) \in Event /\ Len(queue') = Len(queue) - 1
        /\ flusher = "select" /\ flusher' # "touch"
    BY <1>2, Shrinks DEF Receive, TypeOK
  <2>2. Len(batch') = Len(batch) + 1
    BY <1>2, <2>1, Grows DEF Receive, TypeOK
  <2>. QED  BY <1>0, <1>2, <2>1, <2>2 DEF Receive
<1>3. CASE ReceiveClosed \/ Tick
  BY <1>3 DEF ReceiveClosed, Tick, chanVars
<1>4. CASE Insert
  BY <1>0, <1>4 DEF Insert, chanVars
<1>5. CASE InsertFails
  BY <1>0, <1>5, EmptySeq DEF InsertFails, FlushDone, chanVars
<1>6. ASSUME NEW ok \in SUBSET Users, TouchTokens(ok) PROVE Accounted'
  BY <1>0, <1>6, EmptySeq DEF TouchTokens, FlushDone, chanVars
<1>7. CASE CloseUsage
  BY <1>7 DEF CloseUsage, Shutdown, StopAccepting, CloseChannel, CloseReturns, chanVars, flushVars
<1>8. CASE Reboot
  BY <1>8, EmptySeq DEF Reboot
<1>9. ASSUME NEW u \in Users, DeleteUserData(u) PROVE Accounted'
  BY <1>9 DEF DeleteUserData, chanVars, flushVars
<1>10. CASE UNCHANGED vars
  BY <1>10 DEF vars, chanVars, flushVars
<1>. QED
  BY <1>1, <1>2, <1>3, <1>4, <1>5, <1>6, <1>7, <1>8, <1>9, <1>10 DEF Next, flushLoop

(* Every event that reached the select is buffered, batched, written or    *)
(* counted as dropped, and only one of these (usage.go:44-49, 68-105).     *)
THEOREM NothingUncounted == Spec => []Accounted
<1>1. Init => Accounted
  BY EmptySeq DEF Init, Accounted, Unwritten
<1>. QED  BY <1>1, AccountStep, TypeCorrect, PTL DEF Spec

-----------------------------------------------------------------------------
(* The flusher touches tokens only for a batch that is in the table, as    *)
(* far as its users still exist.                                           *)
BatchIsLogged ==
  flusher = "touch" => \A e \in ToSet(batch) : e.user \in present => e \in rows

LEMMA LastUsedStep ==
  TypeOK /\ LastUsedIsLogged /\ BatchIsLogged /\ [Next]_vars => (LastUsedIsLogged /\ BatchIsLogged)'
<1>. DEFINE Inv == LastUsedIsLogged /\ BatchIsLogged
<1>. SUFFICES ASSUME TypeOK, Inv, [Next]_vars PROVE Inv'
  OBVIOUS
<1>. USE DEF LastUsedIsLogged, BatchIsLogged, FlushDone, chanVars, logVars, flushVars, dbVars
<1>1. ASSUME NEW p \in Loggers, LogUsage(p) PROVE Inv'
  BY <1>1 DEF LogUsage, Stamp, RLock, TrySend, RUnlock
<1>2. CASE Receive \/ ReceiveClosed \/ Tick \/ InsertFails
  BY <1>2 DEF Receive, ReceiveClosed, Tick, InsertFails
<1>3. CASE Insert
  BY <1>3 DEF Insert
<1>4. ASSUME NEW ok \in SUBSET Users, TouchTokens(ok) PROVE Inv'
  <2>1. \A u \in Users : Newest(u) # {} /\ u \in present =>
          \E e \in rows : e.user = u /\ e.pat /\ e.ts = (CHOOSE x \in Newest(u) : TRUE).ts
    BY <1>4 DEF TouchTokens, Newest
  <2>2. LastUsedIsLogged'
    BY <1>4, <2>1 DEF TouchTokens, TypeOK
  <2>3. BatchIsLogged'
    BY <1>4 DEF TouchTokens
  <2>. QED  BY <2>2, <2>3
<1>5. CASE CloseUsage \/ Reboot
  BY <1>5 DEF CloseUsage, Shutdown, StopAccepting, CloseChannel, CloseReturns, Reboot
<1>6. ASSUME NEW u \in Users, DeleteUserData(u) PROVE Inv'
  BY <1>6 DEF DeleteUserData
<1>7. CASE UNCHANGED vars
  BY <1>7 DEF vars
<1>. QED  BY <1>1, <1>2, <1>3, <1>4, <1>5, <1>6, <1>7 DEF Next, flushLoop

(* last_used_at of a token is the time of a logged request made with it    *)
(* (usage.go:96-118).                                                      *)
THEOREM LastUseIsInTheLog == Spec => []LastUsedIsLogged
<1>1. Init => LastUsedIsLogged /\ BatchIsLogged
  BY DEF Init, LastUsedIsLogged, BatchIsLogged
<1>. QED  BY <1>1, LastUsedStep, TypeCorrect, PTL DEF Spec

-----------------------------------------------------------------------------
(* The events of the requests that have not reached the select.            *)
Hand == {p \in Loggers : pc[p] \in {"stamped", "send"}}

Distinct(q) == \A i, j \in DOMAIN q : q[i].ts = q[j].ts => i = j

(* No event of one set has the time of one of the other.                   *)
Apart(S, T) == \A e \in S, x \in T : e.ts # x.ts

Once ==
  /\ Distinct(queue) /\ Distinct(batch)
  /\ Apart(ToSet(queue), ToSet(batch))
  /\ Apart(ToSet(queue), rows)
  /\ flusher # "touch" => Apart(ToSet(batch), rows)
  /\ \A e \in ToSet(queue) \cup ToSet(batch) \cup rows : 1 <= e.ts /\ e.ts <= clock
  /\ \A p \in Hand :
       /\ 1 <= event[p].ts /\ event[p].ts <= clock
       /\ \A q \in Hand \ {p} : event[q].ts # event[p].ts
       /\ \A e \in ToSet(queue) \cup ToSet(batch) \cup rows : e.ts # event[p].ts

(* Taking the first element of a sequence and putting one at its end.      *)
LEMMA TakeHead ==
  ASSUME NEW S, NEW q \in Seq(S), q # <<>>, Distinct(q)
  PROVE  /\ ToSet(q) = {Head(q)} \cup ToSet(Tail(q))
         /\ Distinct(Tail(q))
         /\ \A e \in ToSet(Tail(q)) : e.ts # Head(q).ts
<1>1. /\ Len(q) \in Nat \ {0} /\ DOMAIN q = 1..Len(q) /\ Head(q) = q[1]
      /\ DOMAIN Tail(q) = 1..(Len(q) - 1)
      /\ \A i \in 1..(Len(q) - 1) : Tail(q)[i] = q[i + 1]
  OBVIOUS
<1>2. ToSet(q) \subseteq {Head(q)} \cup ToSet(Tail(q))
  <2>. SUFFICES ASSUME NEW i \in 1..Len(q), i # 1 PROVE q[i] \in ToSet(Tail(q))
    BY <1>1 DEF ToSet
  <2>1. i - 1 \in 1..(Len(q) - 1) /\ Tail(q)[i - 1] = q[i]
    BY <1>1
  <2>. QED BY <1>1, <2>1 DEF ToSet
<1>3. {Head(q)} \cup ToSet(Tail(q)) \subseteq ToSet(q)
  BY <1>1 DEF ToSet
<1>4. Distinct(Tail(q))
  BY <1>1 DEF Distinct
<1>5. \A e \in ToSet(Tail(q)) : e.ts # Head(q).ts
  BY <1>1 DEF Distinct, ToSet
<1>. QED BY <1>2, <1>3, <1>4, <1>5

LEMMA PutLast ==
  ASSUME NEW S, NEW q \in Seq(S), NEW e \in S
  PROVE  /\ ToSet(Append(q, e)) = ToSet(q) \cup {e}
         /\ Distinct(q) /\ (\A x \in ToSet(q) : x.ts # e.ts) => Distinct(Append(q, e))
<1>1. /\ Len(q) \in Nat /\ DOMAIN q = 1..Len(q)
      /\ DOMAIN Append(q, e) = 1..(Len(q) + 1)
      /\ \A i \in 1..Len(q) : Append(q, e)[i] = q[i]
      /\ Append(q, e)[Len(q) + 1] = e
  OBVIOUS
<1>. HIDE DEF Append
<1>2. ToSet(Append(q, e)) = ToSet(q) \cup {e}
  <2>1. ToSet(Append(q, e)) \subseteq ToSet(q) \cup {e}
    BY <1>1 DEF ToSet
  <2>2. ToSet(q) \cup {e} \subseteq ToSet(Append(q, e))
    BY <1>1 DEF ToSet
  <2>. QED BY <2>1, <2>2
<1>3. ASSUME Distinct(q), \A x \in ToSet(q) : x.ts # e.ts
      PROVE  Distinct(Append(q, e))
  BY <1>1, <1>3 DEF Distinct, ToSet
<1>. QED BY <1>2, <1>3

LEMMA Nothing == ToSet(<<>>) = {} /\ Distinct(<<>>)
BY DEF ToSet, Distinct

(* The types that Once compares.                                           *)
LEMMA Times ==
  ASSUME TypeOK
  PROVE  /\ clock \in Nat
         /\ \A e \in ToSet(queue) \cup ToSet(batch) \cup rows : e \in Event /\ e.ts \in Nat
         /\ \A p \in Loggers : event[p] \in Event /\ event[p].ts \in Nat
<1>1. ToSet(queue) \subseteq Event /\ ToSet(batch) \subseteq Event /\ rows \subseteq Event
  BY InBatch DEF TypeOK
<1>2. \A e \in Event : e.ts \in Nat
  BY UsageAssumption DEF Event
<1>. QED BY <1>1, <1>2, UsageAssumption DEF TypeOK

LEMMA OnceStep == TypeOK /\ Once /\ [Next]_vars => Once'
<1>. SUFFICES ASSUME TypeOK, Once, [Next]_vars PROVE Once'
  OBVIOUS
<1>. USE DEF Once, Apart
<1>0. /\ clock \in Nat
      /\ \A e \in ToSet(queue) \cup ToSet(batch) \cup rows : e.ts \in Nat
      /\ \A p \in Loggers : event[p].ts \in Nat
  BY Times
<1>1. ASSUME NEW p \in Loggers, NEW u \in Users, NEW pat \in BOOLEAN, Stamp(p, u, pat)
      PROVE  Once'
  <2>1. /\ UNCHANGED <<queue, batch, rows, flusher>> /\ clock' = clock + 1
        /\ p \notin Hand /\ Hand' = Hand \cup {p}
        /\ event'[p].ts = clock + 1 /\ \A q \in Loggers \ {p} : event'[q] = event[q]
    BY <1>1 DEF Stamp, Goto, Hand, TypeOK, chanVars, flushVars, dbVars
  <2>2. ASSUME NEW q \in Hand \cup {p}
        PROVE  /\ 1 <= event'[q].ts /\ event'[q].ts <= clock'
               /\ \A r \in (Hand \cup {p}) \ {q} : event'[r].ts # event'[q].ts
               /\ \A e \in ToSet(queue) \cup ToSet(batch) \cup rows : e.ts # event'[q].ts
    <3>1. CASE q = p
      BY <1>0, <2>1, <3>1 DEF Hand
    <3>2. CASE q # p
      BY <1>0, <2>1, <2>2, <3>2 DEF Hand
    <3>. QED BY <3>1, <3>2
  <2>. QED BY <1>0, <2>1, <2>2
<1>2. ASSUME NEW p \in Loggers, RLock(p) \/ RUnlock(p) PROVE Once'
  <2>1. UNCHANGED <<queue, batch, rows, flusher, event, clock>> /\ Hand' \subseteq Hand
    BY <1>2 DEF RLock, RUnlock, Goto, Hand, TypeOK, flushVars, dbVars
  <2>. QED BY <2>1
<1>3. ASSUME NEW p \in Loggers, TrySend(p) PROVE Once'
  <2>1. /\ UNCHANGED <<batch, rows, flusher, event, clock>>
        /\ p \in Hand /\ Hand' = Hand \ {p}
    BY <1>3 DEF TrySend, Goto, Hand, TypeOK, flushVars, dbVars
  <2>2. CASE queue' = queue
    BY <2>1, <2>2
  <2>3. CASE queue' = Append(queue, event[p])
    <3>1. event[p] \in Event /\ queue \in Seq(Event)
      BY DEF TypeOK
    <3>2. ToSet(queue') = ToSet(queue) \cup {event[p]} /\ Distinct(queue')
      BY <2>1, <2>3, <3>1, PutLast
    <3>. QED BY <2>1, <3>2
  <2>. QED BY <1>3, <2>2, <2>3 DEF TrySend
<1>4. CASE Receive
  <2>1. /\ UNCHANGED <<rows, event, clock>> /\ Hand' = Hand
        /\ queue' = Tail(queue) /\ batch' = Append(batch, Head(queue)) /\ flusher = "select"
    BY <1>4 DEF Receive, Hand, logVars, dbVars
  <2>2. /\ queue \in Seq(Event) /\ queue # <<>> /\ batch \in Seq(Event) /\ Head(queue) \in Event
    BY <1>4, Shrinks DEF Receive, TypeOK
  <2>3. /\ ToSet(queue) = {Head(queue)} \cup ToSet(queue') /\ Distinct(queue')
        /\ \A e \in ToSet(queue') : e.ts # Head(queue).ts
    BY <2>1, <2>2, TakeHead
  <2>4. ToSet(batch') = ToSet(batch) \cup {Head(queue)} /\ Distinct(batch')
    BY <2>1, <2>2, <2>3, PutLast
  <2>. QED BY <2>1, <2>3, <2>4
<1>5. CASE ReceiveClosed \/ Tick
  BY <1>5 DEF ReceiveClosed, Tick, Hand, chanVars, logVars, dbVars
<1>6. CASE Insert
  <2>1. /\ UNCHANGED <<queue, batch, event, clock>> /\ Hand' = Hand
        /\ rows' = rows \cup ToSet(batch) /\ flusher' = "touch"
    BY <1>6 DEF Insert, Hand, chanVars, logVars
  <2>. QED BY <2>1
<1>7. CASE InsertFails \/ \E ok \in SUBSET Users : TouchTokens(ok)
  <2>1. UNCHANGED <<queue, rows, event, clock>> /\ Hand' = Hand /\ batch' = <<>>
    BY <1>7 DEF InsertFails, TouchTokens, FlushDone, Hand, chanVars, logVars, dbVars
  <2>2. ToSet(batch') = {} /\ Distinct(batch')
    BY <2>1, Nothing
  <2>. QED BY <2>1, <2>2
<1>8. CASE CloseUsage
  BY <1>8 DEF CloseUsage, Shutdown, StopAccepting, CloseChannel, CloseReturns, Hand,
              chanVars, logVars, flushVars, dbVars
<1>9. CASE Reboot
  <2>1. UNCHANGED <<rows, clock>> /\ Hand' = {} /\ queue' = <<>> /\ batch' = <<>>
    BY <1>9 DEF Reboot, Hand, dbVars
  <2>2. /\ ToSet(queue') = {} /\ Distinct(queue')
        /\ ToSet(batch') = {} /\ Distinct(batch')
    BY <2>1, Nothing
  <2>. QED BY <2>1, <2>2
<1>10. ASSUME NEW u \in Users, DeleteUserData(u) PROVE Once'
  BY <1>10 DEF DeleteUserData, Hand, chanVars, logVars, flushVars
<1>11. CASE UNCHANGED vars
  BY <1>11 DEF vars, Hand, chanVars, logVars, flushVars, dbVars
<1>. QED
  BY <1>1, <1>2, <1>3, <1>4, <1>5, <1>6, <1>7, <1>8, <1>9, <1>10, <1>11
  DEF Next, LogUsage, flushLoop

LEMMA OnceInit == Init => Once
<1>. SUFFICES ASSUME Init PROVE Once
  OBVIOUS
<1>1. queue = <<>> /\ batch = <<>> /\ rows = {} /\ Hand = {}
  BY DEF Init, Hand
<1>2. ToSet(queue) = {} /\ Distinct(queue) /\ ToSet(batch) = {} /\ Distinct(batch)
  BY <1>1, Nothing
<1>. QED BY <1>1, <1>2 DEF Once, Apart

-----------------------------------------------------------------------------
(* A batch has as many times as it has events.                             *)
LEMMA CountTimes ==
  ASSUME NEW q \in Seq(Event), Distinct(q)
  PROVE  Cardinality({e.ts : e \in ToSet(q)}) = Len(q)
<1>. DEFINE T == {e.ts : e \in ToSet(q)}
            f == [i \in 1..Len(q) |-> q[i].ts]
<1>1. Len(q) \in Nat /\ DOMAIN q = 1..Len(q)
  OBVIOUS
<1>2. f \in [1..Len(q) -> T]
  BY <1>1 DEF ToSet
<1>3. \A i, j \in 1..Len(q) : f[i] = f[j] => i = j
  BY <1>1 DEF Distinct
<1>4. \A t \in T : \E i \in 1..Len(q) : f[i] = t
  BY <1>1 DEF ToSet
<1>5. f \in Bijection(1..Len(q), T)
  <2>. HIDE DEF f, T
  <2>1. f \in Injection(1..Len(q), T)
    BY <1>2, <1>3 DEF Injection, IsInjective
  <2>2. f \in Surjection(1..Len(q), T)
    BY <1>2, <1>4 DEF Surjection
  <2>. QED BY <2>1, <2>2 DEF Bijection
<1>6. ExistsBijection(1..Len(q), T)
  BY <1>5 DEF ExistsBijection
<1>7. IsFiniteSet(1..Len(q)) /\ Cardinality(1..Len(q)) = Len(q)
  BY <1>1, FS_Interval
<1>. HIDE DEF T
<1>8. Cardinality(T) = Cardinality(1..Len(q))
  BY <1>6, <1>7, FS_Bijection
<1>. QED BY <1>7, <1>8 DEF T

LoggedAt(t) == \E e \in rows : e.ts = t

Ahead(t) == t > clock \/ InHand(t)

(* A step of the abstract log, or none.                                    *)
Simulated == [L!Next]_(L!lossyVars)

LEMMA StutterSimulates ==
  ASSUME UNCHANGED dropped, StateOf' = StateOf,
         \A t \in 1..MaxEvents :
           /\ LoggedAt(t)' <=> LoggedAt(t)
           /\ InMemory(t)' <=> InMemory(t)
           /\ Ahead(t)' <=> Ahead(t)
  PROVE  Simulated
<1>1. \A t \in 1..MaxEvents : FateOf(t)' = FateOf(t)
  BY DEF FateOf, LoggedAt, Ahead
<1>. QED BY <1>1 DEF Simulated, L!lossyVars

LEMMA MoveIsMove ==
  ASSUME NEW ts \in SUBSET (1..MaxEvents), NEW from, NEW to,
         \A t \in ts : FateOf(t) = from /\ FateOf(t)' = to,
         \A t \in (1..MaxEvents) \ ts : FateOf(t)' = FateOf(t)
  PROVE  L!Move(ts, from, to)
BY DEF L!Move

(* Requests: a new event is accepted, refused or ignored.                  *)
LEMMA LogSimulates ==
  ASSUME TypeOK, LockInv, Once, NEW p \in Loggers, LogUsage(p)
  PROVE  Simulated
<1>. DEFINE t0 == event[p].ts
<1>0. /\ clock \in Nat /\ MaxEvents \in Nat /\ t0 \in Nat
      /\ \A e \in ToSet(queue) \cup ToSet(batch) \cup rows : e.ts \in Nat
      /\ \A q \in Loggers : event[q].ts \in Nat
  BY Times, UsageAssumption
<1>1. ASSUME p \in Hand
      PROVE  /\ t0 \in 1..MaxEvents /\ ~LoggedAt(t0) /\ ~InMemory(t0) /\ Ahead(t0)
             /\ FateOf(t0) = "new"
             /\ ~(t0 > clock) /\ \A q \in Hand \ {p} : event[q].ts # t0
  <2>1. t0 \in 1..MaxEvents /\ ~(t0 > clock)
    BY <1>0, <1>1 DEF Once, TypeOK
  <2>2. ~LoggedAt(t0) /\ ~InMemory(t0) /\ InHand(t0)
    BY <1>1 DEF Once, LoggedAt, InMemory, InHand, Hand
  <2>. QED BY <1>1, <2>1, <2>2 DEF FateOf, LoggedAt, Ahead, Once
<1>2. ASSUME NEW u \in Users, NEW pat \in BOOLEAN, Stamp(p, u, pat) PROVE Simulated
  <2>1. /\ UNCHANGED <<queue, batch, rows, flusher, accepting, closer, dropped>>
        /\ clock' = clock + 1 /\ p \notin Hand /\ Hand' = Hand \cup {p}
        /\ event'[p].ts = clock + 1 /\ \A q \in Loggers \ {p} : event'[q] = event[q]
    BY <1>2 DEF Stamp, Goto, Hand, TypeOK, chanVars, flushVars, dbVars
  <2>2. \A t \in 1..MaxEvents : InHand(t)' <=> InHand(t) \/ t = clock + 1
    BY <2>1 DEF InHand, Hand
  <2>3. \A t \in 1..MaxEvents : Ahead(t)' <=> Ahead(t)
    BY <1>0, <2>1, <2>2 DEF Ahead
  <2>4. \A t \in 1..MaxEvents : (LoggedAt(t)' <=> LoggedAt(t)) /\ (InMemory(t)' <=> InMemory(t))
    BY <2>1 DEF LoggedAt, InMemory
  <2>. QED BY <2>1, <2>3, <2>4, StutterSimulates DEF StateOf
<1>3. CASE RLock(p) /\ accepting
  <2>1. /\ UNCHANGED <<queue, batch, rows, flusher, accepting, closer, dropped, event, clock>>
        /\ Hand' = Hand
    BY <1>3 DEF RLock, Goto, Hand, TypeOK, flushVars, dbVars
  <2>2. \A t : (InHand(t)' <=> InHand(t)) /\ (InMemory(t)' <=> InMemory(t))
    BY <2>1 DEF InHand, Hand, InMemory
  <2>. QED BY <2>1, <2>2, StutterSimulates DEF StateOf, LoggedAt, Ahead
<1>4. CASE RLock(p) /\ ~accepting
  <2>1. /\ UNCHANGED <<queue, batch, rows, flusher, accepting, closer, dropped, event, clock>>
        /\ p \in Hand /\ Hand' = Hand \ {p}
    BY <1>4 DEF RLock, Goto, Hand, TypeOK, flushVars, dbVars
  <2>2. \A t : /\ LoggedAt(t)' <=> LoggedAt(t)
               /\ InMemory(t)' <=> InMemory(t)
               /\ t # t0 => (InHand(t)' <=> InHand(t))
    BY <2>1 DEF LoggedAt, InMemory, InHand, Hand
  <2>3. \A t \in (1..MaxEvents) \ {t0} : FateOf(t)' = FateOf(t)
    BY <2>1, <2>2 DEF FateOf, LoggedAt
  <2>4. ~InHand(t0)'
    BY <1>1, <2>1 DEF InHand, Hand
  <2>5. FateOf(t0)' = "gone"
    BY <1>1, <2>1, <2>2, <2>4 DEF FateOf, LoggedAt
  <2>6. L!Move({t0}, "new", "gone")
    BY <1>1, <2>1, <2>3, <2>5, MoveIsMove
  <2>7. StateOf # "open" /\ StateOf' = StateOf
    BY <1>4, <2>1 DEF StateOf
  <2>8. L!Ignore(t0)
    BY <2>1, <2>6, <2>7 DEF L!Ignore
  <2>. QED BY <1>1, <2>1, <2>8 DEF Simulated, L!Next
<1>5. CASE TrySend(p)
  <2>1. /\ UNCHANGED <<batch, rows, flusher, accepting, closer, event, clock>>
        /\ p \in Hand /\ Hand' = Hand \ {p} /\ accepting
    BY <1>5 DEF TrySend, Goto, Hand, TypeOK, LockInv, flushVars, dbVars
  <2>2. \A t : /\ LoggedAt(t)' <=> LoggedAt(t)
               /\ t # t0 => (InHand(t)' <=> InHand(t))
    BY <2>1 DEF LoggedAt, InHand, Hand
  <2>3. ~InHand(t0)'
    BY <1>1, <2>1 DEF InHand, Hand
  <2>4. StateOf = "open" /\ StateOf' = StateOf
    BY <2>1 DEF StateOf
  <2>5. CASE queue' = Append(queue, event[p]) /\ dropped' = dropped
    <3>1. ToSet(queue') = ToSet(queue) \cup {event[p]}
      BY <2>5, PutLast DEF TypeOK
    <3>2. InMemory(t0)' /\ \A t : t # t0 => (InMemory(t)' <=> InMemory(t))
      BY <2>1, <3>1 DEF InMemory
    <3>3. \A t \in (1..MaxEvents) \ {t0} : FateOf(t)' = FateOf(t)
      BY <2>1, <2>2, <3>2 DEF FateOf, LoggedAt
    <3>4. FateOf(t0)' = "pending"
      BY <1>1, <2>1, <2>2, <3>2 DEF FateOf, LoggedAt
    <3>5. L!Move({t0}, "new", "pending")
      BY <1>1, <2>1, <3>3, <3>4, MoveIsMove
    <3>6. L!Accept(t0)
      BY <2>4, <2>5, <3>5 DEF L!Accept
    <3>. QED BY <1>1, <2>1, <3>6 DEF Simulated, L!Next
  <2>6. CASE queue' = queue /\ dropped' = dropped + 1
    <3>1. \A t : InMemory(t)' <=> InMemory(t)
      BY <2>1, <2>6 DEF InMemory
    <3>2. \A t \in (1..MaxEvents) \ {t0} : FateOf(t)' = FateOf(t)
      BY <2>1, <2>2, <3>1 DEF FateOf, LoggedAt
    <3>3. FateOf(t0)' = "gone"
      BY <1>1, <2>1, <2>2, <2>3, <3>1 DEF FateOf, LoggedAt
    <3>4. L!Move({t0}, "new", "gone")
      BY <1>1, <2>1, <3>2, <3>3, MoveIsMove
    <3>5. L!Refuse(t0)
      BY <2>4, <2>6, <3>4 DEF L!Refuse
    <3>. QED BY <1>1, <2>1, <3>5 DEF Simulated, L!Next
  <2>. QED BY <1>5, <2>5, <2>6 DEF TrySend
<1>6. CASE RUnlock(p)
  <2>1. /\ UNCHANGED <<queue, batch, rows, flusher, accepting, closer, dropped, event, clock>>
        /\ Hand' = Hand
    BY <1>6 DEF RUnlock, Goto, Hand, TypeOK, flushVars, dbVars
  <2>2. \A t : (InHand(t)' <=> InHand(t)) /\ (InMemory(t)' <=> InMemory(t))
    BY <2>1 DEF InHand, Hand, InMemory
  <2>. QED BY <2>1, <2>2, StutterSimulates DEF StateOf, LoggedAt, Ahead
<1>. QED BY <1>2, <1>3, <1>4, <1>5, <1>6 DEF LogUsage

(* The flusher: what it has received is still pending, and a batch is      *)
(* logged or given up as a whole.                                          *)
LEMMA FlushSimulates ==
  ASSUME TypeOK, Once, flushLoop
  PROVE  Simulated
<1>. DEFINE ts == {e.ts : e \in ToSet(batch)}
<1>0. UNCHANGED <<accepting, closer, event, clock>> /\ Hand' = Hand
  BY DEF flushLoop, Receive, ReceiveClosed, Tick, Insert, InsertFails, TouchTokens, Hand,
         chanVars, logVars
<1>1. StateOf' = StateOf /\ \A t : Ahead(t)' <=> Ahead(t)
  BY <1>0 DEF StateOf, Ahead, InHand, Hand
<1>2. CASE Receive
  <2>1. /\ UNCHANGED <<rows, dropped>>
        /\ queue' = Tail(queue) /\ batch' = Append(batch, Head(queue))
        /\ flusher = "select" /\ flusher' # "touch"
    BY <1>2 DEF Receive, dbVars
  <2>2. /\ queue \in Seq(Event) /\ queue # <<>> /\ batch \in Seq(Event) /\ Head(queue) \in Event
        /\ Distinct(queue)
    BY <1>2, Shrinks DEF Receive, TypeOK, Once
  <2>3. ToSet(queue) = {Head(queue)} \cup ToSet(queue')
    BY <2>1, <2>2, TakeHead
  <2>4. ToSet(batch') = ToSet(batch) \cup {Head(queue)}
    BY <2>1, <2>2, PutLast
  <2>5. \A t : (InMemory(t)' <=> InMemory(t)) /\ (LoggedAt(t)' <=> LoggedAt(t))
    BY <2>1, <2>3, <2>4 DEF InMemory, LoggedAt
  <2>. QED BY <1>1, <2>1, <2>5, StutterSimulates
<1>3. CASE ReceiveClosed \/ Tick
  <2>1. /\ UNCHANGED <<rows, dropped, queue, batch>>
        /\ flusher # "touch" /\ flusher' # "touch"
    BY <1>3 DEF ReceiveClosed, Tick, dbVars, chanVars
  <2>2. \A t : (InMemory(t)' <=> InMemory(t)) /\ (LoggedAt(t)' <=> LoggedAt(t))
    BY <2>1 DEF InMemory, LoggedAt
  <2>. QED BY <1>1, <2>1, <2>2, StutterSimulates
<1>4. \A t \in ts : t \in 1..MaxEvents
  <2>1. \A e \in ToSet(batch) : e.ts \in 1..MaxEvents
    BY Times, UsageAssumption DEF Once, TypeOK
  <2>. QED BY <2>1
<1>5. ASSUME flusher # "touch", NEW t \in ts
      PROVE  ~LoggedAt(t) /\ InMemory(t) /\ FateOf(t) = "pending" /\ ~Ahead(t)
             /\ \A e \in ToSet(queue) : e.ts # t
  <2>1. PICK b \in ToSet(batch) : b.ts = t
    OBVIOUS
  <2>2. ~LoggedAt(t) /\ InMemory(t) /\ \A e \in ToSet(queue) : e.ts # t
    BY <1>5, <2>1 DEF Once, Apart, LoggedAt, InMemory
  <2>3. ~InHand(t)
    BY <2>1 DEF Once, InHand, Hand
  <2>4. ~(t > clock)
    BY <2>1, Times DEF Once
  <2>. QED BY <2>2, <2>3, <2>4 DEF FateOf, LoggedAt, Ahead
<1>6. CASE Insert
  <2>1. /\ UNCHANGED <<queue, batch, dropped>> /\ rows' = rows \cup ToSet(batch)
        /\ flusher # "touch" /\ flusher' = "touch"
    BY <1>6 DEF Insert, chanVars
  <2>2. \A t \in ts : FateOf(t)' = "logged"
    BY <2>1 DEF FateOf
  <2>3. ASSUME NEW t \in (1..MaxEvents) \ ts PROVE FateOf(t)' = FateOf(t)
    <3>1. \A e \in ToSet(batch) : e.ts # t
      BY <2>3
    <3>2. (LoggedAt(t)' <=> LoggedAt(t)) /\ (InMemory(t)' <=> InMemory(t))
      BY <2>1, <3>1 DEF LoggedAt, InMemory
    <3>. QED BY <1>1, <3>2 DEF FateOf, LoggedAt, Ahead
  <2>. HIDE DEF ts
  <2>4. L!Move(ts, "pending", "logged")
    BY <1>4, <1>5, <2>1, <2>2, <2>3, MoveIsMove
  <2>5. L!Log(ts)
    BY <1>1, <2>1, <2>4 DEF L!Log
  <2>. QED BY <1>4, <2>5 DEF Simulated, L!Next
<1>7. CASE InsertFails
  <2>1. /\ UNCHANGED <<queue, rows>> /\ batch' = <<>> /\ dropped' = dropped + Len(batch)
        /\ flusher # "touch" /\ flusher' # "touch"
    BY <1>7 DEF InsertFails, FlushDone, chanVars, dbVars
  <2>2. \A t : InMemory(t)' <=> \E e \in ToSet(queue) : e.ts = t
    BY <2>1, Nothing DEF InMemory
  <2>3. ASSUME NEW t \in ts PROVE FateOf(t)' = "gone"
    <3>1. ~LoggedAt(t)' /\ ~InMemory(t)' /\ ~Ahead(t)'
      BY <1>1, <1>5, <2>1, <2>2, <2>3 DEF LoggedAt
    <3>. QED BY <3>1 DEF FateOf, LoggedAt, Ahead
  <2>4. ASSUME NEW t \in (1..MaxEvents) \ ts PROVE FateOf(t)' = FateOf(t)
    <3>1. \A e \in ToSet(batch) : e.ts # t
      BY <2>4
    <3>2. (LoggedAt(t)' <=> LoggedAt(t)) /\ (InMemory(t)' <=> InMemory(t))
      BY <2>1, <2>2, <3>1 DEF LoggedAt, InMemory
    <3>. QED BY <1>1, <3>2 DEF FateOf, LoggedAt, Ahead
  <2>5. Cardinality(ts) = Len(batch)
    BY CountTimes DEF TypeOK, Once
  <2>. HIDE DEF ts
  <2>6. L!Move(ts, "pending", "gone")
    BY <1>4, <1>5, <2>1, <2>3, <2>4, MoveIsMove
  <2>7. dropped' = dropped + Cardinality(ts) /\ StateOf' = StateOf
    BY <1>1, <2>1, <2>5
  <2>8. L!GiveUp(ts)
    <3>1. L!Cardinality(ts) = Cardinality(ts)
      BY DEF L!Cardinality, Cardinality
    <3>. QED BY <2>6, <2>7, <3>1 DEF L!GiveUp
  <2>. QED BY <1>4, <2>8 DEF Simulated, L!Next
<1>8. ASSUME NEW ok \in SUBSET Users, TouchTokens(ok) PROVE Simulated
  <2>1. /\ UNCHANGED <<queue, rows, dropped>> /\ batch' = <<>>
        /\ flusher = "touch" /\ flusher' # "touch"
    BY <1>8 DEF TouchTokens, FlushDone, chanVars
  <2>2. \A t : (InMemory(t)' <=> InMemory(t)) /\ (LoggedAt(t)' <=> LoggedAt(t))
    BY <2>1, Nothing DEF InMemory, LoggedAt
  <2>. QED BY <1>1, <2>1, <2>2, StutterSimulates
<1>. QED BY <1>2, <1>3, <1>6, <1>7, <1>8 DEF flushLoop

(* CloseUsage: a closed log has nothing pending.                           *)
LEMMA CloseSimulates ==
  ASSUME TypeOK, LockInv, Drained, CloseUsage
  PROVE  Simulated
<1>1. /\ UNCHANGED <<queue, batch, rows, flusher, dropped, event, clock, pc>>
  BY DEF CloseUsage, Shutdown, StopAccepting, CloseChannel, CloseReturns, chanVars, logVars,
         flushVars, dbVars
<1>2. \A t : /\ LoggedAt(t)' <=> LoggedAt(t)
             /\ InMemory(t)' <=> InMemory(t)
             /\ Ahead(t)' <=> Ahead(t)
  BY <1>1 DEF LoggedAt, InMemory, Ahead, InHand
<1>3. \A t \in 1..MaxEvents : FateOf(t)' = FateOf(t)
  BY <1>2 DEF FateOf, LoggedAt, Ahead
<1>4. CASE Shutdown \/ CloseChannel
  <2>1. StateOf' = StateOf
    BY <1>4 DEF Shutdown, CloseChannel, StateOf, chanVars, LockInv
  <2>. QED BY <1>1, <1>2, <2>1, StutterSimulates
<1>5. CASE StopAccepting
  <2>1. StateOf = "open" /\ StateOf' = "closing"
    BY <1>5 DEF StopAccepting, StateOf, LockInv
  <2>2. L!Close
    BY <1>1, <1>3, <2>1 DEF L!Close
  <2>. QED BY <2>2 DEF Simulated, L!Next
<1>6. CASE CloseReturns
  <2>1. StateOf = "closing" /\ StateOf' = "closed"
    BY <1>6 DEF CloseReturns, StateOf, LockInv, chanVars
  <2>2. queue = <<>> /\ batch = <<>>
    BY <1>6 DEF CloseReturns, Drained
  <2>3. \A t \in 1..MaxEvents : FateOf(t) # "pending"
    BY <2>2, Nothing DEF FateOf, InMemory
  <2>4. L!Finish
    BY <1>1, <1>3, <2>1, <2>3 DEF L!Finish
  <2>. QED BY <2>4 DEF Simulated, L!Next
<1>. QED BY <1>4, <1>5, <1>6 DEF CloseUsage

(* A restart loses what is pending or about to be offered.                 *)
LEMMA RebootSimulates ==
  ASSUME TypeOK, Once, Reboot
  PROVE  Simulated
<1>. DEFINE ts == {t \in 1..MaxEvents : FateOf(t) # FateOf(t)' \/ FateOf(t) = "pending"}
<1>1. /\ UNCHANGED <<rows, clock>> /\ queue' = <<>> /\ batch' = <<>> /\ dropped' = 0 /\ accepting'
      /\ \A p \in Loggers : pc'[p] = "idle"
  BY DEF Reboot, dbVars
<1>2. \A t : (LoggedAt(t)' <=> LoggedAt(t)) /\ ~InMemory(t)' /\ (Ahead(t)' <=> t > clock)
  BY <1>1, Nothing DEF LoggedAt, InMemory, Ahead, InHand
<1>3. ASSUME NEW t \in 1..MaxEvents, FateOf(t) = "pending"
      PROVE  FateOf(t)' = "gone"
  <2>1. ~LoggedAt(t) /\ InMemory(t)
    BY <1>3 DEF FateOf, LoggedAt
  <2>2. PICK e \in ToSet(queue) \cup ToSet(batch) : e.ts = t
    BY <2>1 DEF InMemory
  <2>3. ~(t > clock)
    BY <2>2, Times DEF Once
  <2>. QED BY <1>2, <2>1, <2>3 DEF FateOf, LoggedAt, Ahead
<1>4. ASSUME NEW t \in 1..MaxEvents, FateOf(t) # "pending", FateOf(t)' # FateOf(t)
      PROVE  FateOf(t) = "new" /\ FateOf(t)' = "gone"
  BY <1>2, <1>4 DEF FateOf, LoggedAt, Ahead
<1>5. StateOf' = "open"
  BY <1>1 DEF StateOf
<1>6. L!Crash(ts)
  <2>1. \A t \in ts : FateOf(t) \in {"new", "pending"} /\ FateOf(t)' = "gone"
    BY <1>3, <1>4
  <2>2. \A t \in (1..MaxEvents) \ ts : FateOf(t)' = FateOf(t) /\ FateOf(t) # "pending"
    OBVIOUS
  <2>3. ts \subseteq 1..MaxEvents
    OBVIOUS
  <2>. HIDE DEF ts
  <2>. QED BY <1>1, <1>5, <2>1, <2>2, <2>3 DEF L!Crash
<1>. QED BY <1>6 DEF Simulated, L!Next

(* The rows of a deleted user are logged no more.                          *)
LEMMA DeleteSimulates ==
  ASSUME TypeOK, Once, NEW u \in Users, DeleteUserData(u)
  PROVE  Simulated
<1>. DEFINE ts == {t \in 1..MaxEvents : LoggedAt(t) /\ ~LoggedAt(t)'}
<1>1. /\ UNCHANGED <<queue, batch, flusher, dropped, event, clock, pc, accepting, closer>>
      /\ rows' \subseteq rows
  BY DEF DeleteUserData, chanVars, logVars, flushVars
<1>2. \A t : /\ InMemory(t)' <=> InMemory(t)
             /\ Ahead(t)' <=> Ahead(t)
             /\ LoggedAt(t)' => LoggedAt(t)
  BY <1>1 DEF LoggedAt, InMemory, Ahead, InHand
<1>3. StateOf' = StateOf
  BY <1>1 DEF StateOf
<1>4. ASSUME NEW t \in ts PROVE FateOf(t) = "logged" /\ FateOf(t)' = "gone"
  <2>1. PICK e \in rows : e.ts = t
    BY DEF LoggedAt
  <2>2. ~InMemory(t)
    BY <2>1 DEF Once, Apart, InMemory
  <2>3. ~(t > clock)
    BY <2>1, Times DEF Once
  <2>4. ~InHand(t)
    BY <2>1 DEF Once, InHand, Hand
  <2>. QED BY <1>2, <2>2, <2>3, <2>4 DEF FateOf, LoggedAt, Ahead
<1>5. \A t \in (1..MaxEvents) \ ts : FateOf(t)' = FateOf(t)
  BY <1>2 DEF FateOf, LoggedAt, Ahead
<1>6. ts \subseteq 1..MaxEvents
  OBVIOUS
<1>. HIDE DEF ts
<1>7. L!Move(ts, "logged", "gone")
  BY <1>4, <1>5, <1>6, MoveIsMove
<1>8. L!Erase(ts)
  BY <1>1, <1>3, <1>7 DEF L!Erase
<1>. QED BY <1>6, <1>8 DEF Simulated, L!Next

LogInv == TypeOK /\ LockInv /\ Drained /\ Once

LEMMA LogInvariant == Spec => []LogInv
<1>1. Init => Drained
  BY DEF Init, Drained
<1>2. Spec => [](LockInv /\ Drained)
  BY <1>1, DrainedStep, LockInvariant, PTL DEF Spec
<1>3. Spec => [](TypeOK /\ Once)
  BY OnceInit, OnceStep, TypeCorrect, PTL DEF Spec
<1>. QED BY <1>2, <1>3, PTL DEF LogInv

LEMMA StepSimulates == LogInv /\ [Next]_vars => Simulated
<1>. SUFFICES ASSUME LogInv, [Next]_vars PROVE Simulated
  OBVIOUS
<1>. USE DEF LogInv
<1>1. CASE UNCHANGED vars
  <2>1. UNCHANGED <<queue, batch, rows, flusher, dropped, event, clock, pc, accepting, closer>>
    BY <1>1 DEF vars, chanVars, logVars, flushVars, dbVars
  <2>2. /\ StateOf' = StateOf
        /\ \A t : /\ LoggedAt(t)' <=> LoggedAt(t)
                  /\ InMemory(t)' <=> InMemory(t)
                  /\ Ahead(t)' <=> Ahead(t)
    BY <2>1 DEF StateOf, LoggedAt, InMemory, Ahead, InHand
  <2>. QED BY <2>1, <2>2, StutterSimulates
<1>. QED
  BY <1>1, LogSimulates, FlushSimulates, CloseSimulates, RebootSimulates, DeleteSimulates
  DEF Next

(* The channel, the lock, the batches and the shutdown implement a log     *)
(* that takes each event at most once and loses none uncounted while the   *)
(* process lives and the log is open, for any number of requests and       *)
(* events, any buffer and any batch (usage.go:39-118).                     *)
THEOREM LogImplemented == Spec => ImplementsLog
<1>1. Init => L!Init
  <2>. SUFFICES ASSUME Init PROVE L!Init
    OBVIOUS
  <2>1. queue = <<>> /\ batch = <<>> /\ rows = {} /\ dropped = 0 /\ accepting /\ clock = 0
    BY DEF Init
  <2>2. \A t \in 1..MaxEvents : FateOf(t) = "new"
    BY <2>1, Nothing, UsageAssumption DEF FateOf, InMemory
  <2>. QED BY <2>1, <2>2 DEF L!Init, StateOf
<1>. QED
  BY <1>1, StepSimulates, LogInvariant, PTL DEF Spec, LogInv, ImplementsLog, L!Spec, Simulated

-----------------------------------------------------------------------------
(* Where an event may be next.                                             *)
Onward(from) ==
  CASE from = "new" -> {"new", "pending", "gone"}
    [] from = "pending" -> {"pending", "logged", "gone"}
    [] from = "logged" -> {"logged", "gone"}
    [] OTHER -> {"gone"}

EventsMoveOn == [][\A t \in 1..MaxEvents : FateOf(t)' \in Onward(FateOf(t))]_vars

(* No event is logged a second time: not one given up after its insert     *)
(* failed, not one deleted with its user, not one lost in a restart        *)
(* (usage.go:39-118).                                                      *)
THEOREM NoEventComesBack == Spec => EventsMoveOn
<1>1. ASSUME Simulated, NEW t \in 1..MaxEvents
      PROVE  FateOf(t)' \in Onward(FateOf(t))
  <2>0. FateOf(t) \in {"new", "pending", "logged", "gone"}
    BY DEF FateOf
  <2>1. \/ FateOf(t)' = FateOf(t)
        \/ FateOf(t) = "new" /\ FateOf(t)' \in {"pending", "gone"}
        \/ FateOf(t) = "pending" /\ FateOf(t)' \in {"logged", "gone"}
        \/ FateOf(t) = "logged" /\ FateOf(t)' = "gone"
    <3>1. ASSUME NEW ts \in SUBSET (1..MaxEvents), NEW from, NEW to, L!Move(ts, from, to)
          PROVE  \/ FateOf(t)' = FateOf(t)
                 \/ FateOf(t) = from /\ FateOf(t)' = to
      BY <3>1 DEF L!Move
    <3>2. ASSUME NEW t0 \in 1..MaxEvents, L!Accept(t0) \/ L!Refuse(t0) \/ L!Ignore(t0)
          PROVE  \/ FateOf(t)' = FateOf(t)
                 \/ FateOf(t) = "new" /\ FateOf(t)' \in {"pending", "gone"}
      <4>1. L!Move({t0}, "new", "pending") \/ L!Move({t0}, "new", "gone")
        BY <3>2 DEF L!Accept, L!Refuse, L!Ignore
      <4>2. {t0} \in SUBSET (1..MaxEvents)
        OBVIOUS
      <4>3. ASSUME NEW to \in {"pending", "gone"}, L!Move({t0}, "new", to)
            PROVE  \/ FateOf(t)' = FateOf(t)
                   \/ FateOf(t) = "new" /\ FateOf(t)' = to
        BY <3>1, <4>2, <4>3
      <4>. QED BY <4>1, <4>3
    <3>3. ASSUME NEW ts \in SUBSET (1..MaxEvents), L!Log(ts) \/ L!GiveUp(ts) \/ L!Erase(ts)
          PROVE  \/ FateOf(t)' = FateOf(t)
                 \/ FateOf(t) = "pending" /\ FateOf(t)' \in {"logged", "gone"}
                 \/ FateOf(t) = "logged" /\ FateOf(t)' = "gone"
      <4>1. \/ L!Move(ts, "pending", "logged") \/ L!Move(ts, "pending", "gone")
            \/ L!Move(ts, "logged", "gone")
        BY <3>3 DEF L!Log, L!GiveUp, L!Erase
      <4>. QED BY <3>1, <4>1
    <3>4. ASSUME NEW ts \in SUBSET (1..MaxEvents), L!Crash(ts)
          PROVE  \/ FateOf(t)' = FateOf(t)
                 \/ FateOf(t) \in {"new", "pending"} /\ FateOf(t)' = "gone"
      BY <3>4 DEF L!Crash
    <3>5. CASE L!Close \/ L!Finish \/ UNCHANGED L!lossyVars
      BY <3>5 DEF L!Close, L!Finish, L!lossyVars
    <3>. QED BY <1>1, <3>2, <3>3, <3>4, <3>5 DEF Simulated, L!Next
  <2>. QED BY <2>0, <2>1 DEF Onward
<1>2. LogInv /\ [Next]_vars => [\A t \in 1..MaxEvents : FateOf(t)' \in Onward(FateOf(t))]_vars
  BY <1>1, StepSimulates
<1>. QED BY <1>2, LogInvariant, PTL DEF Spec, EventsMoveOn

-----------------------------------------------------------------------------
(* What is left to do until CloseUsage returns, once it was called: the    *)
(* requests that hold the lock it waits for, the events queued, what the   *)
(* flusher has at hand, and its own steps.                                 *)
Senders == {p \in Loggers : pc[p] = "send"}

LockWork ==
  IF closer = "locking" THEN 5 * Cardinality(Senders) + Cardinality(readers) ELSE 0

FlushWork ==
  CASE flusher = "select" -> IF batch = <<>> THEN 1 ELSE 4
    [] flusher = "insert" -> 3
    [] flusher = "touch" -> 2
    [] flusher = "exited" -> 0

CloseWork ==
  CASE closer = "locking" -> 3
    [] closer = "closing" -> 2
    [] closer = "waiting" -> 1
    [] OTHER -> 0

Work == LockWork + 4 * Len(queue) + FlushWork + CloseWork

Closing == closer \in {"locking", "closing", "waiting"}

(* The steps that the return of CloseUsage waits for.                      *)
Lowers ==
  \/ closer = "locking" /\ \E p \in readers : TrySend(p) \/ RUnlock(p)
  \/ flushLoop
  \/ StopAccepting \/ CloseChannel \/ CloseReturns

(* While CloseUsage runs there is a step to take, and its guard holds.     *)
NotStuck ==
  /\ closer = "locking" => readers = {} \/ \E p \in readers : pc[p] \in {"send", "unlock"}
  /\ closer = "waiting" =>
       \/ flusher \in {"insert", "touch", "exited"}
       \/ flusher = "select" /\ (queue # <<>> \/ closed)

Holders ==
  /\ readers = {p \in Loggers : pc[p] \in {"send", "unlock"}}
  /\ IsFiniteSet(readers)

ShutdownEnds ==
  /\ [](Closing => Work \in Nat /\ NotStuck)
  /\ [][Closing /\ ~Reboot =>
          /\ closer' # "serving" /\ Work' <= Work
          /\ Lowers => Work' < Work]_vars

LEMMA HoldersStep == TypeOK /\ Holders /\ [Next]_vars => Holders'
<1>. SUFFICES ASSUME TypeOK, Holders, [Next]_vars PROVE Holders'
  OBVIOUS
<1>. USE DEF Holders
<1>1. ASSUME NEW p \in Loggers, LogUsage(p) PROVE Holders'
  <2>. USE DEF TypeOK, Goto
  <2>1. ASSUME NEW u \in Users, NEW pat \in BOOLEAN, Stamp(p, u, pat) PROVE Holders'
    BY <2>1 DEF Stamp, chanVars
  <2>2. CASE RLock(p)
    <3>1. readers' = readers \cup {p}
      BY <2>2 DEF RLock
    <3>2. IsFiniteSet(readers')
      BY <3>1, FS_AddElement
    <3>3. readers' = {q \in Loggers : pc'[q] \in {"send", "unlock"}}
      BY <2>2, <3>1 DEF RLock
    <3>. QED BY <3>2, <3>3
  <2>3. CASE TrySend(p)
    BY <2>3 DEF TrySend
  <2>4. CASE RUnlock(p)
    <3>1. readers' = readers \ {p}
      BY <2>4 DEF RUnlock
    <3>2. IsFiniteSet(readers')
      BY <3>1, FS_Subset
    <3>3. readers' = {q \in Loggers : pc'[q] \in {"send", "unlock"}}
      BY <2>4, <3>1 DEF RUnlock
    <3>. QED BY <3>2, <3>3
  <2>. QED BY <1>1, <2>1, <2>2, <2>3, <2>4 DEF LogUsage
<1>2. CASE flushLoop
  BY <1>2 DEF flushLoop, Receive, ReceiveClosed, Tick, Insert, InsertFails, TouchTokens,
              chanVars, logVars
<1>3. CASE CloseUsage
  BY <1>3 DEF CloseUsage, Shutdown, StopAccepting, CloseChannel, CloseReturns, chanVars, logVars
<1>4. CASE Reboot
  <2>1. readers' = {} /\ pc' = [p \in Loggers |-> "idle"]
    BY <1>4 DEF Reboot
  <2>2. IsFiniteSet(readers')
    BY <2>1, FS_EmptySet
  <2>. QED BY <2>1, <2>2
<1>5. ASSUME NEW u \in Users, DeleteUserData(u) PROVE Holders'
  BY <1>5 DEF DeleteUserData, chanVars, logVars
<1>6. CASE UNCHANGED vars
  BY <1>6 DEF vars, chanVars, logVars
<1>. QED  BY <1>1, <1>2, <1>3, <1>4, <1>5, <1>6 DEF Next

(* The work is a number.                                                   *)
LEMMA WorkType ==
  ASSUME TypeOK, Holders
  PROVE  /\ IsFiniteSet(Senders) /\ Cardinality(Senders) \in Nat /\ Cardinality(readers) \in Nat
         /\ LockWork \in Nat /\ Len(queue) \in Nat /\ FlushWork \in 0..4 /\ CloseWork \in 0..3
         /\ Work \in Nat
<1>1. Senders \subseteq readers
  BY DEF Senders, Holders
<1>2. /\ IsFiniteSet(Senders) /\ Cardinality(Senders) \in Nat
      /\ Cardinality(readers) \in Nat
  BY <1>1, FS_Subset, FS_CardinalityType DEF Holders
<1>3. LockWork \in Nat
  BY <1>2 DEF LockWork
<1>4. Len(queue) \in Nat
  BY LenNat DEF TypeOK
<1>5. FlushWork \in 0..4
  BY DEF FlushWork, TypeOK
<1>6. CloseWork \in 0..3
  BY DEF CloseWork
<1>. QED BY <1>2, <1>3, <1>4, <1>5, <1>6 DEF Work

(* A request that holds the lock sends, and then returns it.               *)
LEMMA HolderLowers ==
  ASSUME TypeOK, Holders, TypeOK', Holders', NEW p \in Loggers, TrySend(p) \/ RUnlock(p),
         closer = "locking"
  PROVE  Work' < Work
<1>1. /\ UNCHANGED <<flusher, batch, closer>>
  BY DEF TrySend, RUnlock, flushVars
<1>2. FlushWork' = FlushWork /\ CloseWork' = CloseWork
  BY <1>1 DEF FlushWork, CloseWork
<1>3. /\ LockWork = 5 * Cardinality(Senders) + Cardinality(readers)
      /\ LockWork' = 5 * Cardinality(Senders)' + Cardinality(readers)'
  BY <1>1 DEF LockWork
<1>4. /\ Cardinality(Senders) \in Nat /\ Cardinality(readers) \in Nat /\ Len(queue) \in Nat
      /\ FlushWork \in Nat /\ CloseWork \in Nat
      /\ IsFiniteSet(Senders) /\ IsFiniteSet(readers)
  BY WorkType DEF Holders
<1>5. CASE TrySend(p)
  <2>1. Senders' = Senders \ {p} /\ p \in Senders /\ readers' = readers
    BY <1>5 DEF TrySend, Senders, Goto, TypeOK
  <2>2. Cardinality(Senders)' = Cardinality(Senders) - 1
    BY <1>4, <2>1, FS_RemoveElement
  <2>3. Len(queue') \in Nat /\ Len(queue') <= Len(queue) + 1
    BY <1>4, <1>5, Grows DEF TrySend, TypeOK
  <2>4. LockWork' = LockWork - 5 /\ LockWork \in Nat
    BY <1>3, <1>4, <2>1, <2>2
  <2>. QED BY <1>2, <1>4, <2>3, <2>4 DEF Work
<1>6. CASE RUnlock(p)
  <2>1. readers' = readers \ {p} /\ p \in readers /\ Senders' = Senders /\ queue' = queue
    BY <1>6 DEF RUnlock, Senders, Holders, Goto, TypeOK
  <2>2. Cardinality(readers)' = Cardinality(readers) - 1
    BY <1>4, <2>1, FS_RemoveElement
  <2>3. LockWork' = LockWork - 1 /\ LockWork \in Nat
    BY <1>3, <1>4, <2>1, <2>2
  <2>. QED BY <1>2, <1>4, <2>1, <2>3 DEF Work
<1>. QED BY <1>5, <1>6

(* The flusher empties the queue event by event and the batch in three     *)
(* steps.                                                                  *)
LEMMA FlusherLowers ==
  ASSUME TypeOK, Holders, flushLoop
  PROVE  Work' < Work
<1>1. UNCHANGED <<readers, pc, closer>>
  BY DEF flushLoop, Receive, ReceiveClosed, Tick, Insert, InsertFails, TouchTokens,
         chanVars, logVars
<1>2. LockWork' = LockWork /\ CloseWork' = CloseWork
  BY <1>1 DEF LockWork, CloseWork, Senders
<1>3. LockWork \in Nat /\ Len(queue) \in Nat /\ FlushWork \in Nat /\ CloseWork \in Nat
  BY WorkType
<1>4. CASE Receive
  <2>1. flusher = "select" /\ flusher' \in {"select", "insert"}
    BY <1>4 DEF Receive
  <2>2. Len(queue') = Len(queue) - 1
    BY <1>4, Shrinks DEF Receive, TypeOK
  <2>3. FlushWork >= 1 /\ FlushWork' \in 1..4
    BY <2>1 DEF FlushWork
  <2>. QED BY <1>2, <1>3, <2>2, <2>3 DEF Work
<1>5. CASE ~Receive
  <2>1. queue' = queue
    BY <1>5 DEF flushLoop, ReceiveClosed, Tick, Insert, InsertFails, TouchTokens, chanVars
  <2>2. CASE ReceiveClosed
    BY <1>2, <1>3, <2>1, <2>2 DEF ReceiveClosed, FlushWork, Work
  <2>3. CASE Tick
    BY <1>2, <1>3, <2>1, <2>3 DEF Tick, FlushWork, Work
  <2>4. CASE Insert
    BY <1>2, <1>3, <2>1, <2>4 DEF Insert, FlushWork, Work
  <2>5. CASE InsertFails \/ \E ok \in SUBSET Users : TouchTokens(ok)
    <3>1. /\ flusher \in {"insert", "touch"} /\ flusher' \in {"select", "exited"}
          /\ batch' = <<>>
      BY <2>5 DEF InsertFails, TouchTokens, FlushDone
    <3>2. FlushWork >= 2 /\ FlushWork' \in 0..1
      BY <3>1 DEF FlushWork
    <3>. QED BY <1>2, <1>3, <2>1, <3>2 DEF Work
  <2>. QED BY <1>5, <2>2, <2>3, <2>4, <2>5 DEF flushLoop
<1>. QED BY <1>4, <1>5

(* CloseUsage itself goes on.                                              *)
LEMMA CloserLowers ==
  ASSUME TypeOK, Holders, StopAccepting \/ CloseChannel \/ CloseReturns
  PROVE  Work' < Work
<1>1. UNCHANGED <<queue, readers, pc, flusher, batch>>
  BY DEF StopAccepting, CloseChannel, CloseReturns, chanVars, logVars, flushVars
<1>2. FlushWork' = FlushWork
  BY <1>1 DEF FlushWork
<1>3. LockWork \in Nat /\ LockWork' = 0
  <2>1. closer' # "locking"
    BY DEF StopAccepting, CloseChannel, CloseReturns
  <2>. QED BY <2>1, WorkType DEF LockWork
<1>4. CloseWork' = CloseWork - 1
  BY DEF StopAccepting, CloseChannel, CloseReturns, CloseWork
<1>5. Len(queue) \in Nat /\ FlushWork \in Nat /\ CloseWork \in Nat
  BY WorkType
<1>. QED BY <1>1, <1>2, <1>3, <1>4, <1>5 DEF Work

(* A step that lowers nothing leaves the work as it is.                    *)
LEMMA OthersKeepWork ==
  ASSUME TypeOK, LockInv, Holders, TypeOK', Holders', [Next]_vars, Closing, ~Reboot, ~Lowers
  PROVE  closer' # "serving" /\ Work' <= Work
<1>1. ASSUME NEW p \in Loggers, LogUsage(p)
      PROVE  closer' = closer /\ queue' = queue /\ flusher' = flusher /\ batch' = batch
             /\ LockWork' = LockWork
  <2>1. CASE TrySend(p)
    <3>1. p \in readers /\ accepting
      BY <2>1 DEF TrySend, LockInv
    <3>2. closer = "locking"
      BY <3>1 DEF LockInv, Closing
    <3>. QED BY <2>1, <3>1, <3>2 DEF Lowers
  <2>2. CASE RUnlock(p)
    <3>1. p \in readers
      BY <2>2 DEF RUnlock, Holders
    <3>2. closer # "locking"
      BY <2>2, <3>1 DEF Lowers
    <3>. QED BY <2>2, <3>2 DEF RUnlock, LockWork, flushVars
  <2>3. CASE RLock(p)
    BY <2>3 DEF RLock, LockWork, flushVars
  <2>4. ASSUME NEW u \in Users, NEW pat \in BOOLEAN, Stamp(p, u, pat)
        PROVE  closer' = closer /\ queue' = queue /\ flusher' = flusher /\ batch' = batch
               /\ LockWork' = LockWork
    <3>1. UNCHANGED <<closer, queue, flusher, batch, readers>>
      BY <2>4 DEF Stamp, chanVars, flushVars
    <3>2. Senders' = Senders
      BY <2>4 DEF Stamp, Senders, Goto, TypeOK
    <3>. QED BY <3>1, <3>2 DEF LockWork
  <2>. QED BY <1>1, <2>1, <2>2, <2>3, <2>4 DEF LogUsage
<1>2. ASSUME \/ \E u \in Users : DeleteUserData(u)
             \/ UNCHANGED vars
      PROVE  closer' = closer /\ queue' = queue /\ flusher' = flusher /\ batch' = batch
             /\ LockWork' = LockWork
  <2>1. UNCHANGED <<closer, queue, flusher, batch, readers, pc>>
    BY <1>2 DEF DeleteUserData, vars, chanVars, logVars, flushVars
  <2>. QED BY <2>1 DEF LockWork, Senders
<1>3. ~Shutdown
  BY DEF Shutdown, Closing
<1>4. closer' = closer /\ queue' = queue /\ flusher' = flusher /\ batch' = batch
      /\ LockWork' = LockWork
  BY <1>1, <1>2, <1>3 DEF Next, Lowers, CloseUsage
<1>5. Work' = Work
  BY <1>4 DEF Work, FlushWork, CloseWork
<1>. QED BY <1>4, <1>5, WorkType DEF Closing

LEMMA WorkStep ==
  ASSUME TypeOK, LockInv, Holders, TypeOK', Holders', [Next]_vars, Closing, ~Reboot,
         Work' \in Nat
  PROVE  closer' # "serving" /\ Work' <= Work /\ (Lowers => Work' < Work)
<1>1. CASE ~Lowers
  BY <1>1, OthersKeepWork
<1>2. CASE Lowers
  <2>1. ASSUME closer = "locking", NEW p \in readers, TrySend(p) \/ RUnlock(p)
        PROVE  closer' # "serving" /\ Work' < Work
    <3>1. p \in Loggers /\ closer' = closer
      BY <2>1 DEF TypeOK, TrySend, RUnlock
    <3>. QED BY <2>1, <3>1, HolderLowers
  <2>2. ASSUME flushLoop PROVE closer' # "serving" /\ Work' < Work
    <3>1. closer' = closer
      BY <2>2 DEF flushLoop, Receive, ReceiveClosed, Tick, Insert, InsertFails, TouchTokens
    <3>. QED BY <2>2, <3>1, FlusherLowers DEF Closing
  <2>3. ASSUME StopAccepting \/ CloseChannel \/ CloseReturns
        PROVE  closer' # "serving" /\ Work' < Work
    <3>1. closer' # "serving"
      BY <2>3 DEF StopAccepting, CloseChannel, CloseReturns
    <3>. QED BY <2>3, <3>1, CloserLowers
  <2>4. closer' # "serving" /\ Work' < Work
    BY <1>2, <2>1, <2>2, <2>3 DEF Lowers
  <2>. QED BY <2>4, WorkType
<1>. QED BY <1>1, <1>2

(* CloseUsage gets its lock and ends, however many events are queued and   *)
(* whichever writes fail: it is never stuck, nothing that goes on          *)
(* meanwhile adds to what it waits for, and each of a number of steps      *)
(* takes something from it (usage.go:39-66).  With fairness, which is left *)
(* to TLC, that is CloseUsageReturns.                                      *)
THEOREM ShutdownIsFinite == Spec => ShutdownEnds
<1>. DEFINE I == TypeOK /\ LockInv /\ Holders /\ Work \in Nat
<1>1. Spec => []I
  <2>1. Init => Holders
    BY FS_EmptySet DEF Init, Holders
  <2>2. TypeOK /\ Holders => Work \in Nat
    BY WorkType
  <2>. QED BY <2>1, <2>2, HoldersStep, TypeCorrect, LockInvariant, PTL DEF Spec
<1>2. I => (Closing => Work \in Nat /\ NotStuck)
  BY WorkType DEF NotStuck, Holders, LockInv, TypeOK
<1>3. I /\ I' /\ [Next]_vars =>
        [Closing /\ ~Reboot =>
           /\ closer' # "serving" /\ Work' <= Work
           /\ Lowers => Work' < Work]_vars
  BY WorkStep
<1>. QED BY <1>1, <1>2, <1>3, PTL DEF Spec, ShutdownEnds

-----------------------------------------------------------------------------
(* e is the i-th event of the channel, or, when i is 0, in the batch.      *)
At(i, e) == IF i = 0 THEN e \in ToSet(batch) ELSE i \in DOMAIN queue /\ queue[i] = e

Delay(i) == 4 * i + FlushWork

(* Only what is received after e, while e waits in a batch that is not     *)
(* full yet, takes the flusher's time without bringing e nearer to its end.*)
Nearer(i, e) ==
  \/ i = 0 /\ batch' = <<>>
  \/ \E j \in {i, i - 1} \cap Nat :
       /\ At(j, e)' /\ Delay(j)' <= Delay(i)
       /\ flushLoop /\ ~(i = 0 /\ Receive) => Delay(j)' < Delay(i)

EventsLeaveInTurn ==
  /\ [](\A t \in 1..MaxEvents : Pending(t) => flusher # "exited")
  /\ [][~Reboot => \A i \in Nat, e \in Event : At(i, e) => Nearer(i, e)]_vars

(* Delays are compared by place and by what the flusher has at hand.       *)
LEMMA Compare ==
  ASSUME NEW i \in Nat, NEW j \in Nat, NEW f \in 0..4, NEW g \in 0..4
  PROVE  /\ j = i /\ g <= f => 4 * j + g <= 4 * i + f
         /\ j = i /\ g < f => 4 * j + g < 4 * i + f /\ 4 * j + g <= 4 * i + f
         /\ j = i - 1 /\ g < f + 4 => 4 * j + g < 4 * i + f /\ 4 * j + g <= 4 * i + f
OBVIOUS

LEMMA FlusherBringsNearer ==
  ASSUME TypeOK, flushLoop, NEW i \in Nat, NEW e \in Event, At(i, e)
  PROVE  Nearer(i, e)
<1>0. FlushWork' \in 0..4
  BY DEF FlushWork, flushLoop, Receive, ReceiveClosed, Tick, Insert, InsertFails, TouchTokens,
         FlushDone
<1>1. FlushWork \in 0..4
  BY DEF FlushWork, TypeOK
<1>2. CASE Receive
  <2>1. /\ queue # <<>> /\ flusher = "select" /\ flusher' \in {"select", "insert"}
        /\ batch' = Append(batch, Head(queue)) /\ queue' = Tail(queue)
    BY <1>2 DEF Receive
  <2>2. /\ Head(queue) = queue[1] /\ Head(queue) \in Event
        /\ DOMAIN queue = 1..Len(queue) /\ Len(queue) \in Nat
        /\ DOMAIN queue' = 1..(Len(queue) - 1)
        /\ \A j \in 1..(Len(queue) - 1) : queue'[j] = queue[j + 1]
    BY <2>1 DEF TypeOK
  <2>3. ToSet(batch') = ToSet(batch) \cup {queue[1]}
    BY <2>1, <2>2, PutLast DEF TypeOK
  <2>4. FlushWork' \in 3..4 /\ FlushWork >= 1
    BY <2>1 DEF FlushWork
  <2>5. CASE i = 0
    <3>1. e \in ToSet(batch) /\ At(0, e)'
      BY <2>3, <2>5 DEF At
    <3>2. FlushWork = 4
      BY <2>1, <3>1, Nothing DEF FlushWork
    <3>3. Delay(0)' <= Delay(0)
      <4>1. FlushWork' <= FlushWork /\ 0 \in Nat
        BY <2>4, <3>2
      <4>2. 4 * 0 + FlushWork' <= 4 * 0 + FlushWork
        BY <1>0, <1>1, <4>1, Compare
      <4>. QED BY <4>2 DEF Delay
    <3>. QED BY <1>2, <2>5, <3>1, <3>3 DEF Nearer
  <2>6. CASE i # 0
    <3>1. i \in 1..Len(queue) /\ queue[i] = e /\ i - 1 \in Nat
      BY <2>2, <2>6 DEF At
    <3>2. At(i - 1, e)'
      <4>1. CASE i = 1
        BY <2>3, <3>1, <4>1 DEF At
      <4>2. CASE i # 1
        <5>1. i - 1 \in 1..(Len(queue) - 1) /\ queue'[i - 1] = e
          BY <2>2, <3>1, <4>2
        <5>. QED BY <2>2, <5>1, <3>1 DEF At
      <4>. QED BY <4>1, <4>2
    <3>3. FlushWork' < FlushWork + 4
      BY <1>0, <1>1, <2>4
    <3>4. Delay(i - 1)' < Delay(i) /\ Delay(i - 1)' <= Delay(i)
      BY <1>0, <1>1, <3>1, <3>3, Compare DEF Delay
    <3>. QED BY <3>1, <3>2, <3>4 DEF Nearer
  <2>. QED BY <2>5, <2>6
<1>3. CASE ReceiveClosed \/ Tick \/ Insert
  <2>1. queue' = queue /\ batch' = batch
    BY <1>3 DEF ReceiveClosed, Tick, Insert, chanVars
  <2>2. At(i, e)'
    BY <2>1 DEF At
  <2>3. FlushWork' \in 0..4 /\ FlushWork' < FlushWork
    BY <1>3 DEF ReceiveClosed, Tick, Insert, FlushWork
  <2>4. Delay(i)' < Delay(i) /\ Delay(i)' <= Delay(i)
    BY <1>0, <1>1, <2>3, Compare DEF Delay
  <2>. QED BY <2>2, <2>4 DEF Nearer
<1>4. CASE InsertFails \/ \E ok \in SUBSET Users : TouchTokens(ok)
  <2>1. /\ flusher \in {"insert", "touch"} /\ flusher' \in {"select", "exited"}
        /\ batch' = <<>> /\ queue' = queue
    BY <1>4 DEF InsertFails, TouchTokens, FlushDone, chanVars
  <2>2. FlushWork >= 2 /\ FlushWork' \in 0..1
    BY <2>1 DEF FlushWork
  <2>3. CASE i = 0
    BY <2>1, <2>3 DEF Nearer
  <2>4. CASE i # 0
    <3>1. At(i, e)'
      BY <2>1, <2>4 DEF At
    <3>2. FlushWork' < FlushWork
      BY <1>0, <1>1, <2>2
    <3>3. Delay(i)' < Delay(i) /\ Delay(i)' <= Delay(i)
      BY <1>0, <1>1, <3>2, Compare DEF Delay
    <3>. QED BY <3>1, <3>3 DEF Nearer
  <2>. QED BY <2>3, <2>4
<1>. QED BY <1>2, <1>3, <1>4 DEF flushLoop

LEMMA OthersKeepTurns ==
  ASSUME TypeOK, [Next]_vars, ~flushLoop, ~Reboot, NEW i \in Nat, NEW e \in Event, At(i, e)
  PROVE  Nearer(i, e)
<1>1. batch' = batch /\ flusher' = flusher
  BY DEF Next, LogUsage, Stamp, RLock, TrySend, RUnlock, CloseUsage, Shutdown, StopAccepting,
         CloseChannel, CloseReturns, DeleteUserData, vars, flushVars
<1>2. queue' = queue \/ \E x \in Event : queue' = Append(queue, x)
  BY DEF Next, LogUsage, Stamp, RLock, TrySend, RUnlock, CloseUsage, Shutdown, StopAccepting,
         CloseChannel, CloseReturns, DeleteUserData, vars, chanVars, TypeOK
<1>3. \A j \in DOMAIN queue : j \in DOMAIN queue' /\ queue'[j] = queue[j]
  <2>1. ASSUME NEW q \in Seq(Event), NEW x \in Event, NEW j \in DOMAIN q
        PROVE  j \in DOMAIN Append(q, x) /\ Append(q, x)[j] = q[j]
    OBVIOUS
  <2>. QED BY <1>2, <2>1 DEF TypeOK
<1>4. At(i, e)'
  BY <1>1, <1>3 DEF At
<1>5. FlushWork \in 0..4 /\ FlushWork' = FlushWork
  BY <1>1 DEF FlushWork, TypeOK
<1>6. Delay(i)' <= Delay(i)
  BY <1>5 DEF Delay
<1>. QED BY <1>4, <1>6 DEF Nearer

(* The flusher never ends with an event in the channel or in its batch,    *)
(* and each of its steps brings an event nearer to being written or given  *)
(* up, except those that fill the event's batch, which the size of a batch *)
(* bounds; nothing overtakes it (usage.go:39-119).  With the ticker and    *)
(* the fairness left to TLC that is EventsLeave.                           *)
THEOREM EventsLeaveInOrder == Spec => EventsLeaveInTurn
<1>1. Drained => (\A t \in 1..MaxEvents : Pending(t) => flusher # "exited")
  BY Nothing DEF Drained, Pending
<1>2. TypeOK /\ [Next]_vars =>
        [~Reboot => \A i \in Nat, e \in Event : At(i, e) => Nearer(i, e)]_vars
  BY FlusherBringsNearer, OthersKeepTurns
<1>3. Init => Drained
  BY DEF Init, Drained
<1>. QED
  BY <1>1, <1>2, <1>3, DrainedStep, LockInvariant, TypeCorrect, PTL DEF Spec, EventsLeaveInTurn
=============================================================================
