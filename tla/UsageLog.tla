------------------------------ MODULE UsageLog ------------------------------
(***************************************************************************)
(* Buffered request logging (internal/store/usage.go): requests that pass  *)
(* /session/verify put an event into a bounded channel without blocking,   *)
(* one goroutine writes the events in batches, and main closes the log at  *)
(* shutdown, when requests that outlived srv.Shutdown may still be logging.*)
(* DeleteUserData deletes the rows of a user at any time.                  *)
(*                                                                         *)
(* A read or write lock is a step of its own only where something can come *)
(* between it and what it guards.  An event is the time it was stamped,    *)
(* its user, and whether it came with the user's access token.             *)
(***************************************************************************)
EXTENDS Naturals, Sequences, SequencesExt

CONSTANTS
  Loggers,      \* concurrent requests
  Users,        \* each with one personal access token
  UsageBuffer,  \* usageBuffer
  UsageBatch,   \* usageBatch
  MaxEvents     \* bound: how many events are stamped

ASSUME UsageAssumption ==
  /\ UsageBuffer \in Nat \ {0}
  /\ UsageBatch \in Nat \ {0}
  /\ MaxEvents \in Nat

VARIABLES
  accepting,  \* usage.ch is not nil
  closed,     \* the channel is closed
  queue,      \* what it holds
  readers,    \* the requests that hold usage.mu for reading
  dropped,    \* usage.dropped
  pc,         \* where each request is in LogUsage
  event,      \* the event it logs
  batch,      \* the flusher's batch
  flusher,    \* "select", "insert" or "touch" in writeUsage, or "exited"
  final,      \* the flush under way is the last
  closer,     \* where main is in CloseUsage
  panicked,   \* a send found the channel closed
  rows,       \* request_logs
  present,    \* the users that exist
  lastUsed,   \* last_used_at of each user's token, 0 for null
  clock,      \* the last time stamped
  sent,       \* history: events that reached the select since boot
  written     \* history: events inserted since boot

chanVars == <<accepting, closed, queue, readers>>
logVars == <<pc, event, clock>>
flushVars == <<batch, flusher, final>>
dbVars == <<rows, present, lastUsed>>
vars == <<chanVars, dropped, logVars, flushVars, closer, panicked, dbVars, sent, written>>

Event == [ts : 0..MaxEvents, user : Users, pat : BOOLEAN]

TypeOK ==
  /\ accepting \in BOOLEAN /\ closed \in BOOLEAN
  /\ queue \in Seq(Event) /\ Len(queue) <= UsageBuffer
  /\ readers \in SUBSET Loggers
  /\ dropped \in Nat
  /\ pc \in [Loggers -> {"idle", "stamped", "send", "unlock"}]
  /\ event \in [Loggers -> Event]
  /\ batch \in Seq(Event) /\ Len(batch) <= UsageBatch
  /\ flusher \in {"select", "insert", "touch", "exited"}
  /\ final \in BOOLEAN
  /\ closer \in {"serving", "locking", "closing", "waiting", "returned"}
  /\ panicked \in BOOLEAN
  /\ rows \in SUBSET Event
  /\ present \in SUBSET Users
  /\ lastUsed \in [Users -> 0..MaxEvents]
  /\ clock \in 0..MaxEvents
  /\ sent \in Nat /\ written \in Nat

Init ==
  /\ accepting = TRUE /\ closed = FALSE
  /\ queue = <<>> /\ readers = {} /\ dropped = 0
  /\ pc = [p \in Loggers |-> "idle"]
  /\ event \in [Loggers -> {[ts |-> 0, user |-> u, pat |-> FALSE] : u \in Users}]
  /\ batch = <<>> /\ flusher = "select" /\ final = FALSE
  /\ closer = "serving" /\ panicked = FALSE
  /\ rows = {} /\ present = Users
  /\ lastUsed = [u \in Users |-> 0]
  /\ clock = 0 /\ sent = 0 /\ written = 0

Goto(p, step) == pc' = [pc EXCEPT ![p] = step]

-----------------------------------------------------------------------------
(* logRequest stamps the event of a request that passed, be it on the      *)
(* cached row of a user just deleted ...                                   *)
Stamp(p, u, pat) ==
  /\ pc[p] = "idle" /\ clock < MaxEvents
  /\ clock' = clock + 1
  /\ event' = [event EXCEPT ![p] = [ts |-> clock + 1, user |-> u, pat |-> pat]]
  /\ Goto(p, "stamped")
  /\ UNCHANGED <<chanVars, dropped, flushVars, closer, panicked, dbVars, sent, written>>

(* ... and LogUsage takes the read lock, which a waiting writer holds up,  *)
(* and returns at once after CloseUsage.                                   *)
RLock(p) ==
  /\ pc[p] = "stamped" /\ closer # "locking"
  /\ readers' = readers \cup {p}
  /\ Goto(p, IF accepting THEN "send" ELSE "unlock")
  /\ UNCHANGED <<accepting, closed, queue, dropped, event, clock, flushVars, closer,
                 panicked, dbVars, sent, written>>

(* Mutant: the counter is not increased.                                   *)
TrySendUncounted(p) ==
  /\ pc[p] = "send"
  /\ panicked' = (panicked \/ closed)
  /\ queue' = IF Len(queue) < UsageBuffer THEN Append(queue, event[p]) ELSE queue
  /\ sent' = sent + 1
  /\ Goto(p, "unlock")
  /\ UNCHANGED <<accepting, closed, readers, dropped, event, clock, flushVars, closer, dbVars,
                 written>>

(* The select sends, or counts the event when the buffer is full.  A send  *)
(* on a closed channel would panic.                                        *)
TrySend(p) ==
  /\ pc[p] = "send"
  /\ panicked' = (panicked \/ closed)
  /\ IF Len(queue) < UsageBuffer
     THEN queue' = Append(queue, event[p]) /\ UNCHANGED dropped
     ELSE dropped' = dropped + 1 /\ UNCHANGED queue
  /\ sent' = sent + 1
  /\ Goto(p, "unlock")
  /\ UNCHANGED <<accepting, closed, readers, event, clock, flushVars, closer, dbVars, written>>

RUnlock(p) ==
  /\ pc[p] = "unlock"
  /\ readers' = readers \ {p}
  /\ Goto(p, "idle")
  /\ UNCHANGED <<accepting, closed, queue, dropped, event, clock, flushVars, closer,
                 panicked, dbVars, sent, written>>

-----------------------------------------------------------------------------
(* Mutant: a batch is written only when it has exceeded its size.          *)
ReceiveOverfull ==
  /\ flusher = "select" /\ queue # <<>>
  /\ batch' = Append(batch, Head(queue))
  /\ queue' = Tail(queue)
  /\ flusher' = IF Len(batch) + 1 > UsageBatch THEN "insert" ELSE "select"
  /\ UNCHANGED <<accepting, closed, readers, dropped, logVars, final, closer, panicked, dbVars,
                 sent, written>>

(* flushLoop receives an event and begins to flush when the batch is full. *)
Receive ==
  /\ flusher = "select" /\ queue # <<>>
  /\ batch' = Append(batch, Head(queue))
  /\ queue' = Tail(queue)
  /\ flusher' = IF Len(batch) + 1 >= UsageBatch THEN "insert" ELSE "select"
  /\ UNCHANGED <<accepting, closed, readers, dropped, logVars, final, closer, panicked, dbVars,
                 sent, written>>

(* Mutant: the loop returns without the last flush.                        *)
ReceiveClosedAndReturn ==
  /\ flusher = "select" /\ closed /\ queue = <<>>
  /\ final' = TRUE
  /\ flusher' = "exited"
  /\ UNCHANGED <<chanVars, dropped, logVars, batch, closer, panicked, dbVars, sent, written>>

(* Mutant: the loop goes on after the last flush.                          *)
ReceiveClosedAndGoOn ==
  /\ flusher = "select" /\ closed /\ queue = <<>>
  /\ flusher' = IF batch = <<>> THEN "select" ELSE "insert"
  /\ UNCHANGED <<chanVars, dropped, logVars, batch, final, closer, panicked, dbVars, sent,
                 written>>

(* The channel is closed and drained: the last flush, if there is anything *)
(* to flush, and the end of the loop.                                      *)
ReceiveClosed ==
  /\ flusher = "select" /\ closed /\ queue = <<>>
  /\ final' = TRUE
  /\ flusher' = IF batch = <<>> THEN "exited" ELSE "insert"
  /\ UNCHANGED <<chanVars, dropped, logVars, batch, closer, panicked, dbVars, sent, written>>

(* Mutant: a tick flushes only once the buffer is empty and closed.        *)
TickAtClose ==
  /\ flusher = "select" /\ batch # <<>> /\ closed
  /\ flusher' = "insert"
  /\ UNCHANGED <<chanVars, dropped, logVars, batch, final, closer, panicked, dbVars, sent, written>>

(* The ticker fires; with an empty batch nothing happens.                  *)
Tick ==
  /\ flusher = "select" /\ batch # <<>>
  /\ flusher' = "insert"
  /\ UNCHANGED <<chanVars, dropped, logVars, batch, final, closer, panicked, dbVars, sent, written>>

(* writeUsage: the batch is inserted in one statement ...                  *)
Insert ==
  /\ flusher = "insert"
  /\ rows' = rows \cup ToSet(batch)
  /\ written' = written + Len(batch)
  /\ flusher' = "touch"
  /\ UNCHANGED <<chanVars, dropped, logVars, batch, final, closer, panicked, present, lastUsed,
                 sent>>

FlushDone ==
  /\ batch' = <<>>
  /\ flusher' = IF final THEN "exited" ELSE "select"

(* Mutant: the tokens are updated although the rows were refused.          *)
InsertFailsTouches ==
  /\ flusher = "insert"
  /\ flusher' = "touch"
  /\ written' = written + Len(batch)
  /\ UNCHANGED <<chanVars, dropped, logVars, batch, final, closer, panicked, dbVars, sent>>

(* ... or the insert fails, and the batch is counted and given up.         *)
InsertFails ==
  /\ flusher = "insert"
  /\ dropped' = dropped + Len(batch)
  /\ FlushDone
  /\ UNCHANGED <<chanVars, logVars, final, closer, panicked, dbVars, sent, written>>

(* The newest use of u's token in the batch, {} if there is none.          *)
Newest(u) ==
  LET uses == {e \in ToSet(batch) : e.pat /\ e.user = u}
  IN  {e \in uses : \A x \in uses : x.ts <= e.ts}

(* Then last_used_at is updated, token by token; an update that fails is   *)
(* skipped, and the token of a deleted user matches no row.                *)
TouchTokens(ok) ==
  /\ flusher = "touch"
  /\ lastUsed' = [u \in Users |-> IF u \in ok \cap present /\ Newest(u) # {}
                                  THEN (CHOOSE e \in Newest(u) : TRUE).ts
                                  ELSE lastUsed[u]]
  /\ FlushDone
  /\ UNCHANGED <<chanVars, dropped, logVars, final, closer, panicked, rows, present, sent, written>>

-----------------------------------------------------------------------------
(* main, after srv.Shutdown returned or gave up: CloseUsage asks for the   *)
(* write lock,                                                             *)
Shutdown ==
  /\ closer = "serving"
  /\ closer' = "locking"
  /\ UNCHANGED <<chanVars, dropped, logVars, flushVars, panicked, dbVars, sent, written>>

(* Mutant: the lock is not taken.                                          *)
StopWithoutLock ==
  /\ closer = "locking"
  /\ accepting' = FALSE
  /\ closer' = "closing"
  /\ UNCHANGED <<closed, queue, readers, dropped, logVars, flushVars, panicked, dbVars, sent,
                 written>>

(* gets it when no reader is left, stops accepting and releases it,        *)
StopAccepting ==
  /\ closer = "locking" /\ readers = {}
  /\ accepting' = FALSE
  /\ closer' = "closing"
  /\ UNCHANGED <<closed, queue, readers, dropped, logVars, flushVars, panicked, dbVars, sent,
                 written>>

(* closes the channel                                                      *)
CloseChannel ==
  /\ closer = "closing"
  /\ closed' = TRUE
  /\ closer' = "waiting"
  /\ UNCHANGED <<accepting, queue, readers, dropped, logVars, flushVars, panicked, dbVars, sent,
                 written>>

(* and waits for the flusher to finish.                                    *)
CloseReturns ==
  /\ closer = "waiting" /\ flusher = "exited"
  /\ closer' = "returned"
  /\ UNCHANGED <<chanVars, dropped, logVars, flushVars, panicked, dbVars, sent, written>>

(* The process is killed, or ended after CloseUsage, and starts again with *)
(* StartUsage: what was in memory is lost.                                 *)
Reboot ==
  /\ accepting' = TRUE /\ closed' = FALSE
  /\ queue' = <<>> /\ readers' = {} /\ dropped' = 0
  /\ pc' = [p \in Loggers |-> "idle"]
  /\ batch' = <<>> /\ flusher' = "select" /\ final' = FALSE
  /\ closer' = "serving" /\ panicked' = FALSE
  /\ sent' = 0 /\ written' = 0
  /\ UNCHANGED <<event, clock, dbVars>>

(* A user is deleted with their rows in request_logs and their token.      *)
DeleteUserData(u) ==
  /\ u \in present
  /\ present' = present \ {u}
  /\ rows' = {e \in rows : e.user # u}
  /\ lastUsed' = [lastUsed EXCEPT ![u] = 0]
  /\ UNCHANGED <<chanVars, dropped, logVars, flushVars, closer, panicked, sent, written>>

-----------------------------------------------------------------------------
LogUsage(p) ==
  \/ \E u \in Users, pat \in BOOLEAN : Stamp(p, u, pat)
  \/ RLock(p) \/ TrySend(p) \/ RUnlock(p)

flushLoop ==
  \/ Receive \/ ReceiveClosed \/ Tick
  \/ Insert \/ InsertFails \/ \E ok \in SUBSET Users : TouchTokens(ok)

CloseUsage == Shutdown \/ StopAccepting \/ CloseChannel \/ CloseReturns

Next ==
  \/ \E p \in Loggers : LogUsage(p)
  \/ flushLoop
  \/ CloseUsage
  \/ Reboot
  \/ \E u \in Users : DeleteUserData(u)

Spec == Init /\ [][Next]_vars

(* Goroutines run: a request leaves LogUsage, the ticker fires and the     *)
(* flusher goes on, and so does CloseUsage once called.  Nothing obliges a *)
(* request to log, main to shut down, or a write to succeed.               *)
Fairness ==
  /\ \A p \in Loggers : WF_vars(RLock(p) \/ TrySend(p) \/ RUnlock(p))
  /\ WF_vars(Receive \/ ReceiveClosed)
  /\ WF_vars(Tick)
  /\ WF_vars(Insert \/ InsertFails \/ \E ok \in SUBSET Users : TouchTokens(ok))
  /\ WF_vars(StopAccepting \/ CloseChannel \/ CloseReturns)

FairSpec == Spec /\ Fairness

-----------------------------------------------------------------------------
(* No request ever sends on the closed channel, although requests may      *)
(* still be logging when CloseUsage runs (usage.go:39-50, 56-65).          *)
NeverPanics == ~panicked

(* What the flusher holds and has not written yet.                         *)
Unwritten == IF flusher = "touch" THEN 0 ELSE Len(batch)

(* Every event that reached the select since boot is in the buffer, in the *)
(* batch, in the table or in the dropped-events counter, and in only one   *)
(* of them (README.md:124-126, usage.go:44-49, 98-105).                    *)
Accounted == sent = Len(queue) + Unwritten + written + dropped

(* When CloseUsage has returned nothing queued is left behind, not even by *)
(* requests that raced it (usage.go:55-66).                                *)
ClosedMeansFlushed == closer = "returned" => queue = <<>> /\ batch = <<>>

(* A token's last use is a request that the log shows: a batch that could  *)
(* not be written leaves no trace on the tokens (usage.go:96-118).         *)
LastUsedIsLogged ==
  \A u \in present : lastUsed[u] # 0 =>
    \E e \in rows : e.user = u /\ e.pat /\ e.ts = lastUsed[u]

(* CloseUsage returns, whatever fails meanwhile, unless the process dies.  *)
CloseUsageReturns == closer = "locking" ~> closer \in {"returned", "serving"}

Pending(t) == \E e \in ToSet(queue) \cup ToSet(batch) : e.ts = t

(* An event does not stay in memory for ever, however few follow it.       *)
EventsLeave == \A t \in 1..MaxEvents : Pending(t) ~> ~Pending(t)

(* Where an event is, named by its time: on its way to the select, in the  *)
(* channel or in a batch not yet written, in the table, or lost.           *)
InHand(t) == \E p \in Loggers : pc[p] \in {"stamped", "send"} /\ event[p].ts = t

InMemory(t) ==
  \E e \in ToSet(queue) \cup (IF flusher = "touch" THEN {} ELSE ToSet(batch)) : e.ts = t

FateOf(t) ==
  IF \E e \in rows : e.ts = t THEN "logged"
  ELSE IF InMemory(t) THEN "pending"
  ELSE IF t > clock \/ InHand(t) THEN "new" ELSE "gone"

StateOf ==
  IF accepting THEN "open" ELSE IF closer = "returned" THEN "closed" ELSE "closing"

L == INSTANCE LossyLog WITH
       Events <- 1..MaxEvents, fate <- [t \in 1..MaxEvents |-> FateOf(t)], log <- StateOf

(* Channel, lock, batches and shutdown implement a log that takes each     *)
(* event at most once, counts those it loses, ignores what comes after it  *)
(* was closed, and is closed only when nothing is pending: a lost event    *)
(* that is not counted died with the process (usage.go:39-118).            *)
ImplementsLog == L!Spec

(* What the README says of deletion: it deletes the user's request logs.   *)
DeletedLogsAreGone == \A e \in rows : e.user \in present
=============================================================================
