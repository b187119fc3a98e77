------------------------------ MODULE LossyLog ------------------------------
(***************************************************************************)
(* What the usage log promises of the event of a request: it is accepted,  *)
(* refused or ignored, an accepted one is logged or given up, each at most *)
(* once, and what is not logged is counted, unless the log was closed or   *)
(* the process died.  A closed log has nothing pending.                    *)
(***************************************************************************)
EXTENDS Naturals, FiniteSets

CONSTANT Events

VARIABLES
  fate,     \* of each event: "new", "pending", "logged" or "gone"
  dropped,  \* how many were refused or given up since boot
  log       \* "open", "closing" or "closed"

lossyVars == <<fate, dropped, log>>

Init ==
  /\ fate = [e \in Events |-> "new"]
  /\ dropped = 0
  /\ log = "open"

Move(es, from, to) ==
  /\ \A e \in es : fate[e] = from
  /\ fate' = [e \in Events |-> IF e \in es THEN to ELSE fate[e]]

Accept(e) == log = "open" /\ Move({e}, "new", "pending") /\ UNCHANGED <<dropped, log>>

(* There is no room.                                                       *)
Refuse(e) ==
  /\ log = "open"
  /\ Move({e}, "new", "gone")
  /\ dropped' = dropped + 1
  /\ UNCHANGED log

(* It came after the log was closed.                                       *)
Ignore(e) == log # "open" /\ Move({e}, "new", "gone") /\ UNCHANGED <<dropped, log>>

Log(es) == Move(es, "pending", "logged") /\ UNCHANGED <<dropped, log>>

GiveUp(es) ==
  /\ Move(es, "pending", "gone")
  /\ dropped' = dropped + Cardinality(es)
  /\ UNCHANGED log

(* Deleted with its user.                                                  *)
Erase(es) == Move(es, "logged", "gone") /\ UNCHANGED <<dropped, log>>

Close == log = "open" /\ log' = "closing" /\ UNCHANGED <<fate, dropped>>

Finish ==
  /\ log = "closing"
  /\ \A e \in Events : fate[e] # "pending"
  /\ log' = "closed"
  /\ UNCHANGED <<fate, dropped>>

(* What was pending is lost, and so may be what was about to be offered.   *)
Crash(es) ==
  /\ \A e \in Events : fate[e] = "pending" => e \in es
  /\ \A e \in es : fate[e] \in {"new", "pending"}
  /\ fate' = [e \in Events |-> IF e \in es THEN "gone" ELSE fate[e]]
  /\ dropped' = 0
  /\ log' = "open"

Next ==
  \/ \E e \in Events : Accept(e) \/ Refuse(e) \/ Ignore(e)
  \/ \E es \in SUBSET Events : Log(es) \/ GiveUp(es) \/ Erase(es) \/ Crash(es)
  \/ Close \/ Finish

Spec == Init /\ [][Next]_lossyVars
=============================================================================
