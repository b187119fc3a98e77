------------------------------ MODULE MCVerify ------------------------------
(* Bounded instances of Verify for TLC.  A browser, which may have lost    *)
(* its cookie, runs beside one handler and in each behaviour beside one    *)
(* more thing: a token's requests, which share the cache of users; a       *)
(* second handler, so that the PUT of one overtakes a change of the other; *)
(* or outages of the database.  Without the token the browser also         *)
(* authorizes a desktop client.                                            *)
EXTENDS Verify, TLC

CONSTANTS r1, r2, w1, w2

VARIABLE beside

BrowserAndToken == r1 :> {"cookie", "none", "desktop"} @@ r2 :> {"pat"}

MCInit == Init /\ beside \in {"token", "handler", "outages"}

MCNext ==
  /\ Next
  /\ IF beside = "token" THEN cred'[r1] # "desktop" ELSE at'[r2] = "idle"
  /\ beside = "handler" \/ mpc'[w2] = "idle"
  /\ beside = "outages" \/ up'
  /\ beside' = beside

MCSpec == MCInit /\ [][MCNext]_<<vars, beside>>
=============================================================================
