----------------------------- MODULE MCAccounts -----------------------------
(***************************************************************************)
(* Bounded instances for TLC of the users table: who has an account, and,  *)
(* for one user, how sessions begin and end.  The two share no column, and *)
(* a behaviour is one of one of them.                                      *)
(***************************************************************************)
EXTENDS Accounts, Sessions, TLC

VARIABLE about

MCInit == about \in {"accounts", "sessions"} /\ Init /\ SessionsInit

MCNext ==
  /\ UNCHANGED about
  /\ \/ about = "accounts" /\ Next /\ UNCHANGED sessVars
     \/ about = "sessions" /\ SessionsNext /\ UNCHANGED vars

MCSpec == MCInit /\ [][MCNext]_<<about, vars, sessVars>>

Symmetry ==
  Permutations(Ids) \cup Permutations(Procs) \cup Permutations(Browsers) \cup Permutations(Editors)
=============================================================================
