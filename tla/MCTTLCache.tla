----------------------------- MODULE MCTTLCache -----------------------------
(* TTLCache for TLC; liveness is checked, so nothing is symmetric.         *)
EXTENDS TTLCache
=============================================================================
