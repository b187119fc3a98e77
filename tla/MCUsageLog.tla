----------------------------- MODULE MCUsageLog -----------------------------
(* UsageLog for TLC; liveness is checked, so nothing is symmetric.         *)
EXTENDS UsageLog
=============================================================================
