----------------------------- MODULE MCSessions -----------------------------
(* Bounded instances of Sessions for TLC. *)
EXTENDS Sessions, TLC

Symmetry == Permutations(Browsers) \cup Permutations(Editors)
=============================================================================
