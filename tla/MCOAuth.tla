------------------------------- MODULE MCOAuth -------------------------------
(* Bounded instances of OAuth for TLC: one public and one confidential     *)
(* client of a loopback URI.                                               *)
EXTENDS OAuth, TLC

CONSTANTS k1, k2, v1

At(port) == [scheme |-> "http", host |-> "127.0.0.1", port |-> port, path |-> "/callback", bare |-> TRUE]
Form(port, pkce, fits) == [redirect |-> At(port), pkce |-> pkce, fits |-> fits]

Registration == k1 :> At("") @@ k2 :> At("")

(* To authorize: with a challenge, by another method, without one.  To     *)
(* token: with its verifier, from another port, without one.               *)
SomeForms ==
  {Form("1", S256(v1), TRUE), Form("1", S256(v1), FALSE), Form("1", <<v1>>, TRUE),
   Form("2", <<v1>>, TRUE), Form("1", <<>>, TRUE)}

Symmetry == Permutations(Procs) \cup Permutations(Tokens) \cup Permutations(Codes)
=============================================================================
