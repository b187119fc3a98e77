------------------------------- MODULE Grants -------------------------------
(***************************************************************************)
(* What the OAuth endpoints promise of an authorization: it is given by a  *)
(* user, redeemed by a client at most once, held by that client through    *)
(* any number of refreshes, and over for good once it ends.                *)
(***************************************************************************)
CONSTANT Codes   \* the authorizations, named by their codes

VARIABLE grant   \* "none", "given", "held" or "over"

Init == grant = [c \in Codes |-> "none"]

Move(c, from, to) == grant[c] = from /\ grant' = [grant EXCEPT ![c] = to]

Give(c) == Move(c, "none", "given")

Redeem(c) == Move(c, "given", "held")

(* Revoked, refused, lost with a failing request, or ended with its user.  *)
End(cs) ==
  /\ \A c \in cs : grant[c] \in {"given", "held"}
  /\ grant' = [c \in Codes |-> IF c \in cs THEN "over" ELSE grant[c]]

Next ==
  \/ \E c \in Codes : Give(c) \/ Redeem(c)
  \/ \E cs \in SUBSET Codes : End(cs)

Spec == Init /\ [][Next]_grant
=============================================================================
