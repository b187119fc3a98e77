----------------------------- MODULE AuthRequest -----------------------------
(***************************************************************************)
(* What authorize accepts from a client, and what token later accepts for  *)
(* the code it issued: the helpers of internal/handler/oauth.go.           *)
(*                                                                         *)
(* A URI is the record of the parts that are compared; bare says that it   *)
(* has no user, query or fragment.  Hosts are in lower case: EqualFold's   *)
(* other spellings are left out.  A form is the redirect URI and the       *)
(* PKCE value a request carries (a challenge to authorize, a verifier to   *)
(* token, <<>> for none); fits says that the method is S256 and, from a    *)
(* public client, that the state has 32 to 200 characters.                 *)
(***************************************************************************)
CONSTANTS
  Verifiers,  \* the PKCE verifiers that clients make
  Public      \* the clients without a secret

(* The challenge of a verifier; different verifiers have different ones.   *)
S256(v) == <<"S256", v>>
Orphan == <<"orphan">>    \* a well-formed challenge of no such verifier
Challenges == {S256(v) : v \in Verifiers} \cup {Orphan}

verifyPKCE(challenge, verifier) ==
  \E v \in Verifiers : verifier = <<v>> /\ challenge = S256(v)

isLoopbackURI(u) ==
  \/ u.scheme = "https"
  \/ u.scheme = "http" /\ u.host \in {"127.0.0.1", "localhost", "::1"}

(* An https URI is compared as a whole, any other without its port.        *)
loopbackURIMatches(registered, request) ==
  IF registered.scheme = "https"
  THEN registered = request
  ELSE /\ registered.scheme = request.scheme
       /\ registered.host = request.host
       /\ registered.path = request.path

(* Mutant of the next: the method of the challenge is not read.            *)
validAnyMethod(k, registered, form) ==
  k \in Public => loopbackURIMatches(registered, form.redirect)

(* The registered URI matters for public clients only.                     *)
validPublicAuthorization(k, registered, form) ==
  LET challenged == form.fits /\ form.pkce \in Challenges
      u == form.redirect
  IN  IF k \notin Public
      THEN form.pkce = <<>> \/ challenged
      ELSE /\ u.scheme = "http" /\ u.host = "127.0.0.1" /\ u.port # "" /\ u.bare
           /\ loopbackURIMatches(registered, u)
           /\ challenged

(* What client k must show to token for a code it asked for with asked.    *)
Proves(k, asked, shown) ==
  /\ k \in Public \/ asked.pkce # <<>> => verifyPKCE(asked.pkce, shown.pkce)
  /\ k \in Public => asked.redirect = shown.redirect
  /\ loopbackURIMatches(asked.redirect, shown.redirect)
=============================================================================
