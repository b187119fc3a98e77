-------------------------------- MODULE OAuth --------------------------------
(***************************************************************************)
(* The OAuth endpoints of internal/handler/oauth.go over the rows of       *)
(* auth_codes, refresh_tokens and users (internal/store/store.go): issuing *)
(* an authorization code, exchanging it for a refresh token, rotating      *)
(* refresh tokens, revoking them, and the account and admin handlers that  *)
(* end a user's tokens or change the user.                                 *)
(*                                                                         *)
(* Every query is a step of its own, and queries of concurrent requests    *)
(* interleave.  What a request read stays in its variables and may be out  *)
(* of date at its next query.  Any query may fail, which ends the request  *)
(* (Fail); all the state that survives is in the database, so a crash of   *)
(* the process is every request failing.                                   *)
(*                                                                         *)
(* Requests that authenticate as no client, and refusals that touch no row,*)
(* leave everything as it was and are not steps.  Access tokens are signed *)
(* and kept nowhere; a response is the creation of its refresh token.      *)
(***************************************************************************)
EXTENDS Naturals, FiniteSets, AuthRequest

CONSTANTS
  Codes,     \* bound: the authorization codes that may be issued
  Tokens,    \* bound: the refresh tokens that may be issued
  Users,
  Clients,   \* registered OAuth clients
  Registered,  \* the redirect URI each registered
  Forms,     \* bound: the forms that requests carry
  Procs      \* concurrent requests

ASSUME OAuthAssumption == Codes \cap Tokens = {}

VARIABLES
  user,      \* users: "approved", "pending" or "gone"
  codeSt,    \* auth_codes: "none", "live", "used", or "gone" with its user
  codeExp,   \* expires_at against now: "valid" (>), "boundary" (=), "past" (<)
  codeUser,  \* the user a code was issued for
  codeClient,  \* the client it was issued to
  codeForm,  \* the form it was asked for with
  tokSt,     \* refresh_tokens: "none", "live", "revoked" or "gone"
  tokExp,
  tokUser,
  tokClient,
  pc,        \* the next query of each request, or "idle"
  src,       \* the code or refresh token it presents
  usr,       \* the user it acts for
  cli,       \* the client it authenticated as
  form,      \* the form it carries
  parent,    \* history: the code or token a refresh token was exchanged for
  root,      \* history: the code a refresh token goes back to
  lost,      \* history: codes whose line was revoked, deleted or lost by a failure
  before,    \* history: codes issued before the last BumpSessions of their user
  open,      \* history: of those, the ones being exchanged or unexchanged then
  late       \* history: tokens created since their user's approval was revoked

codeArgs == <<codeUser, codeClient, codeForm>>
codeVars == <<codeSt, codeExp, codeArgs>>
tokVars == <<tokSt, tokExp, tokUser, tokClient>>
rowVars == <<user, codeVars, tokVars>>
argVars == <<src, usr, cli, form>>
procVars == <<pc, argVars>>
histVars == <<parent, root, lost, before, open, late>>
vars == <<rowVars, procVars, histVars>>

Expiry == {"valid", "boundary", "past"}
Steps == {"idle", "createCode", "claimCode", "checkCode", "readUser", "claimToken", "create"}

TypeOK ==
  /\ user \in [Users -> {"approved", "pending", "gone"}]
  /\ codeSt \in [Codes -> {"none", "live", "used", "gone"}]
  /\ codeExp \in [Codes -> Expiry]
  /\ codeUser \in [Codes -> Users]
  /\ codeClient \in [Codes -> Clients]
  /\ codeForm \in [Codes -> Forms]
  /\ tokSt \in [Tokens -> {"none", "live", "revoked", "gone"}]
  /\ tokExp \in [Tokens -> Expiry]
  /\ tokUser \in [Tokens -> Users]
  /\ tokClient \in [Tokens -> Clients]
  /\ pc \in [Procs -> Steps]
  /\ src \in [Procs -> Codes \cup Tokens]
  /\ usr \in [Procs -> Users]
  /\ cli \in [Procs -> Clients]
  /\ form \in [Procs -> Forms]
  /\ parent \in [Tokens -> Codes \cup Tokens]
  /\ root \in [Tokens -> Codes]
  /\ lost \in SUBSET Codes
  /\ before \in SUBSET Codes
  /\ open \in SUBSET Codes
  /\ late \in SUBSET Tokens

(* The code that a code or refresh token goes back to.                     *)
Root(x) == IF x \in Codes THEN x ELSE root[x]

(* A request that has spent what it presents and not yet created what it   *)
(* gets for it.                                                            *)
Holds(p) == pc[p] \in {"checkCode", "create"}

Init ==
  \E u \in Users, k \in Clients, c \in Codes, f \in Forms :
  /\ user \in [Users -> {"approved"}]
  /\ codeSt = [x \in Codes |-> "none"]
  /\ codeExp = [x \in Codes |-> "valid"]
  /\ codeUser = [x \in Codes |-> u]
  /\ codeClient = [x \in Codes |-> k]
  /\ codeForm = [x \in Codes |-> f]
  /\ tokSt = [t \in Tokens |-> "none"]
  /\ tokExp = [t \in Tokens |-> "valid"]
  /\ tokUser = [t \in Tokens |-> u]
  /\ tokClient = [t \in Tokens |-> k]
  /\ pc = [p \in Procs |-> "idle"]
  /\ src = [p \in Procs |-> c]
  /\ usr = [p \in Procs |-> u]
  /\ cli = [p \in Procs |-> k]
  /\ form = [p \in Procs |-> f]
  /\ parent = [t \in Tokens |-> c]
  /\ root = [t \in Tokens |-> c]
  /\ lost = {} /\ before = {} /\ open = {} /\ late = {}

Goto(p, step) == pc' = [pc EXCEPT ![p] = step]

(* The line of a request that ends here is lost if it had spent its code   *)
(* or token already.                                                       *)
Give(p) ==
  /\ Goto(p, "idle")
  /\ lost' = IF Holds(p) THEN lost \cup {Root(src[p])} ELSE lost

-----------------------------------------------------------------------------
(* processAuthorize: the form is valid, the user proved who they are and   *)
(* is approved ...                                                         *)
Authorize(p, u, k, f) ==
  /\ pc[p] = "idle"
  /\ isLoopbackURI(f.redirect) /\ validPublicAuthorization(k, Registered[k], f)
  /\ user[u] = "approved"
  /\ Goto(p, "createCode")
  /\ usr' = [usr EXCEPT ![p] = u]
  /\ cli' = [cli EXCEPT ![p] = k]
  /\ form' = [form EXCEPT ![p] = f]
  /\ UNCHANGED <<rowVars, src, histVars>>

(* ... CreateAuthCode; the foreign key refuses the code of a deleted user. *)
CreateAuthCode(p, c) ==
  /\ pc[p] = "createCode"
  /\ codeSt[c] = "none"
  /\ user[usr[p]] # "gone"
  /\ codeSt' = [codeSt EXCEPT ![c] = "live"]
  /\ codeExp' = [codeExp EXCEPT ![c] = "valid"]
  /\ codeUser' = [codeUser EXCEPT ![c] = usr[p]]
  /\ codeClient' = [codeClient EXCEPT ![c] = cli[p]]
  /\ codeForm' = [codeForm EXCEPT ![c] = form[p]]
  /\ Goto(p, "idle")
  /\ UNCHANGED <<user, tokVars, argVars, histVars>>

-----------------------------------------------------------------------------
(* exchangeAuthCode, ConsumeAuthCode: the row is read and looks usable ... *)
ReadAuthCode(p, c, k, f) ==
  /\ pc[p] = "idle"
  /\ codeSt[c] = "live" /\ codeExp[c] # "past"
  /\ Goto(p, "claimCode")
  /\ src' = [src EXCEPT ![p] = c]
  /\ usr' = [usr EXCEPT ![p] = codeUser[c]]
  /\ cli' = [cli EXCEPT ![p] = k]
  /\ form' = [form EXCEPT ![p] = f]
  /\ UNCHANGED <<rowVars, histVars>>

(* Mutant of the next: the update is not conditional on used = false.      *)
ClaimableUsed(c) == codeSt[c] \in {"live", "used"} /\ codeExp[c] = "valid"

(* What the update of ConsumeAuthCode tests again.                         *)
ClaimableCode(c) == codeSt[c] = "live" /\ codeExp[c] = "valid"

(* ... and is marked used by that update.                                  *)
ClaimAuthCode(p) ==
  /\ pc[p] = "claimCode"
  /\ IF ClaimableCode(src[p])
     THEN /\ codeSt' = [codeSt EXCEPT ![src[p]] = "used"]
          /\ Goto(p, "checkCode")
     ELSE /\ Goto(p, "idle")
          /\ UNCHANGED codeSt
  /\ UNCHANGED <<user, codeExp, codeArgs, tokVars, argVars, histVars>>

(* Mutant of the next: the client of the code is not compared.             *)
AcceptableToAll(p, c) == codeExp[c] # "past" /\ Proves(cli[p], codeForm[c], form[p])

(* The code is spent by now, whatever these checks say.                    *)
Acceptable(p, c) ==
  /\ codeExp[c] # "past"
  /\ codeClient[c] = cli[p]
  /\ Proves(cli[p], codeForm[c], form[p])

(* The user must exist; that they are approved is not checked.             *)
CheckAuthCode(p) ==
  /\ pc[p] = "checkCode"
  /\ IF Acceptable(p, src[p]) /\ user[usr[p]] # "gone"
     THEN Goto(p, "create") /\ UNCHANGED lost
     ELSE Give(p)
  /\ UNCHANGED <<rowVars, argVars, parent, root, before, open, late>>

-----------------------------------------------------------------------------
(* exchangeRefreshToken: the row is read and looks usable by this client,  *)
ReadRefreshToken(p, t, k) ==
  /\ pc[p] = "idle"
  /\ tokSt[t] = "live" /\ tokExp[t] # "past"
  /\ tokClient[t] = k
  /\ Goto(p, "readUser")
  /\ src' = [src EXCEPT ![p] = t]
  /\ usr' = [usr EXCEPT ![p] = tokUser[t]]
  /\ cli' = [cli EXCEPT ![p] = k]
  /\ UNCHANGED <<rowVars, form, histVars>>

(* Mutant of the next: the token is claimed before its user is checked.    *)
ReadUserAfterClaim(p) ==
  /\ pc[p] = "readUser"
  /\ tokSt' = [tokSt EXCEPT ![src[p]] = IF @ = "live" THEN "revoked" ELSE @]
  /\ Goto(p, IF tokSt[src[p]] = "live" /\ user[usr[p]] = "approved" THEN "create" ELSE "idle")
  /\ UNCHANGED <<user, codeVars, tokExp, tokUser, tokClient, argVars, histVars>>

(* Mutant of the next: only that the user exists is checked.               *)
ReadAnyUser(p) ==
  /\ pc[p] = "readUser"
  /\ Goto(p, IF user[usr[p]] # "gone" THEN "claimToken" ELSE "idle")
  /\ UNCHANGED <<rowVars, argVars, histVars>>

(* its user exists and is approved,                                        *)
ReadUser(p) ==
  /\ pc[p] = "readUser"
  /\ Goto(p, IF user[usr[p]] = "approved" THEN "claimToken" ELSE "idle")
  /\ UNCHANGED <<rowVars, argVars, histVars>>

(* Mutant of the next: the answer does not depend on RowsAffected.         *)
ClaimableRevoked(t) == tokSt[t] \in {"live", "revoked"}

ClaimableToken(t) == tokSt[t] = "live" /\ tokExp[t] = "valid"

(* and ClaimRefreshToken revokes it if it still is usable.                 *)
ClaimRefreshToken(p) ==
  /\ pc[p] = "claimToken"
  /\ IF ClaimableToken(src[p])
     THEN /\ tokSt' = [tokSt EXCEPT ![src[p]] = "revoked"]
          /\ Goto(p, "create")
     ELSE /\ Goto(p, "idle")
          /\ UNCHANGED tokSt
  /\ UNCHANGED <<user, codeVars, tokExp, tokUser, tokClient, argVars, histVars>>

-----------------------------------------------------------------------------
(* Both exchanges end with CreateRefreshToken for the user and client at   *)
(* hand; the foreign key refuses the token of a deleted user.              *)
CreateRefreshToken(p, t) ==
  /\ pc[p] = "create"
  /\ tokSt[t] = "none"
  /\ user[usr[p]] # "gone"
  /\ tokSt' = [tokSt EXCEPT ![t] = "live"]
  /\ tokExp' = [tokExp EXCEPT ![t] = "valid"]
  /\ tokUser' = [tokUser EXCEPT ![t] = usr[p]]
  /\ tokClient' = [tokClient EXCEPT ![t] = cli[p]]
  /\ parent' = [parent EXCEPT ![t] = src[p]]
  /\ root' = [root EXCEPT ![t] = Root(src[p])]
  /\ late' = IF user[usr[p]] = "pending" THEN late \cup {t} ELSE late
  /\ Goto(p, "idle")
  /\ UNCHANGED <<user, codeVars, argVars, lost, before, open>>

(* A query fails, or the process stops: the request ends where it is.      *)
Fail(p) ==
  /\ pc[p] # "idle"
  /\ Give(p)
  /\ UNCHANGED <<rowVars, argVars, parent, root, before, open, late>>

-----------------------------------------------------------------------------
(* Revoke, by anyone who has the token.                                    *)
RevokeRefreshToken(t) ==
  /\ tokSt[t] \in {"live", "revoked"}
  /\ tokSt' = [tokSt EXCEPT ![t] = "revoked"]
  /\ lost' = IF tokSt[t] = "live" THEN lost \cup {root[t]} ELSE lost
  /\ UNCHANGED <<user, codeVars, tokExp, tokUser, tokClient, procVars,
                 parent, root, before, open, late>>

(* Mutant of the next: the refresh tokens are left as they are.            *)
BumpCookiesOnly(u) ==
  LET mine == {c \in Codes : codeSt[c] # "none" /\ codeUser[c] = u}
  IN  /\ user[u] # "gone"
      /\ before' = before \cup mine
      /\ open' = open \cup {c \in mine : codeSt[c] = "live"}
                      \cup {c \in mine : \E p \in Procs : Holds(p) /\ Root(src[p]) = c}
      /\ UNCHANGED <<rowVars, procVars, parent, root, lost, late>>

(* BumpSessions, from AccountPassword and AccountLogoutAll: in one         *)
(* transaction every refresh token of the user is revoked.                 *)
BumpSessions(u) ==
  LET hit == {t \in Tokens : tokSt[t] = "live" /\ tokUser[t] = u}
      mine == {c \in Codes : codeSt[c] # "none" /\ codeUser[c] = u}
  IN  /\ user[u] # "gone"
      /\ tokSt' = [t \in Tokens |-> IF t \in hit THEN "revoked" ELSE tokSt[t]]
      /\ lost' = lost \cup {root[t] : t \in hit}
      /\ before' = before \cup mine
      /\ open' = open \cup {c \in mine : codeSt[c] = "live"}
                      \cup {c \in mine : \E p \in Procs : Holds(p) /\ Root(src[p]) = c}
      /\ UNCHANGED <<user, codeVars, tokExp, tokUser, tokClient, procVars, parent, root, late>>

(* AdminAction approve and revoke.                                         *)
SetUserApproved(u, approved) ==
  /\ user[u] # "gone"
  /\ user' = [user EXCEPT ![u] = IF approved THEN "approved" ELSE "pending"]
  /\ late' = IF approved THEN {t \in late : tokUser[t] # u} ELSE late
  /\ UNCHANGED <<codeVars, tokVars, procVars, parent, root, lost, before, open>>

(* A user is deleted: their codes and refresh tokens go by the foreign key.*)
DeleteUserData(u) ==
  LET hit == {t \in Tokens : tokSt[t] # "none" /\ tokUser[t] = u}
      mine == {c \in Codes : codeSt[c] # "none" /\ codeUser[c] = u}
  IN  /\ user[u] # "gone"
      /\ user' = [user EXCEPT ![u] = "gone"]
      /\ codeSt' = [c \in Codes |-> IF c \in mine THEN "gone" ELSE codeSt[c]]
      /\ tokSt' = [t \in Tokens |-> IF t \in hit THEN "gone" ELSE tokSt[t]]
      /\ lost' = lost \cup mine
      /\ UNCHANGED <<codeExp, codeArgs, tokExp, tokUser, tokClient, procVars, parent, root,
                     before, open, late>>

(* Mutant of the next: the moment of expiry is left out.                   *)
LaterExpired(e) == IF e = "valid" THEN "expired" ELSE "past"

Later(e) == IF e = "valid" THEN "boundary" ELSE "past"

(* Time passes the expiry of a code or a refresh token.                    *)
AgeCode(c) ==
  /\ codeSt[c] \in {"live", "used"} /\ codeExp[c] # "past"
  /\ codeExp' = [codeExp EXCEPT ![c] = Later(@)]
  /\ UNCHANGED <<user, codeSt, codeArgs, tokVars, procVars, histVars>>

AgeToken(t) ==
  /\ tokSt[t] = "live" /\ tokExp[t] # "past"
  /\ tokExp' = [tokExp EXCEPT ![t] = Later(@)]
  /\ UNCHANGED <<user, codeVars, tokSt, tokUser, tokClient, procVars, histVars>>

-----------------------------------------------------------------------------
Request(p) ==
  \/ \E u \in Users, k \in Clients, f \in Forms : Authorize(p, u, k, f)
  \/ \E c \in Codes : CreateAuthCode(p, c)
  \/ \E c \in Codes, k \in Clients, f \in Forms : ReadAuthCode(p, c, k, f)
  \/ ClaimAuthCode(p)
  \/ CheckAuthCode(p)
  \/ \E t \in Tokens, k \in Clients : ReadRefreshToken(p, t, k)
  \/ ReadUser(p)
  \/ ClaimRefreshToken(p)
  \/ \E t \in Tokens : CreateRefreshToken(p, t)
  \/ Fail(p)

Account(u) ==
  \/ BumpSessions(u)
  \/ \E approved \in BOOLEAN : SetUserApproved(u, approved)
  \/ DeleteUserData(u)

Next ==
  \/ \E p \in Procs : Request(p)
  \/ \E t \in Tokens : RevokeRefreshToken(t) \/ AgeToken(t)
  \/ \E u \in Users : Account(u)
  \/ \E c \in Codes : AgeCode(c)

Spec == Init /\ [][Next]_vars

-----------------------------------------------------------------------------
Issued(t) == tokSt[t] # "none"
Live(t) == tokSt[t] = "live"

(* A code or refresh token is exchanged at most once, however many         *)
(* requests present it at the same time and whichever of them fail         *)
(* (store.go:149-169, 414-418; oauth_integration_test.go:60-85).           *)
ExchangedOnce ==
  \A t1, t2 \in Tokens : Issued(t1) /\ Issued(t2) /\ parent[t1] = parent[t2] => t1 = t2

(* An authorization never has two usable refresh tokens, and none while a  *)
(* request is between the claim and the new token (oauth.go:252-313).      *)
OneLiveTokenPerLine ==
  /\ \A t1, t2 \in Tokens : Live(t1) /\ Live(t2) /\ root[t1] = root[t2] => t1 = t2
  /\ \A t \in Tokens, p \in Procs : Live(t) /\ Holds(p) => Root(src[p]) # root[t]

(* A refresh token belongs to the user and the client its authorization    *)
(* was given to, through any number of rotations (oauth.go:200-240,        *)
(* 275-306).                                                               *)
BoundToAuthorization ==
  \A t \in Tokens : Issued(t) =>
    tokUser[t] = codeUser[root[t]] /\ tokClient[t] = codeClient[root[t]]

(* A used code leads to a live token or to a request about to create one,  *)
(* unless its line was revoked, deleted, refused or lost with a failing    *)
(* request: rotation itself loses nobody.                                  *)
NoLineVanishes ==
  \A c \in Codes : codeSt[c] = "used" =>
    \/ c \in lost
    \/ \E t \in Tokens : Live(t) /\ root[t] = c
    \/ \E p \in Procs : Holds(p) /\ Root(src[p]) = c

(* After BumpSessions no authorization given before it has a live refresh  *)
(* token, except those whose code had not been exchanged yet and those in  *)
(* the middle of an exchange (store.go:213-221).                           *)
BumpEndsTheRest ==
  \A t \in Tokens : Live(t) /\ root[t] \in before => root[t] \in open

(* What the README says of a password change, and the comment of           *)
(* BumpSessions: it revokes the user's refresh tokens, so every other      *)
(* browser is signed out.                                                  *)
BumpEndsEverySession == \A t \in Tokens : Live(t) => root[t] \notin before

(* Unless its challenge was made of no verifier, whoever asked for a code  *)
(* has something to show for it: what authorize lets through, token can    *)
(* accept (oauth.go:109-123, 219-222, 337-366, 528-548).                   *)
CodesAreRedeemable ==
  \A c \in Codes : codeSt[c] = "live" /\ codeForm[c].pkce # Orphan =>
    \E x \in {<<>>} \cup {<<v>> : v \in Verifiers} :
      Proves(codeClient[c], codeForm[c], [redirect |-> codeForm[c].redirect, pkce |-> x])

(* After an approval is revoked an authorization yields one more refresh   *)
(* token at most, whether its code is exchanged then (which checks no      *)
(* approval) or a refresh had been checked before: the next refresh is     *)
(* refused (README.md:70, oauth.go:224-238, 285-306).                      *)
RevokedUserGetsOneMore ==
  \A t1, t2 \in late : root[t1] = root[t2] => t1 = t2

(* Where an authorization is in its life, whatever rows and requests it is *)
(* spread over.                                                            *)
GrantOf(c) ==
  CASE codeSt[c] = "none" -> "none"
    [] codeSt[c] = "live" -> "given"
    [] OTHER -> IF \/ \E t \in Tokens : Live(t) /\ root[t] = c
                   \/ \E p \in Procs : Holds(p) /\ Root(src[p]) = c
                THEN "held" ELSE "over"

G == INSTANCE Grants WITH grant <- [c \in Codes |-> GrantOf(c)]

(* Codes, refresh tokens and the requests between them implement grants    *)
(* that are given, held and over, each once.                               *)
ImplementsGrants == G!Spec

(* Nothing that was spent, revoked or deleted is usable again.             *)
SpentStaysSpent ==
  [][/\ \A t \in Tokens : tokSt[t] \in {"revoked", "gone"} => tokSt'[t] \in {"revoked", "gone"}
     /\ \A c \in Codes : codeSt[c] \in {"used", "gone"} => codeSt'[c] \in {"used", "gone"}]_vars
=============================================================================
