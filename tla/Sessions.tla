------------------------------ MODULE Sessions ------------------------------
(***************************************************************************)
(* The browser sessions of one user: POST /login, POST /account/password,  *)
(* POST /account/logout-all, /logout, and an administrator's PUT of the    *)
(* user's row.  A session is a signed cookie that the server does not      *)
(* remember; it ends when its iat, in whole seconds, is less than the      *)
(* column sessions_valid_after.                                            *)
(*                                                                         *)
(* Passwords are numbered in the order they were set.  Every query is a    *)
(* step, and so is the time that bcrypt takes: a login issues its cookie   *)
(* some time after it read the row.  A cookie's exp, the user's approval   *)
(* and the cache before /session/verify are in Verify.                     *)
(***************************************************************************)
EXTENDS Naturals

CONSTANTS
  Browsers,    \* of the user; each has one request under way
  Editors,     \* concurrent PUT /api/admin/users/{id} for the user
  MaxTime,     \* bound: seconds that pass
  MaxPasswords \* bound: passwords that are set

ASSUME SessionsAssumption ==
  MaxTime \in Nat /\ MaxPasswords \in Nat /\ Browsers \cap Editors = {}

VARIABLES
  now,        \* time.Now().Unix()
  password,   \* the password that the row's hash is of
  validAfter, \* its sessions_valid_after
  newest,     \* how many passwords were set so far
  signedIn,   \* the browsers that hold a cookie
  iat,        \* when it was issued
  given,      \* the password it was given for
  doing,      \* what each request does next
  stamp,      \* the time a change took before it writes
  sawPw,      \* the password in the row that a request read
  sawVa,      \* the sessions_valid_after in that row
  outdated    \* history: requests whose read or stamp a write followed

sessVars == <<now, password, validAfter, newest, signedIn, iat, given, doing, stamp, sawPw, sawVa,
              outdated>>
cookieVars == <<signedIn, iat, given>>

Actors == Browsers \cup Editors
Times == 0..MaxTime
Passwords == 0..MaxPasswords

SessionsTypeOK ==
  /\ now \in Times
  /\ validAfter \in 0..now
  /\ newest \in Passwords
  /\ password \in 0..newest
  /\ signedIn \subseteq Browsers
  /\ iat \in [Browsers -> 0..now]
  /\ given \in [Browsers -> 0..newest]
  /\ doing \in [Actors -> {"idle", "issue", "hash", "set", "bump", "reissue", "logout all", "put"}]
  /\ stamp \in [Browsers -> 0..now]
  /\ sawPw \in [Actors -> 0..newest]
  /\ sawVa \in [Editors -> 0..now]
  /\ outdated \subseteq Actors

SessionsInit ==
  /\ now = 0 /\ validAfter = 0 /\ password = 0 /\ newest = 0
  /\ signedIn = {}
  /\ iat = [b \in Browsers |-> 0]
  /\ given = [b \in Browsers |-> 0]
  /\ doing = [a \in Actors |-> "idle"]
  /\ stamp = [b \in Browsers |-> 0]
  /\ sawPw = [a \in Actors |-> 0]
  /\ sawVa = [e \in Editors |-> 0]
  /\ outdated = {}

(* sessionUser's and VerifySession's test of a cookie.                     *)
Accepted(b) == b \in signedIn /\ iat[b] >= validAfter

-----------------------------------------------------------------------------
Goto(a, next) == doing' = [doing EXCEPT ![a] = next]

Outdate(a) == outdated' = (outdated \cup {x \in Actors : doing[x] # "idle"}) \ {a}

(* Mutant of the next: the claims are signed again as they were.           *)
RenewSessionCookie(b) ==
  /\ signedIn' = signedIn \cup {b}
  /\ iat' = iat
  /\ given' = [given EXCEPT ![b] = sawPw[b]]

(* token.GenerateToken and setSessionCookie.                               *)
SetSessionCookie(b) ==
  /\ signedIn' = signedIn \cup {b}
  /\ iat' = [iat EXCEPT ![b] = now]
  /\ given' = [given EXCEPT ![b] = sawPw[b]]

(* A second passes.                                                        *)
Tick ==
  /\ now < MaxTime
  /\ now' = now + 1
  /\ UNCHANGED <<password, validAfter, newest, cookieVars, doing, stamp, sawPw, sawVa, outdated>>

(* POST /login: the row is read and the password compared with its hash;   *)
(* then the cookie is issued.                                              *)
CheckPassword(b) ==
  /\ doing[b] = "idle"
  /\ sawPw' = [sawPw EXCEPT ![b] = password]
  /\ Goto(b, "issue")
  /\ UNCHANGED <<now, password, validAfter, newest, cookieVars, stamp, sawVa, outdated>>

Issue(b) ==
  /\ doing[b] = "issue"
  /\ SetSessionCookie(b)
  /\ Goto(b, "idle")
  /\ UNCHANGED <<now, password, validAfter, newest, stamp, sawPw, sawVa, outdated>>

(* /logout only takes the cookie from the browser.                         *)
Logout(b) ==
  /\ doing[b] = "idle"
  /\ signedIn' = signedIn \ {b}
  /\ UNCHANGED <<now, password, validAfter, newest, iat, given, doing, stamp, sawPw, sawVa,
                 outdated>>

-----------------------------------------------------------------------------
(* postUser reads the row for a POST of a signed-in browser.               *)
SignedInPost(b, next) ==
  /\ doing[b] = "idle"
  /\ Accepted(b)
  /\ Goto(b, next)
  /\ UNCHANGED <<now, password, validAfter, newest, cookieVars, stamp, sawPw, sawVa, outdated>>

(* The passwords were compared and hashed: time.Now().Unix().              *)
TakeTime(b) ==
  /\ doing[b] = "hash"
  /\ stamp' = [stamp EXCEPT ![b] = now]
  /\ outdated' = outdated \ {b}
  /\ \E next \in {"set", "logout all"} : Goto(b, next)
  /\ UNCHANGED <<now, password, validAfter, newest, cookieVars, sawPw, sawVa>>

(* Mutant of the next: cookies of the same second are to end as well.      *)
SetPasswordNextSecond(b) ==
  /\ doing[b] = "set"
  /\ newest < MaxPasswords
  /\ newest' = newest + 1
  /\ password' = newest + 1
  /\ validAfter' = stamp[b] + 1
  /\ sawPw' = [sawPw EXCEPT ![b] = newest + 1]
  /\ Goto(b, "reissue")
  /\ Outdate(b)
  /\ UNCHANGED <<now, cookieVars, stamp, sawVa>>

SetPassword(b) ==
  /\ doing[b] = "set"
  /\ newest < MaxPasswords
  /\ newest' = newest + 1
  /\ password' = newest + 1
  /\ validAfter' = stamp[b]
  /\ sawPw' = [sawPw EXCEPT ![b] = newest + 1]
  /\ Goto(b, "bump")
  /\ Outdate(b)
  /\ UNCHANGED <<now, cookieVars, stamp, sawVa>>

(* BumpSessions writes sessions_valid_after again.                         *)
BumpSessions(b) ==
  /\ doing[b] = "bump"
  /\ validAfter' = stamp[b]
  /\ Goto(b, "reissue")
  /\ Outdate(b)
  /\ UNCHANGED <<now, password, newest, cookieVars, stamp, sawPw, sawVa>>

(* This browser gets a new cookie.                                         *)
Reissue(b) ==
  /\ doing[b] = "reissue"
  /\ SetSessionCookie(b)
  /\ Goto(b, "idle")
  /\ UNCHANGED <<now, password, validAfter, newest, stamp, sawPw, sawVa, outdated>>

(* Mutant of the next: the time of this browser's cookie, not the present. *)
LogoutAllSince(b) ==
  /\ doing[b] = "logout all"
  /\ validAfter' = iat[b]
  /\ signedIn' = signedIn \ {b}
  /\ Goto(b, "idle")
  /\ Outdate(b)
  /\ UNCHANGED <<now, password, newest, iat, given, stamp, sawPw, sawVa>>

LogoutAll(b) ==
  /\ doing[b] = "logout all"
  /\ validAfter' = stamp[b]
  /\ signedIn' = signedIn \ {b}
  /\ Goto(b, "idle")
  /\ Outdate(b)
  /\ UNCHANGED <<now, password, newest, iat, given, stamp, sawPw, sawVa>>

-----------------------------------------------------------------------------
(* PUT /api/admin/users/{id}: the row is read, changed in memory and saved *)
(* with every column; a password in the request replaces the hash.         *)
EditRead(e) ==
  /\ doing[e] = "idle"
  /\ sawPw' = [sawPw EXCEPT ![e] = password]
  /\ sawVa' = [sawVa EXCEPT ![e] = validAfter]
  /\ outdated' = outdated \ {e}
  /\ Goto(e, "put")
  /\ UNCHANGED <<now, password, validAfter, newest, cookieVars, stamp>>

SaveUser(e) ==
  /\ doing[e] = "put"
  /\ \/ password' = sawPw[e] /\ newest' = newest
     \/ newest < MaxPasswords /\ newest' = newest + 1 /\ password' = newest + 1
  /\ validAfter' = sawVa[e]
  /\ Goto(e, "idle")
  /\ Outdate(e)
  /\ UNCHANGED <<now, cookieVars, stamp, sawPw, sawVa>>

(* A check refuses, a query fails or the process stops.                    *)
Abort(a) ==
  /\ doing[a] # "idle"
  /\ Goto(a, "idle")
  /\ UNCHANGED <<now, password, validAfter, newest, cookieVars, stamp, sawPw, sawVa, outdated>>

AccountPost(b) ==
  \/ SignedInPost(b, "hash") \/ TakeTime(b)
  \/ SetPassword(b) \/ BumpSessions(b) \/ Reissue(b)
  \/ LogoutAll(b)

SessionsNext ==
  \/ \E b \in Browsers : CheckPassword(b) \/ Issue(b) \/ Logout(b) \/ AccountPost(b)
  \/ \E e \in Editors : EditRead(e) \/ SaveUser(e)
  \/ \E a \in Actors : Abort(a)
  \/ Tick

SessionsSpec == SessionsInit /\ [][SessionsNext]_sessVars

-----------------------------------------------------------------------------
(* The end of a session is not taken back and a replaced password does not *)
(* work again, except by a request that some other write overtook: a row   *)
(* that an administrator writes back, or a change with an earlier time     *)
(* that comes later (store.go:207-221, admin.go:38-76).                    *)
ChangesStay ==
  [][/\ validAfter' < validAfter =>
          \E a \in outdated : SetPassword(a) \/ BumpSessions(a) \/ LogoutAll(a) \/ SaveUser(a)
     /\ password' < password => \E e \in outdated : SaveUser(e)]_sessVars

(* A browser that is given a cookie is signed in with it, above all the    *)
(* one that changes the password: the time of the new cookie is not before *)
(* what the row says, whatever was written in between (account.go:101-105).*)
NewCookieIsAccepted ==
  [][\A b \in Browsers : Issue(b) \/ Reissue(b) => Accepted(b)']_sessVars

(* What README.md:100 and account.go:39 say: when the password is changed  *)
(* all other browsers are signed out.                                      *)
OthersAreSignedOut ==
  [][\A b \in Browsers \ outdated : BumpSessions(b) =>
       \A other \in Browsers \ {b} : given[other] # password => ~Accepted(other)']_sessVars
=============================================================================
