------------------------------ MODULE Accounts ------------------------------
(***************************************************************************)
(* The users table and the handlers that create, approve and remove        *)
(* accounts: /setup, /register, the user API (/api/admin/users), the admin *)
(* page (/admin/...), /account/delete, and the migration at startup.       *)
(*                                                                         *)
(* Every handler reads and writes with one autocommitted query at a time,  *)
(* so each query is a step and any other request may come in between.  Of  *)
(* a row only its role and its approval are kept.  An e-mail address that  *)
(* is taken, like any failing query, ends the request (Fail).              *)
(*                                                                         *)
(* The page and /account check their caller's row in the database; the     *)
(* user API believes the role in the caller's JWT.  POST /api/admin/users  *)
(* asks for a valid JWT only: any user's creates an approved account, of   *)
(* either role.  Of the OAuth flow there is what hands out a JWT: a code,  *)
(* given to an approved user and exchanged whatever became of the approval.*)
(***************************************************************************)
EXTENDS Naturals, FiniteSets

CONSTANTS
  Ids,    \* user ids; random, so none is ever used for a second row
  Procs,  \* concurrent requests
  None    \* no user

ASSUME AccountsAssumption == IsFiniteSet(Ids) /\ None \notin Ids

VARIABLES
  users,       \* ids with a row
  admins,      \* those whose role is 'admin'
  approved,    \* those who are approved
  client,      \* a client was created by /setup
  codes,       \* users with an authorization code that can be exchanged
  jwts,        \* the valid JWTs: <<user, role when it was issued>>
  pc,          \* what each request does next
  who,         \* its caller, for the page and /account
  target,      \* the row it is about
  sawAdmin,    \* requests that read their target as an admin
  sawApproved, \* requests that read their target as approved
  used,        \* history: ids that ever had a row
  registered,  \* history: ids that came in through /register
  blessed,     \* history: ids made by /setup, or made, approved or promoted as an admin
  overtaken    \* history: requests whose last read another write followed

rowVars == <<users, admins, approved, client, codes>>
reqVars == <<pc, who, target, sawAdmin, sawApproved>>
history == <<used, registered, blessed>>
vars == <<rowVars, jwts, reqVars, history, overtaken>>

PageActions == {"approve", "reject", "revoke", "delete"}
Steps == {"idle", "setup user", "setup client", "put", "api delete", "page", "self",
          "self delete"} \cup PageActions

TypeOK ==
  /\ users \subseteq used /\ used \subseteq Ids
  /\ registered \subseteq used /\ blessed \subseteq used
  /\ admins \subseteq users
  /\ approved \subseteq users
  /\ client \in BOOLEAN
  /\ codes \subseteq users
  /\ jwts \subseteq used \X {"admin", "user"}
  /\ pc \in [Procs -> Steps]
  /\ who \in [Procs -> used \cup {None}]
  /\ target \in [Procs -> used \cup {None}]
  /\ sawAdmin \subseteq Procs /\ sawApproved \subseteq Procs
  /\ overtaken \subseteq Procs

Init ==
  /\ users = {} /\ admins = {} /\ approved = {} /\ client = FALSE /\ codes = {}
  /\ jwts = {}
  /\ pc = [p \in Procs |-> "idle"]
  /\ who = [p \in Procs |-> None]
  /\ target = [p \in Procs |-> None]
  /\ sawAdmin = {} /\ sawApproved = {}
  /\ used = {} /\ registered = {} /\ blessed = {} /\ overtaken = {}

ApprovedAdmins == admins \cap approved

-----------------------------------------------------------------------------
(* Steps of a request.  Read notes what p saw of t; Return ends p.         *)
Read(p, t, next) ==
  /\ pc' = [pc EXCEPT ![p] = next]
  /\ target' = [target EXCEPT ![p] = t]
  /\ sawAdmin' = IF t \in admins THEN sawAdmin \cup {p} ELSE sawAdmin \ {p}
  /\ sawApproved' = IF t \in approved THEN sawApproved \cup {p} ELSE sawApproved \ {p}
  /\ overtaken' = overtaken \ {p}

Return(p) ==
  /\ pc' = [pc EXCEPT ![p] = "idle"]
  /\ who' = [who EXCEPT ![p] = None]
  /\ target' = [target EXCEPT ![p] = None]
  /\ sawAdmin' = sawAdmin \ {p}
  /\ sawApproved' = sawApproved \ {p}

Overtake(S) == overtaken' = (overtaken \cup {q \in Procs : pc[q] # "idle"}) \ S

(* A new row, with a fresh id.                                             *)
CreateUser(u, isAdmin, isApproved) ==
  /\ u \in Ids \ used
  /\ used' = used \cup {u}
  /\ users' = users \cup {u}
  /\ admins' = IF isAdmin THEN admins \cup {u} ELSE admins
  /\ approved' = IF isApproved THEN approved \cup {u} ELSE approved
  /\ UNCHANGED <<client, codes>>

(* Mutant of the next: an upsert instead of an UPDATE ... WHERE id = ?.    *)
SetUserApprovedUpsert(t, b) ==
  /\ approved' = IF b THEN approved \cup {t} ELSE approved \ {t}
  /\ UNCHANGED <<users, admins, client, codes>>

SetUserApproved(t, b) ==
  /\ approved' = IF b /\ t \in users THEN approved \cup {t} ELSE approved \ {t}
  /\ UNCHANGED <<users, admins, client, codes>>

(* The codes go with their user (ON DELETE CASCADE).                       *)
DeleteUserData(t) ==
  /\ users' = users \ {t}
  /\ admins' = admins \ {t}
  /\ approved' = approved \ {t}
  /\ codes' = codes \ {t}
  /\ UNCHANGED client

(* gorm's Save writes every column of the row that was read, and inserts   *)
(* it again when it is no longer there.                                    *)
UpdateUser(t, isAdmin, isApproved) ==
  /\ users' = users \cup {t}
  /\ admins' = IF isAdmin THEN admins \cup {t} ELSE admins \ {t}
  /\ approved' = IF isApproved THEN approved \cup {t} ELSE approved \ {t}
  /\ UNCHANGED <<client, codes>>

-----------------------------------------------------------------------------
(* POST /setup: count the users, create the admin, create the client.      *)
(* Mutant of the first: the count is not looked at.                        *)
SetupCountIgnored(p) ==
  /\ pc[p] = "idle"
  /\ pc' = [pc EXCEPT ![p] = "setup user"]
  /\ overtaken' = overtaken \ {p}
  /\ UNCHANGED <<rowVars, jwts, who, target, sawAdmin, sawApproved, history>>

SetupCount(p) ==
  /\ pc[p] = "idle"
  /\ users = {}
  /\ pc' = [pc EXCEPT ![p] = "setup user"]
  /\ overtaken' = overtaken \ {p}
  /\ UNCHANGED <<rowVars, jwts, who, target, sawAdmin, sawApproved, history>>

SetupUser(p) ==
  /\ pc[p] = "setup user"
  /\ \E u \in Ids : CreateUser(u, TRUE, TRUE) /\ blessed' = blessed \cup {u}
  /\ pc' = [pc EXCEPT ![p] = "setup client"]
  /\ Overtake({p})
  /\ UNCHANGED <<jwts, who, target, sawAdmin, sawApproved, registered>>

SetupClient(p) ==
  /\ pc[p] = "setup client"
  /\ client' = TRUE
  /\ Return(p)
  /\ overtaken' = overtaken \ {p}
  /\ UNCHANGED <<users, admins, approved, codes, jwts, history>>

(* POST /register, by form or JSON.  Mutant: as an admin's creation.       *)
RegisterApproved ==
  /\ \E u \in Ids : CreateUser(u, FALSE, TRUE) /\ registered' = registered \cup {u}
  /\ Overtake({})
  /\ UNCHANGED <<jwts, reqVars, blessed>>

Register ==
  /\ \E u \in Ids : CreateUser(u, FALSE, FALSE) /\ registered' = registered \cup {u}
  /\ Overtake({})
  /\ UNCHANGED <<jwts, reqVars, blessed>>

(* POST /api/admin/users: the caller's role is not looked at.              *)
AdminUsers ==
  /\ \E jwt \in jwts, u \in Ids, isAdmin \in BOOLEAN :
       /\ CreateUser(u, isAdmin, TRUE)
       /\ blessed' = IF jwt[2] = "admin" THEN blessed \cup {u} ELSE blessed
  /\ Overtake({})
  /\ UNCHANGED <<jwts, reqVars, registered>>

(* A JWT has the role of the moment it is issued.                          *)
GenerateToken(u) == jwts' = jwts \cup {<<u, IF u \in admins THEN "admin" ELSE "user">>}

(* POST /login, and a refresh: for an approved user.                       *)
Login(u) ==
  /\ u \in approved
  /\ GenerateToken(u)
  /\ UNCHANGED <<rowVars, reqVars, history, overtaken>>

(* POST /oauth/authorize asks for the approval, the exchange of the code   *)
(* does not.  The code spent is the user's last one, or it is not.         *)
Authorize(u) ==
  /\ u \in approved
  /\ codes' = codes \cup {u}
  /\ UNCHANGED <<users, admins, approved, client, jwts, reqVars, history, overtaken>>

ExchangeAuthCode(u) ==
  /\ u \in codes
  /\ codes' \in {codes, codes \ {u}}
  /\ GenerateToken(u)
  /\ UNCHANGED <<users, admins, approved, client, reqVars, history, overtaken>>

(* The user's codes expire, or are spent in vain.                          *)
CodesExpire(u) ==
  /\ u \in codes
  /\ codes' = codes \ {u}
  /\ UNCHANGED <<users, admins, approved, client, jwts, reqVars, history, overtaken>>

-----------------------------------------------------------------------------
(* PUT and DELETE /api/admin/users/{id}: read the row, then write it.      *)
AdminUserDetail(p, t, method) ==
  /\ pc[p] = "idle"
  /\ \E c \in Ids : <<c, "admin">> \in jwts
  /\ t \in users
  /\ Read(p, t, method)
  /\ UNCHANGED <<rowVars, jwts, who, history>>

(* The request names the new role, or leaves the one that was read.        *)
Put(p) ==
  /\ pc[p] = "put"
  /\ \/ \E isAdmin \in BOOLEAN :
          /\ UpdateUser(target[p], isAdmin, p \in sawApproved)
          /\ blessed' = IF isAdmin THEN blessed \cup {target[p]} ELSE blessed
     \/ UpdateUser(target[p], p \in sawAdmin, p \in sawApproved) /\ UNCHANGED blessed
  /\ Return(p)
  /\ Overtake({p})
  /\ UNCHANGED <<jwts, used, registered>>

ApiDelete(p) ==
  /\ pc[p] = "api delete"
  /\ DeleteUserData(target[p])
  /\ Return(p)
  /\ Overtake({p})
  /\ UNCHANGED <<jwts, history>>

-----------------------------------------------------------------------------
(* POST /admin/{approve,reject,revoke,delete}: sessionAdmin reads the      *)
(* caller, ListUsers reads the rows that checkAdminAction looks at.        *)
SessionAdmin(p, c) ==
  /\ pc[p] = "idle"
  /\ c \in ApprovedAdmins
  /\ pc' = [pc EXCEPT ![p] = "page"]
  /\ who' = [who EXCEPT ![p] = c]
  /\ overtaken' = overtaken \ {p}
  /\ UNCHANGED <<rowVars, jwts, target, sawAdmin, sawApproved, history>>

(* Mutant of the next: the admins are not counted.                         *)
CheckAdminActionUncounted(action, self, t) ==
  CASE action = "approve" -> t \notin approved
    [] action = "reject" -> t \notin approved
    [] action = "revoke" -> t # self /\ t \in approved
    [] action = "delete" -> t # self

(* Mutant: the caller is not told from the others.                         *)
CheckAdminActionAnyone(action, self, t) ==
  LET lastAdmin == t \in ApprovedAdmins /\ Cardinality(ApprovedAdmins) <= 1
  IN  CASE action = "approve" -> t \notin approved
        [] action = "reject" -> t \notin approved
        [] action = "revoke" -> t \in approved /\ ~lastAdmin
        [] action = "delete" -> ~lastAdmin

CheckAdminAction(action, self, t) ==
  LET lastAdmin == t \in ApprovedAdmins /\ Cardinality(ApprovedAdmins) <= 1
  IN  CASE action = "approve" -> t \notin approved
        [] action = "reject" -> t \notin approved
        [] action = "revoke" -> t # self /\ t \in approved /\ ~lastAdmin
        [] action = "delete" -> t # self /\ ~lastAdmin

AdminAction(p, t, action) ==
  /\ pc[p] = "page"
  /\ t \in users
  /\ CheckAdminAction(action, who[p], t)
  /\ Read(p, t, action)
  /\ UNCHANGED <<rowVars, jwts, who, history>>

AdminActionWrite(p) ==
  /\ pc[p] \in PageActions
  /\ IF pc[p] \in {"approve", "revoke"}
     THEN SetUserApproved(target[p], pc[p] = "approve")
     ELSE DeleteUserData(target[p])
  /\ blessed' = IF pc[p] = "approve" THEN blessed \cup {target[p]} ELSE blessed
  /\ Return(p)
  /\ Overtake({p})
  /\ UNCHANGED <<jwts, used, registered>>

-----------------------------------------------------------------------------
(* POST /account/delete: postUser reads the caller, the admins are counted,*)
(* checkSelfDelete looks at both, the account is deleted.                  *)
PostUser(p, c) ==
  /\ pc[p] = "idle"
  /\ c \in approved
  /\ Read(p, c, "self")
  /\ who' = [who EXCEPT ![p] = c]
  /\ UNCHANGED <<rowVars, jwts, history>>

CheckSelfDelete(p) ==
  /\ pc[p] = "self"
  /\ ~(p \in sawAdmin /\ p \in sawApproved /\ Cardinality(ApprovedAdmins) <= 1)
  /\ pc' = [pc EXCEPT ![p] = "self delete"]
  /\ UNCHANGED <<rowVars, jwts, who, target, sawAdmin, sawApproved, history, overtaken>>

AccountDelete(p) ==
  /\ pc[p] = "self delete"
  /\ DeleteUserData(target[p])
  /\ Return(p)
  /\ Overtake({p})
  /\ UNCHANGED <<jwts, history>>

-----------------------------------------------------------------------------
(* A query fails, or a check refuses: nothing more is written.             *)
Fail(p) ==
  /\ pc[p] # "idle"
  /\ Return(p)
  /\ overtaken' = overtaken \ {p}
  /\ UNCHANGED <<rowVars, jwts, history>>

(* The process stops with its requests; at startup the schema approves     *)
(* every admin.  Mutant: the UPDATE has no WHERE.                          *)
RestartApprovesAll ==
  /\ approved' = users
  /\ pc' = [p \in Procs |-> "idle"]
  /\ who' = [p \in Procs |-> None]
  /\ target' = [p \in Procs |-> None]
  /\ sawAdmin' = {} /\ sawApproved' = {} /\ overtaken' = {}
  /\ UNCHANGED <<users, admins, client, codes, jwts, history>>

Restart ==
  /\ approved' = approved \cup admins
  /\ pc' = [p \in Procs |-> "idle"]
  /\ who' = [p \in Procs |-> None]
  /\ target' = [p \in Procs |-> None]
  /\ sawAdmin' = {} /\ sawApproved' = {} /\ overtaken' = {}
  /\ UNCHANGED <<users, admins, client, codes, jwts, history>>

Setup(p) == SetupCount(p) \/ SetupUser(p) \/ SetupClient(p)
UserApi(p) ==
  \/ \E t \in Ids, method \in {"put", "api delete"} : AdminUserDetail(p, t, method)
  \/ Put(p)
  \/ ApiDelete(p)
AdminPage(p) ==
  \/ \E c \in Ids : SessionAdmin(p, c)
  \/ \E t \in Ids, action \in PageActions : AdminAction(p, t, action)
  \/ AdminActionWrite(p)
SelfDelete(p) == (\E c \in Ids : PostUser(p, c)) \/ CheckSelfDelete(p) \/ AccountDelete(p)

Next ==
  \/ \E p \in Procs : Setup(p) \/ UserApi(p) \/ AdminPage(p) \/ SelfDelete(p) \/ Fail(p)
  \/ \E u \in Ids : Login(u) \/ Authorize(u) \/ ExchangeAuthCode(u) \/ CodesExpire(u)
  \/ Register
  \/ AdminUsers
  \/ Restart

Spec == Init /\ [][Next]_vars

-----------------------------------------------------------------------------
LastAdminGoes == ApprovedAdmins # {} /\ ApprovedAdmins' = {}

(* The last approved admin is lost only to the user API, which does not    *)
(* count, or to a request whose check was overtaken by another write       *)
(* (admin.go:212-236, account.go:127-132).                                 *)
LastAdminGoesByRace ==
  [][LastAdminGoes => \E p \in Procs :
       \/ Put(p) \/ ApiDelete(p)
       \/ p \in overtaken /\ (AdminActionWrite(p) \/ AccountDelete(p))]_vars

(* A revoked account is approved again, or a deleted one back in the       *)
(* table, only by an approval, by a restart when it is an admin's, or by   *)
(* the user API writing back a row that changed since it was read          *)
(* (admin.go:38-76, schema.sql:17-20).                                     *)
NothingComesBack ==
  [][\A t \in used :
       /\ t \in users' \ users => \E p \in overtaken : target[p] = t /\ Put(p)
       /\ t \in approved' \ approved =>
            \/ \E p \in Procs : target[p] = t /\ pc[p] = "approve" /\ AdminActionWrite(p)
            \/ t \in admins /\ Restart
            \/ \E p \in overtaken : target[p] = t /\ Put(p)]_vars

(* An account that came in through /register is approved, or an admin's,   *)
(* only after an admin approved or promoted it, with the page or the user  *)
(* API: neither a restart, nor a row written back, nor a code exchanged    *)
(* after a revocation gets it in (user.go:19-21, README.md:62-68).         *)
RegistrationWaits == registered \cap (approved \cup admins) \subseteq blessed

(* What main.go:82, user.go:297 and README.md:70 say: /setup aside, only   *)
(* an admin creates an approved account.                                   *)
ApprovedByAnAdmin == approved \cup admins \subseteq blessed

(* The admin page never removes its own caller as long as he is approved   *)
(* and nothing was written since the rows were read.  For reject, which    *)
(* checkAdminAction does not compare with the caller, that follows from    *)
(* the approval sessionAdmin asked for (admin.go:188-198, 218-225).        *)
PageSparesCaller ==
  [][\A p \in Procs \ overtaken :
       AdminActionWrite(p) /\ who[p] \in approved => who[p] \in approved']_vars

(* /setup makes an admin only while there are no users, unless another     *)
(* request wrote between its count and its insert (setup.go:37-77).        *)
SetupOnce == [][\A p \in Procs \ overtaken : SetupUser(p) => users = {}]_vars
=============================================================================
