------------------------------ MODULE ApiTokens -----------------------------
(***************************************************************************)
(* Personal access tokens on /account/tokens (handler/account.go:170-377): *)
(* creation under a limit of active tokens, and revocation.  createToken   *)
(* counts and then inserts, in two queries; TokenRevoke updates the row    *)
(* and then writes the log; the delete of a user is one statement.  Of a   *)
(* token row its owner, whether revoked_at is set and whether expires_at   *)
(* has passed are kept, and of its name who gave it.  What a token opens   *)
(* is the subject of Verify.                                               *)
(***************************************************************************)
EXTENDS Naturals, FiniteSets

CONSTANTS
  Tokens,          \* token ids; random, so none is used for a second row
  Users,
  Procs,           \* concurrent requests
  None,            \* no user, no token
  MaxActiveTokens  \* maxActiveTokens, 50 in the code

ASSUME ApiTokensAssumption ==
  /\ IsFiniteSet(Tokens) /\ IsFiniteSet(Procs)
  /\ MaxActiveTokens \in Nat \ {0}

VARIABLES
  users,    \* the users that have a row
  tokens,   \* the tokens that have a row
  owner,    \* user_id of each token
  revoked,  \* those whose revoked_at is set
  expired,  \* those whose expires_at has passed
  pc,       \* what each request does next
  caller,   \* the signed-in user of each request
  target,   \* the token each request revoked and has yet to log
  found,    \* history: how many requests found a token to revoke
  logged,   \* history: how often REVOKE_TOKEN was logged for a token
  used,     \* history: ids that ever had a row
  named     \* history: the user who gave a token the name it has

rowVars == <<users, tokens, owner, revoked, expired, used, named>>
logVars == <<target, found, logged>>
vars == <<rowVars, pc, caller, logVars>>

TypeOK ==
  /\ users \subseteq Users
  /\ tokens \subseteq used /\ used \subseteq Tokens
  /\ owner \in [Tokens -> Users \cup {None}]
  /\ revoked \subseteq tokens
  /\ expired \subseteq tokens
  /\ named \in [Tokens -> Users \cup {None}]
  /\ \A t \in tokens : owner[t] \in users /\ named[t] = owner[t]
  /\ pc \in [Procs -> {"idle", "count", "insert", "rename", "revoke", "log"}]
  /\ caller \in [Procs -> Users \cup {None}]
  /\ target \in [Procs -> Tokens \cup {None}]
  /\ \A p \in Procs : pc[p] = "log" => target[p] \in Tokens
  /\ found \in [Tokens -> Nat]
  /\ logged \in [Tokens -> Nat]

Init ==
  /\ users = Users
  /\ tokens = {} /\ revoked = {} /\ expired = {} /\ used = {}
  /\ owner = [t \in Tokens |-> None]
  /\ pc = [p \in Procs |-> "idle"]
  /\ caller = [p \in Procs |-> None]
  /\ target = [p \in Procs |-> None]
  /\ found = [t \in Tokens |-> 0]
  /\ logged = [t \in Tokens |-> 0]
  /\ named = [t \in Tokens |-> None]

(* APIToken.Active, as CountActiveAPITokens counts it.                     *)
Active(u) == {t \in tokens \ (revoked \cup expired) : owner[t] = u}

-----------------------------------------------------------------------------
(* postUser finds the caller's row; the form names what to do.             *)
PostUser(p, u, next) ==
  /\ pc[p] = "idle"
  /\ u \in users
  /\ pc' = [pc EXCEPT ![p] = next]
  /\ caller' = [caller EXCEPT ![p] = u]
  /\ UNCHANGED <<rowVars, logVars>>

(* Mutant of the next: one too many.                                       *)
CountActiveOffByOne(p) ==
  /\ pc[p] = "count"
  /\ pc' = [pc EXCEPT ![p] = IF Cardinality(Active(caller[p])) > MaxActiveTokens
                             THEN "idle" ELSE "insert"]
  /\ UNCHANGED <<rowVars, caller, logVars>>

CountActive(p) ==
  /\ pc[p] = "count"
  /\ pc' = [pc EXCEPT ![p] = IF Cardinality(Active(caller[p])) >= MaxActiveTokens
                             THEN "idle" ELSE "insert"]
  /\ UNCHANGED <<rowVars, caller, logVars>>

(* Mutant of the next: the table has no foreign key.                       *)
CreateAPITokenAnyUser(p) ==
  /\ pc[p] = "insert"
  /\ \E t \in Tokens \ used :
       /\ tokens' = tokens \cup {t}
       /\ used' = used \cup {t}
       /\ owner' = [owner EXCEPT ![t] = caller[p]]
       /\ named' = [named EXCEPT ![t] = caller[p]]
  /\ pc' = [pc EXCEPT ![p] = "idle"]
  /\ UNCHANGED <<users, revoked, expired, caller, logVars>>

(* user_id REFERENCES users: the insert fails once the user is deleted.    *)
CreateAPIToken(p) ==
  /\ pc[p] = "insert"
  /\ caller[p] \in users
  /\ \E t \in Tokens \ used :
       /\ tokens' = tokens \cup {t}
       /\ used' = used \cup {t}
       /\ owner' = [owner EXCEPT ![t] = caller[p]]
       /\ named' = [named EXCEPT ![t] = caller[p]]
  /\ pc' = [pc EXCEPT ![p] = "idle"]
  /\ UNCHANGED <<users, revoked, expired, caller, logVars>>

(* Mutant of the next: the statement does not ask for revoked_at IS NULL.  *)
RevokeAPITokenAgain(p, t) ==
  /\ pc[p] = "revoke"
  /\ IF t \in tokens /\ owner[t] = caller[p]
     THEN /\ revoked' = revoked \cup {t}
          /\ found' = [found EXCEPT ![t] = @ + 1]
          /\ target' = [target EXCEPT ![p] = t]
          /\ pc' = [pc EXCEPT ![p] = "log"]
     ELSE pc' = [pc EXCEPT ![p] = "idle"] /\ UNCHANGED <<revoked, found, target>>
  /\ UNCHANGED <<users, tokens, owner, expired, caller, logged, used, named>>

(* Revokes a token of the caller that is not revoked; only then it counts  *)
(* as found.                                                               *)
RevokeAPIToken(p, t) ==
  /\ pc[p] = "revoke"
  /\ IF t \in tokens \ revoked /\ owner[t] = caller[p]
     THEN /\ revoked' = revoked \cup {t}
          /\ found' = [found EXCEPT ![t] = @ + 1]
          /\ target' = [target EXCEPT ![p] = t]
          /\ pc' = [pc EXCEPT ![p] = "log"]
     ELSE pc' = [pc EXCEPT ![p] = "idle"] /\ UNCHANGED <<revoked, found, target>>
  /\ UNCHANGED <<users, tokens, owner, expired, caller, logged, used, named>>

(* The entry of the revocation, a query of its own.                        *)
CreateSystemLog(p) ==
  /\ pc[p] = "log"
  /\ logged' = [logged EXCEPT ![target[p]] = @ + 1]
  /\ target' = [target EXCEPT ![p] = None]
  /\ pc' = [pc EXCEPT ![p] = "idle"]
  /\ UNCHANGED <<rowVars, caller, found>>

(* Renames a token of the caller, a revoked one too.                       *)
RenameAPIToken(p, t) ==
  /\ pc[p] = "rename"
  /\ named' = IF t \in tokens /\ owner[t] = caller[p]
              THEN [named EXCEPT ![t] = caller[p]] ELSE named
  /\ pc' = [pc EXCEPT ![p] = "idle"]
  /\ UNCHANGED <<users, tokens, owner, revoked, expired, used, caller, logVars>>

(* A query fails or is cut off: the request is over, and a revocation goes *)
(* unlogged, as the error of CreateSystemLog is ignored.                   *)
Fail(p) ==
  /\ pc[p] # "idle"
  /\ pc' = [pc EXCEPT ![p] = "idle"]
  /\ target' = [target EXCEPT ![p] = None]
  /\ UNCHANGED <<rowVars, caller, found, logged>>

(* The expires_at of a token passes (30, 90 or 365 days, or never).        *)
Expire(t) ==
  /\ t \in tokens \ expired
  /\ expired' = expired \cup {t}
  /\ UNCHANGED <<users, tokens, owner, revoked, used, named, pc, caller, logVars>>

(* DeleteUserData; ON DELETE CASCADE takes the tokens along.               *)
DeleteUserData(u) ==
  /\ u \in users
  /\ users' = users \ {u}
  /\ LET left == {t \in tokens : owner[t] # u}
     IN  /\ tokens' = left
         /\ revoked' = revoked \cap left
         /\ expired' = expired \cap left
  /\ UNCHANGED <<owner, used, named, pc, caller, logVars>>

Request(p) ==
  \/ \E u \in Users, next \in {"count", "rename", "revoke"} : PostUser(p, u, next)
  \/ CountActive(p)
  \/ CreateAPIToken(p)
  \/ \E t \in Tokens : RenameAPIToken(p, t) \/ RevokeAPIToken(p, t)
  \/ CreateSystemLog(p)
  \/ Fail(p)

Next ==
  \/ \E p \in Procs : Request(p)
  \/ \E t \in Tokens : Expire(t)
  \/ \E u \in Users : DeleteUserData(u)

Spec == Init /\ [][Next]_vars

-----------------------------------------------------------------------------
(* A user has at most as many tokens over the limit as creates ran besides *)
(* the last one: 51 with two (the comment at account.go:284).              *)
LimitWithinRaces ==
  \A u \in Users : Cardinality(Active(u)) <= MaxActiveTokens + Cardinality(Procs) - 1

(* However many requests revoke one token, at most one finds it and it is  *)
(* logged at most once; while it has a row it is revoked just when one     *)
(* found it (account.go:361-376, store.go:270-275).  That the log has an   *)
(* entry is not promised: it is written afterwards, if at all.             *)
RevokedOnce ==
  \A t \in Tokens :
    /\ logged[t] <= found[t] /\ found[t] <= 1
    /\ t \in tokens => (found[t] = 1 <=> t \in revoked)

(* Active tokens of others are never touched by a request: a token stops   *)
(* being active because of its owner, its age or its owner's deletion      *)
(* (store.go:233, 270-275).                                                *)
OnlyTheOwnerEnds ==
  [][\A u \in Users : \A t \in Active(u) \ Active(u)' :
       \/ t \in expired'
       \/ u \notin users'
       \/ \E p \in Procs : caller[p] = u /\ RevokeAPIToken(p, t)]_vars
=============================================================================
