--------------------------- MODULE AccountsProofs ---------------------------
(***************************************************************************)
(* Proofs about Accounts for any set of users and any number of requests.  *)
(*                                                                         *)
(* Checked is the heart of it: what a request concluded from its last read *)
(* still holds as long as no other write overtook it.  A step of one       *)
(* request either leaves the table alone or overtakes all others, which is *)
(* why Checked is inductive.                                               *)
(***************************************************************************)
EXTENDS Accounts, FiniteSetTheorems, TLAPS

(* The steps that are about a row.                                         *)
Targeted == {"put", "api delete", "self", "self delete"} \cup PageActions

HasTarget ==
  \A p \in Procs :
    /\ pc[p] \in Targeted => target[p] # None
    /\ pc[p] \in {"revoke", "delete"} => target[p] # who[p]

Checked ==
  \A p \in Procs \ overtaken :
    /\ pc[p] \in {"revoke", "delete", "self delete"} => ApprovedAdmins # {target[p]}
    /\ pc[p] = "reject" => target[p] \notin approved
    /\ pc[p] = "setup user" => users = {}
    /\ pc[p] \in {"put", "self"} =>
         /\ target[p] \in users
         /\ p \in sawAdmin <=> target[p] \in admins
         /\ p \in sawApproved <=> target[p] \in approved

Remembered ==
  \A p \in sawAdmin \cup sawApproved : target[p] \in registered => target[p] \in blessed

-----------------------------------------------------------------------------
(* The steps there are, one disjunct each.                                 *)
LEMMA NextSteps ==
  ASSUME [Next]_vars
  PROVE  \/ \E p \in Procs :
              \/ SetupCount(p) \/ SetupUser(p) \/ SetupClient(p)
              \/ \E t \in Ids, method \in {"put", "api delete"} : AdminUserDetail(p, t, method)
              \/ Put(p) \/ ApiDelete(p)
              \/ \E c \in Ids : SessionAdmin(p, c)
              \/ \E t \in Ids, action \in PageActions : AdminAction(p, t, action)
              \/ AdminActionWrite(p)
              \/ \E c \in Ids : PostUser(p, c)
              \/ CheckSelfDelete(p) \/ AccountDelete(p) \/ Fail(p)
         \/ \E u \in Ids : Login(u) \/ Authorize(u) \/ ExchangeAuthCode(u) \/ CodesExpire(u)
         \/ Register \/ AdminUsers \/ Restart \/ UNCHANGED vars
BY DEF Next, Setup, UserApi, AdminPage, SelfDelete

(* Every variable keeps its type; in particular every admin and approved   *)
(* id has a row, and a row written back was in the table once.             *)
LEMMA TypeStep == TypeOK /\ HasTarget /\ [Next]_vars => (TypeOK /\ HasTarget)'
<1>. DEFINE T == TypeOK /\ HasTarget
<1>. SUFFICES ASSUME T, [Next]_vars PROVE T'
  OBVIOUS
<1>. USE AccountsAssumption
     DEF TypeOK, HasTarget, Targeted, Steps, PageActions, Return, Read, Overtake, rowVars, reqVars,
         history
<1>1. ASSUME NEW p \in Procs, SetupCount(p) PROVE T'
  BY <1>1 DEF SetupCount
<1>2. ASSUME NEW p \in Procs, SetupUser(p) PROVE T'
  BY <1>2 DEF SetupUser, CreateUser
<1>3. ASSUME NEW p \in Procs, SetupClient(p) PROVE T'
  BY <1>3 DEF SetupClient
<1>4. ASSUME NEW p \in Procs, NEW t \in Ids, NEW method \in {"put", "api delete"},
             AdminUserDetail(p, t, method)
      PROVE  T'
  BY <1>4 DEF AdminUserDetail
<1>5. ASSUME NEW p \in Procs, Put(p) PROVE T'
  BY <1>5 DEF Put, UpdateUser
<1>6. ASSUME NEW p \in Procs, ApiDelete(p) PROVE T'
  BY <1>6 DEF ApiDelete, DeleteUserData
<1>7. ASSUME NEW p \in Procs, NEW c \in Ids, SessionAdmin(p, c) PROVE T'
  BY <1>7 DEF SessionAdmin, ApprovedAdmins
<1>8. ASSUME NEW p \in Procs, NEW t \in Ids, NEW action \in PageActions,
             AdminAction(p, t, action)
      PROVE  T'
  BY <1>8 DEF AdminAction, CheckAdminAction
<1>9. ASSUME NEW p \in Procs, AdminActionWrite(p) PROVE T'
  BY <1>9 DEF AdminActionWrite, SetUserApproved, DeleteUserData
<1>10. ASSUME NEW p \in Procs, NEW c \in Ids, PostUser(p, c) PROVE T'
  BY <1>10 DEF PostUser
<1>11. ASSUME NEW p \in Procs, CheckSelfDelete(p) PROVE T'
  BY <1>11 DEF CheckSelfDelete
<1>12. ASSUME NEW p \in Procs, AccountDelete(p) PROVE T'
  BY <1>12 DEF AccountDelete, DeleteUserData
<1>13. ASSUME NEW p \in Procs, Fail(p) PROVE T'
  BY <1>13 DEF Fail
<1>14. ASSUME NEW u \in Ids, Login(u) \/ Authorize(u) \/ ExchangeAuthCode(u) \/ CodesExpire(u)
      PROVE  T'
  <2>1. /\ UNCHANGED <<users, admins, approved, client, reqVars, history, overtaken>>
        /\ codes' \subseteq codes \cup {u}
        /\ jwts' = jwts \/ GenerateToken(u)
        /\ u \in users
    BY <1>14 DEF Login, Authorize, ExchangeAuthCode, CodesExpire
  <2>2. jwts' \subseteq jwts \cup {<<u, "admin">>, <<u, "user">>}
    BY <2>1 DEF GenerateToken
  <2>3. <<u, "admin">> \in used \X {"admin", "user"} /\ <<u, "user">> \in used \X {"admin", "user"}
    BY <2>1
  <2>4. jwts \subseteq used \X {"admin", "user"}
    OBVIOUS
  <2>5. jwts' \subseteq used \X {"admin", "user"}
    BY ONLY <2>2, <2>3, <2>4
  <2>. QED  BY <2>1, <2>5
<1>15. CASE Register
  BY <1>15 DEF Register, CreateUser
<1>16. CASE AdminUsers
  BY <1>16 DEF AdminUsers, CreateUser
<1>17. CASE Restart
  BY <1>17 DEF Restart
<1>18. CASE UNCHANGED vars
  BY <1>18 DEF vars
<1>. HIDE DEF T, TypeOK, HasTarget, PageActions
<1>. QED
  BY NextSteps, <1>1, <1>2, <1>3, <1>4, <1>5, <1>6, <1>7, <1>8, <1>9, <1>10, <1>11,
     <1>12, <1>13, <1>14, <1>15, <1>16, <1>17, <1>18

LEMMA TypeInit == Init => TypeOK /\ HasTarget
BY DEF Init, TypeOK, HasTarget, Targeted, Steps, PageActions

(* Type correctness.                                                       *)
THEOREM TypeCorrect == Spec => []TypeOK
<1>1. Spec => [](TypeOK /\ HasTarget)
  BY TypeInit, TypeStep, PTL DEF Spec
<1>. QED  BY <1>1, PTL

-----------------------------------------------------------------------------
(* A registered account is approved, or read as approved, only after an    *)
(* admin approved or promoted it.                                          *)
BlessedInv == RegistrationWaits /\ Remembered

LEMMA BlessedStep == TypeOK /\ HasTarget /\ BlessedInv /\ [Next]_vars => BlessedInv'
<1>. SUFFICES ASSUME TypeOK, HasTarget, BlessedInv, [Next]_vars PROVE BlessedInv'
  OBVIOUS
<1>. USE AccountsAssumption
     DEF TypeOK, HasTarget, Targeted, PageActions, BlessedInv, RegistrationWaits, Remembered,
         Return, Read, Overtake, rowVars, reqVars, history
<1>1. ASSUME NEW p \in Procs, SetupCount(p) PROVE BlessedInv'
  BY <1>1 DEF SetupCount
<1>2. ASSUME NEW p \in Procs, SetupUser(p) PROVE BlessedInv'
  BY <1>2 DEF SetupUser, CreateUser
<1>3. ASSUME NEW p \in Procs, SetupClient(p) PROVE BlessedInv'
  BY <1>3 DEF SetupClient
<1>4. ASSUME NEW p \in Procs, NEW t \in Ids, NEW method \in {"put", "api delete"},
             AdminUserDetail(p, t, method)
      PROVE  BlessedInv'
  <2>1. target' = [target EXCEPT ![p] = t] /\ admins' = admins /\ approved' = approved
        /\ blessed' = blessed /\ registered' = registered
    BY <1>4 DEF AdminUserDetail
  <2>2. ASSUME NEW q \in sawAdmin' \cup sawApproved' PROVE target'[q] \in registered => target'[q] \in blessed
    <3>1. CASE q = p
      BY <1>4, <2>1, <3>1 DEF AdminUserDetail
    <3>2. CASE q # p
      <4>1. q \in sawAdmin \cup sawApproved
        BY <1>4, <2>2, <3>2 DEF AdminUserDetail
      <4>. QED  BY <2>1, <3>2, <4>1
    <3>. QED  BY <3>1, <3>2
  <2>. QED  BY <2>1, <2>2
<1>5. ASSUME NEW p \in Procs, Put(p) PROVE BlessedInv'
  BY <1>5 DEF Put, UpdateUser
<1>6. ASSUME NEW p \in Procs, ApiDelete(p) PROVE BlessedInv'
  BY <1>6 DEF ApiDelete, DeleteUserData
<1>7. ASSUME NEW p \in Procs, NEW c \in Ids, SessionAdmin(p, c) PROVE BlessedInv'
  BY <1>7 DEF SessionAdmin
<1>8. ASSUME NEW p \in Procs, NEW t \in Ids, NEW action \in PageActions,
             AdminAction(p, t, action)
      PROVE  BlessedInv'
  <2>1. target' = [target EXCEPT ![p] = t] /\ admins' = admins /\ approved' = approved
        /\ blessed' = blessed /\ registered' = registered
    BY <1>8 DEF AdminAction
  <2>2. ASSUME NEW q \in sawAdmin' \cup sawApproved' PROVE target'[q] \in registered => target'[q] \in blessed
    <3>1. CASE q = p
      BY <1>8, <2>1, <3>1 DEF AdminAction
    <3>2. CASE q # p
      <4>1. q \in sawAdmin \cup sawApproved
        BY <1>8, <2>2, <3>2 DEF AdminAction
      <4>. QED  BY <2>1, <3>2, <4>1
    <3>. QED  BY <3>1, <3>2
  <2>. QED  BY <2>1, <2>2
<1>9. ASSUME NEW p \in Procs, AdminActionWrite(p) PROVE BlessedInv'
  BY <1>9 DEF AdminActionWrite, SetUserApproved, DeleteUserData
<1>10. ASSUME NEW p \in Procs, NEW c \in Ids, PostUser(p, c) PROVE BlessedInv'
  BY <1>10 DEF PostUser
<1>11. ASSUME NEW p \in Procs, CheckSelfDelete(p) PROVE BlessedInv'
  BY <1>11 DEF CheckSelfDelete
<1>12. ASSUME NEW p \in Procs, AccountDelete(p) PROVE BlessedInv'
  BY <1>12 DEF AccountDelete, DeleteUserData
<1>13. ASSUME NEW p \in Procs, Fail(p) PROVE BlessedInv'
  BY <1>13 DEF Fail
<1>14. ASSUME NEW u \in Ids, Login(u) \/ Authorize(u) \/ ExchangeAuthCode(u) \/ CodesExpire(u)
      PROVE  BlessedInv'
  BY <1>14 DEF Login, Authorize, ExchangeAuthCode, CodesExpire
<1>15. CASE Register
  BY <1>15 DEF Register, CreateUser
<1>16. CASE AdminUsers
  BY <1>16 DEF AdminUsers, CreateUser
<1>17. CASE Restart
  BY <1>17 DEF Restart
<1>18. CASE UNCHANGED vars
  BY <1>18 DEF vars
<1>. HIDE DEF BlessedInv, TypeOK, HasTarget, PageActions
<1>. QED
  BY NextSteps, <1>1, <1>2, <1>3, <1>4, <1>5, <1>6, <1>7, <1>8, <1>9, <1>10, <1>11,
     <1>12, <1>13, <1>14, <1>15, <1>16, <1>17, <1>18

(* Registration alone never leads to approval.                             *)
THEOREM RegistrationsWait == Spec => []RegistrationWaits
<1>1. Init => BlessedInv
  BY DEF Init, BlessedInv, RegistrationWaits, Remembered
<1>2. Spec => [](TypeOK /\ HasTarget /\ BlessedInv)
  BY <1>1, TypeInit, TypeStep, BlessedStep, PTL DEF Spec
<1>3. BlessedInv => RegistrationWaits
  BY DEF BlessedInv
<1>. QED  BY <1>2, <1>3, PTL

-----------------------------------------------------------------------------
(* What the steps of one request leave alone of the others.                *)
LEMMA OthersKeep ==
  ASSUME TypeOK, NEW p \in Procs, NEW q \in Procs, q # p, NEW t, NEW next,
         Read(p, t, next) \/ Return(p)
  PROVE  /\ pc'[q] = pc[q] /\ target'[q] = target[q]
         /\ q \in sawAdmin' <=> q \in sawAdmin
         /\ q \in sawApproved' <=> q \in sawApproved
BY DEF TypeOK, Read, Return

(* A write overtakes every other request, so nothing is claimed of them.   *)
LEMMA AfterWrite ==
  ASSUME TypeOK, NEW p \in Procs, Return(p), Overtake({p})
  PROVE  Checked'
<1>. SUFFICES ASSUME NEW q \in Procs, q \notin overtaken'
              PROVE  pc'[q] = "idle"
  BY DEF Checked
<1>1. CASE q = p
  BY <1>1 DEF Return, TypeOK
<1>2. CASE q # p
  BY <1>2 DEF Return, Overtake, TypeOK
<1>. QED  BY <1>1, <1>2

LEMMA AfterForeignWrite ==
  ASSUME TypeOK, UNCHANGED pc, Overtake({})
  PROVE  Checked'
BY DEF Checked, Overtake, TypeOK

(* A step that leaves the table alone keeps what the others concluded.     *)
LEMMA AfterRead ==
  ASSUME TypeOK, Checked, NEW p \in Procs, overtaken' = overtaken \ {p},
         UNCHANGED <<users, admins, approved>>,
         \A q \in Procs \ {p} :
            /\ pc'[q] = pc[q] /\ target'[q] = target[q]
            /\ q \in sawAdmin' <=> q \in sawAdmin
            /\ q \in sawApproved' <=> q \in sawApproved,
         /\ pc'[p] \in {"revoke", "delete", "self delete"} => ApprovedAdmins # {target'[p]}
         /\ pc'[p] = "reject" => target'[p] \notin approved
         /\ pc'[p] = "setup user" => users = {}
         /\ pc'[p] \in {"put", "self"} =>
              /\ target'[p] \in users
              /\ p \in sawAdmin' <=> target'[p] \in admins
              /\ p \in sawApproved' <=> target'[p] \in approved
  PROVE  Checked'
BY DEF Checked, ApprovedAdmins

LEMMA CheckedStep == TypeOK /\ HasTarget /\ Checked /\ [Next]_vars => Checked'
<1>. SUFFICES ASSUME TypeOK, HasTarget, Checked, [Next]_vars PROVE Checked'
  OBVIOUS
<1>. USE DEF rowVars, reqVars
<1>1. ASSUME NEW p \in Procs, SetupCount(p) PROVE Checked'
  BY <1>1, AfterRead DEF SetupCount, TypeOK
<1>2. ASSUME NEW p \in Procs, SetupUser(p) PROVE Checked'
  BY <1>2 DEF SetupUser, Overtake, Checked, TypeOK
<1>3. ASSUME NEW p \in Procs, SetupClient(p) PROVE Checked'
  BY <1>3, AfterRead, OthersKeep DEF SetupClient, TypeOK, Return
<1>4. ASSUME NEW p \in Procs, NEW t \in Ids, NEW method \in {"put", "api delete"},
             AdminUserDetail(p, t, method)
      PROVE  Checked'
  BY <1>4, AfterRead, OthersKeep DEF AdminUserDetail, Read, TypeOK
<1>5. ASSUME NEW p \in Procs, Put(p) PROVE Checked'
  BY <1>5, AfterWrite DEF Put
<1>6. ASSUME NEW p \in Procs, ApiDelete(p) PROVE Checked'
  BY <1>6, AfterWrite DEF ApiDelete
<1>7. ASSUME NEW p \in Procs, NEW c \in Ids, SessionAdmin(p, c) PROVE Checked'
  BY <1>7, AfterRead DEF SessionAdmin, TypeOK
<1>8. ASSUME NEW p \in Procs, NEW t \in Ids, NEW action \in PageActions,
             AdminAction(p, t, action)
      PROVE  Checked'
  <2>1. action \in {"revoke", "delete"} => ApprovedAdmins # {t}
    <3>1. Cardinality({t}) = 1
      BY FS_Singleton
    <3>2. action \in {"revoke", "delete"} => ~(t \in ApprovedAdmins /\ Cardinality(ApprovedAdmins) <= 1)
      BY <1>8 DEF AdminAction, CheckAdminAction, PageActions
    <3>. QED  BY <3>1, <3>2
  <2>2. action = "reject" => t \notin approved
    BY <1>8 DEF AdminAction, CheckAdminAction, PageActions
  <2>. QED  BY <1>8, <2>1, <2>2, AfterRead, OthersKeep DEF AdminAction, Read, TypeOK, PageActions
<1>9. ASSUME NEW p \in Procs, AdminActionWrite(p) PROVE Checked'
  BY <1>9, AfterWrite DEF AdminActionWrite
<1>10. ASSUME NEW p \in Procs, NEW c \in Ids, PostUser(p, c) PROVE Checked'
  BY <1>10, AfterRead, OthersKeep DEF PostUser, Read, TypeOK
<1>11. ASSUME NEW p \in Procs, CheckSelfDelete(p) PROVE Checked'
  <2>1. p \notin overtaken => ApprovedAdmins # {target[p]}
    <3>1. Cardinality({target[p]}) = 1
      BY FS_Singleton
    <3>2. p \notin overtaken /\ target[p] \in ApprovedAdmins => p \in sawAdmin /\ p \in sawApproved
      BY <1>11 DEF CheckSelfDelete, Checked, ApprovedAdmins
    <3>3. p \in sawAdmin /\ p \in sawApproved => ~(Cardinality(ApprovedAdmins) <= 1)
      BY <1>11 DEF CheckSelfDelete
    <3>. QED  BY <3>1, <3>2, <3>3
  <2>. QED  BY <1>11, <2>1 DEF CheckSelfDelete, Checked, ApprovedAdmins, TypeOK
<1>12. ASSUME NEW p \in Procs, AccountDelete(p) PROVE Checked'
  BY <1>12, AfterWrite DEF AccountDelete
<1>13. ASSUME NEW p \in Procs, Fail(p) PROVE Checked'
  BY <1>13, AfterRead, OthersKeep DEF Fail, TypeOK, Return
<1>14. ASSUME NEW u \in Ids, Login(u) \/ Authorize(u) \/ ExchangeAuthCode(u) \/ CodesExpire(u)
      PROVE  Checked'
  BY <1>14 DEF Login, Authorize, ExchangeAuthCode, CodesExpire, Checked, ApprovedAdmins
<1>15. CASE Register
  BY <1>15, AfterForeignWrite DEF Register
<1>16. CASE AdminUsers
  BY <1>16, AfterForeignWrite DEF AdminUsers
<1>17. CASE Restart
  BY <1>17 DEF Restart, Checked
<1>18. CASE UNCHANGED vars
  BY <1>18 DEF vars, Checked, ApprovedAdmins
<1>. HIDE DEF rowVars, reqVars
<1>. QED
  BY NextSteps, <1>1, <1>2, <1>3, <1>4, <1>5, <1>6, <1>7, <1>8, <1>9, <1>10, <1>11,
     <1>12, <1>13, <1>14, <1>15, <1>16, <1>17, <1>18

LEMMA CheckedAlways == Spec => [](TypeOK /\ HasTarget /\ Checked)
<1>1. Init => Checked
  BY DEF Init, Checked
<1>. QED  BY <1>1, TypeInit, TypeStep, CheckedStep, PTL DEF Spec

-----------------------------------------------------------------------------
(* The last approved admin goes only to the user API or to an overtaken    *)
(* request: the checks of the page and of /account hold whenever nothing   *)
(* came between the read they rest on and their write.                     *)
THEOREM LastAdminIsGuarded == Spec => LastAdminGoesByRace
<1>. DEFINE Guarded ==
       LastAdminGoes => \E p \in Procs :
         \/ Put(p) \/ ApiDelete(p)
         \/ p \in overtaken /\ (AdminActionWrite(p) \/ AccountDelete(p))
<1>1. TypeOK /\ HasTarget /\ Checked /\ [Next]_vars => [Guarded]_vars
  <2>. SUFFICES ASSUME TypeOK, Checked, [Next]_vars, LastAdminGoes,
                       \A p \in Procs : ~Put(p) /\ ~ApiDelete(p),
                       \A p \in overtaken : ~AdminActionWrite(p) /\ ~AccountDelete(p)
                PROVE  FALSE
    BY DEF TypeOK
  <2>. USE DEF LastAdminGoes, ApprovedAdmins, rowVars
  <2>1. ASSUME NEW p \in Procs, AdminActionWrite(p) PROVE FALSE
    <3>1. p \notin overtaken
      BY <2>1
    <3>2. CASE pc[p] = "approve"
      BY <2>1, <3>2 DEF AdminActionWrite, SetUserApproved, TypeOK
    <3>3. CASE pc[p] = "revoke"
      <4>1. ApprovedAdmins # {target[p]}
        BY <3>1, <3>3 DEF Checked
      <4>. QED  BY <2>1, <3>3, <4>1 DEF AdminActionWrite, SetUserApproved
    <3>4. CASE pc[p] = "reject"
      <4>1. target[p] \notin approved
        BY <3>1, <3>4 DEF Checked
      <4>. QED  BY <2>1, <3>4, <4>1 DEF AdminActionWrite, DeleteUserData
    <3>5. CASE pc[p] = "delete"
      <4>1. ApprovedAdmins # {target[p]}
        BY <3>1, <3>5 DEF Checked
      <4>. QED  BY <2>1, <3>5, <4>1 DEF AdminActionWrite, DeleteUserData
    <3>. QED  BY <2>1, <3>2, <3>3, <3>4, <3>5 DEF AdminActionWrite, PageActions
  <2>2. ASSUME NEW p \in Procs, AccountDelete(p) PROVE FALSE
    <3>1. ApprovedAdmins # {target[p]}
      BY <2>2 DEF Checked, AccountDelete
    <3>. QED  BY <2>2, <3>1 DEF AccountDelete, DeleteUserData
  <2>3. ASSUME NEW p \in Procs,
               SetupCount(p) \/ SetupUser(p) \/ SetupClient(p) \/ CheckSelfDelete(p) \/ Fail(p)
        PROVE  FALSE
    BY <2>3 DEF SetupCount, SetupUser, CreateUser, SetupClient, CheckSelfDelete, Fail
  <2>4. ASSUME NEW p \in Procs, NEW t \in Ids, NEW next,
               AdminUserDetail(p, t, next) \/ SessionAdmin(p, t)
                 \/ AdminAction(p, t, next) \/ PostUser(p, t)
        PROVE  FALSE
    BY <2>4 DEF AdminUserDetail, SessionAdmin, AdminAction, PostUser
  <2>5. ASSUME NEW u \in Ids, Login(u) \/ Authorize(u) \/ ExchangeAuthCode(u) \/ CodesExpire(u)
        PROVE  FALSE
    BY <2>5 DEF Login, Authorize, ExchangeAuthCode, CodesExpire
  <2>6. CASE Register \/ AdminUsers \/ Restart
    BY <2>6 DEF Register, AdminUsers, CreateUser, Restart
  <2>7. CASE UNCHANGED vars
    BY <2>7 DEF vars
  <2>. HIDE DEF LastAdminGoes, ApprovedAdmins, rowVars
  <2>. QED  BY NextSteps, <2>1, <2>2, <2>3, <2>4, <2>5, <2>6, <2>7
<1>. QED  BY CheckedAlways, <1>1, PTL DEF Spec, LastAdminGoesByRace

(* What was revoked or deleted comes back only by an approval, a restart   *)
(* or a row written back after it had changed.                             *)
THEOREM RemovalsStay == Spec => NothingComesBack
<1>. DEFINE Stays ==
       \A t \in used :
         /\ t \in users' \ users => \E p \in overtaken : target[p] = t /\ Put(p)
         /\ t \in approved' \ approved =>
              \/ \E p \in Procs : target[p] = t /\ pc[p] = "approve" /\ AdminActionWrite(p)
              \/ t \in admins /\ Restart
              \/ \E p \in overtaken : target[p] = t /\ Put(p)
<1>1. TypeOK /\ HasTarget /\ Checked /\ [Next]_vars => [Stays]_vars
  <2>. SUFFICES ASSUME TypeOK, Checked, [Next]_vars PROVE Stays
    OBVIOUS
  <2>. USE DEF rowVars
  <2>1. ASSUME NEW p \in Procs, Put(p) PROVE Stays
    <3>1. CASE p \in overtaken
      <4>1. users' \subseteq users \cup {target[p]} /\ approved' \subseteq approved \cup {target[p]}
        BY <2>1 DEF Put, UpdateUser
      <4>. QED  BY <2>1, <3>1, <4>1
    <3>2. CASE p \notin overtaken
      <4>1. target[p] \in users /\ (p \in sawApproved <=> target[p] \in approved)
        BY <2>1, <3>2 DEF Put, Checked
      <4>2. users' \subseteq users /\ approved' \subseteq approved
        BY <2>1, <4>1 DEF Put, UpdateUser
      <4>. QED  BY <4>2
    <3>. QED  BY <3>1, <3>2
  <2>2. ASSUME NEW p \in Procs, AdminActionWrite(p) PROVE Stays
    <3>1. users' \subseteq users
      BY <2>2 DEF AdminActionWrite, SetUserApproved, DeleteUserData
    <3>2. ASSUME NEW t \in approved' \ approved PROVE target[p] = t /\ pc[p] = "approve"
      BY <2>2, <3>2 DEF AdminActionWrite, SetUserApproved, DeleteUserData, PageActions
    <3>. QED  BY <2>2, <3>1, <3>2
  <2>3. ASSUME users' \subseteq users, approved' \subseteq approved PROVE Stays
    BY <2>3
  <2>4. ASSUME NEW p \in Procs,
               SetupCount(p) \/ SetupClient(p) \/ CheckSelfDelete(p) \/ Fail(p)
                 \/ ApiDelete(p) \/ AccountDelete(p)
        PROVE  Stays
    BY <2>3, <2>4 DEF SetupCount, SetupClient, CheckSelfDelete, Fail, ApiDelete, AccountDelete,
                      DeleteUserData
  <2>5. ASSUME NEW p \in Procs, NEW t \in Ids, NEW next,
               AdminUserDetail(p, t, next) \/ SessionAdmin(p, t)
                 \/ AdminAction(p, t, next) \/ PostUser(p, t)
        PROVE  Stays
    BY <2>3, <2>5 DEF AdminUserDetail, SessionAdmin, AdminAction, PostUser
  <2>6. ASSUME NEW u \in Ids, NEW a, NEW b, CreateUser(u, a, b) PROVE Stays
    BY <2>6 DEF CreateUser
  <2>7. ASSUME NEW p \in Procs, SetupUser(p) PROVE Stays
    BY <2>6, <2>7 DEF SetupUser
  <2>8. CASE Register \/ AdminUsers
    BY <2>6, <2>8 DEF Register, AdminUsers
  <2>9. CASE Restart
    BY <2>9 DEF Restart
  <2>10. ASSUME NEW u \in Ids, Login(u) \/ Authorize(u) \/ ExchangeAuthCode(u) \/ CodesExpire(u)
         PROVE  Stays
    BY <2>3, <2>10 DEF Login, Authorize, ExchangeAuthCode, CodesExpire
  <2>11. CASE UNCHANGED vars
    BY <2>3, <2>11 DEF vars
  <2>. HIDE DEF Stays, rowVars
  <2>. QED  BY NextSteps, <2>1, <2>2, <2>4, <2>5, <2>7, <2>8, <2>9, <2>10, <2>11
<1>. QED  BY CheckedAlways, <1>1, PTL DEF Spec, NothingComesBack

(* Nothing but a race lets /setup make a second admin.                     *)
THEOREM SetupHappensOnce == Spec => SetupOnce
<1>. DEFINE Once == \A p \in Procs \ overtaken : SetupUser(p) => users = {}
<1>1. Checked => [Once]_vars
  BY DEF Checked, SetupUser
<1>. QED  BY CheckedAlways, <1>1, PTL DEF Spec, SetupOnce

(* An approved admin does not remove himself on the admin page.            *)
THEOREM CallerIsSpared == Spec => PageSparesCaller
<1>. DEFINE Spared == \A p \in Procs \ overtaken :
       AdminActionWrite(p) /\ who[p] \in approved => who[p] \in approved'
<1>1. TypeOK /\ HasTarget /\ Checked => [Spared]_vars
  <2>. SUFFICES ASSUME TypeOK, HasTarget, Checked, NEW p \in Procs \ overtaken,
                       AdminActionWrite(p), who[p] \in approved
                PROVE  who[p] \in approved'
    OBVIOUS
  <2>1. CASE pc[p] = "approve"
    BY <2>1 DEF AdminActionWrite, SetUserApproved, TypeOK
  <2>2. CASE pc[p] \in {"revoke", "delete"}
    BY <2>2 DEF AdminActionWrite, SetUserApproved, DeleteUserData, HasTarget
  <2>3. CASE pc[p] = "reject"
    BY <2>3 DEF AdminActionWrite, DeleteUserData, Checked
  <2>. QED  BY <2>1, <2>2, <2>3 DEF AdminActionWrite, PageActions
<1>. QED  BY CheckedAlways, <1>1, PTL DEF Spec, PageSparesCaller
=============================================================================
