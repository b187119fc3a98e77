-------------------------- MODULE ApiTokensProofs ---------------------------
(***************************************************************************)
(* Proofs about ApiTokens for any number of tokens, users and requests and *)
(* any limit.                                                              *)
(*                                                                         *)
(* Reserved counts a user's active tokens together with the requests that  *)
(* were told there is room and have not inserted yet.  A count admits a    *)
(* request only below the limit, when at most all requests are under way;  *)
(* an insert turns one into the other.                                     *)
(***************************************************************************)
EXTENDS ApiTokens, FiniteSetTheorems, TLAPS

Inserting(u) == {p \in Procs : pc[p] = "insert" /\ caller[p] = u}

Reserved ==
  \A u \in Users :
    Cardinality(Active(u)) + Cardinality(Inserting(u))
      <= MaxActiveTokens + Cardinality(Procs) - 1

-----------------------------------------------------------------------------
(* Every variable keeps its type; the tokens of a deleted user are gone.   *)
LEMMA TypeStep == TypeOK /\ [Next]_vars => TypeOK'
<1>. SUFFICES ASSUME TypeOK, [Next]_vars PROVE TypeOK'
  OBVIOUS
<1>. USE DEF TypeOK, rowVars, logVars
<1>1. ASSUME NEW p \in Procs, Request(p) PROVE TypeOK'
  <2>1. ASSUME NEW u \in Users, NEW next \in {"count", "rename", "revoke"}, PostUser(p, u, next)
        PROVE  TypeOK'
    BY <2>1 DEF PostUser
  <2>2. CASE CountActive(p)
    BY <2>2 DEF CountActive
  <2>3. CASE CreateAPIToken(p)
    BY <2>3 DEF CreateAPIToken
  <2>4. ASSUME NEW t \in Tokens, RevokeAPIToken(p, t) PROVE TypeOK'
    BY <2>4 DEF RevokeAPIToken
  <2>6. ASSUME NEW t \in Tokens, RenameAPIToken(p, t) PROVE TypeOK'
    BY <2>6 DEF RenameAPIToken
  <2>5. CASE Fail(p)
    BY <2>5 DEF Fail
  <2>7. CASE CreateSystemLog(p)
    BY <2>7 DEF CreateSystemLog
  <2>. QED  BY <1>1, <2>1, <2>2, <2>3, <2>4, <2>5, <2>6, <2>7 DEF Request
<1>2. ASSUME NEW t \in Tokens, Expire(t) PROVE TypeOK'
  BY <1>2 DEF Expire
<1>3. ASSUME NEW u \in Users, DeleteUserData(u) PROVE TypeOK'
  BY <1>3 DEF DeleteUserData
<1>4. CASE UNCHANGED vars
  BY <1>4 DEF vars
<1>. QED  BY <1>1, <1>2, <1>3, <1>4 DEF Next

LEMMA TypeInit == Init => TypeOK
BY DEF Init, TypeOK

(* Type correctness.                                                       *)
THEOREM TypeCorrect == Spec => []TypeOK
BY TypeInit, TypeStep, PTL DEF Spec

-----------------------------------------------------------------------------
(* The sets that are counted are finite.                                   *)
LEMMA CountedAreFinite ==
  ASSUME TypeOK, NEW u \in Users
  PROVE  /\ IsFiniteSet(Active(u)) /\ Cardinality(Active(u)) \in Nat
         /\ IsFiniteSet(Inserting(u)) /\ Cardinality(Inserting(u)) \in Nat
         /\ Cardinality(Inserting(u)) <= Cardinality(Procs)
         /\ Cardinality(Procs) \in Nat
<1>1. Active(u) \in SUBSET Tokens /\ Inserting(u) \in SUBSET Procs
  BY DEF Active, Inserting, TypeOK
<1>2. IsFiniteSet(Active(u)) /\ IsFiniteSet(Inserting(u))
      /\ Cardinality(Inserting(u)) <= Cardinality(Procs)
  BY <1>1, FS_Subset, ApiTokensAssumption
<1>. QED  BY <1>2, FS_CardinalityType, ApiTokensAssumption

(* Fewer tokens and fewer requests keep the bound.                         *)
LEMMA Fewer ==
  ASSUME TypeOK, TypeOK', Reserved,
         \A u \in Users : Active(u)' \subseteq Active(u) /\ Inserting(u)' \subseteq Inserting(u)
  PROVE  Reserved'
<1>. SUFFICES ASSUME NEW u \in Users
              PROVE  Cardinality(Active(u)') + Cardinality(Inserting(u)')
                       <= MaxActiveTokens + Cardinality(Procs) - 1
  BY DEF Reserved
<1>1. Active(u)' \in SUBSET Active(u) /\ Inserting(u)' \in SUBSET Inserting(u)
  OBVIOUS
<1>2. /\ IsFiniteSet(Active(u)) /\ IsFiniteSet(Inserting(u))
      /\ Cardinality(Active(u)) \in Nat /\ Cardinality(Inserting(u)) \in Nat
      /\ Cardinality(Procs) \in Nat
  BY CountedAreFinite
<1>3. /\ Cardinality(Active(u)') <= Cardinality(Active(u))
      /\ Cardinality(Inserting(u)') <= Cardinality(Inserting(u))
  BY <1>1, <1>2, FS_Subset
<1>4. Cardinality(Active(u)') \in Nat /\ Cardinality(Inserting(u)') \in Nat
  BY <1>1, <1>2, FS_Subset, FS_CardinalityType
<1>5. Cardinality(Active(u)) + Cardinality(Inserting(u))
        <= MaxActiveTokens + Cardinality(Procs) - 1
  BY DEF Reserved
<1>. QED  BY <1>2, <1>3, <1>4, <1>5, ApiTokensAssumption

LEMMA ReservedStep == TypeOK /\ TypeOK' /\ Reserved /\ [Next]_vars => Reserved'
<1>. SUFFICES ASSUME TypeOK, TypeOK', Reserved, [Next]_vars PROVE Reserved'
  OBVIOUS
<1>. USE DEF rowVars
<1>1. ASSUME NEW p \in Procs, NEW v \in Users, NEW next \in {"count", "rename", "revoke"},
             PostUser(p, v, next)
      PROVE  Reserved'
  BY <1>1, Fewer DEF PostUser, Active, Inserting, TypeOK
<1>2. ASSUME NEW p \in Procs, CountActive(p) PROVE Reserved'
  <2>1. CASE Cardinality(Active(caller[p])) >= MaxActiveTokens
    BY <1>2, <2>1, Fewer DEF CountActive, Active, Inserting, TypeOK
  <2>2. CASE ~(Cardinality(Active(caller[p])) >= MaxActiveTokens)
    <3>. SUFFICES ASSUME NEW u \in Users
                  PROVE  Cardinality(Active(u)') + Cardinality(Inserting(u)')
                           <= MaxActiveTokens + Cardinality(Procs) - 1
      BY DEF Reserved
    <3>1. Active(u)' = Active(u)
      BY <1>2 DEF CountActive, Active
    <3>2. CASE u = caller[p]
      <4>1. Cardinality(Active(u)) \in Nat /\ ~(Cardinality(Active(u)) >= MaxActiveTokens)
        BY <2>2, <3>2, CountedAreFinite
      <4>2. /\ Cardinality(Inserting(u)') \in Nat /\ Cardinality(Procs) \in Nat
            /\ Cardinality(Inserting(u)') <= Cardinality(Procs)
        <5>1. Inserting(u)' \in SUBSET Procs
          BY DEF Inserting
        <5>. QED  BY <5>1, FS_Subset, FS_CardinalityType, ApiTokensAssumption
      <4>. QED  BY <3>1, <4>1, <4>2, ApiTokensAssumption
    <3>3. CASE u # caller[p]
      <4>1. Inserting(u)' = Inserting(u)
        BY <1>2, <3>3 DEF CountActive, Inserting, TypeOK
      <4>. QED  BY <3>1, <4>1 DEF Reserved
    <3>. QED  BY <3>2, <3>3
  <2>. QED  BY <2>1, <2>2
<1>3. ASSUME NEW p \in Procs, CreateAPIToken(p) PROVE Reserved'
  <2>. PICK t \in Tokens \ used : /\ tokens' = tokens \cup {t}
                                  /\ owner' = [owner EXCEPT ![t] = caller[p]]
    BY <1>3 DEF CreateAPIToken
  <2>. SUFFICES ASSUME NEW u \in Users
                PROVE  Cardinality(Active(u)') + Cardinality(Inserting(u)')
                         <= MaxActiveTokens + Cardinality(Procs) - 1
    BY DEF Reserved
  <2>1. CASE u = caller[p]
    <3>1. Active(u)' = Active(u) \cup {t} /\ t \notin Active(u)
      BY <1>3, <2>1 DEF CreateAPIToken, Active, TypeOK
    <3>2. Inserting(u)' = Inserting(u) \ {p} /\ p \in Inserting(u)
      BY <1>3, <2>1 DEF CreateAPIToken, Inserting, TypeOK
    <3>3. /\ IsFiniteSet(Active(u)) /\ IsFiniteSet(Inserting(u))
          /\ Cardinality(Active(u)) \in Nat /\ Cardinality(Inserting(u)) \in Nat
          /\ Cardinality(Procs) \in Nat
      BY CountedAreFinite
    <3>4. Cardinality(Active(u)') = Cardinality(Active(u)) + 1
      BY <3>1, <3>3, FS_AddElement
    <3>5. Cardinality(Inserting(u)') = Cardinality(Inserting(u)) - 1
      BY <3>2, <3>3, FS_RemoveElement
    <3>6. Cardinality(Active(u)) + Cardinality(Inserting(u))
            <= MaxActiveTokens + Cardinality(Procs) - 1
      BY DEF Reserved
    <3>. QED  BY <3>3, <3>4, <3>5, <3>6, ApiTokensAssumption
  <2>2. CASE u # caller[p]
    <3>1. Active(u)' = Active(u)
      BY <1>3, <2>2 DEF CreateAPIToken, Active, TypeOK
    <3>2. Inserting(u)' = Inserting(u)
      BY <1>3, <2>2 DEF CreateAPIToken, Inserting, TypeOK
    <3>. QED  BY <3>1, <3>2 DEF Reserved
  <2>. QED  BY <2>1, <2>2
<1>4. ASSUME NEW p \in Procs, NEW t \in Tokens, RevokeAPIToken(p, t) PROVE Reserved'
  BY <1>4, Fewer DEF RevokeAPIToken, Active, Inserting, TypeOK
<1>9. ASSUME NEW p \in Procs, NEW t \in Tokens, RenameAPIToken(p, t) PROVE Reserved'
  BY <1>9, Fewer DEF RenameAPIToken, Active, Inserting, TypeOK
<1>10. ASSUME NEW p \in Procs, CreateSystemLog(p) PROVE Reserved'
  BY <1>10, Fewer DEF CreateSystemLog, Active, Inserting, TypeOK
<1>5. ASSUME NEW p \in Procs, Fail(p) PROVE Reserved'
  BY <1>5, Fewer DEF Fail, Active, Inserting, TypeOK
<1>6. ASSUME NEW t \in Tokens, Expire(t) PROVE Reserved'
  BY <1>6, Fewer DEF Expire, Active, Inserting
<1>7. ASSUME NEW u \in Users, DeleteUserData(u) PROVE Reserved'
  BY <1>7, Fewer DEF DeleteUserData, Active, Inserting
<1>8. CASE UNCHANGED vars
  BY <1>8, Fewer DEF vars, Active, Inserting
<1>. QED  BY <1>1, <1>2, <1>3, <1>4, <1>5, <1>6, <1>7, <1>8, <1>9, <1>10 DEF Next, Request

LEMMA ReservedInit == Init => Reserved
<1>. SUFFICES ASSUME Init, NEW u \in Users
              PROVE  Cardinality(Active(u)) + Cardinality(Inserting(u))
                       <= MaxActiveTokens + Cardinality(Procs) - 1
  BY DEF Reserved
<1>1. Active(u) = {} /\ Inserting(u) = {}
  BY DEF Init, Active, Inserting
<1>2. Cardinality(Procs) \in Nat
  BY FS_CardinalityType, ApiTokensAssumption
<1>. QED  BY <1>1, <1>2, FS_EmptySet, ApiTokensAssumption

(* The limit is exceeded by no more than the creates that ran together.    *)
THEOREM LimitIsExceededOnlyByRaces == Spec => []LimitWithinRaces
<1>1. Spec => [](TypeOK /\ Reserved)
  BY TypeInit, TypeStep, ReservedInit, ReservedStep, PTL DEF Spec
<1>2. TypeOK /\ Reserved => LimitWithinRaces
  <2>. SUFFICES ASSUME TypeOK, Reserved, NEW u \in Users
                PROVE  Cardinality(Active(u)) <= MaxActiveTokens + Cardinality(Procs) - 1
    BY DEF LimitWithinRaces
  <2>1. Cardinality(Active(u)) + Cardinality(Inserting(u))
          <= MaxActiveTokens + Cardinality(Procs) - 1
    BY DEF Reserved
  <2>. QED  BY <2>1, CountedAreFinite, ApiTokensAssumption
<1>. QED  BY <1>1, <1>2, PTL

-----------------------------------------------------------------------------
(* A request that has yet to log is the only one for its token, and an id  *)
(* that had no row was found by nobody.                                    *)
LogInv ==
  /\ RevokedOnce
  /\ \A t \in Tokens \ used : found[t] = 0
  /\ \A p \in Procs : pc[p] = "log" =>
       /\ found[target[p]] = 1 /\ logged[target[p]] = 0
       /\ \A q \in Procs \ {p} : pc[q] = "log" => target[q] # target[p]

(* Of all requests that revoke a token at most one finds it, and it is     *)
(* logged no more than once.                                               *)
THEOREM OneRequestRevokes == Spec => []RevokedOnce
<1>1. Init => LogInv
  BY DEF Init, LogInv, RevokedOnce
<1>2. TypeOK /\ LogInv /\ [Next]_vars => LogInv'
  <2>. SUFFICES ASSUME TypeOK, LogInv, [Next]_vars PROVE LogInv'
    OBVIOUS
  <2>. USE DEF LogInv, RevokedOnce, TypeOK, rowVars, logVars
  <2>1. ASSUME NEW p \in Procs, NEW t \in Tokens, RevokeAPIToken(p, t) PROVE LogInv'
    <3>1. CASE t \in tokens \ revoked /\ owner[t] = caller[p]
      <4>1. found[t] = 0 /\ logged[t] = 0
        BY <3>1
      <4>2. /\ found' = [found EXCEPT ![t] = 1] /\ logged' = logged
            /\ target' = [target EXCEPT ![p] = t] /\ pc' = [pc EXCEPT ![p] = "log"]
            /\ revoked' = revoked \cup {t} /\ tokens' = tokens /\ used' = used
        BY <2>1, <3>1, <4>1 DEF RevokeAPIToken
      <4>. QED BY <3>1, <4>1, <4>2
    <3>2. CASE ~(t \in tokens \ revoked /\ owner[t] = caller[p])
      BY <2>1, <3>2 DEF RevokeAPIToken
    <3>. QED BY <3>1, <3>2
  <2>2. ASSUME NEW p \in Procs, CreateAPIToken(p) PROVE LogInv'
    BY <2>2 DEF CreateAPIToken
  <2>3. ASSUME NEW u \in Users, DeleteUserData(u) PROVE LogInv'
    BY <2>3 DEF DeleteUserData
  <2>4. ASSUME NEW p \in Procs, CreateSystemLog(p) PROVE LogInv'
    <3>1. pc[p] = "log" /\ target[p] \in Tokens /\ logged[target[p]] = 0
      BY <2>4 DEF CreateSystemLog
    <3>2. /\ logged' = [logged EXCEPT ![target[p]] = 1] /\ found' = found
          /\ target' = [target EXCEPT ![p] = None] /\ pc' = [pc EXCEPT ![p] = "idle"]
          /\ revoked' = revoked /\ tokens' = tokens /\ used' = used
      BY <2>4, <3>1 DEF CreateSystemLog
    <3>. QED BY <3>1, <3>2
  <2>5. ASSUME NEW p \in Procs, Fail(p) PROVE LogInv'
    BY <2>5 DEF Fail
  <2>6. ASSUME NEW p \in Procs, NEW u \in Users, NEW next \in {"count", "rename", "revoke"},
               PostUser(p, u, next)
        PROVE  LogInv'
    BY <2>6 DEF PostUser
  <2>7. ASSUME NEW p \in Procs, CountActive(p) \/ \E t \in Tokens : RenameAPIToken(p, t)
        PROVE  LogInv'
    BY <2>7 DEF CountActive, RenameAPIToken
  <2>8. CASE UNCHANGED <<tokens, revoked, used, pc, logVars>>
    BY <2>8
  <2>. HIDE DEF LogInv, RevokedOnce, TypeOK
  <2>. QED
    BY <2>1, <2>2, <2>3, <2>4, <2>5, <2>6, <2>7, <2>8 DEF Next, Request, Expire, vars
<1>3. LogInv => RevokedOnce
  BY DEF LogInv
<1>. QED  BY <1>1, <1>2, <1>3, TypeInit, TypeStep, PTL DEF Spec

-----------------------------------------------------------------------------
(* A step that ends an active token of u.                                  *)
LEMMA EndStep ==
  ASSUME TypeOK, [Next]_vars, NEW u \in Users, NEW t \in Active(u), t \notin Active(u)'
  PROVE  \/ t \in expired'
         \/ u \notin users'
         \/ \E p \in Procs : caller[p] = u /\ RevokeAPIToken(p, t)
<1>. USE DEF TypeOK, Active
<1>1. ASSUME NEW p \in Procs, NEW s \in Tokens, RevokeAPIToken(p, s)
      PROVE  caller[p] = u /\ RevokeAPIToken(p, t)
  <2>1. s = t /\ owner[t] = caller[p]
    BY <1>1 DEF RevokeAPIToken
  <2>. QED BY <1>1, <2>1
<1>2. ASSUME NEW p \in Procs, CreateAPIToken(p) PROVE FALSE
  BY <1>2 DEF CreateAPIToken
<1>3. ASSUME NEW s \in Tokens, Expire(s) PROVE t \in expired'
  BY <1>3 DEF Expire
<1>4. ASSUME NEW v \in Users, DeleteUserData(v) PROVE u \notin users'
  BY <1>4 DEF DeleteUserData
<1>5. CASE UNCHANGED <<tokens, owner, revoked, expired>>
  BY <1>5
<1>. HIDE DEF TypeOK, Active
<1>. QED
  BY <1>1, <1>2, <1>3, <1>4, <1>5
  DEF Next, Request, PostUser, CountActive, RenameAPIToken, CreateSystemLog, Fail, rowVars, vars

(* An active token ends by its owner's request, its age or its owner's     *)
(* deletion.                                                               *)
THEOREM OwnersEndTheirTokens == Spec => OnlyTheOwnerEnds
<1>1. TypeOK /\ [Next]_vars =>
        [\A u \in Users : \A t \in Active(u) \ Active(u)' :
           \/ t \in expired'
           \/ u \notin users'
           \/ \E p \in Procs : caller[p] = u /\ RevokeAPIToken(p, t)]_vars
  BY EndStep
<1>. QED BY <1>1, TypeInit, TypeStep, PTL DEF Spec, OnlyTheOwnerEnds
=============================================================================
