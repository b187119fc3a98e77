----------------------------- MODULE OAuthProofs -----------------------------
(***************************************************************************)
(* Proofs about OAuth, for any sets of codes, tokens, users, clients and   *)
(* concurrent requests.                                                    *)
(*                                                                         *)
(* None of the invariants is inductive alone.  LineInv ties a request to   *)
(* the rows it has read: what it presents exists (SourceCode, SourceToken, *)
(* SourceSpent), what it holds has been spent and has no successor yet     *)
(* (Spent), no two requests hold the same line (OneHolder), and every      *)
(* refresh token goes back to a used code through spent parents (Descent). *)
(* BumpInv adds to it what BumpSessions leaves behind, LateInv what the    *)
(* revocation of an approval leaves, FormInv what authorize let through.   *)
(* GrantsImplemented is the refinement of Grants: a step that spends a     *)
(* code redeems its grant, one that ends lines ends their grants, and the  *)
(* rest, rotation included, leave every grant as it was.                   *)
(***************************************************************************)
EXTENDS OAuth, TLAPS

SourceCode ==
  \A p \in Procs : pc[p] \in {"claimCode", "checkCode"} =>
    src[p] \in Codes /\ codeSt[src[p]] # "none" /\ usr[p] = codeUser[src[p]]

SourceToken ==
  \A p \in Procs : pc[p] \in {"readUser", "claimToken"} =>
    /\ src[p] \in Tokens /\ Issued(src[p])
    /\ usr[p] = tokUser[src[p]] /\ cli[p] = tokClient[src[p]]

SourceSpent ==
  \A p \in Procs : pc[p] = "create" =>
    usr[p] = codeUser[Root(src[p])] /\ cli[p] = codeClient[Root(src[p])]

Spent ==
  \A p \in Procs : Holds(p) =>
    /\ codeSt[Root(src[p])] \in {"used", "gone"}
    /\ src[p] \in Tokens => tokSt[src[p]] \in {"revoked", "gone"}
    /\ \A t \in Tokens : Issued(t) => parent[t] # src[p]

OneHolder ==
  \A p, q \in Procs : Holds(p) /\ Holds(q) /\ Root(src[p]) = Root(src[q]) => p = q

Descent ==
  \A t \in Tokens : Issued(t) =>
    /\ codeSt[root[t]] \in {"used", "gone"}
    /\ parent[t] \in Codes => root[t] = parent[t]
    /\ parent[t] \in Tokens => tokSt[parent[t]] \in {"revoked", "gone"}

LineInv ==
  /\ TypeOK
  /\ SourceCode /\ SourceToken /\ SourceSpent
  /\ Spent /\ OneHolder /\ Descent
  /\ BoundToAuthorization /\ ExchangedOnce /\ OneLiveTokenPerLine

-----------------------------------------------------------------------------
(* Every variable keeps its type.                                          *)
LEMMA TypeStep == TypeOK /\ [Next]_vars => TypeOK'
<1>. SUFFICES ASSUME TypeOK, [Next]_vars PROVE TypeOK'
  OBVIOUS
<1>. USE OAuthAssumption
     DEF TypeOK, Expiry, Steps, Goto, Give, Root, Holds, rowVars, codeVars, codeArgs,
         tokVars, argVars, procVars, histVars
<1>1. ASSUME NEW p \in Procs, Request(p) PROVE TypeOK'
  <2>1. ASSUME NEW u \in Users, NEW k \in Clients, NEW f \in Forms,
        Authorize(p, u, k, f)
        PROVE TypeOK'
    BY <2>1 DEF Authorize
  <2>2. ASSUME NEW c \in Codes, CreateAuthCode(p, c) PROVE TypeOK'
    BY <2>2 DEF CreateAuthCode
  <2>3. ASSUME NEW c \in Codes, NEW k \in Clients, NEW f \in Forms,
        ReadAuthCode(p, c, k, f)
        PROVE TypeOK'
    BY <2>3 DEF ReadAuthCode
  <2>4. CASE ClaimAuthCode(p)
    BY <2>4 DEF ClaimAuthCode, ClaimableCode
  <2>5. CASE CheckAuthCode(p)
    BY <2>5 DEF CheckAuthCode
  <2>6. ASSUME NEW t \in Tokens, NEW k \in Clients, ReadRefreshToken(p, t, k)
      PROVE TypeOK'
    BY <2>6 DEF ReadRefreshToken
  <2>7. CASE ReadUser(p)
    BY <2>7 DEF ReadUser
  <2>8. CASE ClaimRefreshToken(p)
    BY <2>8 DEF ClaimRefreshToken, ClaimableToken
  <2>9. ASSUME NEW t \in Tokens, CreateRefreshToken(p, t) PROVE TypeOK'
    BY <2>9 DEF CreateRefreshToken
  <2>10. CASE Fail(p)
    BY <2>10 DEF Fail
  <2>. QED
    BY <1>1, <2>1, <2>2, <2>3, <2>4, <2>5, <2>6, <2>7, <2>8, <2>9, <2>10 DEF Request
<1>2. ASSUME NEW t \in Tokens, RevokeRefreshToken(t) PROVE TypeOK'
  BY <1>2 DEF RevokeRefreshToken
<1>3. ASSUME NEW t \in Tokens, AgeToken(t) PROVE TypeOK'
  BY <1>3 DEF AgeToken, Later
<1>4. ASSUME NEW u \in Users, BumpSessions(u) PROVE TypeOK'
  BY <1>4 DEF BumpSessions
<1>5. ASSUME NEW u \in Users, NEW a \in BOOLEAN, SetUserApproved(u, a) PROVE TypeOK'
  BY <1>5 DEF SetUserApproved
<1>6. ASSUME NEW u \in Users, DeleteUserData(u) PROVE TypeOK'
  BY <1>6 DEF DeleteUserData
<1>7. ASSUME NEW c \in Codes, AgeCode(c) PROVE TypeOK'
  BY <1>7 DEF AgeCode, Later
<1>8. CASE UNCHANGED vars
  BY <1>8 DEF vars
<1>. QED  BY <1>1, <1>2, <1>3, <1>4, <1>5, <1>6, <1>7, <1>8 DEF Next, Account

(* The rows and requests of oauth.go keep their types.                     *)
THEOREM TypeCorrect == Spec => []TypeOK
<1>1. Init => TypeOK
  BY DEF Init, TypeOK, Expiry, Steps
<1>. QED  BY <1>1, TypeStep, PTL DEF Spec

-----------------------------------------------------------------------------
(* A step of a request preserves the invariant.                            *)
LEMMA RequestStep ==
  ASSUME LineInv, TypeOK', NEW p \in Procs, Request(p)
  PROVE  LineInv'
<1>. USE OAuthAssumption
     DEF LineInv, Issued, Live, Holds, Root, Goto, Give, rowVars, codeVars, codeArgs,
         tokVars, argVars,
         procVars, histVars, TypeOK
<1>1. ASSUME NEW u \in Users, NEW k \in Clients, NEW f \in Forms,
        Authorize(p, u, k, f)
        PROVE LineInv'
  BY <1>1
  DEF Authorize, SourceCode, SourceToken, SourceSpent, Spent, OneHolder, Descent,
      BoundToAuthorization, ExchangedOnce, OneLiveTokenPerLine
<1>2. ASSUME NEW c \in Codes, CreateAuthCode(p, c) PROVE LineInv'
  <2>1. SourceCode' /\ SourceToken'
    BY <1>2 DEF CreateAuthCode, SourceCode, SourceToken
  <2>2. SourceSpent' /\ Spent' /\ OneHolder'
    BY <1>2 DEF CreateAuthCode, SourceSpent, Spent, OneHolder
  <2>3. Descent' /\ BoundToAuthorization'
    BY <1>2 DEF CreateAuthCode, Descent, BoundToAuthorization
  <2>4. ExchangedOnce' /\ OneLiveTokenPerLine'
    BY <1>2 DEF CreateAuthCode, ExchangedOnce, OneLiveTokenPerLine
  <2>. QED  BY <2>1, <2>2, <2>3, <2>4
<1>3. ASSUME NEW c \in Codes, NEW k \in Clients, NEW f \in Forms, ReadAuthCode(p, c, k, f)
      PROVE LineInv'
  BY <1>3
  DEF ReadAuthCode, SourceCode, SourceToken, SourceSpent, Spent, OneHolder, Descent,
      BoundToAuthorization, ExchangedOnce, OneLiveTokenPerLine
<1>4. CASE ClaimAuthCode(p)
  <2>1. SourceCode'
    BY <1>4 DEF ClaimAuthCode, ClaimableCode, SourceCode, Descent, Spent
  <2>2. Spent'
    BY <1>4 DEF ClaimAuthCode, ClaimableCode, Spent, Descent, SourceToken, SourceCode, OneHolder
  <2>3. OneHolder'
    BY <1>4
    DEF ClaimAuthCode, ClaimableCode, OneHolder, Spent, SourceCode, SourceToken,
        OneLiveTokenPerLine
  <2>4. OneLiveTokenPerLine'
    BY <1>4
    DEF ClaimAuthCode, ClaimableCode, OneLiveTokenPerLine, OneHolder, Spent, Descent,
        SourceToken, SourceCode
  <2>5. SourceToken' /\ SourceSpent' /\ Descent' /\ BoundToAuthorization' /\
        ExchangedOnce'
    BY <1>4
    DEF ClaimAuthCode, ClaimableCode, SourceCode, SourceToken, SourceSpent, Spent, Descent,
        BoundToAuthorization, ExchangedOnce
  <2>. QED  BY <2>1, <2>2, <2>3, <2>4, <2>5
<1>5. CASE CheckAuthCode(p)
  <2>1. /\ UNCHANGED <<rowVars, argVars, parent, root>>
        /\ pc[p] = "checkCode"
        /\ \/ Goto(p, "idle")
           \/ /\ Goto(p, "create")
              /\ codeClient[src[p]] = cli[p]
    BY <1>5 DEF CheckAuthCode, Acceptable
  <2>2. SourceCode' /\ SourceToken' /\ SourceSpent'
    BY <2>1 DEF SourceCode, SourceToken, SourceSpent
  <2>3. Spent' /\ OneHolder'
    BY <2>1 DEF Spent, OneHolder
  <2>4. Descent' /\ BoundToAuthorization' /\ ExchangedOnce'
    BY <2>1 DEF Descent, BoundToAuthorization, ExchangedOnce
  <2>5. OneLiveTokenPerLine'
    BY <2>1 DEF OneLiveTokenPerLine
  <2>. QED  BY <2>2, <2>3, <2>4, <2>5
<1>6. ASSUME NEW t \in Tokens, NEW k \in Clients, ReadRefreshToken(p, t, k)
      PROVE LineInv'
  BY <1>6
  DEF ReadRefreshToken, SourceCode, SourceToken, SourceSpent, Spent, OneHolder,
      Descent, BoundToAuthorization, ExchangedOnce, OneLiveTokenPerLine
<1>7. CASE ReadUser(p)
  BY <1>7
  DEF ReadUser, SourceCode, SourceToken, SourceSpent, Spent, OneHolder, Descent,
      BoundToAuthorization, ExchangedOnce, OneLiveTokenPerLine
<1>8. CASE ClaimRefreshToken(p)
  <2>1. Spent'
    BY <1>8 DEF ClaimRefreshToken, ClaimableToken, Spent, Descent, SourceToken, SourceCode, OneHolder
  <2>2. OneHolder'
    BY <1>8
    DEF ClaimRefreshToken, ClaimableToken, OneHolder, Spent, SourceCode, SourceToken,
        OneLiveTokenPerLine
  <2>3. OneLiveTokenPerLine'
    BY <1>8
    DEF ClaimRefreshToken, ClaimableToken, OneLiveTokenPerLine, OneHolder, Spent, Descent,
        SourceToken, SourceCode
  <2>4. SourceCode' /\ SourceToken' /\ SourceSpent' /\ Descent' /\
        BoundToAuthorization' /\ ExchangedOnce'
    BY <1>8
    DEF ClaimRefreshToken, ClaimableToken, SourceCode, SourceToken, SourceSpent, Spent, Descent,
        BoundToAuthorization, ExchangedOnce
  <2>. QED  BY <2>1, <2>2, <2>3, <2>4
<1>9. ASSUME NEW t \in Tokens, CreateRefreshToken(p, t) PROVE LineInv'
  <2>1. Spent'
    BY <1>9 DEF CreateRefreshToken, Spent, Descent, SourceToken, SourceCode, OneHolder
  <2>2. OneHolder'
    BY <1>9
    DEF CreateRefreshToken, OneHolder, Spent, SourceCode, SourceToken,
        OneLiveTokenPerLine
  <2>3. BoundToAuthorization'
    BY <1>9 DEF CreateRefreshToken, BoundToAuthorization, SourceSpent, Descent
  <2>4. ExchangedOnce'
    BY <1>9 DEF CreateRefreshToken, ExchangedOnce, Spent
  <2>5. OneLiveTokenPerLine'
    BY <1>9
    DEF CreateRefreshToken, OneLiveTokenPerLine, OneHolder, Spent, Descent,
        SourceToken, SourceCode
  <2>6. SourceCode' /\ SourceToken'
    BY <1>9 DEF CreateRefreshToken, SourceCode, SourceToken
  <2>7. SourceSpent'
    BY <1>9 DEF CreateRefreshToken, SourceSpent, Spent
  <2>8. Descent'
    BY <1>9 DEF CreateRefreshToken, Descent, Spent
  <2>. QED  BY <2>1, <2>2, <2>3, <2>4, <2>5, <2>6, <2>7, <2>8
<1>10. CASE Fail(p)
  BY <1>10
  DEF Fail, SourceCode, SourceToken, SourceSpent, Spent, OneHolder, Descent,
      BoundToAuthorization, ExchangedOnce, OneLiveTokenPerLine
<1>. QED  BY <1>1, <1>2, <1>3, <1>4, <1>5, <1>6, <1>7, <1>8, <1>9, <1>10 DEF Request

(* So does every other step.                                               *)
LEMMA OtherStep ==
  ASSUME LineInv, TypeOK', [Next]_vars, \A p \in Procs : ~Request(p)
  PROVE  LineInv'
<1>. USE OAuthAssumption
     DEF LineInv, Issued, Live, Holds, Root, Goto, Give, rowVars, codeVars, codeArgs,
         tokVars, argVars,
         procVars, histVars, TypeOK
<1>1. ASSUME NEW t \in Tokens, RevokeRefreshToken(t) PROVE LineInv'
  BY <1>1
  DEF RevokeRefreshToken, SourceCode, SourceToken, SourceSpent, Spent, OneHolder,
      Descent, BoundToAuthorization, ExchangedOnce, OneLiveTokenPerLine
<1>2. ASSUME NEW t \in Tokens, AgeToken(t) PROVE LineInv'
  BY <1>2
  DEF AgeToken, SourceCode, SourceToken, SourceSpent, Spent, OneHolder, Descent,
      BoundToAuthorization, ExchangedOnce, OneLiveTokenPerLine
<1>3. ASSUME NEW u \in Users, BumpSessions(u) PROVE LineInv'
  BY <1>3
  DEF BumpSessions, SourceCode, SourceToken, SourceSpent, Spent, OneHolder, Descent,
      BoundToAuthorization, ExchangedOnce, OneLiveTokenPerLine
<1>4. ASSUME NEW u \in Users, NEW a \in BOOLEAN, SetUserApproved(u, a) PROVE LineInv'
  BY <1>4
  DEF SetUserApproved, SourceCode, SourceToken, SourceSpent, Spent, OneHolder,
      Descent, BoundToAuthorization, ExchangedOnce, OneLiveTokenPerLine
<1>5. ASSUME NEW u \in Users, DeleteUserData(u) PROVE LineInv'
  BY <1>5
  DEF DeleteUserData, SourceCode, SourceToken, SourceSpent, Spent, OneHolder,
      Descent, BoundToAuthorization, ExchangedOnce, OneLiveTokenPerLine
<1>6. ASSUME NEW c \in Codes, AgeCode(c) PROVE LineInv'
  BY <1>6
  DEF AgeCode, SourceCode, SourceToken, SourceSpent, Spent, OneHolder, Descent,
      BoundToAuthorization, ExchangedOnce, OneLiveTokenPerLine
<1>7. CASE UNCHANGED vars
  BY <1>7
  DEF vars, SourceCode, SourceToken, SourceSpent, Spent, OneHolder, Descent,
      BoundToAuthorization, ExchangedOnce, OneLiveTokenPerLine
<1>. QED  BY <1>1, <1>2, <1>3, <1>4, <1>5, <1>6, <1>7 DEF Next, Account

(* The inductive invariant holds of every reachable state.                 *)
LEMMA LineInvariant == Spec => []LineInv
<1>1. Init => LineInv
  <2>1. Init => TypeOK
    BY DEF Init, TypeOK, Expiry, Steps
  <2>. QED
    BY <2>1
    DEF Init, LineInv, SourceCode, SourceToken, SourceSpent, Spent, OneHolder,
        Descent, BoundToAuthorization,
        ExchangedOnce, OneLiveTokenPerLine, Issued, Live, Holds
<1>2. LineInv /\ [Next]_vars => LineInv'
  BY TypeStep, RequestStep, OtherStep DEF LineInv
<1>. QED  BY <1>1, <1>2, PTL DEF Spec

-----------------------------------------------------------------------------
(* A code or refresh token is exchanged at most once, for any number of    *)
(* concurrent requests (store.go:149-169, 414-418).                        *)
THEOREM ExchangedAtMostOnce == Spec => []ExchangedOnce
BY LineInvariant, PTL DEF LineInv

(* An authorization has at most one live refresh token, and none while a   *)
(* request is about to create it (oauth.go:182-313).                       *)
THEOREM OneLiveToken == Spec => []OneLiveTokenPerLine
BY LineInvariant, PTL DEF LineInv

(* A refresh token keeps the user and client of its authorization          *)
(* (oauth.go:182-313).                                                     *)
THEOREM Bound == Spec => []BoundToAuthorization
BY LineInvariant, PTL DEF LineInv

(* A step of a request ends a line by losing it, or hands it on.           *)
LEMMA RequestHandsOn ==
  ASSUME LineInv, LineInv', NoLineVanishes, NEW p \in Procs, Request(p)
  PROVE  NoLineVanishes'
<1>. USE OAuthAssumption
     DEF LineInv, NoLineVanishes, Live, Issued, Holds, Root, Goto, Give, rowVars,
         codeVars, codeArgs, tokVars, argVars, procVars, histVars, TypeOK
<1>1. ASSUME NEW c \in Codes, CreateAuthCode(p, c) PROVE NoLineVanishes'
  BY <1>1 DEF CreateAuthCode
<1>2. CASE ClaimAuthCode(p)
  BY <1>2 DEF ClaimAuthCode, ClaimableCode, SourceCode
<1>3. CASE CheckAuthCode(p)
  BY <1>3 DEF CheckAuthCode
<1>4. CASE ClaimRefreshToken(p)
  BY <1>4 DEF ClaimRefreshToken, ClaimableToken, SourceToken
<1>5. ASSUME NEW t \in Tokens, CreateRefreshToken(p, t) PROVE NoLineVanishes'
  <2>1. /\ codeSt' = codeSt /\ lost' = lost
        /\ Live(t)' /\ root'[t] = Root(src[p])
    BY <1>5 DEF CreateRefreshToken
  <2>2. \A x \in Tokens : Live(x) => Live(x)' /\ root'[x] = root[x]
    BY <1>5 DEF CreateRefreshToken
  <2>3. \A q \in Procs : q # p /\ Holds(q) => Holds(q)' /\ Root(src[q])' = Root(src[q])
    BY <1>5 DEF CreateRefreshToken, Spent
  <2>4. SUFFICES ASSUME NEW c \in Codes, codeSt[c] = "used", c \notin lost
                 PROVE  \/ \E x \in Tokens : Live(x)' /\ root'[x] = c
                        \/ \E q \in Procs : Holds(q)' /\ Root(src[q])' = c
    BY <2>1
  <2>5. CASE c = Root(src[p])
    BY <2>1, <2>5
  <2>6. CASE \E x \in Tokens : Live(x) /\ root[x] = c
    BY <2>2, <2>6
  <2>7. CASE \E q \in Procs : q # p /\ Holds(q) /\ Root(src[q]) = c
    BY <2>3, <2>7
  <2>. QED  BY <2>4, <2>5, <2>6, <2>7
<1>6. CASE Fail(p)
  BY <1>6 DEF Fail
<1>7. ASSUME NEW u \in Users, NEW k \in Clients, NEW f \in Forms,
             Authorize(p, u, k, f)
      PROVE  NoLineVanishes'
  BY <1>7 DEF Authorize
<1>8. ASSUME NEW c \in Codes, NEW k \in Clients, NEW f \in Forms,
             ReadAuthCode(p, c, k, f)
      PROVE  NoLineVanishes'
  BY <1>8 DEF ReadAuthCode
<1>9. ASSUME NEW t \in Tokens, NEW k \in Clients, ReadRefreshToken(p, t, k)
      PROVE  NoLineVanishes'
  BY <1>9 DEF ReadRefreshToken
<1>10. CASE ReadUser(p)
  BY <1>10 DEF ReadUser
<1>. HIDE DEF NoLineVanishes
<1>. HIDE DEF LineInv, NoLineVanishes, TypeOK, Goto, Give, Holds, Root, Live, Issued,
          rowVars, codeVars, codeArgs, tokVars, argVars, procVars, histVars
<1>. QED
  BY <1>1, <1>2, <1>3, <1>4, <1>5, <1>6, <1>7, <1>8, <1>9, <1>10 DEF Request

(* So does every other step.                                               *)
LEMMA OthersHandOn ==
  ASSUME LineInv, LineInv', NoLineVanishes, [Next]_vars, \A p \in Procs : ~Request(p)
  PROVE  NoLineVanishes'
<1>. USE OAuthAssumption
     DEF LineInv, NoLineVanishes, Live, Issued, Holds, Root, rowVars, codeVars, codeArgs,
         tokVars, argVars, procVars, histVars, TypeOK
<1>1. ASSUME NEW t \in Tokens, RevokeRefreshToken(t) PROVE NoLineVanishes'
  BY <1>1 DEF RevokeRefreshToken
<1>2. ASSUME NEW u \in Users, BumpSessions(u) PROVE NoLineVanishes'
  BY <1>2 DEF BumpSessions
<1>3. ASSUME NEW u \in Users, DeleteUserData(u) PROVE NoLineVanishes'
  BY <1>3 DEF DeleteUserData, BoundToAuthorization, Descent
<1>4. ASSUME NEW u \in Users, NEW a \in BOOLEAN, SetUserApproved(u, a)
      PROVE  NoLineVanishes'
  BY <1>4 DEF SetUserApproved
<1>5. ASSUME NEW t \in Tokens, AgeToken(t) PROVE NoLineVanishes'
  BY <1>5 DEF AgeToken
<1>6. ASSUME NEW c \in Codes, AgeCode(c) PROVE NoLineVanishes'
  BY <1>6 DEF AgeCode
<1>7. CASE UNCHANGED vars
  BY <1>7 DEF vars
<1>. HIDE DEF LineInv, NoLineVanishes, TypeOK, Holds, Root, Live, Issued,
          rowVars, codeVars, codeArgs, tokVars, argVars, procVars, histVars
<1>. QED
  BY <1>1, <1>2, <1>3, <1>4, <1>5, <1>6, <1>7 DEF Next, Account

(* A used code leads to a live token or to a request about to create one   *)
(* unless its line was ended or lost (oauth.go:182-313).                   *)
THEOREM NoLineLost == Spec => []NoLineVanishes
<1>1. Init => NoLineVanishes
  BY DEF Init, NoLineVanishes
<1>2. LineInv /\ LineInv' /\ NoLineVanishes /\ [Next]_vars => NoLineVanishes'
  BY RequestHandsOn, OthersHandOn
<1>. QED  BY <1>1, <1>2, LineInvariant, PTL DEF Spec

-----------------------------------------------------------------------------
(* What BumpSessions leaves: a line begun before it is live, held or still *)
(* unexchanged only if it was open at that moment.                         *)
BumpInv ==
  /\ BumpEndsTheRest
  /\ \A p \in Procs : Holds(p) /\ Root(src[p]) \in before => Root(src[p]) \in open
  /\ \A c \in before : codeSt[c] # "none" /\ (codeSt[c] = "live" => c \in open)

(* Password change and logout-all end every refresh token but those whose  *)
(* authorization was not exchanged, or being exchanged, at that moment     *)
(* (store.go:213-221, account.go:92-100, 110-120).                         *)
THEOREM BumpEndsLines == Spec => []BumpEndsTheRest
<1>1. Init => BumpInv
  BY DEF Init, BumpInv, BumpEndsTheRest, Live, Holds
<1>2. LineInv /\ LineInv' /\ BumpInv /\ [Next]_vars => BumpInv'
  <2>. SUFFICES ASSUME LineInv, LineInv', BumpInv, [Next]_vars PROVE BumpInv'
    OBVIOUS
  <2>. USE OAuthAssumption
       DEF LineInv, BumpInv, BumpEndsTheRest, Live, Issued, Holds, Root, Goto, Give, rowVars,
           codeVars, codeArgs, tokVars, argVars, procVars, histVars, TypeOK
  <2>1. ASSUME NEW p \in Procs, Request(p) PROVE BumpInv'
    <3>1. ASSUME NEW c \in Codes, CreateAuthCode(p, c) PROVE BumpInv'
      BY <3>1 DEF CreateAuthCode, Descent, Spent
    <3>2. CASE ClaimAuthCode(p)
      BY <3>2 DEF ClaimAuthCode, ClaimableCode, SourceCode
    <3>3. CASE CheckAuthCode(p)
      BY <3>3 DEF CheckAuthCode
    <3>4. CASE ClaimRefreshToken(p)
      BY <3>4 DEF ClaimRefreshToken, ClaimableToken, SourceToken
    <3>5. ASSUME NEW t \in Tokens, CreateRefreshToken(p, t) PROVE BumpInv'
      <4>1. \A q \in Procs : Holds(q)' => Holds(q) /\ Root(src[q])' = Root(src[q])
        BY <3>5 DEF CreateRefreshToken, Spent
      <4>. QED  BY <3>5, <4>1 DEF CreateRefreshToken
    <3>6. CASE Fail(p)
      BY <3>6 DEF Fail
    <3>7. ASSUME NEW u \in Users, NEW k \in Clients, NEW f \in Forms,
        Authorize(p, u, k, f)
        PROVE BumpInv'
      BY <3>7 DEF Authorize
    <3>8. ASSUME NEW c \in Codes, NEW k \in Clients, NEW f \in Forms,
                 ReadAuthCode(p, c, k, f)
          PROVE  BumpInv'
      BY <3>8 DEF ReadAuthCode
    <3>9. ASSUME NEW t \in Tokens, NEW k \in Clients, ReadRefreshToken(p, t, k) PROVE BumpInv'
      BY <3>9 DEF ReadRefreshToken
    <3>10. CASE ReadUser(p)
      BY <3>10 DEF ReadUser
    <3>. QED
      BY <2>1, <3>1, <3>2, <3>3, <3>4, <3>5, <3>6, <3>7, <3>8, <3>9, <3>10 DEF Request
  <2>2. ASSUME NEW t \in Tokens, RevokeRefreshToken(t) PROVE BumpInv'
    BY <2>2 DEF RevokeRefreshToken
  <2>3. ASSUME NEW u \in Users, BumpSessions(u) PROVE BumpInv'
    BY <2>3 DEF BumpSessions, BoundToAuthorization
  <2>4. ASSUME NEW u \in Users, DeleteUserData(u) PROVE BumpInv'
    BY <2>4 DEF DeleteUserData
  <2>5. ASSUME NEW u \in Users, NEW a \in BOOLEAN, SetUserApproved(u, a) PROVE BumpInv'
    BY <2>5 DEF SetUserApproved
  <2>6. ASSUME NEW t \in Tokens, AgeToken(t) PROVE BumpInv'
    BY <2>6 DEF AgeToken
  <2>7. ASSUME NEW c \in Codes, AgeCode(c) PROVE BumpInv'
    BY <2>7 DEF AgeCode
  <2>8. CASE UNCHANGED vars
    BY <2>8 DEF vars
  <2>. QED
    BY <2>1, <2>2, <2>3, <2>4, <2>5, <2>6, <2>7, <2>8 DEF Next, Account
<1>3. BumpInv => BumpEndsTheRest
  BY DEF BumpInv
<1>. QED  BY <1>1, <1>2, <1>3, LineInvariant, PTL DEF Spec

-----------------------------------------------------------------------------
(* No step makes a spent code or token usable again (store.go:133-218,     *)
(* 414-418).                                                               *)
THEOREM NothingUnspent == Spec => SpentStaysSpent
<1>. DEFINE Kept ==
       /\ \A t \in Tokens : tokSt[t] \in {"revoked", "gone"} => tokSt'[t] \in {"revoked", "gone"}
       /\ \A c \in Codes : codeSt[c] \in {"used", "gone"} => codeSt'[c] \in {"used", "gone"}
<1>1. TypeOK /\ [Next]_vars => [Kept]_vars
  <2>. SUFFICES ASSUME TypeOK, Next PROVE Kept
    OBVIOUS
  <2>. QED
    BY DEF Next, Request, Account, Authorize, CreateAuthCode, ReadAuthCode, ClaimAuthCode,
           CheckAuthCode, ReadRefreshToken, ReadUser, ClaimRefreshToken, CreateRefreshToken,
           Fail, RevokeRefreshToken, AgeToken, BumpSessions, SetUserApproved, DeleteUserData,
           AgeCode, rowVars, codeVars, codeArgs, tokVars, TypeOK
<1>. QED  BY <1>1, TypeCorrect, PTL DEF Spec, SpentStaysSpent
-----------------------------------------------------------------------------
(* What a token created after the revocation of an approval leaves: its    *)
(* user stays unapproved, no other token of its line is live and no        *)
(* request is about to make one of it.                                     *)
LateInv ==
  /\ RevokedUserGetsOneMore
  /\ \A t \in late : Issued(t) /\ user[tokUser[t]] # "approved"
  /\ \A t \in late, x \in Tokens : x # t /\ root[x] = root[t] => ~Live(x)
  /\ \A t \in late, p \in Procs : Holds(p) => Root(src[p]) # root[t]
  /\ \A t \in late, p \in Procs : pc[p] = "claimToken" => src[p] # t

(* A step of a request preserves it.                                       *)
LEMMA LateRequest ==
  ASSUME LineInv, LineInv', LateInv, NEW p \in Procs, Request(p)
  PROVE  LateInv'
<1>. USE OAuthAssumption
     DEF LineInv, LateInv, RevokedUserGetsOneMore, Live, Issued, Holds, Root, Goto, Give,
         rowVars, codeVars, codeArgs, tokVars, argVars, procVars, histVars, TypeOK
<1>1. ASSUME NEW u \in Users, NEW k \in Clients, NEW f \in Forms, Authorize(p, u, k, f)
      PROVE  LateInv'
  BY <1>1 DEF Authorize
<1>2. ASSUME NEW c \in Codes, CreateAuthCode(p, c) PROVE LateInv'
  BY <1>2 DEF CreateAuthCode
<1>3. ASSUME NEW c \in Codes, NEW k \in Clients, NEW f \in Forms, ReadAuthCode(p, c, k, f)
      PROVE  LateInv'
  BY <1>3 DEF ReadAuthCode
<1>4. CASE ClaimAuthCode(p)
  BY <1>4 DEF ClaimAuthCode, ClaimableCode, SourceCode, Descent
<1>5. CASE CheckAuthCode(p)
  BY <1>5 DEF CheckAuthCode
<1>6. ASSUME NEW t \in Tokens, NEW k \in Clients, ReadRefreshToken(p, t, k) PROVE LateInv'
  BY <1>6 DEF ReadRefreshToken
<1>7. CASE ReadUser(p)
  BY <1>7 DEF ReadUser, SourceToken
<1>8. CASE ClaimRefreshToken(p)
  BY <1>8 DEF ClaimRefreshToken, ClaimableToken, SourceToken
<1>9. ASSUME NEW t \in Tokens, CreateRefreshToken(p, t) PROVE LateInv'
  <2>1. /\ t \notin late /\ Root(src[p]) \in Codes
        /\ \A x \in late : root[x] # Root(src[p])
    BY <1>9 DEF CreateRefreshToken
  <2>2. /\ root' = [root EXCEPT ![t] = Root(src[p])]
        /\ late' \in {late, late \cup {t}}
        /\ t \in late' => user[usr[p]] = "pending"
        /\ tokUser' = [tokUser EXCEPT ![t] = usr[p]]
        /\ tokSt' = [tokSt EXCEPT ![t] = "live"]
        /\ user' = user /\ src' = src
        /\ pc' = [pc EXCEPT ![p] = "idle"] /\ Holds(p)
    BY <1>9, <2>1 DEF CreateRefreshToken
  <2>3. \A x \in Tokens : root[x] = Root(src[p]) => ~Live(x)
    BY <2>2 DEF OneLiveTokenPerLine
  <2>4. \A q \in Procs : q # p /\ Holds(q) => Root(src[q]) # Root(src[p]) /\ src[q] # t
    BY <1>9, <2>2 DEF OneHolder, Spent, CreateRefreshToken
  <2>5. \A q \in Procs : pc[q] = "claimToken" => src[q] # t
    BY <1>9 DEF CreateRefreshToken, SourceToken
  <2>6. RevokedUserGetsOneMore'
    BY <2>1, <2>2
  <2>7. (\A x \in late : Issued(x) /\ user[tokUser[x]] # "approved")'
    BY <2>1, <2>2
  <2>8. (\A x \in late, y \in Tokens : y # x /\ root[y] = root[x] => ~Live(y))'
    BY <2>1, <2>2, <2>3
  <2>9. (\A x \in late, q \in Procs : Holds(q) => Root(src[q]) # root[x])'
    BY <2>1, <2>2, <2>4
  <2>10. (\A x \in late, q \in Procs : pc[q] = "claimToken" => src[q] # x)'
    BY <2>1, <2>2, <2>5
  <2>. QED  BY <2>6, <2>7, <2>8, <2>9, <2>10
<1>10. CASE Fail(p)
  BY <1>10 DEF Fail
<1>. HIDE DEF LineInv, LateInv, RevokedUserGetsOneMore, TypeOK, Goto, Give, Holds, Root, Live,
          Issued, rowVars, codeVars, codeArgs, tokVars, argVars, procVars, histVars
<1>. QED
  BY <1>1, <1>2, <1>3, <1>4, <1>5, <1>6, <1>7, <1>8, <1>9, <1>10 DEF Request

(* So does every other step.                                               *)
LEMMA LateOther ==
  ASSUME LineInv, LineInv', LateInv, [Next]_vars, \A p \in Procs : ~Request(p)
  PROVE  LateInv'
<1>. USE OAuthAssumption
     DEF LineInv, LateInv, RevokedUserGetsOneMore, Live, Issued, Holds, Root,
         rowVars, codeVars, codeArgs, tokVars, argVars, procVars, histVars, TypeOK
<1>1. ASSUME NEW t \in Tokens, RevokeRefreshToken(t) PROVE LateInv'
  BY <1>1 DEF RevokeRefreshToken
<1>2. ASSUME NEW u \in Users, BumpSessions(u) PROVE LateInv'
  BY <1>2 DEF BumpSessions
<1>3. ASSUME NEW u \in Users, DeleteUserData(u) PROVE LateInv'
  BY <1>3 DEF DeleteUserData
<1>4. ASSUME NEW u \in Users, NEW a \in BOOLEAN, SetUserApproved(u, a) PROVE LateInv'
  BY <1>4 DEF SetUserApproved
<1>5. ASSUME NEW t \in Tokens, AgeToken(t) PROVE LateInv'
  BY <1>5 DEF AgeToken
<1>6. ASSUME NEW c \in Codes, AgeCode(c) PROVE LateInv'
  BY <1>6 DEF AgeCode
<1>7. CASE UNCHANGED vars
  BY <1>7 DEF vars
<1>. HIDE DEF LineInv, LateInv, RevokedUserGetsOneMore, TypeOK, Holds, Root, Live, Issued,
          rowVars, codeVars, codeArgs, tokVars, argVars, procVars, histVars
<1>. QED
  BY <1>1, <1>2, <1>3, <1>4, <1>5, <1>6, <1>7 DEF Next, Account

(* After an approval is revoked an authorization yields one more refresh   *)
(* token at most (oauth.go:224-238, 285-306; README.md:70).                *)
THEOREM OneMoreAfterRevocation == Spec => []RevokedUserGetsOneMore
<1>1. Init => LateInv
  BY DEF Init, LateInv, RevokedUserGetsOneMore
<1>2. LineInv /\ LineInv' /\ LateInv /\ [Next]_vars => LateInv'
  BY LateRequest, LateOther
<1>3. LateInv => RevokedUserGetsOneMore
  BY DEF LateInv
<1>. QED  BY <1>1, <1>2, <1>3, LineInvariant, PTL DEF Spec

-----------------------------------------------------------------------------
(* Only forms that authorize accepted lead to codes.                       *)
Accepted(k, f) == validPublicAuthorization(k, Registered[k], f)

FormInv ==
  /\ \A p \in Procs : pc[p] = "createCode" => Accepted(cli[p], form[p])
  /\ \A c \in Codes : codeSt[c] # "none" => Accepted(codeClient[c], codeForm[c])

(* What was accepted can be shown to token by who made its challenge.      *)
LEMMA AcceptedIsProvable ==
  ASSUME NEW k, NEW f, Accepted(k, f), f.pkce # Orphan
  PROVE  \E x \in {<<>>} \cup {<<v>> : v \in Verifiers} :
           Proves(k, f, [redirect |-> f.redirect, pkce |-> x])
<1>1. loopbackURIMatches(f.redirect, f.redirect)
  BY DEF loopbackURIMatches
<1>2. CASE f.pkce \in Challenges
  <2>1. PICK v \in Verifiers : f.pkce = S256(v)
    BY <1>2 DEF Challenges
  <2>2. verifyPKCE(f.pkce, <<v>>)
    BY <2>1 DEF verifyPKCE
  <2>3. Proves(k, f, [redirect |-> f.redirect, pkce |-> <<v>>])
    BY <1>1, <2>2 DEF Proves
  <2>. QED  BY <2>3
<1>3. CASE f.pkce \notin Challenges
  <2>1. k \notin Public /\ f.pkce = <<>>
    BY <1>3 DEF Accepted, validPublicAuthorization
  <2>2. Proves(k, f, [redirect |-> f.redirect, pkce |-> <<>>])
    BY <1>1, <2>1 DEF Proves
  <2>. QED  BY <2>2
<1>. QED  BY <1>2, <1>3

(* A code is redeemable by whoever made its challenge (oauth.go:109-123,   *)
(* 219-222, 337-366, 528-548), for any clients, forms and verifiers.       *)
THEOREM EveryCodeRedeemable == Spec => []CodesAreRedeemable
<1>1. Init => FormInv
  BY DEF Init, FormInv
<1>2. TypeOK /\ FormInv /\ [Next]_vars => FormInv'
  <2>. SUFFICES ASSUME TypeOK, FormInv, [Next]_vars PROVE FormInv'
    OBVIOUS
  <2>. USE DEF FormInv, Goto, Give, rowVars, codeVars, codeArgs, argVars, procVars, histVars, TypeOK
  <2>1. ASSUME NEW p \in Procs, Request(p) PROVE FormInv'
    <3>1. ASSUME NEW u \in Users, NEW k \in Clients, NEW f \in Forms, Authorize(p, u, k, f)
          PROVE  FormInv'
      BY <3>1 DEF Authorize, Accepted
    <3>2. ASSUME NEW c \in Codes, CreateAuthCode(p, c) PROVE FormInv'
      BY <3>2 DEF CreateAuthCode
    <3>3. ASSUME NEW c \in Codes, NEW k \in Clients, NEW f \in Forms, ReadAuthCode(p, c, k, f)
          PROVE  FormInv'
      BY <3>3 DEF ReadAuthCode
    <3>4. ASSUME NEW t \in Tokens, NEW k \in Clients, ReadRefreshToken(p, t, k) PROVE FormInv'
      BY <3>4 DEF ReadRefreshToken
    <3>5. CASE ClaimAuthCode(p)
      BY <3>5 DEF ClaimAuthCode, ClaimableCode
    <3>6. CASE CheckAuthCode(p)
      BY <3>6 DEF CheckAuthCode
    <3>7. CASE ReadUser(p)
      BY <3>7 DEF ReadUser
    <3>8. CASE ClaimRefreshToken(p)
      BY <3>8 DEF ClaimRefreshToken
    <3>9. ASSUME NEW t \in Tokens, CreateRefreshToken(p, t) PROVE FormInv'
      BY <3>9 DEF CreateRefreshToken
    <3>10. CASE Fail(p)
      BY <3>10 DEF Fail
    <3>. QED
      BY <2>1, <3>1, <3>2, <3>3, <3>4, <3>5, <3>6, <3>7, <3>8, <3>9, <3>10 DEF Request
  <2>2. ASSUME NEW t \in Tokens, RevokeRefreshToken(t) \/ AgeToken(t) PROVE FormInv'
    BY <2>2 DEF RevokeRefreshToken, AgeToken
  <2>3. ASSUME NEW u \in Users, BumpSessions(u) PROVE FormInv'
    BY <2>3 DEF BumpSessions
  <2>4. ASSUME NEW u \in Users, DeleteUserData(u) PROVE FormInv'
    BY <2>4 DEF DeleteUserData
  <2>5. ASSUME NEW u \in Users, NEW a \in BOOLEAN, SetUserApproved(u, a) PROVE FormInv'
    BY <2>5 DEF SetUserApproved
  <2>6. ASSUME NEW c \in Codes, AgeCode(c) PROVE FormInv'
    BY <2>6 DEF AgeCode
  <2>7. CASE UNCHANGED vars
    BY <2>7 DEF vars
  <2>. QED  BY <2>1, <2>2, <2>3, <2>4, <2>5, <2>6, <2>7 DEF Next, Account
<1>3. FormInv => CodesAreRedeemable
  BY AcceptedIsProvable DEF FormInv, CodesAreRedeemable
<1>. QED  BY <1>1, <1>2, <1>3, TypeCorrect, PTL DEF Spec

-----------------------------------------------------------------------------
(* Whether an authorization is held: by a live token or by a request.      *)
HeldBy(c) ==
  \/ \E t \in Tokens : Live(t) /\ root[t] = c
  \/ \E p \in Procs : Holds(p) /\ Root(src[p]) = c

(* The grants that an action ends are given or held ones, and it leaves    *)
(* the others as they are.                                                 *)
Ends(cs) ==
  \A c \in Codes :
    /\ c \in cs => GrantOf(c) \in {"given", "held"} /\ GrantOf(c)' = "over"
    /\ c \notin cs => GrantOf(c)' = GrantOf(c)

(* A step of the authorizations, or none.                                  *)
Simulated == [G!Next]_[c \in Codes |-> GrantOf(c)]

LEMMA GrantKept ==
  ASSUME NEW c \in Codes, codeSt'[c] = codeSt[c], HeldBy(c)' <=> HeldBy(c)
  PROVE  GrantOf(c)' = GrantOf(c)
BY DEF GrantOf, HeldBy

LEMMA EndsSimulates ==
  ASSUME NEW cs \in SUBSET Codes, Ends(cs)
  PROVE  Simulated
<1>1. G!End(cs)
  BY DEF Ends, G!End
<1>. QED  BY <1>1 DEF Simulated, G!Next

LEMMA StutterSimulates ==
  ASSUME codeSt' = codeSt, \A c \in Codes : HeldBy(c)' <=> HeldBy(c)
  PROVE  Simulated
<1>1. \A c \in Codes : GrantOf(c)' = GrantOf(c)
  BY GrantKept
<1>. QED  BY <1>1 DEF Simulated

LEMMA MoveIsMove ==
  ASSUME NEW c \in Codes, NEW from, NEW to, GrantOf(c) = from, GrantOf(c)' = to,
         \A x \in Codes : x # c => GrantOf(x)' = GrantOf(x)
  PROVE  G!Move(c, from, to)
BY DEF G!Move

(* A request that is given up ends the line it held, if any.               *)
LEMMA GiveSimulates ==
  ASSUME LineInv, NEW p \in Procs, Give(p), UNCHANGED <<rowVars, argVars, root>>
  PROVE  Simulated
<1>. DEFINE cs == IF Holds(p) THEN {Root(src[p])} ELSE {}
<1>1. /\ UNCHANGED <<codeSt, tokSt, src, root>> /\ pc' = [pc EXCEPT ![p] = "idle"]
      /\ codeSt \in [Codes -> {"none", "live", "used", "gone"}] /\ pc \in [Procs -> Steps]
      /\ Root(src[p]) \in Codes
  BY DEF Give, Goto, rowVars, codeVars, tokVars, argVars, LineInv, TypeOK, Root
<1>2. \A q \in Procs : q # p => Holds(q)' = Holds(q) /\ Root(src[q])' = Root(src[q])
  BY <1>1 DEF Holds, Root
<1>3. ~Holds(p)'
  BY <1>1 DEF Holds
<1>4. \A t \in Tokens : Live(t)' = Live(t) /\ root'[t] = root[t]
  BY <1>1 DEF Live
<1>5. ASSUME NEW c \in Codes, c \notin cs PROVE GrantOf(c)' = GrantOf(c)
  BY <1>1, <1>2, <1>3, <1>4, <1>5, GrantKept DEF HeldBy
<1>6. ASSUME NEW c \in Codes, c \in cs
      PROVE  GrantOf(c) = "held" /\ GrantOf(c)' = "over"
  <2>1. Holds(p) /\ c = Root(src[p]) /\ codeSt[c] \in {"used", "gone"}
    BY <1>6 DEF LineInv, Spent
  <2>2. ~HeldBy(c)'
    BY <1>2, <1>3, <1>4, <2>1 DEF HeldBy, LineInv, OneHolder, OneLiveTokenPerLine
  <2>. QED  BY <1>1, <2>1, <2>2 DEF GrantOf, HeldBy
<1>7. cs \in SUBSET Codes
  BY <1>1
<1>8. Ends(cs)
  BY <1>5, <1>6 DEF Ends
<1>. HIDE DEF cs
<1>. QED  BY <1>7, <1>8, EndsSimulates

LEMMA RequestSimulates ==
  ASSUME LineInv, LineInv', NEW p \in Procs, Request(p)
  PROVE  Simulated
<1>. USE OAuthAssumption
     DEF LineInv, Live, Issued, Goto, rowVars, codeVars, codeArgs, tokVars, argVars, procVars,
         histVars, TypeOK
<1>1. ASSUME NEW u \in Users, NEW k \in Clients, NEW f \in Forms, Authorize(p, u, k, f)
      PROVE  Simulated
  <2>. QED  BY <1>1, StutterSimulates DEF Authorize, HeldBy, Holds, Root
<1>2. ASSUME NEW c \in Codes, CreateAuthCode(p, c) PROVE Simulated
  <2>1. /\ codeSt[c] = "none" /\ codeSt' = [codeSt EXCEPT ![c] = "live"]
        /\ \A x \in Codes : HeldBy(x)' <=> HeldBy(x)
    BY <1>2 DEF CreateAuthCode, HeldBy, Holds, Root
  <2>2. GrantOf(c) = "none" /\ GrantOf(c)' = "given"
    BY <2>1 DEF GrantOf
  <2>3. \A x \in Codes : x # c => GrantOf(x)' = GrantOf(x)
    BY <2>1, GrantKept
  <2>4. G!Give(c)
    BY <2>2, <2>3, MoveIsMove DEF G!Give
  <2>. QED  BY <2>4 DEF Simulated, G!Next
<1>3. ASSUME NEW c \in Codes, NEW k \in Clients, NEW f \in Forms, ReadAuthCode(p, c, k, f)
      PROVE  Simulated
  BY <1>3, StutterSimulates DEF ReadAuthCode, HeldBy, Holds, Root
<1>4. CASE ClaimAuthCode(p)
  <2>1. CASE ~ClaimableCode(src[p])
    BY <1>4, <2>1, StutterSimulates DEF ClaimAuthCode, HeldBy, Holds, Root
  <2>2. CASE ClaimableCode(src[p])
    <3>1. /\ src[p] \in Codes /\ codeSt[src[p]] = "live"
          /\ codeSt' = [codeSt EXCEPT ![src[p]] = "used"]
          /\ pc' = [pc EXCEPT ![p] = "checkCode"] /\ src' = src /\ root' = root /\ tokSt' = tokSt
          /\ ~Holds(p)
      BY <1>4, <2>2 DEF ClaimAuthCode, ClaimableCode, SourceCode, Holds
    <3>2. Holds(p)' /\ Root(src[p])' = src[p] /\ Root(src[p]) = src[p]
      BY <3>1 DEF Holds, Root
    <3>3. \A q \in Procs : q # p => Holds(q)' = Holds(q) /\ Root(src[q])' = Root(src[q])
      BY <3>1 DEF Holds, Root
    <3>4. PICK c \in Codes : c = src[p]
      BY <3>1
    <3>5. GrantOf(c) = "given" /\ GrantOf(c)' = "held"
      BY <3>1, <3>2, <3>4 DEF GrantOf
    <3>6. ASSUME NEW x \in Codes, x # c PROVE GrantOf(x)' = GrantOf(x)
      <4>1. HeldBy(x)' <=> HeldBy(x)
        BY <3>1, <3>2, <3>3, <3>4, <3>6 DEF HeldBy
      <4>2. codeSt'[x] = codeSt[x]
        BY <3>1, <3>4, <3>6
      <4>. QED  BY <4>1, <4>2, GrantKept
    <3>7. G!Redeem(c)
      BY <3>5, <3>6, MoveIsMove DEF G!Redeem
    <3>. QED  BY <3>7 DEF Simulated, G!Next
  <2>. QED  BY <2>1, <2>2
<1>5. CASE CheckAuthCode(p)
  <2>1. CASE Give(p)
    BY <1>5, <2>1, GiveSimulates DEF CheckAuthCode
  <2>2. CASE Goto(p, "create")
    BY <1>5, <2>2, StutterSimulates DEF CheckAuthCode, HeldBy, Holds, Root
  <2>. QED  BY <1>5, <2>1, <2>2 DEF CheckAuthCode
<1>6. ASSUME NEW t \in Tokens, NEW k \in Clients, ReadRefreshToken(p, t, k) PROVE Simulated
  BY <1>6, StutterSimulates DEF ReadRefreshToken, HeldBy, Holds, Root
<1>7. CASE ReadUser(p)
  BY <1>7, StutterSimulates DEF ReadUser, HeldBy, Holds, Root
<1>8. CASE ClaimRefreshToken(p)
  <2>1. CASE ~ClaimableToken(src[p])
    BY <1>8, <2>1, StutterSimulates DEF ClaimRefreshToken, HeldBy, Holds, Root
  <2>2. CASE ClaimableToken(src[p])
    <3>1. /\ src[p] \in Tokens /\ Live(src[p])
          /\ tokSt' = [tokSt EXCEPT ![src[p]] = "revoked"]
          /\ pc' = [pc EXCEPT ![p] = "create"] /\ src' = src /\ root' = root /\ codeSt' = codeSt
          /\ ~Holds(p)
      BY <1>8, <2>2 DEF ClaimRefreshToken, ClaimableToken, SourceToken, Holds
    <3>2. Holds(p)' /\ Root(src[p])' = root[src[p]]
      BY <3>1 DEF Holds, Root
    <3>3. \A q \in Procs : q # p => Holds(q)' = Holds(q) /\ Root(src[q])' = Root(src[q])
      BY <3>1 DEF Holds, Root
    <3>4. \A x \in Codes : HeldBy(x)' <=> HeldBy(x)
      BY <3>1, <3>2, <3>3 DEF HeldBy
    <3>. QED  BY <3>1, <3>4, StutterSimulates
  <2>. QED  BY <2>1, <2>2
<1>9. ASSUME NEW t \in Tokens, CreateRefreshToken(p, t) PROVE Simulated
  <2>1. /\ Holds(p) /\ tokSt[t] = "none" /\ tokSt' = [tokSt EXCEPT ![t] = "live"]
        /\ root' = [root EXCEPT ![t] = Root(src[p])]
        /\ pc' = [pc EXCEPT ![p] = "idle"] /\ src' = src /\ codeSt' = codeSt
    BY <1>9 DEF CreateRefreshToken, Holds
  <2>2. ~Holds(p)' /\ Live(t)' /\ root'[t] = Root(src[p])
    BY <2>1 DEF Holds
  <2>3. \A q \in Procs : q # p => Holds(q)' = Holds(q)
    BY <2>1 DEF Holds
  <2>4. \A q \in Procs : q # p /\ Holds(q) => Root(src[q])' = Root(src[q])
    BY <1>9, <2>1 DEF Root, Spent, CreateRefreshToken
  <2>5. \A x \in Codes : HeldBy(x)' <=> HeldBy(x)
    BY <2>1, <2>2, <2>3, <2>4 DEF HeldBy
  <2>. QED  BY <2>1, <2>5, StutterSimulates
<1>10. CASE Fail(p)
  BY <1>10, GiveSimulates DEF Fail
<1>. HIDE DEF LineInv, TypeOK, Goto, Live, Issued, rowVars, codeVars, codeArgs, tokVars,
          argVars, procVars, histVars
<1>. QED
  BY <1>1, <1>2, <1>3, <1>4, <1>5, <1>6, <1>7, <1>8, <1>9, <1>10 DEF Request

LEMMA OtherSimulates ==
  ASSUME LineInv, LineInv', [Next]_vars, \A p \in Procs : ~Request(p)
  PROVE  Simulated
<1>. USE OAuthAssumption
     DEF LineInv, Live, Issued, rowVars, codeVars, codeArgs, tokVars, argVars, procVars,
         histVars, TypeOK
<1>1. ASSUME NEW t \in Tokens, RevokeRefreshToken(t) PROVE Simulated
  <2>1. CASE tokSt[t] = "revoked"
    BY <1>1, <2>1, StutterSimulates DEF RevokeRefreshToken, HeldBy, Holds, Root
  <2>2. CASE Live(t)
    <3>1. /\ tokSt' = [tokSt EXCEPT ![t] = "revoked"] /\ UNCHANGED <<codeSt, pc, src, root>>
          /\ codeSt[root[t]] \in {"used", "gone"} /\ root[t] \in Codes
      BY <1>1, <2>2 DEF RevokeRefreshToken, Descent
    <3>2. \A q \in Procs : Holds(q)' = Holds(q) /\ Root(src[q])' = Root(src[q])
      BY <3>1 DEF Holds, Root
    <3>3. PICK r \in Codes : r = root[t]
      BY <3>1
    <3>4. ASSUME NEW c \in Codes, c # r PROVE GrantOf(c)' = GrantOf(c)
      BY <3>1, <3>2, <3>3, <3>4, GrantKept DEF HeldBy
    <3>5. GrantOf(r) = "held"
      BY <2>2, <3>1, <3>3 DEF GrantOf
    <3>6. ~HeldBy(r)'
      BY <2>2, <3>1, <3>2, <3>3 DEF HeldBy, OneLiveTokenPerLine
    <3>7. GrantOf(r)' = "over"
      BY <3>1, <3>3, <3>6 DEF GrantOf, HeldBy
    <3>8. Ends({r})
      BY <3>4, <3>5, <3>7 DEF Ends
    <3>. QED  BY <3>8, EndsSimulates
  <2>. QED  BY <1>1, <2>1, <2>2 DEF RevokeRefreshToken
<1>2. ASSUME NEW u \in Users, BumpSessions(u) PROVE Simulated
  <2>. DEFINE hit == {t \in Tokens : Live(t) /\ tokUser[t] = u}
              cs == {root[t] : t \in hit}
  <2>1. /\ \A t \in Tokens : Live(t)' <=> Live(t) /\ t \notin hit
        /\ UNCHANGED <<codeSt, pc, src, root>>
    BY <1>2 DEF BumpSessions
  <2>2. \A q \in Procs : Holds(q)' = Holds(q) /\ Root(src[q])' = Root(src[q])
    BY <2>1 DEF Holds, Root
  <2>3. ASSUME NEW c \in Codes, c \notin cs PROVE GrantOf(c)' = GrantOf(c)
    BY <2>1, <2>2, <2>3, GrantKept DEF HeldBy
  <2>4. ASSUME NEW c \in cs PROVE GrantOf(c) = "held" /\ GrantOf(c)' = "over"
    <3>1. PICK t \in hit : c = root[t]
      OBVIOUS
    <3>2. codeSt[c] \in {"used", "gone"}
      BY <3>1 DEF Descent
    <3>3. ~HeldBy(c)'
      BY <2>1, <2>2, <3>1 DEF HeldBy, OneLiveTokenPerLine
    <3>. QED  BY <2>1, <3>1, <3>2, <3>3 DEF GrantOf, HeldBy
  <2>5. cs \in SUBSET Codes
    OBVIOUS
  <2>6. Ends(cs)
    BY <2>3, <2>4 DEF Ends
  <2>. HIDE DEF cs
  <2>. QED  BY <2>5, <2>6, EndsSimulates
<1>3. ASSUME NEW u \in Users, DeleteUserData(u) PROVE Simulated
  <2>. DEFINE mine == {c \in Codes : codeSt[c] # "none" /\ codeUser[c] = u}
              cs == {c \in mine : GrantOf(c) # "over" /\ ~HeldBy(c)'}
  <2>1. /\ codeSt' = [c \in Codes |-> IF c \in mine THEN "gone" ELSE codeSt[c]]
        /\ \A t \in Tokens : Live(t)' <=> Live(t) /\ tokUser[t] # u
        /\ UNCHANGED <<pc, src, root>>
    BY <1>3 DEF DeleteUserData
  <2>2. \A q \in Procs : Holds(q)' = Holds(q) /\ Root(src[q])' = Root(src[q])
    BY <2>1 DEF Holds, Root
  <2>3. \A c \in Codes : HeldBy(c) => codeSt[c] \in {"used", "gone"}
    BY DEF HeldBy, Spent, Descent
  <2>4. ASSUME NEW c \in Codes, c \notin mine PROVE GrantOf(c)' = GrantOf(c)
    <3>1. codeSt'[c] = codeSt[c]
      BY <2>1, <2>4
    <3>2. ASSUME NEW t \in Tokens, Live(t), root[t] = c PROVE tokUser[t] # u
      BY <2>3, <2>4, <3>2 DEF BoundToAuthorization, HeldBy
    <3>3. HeldBy(c)' <=> HeldBy(c)
      BY <2>1, <2>2, <3>2 DEF HeldBy
    <3>. QED  BY <3>1, <3>3, GrantKept
  <2>5. ASSUME NEW c \in mine PROVE GrantOf(c)' = IF HeldBy(c)' THEN "held" ELSE "over"
    BY <2>1 DEF GrantOf, HeldBy
  <2>6. \A c \in Codes : HeldBy(c)' => HeldBy(c)
    BY <2>1, <2>2 DEF HeldBy
  <2>7. ASSUME NEW c \in mine, HeldBy(c)' PROVE GrantOf(c) = "held"
    BY <2>3, <2>6, <2>7 DEF GrantOf, HeldBy
  <2>8. ASSUME NEW c \in mine PROVE GrantOf(c) \in {"given", "held", "over"}
    BY DEF GrantOf
  <2>9. Ends(cs)
    <3>1. ASSUME NEW c \in cs PROVE GrantOf(c) \in {"given", "held"} /\ GrantOf(c)' = "over"
      BY <2>5, <2>8
    <3>2. ASSUME NEW c \in Codes, c \notin cs PROVE GrantOf(c)' = GrantOf(c)
      BY <2>4, <2>5, <2>7, <3>2
    <3>. QED  BY <3>1, <3>2 DEF Ends
  <2>. QED  BY <2>9, EndsSimulates
<1>4. ASSUME NEW u \in Users, NEW a \in BOOLEAN, SetUserApproved(u, a) PROVE Simulated
  BY <1>4, StutterSimulates DEF SetUserApproved, HeldBy, Holds, Root
<1>5. ASSUME NEW t \in Tokens, AgeToken(t) PROVE Simulated
  BY <1>5, StutterSimulates DEF AgeToken, HeldBy, Holds, Root
<1>6. ASSUME NEW c \in Codes, AgeCode(c) PROVE Simulated
  BY <1>6, StutterSimulates DEF AgeCode, HeldBy, Holds, Root
<1>7. CASE UNCHANGED vars
  BY <1>7, StutterSimulates DEF vars, HeldBy, Holds, Root
<1>. HIDE DEF LineInv, TypeOK, Live, Issued, rowVars, codeVars, codeArgs, tokVars,
          argVars, procVars, histVars
<1>. QED
  BY <1>1, <1>2, <1>3, <1>4, <1>5, <1>6, <1>7 DEF Next, Account

(* The rows and requests of the OAuth endpoints implement authorizations   *)
(* that are given, redeemed and over once each, for any number of them and *)
(* of concurrent requests (oauth.go:182-335, store.go:133-231).            *)
THEOREM GrantsImplemented == Spec => ImplementsGrants
<1>1. Init => G!Init
  BY DEF Init, G!Init, GrantOf
<1>2. LineInv /\ LineInv' /\ [Next]_vars => Simulated
  BY RequestSimulates, OtherSimulates
<1>. QED
  BY <1>1, <1>2, LineInvariant, PTL DEF Spec, ImplementsGrants, G!Spec, Simulated

(* Where an authorization may be next.                                     *)
Onward(from) ==
  CASE from = "none" -> {"none", "given"}
    [] from = "given" -> {"given", "held", "over"}
    [] from = "held" -> {"held", "over"}
    [] OTHER -> {"over"}

GrantsMoveOn == [][\A c \in Codes : GrantOf(c)' \in Onward(GrantOf(c))]_vars

(* Whatever requests do at the same time, an authorization never goes      *)
(* back: it is redeemed only from its code, and one that was revoked, lost *)
(* or ended with its user is not held again through any refresh            *)
(* (oauth.go:182-335, store.go:133-231).                                   *)
THEOREM OverIsForGood == Spec => GrantsMoveOn
<1>1. ASSUME Simulated, NEW c \in Codes
      PROVE  GrantOf(c)' \in Onward(GrantOf(c))
  <2>1. GrantOf(c) \in {"none", "given", "held", "over"}
    BY DEF GrantOf
  <2>2. CASE [x \in Codes |-> GrantOf(x)]' = [x \in Codes |-> GrantOf(x)]
    <3>1. GrantOf(c)' = GrantOf(c)
      BY <2>2
    <3>. QED BY <2>1, <3>1 DEF Onward
  <2>3. ASSUME NEW d \in Codes, G!Give(d) \/ G!Redeem(d)
        PROVE  GrantOf(c)' \in Onward(GrantOf(c))
    <3>1. CASE c = d
      BY <2>3, <3>1 DEF G!Give, G!Redeem, G!Move, Onward
    <3>2. CASE c # d
      <4>1. GrantOf(c)' = GrantOf(c)
        BY <2>3, <3>2 DEF G!Give, G!Redeem, G!Move
      <4>. QED BY <2>1, <4>1 DEF Onward
    <3>. QED BY <3>1, <3>2
  <2>4. ASSUME NEW cs \in SUBSET Codes, G!End(cs)
        PROVE  GrantOf(c)' \in Onward(GrantOf(c))
    <3>1. c \in cs => GrantOf(c) \in {"given", "held"} /\ GrantOf(c)' = "over"
      BY <2>4 DEF G!End
    <3>2. c \notin cs => GrantOf(c)' = GrantOf(c)
      BY <2>4 DEF G!End
    <3>. QED BY <2>1, <3>1, <3>2 DEF Onward
  <2>. QED BY <1>1, <2>2, <2>3, <2>4 DEF Simulated, G!Next
<1>2. LineInv /\ LineInv' /\ [Next]_vars =>
        [\A c \in Codes : GrantOf(c)' \in Onward(GrantOf(c))]_vars
  BY <1>1, RequestSimulates, OtherSimulates
<1>. QED BY <1>2, LineInvariant, PTL DEF Spec, GrantsMoveOn
=============================================================================
