--------------------------- MODULE SessionsProofs ---------------------------
(***************************************************************************)
(* Proofs about Sessions for any number of browsers and administrators and *)
(* any bounds.                                                             *)
(*                                                                         *)
(* UpToDate is what a request may rely on until another write overtakes    *)
(* it: the row is as it read it, and no later time than its own was        *)
(* written.                                                                *)
(***************************************************************************)
EXTENDS Sessions, TLAPS

UpToDate ==
  /\ \A b \in Browsers \ outdated :
       doing[b] \in {"set", "bump", "logout all"} => validAfter <= stamp[b]
  /\ \A e \in Editors \ outdated :
       doing[e] = "put" => sawPw[e] = password /\ sawVa[e] = validAfter

(* The steps there are, one disjunct each.                                 *)
LEMMA NextSteps ==
  ASSUME [SessionsNext]_sessVars
  PROVE  \/ \E b \in Browsers :
              \/ CheckPassword(b) \/ Issue(b) \/ Logout(b) \/ SignedInPost(b, "hash") \/ TakeTime(b)
              \/ SetPassword(b) \/ BumpSessions(b) \/ Reissue(b) \/ LogoutAll(b)
         \/ \E e \in Editors : EditRead(e) \/ SaveUser(e)
         \/ \E a \in Actors : Abort(a)
         \/ Tick \/ UNCHANGED sessVars
BY DEF SessionsNext, AccountPost

-----------------------------------------------------------------------------
(* How the times and the passwords are ordered.                            *)
LEMMA Ordered ==
  ASSUME SessionsTypeOK
  PROVE  /\ now \in Nat /\ now <= MaxTime /\ validAfter \in Nat /\ validAfter <= now
         /\ newest \in Nat /\ newest <= MaxPasswords /\ password \in Nat /\ password <= newest
         /\ \A b \in Browsers : stamp[b] \in Nat /\ stamp[b] <= now
<1>1. /\ now \in 0..MaxTime /\ validAfter \in 0..now
      /\ newest \in 0..MaxPasswords /\ password \in 0..newest
  BY DEF SessionsTypeOK, Times, Passwords
<1>2. \A b \in Browsers : stamp[b] \in 0..now
  BY DEF SessionsTypeOK
<1>. QED  BY ONLY <1>1, <1>2, SessionsAssumption

(* What was in range stays in range when the range grows.                  *)
LEMMA Widen ==
  ASSUME NEW S, NEW m \in Nat, NEW n \in Nat, m <= n, NEW f \in [S -> 0..m]
  PROVE  f \in [S -> 0..n]
<1>1. \A k \in 0..m : k \in 0..n
  OBVIOUS
<1>. QED  BY ONLY <1>1, f \in [S -> 0..m]

(* Every variable keeps its type; no time in the row, in a cookie or in a  *)
(* request is later than the clock.                                        *)
LEMMA TypeStep == SessionsTypeOK /\ [SessionsNext]_sessVars => SessionsTypeOK'
<1>. SUFFICES ASSUME SessionsTypeOK, [SessionsNext]_sessVars PROVE SessionsTypeOK'
  OBVIOUS
<1>. USE DEF Actors, Goto, Outdate, cookieVars
<1>1. ASSUME NEW b \in Browsers, CheckPassword(b) PROVE SessionsTypeOK'
  <2>1. password \in 0..newest
    BY DEF SessionsTypeOK
  <2>. QED  BY <1>1, <2>1 DEF CheckPassword, SessionsTypeOK
<1>2. ASSUME NEW b \in Browsers, Issue(b) \/ Reissue(b) PROVE SessionsTypeOK'
  <2>1. now \in 0..now /\ sawPw[b] \in 0..newest
    <3>1. now \in 0..now
      BY Ordered
    <3>2. sawPw[b] \in 0..newest
      BY DEF SessionsTypeOK
    <3>. QED  BY <3>1, <3>2
  <2>2. /\ SetSessionCookie(b) /\ doing' = [doing EXCEPT ![b] = "idle"]
        /\ UNCHANGED <<now, password, validAfter, newest, stamp, sawPw, sawVa, outdated>>
    BY <1>2 DEF Issue, Reissue
  <2>3. /\ signedIn' \subseteq Browsers /\ iat' \in [Browsers -> 0..now]
        /\ given' \in [Browsers -> 0..newest]
    BY <2>1, <2>2 DEF SetSessionCookie, SessionsTypeOK
  <2>4. doing' \in [Actors -> {"idle", "issue", "hash", "set", "bump", "reissue", "logout all",
                             "put"}]
    BY <2>2 DEF SessionsTypeOK
  <2>. QED  BY <2>2, <2>3, <2>4 DEF SessionsTypeOK
<1>3. ASSUME NEW b \in Browsers, Logout(b) PROVE SessionsTypeOK'
  BY <1>3 DEF Logout, SessionsTypeOK
<1>4. ASSUME NEW b \in Browsers, SignedInPost(b, "hash") PROVE SessionsTypeOK'
  BY <1>4 DEF SignedInPost, SessionsTypeOK
<1>5. ASSUME NEW b \in Browsers, TakeTime(b) PROVE SessionsTypeOK'
  <2>1. now \in 0..now
    BY Ordered
  <2>. QED  BY <1>5, <2>1 DEF TakeTime, SessionsTypeOK
<1>6. ASSUME NEW b \in Browsers, SetPassword(b) PROVE SessionsTypeOK'
  <2>1. newest < MaxPasswords /\ newest' = newest + 1 /\ password' = newest + 1
    BY <1>6 DEF SetPassword
  <2>2. newest' \in Passwords /\ password' \in 0..newest'
    BY <2>1, Ordered, SessionsAssumption DEF Passwords
  <2>3. given \in [Browsers -> 0..newest'] /\ sawPw \in [Actors -> 0..newest']
    <3>1. newest \in Nat /\ newest' \in Nat /\ newest <= newest'
      BY <2>1, Ordered
    <3>2. given \in [Browsers -> 0..newest] /\ sawPw \in [Actors -> 0..newest]
      BY DEF SessionsTypeOK
    <3>. QED  BY ONLY <3>1, <3>2, Widen
  <2>4. sawPw' \in [Actors -> 0..newest']
    BY <1>6, <2>1, <2>2, <2>3 DEF SetPassword
  <2>5. validAfter' \in 0..now
    BY <1>6 DEF SetPassword, SessionsTypeOK
  <2>. QED  BY <1>6, <2>2, <2>3, <2>4, <2>5 DEF SetPassword, SessionsTypeOK
<1>7. ASSUME NEW b \in Browsers, BumpSessions(b) \/ LogoutAll(b) PROVE SessionsTypeOK'
  <2>1. /\ validAfter' = stamp[b]
        /\ \E next \in {"reissue", "idle"} : doing' = [doing EXCEPT ![b] = next]
        /\ Outdate(b)
        /\ signedIn' \subseteq signedIn
        /\ UNCHANGED <<now, password, newest, iat, given, stamp, sawPw, sawVa>>
    BY <1>7 DEF BumpSessions, LogoutAll
  <2>2. validAfter' \in 0..now
    BY <2>1 DEF SessionsTypeOK
  <2>3. doing' \in [Actors -> {"idle", "issue", "hash", "set", "bump", "reissue", "logout all",
                             "put"}]
    BY <2>1 DEF SessionsTypeOK
  <2>4. outdated' \subseteq Actors /\ signedIn' \subseteq Browsers
    BY <2>1 DEF SessionsTypeOK
  <2>. QED  BY <2>1, <2>2, <2>3, <2>4 DEF SessionsTypeOK
<1>8. ASSUME NEW e \in Editors, EditRead(e) PROVE SessionsTypeOK'
  BY <1>8 DEF EditRead, SessionsTypeOK
<1>9. ASSUME NEW e \in Editors, SaveUser(e) PROVE SessionsTypeOK'
  <2>1. \/ password' = sawPw[e] /\ newest' = newest
        \/ newest < MaxPasswords /\ newest' = newest + 1 /\ password' = newest + 1
    BY <1>9 DEF SaveUser
  <2>2. sawPw[e] \in 0..newest /\ newest \in Passwords
    BY DEF SessionsTypeOK
  <2>3. newest' \in Passwords /\ password' \in 0..newest' /\ newest <= newest'
    BY <2>1, <2>2, Ordered, SessionsAssumption DEF Passwords
  <2>4. given \in [Browsers -> 0..newest'] /\ sawPw \in [Actors -> 0..newest']
    <3>1. newest \in Nat /\ newest' \in Nat /\ newest <= newest'
      BY <2>1, <2>3, Ordered
    <3>2. given \in [Browsers -> 0..newest] /\ sawPw \in [Actors -> 0..newest]
      BY DEF SessionsTypeOK
    <3>. QED  BY ONLY <3>1, <3>2, Widen
  <2>5. validAfter' \in 0..now
    BY <1>9 DEF SaveUser, SessionsTypeOK
  <2>. QED  BY <1>9, <2>3, <2>4, <2>5 DEF SaveUser, SessionsTypeOK
<1>10. ASSUME NEW a \in Actors, Abort(a) PROVE SessionsTypeOK'
  BY <1>10 DEF Abort, SessionsTypeOK
<1>11. CASE Tick
  <2>1. now < MaxTime /\ now' = now + 1
    BY <1>11 DEF Tick
  <2>2. now \in Nat /\ now' \in Nat /\ now <= now' /\ now' \in Times
    BY <2>1, Ordered, SessionsAssumption DEF Times
  <2>3. validAfter \in 0..now'
    BY <2>2, Ordered
  <2>4. /\ iat \in [Browsers -> 0..now] /\ stamp \in [Browsers -> 0..now]
        /\ sawVa \in [Editors -> 0..now]
    BY DEF SessionsTypeOK
  <2>5. /\ iat \in [Browsers -> 0..now'] /\ stamp \in [Browsers -> 0..now']
        /\ sawVa \in [Editors -> 0..now']
    BY ONLY <2>2, <2>4, Widen
  <2>. QED  BY <1>11, <2>2, <2>3, <2>5 DEF Tick, SessionsTypeOK
<1>12. CASE UNCHANGED sessVars
  BY <1>12 DEF sessVars, SessionsTypeOK
<1>. HIDE DEF Actors, Goto, Outdate, cookieVars
<1>. QED
  BY NextSteps, <1>1, <1>2, <1>3, <1>4, <1>5, <1>6, <1>7, <1>8, <1>9, <1>10, <1>11, <1>12

LEMMA TypeInit == SessionsInit => SessionsTypeOK
BY SessionsAssumption DEF SessionsInit, SessionsTypeOK, Actors, Times, Passwords

(* Type correctness.                                                       *)
THEOREM TypeCorrect == SessionsSpec => []SessionsTypeOK
BY TypeInit, TypeStep, PTL DEF SessionsSpec

(* Whatever was written in between, a browser is signed in with the cookie *)
(* it is given.                                                            *)
THEOREM NewCookiesWork == SessionsSpec => NewCookieIsAccepted
<1>. DEFINE Works == \A b \in Browsers : Issue(b) \/ Reissue(b) => Accepted(b)'
<1>1. SessionsTypeOK /\ [SessionsNext]_sessVars => [Works]_sessVars
  <2>. SUFFICES ASSUME SessionsTypeOK, NEW b \in Browsers, Issue(b) \/ Reissue(b)
                PROVE  Accepted(b)'
    OBVIOUS
  <2>1. b \in signedIn' /\ iat'[b] = now /\ validAfter' = validAfter
    BY DEF Issue, Reissue, SetSessionCookie, SessionsTypeOK
  <2>2. now >= validAfter
    BY ONLY Ordered, SessionsTypeOK
  <2>. QED  BY <2>1, <2>2 DEF Accepted
<1>. QED  BY <1>1, TypeCorrect, PTL DEF SessionsSpec, NewCookieIsAccepted

-----------------------------------------------------------------------------
(* A write overtakes all others, which leaves nothing to show.             *)
LEMMA AfterWrite ==
  ASSUME SessionsTypeOK, NEW a \in Actors, Outdate(a),
         NEW next, Goto(a, next), next \in {"idle", "reissue"}
  PROVE  UpToDate'
<1>. USE DEF SessionsTypeOK, Actors, Outdate, Goto
<1>1. ASSUME NEW x \in Actors, x \notin outdated' PROVE doing'[x] \in {"idle", "reissue"}
  BY <1>1
<1>. QED  BY <1>1 DEF UpToDate

LEMMA UpToDateStep == SessionsTypeOK /\ UpToDate /\ [SessionsNext]_sessVars => UpToDate'
<1>. SUFFICES ASSUME SessionsTypeOK, UpToDate, [SessionsNext]_sessVars PROVE UpToDate'
  OBVIOUS
<1>. USE SessionsAssumption
<1>1. ASSUME NEW b \in Browsers, CheckPassword(b) PROVE UpToDate'
  BY <1>1 DEF CheckPassword, UpToDate, Goto, SessionsTypeOK, Actors
<1>2. ASSUME NEW b \in Browsers, Issue(b) PROVE UpToDate'
  BY <1>2 DEF Issue, UpToDate, Goto, SessionsTypeOK, Actors
<1>3. ASSUME NEW b \in Browsers, Logout(b) PROVE UpToDate'
  BY <1>3 DEF Logout, UpToDate
<1>4. ASSUME NEW b \in Browsers, SignedInPost(b, "hash") PROVE UpToDate'
  BY <1>4 DEF SignedInPost, UpToDate, Goto, SessionsTypeOK, Actors
<1>5. ASSUME NEW b \in Browsers, TakeTime(b) PROVE UpToDate'
  <2>1. validAfter <= now
    BY Ordered
  <2>2. stamp'[b] = now /\ validAfter' = validAfter
    BY <1>5 DEF TakeTime, SessionsTypeOK
  <2>3. ASSUME NEW x \in Browsers \ outdated', doing'[x] \in {"set", "bump", "logout all"}
        PROVE  validAfter' <= stamp'[x]
    <3>1. CASE x = b
      BY <2>1, <2>2, <3>1
    <3>2. CASE x # b
      <4>1. doing'[x] = doing[x] /\ stamp'[x] = stamp[x] /\ x \notin outdated
        BY <1>5, <2>3, <3>2 DEF TakeTime, Goto, SessionsTypeOK, Actors
      <4>. QED  BY <2>2, <2>3, <4>1 DEF UpToDate
    <3>. QED  BY <3>1, <3>2
  <2>4. ASSUME NEW e \in Editors \ outdated', doing'[e] = "put"
        PROVE  sawPw'[e] = password' /\ sawVa'[e] = validAfter'
    <3>1. e # b /\ e \notin outdated
      BY <1>5, <2>4 DEF TakeTime
    <3>2. doing'[e] = doing[e]
      BY <1>5, <3>1 DEF TakeTime, Goto, SessionsTypeOK, Actors
    <3>. QED  BY <1>5, <2>4, <3>1, <3>2 DEF TakeTime, UpToDate
  <2>. QED  BY <2>3, <2>4 DEF UpToDate
<1>6. ASSUME NEW b \in Browsers, SetPassword(b) PROVE UpToDate'
  <2>1. ASSUME NEW x \in Actors, x \notin outdated', x # b PROVE doing'[x] = "idle"
    BY <1>6, <2>1 DEF SetPassword, Outdate, Goto, SessionsTypeOK, Actors
  <2>2. validAfter' <= stamp'[b]
    <3>1. validAfter' = stamp[b] /\ stamp' = stamp
      BY <1>6 DEF SetPassword
    <3>. QED  BY ONLY <3>1, Ordered, SessionsTypeOK, b \in Browsers
  <2>3. b \notin Editors
    OBVIOUS
  <2>. QED  BY <2>1, <2>2, <2>3 DEF UpToDate, Actors
<1>7. ASSUME NEW b \in Browsers, BumpSessions(b) PROVE UpToDate'
  BY <1>7, AfterWrite DEF BumpSessions, Actors
<1>8. ASSUME NEW b \in Browsers, Reissue(b) PROVE UpToDate'
  BY <1>8 DEF Reissue, UpToDate, Goto, SessionsTypeOK, Actors
<1>9. ASSUME NEW b \in Browsers, LogoutAll(b) PROVE UpToDate'
  BY <1>9, AfterWrite DEF LogoutAll, Actors
<1>10. ASSUME NEW e \in Editors, EditRead(e) PROVE UpToDate'
  BY <1>10 DEF EditRead, UpToDate, Goto, SessionsTypeOK, Actors
<1>11. ASSUME NEW e \in Editors, SaveUser(e) PROVE UpToDate'
  BY <1>11, AfterWrite DEF SaveUser, Actors
<1>12. ASSUME NEW a \in Actors, Abort(a) PROVE UpToDate'
  BY <1>12 DEF Abort, UpToDate, Goto, SessionsTypeOK, Actors
<1>13. CASE Tick
  BY <1>13 DEF Tick, UpToDate
<1>14. CASE UNCHANGED sessVars
  BY <1>14 DEF sessVars, UpToDate
<1>. QED
  BY NextSteps, <1>1, <1>2, <1>3, <1>4, <1>5, <1>6, <1>7, <1>8, <1>9, <1>10, <1>11,
     <1>12, <1>13, <1>14

(* Ended sessions and replaced passwords come back only by an overtaken    *)
(* request.                                                                *)
THEOREM ChangesAreKept == SessionsSpec => ChangesStay
<1>. DEFINE Stay ==
       /\ validAfter' < validAfter =>
            \E a \in outdated : SetPassword(a) \/ BumpSessions(a) \/ LogoutAll(a) \/ SaveUser(a)
       /\ password' < password => \E e \in outdated : SaveUser(e)
<1>1. SessionsInit => UpToDate
  BY DEF SessionsInit, UpToDate, Actors
<1>2. SessionsTypeOK /\ UpToDate /\ [SessionsNext]_sessVars => [Stay]_sessVars
  <2>. SUFFICES ASSUME SessionsTypeOK, UpToDate, [SessionsNext]_sessVars PROVE Stay
    OBVIOUS
  <2>0. validAfter \in Nat /\ password \in Nat /\ newest \in Nat /\ password <= newest
    BY Ordered
  <2>1. ASSUME NEW b \in Browsers, SetPassword(b) PROVE Stay
    <3>1. b \in outdated \/ validAfter <= stamp[b]
      BY <2>1 DEF SetPassword, UpToDate
    <3>2. stamp[b] \in Nat
      BY Ordered
    <3>3. ~(password' < password) /\ validAfter' = stamp[b]
      BY <2>0, <2>1 DEF SetPassword
    <3>. QED  BY <2>0, <2>1, <3>1, <3>2, <3>3
  <2>2. ASSUME NEW b \in Browsers, BumpSessions(b) \/ LogoutAll(b) PROVE Stay
    <3>1. b \in outdated \/ validAfter <= stamp[b]
      BY <2>2 DEF BumpSessions, LogoutAll, UpToDate
    <3>2. stamp[b] \in Nat
      BY Ordered
    <3>3. password' = password /\ validAfter' = stamp[b]
      BY <2>2 DEF BumpSessions, LogoutAll
    <3>. QED  BY <2>0, <2>2, <3>1, <3>2, <3>3
  <2>3. ASSUME NEW e \in Editors, SaveUser(e) PROVE Stay
    <3>1. CASE e \in outdated
      BY <2>3, <3>1
    <3>2. CASE e \notin outdated
      <4>1. sawPw[e] = password /\ sawVa[e] = validAfter
        BY <2>3, <3>2 DEF SaveUser, UpToDate
      <4>2. validAfter' = validAfter /\ (password' = password \/ password' = newest + 1)
        BY <2>3, <4>1 DEF SaveUser
      <4>. QED  BY <2>0, <4>2
    <3>. QED  BY <3>1, <3>2
  <2>4. ASSUME UNCHANGED <<password, validAfter>> PROVE Stay
    BY <2>0, <2>4
  <2>. HIDE DEF Stay
  <2>. QED
    BY NextSteps, <2>1, <2>2, <2>3, <2>4
       DEF CheckPassword, Issue, Logout, SignedInPost, TakeTime, Reissue, EditRead, Abort, Tick,
           sessVars
<1>3. SessionsSpec => [](SessionsTypeOK /\ UpToDate)
  BY <1>1, TypeInit, TypeStep, UpToDateStep, PTL DEF SessionsSpec
<1>. QED  BY <1>2, <1>3, PTL DEF SessionsSpec, ChangesStay
=============================================================================
