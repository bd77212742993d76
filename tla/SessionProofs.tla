--------------------------- MODULE SessionProofs ---------------------------
(* Theorems about BrowserSession, for any logins, requests and bounds. *)
EXTENDS BrowserSession, TLAPS

LEMMA RowUpdated ==
  ASSUME NEW t \in Token
  PROVE  /\ [t EXCEPT !.revoked = TRUE] \in Token
         /\ [t EXCEPT !.expired = TRUE] \in Token
  BY DEF Token

(* Updating a row keeps the table. *)
LEMMA TableUpdated ==
  ASSUME NEW ts \in Seq(Token), NEW i \in 1..Len(ts)
  PROVE  /\ [ts EXCEPT ![i].revoked = TRUE] \in Seq(Token)
         /\ Len([ts EXCEPT ![i].revoked = TRUE]) = Len(ts)
         /\ [ts EXCEPT ![i].expired = TRUE] \in Seq(Token)
         /\ Len([ts EXCEPT ![i].expired = TRUE]) = Len(ts)
<1>1. ts[i] \in Token
  OBVIOUS
<1>2. /\ [ts[i] EXCEPT !.revoked = TRUE] \in Token
      /\ [ts[i] EXCEPT !.expired = TRUE] \in Token
  BY <1>1, RowUpdated
<1> QED
  BY <1>2

(* What a call of the server leaves to its caller. *)
Quiet == \A r \in Rotations : pc[r] = "idle" <=> pc'[r] = "idle"

LEMMA CallType ==
  ASSUME ServerTypeOK, NEW c \in Calls, CallStep(c) \/ Fails(c)
  PROVE  ServerTypeOK' /\ Quiet /\ Len(tokens) <= Len(tokens')
<1> USE TokenAssumption DEF ServerTypeOK, Goto
<1>n. Len(tokens) \in Nat
  OBVIOUS
<1>1. CASE FindToken(c)
  BY <1>1, <1>n DEF FindToken, Quiet, Calls
<1>2. CASE SaveRevoked(c)
  <2>1. c \in Rotations /\ old[c] \in 1..Len(tokens)
    BY <1>2, <1>n DEF SaveRevoked, Calls
  <2>2. tokens' \in Seq(Token) /\ Len(tokens') = Len(tokens)
    BY <1>2, <2>1, TableUpdated DEF SaveRevoked
  <2> QED
    BY <1>2, <1>n, <2>1, <2>2 DEF SaveRevoked, Quiet, Calls
<1>3. CASE InsertToken(c)
  <2>1. Owner(c) \in Logins
    <3>1. CASE c \in Logins
      BY <3>1 DEF Owner
    <3>2. CASE c \notin Logins
      <4>1. tokens[old[c]] \in Token
        BY <1>3, <1>n, <3>2 DEF InsertToken, Calls
      <4> QED
        BY <3>2, <4>1 DEF Owner, Token
    <3> QED
      BY <3>1, <3>2
  <2>2. [owner |-> Owner(c), revoked |-> FALSE, expired |-> FALSE] \in Token
    BY <2>1 DEF Token
  <2>3. tokens' \in Seq(Token) /\ Len(tokens') = Len(tokens) + 1
    BY <1>3, <2>2 DEF InsertToken
  <2>4. new' \in [Calls -> 0..Len(tokens')]
    BY <1>3, <1>n, <2>3 DEF InsertToken
  <2>5. old' \in [Calls -> 0..Len(tokens')]
    BY <1>3, <1>n, <2>3 DEF InsertToken
  <2>6. pc[c] = "insert" /\ pc' = [pc EXCEPT ![c] = IF c \in Logins THEN "granted" ELSE "user"]
    BY <1>3 DEF InsertToken
  <2>7. pc' \in [Calls -> {"idle", "find", "revoke", "insert", "user",
                           "granted", "refused", "done"}]
    BY <2>6
  <2>8. \A d \in Rotations : pc'[d] \in {"find", "revoke", "insert", "user"} => old'[d] # 0
    BY <1>3, <2>6 DEF InsertToken, Calls
  <2>9. \A d \in Calls : pc'[d] \in {"user", "granted"} => new'[d] # 0
    BY <1>3, <1>n, <2>6 DEF InsertToken, Calls
  <2>12. \A l \in Logins : pc'[l] \notin {"find", "revoke", "user"}
    BY <2>6 DEF Calls
  <2>10. Quiet
    BY <2>6 DEF Quiet, Calls
  <2>11. closed' = closed /\ endings' = endings /\ faults' = faults
    BY <1>3 DEF InsertToken
  <2> QED
    BY <1>n, <2>3, <2>4, <2>5, <2>7, <2>8, <2>9, <2>10, <2>11, <2>12
<1>4. CASE FindUser(c)
  <2>1. UNCHANGED <<tokens, closed, old, new, endings, faults>>
    BY <1>4 DEF FindUser
  <2>2. pc' = [pc EXCEPT ![c] = "granted"] /\ pc[c] = "user"
    BY <1>4 DEF FindUser
  <2> QED
    BY <2>1, <2>2, <1>n DEF Quiet, Calls
<1>5. CASE Fails(c)
  BY <1>5, <1>n DEF Fails, Quiet, Calls
<1> QED
  BY <1>1, <1>2, <1>3, <1>4, <1>5 DEF CallStep

LEMMA EndingType ==
  ASSUME ServerTypeOK,
         \/ RevokeAll
         \/ \E i \in 1..Len(tokens) : Expire(i) \/ RevokeToken(i)
  PROVE  ServerTypeOK' /\ Quiet /\ Len(tokens) <= Len(tokens')
<1> USE TokenAssumption DEF ServerTypeOK
<1>n. Len(tokens) \in Nat /\ \A i \in 1..Len(tokens) : tokens[i] \in Token
  OBVIOUS
<1>1. CASE RevokeAll
  <2>1. ASSUME NEW i \in DOMAIN tokens
        PROVE  /\ [tokens[i] EXCEPT !.revoked = TRUE] \in Token
               /\ tokens[i].owner \in Logins
    <3>1. tokens[i] \in Token
      OBVIOUS
    <3> QED
      BY <3>1, RowUpdated DEF Token
  <2>2. tokens' \in Seq(Token) /\ Len(tokens') = Len(tokens)
    <3> DEFINE row(i) == [tokens[i] EXCEPT !.revoked = TRUE]
    <3>1. tokens' = [i \in 1..Len(tokens) |-> row(i)]
      BY <1>1 DEF RevokeAll
    <3>2. \A i \in 1..Len(tokens) : row(i) \in Token
      BY <2>1
    <3> HIDE DEF row
    <3> QED
      BY <3>1, <3>2, <1>n
  <2>3. closed' \subseteq Logins /\ endings' \in 0..MaxEndings
    BY <1>1, <2>1 DEF RevokeAll
  <2> QED
    BY <1>1, <1>n, <2>2, <2>3 DEF RevokeAll, Quiet
<1>2. ASSUME NEW i \in 1..Len(tokens), Expire(i) \/ RevokeToken(i)
      PROVE  ServerTypeOK' /\ Quiet /\ Len(tokens) <= Len(tokens')
  <2>1. tokens[i].owner \in Logins
    BY <1>n DEF Token
  <2>2. tokens' \in Seq(Token) /\ Len(tokens') = Len(tokens)
    <3>1. tokens \in Seq(Token)
      OBVIOUS
    <3>2. \/ tokens' = [tokens EXCEPT ![i].expired = TRUE]
          \/ tokens' = [tokens EXCEPT ![i].revoked = TRUE]
      BY <1>2 DEF Expire, RevokeToken
    <3> HIDE DEF ServerTypeOK
    <3> QED
      BY <3>1, <3>2, TableUpdated
  <2>3. closed' \subseteq Logins /\ endings' \in 0..MaxEndings
    BY <1>2, <2>1 DEF Expire, RevokeToken
  <2> QED
    BY <1>2, <1>n, <2>2, <2>3 DEF Expire, RevokeToken, Quiet
<1> QED
  BY <1>1, <1>2

(* A call starts, or its answer is taken. *)
LEMMA AnswerType ==
  ASSUME ServerTypeOK,
         \/ \E l \in Logins : StartLogin(l)
         \/ \E r \in Rotations : StartRotation(r, refresh)
         \/ \E c \in Calls : End(c),
         refresh \in 0..Len(tokens)
  PROVE  ServerTypeOK' /\ tokens' = tokens
<1> USE TokenAssumption DEF ServerTypeOK, Goto, Calls
<1>n. Len(tokens) \in Nat
  OBVIOUS
<1>1. ASSUME NEW l \in Logins, StartLogin(l)
      PROVE  ServerTypeOK' /\ tokens' = tokens
  BY <1>1, <1>n DEF StartLogin
<1>2. ASSUME NEW r \in Rotations, StartRotation(r, refresh)
      PROVE  ServerTypeOK' /\ tokens' = tokens
  BY <1>2, <1>n DEF StartRotation
<1>3. ASSUME NEW c \in Calls, End(c)
      PROVE  ServerTypeOK' /\ tokens' = tokens
  BY <1>3, <1>n DEF End
<1> QED
  BY <1>1, <1>2, <1>3

LEMMA TypeStep == TypeOK /\ [Next]_vars => TypeOK'
<1> SUFFICES ASSUME TypeOK, [Next]_vars
             PROVE  TypeOK'
  OBVIOUS
<1> USE TokenAssumption, BrowserAssumption
<1>t. ServerTypeOK /\ PageTypeOK /\ LeaderOK
  BY DEF TypeOK
<1>n. Len(tokens) \in Nat
  BY <1>t DEF ServerTypeOK
<1>0. ASSUME ServerTypeOK', Quiet, Len(tokens) <= Len(tokens'),
             UNCHANGED <<cookieVars, pageVars, formVars, expiries>>
      PROVE  TypeOK'
  <2>1. Len(tokens') \in Nat
    BY <1>0 DEF ServerTypeOK
  <2>2. PageTypeOK'
    BY <1>0, <1>t, <1>n, <2>1 DEF PageTypeOK, cookieVars, pageVars, formVars
  <2>3. LeaderOK'
    BY <1>0, <1>t DEF LeaderOK, Quiet, pageVars
  <2> QED
    BY <1>0, <2>2, <2>3 DEF TypeOK
<1>1. CASE Server
  <2>1. ServerTypeOK' /\ Quiet /\ Len(tokens) <= Len(tokens')
    <3>1. DOMAIN tokens = 1..Len(tokens)
      BY <1>t DEF ServerTypeOK
    <3> QED
      BY <1>1, <1>t, <3>1, CallType, EndingType DEF Server, ServerStep
  <2> QED
    BY <1>0, <1>1, <2>1 DEF Server
<1>2. CASE AccessExpires
  <2>1. UNCHANGED <<serverVars, pageVars, formVars, refresh, flag>>
    BY <1>2 DEF AccessExpires
  <2>2. ServerTypeOK' /\ LeaderOK'
    BY <1>t, <2>1 DEF ServerTypeOK, LeaderOK, serverVars, pageVars
  <2>3. access' \in BOOLEAN
    BY <1>2 DEF AccessExpires
  <2>4. expiries' \in 0..MaxExpiries
    BY <1>2, <1>t DEF AccessExpires, PageTypeOK
  <2>5. PageTypeOK'
    BY <1>t, <2>1, <2>3, <2>4 DEF PageTypeOK, serverVars, pageVars, formVars
  <2> QED
    BY <2>2, <2>5 DEF TypeOK
<1>3. ASSUME NEW l \in Logins, LogIn(l) PROVE TypeOK'
  <2>1. ServerTypeOK' /\ tokens' = tokens
    BY <1>3, <1>t, AnswerType DEF LogIn, PageTypeOK
  <2>2. Quiet
    BY <1>3, <1>t DEF LogIn, StartLogin, Goto, Quiet, Calls, ServerTypeOK
  <2> QED
    BY <1>0, <1>3, <1>n, <2>1, <2>2 DEF LogIn
<1>4. ASSUME NEW l \in Logins, LoggedIn(l) PROVE TypeOK'
  <2>1. ServerTypeOK' /\ tokens' = tokens
    BY <1>4, <1>t, AnswerType DEF LoggedIn, PageTypeOK, Calls
  <2>2. new[l] \in 0..Len(tokens)
    BY <1>t DEF ServerTypeOK, Calls
  <2>3. PageTypeOK'
    BY <1>4, <1>t, <2>1, <2>2
       DEF LoggedIn, SetCookies, PageTypeOK, pageVars, formVars
  <2>4. \A r \in Rotations : pc'[r] = pc[r]
    BY <1>4, <1>t DEF LoggedIn, End, Goto, Calls, ServerTypeOK
  <2>5. LeaderOK'
    BY <1>4, <1>t, <2>4 DEF LoggedIn, LeaderOK, pageVars
  <2> QED
    BY <2>1, <2>3, <2>5 DEF TypeOK
<1>5. ASSUME NEW l \in Logins, LoginFails(l) PROVE TypeOK'
  <2>1. ServerTypeOK' /\ tokens' = tokens
    BY <1>5, <1>t, AnswerType DEF LoginFails, PageTypeOK, Calls
  <2>2. Quiet
    BY <1>5, <1>t DEF LoginFails, End, Goto, Quiet, Calls, ServerTypeOK
  <2> QED
    BY <1>0, <1>5, <1>n, <2>1, <2>2 DEF LoginFails
<1>6. CASE LogOut
  BY <1>6, <1>t DEF LogOut, serverVars, cookieVars, pageVars,
                   TypeOK, ServerTypeOK, PageTypeOK, LeaderOK
<1>7. CASE Logout
  <2>1. ServerTypeOK' /\ Quiet /\ Len(tokens) <= Len(tokens')
    <3>1. CASE leaving = 0
      BY <1>7, <1>t, <1>n, <3>1 DEF Logout, serverVars, ServerTypeOK, Quiet
    <3>2. CASE leaving # 0
      <4>1. leaving \in 1..Len(tokens) /\ RevokeToken(leaving)
        BY <1>7, <1>t, <1>n, <3>2 DEF Logout, PageTypeOK
      <4> QED
        BY <1>t, <4>1, EndingType
    <3> QED
      BY <3>1, <3>2
  <2>2. Len(tokens') \in Nat
    BY <2>1 DEF ServerTypeOK
  <2>3. PageTypeOK'
    BY <1>7, <1>t, <1>n, <2>1, <2>2 DEF Logout, PageTypeOK, cookieVars, pageVars
  <2>4. LeaderOK'
    BY <1>7, <1>t, <2>1 DEF Logout, LeaderOK, Quiet, pageVars
  <2> QED
    BY <2>1, <2>3, <2>4 DEF TypeOK
<1>8. CASE LogoutFails
  BY <1>8, <1>t DEF LogoutFails, cookieVars, pageVars,
                   TypeOK, ServerTypeOK, PageTypeOK, LeaderOK
<1>9. CASE LoggedOut
  <2>1. UNCHANGED <<serverVars, pageVars, unheard, expiries>>
    BY <1>9 DEF LoggedOut
  <2>2. ServerTypeOK' /\ LeaderOK'
    BY <1>t, <2>1 DEF ServerTypeOK, LeaderOK, serverVars, pageVars
  <2>3. access' \in BOOLEAN
    BY <1>9, <1>t DEF LoggedOut, PageTypeOK
  <2>4. refresh' = refresh \/ refresh' = 0
    BY <1>9 DEF LoggedOut
  <2>5. flag' \in BOOLEAN /\ logout' = "idle" /\ leaving' = 0
    BY <1>9 DEF LoggedOut
  <2>6. refresh' \in 0..Len(tokens) /\ leaving' \in 0..Len(tokens)
    BY <1>t, <1>n, <2>4, <2>5 DEF PageTypeOK
  <2>7. tokens' = tokens
    BY <2>1 DEF serverVars
  <2>8. PageTypeOK'
    BY <1>t, <2>1, <2>3, <2>5, <2>6, <2>7 DEF PageTypeOK, pageVars
  <2> QED
    BY <2>2, <2>8 DEF TypeOK
<1>10. ASSUME NEW r \in Rotations, SendRequest(r) PROVE TypeOK'
  <2>1. req' = [req EXCEPT ![r] = "sent"] /\ req[r] = "idle" /\ fresh' \subseteq Rotations
    BY <1>10, <1>t DEF SendRequest, Send, PageTypeOK
  <2> QED
    BY <1>10, <1>t, <2>1 DEF SendRequest, serverVars, cookieVars, formVars,
                   TypeOK, ServerTypeOK, PageTypeOK, LeaderOK
<1>11. ASSUME NEW r \in Rotations, Answered(r) PROVE TypeOK'
  BY <1>11, <1>t DEF Answered, serverVars, cookieVars, formVars,
                   TypeOK, ServerTypeOK, PageTypeOK, LeaderOK
<1>12. ASSUME NEW r \in Rotations, Enqueue(r) PROVE TypeOK'
  BY <1>12, <1>t DEF Enqueue, Rejected401, serverVars, cookieVars, formVars,
                   TypeOK, ServerTypeOK, PageTypeOK, LeaderOK
<1>13. ASSUME NEW r \in Rotations, Lead(r) PROVE TypeOK'
  <2>1. ServerTypeOK' /\ tokens' = tokens
    BY <1>13, <1>t, AnswerType DEF Lead, PageTypeOK
  <2>2. PageTypeOK'
    BY <1>13, <1>t, <2>1 DEF Lead, PageTypeOK, cookieVars, formVars
  <2>3. /\ pc' = [pc EXCEPT ![r] = IF refresh = 0 THEN "refused" ELSE "find"]
        /\ req' = [req EXCEPT ![r] = "leading"]
        /\ refreshing' = TRUE
        /\ ~refreshing
    BY <1>13 DEF Lead, StartRotation, Goto
  <2>4. LeaderOK'
    BY <1>t, <2>3 DEF LeaderOK, ServerTypeOK, PageTypeOK, Calls
  <2> QED
    BY <2>1, <2>2, <2>4 DEF TypeOK
<1>14. ASSUME NEW r \in Rotations, Refreshed(r) PROVE TypeOK'
  <2>1. ServerTypeOK' /\ tokens' = tokens
    BY <1>14, <1>t, AnswerType DEF Refreshed, PageTypeOK, Calls
  <2>2. new[r] \in 0..Len(tokens)
    BY <1>t DEF ServerTypeOK, Calls
  <2>3. PageTypeOK'
    BY <1>14, <1>t, <2>1, <2>2
       DEF Refreshed, SetCookies, Send, Queued, PageTypeOK, formVars
  <2>4. LeaderOK'
    <3>1. /\ pc[r] = "granted" /\ pc' = [pc EXCEPT ![r] = "idle"]
          /\ ~refreshing'
          /\ req' = [s \in Rotations |->
                        IF s = r \/ req[s] = "queued" THEN "sent" ELSE req[s]]
      BY <1>14, TokenAssumption DEF Refreshed, Queued, End, Goto
    <3>2. \A s \in Rotations : req[s] = "leading" => s = r
      BY <1>t, <3>1 DEF LeaderOK
    <3> QED
      BY <1>t, <3>1, <3>2 DEF LeaderOK, ServerTypeOK, PageTypeOK, Calls
  <2> QED
    BY <2>1, <2>3, <2>4 DEF TypeOK
<1>15. ASSUME NEW r \in Rotations, RefreshFails(r) PROVE TypeOK'
  <2>1. ServerTypeOK' /\ tokens' = tokens
    BY <1>15, <1>t, AnswerType DEF RefreshFails, PageTypeOK, Calls
  <2>2. PageTypeOK'
    <3>1. /\ access' = access /\ refresh' = refresh /\ expiries' = expiries
          /\ flag' = FALSE /\ refreshing' = FALSE /\ fresh' = {} /\ retried' = {}
          /\ req' = [s \in Rotations |-> "idle"]
          /\ unheard' \subseteq Logins
          /\ leaving' \in {leaving, 0}
          /\ logout' \in {"unheard", "idle"}
      BY <1>15 DEF RefreshFails
    <3>2. leaving' \in 0..Len(tokens)
      BY <1>t, <1>n, <3>1 DEF PageTypeOK
    <3> QED
      BY <1>t, <2>1, <3>1, <3>2 DEF PageTypeOK
  <2>3. LeaderOK'
    <3>1. /\ pc[r] = "refused" /\ pc' = [pc EXCEPT ![r] = "idle"]
          /\ ~refreshing'
          /\ req' = [s \in Rotations |-> "idle"]
      BY <1>15, TokenAssumption DEF RefreshFails, End, Goto
    <3>2. \A s \in Rotations : req[s] = "leading" => s = r
      BY <1>t, <3>1 DEF LeaderOK
    <3> QED
      BY <1>t, <3>1, <3>2 DEF LeaderOK, ServerTypeOK, PageTypeOK, Calls
  <2> QED
    BY <2>1, <2>2, <2>3 DEF TypeOK
<1>16. CASE UNCHANGED vars
  BY <1>16, <1>t DEF vars, serverVars, cookieVars, pageVars, formVars,
                   TypeOK, ServerTypeOK, PageTypeOK, LeaderOK
<1> QED
  BY <1>1, <1>2, <1>3, <1>4, <1>5, <1>6, <1>7, <1>8, <1>9, <1>10, <1>11,
     <1>12, <1>13, <1>14, <1>15, <1>16 DEF Next, RequestStep

(* The variables keep their types, and the page has one refresh at a time. *)
THEOREM TypeCorrect == Spec => []TypeOK
<1>1. Init => TypeOK
  <2> SUFFICES ASSUME Init PROVE TypeOK
    OBVIOUS
  <2>1. tokens \in Seq(Token) /\ Len(tokens) = 0
    BY DEF Init, ServerInit
  <2>2. ServerTypeOK
    BY <2>1, TokenAssumption DEF Init, ServerInit, ServerTypeOK, Calls
  <2>3. PageTypeOK
    <3>1. refresh \in 0..Len(tokens) /\ leaving \in 0..Len(tokens)
      BY <2>1 DEF Init
    <3>2. access \in BOOLEAN /\ flag \in BOOLEAN /\ refreshing \in BOOLEAN
      BY DEF Init
    <3>3. expiries \in 0..MaxExpiries
      BY BrowserAssumption DEF Init
    <3>4. /\ req \in [Rotations -> {"idle", "sent", "queued", "leading"}]
          /\ fresh \subseteq Rotations
          /\ retried \subseteq Rotations
          /\ logout = "idle"
          /\ unheard \subseteq Logins
      BY DEF Init
    <3> QED
      BY <3>1, <3>2, <3>3, <3>4 DEF PageTypeOK
  <2>4. LeaderOK
    BY DEF Init, ServerInit, LeaderOK, Calls
  <2> QED
    BY <2>2, <2>3, <2>4 DEF TypeOK
<1> QED
  BY <1>1, TypeStep, PTL DEF Spec

-----------------------------------------------------------------------------
(* One live row for a login: what a call knows of its owner's rows. *)

NoRowYet ==
    \A l \in Logins : pc[l] \in {"idle", "insert"} =>
        \A i \in DOMAIN tokens : tokens[i].owner # l

OnlyOldLives ==
    \A c \in Rotations : pc[c] = "revoke" =>
        \A i \in DOMAIN tokens :
            Live(i) /\ tokens[i].owner = tokens[old[c]].owner => i = old[c]

NoneLives ==
    \A c \in Rotations : pc[c] = "insert" =>
        \A i \in DOMAIN tokens :
            tokens[i].owner = tokens[old[c]].owner => ~Live(i)

LiveInv == OneLivePerLogin /\ NoRowYet /\ OnlyOldLives /\ NoneLives

(* Rows are revoked or expire, and calls move on or fail. *)
LEMMA LiveKept ==
  ASSUME TypeOK, LiveInv,
         DOMAIN tokens' = DOMAIN tokens,
         \A i \in DOMAIN tokens : /\ tokens'[i].owner = tokens[i].owner
                                  /\ tokens[i].revoked => tokens'[i].revoked,
         \A l \in Logins : pc'[l] \in {"idle", "insert"} => pc[l] \in {"idle", "insert"},
         \A c \in Rotations : pc'[c] \in {"revoke", "insert"} =>
                                 pc'[c] = pc[c] /\ old'[c] = old[c]
  PROVE  LiveInv'
<1>2. \A i \in DOMAIN tokens : Live(i)' => Live(i)
  BY DEF Live
<1>3. OneLivePerLogin'
  BY <1>2 DEF LiveInv, OneLivePerLogin
<1>4. NoRowYet'
  BY DEF LiveInv, NoRowYet
<1>5. \A c \in Rotations : pc[c] \in {"revoke", "insert"} => old[c] \in DOMAIN tokens
  <2>1. ASSUME NEW c \in Rotations, pc[c] \in {"revoke", "insert"}
        PROVE  old[c] \in DOMAIN tokens
    <3>1. old[c] \in 0..Len(tokens) /\ old[c] # 0 /\ Len(tokens) \in Nat
      BY <2>1 DEF TypeOK, ServerTypeOK, Calls
    <3> QED
      BY <3>1 DEF TypeOK, ServerTypeOK
  <2> QED
    BY <2>1
<1>6. OnlyOldLives'
  <2> SUFFICES ASSUME NEW c \in Rotations, pc'[c] = "revoke",
                      NEW i \in DOMAIN tokens', Live(i)',
                      tokens'[i].owner = tokens'[old'[c]].owner
               PROVE  i = old'[c]
    BY DEF OnlyOldLives
  <2>1. pc[c] = "revoke" /\ old'[c] = old[c] /\ old[c] \in DOMAIN tokens
    BY <1>5
  <2>2. /\ i \in DOMAIN tokens /\ Live(i)
        /\ tokens[i].owner = tokens[old[c]].owner
    BY <2>1, <1>2
  <2> QED
    BY <2>1, <2>2 DEF LiveInv, OnlyOldLives
<1>7. NoneLives'
  <2> SUFFICES ASSUME NEW c \in Rotations, pc'[c] = "insert",
                      NEW i \in DOMAIN tokens', Live(i)',
                      tokens'[i].owner = tokens'[old'[c]].owner
               PROVE  FALSE
    BY DEF NoneLives
  <2>1. pc[c] = "insert" /\ old'[c] = old[c] /\ old[c] \in DOMAIN tokens
    BY <1>5
  <2>2. /\ i \in DOMAIN tokens /\ Live(i)
        /\ tokens[i].owner = tokens[old[c]].owner
    BY <2>1, <1>2
  <2> QED
    BY <2>1, <2>2 DEF LiveInv, NoneLives
<1> QED
  BY <1>3, <1>4, <1>6, <1>7 DEF LiveInv

(* A page has one refresh, so one rotation is in progress at most. *)
LEMMA OneRotation ==
  ASSUME TypeOK, NEW c \in Rotations, NEW d \in Rotations, pc[c] # "idle", c # d
  PROVE  pc[d] = "idle"
  BY DEF TypeOK, LeaderOK

LEMMA RevokeLive ==
  ASSUME TypeOK, LiveInv, NEW c \in Calls, SaveRevoked(c)
  PROVE  LiveInv'
<1> USE DEF LiveInv
<1>1. /\ c \in Rotations /\ pc[c] = "revoke" /\ old[c] \in 1..Len(tokens)
      /\ tokens \in Seq(Token) /\ Len(tokens) \in Nat
      /\ DOMAIN tokens = 1..Len(tokens)
  BY DEF TypeOK, ServerTypeOK, SaveRevoked, Calls
<1>2. /\ DOMAIN tokens' = DOMAIN tokens
      /\ \A i \in DOMAIN tokens : tokens'[i].owner = tokens[i].owner
      /\ \A i \in DOMAIN tokens : Live(i)' <=> Live(i) /\ i # old[c]
      /\ old' = old /\ pc' = [pc EXCEPT ![c] = "insert"]
  <2>1. \A i \in DOMAIN tokens : tokens[i] \in Token
    BY <1>1
  <2> QED
    BY <1>1, <2>1 DEF SaveRevoked, Live, Goto, Token
<1>4. OneLivePerLogin'
  <2> SUFFICES ASSUME NEW i \in DOMAIN tokens', NEW j \in DOMAIN tokens',
                      Live(i)', Live(j)', tokens'[i].owner = tokens'[j].owner
               PROVE  i = j
    BY DEF OneLivePerLogin
  <2>1. Live(i) /\ Live(j)
    BY <1>2
  <2>2. tokens[i].owner = tokens[j].owner /\ i \in DOMAIN tokens /\ j \in DOMAIN tokens
    BY <1>2
  <2> QED
    BY <2>1, <2>2 DEF OneLivePerLogin
<1>5. DOMAIN pc = Calls /\ \A d \in Rotations : d # c => pc[d] = "idle"
  BY <1>1, OneRotation DEF TypeOK, ServerTypeOK
<1>6. NoRowYet'
  BY <1>1, <1>2, <1>5, TokenAssumption DEF NoRowYet, Calls
<1>7. OnlyOldLives'
  BY <1>1, <1>2, <1>5 DEF OnlyOldLives, Calls
<1>8. NoneLives'
  <2>1. \A d \in Rotations : pc'[d] = "insert" => d = c
    BY <1>1, <1>2, <1>5 DEF Calls
  <2>2. \A i \in DOMAIN tokens :
           tokens[i].owner = tokens[old[c]].owner => ~Live(i)'
    BY <1>1, <1>2 DEF OnlyOldLives
  <2>3. tokens'[old'[c]].owner = tokens[old[c]].owner
    BY <1>1, <1>2
  <2> QED
    BY <1>2, <2>1, <2>2, <2>3 DEF NoneLives
<1> QED
  BY <1>4, <1>6, <1>7, <1>8

LEMMA FindLive ==
  ASSUME TypeOK, LiveInv, NEW c \in Calls, FindToken(c)
  PROVE  LiveInv'
<1> USE DEF LiveInv
<1>1. /\ tokens' = tokens /\ old' = old
      /\ c \in Rotations /\ pc[c] = "find" /\ old[c] \in DOMAIN tokens
      /\ \/ pc' = [pc EXCEPT ![c] = "refused"]
         \/ /\ pc' = [pc EXCEPT ![c] = "revoke"]
            /\ Live(old[c])
  <2>1. c \in Rotations /\ pc[c] = "find"
    BY DEF FindToken, TypeOK, ServerTypeOK, Calls
  <2>2. old[c] \in 0..Len(tokens) /\ old[c] # 0 /\ Len(tokens) \in Nat
    BY <2>1 DEF TypeOK, ServerTypeOK, Calls
  <2>3. old[c] \in DOMAIN tokens
    BY <2>2 DEF TypeOK, ServerTypeOK
  <2>4. /\ tokens' = tokens /\ old' = old
        /\ pc' = [pc EXCEPT ![c] = IF Live(old[c]) /\ ~tokens[old[c]].expired
                                     THEN "revoke" ELSE "refused"]
    BY DEF FindToken, Goto
  <2>5. CASE Live(old[c]) /\ ~tokens[old[c]].expired
    <3>2. Live(old[c])
      BY <2>5
    <3>1. pc' = [pc EXCEPT ![c] = "revoke"]
      BY <2>4, <2>5
    <3> QED
      BY <2>1, <2>3, <2>4, <3>1, <3>2
  <2>6. CASE ~(Live(old[c]) /\ ~tokens[old[c]].expired)
    <3>1. pc' = [pc EXCEPT ![c] = "refused"]
      BY <2>4, <2>6
    <3> QED
      BY <2>1, <2>3, <2>4, <3>1
  <2> QED
    BY <2>5, <2>6
<1>2. OneLivePerLogin' /\ \A i : Live(i)' <=> Live(i)
  <2>1. \A i : Live(i)' <=> Live(i)
    BY <1>1 DEF Live
  <2> QED
    BY <1>1, <2>1 DEF OneLivePerLogin
<1>3. DOMAIN pc = Calls /\ \A d \in Rotations : d # c => pc[d] = "idle"
  BY <1>1, OneRotation DEF TypeOK, ServerTypeOK
<1>4. NoRowYet'
  BY <1>1, <1>2, <1>3, TokenAssumption DEF NoRowYet, Calls
<1>5. NoneLives'
  BY <1>1, <1>3 DEF NoneLives, Calls
<1>6. OnlyOldLives'
  <2> SUFFICES ASSUME NEW d \in Rotations, pc'[d] = "revoke",
                      NEW i \in DOMAIN tokens', Live(i)',
                      tokens'[i].owner = tokens'[old'[d]].owner
               PROVE  i = old'[d]
    BY DEF OnlyOldLives
  <2>1. d = c /\ Live(old[c])
    BY <1>1, <1>3 DEF Calls
  <2>2. i \in DOMAIN tokens /\ Live(i) /\ tokens[i].owner = tokens[old[c]].owner
    BY <1>1, <1>2, <2>1
  <2> QED
    BY <1>1, <2>1, <2>2 DEF OneLivePerLogin
<1> QED
  BY <1>2, <1>4, <1>5, <1>6

LEMMA InsertLive ==
  ASSUME TypeOK, LiveInv, NEW c \in Calls, InsertToken(c)
  PROVE  LiveInv'
<1> USE DEF LiveInv
<1> DEFINE n == Len(tokens) + 1
<1>1. /\ pc[c] = "insert" /\ old' = old
      /\ pc' = [pc EXCEPT ![c] = IF c \in Logins THEN "granted" ELSE "user"]
  BY DEF InsertToken, Goto
<1>2. /\ DOMAIN tokens' = DOMAIN tokens \cup {n}
      /\ n \notin DOMAIN tokens
      /\ \A i \in DOMAIN tokens : tokens'[i] = tokens[i]
      /\ tokens'[n].owner = Owner(c)
  <2>1. tokens \in Seq(Token) /\ Len(tokens) \in Nat
    BY DEF TypeOK, ServerTypeOK
  <2>2. tokens' = Append(tokens, [owner |-> Owner(c), revoked |-> FALSE,
                                  expired |-> FALSE])
    BY DEF InsertToken
  <2>3. DOMAIN tokens = 1..Len(tokens) /\ DOMAIN tokens' = 1..(Len(tokens) + 1)
    BY <2>1, <2>2
  <2> QED
    BY <2>1, <2>2, <2>3
<1>3. \A i \in DOMAIN tokens : Live(i)' <=> Live(i)
  BY <1>2 DEF Live
<1>4. DOMAIN pc = Calls
  BY DEF TypeOK, ServerTypeOK
<1>5. /\ \A i \in DOMAIN tokens : tokens[i].owner = Owner(c) => ~Live(i)
      /\ \A l \in Logins : l # c /\ pc[l] \in {"idle", "insert"} => Owner(c) # l
  <2>1. CASE c \in Logins
    BY <1>1, <2>1 DEF NoRowYet, Owner
  <2>2. CASE c \notin Logins
    <3>1. c \in Rotations /\ Owner(c) = tokens[old[c]].owner
      BY <2>2 DEF Calls, Owner
    <3>2. old[c] \in 0..Len(tokens) /\ old[c] # 0
      BY <1>1, <3>1 DEF TypeOK, ServerTypeOK, Calls
    <3>3. old[c] \in DOMAIN tokens
      BY <3>2 DEF TypeOK, ServerTypeOK
    <3> QED
      BY <1>1, <3>1, <3>3 DEF NoneLives, NoRowYet
  <2> QED
    BY <2>1, <2>2
<1>6. OneLivePerLogin'
  <2> SUFFICES ASSUME NEW i \in DOMAIN tokens', NEW j \in DOMAIN tokens',
                      Live(i)', Live(j)', tokens'[i].owner = tokens'[j].owner
               PROVE  i = j
    BY DEF OneLivePerLogin
  <2> HIDE DEF n
  <2>1. CASE i \in DOMAIN tokens /\ j \in DOMAIN tokens
    BY <1>2, <1>3, <2>1 DEF OneLivePerLogin
  <2>2. CASE i = n /\ j = n
    BY <2>2
  <2>3. ~(i \in DOMAIN tokens /\ j = n)
    BY <1>2, <1>3, <1>5
  <2>4. ~(i = n /\ j \in DOMAIN tokens)
    BY <1>2, <1>3, <1>5
  <2> QED
    BY <1>2, <2>1, <2>2, <2>3, <2>4
<1>7. NoRowYet'
  <2> SUFFICES ASSUME NEW l \in Logins, pc'[l] \in {"idle", "insert"},
                      NEW i \in DOMAIN tokens'
               PROVE  tokens'[i].owner # l
    BY DEF NoRowYet
  <2>1. l # c /\ pc[l] \in {"idle", "insert"}
    BY <1>1, <1>4 DEF Calls
  <2> HIDE DEF n
  <2> QED
    BY <1>2, <1>5, <2>1 DEF NoRowYet
<1>8. \A d \in Rotations : pc'[d] \in {"revoke", "insert"} =>
         /\ d # c /\ pc'[d] = pc[d] /\ pc[c] = "insert" /\ c \in Logins
         /\ old[d] \in DOMAIN tokens
  <2> SUFFICES ASSUME NEW d \in Rotations, pc'[d] \in {"revoke", "insert"}
               PROVE  /\ d # c /\ pc'[d] = pc[d] /\ c \in Logins
                      /\ old[d] \in DOMAIN tokens
    BY <1>1
  <2>1. d # c /\ pc'[d] = pc[d]
    BY <1>1, <1>4 DEF Calls
  <2>2. c \in Logins
    <3> SUFFICES ASSUME c \in Rotations PROVE FALSE
      BY DEF Calls
    <3>1. pc[d] = "idle"
      BY <1>1, <2>1, OneRotation
    <3> QED
      BY <2>1, <3>1
  <2>3. old[d] \in 0..Len(tokens) /\ old[d] # 0
    BY <2>1 DEF TypeOK, ServerTypeOK, Calls
  <2>4. old[d] \in DOMAIN tokens
    BY <2>3 DEF TypeOK, ServerTypeOK
  <2> QED
    BY <2>1, <2>2, <2>4
<1>9. \A d \in Rotations : pc'[d] \in {"revoke", "insert"} =>
         /\ tokens'[old[d]].owner = tokens[old[d]].owner
         /\ tokens'[n].owner # tokens[old[d]].owner
  <2> SUFFICES ASSUME NEW d \in Rotations, pc'[d] \in {"revoke", "insert"}
               PROVE  /\ tokens'[old[d]].owner = tokens[old[d]].owner
                      /\ tokens'[n].owner # tokens[old[d]].owner
    OBVIOUS
  <2> HIDE DEF n
  <2>1. c \in Logins /\ old[d] \in DOMAIN tokens
    BY <1>8
  <2>2. tokens[old[d]].owner # c
    BY <1>1, <2>1 DEF NoRowYet
  <2> QED
    BY <1>2, <2>1, <2>2 DEF Owner
<1>10. OnlyOldLives'
  <2> SUFFICES ASSUME NEW d \in Rotations, pc'[d] = "revoke",
                      NEW i \in DOMAIN tokens', Live(i)',
                      tokens'[i].owner = tokens'[old'[d]].owner
               PROVE  i = old'[d]
    BY DEF OnlyOldLives
  <2> HIDE DEF n
  <2>1. i \in DOMAIN tokens /\ Live(i) /\ tokens[i].owner = tokens[old[d]].owner
    BY <1>1, <1>2, <1>3, <1>9
  <2> QED
    BY <1>1, <1>8, <2>1 DEF OnlyOldLives
<1>11. NoneLives'
  <2> SUFFICES ASSUME NEW d \in Rotations, pc'[d] = "insert",
                      NEW i \in DOMAIN tokens', Live(i)',
                      tokens'[i].owner = tokens'[old'[d]].owner
               PROVE  FALSE
    BY DEF NoneLives
  <2> HIDE DEF n
  <2>1. i \in DOMAIN tokens /\ Live(i) /\ tokens[i].owner = tokens[old[d]].owner
    BY <1>1, <1>2, <1>3, <1>9
  <2> QED
    BY <1>1, <1>8, <2>1 DEF NoneLives
<1> QED
  BY <1>6, <1>7, <1>10, <1>11

LEMMA LiveStep == TypeOK /\ LiveInv /\ [Next]_vars => LiveInv'
<1> SUFFICES ASSUME TypeOK, LiveInv, [Next]_vars
             PROVE  LiveInv'
  OBVIOUS
<1> USE TokenAssumption DEF Goto
<1>t. /\ tokens \in Seq(Token) /\ Len(tokens) \in Nat
      /\ DOMAIN tokens = 1..Len(tokens)
      /\ DOMAIN pc = Calls /\ DOMAIN old = Calls
  BY DEF TypeOK, ServerTypeOK
(* A call moves, not to a step that LiveInv speaks of, and no row changes. *)
<1>0. ASSUME NEW c \in Calls, NEW step,
             tokens' = tokens, pc' = [pc EXCEPT ![c] = step],
             step \notin {"revoke", "insert"} \/ (step = "insert" /\ pc[c] = "idle"),
             c \in Rotations => step # "insert",
             c \in Logins => step # "idle",
             \A d \in Calls : d # c => old'[d] = old[d]
      PROVE  LiveInv'
  <2>1. \A l \in Logins : pc'[l] \in {"idle", "insert"} => pc[l] \in {"idle", "insert"}
    BY <1>0, <1>t DEF Calls
  <2>2. \A d \in Rotations : pc'[d] \in {"revoke", "insert"} =>
                                pc'[d] = pc[d] /\ old'[d] = old[d]
    BY <1>0, <1>t DEF Calls
  <2> QED
    BY <1>0, <2>1, <2>2, LiveKept
(* No call moves, and rows are revoked or expire. *)
<1>00. ASSUME UNCHANGED <<pc, old>>,
              \/ tokens' = tokens
              \/ \E i \in DOMAIN tokens : \/ tokens' = [tokens EXCEPT ![i].revoked = TRUE]
                                          \/ tokens' = [tokens EXCEPT ![i].expired = TRUE]
              \/ tokens' = [i \in DOMAIN tokens |-> [tokens[i] EXCEPT !.revoked = TRUE]]
       PROVE  LiveInv'
  <2>1. \A i \in DOMAIN tokens : tokens[i] \in Token
    BY <1>t
  <2>2. /\ DOMAIN tokens' = DOMAIN tokens
        /\ \A i \in DOMAIN tokens : /\ tokens'[i].owner = tokens[i].owner
                                    /\ tokens[i].revoked => tokens'[i].revoked
    BY <1>00, <2>1 DEF Token
  <2> QED
    BY <1>00, <2>2, LiveKept
<1>1. CASE Server
  <2>1. ASSUME NEW c \in Calls, FindToken(c) \/ SaveRevoked(c) \/ InsertToken(c)
        PROVE  LiveInv'
    BY <2>1, FindLive, RevokeLive, InsertLive
  <2>2. ASSUME NEW c \in Calls, FindUser(c) PROVE LiveInv'
    BY <2>2, <1>0 DEF FindUser
  <2>3. ASSUME NEW c \in Calls, Fails(c) PROVE LiveInv'
    BY <2>3, <1>0 DEF Fails
  <2>4. CASE RevokeAll
    BY <2>4, <1>00 DEF RevokeAll
  <2>5. ASSUME NEW i \in DOMAIN tokens, Expire(i) PROVE LiveInv'
    BY <2>5, <1>00 DEF Expire
  <2> QED
    BY <1>1, <2>1, <2>2, <2>3, <2>4, <2>5 DEF Server, ServerStep, CallStep
<1>3. ASSUME NEW l \in Logins, LogIn(l) PROVE LiveInv'
  <2>1. l \in Calls /\ l \notin Rotations
    BY DEF Calls
  <2> QED
    BY <1>3, <1>0, <2>1 DEF LogIn, StartLogin
<1>4. ASSUME NEW l \in Logins, LoggedIn(l) \/ LoginFails(l) PROVE LiveInv'
  <2>1. l \in Calls /\ l \notin Rotations /\ End(l)
    BY <1>4 DEF Calls, LoggedIn, LoginFails
  <2>2. /\ tokens' = tokens /\ pc' = [pc EXCEPT ![l] = "done"]
        /\ \A d \in Calls : d # l => old'[d] = old[d]
    BY <2>1, <1>t DEF End
  <2> QED
    BY <1>0, <2>1, <2>2
<1>5. ASSUME NEW r \in Rotations, Lead(r) PROVE LiveInv'
  <2>1. r \in Calls /\ r \notin Logins /\ StartRotation(r, refresh)
    BY <1>5 DEF Calls, Lead
  <2>2. /\ tokens' = tokens
        /\ \A d \in Calls : d # r => old'[d] = old[d]
        /\ \/ pc' = [pc EXCEPT ![r] = "refused"]
           \/ pc' = [pc EXCEPT ![r] = "find"]
    BY <2>1, <1>t DEF StartRotation
  <2> QED
    BY <1>0, <2>1, <2>2
<1>6. ASSUME NEW r \in Rotations, Refreshed(r) \/ RefreshFails(r) PROVE LiveInv'
  <2>1. r \in Calls /\ r \notin Logins /\ End(r)
    BY <1>6 DEF Calls, Refreshed, RefreshFails
  <2>2. /\ tokens' = tokens /\ pc' = [pc EXCEPT ![r] = "idle"]
        /\ \A d \in Calls : d # r => old'[d] = old[d]
    BY <2>1, <1>t DEF End
  <2> QED
    BY <1>0, <2>1, <2>2
<1>7. CASE Logout
  <2>1. CASE leaving = 0
    BY <1>7, <2>1, <1>00 DEF Logout, serverVars
  <2>2. CASE leaving # 0
    <3>1. leaving \in DOMAIN tokens
      BY <2>2, <1>t DEF TypeOK, PageTypeOK
    <3> QED
      BY <1>7, <2>2, <3>1, <1>00 DEF Logout, RevokeToken
  <2> QED
    BY <2>1, <2>2
<1>8. ASSUME \/ AccessExpires \/ LogOut \/ LogoutFails \/ LoggedOut
             \/ \E r \in Rotations : SendRequest(r) \/ Answered(r) \/ Enqueue(r)
             \/ UNCHANGED vars
      PROVE  LiveInv'
  <2>1. UNCHANGED <<tokens, pc, old>>
    BY <1>8 DEF AccessExpires, LogOut, LogoutFails, LoggedOut, SendRequest,
                Answered, Enqueue, vars, serverVars
  <2> QED
    BY <2>1, <1>00
<1> QED
  BY <1>1, <1>3, <1>4, <1>5, <1>6, <1>7, <1>8 DEF Next, RequestStep

(* Of the rows that descend from one login at most one is live, for any    *)
(* number of logins, requests, failures and expiries.                      *)
THEOREM OneLive == Spec => []OneLivePerLogin
<1>1. Init => LiveInv
  <2> SUFFICES ASSUME Init PROVE LiveInv
    OBVIOUS
  <2>1. DOMAIN tokens = {} /\ \A c \in Calls : pc[c] = "idle"
    BY DEF Init, ServerInit
  <2> QED
    BY <2>1 DEF LiveInv, OneLivePerLogin, NoRowYet, OnlyOldLives, NoneLives, Calls
<1>2. LiveInv => OneLivePerLogin
  BY DEF LiveInv
<1> QED
  BY <1>1, <1>2, TypeCorrect, LiveStep, PTL DEF Spec

-----------------------------------------------------------------------------
(* What the browser holds.  A row that a call has inserted is not held by  *)
(* anyone else, and only one login is in progress.                         *)

InProgress(l) == pc[l] \notin {"idle", "done"}

OneLogin == \A l, m \in Logins : InProgress(l) /\ InProgress(m) => l = m

NoneInserted ==
    \A c \in Calls : pc[c] \in {"idle", "find", "revoke", "insert", "done"} => new[c] = 0

Unshared ==
    \A c \in Calls : new[c] # 0 =>
        /\ refresh # new[c]
        /\ \A d \in Calls : old[d] # new[c]
        /\ \A d \in Calls : new[d] = new[c] => d = c

RowInv == OneLogin /\ NoneInserted /\ Unshared

(* A row can be rotated unless its session is over.                        *)
Good(i) == tokens[i].owner \in closed \/ (Live(i) /\ ~tokens[i].expired)

(* The rotation of the row has revoked it.                                 *)
Rotated(i) ==
    \E r \in Rotations : old[r] = i /\ pc[r] \in {"insert", "user", "granted"}

GoodInv ==
    faults = 0 =>
        /\ refresh # 0 => Good(refresh) \/ Rotated(refresh)
        /\ \A c \in Calls : pc[c] \in {"user", "granted"} => Good(new[c])
        /\ \A r \in Rotations : pc[r] = "find" => Good(old[r])
        /\ \A r \in Rotations : pc[r] = "refused" /\ old[r] # 0 =>
              tokens[old[r]].owner \in closed

LEMMA Typed ==
  ASSUME TypeOK
  PROVE  /\ tokens \in Seq(Token) /\ Len(tokens) \in Nat /\ DOMAIN tokens = 1..Len(tokens)
         /\ \A i \in DOMAIN tokens : tokens[i] \in Token
         /\ refresh = 0 \/ refresh \in DOMAIN tokens
         /\ leaving = 0 \/ leaving \in DOMAIN tokens
         /\ DOMAIN pc = Calls /\ DOMAIN old = Calls /\ DOMAIN new = Calls
         /\ \A c \in Calls : /\ old[c] = 0 \/ old[c] \in DOMAIN tokens
                             /\ new[c] = 0 \/ new[c] \in DOMAIN tokens
                             /\ pc[c] \in {"user", "granted"} => new[c] # 0
         /\ \A c \in Rotations : pc[c] \in {"find", "revoke", "insert", "user"} => old[c] # 0
         /\ \A l \in Logins : pc[l] \notin {"find", "revoke", "user"}
         /\ closed \subseteq Logins /\ faults \in Nat
<1>1. ServerTypeOK /\ PageTypeOK
  BY DEF TypeOK
<1>2. tokens \in Seq(Token) /\ Len(tokens) \in Nat /\ DOMAIN tokens = 1..Len(tokens)
  BY <1>1 DEF ServerTypeOK
<1>3. \A i \in DOMAIN tokens : tokens[i] \in Token
  BY <1>2
<1>4. \A i \in 0..Len(tokens) : i = 0 \/ i \in DOMAIN tokens
  BY <1>2
<1>5. faults \in Nat
  BY <1>1, TokenAssumption DEF ServerTypeOK
<1>6. QED
  BY <1>1, <1>2, <1>3, <1>4, <1>5 DEF ServerTypeOK, PageTypeOK, Calls

(* Steps that no call of the server takes part in                          *)
Still ==
    /\ UNCHANGED <<pc, old, new>>
    /\ refresh' = refresh \/ refresh' = 0

(* The kinds of steps                                                      *)
LEMMA StepKinds ==
  ASSUME TypeOK, [Next]_vars
  PROVE  \/ Still
         \/ \E c \in Calls : (CallStep(c) \/ Fails(c)) /\ refresh' = refresh
         \/ \E l \in Logins : LogIn(l) \/ LoggedIn(l) \/ LoginFails(l)
         \/ \E r \in Rotations : Lead(r) \/ Refreshed(r) \/ RefreshFails(r)
<1>1. CASE Server
  BY <1>1 DEF Server, ServerStep, RevokeAll, Expire, cookieVars, Still
<1>2. CASE \/ AccessExpires \/ LogOut \/ Logout \/ LogoutFails \/ LoggedOut
           \/ \E r \in Rotations : SendRequest(r) \/ Answered(r) \/ Enqueue(r)
           \/ UNCHANGED vars
  BY <1>2 DEF AccessExpires, LogOut, Logout, LogoutFails, LoggedOut, SendRequest, Answered,
              Enqueue, RevokeToken, vars, serverVars, cookieVars, Still
<1>3. QED
  BY <1>1, <1>2 DEF Next, RequestStep

(* What a call of the server does to itself                                *)
LEMMA CallMoves ==
  ASSUME TypeOK, NEW c \in Calls, CallStep(c) \/ Fails(c)
  PROVE  /\ old' = old
         /\ \A d \in Calls : d # c => pc'[d] = pc[d] /\ new'[d] = new[d]
         /\ pc[c] \notin {"idle", "done", "refused"}
         /\ pc'[c] \in {"revoke", "insert", "user", "granted", "refused"}
         /\ c \in Logins => pc[c] \in {"insert", "granted"}
         /\ pc'[c] \in {"revoke", "insert"} => pc[c] \in {"find", "revoke"} /\ new'[c] = new[c]
         /\ ~InsertToken(c) => new' = new
<1>1. CASE FindToken(c)
  BY <1>1, Typed DEF FindToken, Goto, InsertToken
<1>2. CASE SaveRevoked(c)
  BY <1>2, Typed DEF SaveRevoked, Goto, InsertToken
<1>3. CASE InsertToken(c)
  BY <1>3, Typed DEF InsertToken, Goto
<1>4. CASE FindUser(c)
  BY <1>4, Typed DEF FindUser, Goto, InsertToken
<1>5. CASE Fails(c)
  BY <1>5, Typed DEF Fails, Goto, InsertToken
<1>6. QED
  BY <1>1, <1>2, <1>3, <1>4, <1>5 DEF CallStep

(* The answer of a call is taken.                                          *)
LEMMA Ends ==
  ASSUME TypeOK, NEW c \in Calls, End(c)
  PROVE  /\ pc'[c] = (IF c \in Logins THEN "done" ELSE "idle") /\ old'[c] = 0 /\ new'[c] = 0
         /\ \A d \in Calls : d # c => pc'[d] = pc[d] /\ old'[d] = old[d] /\ new'[d] = new[d]
         /\ UNCHANGED <<tokens, closed, faults>>
BY Typed DEF End, Goto

LEMMA RowStep == TypeOK /\ RowInv /\ [Next]_vars => RowInv'
<1> SUFFICES ASSUME TypeOK, RowInv, [Next]_vars
             PROVE  RowInv'
  OBVIOUS
<1> USE DEF RowInv
<1>1. CASE Still
  BY <1>1 DEF Still, OneLogin, InProgress, NoneInserted, Unshared
<1>2. ASSUME NEW c \in Calls, CallStep(c) \/ Fails(c), refresh' = refresh
      PROVE  RowInv'
  <2>1. /\ old' = old
        /\ \A d \in Calls : d # c => pc'[d] = pc[d] /\ new'[d] = new[d]
        /\ pc[c] \notin {"idle", "done", "refused"}
        /\ pc'[c] \in {"revoke", "insert", "user", "granted", "refused"}
        /\ pc'[c] \in {"revoke", "insert"} => pc[c] \in {"find", "revoke"} /\ new'[c] = new[c]
        /\ ~InsertToken(c) => new' = new
    BY <1>2, CallMoves
  <2>2. OneLogin'
    BY <2>1 DEF OneLogin, InProgress, Calls
  <2>3. NoneInserted'
    BY <2>1 DEF NoneInserted
  <2>4. Unshared'
    <3>1. CASE ~InsertToken(c)
      BY <1>2, <2>1, <3>1 DEF Unshared
    <3>2. CASE InsertToken(c)
      <4>1. new'[c] \notin DOMAIN tokens /\ new'[c] # 0
        BY <3>2, Typed DEF InsertToken
      <4>2. QED
        BY <1>2, <2>1, <4>1, Typed DEF Unshared
    <3>3. QED
      BY <3>1, <3>2
  <2>5. QED
    BY <2>2, <2>3, <2>4
<1>3. ASSUME NEW l \in Logins, LogIn(l)
      PROVE  RowInv'
  <2>1. /\ UNCHANGED <<refresh, old, new>> /\ pc[l] = "idle" /\ l \in Calls
        /\ pc' = [pc EXCEPT ![l] = "insert"]
        /\ \A m \in Logins : pc[m] \in {"idle", "done"}
    BY <1>3 DEF LogIn, StartLogin, Goto, Calls, cookieVars
  <2>2. \A c \in Calls : c # l => pc'[c] = pc[c]
    BY <2>1
  <2>3. OneLogin'
    BY <2>1, <2>2 DEF OneLogin, InProgress, Calls
  <2>4. NoneInserted' /\ Unshared'
    BY <2>1, <2>2 DEF NoneInserted, Unshared
  <2>5. QED
    BY <2>3, <2>4
<1>4. ASSUME NEW r \in Rotations, Lead(r)
      PROVE  RowInv'
  <2>1. /\ UNCHANGED <<refresh, new>> /\ pc[r] = "idle" /\ r \in Calls /\ r \notin Logins
        /\ old' = [old EXCEPT ![r] = refresh]
        /\ \A c \in Calls : c # r => pc'[c] = pc[c]
    BY <1>4, TokenAssumption, Typed DEF Lead, StartRotation, Goto, Calls, cookieVars
  <2>2. OneLogin'
    BY <2>1 DEF OneLogin, InProgress, Calls
  <2>3. NoneInserted'
    BY <2>1 DEF NoneInserted
  <2>4. \A c \in Calls : old'[c] = old[c] \/ old'[c] = refresh
    BY <2>1, Typed
  <2>5. Unshared'
    BY <2>1, <2>4 DEF Unshared
  <2>6. QED
    BY <2>2, <2>3, <2>5
<1>5. ASSUME NEW c \in Calls, End(c), refresh' = refresh \/ refresh' = new[c]
      PROVE  RowInv'
  <2>1. /\ pc'[c] \in {"idle", "done"} /\ old'[c] = 0 /\ new'[c] = 0
        /\ \A d \in Calls : d # c => pc'[d] = pc[d] /\ old'[d] = old[d] /\ new'[d] = new[d]
    BY <1>5, Ends
  <2>2. OneLogin'
    BY <2>1 DEF OneLogin, InProgress, Calls
  <2>3. NoneInserted'
    BY <2>1 DEF NoneInserted
  <2>4. Unshared'
    BY <1>5, <2>1 DEF Unshared
  <2>5. QED
    BY <2>2, <2>3, <2>4
<1>6. ASSUME NEW l \in Logins, LoggedIn(l) \/ LoginFails(l)
      PROVE  RowInv'
  BY <1>5, <1>6 DEF LoggedIn, LoginFails, SetCookies, Calls, cookieVars
<1>7. ASSUME NEW r \in Rotations, Refreshed(r) \/ RefreshFails(r)
      PROVE  RowInv'
  BY <1>5, <1>7 DEF Refreshed, RefreshFails, SetCookies, Calls
<1>8. QED
  BY <1>1, <1>2, <1>3, <1>4, <1>6, <1>7, StepKinds

(* Rows stay, and sessions end for good; a row turns bad only with its     *)
(* session's end, or when it is rotated.                                   *)
LEMMA RowsStay ==
  ASSUME TypeOK, [Next]_vars
  PROVE  /\ closed \subseteq closed'
         /\ faults' = 0 => faults = 0
         /\ \A i \in DOMAIN tokens :
               /\ i \in DOMAIN tokens' /\ tokens'[i].owner = tokens[i].owner
               /\ Good(i) => Good(i)' \/ \E c \in Calls : SaveRevoked(c) /\ old[c] = i
<1> DEFINE Stay(i) ==
             /\ i \in DOMAIN tokens' /\ tokens'[i].owner = tokens[i].owner
             /\ Good(i) => Good(i)' \/ \E c \in Calls : SaveRevoked(c) /\ old[c] = i
<1>1. ASSUME UNCHANGED <<tokens, closed>>
      PROVE  \A i \in DOMAIN tokens : Stay(i)
  BY <1>1 DEF Good, Live
<1>2. ASSUME NEW c \in Calls, SaveRevoked(c), NEW i \in DOMAIN tokens
      PROVE  Stay(i)
  <2>1. /\ tokens' = [tokens EXCEPT ![old[c]] = [tokens[old[c]] EXCEPT !.revoked = TRUE]]
        /\ closed' = closed
    BY <1>2 DEF SaveRevoked
  <2>2. tokens[i] \in Token
    BY Typed
  <2>3. CASE i = old[c]
    BY <1>2, <2>1, <2>2, <2>3 DEF Token
  <2>4. CASE i # old[c]
    BY <2>1, <2>4 DEF Good, Live
  <2>5. QED
    BY <2>3, <2>4
<1>3. ASSUME NEW c \in Calls, InsertToken(c), NEW i \in DOMAIN tokens
      PROVE  Stay(i)
  <2>1. i \in DOMAIN tokens' /\ tokens'[i] = tokens[i] /\ closed' = closed
    BY <1>3, Typed DEF InsertToken
  <2>2. QED
    BY <2>1 DEF Good, Live
<1>4. ASSUME RevokeAll, NEW i \in DOMAIN tokens
      PROVE  Stay(i) /\ closed \subseteq closed'
  <2>1. /\ DOMAIN tokens' = DOMAIN tokens
        /\ tokens'[i] = [tokens[i] EXCEPT !.revoked = TRUE]
        /\ closed' = closed \cup {tokens[j].owner : j \in {k \in DOMAIN tokens : Live(k)}}
    BY <1>4 DEF RevokeAll
  <2>2. tokens[i] \in Token
    BY Typed
  <2>3. tokens'[i].owner = tokens[i].owner
    BY <2>1, <2>2 DEF Token
  <2>4. Good(i) => tokens[i].owner \in closed'
    BY <2>1 DEF Good
  <2>5. QED
    BY <2>1, <2>3, <2>4 DEF Good
<1>5. ASSUME NEW j \in DOMAIN tokens, Expire(j) \/ RevokeToken(j), NEW i \in DOMAIN tokens
      PROVE  Stay(i)
  <2>1. /\ \/ tokens' = [tokens EXCEPT ![j] = [tokens[j] EXCEPT !.expired = TRUE]]
           \/ tokens' = [tokens EXCEPT ![j] = [tokens[j] EXCEPT !.revoked = TRUE]]
        /\ closed' = closed \cup {tokens[j].owner}
    BY <1>5 DEF Expire, RevokeToken
  <2>2. tokens[i] \in Token
    BY Typed
  <2>3. CASE i = j
    <3>1. tokens'[i].owner = tokens[i].owner /\ i \in DOMAIN tokens'
      BY <2>1, <2>2, <2>3 DEF Token
    <3>2. QED
      BY <2>1, <2>3, <3>1 DEF Good
  <2>4. CASE i # j
    <3>1. tokens'[i] = tokens[i] /\ i \in DOMAIN tokens'
      BY <2>1, <2>4
    <3>2. QED
      BY <2>1, <3>1 DEF Good, Live
  <2>5. QED
    BY <2>3, <2>4
<1>6. \A i \in DOMAIN tokens : Stay(i)
  <2> HIDE DEF Stay
  <2>1. CASE Server
    <3>1. ASSUME NEW c \in Calls, FindToken(c) \/ FindUser(c) \/ Fails(c)
          PROVE  \A i \in DOMAIN tokens : Stay(i)
      BY <1>1, <3>1 DEF FindToken, FindUser, Fails
    <3>2. QED
      BY <2>1, <3>1, <1>2, <1>3, <1>4, <1>5 DEF Server, ServerStep, CallStep
  <2>2. CASE Logout
    BY <1>1, <1>5, <2>2, Typed DEF Logout, serverVars
  <2>3. CASE ~Server /\ ~Logout
    <3>1. UNCHANGED <<tokens, closed>>
      BY <2>3 DEF Next, RequestStep, AccessExpires, LogIn, StartLogin, LoggedIn, LoginFails,
                  LogOut, LogoutFails, LoggedOut, SendRequest, Answered, Enqueue, Lead,
                  StartRotation, Refreshed, RefreshFails, End, vars, serverVars
    <3>2. QED
      BY <1>1, <3>1
  <2>4. QED
    BY <2>1, <2>2, <2>3
<1>7. closed \subseteq closed'
  <2>1. CASE Server
    BY <2>1, <1>4 DEF Server, ServerStep, CallStep, FindToken, SaveRevoked, InsertToken,
                      FindUser, Fails, RevokeAll, Expire
  <2>2. CASE ~Server
    BY <2>2 DEF Next, RequestStep, AccessExpires, LogIn, StartLogin, LoggedIn, LoginFails,
                LogOut, Logout, RevokeToken, LogoutFails, LoggedOut, SendRequest, Answered,
                Enqueue, Lead, StartRotation, Refreshed, RefreshFails, End, vars, serverVars
  <2>3. QED
    BY <2>1, <2>2
<1>8. faults' = faults \/ faults' = faults + 1
  <2>1. CASE Server
    BY <2>1 DEF Server, ServerStep, CallStep, FindToken, SaveRevoked, InsertToken,
                FindUser, Fails, RevokeAll, Expire
  <2>2. CASE ~Server
    BY <2>2 DEF Next, RequestStep, AccessExpires, LogIn, StartLogin, LoggedIn, LoginFails,
                LogOut, Logout, RevokeToken, LogoutFails, LoggedOut, SendRequest, Answered,
                Enqueue, Lead, StartRotation, Refreshed, RefreshFails, End, vars, serverVars
  <2>3. QED
    BY <2>1, <2>2
<1>9. faults' = 0 => faults = 0
  BY <1>8, Typed
<1>10. QED
  BY <1>6, <1>7, <1>9

LEMMA GoodStep == TypeOK /\ RowInv /\ GoodInv /\ [Next]_vars => GoodInv'
<1> SUFFICES ASSUME TypeOK, RowInv, GoodInv, [Next]_vars, faults = 0, faults' = 0
             PROVE  GoodInv'
  BY RowsStay DEF GoodInv
<1>1. /\ closed \subseteq closed'
      /\ \A i \in DOMAIN tokens :
            /\ i \in DOMAIN tokens' /\ tokens'[i].owner = tokens[i].owner
            /\ Good(i) => Good(i)' \/ \E c \in Calls : SaveRevoked(c) /\ old[c] = i
  BY RowsStay
<1>2. /\ refresh # 0 => Good(refresh) \/ Rotated(refresh)
      /\ \A c \in Calls : pc[c] \in {"user", "granted"} => Good(new[c])
      /\ \A r \in Rotations : pc[r] = "find" => Good(old[r])
      /\ \A r \in Rotations : pc[r] = "refused" /\ old[r] # 0 =>
            tokens[old[r]].owner \in closed
  BY DEF GoodInv
<1>3. /\ refresh = 0 \/ refresh \in DOMAIN tokens
      /\ \A c \in Calls : /\ old[c] = 0 \/ old[c] \in DOMAIN tokens
                          /\ new[c] = 0 \/ new[c] \in DOMAIN tokens
                          /\ pc[c] \in {"user", "granted"} => new[c] # 0
      /\ \A c \in Rotations : pc[c] \in {"find", "revoke", "insert", "user"} => old[c] # 0
      /\ Rotations \subseteq Calls /\ Logins \subseteq Calls /\ Logins \cap Rotations = {}
  BY Typed, TokenAssumption DEF Calls
(* No row is rotated in the step.                                          *)
<1>4. ASSUME \A c \in Calls : ~SaveRevoked(c)
      PROVE  \A i \in DOMAIN tokens : Good(i) => Good(i)'
  BY <1>1, <1>4
<1>5. ASSUME NEW c \in Calls, pc'[c] \notin {"insert"}, \A d \in Calls : d # c => pc'[d] = pc[d]
      PROVE  \A d \in Calls : ~SaveRevoked(d)
  BY <1>5, Typed DEF SaveRevoked, Goto
<1>6. CASE Still
  <2>1. UNCHANGED <<pc, old, new>> /\ (refresh' = refresh \/ refresh' = 0)
    BY <1>6 DEF Still
  <2>2. \A i \in DOMAIN tokens : Good(i) => Good(i)'
    <3>1. \A d \in Calls : ~SaveRevoked(d)
      BY <2>1, Typed DEF SaveRevoked, Goto
    <3>2. QED
      BY <1>4, <3>1
  <2>3. refresh' = refresh /\ Rotated(refresh) => Rotated(refresh)'
    BY <2>1 DEF Rotated
  <2>4. refresh' # 0 => Good(refresh)' \/ Rotated(refresh)'
    BY <1>2, <1>3, <2>1, <2>2, <2>3
  <2>5. QED
    BY <1>1, <1>2, <1>3, <2>1, <2>2, <2>4 DEF GoodInv
<1>7. ASSUME NEW c \in Calls, CallStep(c) \/ Fails(c), refresh' = refresh
      PROVE  GoodInv'
  <2>1. /\ old' = old
        /\ \A d \in Calls : d # c => pc'[d] = pc[d] /\ new'[d] = new[d]
        /\ pc[c] \notin {"idle", "done", "refused"}
        /\ ~InsertToken(c) => new' = new
    BY <1>7, CallMoves
  <2>2. CASE FindToken(c)
    <3>1. /\ c \in Rotations /\ old[c] \in DOMAIN tokens /\ pc[c] = "find"
          /\ UNCHANGED <<tokens, closed, new>>
          /\ pc'[c] = IF Live(old[c]) /\ ~tokens[old[c]].expired THEN "revoke" ELSE "refused"
      BY <2>2, Typed DEF FindToken, Goto, Calls
    <3>2. \A i : Good(i)' <=> Good(i)
      BY <3>1 DEF Good, Live
    <3>3. Rotated(refresh) => Rotated(refresh)'
      BY <1>3, <1>7, <2>1, <3>1 DEF Rotated
    <3>4. pc'[c] = "refused" => tokens[old[c]].owner \in closed
      BY <1>2, <3>1 DEF Good
    <3>5. QED
      BY <1>2, <1>3, <1>7, <2>1, <3>1, <3>2, <3>3, <3>4 DEF GoodInv
  <2>3. CASE SaveRevoked(c)
    <3>1. /\ c \in Rotations /\ old[c] \in DOMAIN tokens /\ pc[c] = "revoke"
          /\ pc'[c] = "insert" /\ new' = new
      BY <2>3, Typed DEF SaveRevoked, Goto, Calls
    <3>2. \A d \in Calls : SaveRevoked(d) => d = c
      BY <2>1, <3>1, Typed DEF SaveRevoked, Goto
    <3>3. \A r \in Rotations : r # c => pc[r] = "idle"
      BY <3>1, OneRotation
    <3>4. \A i \in DOMAIN tokens : Good(i) /\ i # old[c] => Good(i)'
      BY <1>1, <3>2
    <3>5. refresh # 0 => Good(refresh)' \/ Rotated(refresh)'
      <4>1. Rotated(old[c])'
        BY <2>1, <3>1 DEF Rotated
      <4>2. ~Rotated(refresh)
        BY <3>1, <3>3 DEF Rotated
      <4>3. CASE refresh = old[c]
        BY <1>7, <2>1, <3>1, <4>3 DEF Rotated
      <4>4. CASE refresh # old[c]
        BY <1>2, <1>3, <1>7, <3>4, <4>2, <4>4
      <4>5. QED
        BY <4>3, <4>4
    <3>6. ASSUME NEW d \in Calls, pc'[d] \in {"user", "granted"}
          PROVE  Good(new[d])'
      <4>1. pc[d] \in {"user", "granted"} /\ new[d] # old[c] /\ new[d] \in DOMAIN tokens
        BY <1>3, <2>1, <3>1, <3>6 DEF RowInv, Unshared
      <4>2. QED
        BY <1>2, <3>1, <3>4, <4>1
    <3>7. \A r \in Rotations : pc'[r] \notin {"find", "refused"}
      BY <1>3, <2>1, <3>1, <3>3
    <3>8. QED
      BY <1>7, <3>1, <3>5, <3>6, <3>7 DEF GoodInv
  <2>4. CASE InsertToken(c)
    <3>1. /\ pc[c] = "insert" /\ pc'[c] \in {"user", "granted"}
          /\ new'[c] = Len(tokens) + 1 /\ closed' = closed
          /\ ~tokens'[new'[c]].revoked /\ ~tokens'[new'[c]].expired
      <4>1. /\ tokens' = Append(tokens, [owner |-> Owner(c), revoked |-> FALSE,
                                         expired |-> FALSE])
            /\ new'[c] = Len(tokens) + 1 /\ tokens \in Seq(Token)
        BY <2>4, Typed DEF InsertToken
      <4>2. tokens'[new'[c]] = [owner |-> Owner(c), revoked |-> FALSE, expired |-> FALSE]
        BY <4>1
      <4>3. QED
        BY <2>4, <4>1, <4>2, Typed DEF InsertToken, Goto
    <3>2. \A i \in DOMAIN tokens : Good(i) => Good(i)'
      BY <1>4, <1>5, <2>1, <3>1
    <3>3. Good(new[c])'
      BY <3>1 DEF Good, Live
    <3>4. Rotated(refresh) => Rotated(refresh)'
      BY <1>3, <1>7, <2>1, <3>1 DEF Rotated
    <3>5. ASSUME NEW d \in Calls, pc'[d] \in {"user", "granted"}
          PROVE  Good(new[d])'
      <4>1. CASE d = c
        BY <3>3, <4>1
      <4>2. CASE d # c
        BY <1>2, <1>3, <2>1, <3>2, <3>5, <4>2 DEF Good, Live
      <4>3. QED
        BY <4>1, <4>2
    <3>6. \A r \in Rotations : pc'[r] \in {"find", "refused"} => pc'[r] = pc[r] /\ old[r] = old'[r]
      BY <1>3, <2>1, <3>1
    <3>7. refresh # 0 => Good(refresh)' \/ Rotated(refresh)'
      BY <1>2, <1>3, <1>7, <3>2, <3>4
    <3>8. \A r \in Rotations : pc'[r] = "find" => Good(old[r])'
      BY <1>2, <1>3, <2>1, <3>2, <3>6
    <3>9. \A r \in Rotations : pc'[r] = "refused" /\ old'[r] # 0 =>
            tokens'[old'[r]].owner \in closed'
      BY <1>1, <1>2, <1>3, <2>1, <3>6
    <3>10. QED
      BY <1>7, <3>5, <3>7, <3>8, <3>9 DEF GoodInv
  <2>5. CASE FindUser(c)
    <3>1. /\ pc[c] = "user" /\ pc'[c] = "granted"
          /\ UNCHANGED <<tokens, closed, old, new>>
      BY <2>5, Typed DEF FindUser, Goto
    <3>2. \A i : Good(i)' <=> Good(i)
      BY <3>1 DEF Good, Live
    <3>3. Rotated(refresh) => Rotated(refresh)'
      BY <1>3, <1>7, <2>1, <3>1 DEF Rotated
    <3>4. QED
      BY <1>2, <1>3, <1>7, <2>1, <3>1, <3>2, <3>3 DEF GoodInv
  <2>6. CASE Fails(c)
    BY <2>6 DEF Fails
  <2>7. QED
    BY <1>7, <2>2, <2>3, <2>4, <2>5, <2>6 DEF CallStep
<1>8. ASSUME NEW l \in Logins, LogIn(l)
      PROVE  GoodInv'
  <2>1. /\ UNCHANGED <<tokens, closed, refresh, old, new>> /\ pc'[l] = "insert"
        /\ \A d \in Calls : d # l => pc'[d] = pc[d]
    BY <1>8, Typed DEF LogIn, StartLogin, Goto, Calls, cookieVars
  <2>2. \A i : Good(i)' <=> Good(i)
    BY <2>1 DEF Good, Live
  <2>3. \A r \in Rotations : pc'[r] = pc[r]
    BY <1>3, <2>1
  <2>4. Rotated(refresh) => Rotated(refresh)'
    BY <2>1, <2>3 DEF Rotated
  <2>5. \A d \in Calls : pc'[d] \in {"user", "granted"} => pc[d] = pc'[d]
    BY <2>1
  <2>6. QED
    BY <1>2, <2>1, <2>2, <2>3, <2>4, <2>5 DEF GoodInv
<1>9. ASSUME NEW r \in Rotations, Lead(r)
      PROVE  GoodInv'
  <2>1. /\ UNCHANGED <<tokens, closed, refresh, new>> /\ old'[r] = refresh
        /\ pc'[r] = (IF refresh = 0 THEN "refused" ELSE "find")
        /\ ~refreshing
        /\ \A d \in Calls : d # r => pc'[d] = pc[d] /\ old'[d] = old[d]
    BY <1>3, <1>9, Typed DEF Lead, StartRotation, Goto, cookieVars
  <2>2. \A s \in Rotations : pc[s] = "idle"
    BY <2>1 DEF TypeOK, LeaderOK
  <2>3. \A i : Good(i)' <=> Good(i)
    BY <2>1 DEF Good, Live
  <2>4. refresh # 0 => Good(refresh)
    BY <1>2, <2>2 DEF Rotated
  <2>5. \A s \in Rotations : pc'[s] # "idle" => s = r
    BY <1>3, <2>1, <2>2
  <2>6. \A d \in Calls : pc'[d] \in {"user", "granted"} => pc[d] = pc'[d]
    BY <2>1
  <2>7. QED
    BY <1>2, <2>1, <2>3, <2>4, <2>5, <2>6 DEF GoodInv
<1>10. ASSUME NEW c \in Calls, End(c),
              \/ refresh' = refresh /\ (c \in Rotations => pc[c] = "refused")
              \/ refresh' = new[c] /\ pc[c] = "granted"
       PROVE  GoodInv'
  <2>1. /\ pc'[c] \in {"idle", "done"} /\ old'[c] = 0
        /\ \A d \in Calls : d # c => pc'[d] = pc[d] /\ old'[d] = old[d] /\ new'[d] = new[d]
        /\ UNCHANGED <<tokens, closed>>
    BY <1>10, Ends
  <2>2. \A i : Good(i)' <=> Good(i)
    BY <2>1 DEF Good, Live
  <2>3. refresh' # 0 => Good(refresh)' \/ Rotated(refresh)'
    <3>1. CASE refresh' = refresh /\ (c \in Rotations => pc[c] = "refused")
      <4>1. Rotated(refresh) => Rotated(refresh)'
        BY <1>3, <2>1, <3>1 DEF Rotated
      <4>2. QED
        BY <1>2, <2>2, <3>1, <4>1
    <3>2. CASE refresh' = new[c] /\ pc[c] = "granted"
      <4>1. Good(refresh')
        BY <1>2, <3>2
      <4>2. Good(refresh)'
        BY <2>1, <4>1 DEF Good, Live
      <4>3. QED
        BY <4>2
    <3>3. QED
      BY <1>10, <3>1, <3>2
  <2>4. QED
    BY <1>2, <1>3, <2>1, <2>2, <2>3 DEF GoodInv
<1>11. ASSUME NEW l \in Logins, LoggedIn(l) \/ LoginFails(l)
       PROVE  GoodInv'
  BY <1>3, <1>10, <1>11 DEF LoggedIn, LoginFails, SetCookies, cookieVars
<1>12. ASSUME NEW r \in Rotations, Refreshed(r) \/ RefreshFails(r)
       PROVE  GoodInv'
  BY <1>3, <1>10, <1>12 DEF Refreshed, RefreshFails, SetCookies
<1>13. QED
  BY <1>6, <1>7, <1>8, <1>9, <1>11, <1>12, StepKinds

LEMMA BrowserInit == Init => RowInv /\ GoodInv
<1> SUFFICES ASSUME Init
             PROVE  RowInv /\ GoodInv
  OBVIOUS
<1>1. /\ DOMAIN tokens = {} /\ refresh = 0
      /\ \A c \in Calls : pc[c] = "idle" /\ old[c] = 0 /\ new[c] = 0
      /\ Logins \subseteq Calls /\ Rotations \subseteq Calls
  BY DEF Init, ServerInit, Calls
<1>2. QED
  BY <1>1 DEF RowInv, OneLogin, InProgress, NoneInserted, Unshared, GoodInv

LEMMA GoodInvariant == Spec => [](TypeOK /\ RowInv /\ GoodInv)
  BY BrowserInit, TypeCorrect, RowStep, GoodStep, PTL DEF Spec

(* The browser is sent to the login form with a refresh token only when    *)
(* the session of that token has ended or a call failed, for any number of *)
(* logins and requests.                                                    *)
THEOREM BouncedWhenOver == Spec => BouncedOnlyWhenOver
<1>1. ASSUME TypeOK, GoodInv, [Next]_vars
      PROVE  \A r \in Rotations :
                RefreshFails(r) /\ old[r] # 0 =>
                    faults > 0 \/ tokens[old[r]].owner \in closed
  <2> SUFFICES ASSUME NEW r \in Rotations, RefreshFails(r), old[r] # 0, ~(faults > 0)
               PROVE  tokens[old[r]].owner \in closed
    OBVIOUS
  <2>1. faults = 0
    BY <1>1, Typed
  <2>2. QED
    BY <1>1, <2>1 DEF GoodInv, RefreshFails
<1>2. QED
  BY <1>1, GoodInvariant, PTL DEF Spec, BouncedOnlyWhenOver

-----------------------------------------------------------------------------
(* While no session has ended and no call failed, the page is logged in    *)
(* exactly when it holds a token, and a rotation is one of that token.     *)

Holds ==
    /\ flag <=> refresh # 0
    /\ logout \in {"idle", "sent"} /\ (logout = "sent" => leaving # 0)
    /\ unheard = {}
    /\ \A r \in Rotations : req[r] # "idle" => flag
    /\ \A l \in Logins : InProgress(l) => ~flag
    /\ \A c \in Calls : pc[c] # "refused"
    /\ \A r \in Rotations : pc[r] # "idle" => old[r] = refresh
    /\ \A r \in Rotations : pc[r] \in {"insert", "user", "granted"} => ~Live(old[r])
    /\ \A i \in DOMAIN tokens : Live(i) => refresh = i \/ \E c \in Calls : new[c] = i

HeldInv == faults = 0 /\ closed = {} => Holds

(* A step that no call takes part in and that closes nothing               *)
LEMMA HeldStill ==
  ASSUME TypeOK, Holds, Still, refresh' = refresh, UNCHANGED <<flag, unheard>>,
         \A i \in DOMAIN tokens' : i \in DOMAIN tokens /\ (Live(i)' <=> Live(i)),
         DOMAIN tokens' = DOMAIN tokens,
         logout' \in {"idle", "sent"}, logout' = "sent" => leaving' # 0,
         \A r \in Rotations : req'[r] # "idle" => flag
  PROVE  Holds'
<1>1. UNCHANGED <<pc, old, new, refresh, flag, unheard>>
  BY DEF Still
<1>2. \A r \in Rotations : pc[r] \in {"insert", "user", "granted"} => ~Live(old[r])'
  <2> SUFFICES ASSUME NEW r \in Rotations, pc[r] \in {"insert", "user", "granted"}
               PROVE  ~Live(old[r])'
    OBVIOUS
  <2>1. r \in Calls /\ old[r] # 0
    <3>1. flag /\ old[r] = refresh
      BY DEF Holds, TypeOK, LeaderOK
    <3>2. QED
      BY <3>1 DEF Holds, Calls
  <2>2. old[r] \in DOMAIN tokens /\ ~Live(old[r])
    BY <2>1, Typed DEF Holds
  <2>3. QED
    BY <1>1, <2>2
<1>3. QED
  BY <1>1, <1>2 DEF Holds, InProgress

LEMMA HeldStep == TypeOK /\ RowInv /\ GoodInv /\ HeldInv /\ [Next]_vars => HeldInv'
<1> SUFFICES ASSUME TypeOK, RowInv, GoodInv, Holds, [Next]_vars,
                    faults = 0, closed = {}, faults' = 0, closed' = {}
             PROVE  Holds'
  BY RowsStay DEF HeldInv
<1>1. /\ Rotations \subseteq Calls /\ Logins \subseteq Calls /\ Logins \cap Rotations = {}
      /\ \A r \in Rotations : pc[r] # "idle" => flag /\ refresh # 0 /\ old[r] \in DOMAIN tokens
      /\ \A l \in Logins : InProgress(l) => \A r \in Rotations : pc[r] = "idle"
  <2>1. Rotations \subseteq Calls /\ Logins \subseteq Calls /\ Logins \cap Rotations = {}
    BY TokenAssumption DEF Calls
  <2>2. ASSUME NEW r \in Rotations, pc[r] # "idle"
        PROVE  flag /\ refresh # 0 /\ old[r] \in DOMAIN tokens
    BY <2>2, Typed DEF Holds, TypeOK, LeaderOK
  <2>3. QED
    BY <2>1, <2>2 DEF Holds
<1>2. ASSUME NEW c \in Calls, CallStep(c) \/ Fails(c),
             UNCHANGED <<refresh, flag, unheard, logout, leaving, req>>
      PROVE  Holds'
  <2>1. /\ old' = old
        /\ \A d \in Calls : d # c => pc'[d] = pc[d] /\ new'[d] = new[d]
        /\ pc[c] \notin {"idle", "done", "refused"}
        /\ ~InsertToken(c) => new' = new
    BY <1>2, CallMoves
  <2>2. \A l \in Logins : InProgress(l)' => InProgress(l)
    BY <1>1, <2>1 DEF InProgress
  <2>3. \A r \in Rotations : r # c /\ c \in Rotations => pc'[r] = "idle"
    BY <1>1, <2>1, OneRotation
  <2>4. CASE FindToken(c)
    <3>1. /\ c \in Rotations /\ pc[c] = "find"
          /\ tokens' = tokens /\ new' = new
          /\ pc'[c] = IF Live(old[c]) /\ ~tokens[old[c]].expired THEN "revoke" ELSE "refused"
      BY <2>4, Typed DEF FindToken, Goto, Calls
    <3>2. pc'[c] = "revoke"
      BY <3>1 DEF GoodInv, Good
    <3>3. \A i : Live(i)' <=> Live(i)
      BY <3>1 DEF Live
    <3>4. QED
      BY <1>2, <2>1, <2>2, <2>3, <3>1, <3>2, <3>3 DEF Holds
  <2>5. CASE SaveRevoked(c)
    <3>1. /\ c \in Rotations /\ pc[c] = "revoke" /\ pc'[c] = "insert"
          /\ tokens' = [tokens EXCEPT ![old[c]] = [tokens[old[c]] EXCEPT !.revoked = TRUE]]
          /\ new' = new
      BY <2>5, Typed DEF SaveRevoked, Goto, Calls
    <3>2. old[c] \in DOMAIN tokens /\ tokens[old[c]] \in Token
      BY <1>1, <3>1, Typed
    <3>3. ~Live(old[c])'
      BY <2>1, <3>1, <3>2 DEF Live, Token
    <3>4. \A i \in DOMAIN tokens' : i \in DOMAIN tokens /\ (Live(i)' => Live(i))
      BY <2>1, <3>1, <3>3 DEF Live
    <3>5. QED
      BY <1>2, <2>1, <2>2, <2>3, <3>1, <3>3, <3>4 DEF Holds
  <2>6. CASE InsertToken(c)
    <3>1. /\ pc[c] = "insert" /\ pc'[c] = (IF c \in Logins THEN "granted" ELSE "user")
          /\ tokens' = Append(tokens, [owner |-> Owner(c), revoked |-> FALSE,
                                       expired |-> FALSE])
          /\ new'[c] = Len(tokens) + 1 /\ new[c] = 0
      BY <2>6, Typed DEF InsertToken, Goto, RowInv, NoneInserted
    <3>2. /\ \A i \in DOMAIN tokens : Live(i)' <=> Live(i)
          /\ \A i \in DOMAIN tokens' : i \in DOMAIN tokens \/ i = new'[c]
      BY <3>1, Typed DEF Live
    <3>3. \A r \in Rotations : pc'[r] \in {"insert", "user", "granted"} =>
             pc[r] \in {"insert", "user", "granted"} /\ ~Live(old[r])'
      <4>1. \A r \in Rotations : pc'[r] \in {"insert", "user", "granted"} =>
               pc[r] \in {"insert", "user", "granted"}
        BY <1>1, <2>1, <3>1
      <4>2. ASSUME NEW r \in Rotations, pc[r] \in {"insert", "user", "granted"}
            PROVE  ~Live(old[r])'
        <5>1. old[r] \in DOMAIN tokens /\ ~Live(old[r])
          BY <1>1, <4>2 DEF Holds
        <5>2. QED
          BY <2>1, <3>2, <5>1
      <4>3. QED
        BY <4>1, <4>2
    <3>4. \A i \in DOMAIN tokens' : Live(i)' => refresh = i \/ \E d \in Calls : new'[d] = i
      <4>1. \A d \in Calls : new[d] # 0 => new'[d] = new[d]
        BY <2>1, <3>1
      <4>2. 0 \notin DOMAIN tokens
        BY Typed
      <4>3. QED
        BY <3>2, <4>1, <4>2 DEF Holds
    <3>5. \A r \in Rotations : pc'[r] # "idle" => pc[r] # "idle"
      BY <1>1, <2>1, <3>1
    <3>6. \A d \in Calls : pc'[d] # "refused"
      BY <2>1, <3>1 DEF Holds
    <3>7. QED
      BY <1>2, <2>1, <2>2, <3>3, <3>4, <3>5, <3>6 DEF Holds
  <2>7. CASE FindUser(c)
    <3>1. /\ pc[c] = "user" /\ pc'[c] = "granted" /\ tokens' = tokens /\ new' = new
      BY <2>7, Typed DEF FindUser, Goto
    <3>2. \A i : Live(i)' <=> Live(i)
      BY <3>1 DEF Live
    <3>3. c \in Rotations
      BY <3>1, Typed DEF Calls
    <3>4. QED
      BY <1>2, <2>1, <2>2, <2>3, <3>1, <3>2, <3>3 DEF Holds
  <2>8. CASE Fails(c)
    BY <2>8 DEF Fails
  <2>9. QED
    BY <1>2, <2>4, <2>5, <2>6, <2>7, <2>8 DEF CallStep
<1>3. CASE Server
  <2>1. UNCHANGED <<refresh, flag, unheard, logout, leaving, req>>
    BY <1>3 DEF Server, cookieVars, pageVars, formVars
  <2>2. CASE RevokeAll
    <3>1. /\ DOMAIN tokens' = DOMAIN tokens /\ Still
          /\ \A i \in DOMAIN tokens : ~Live(i)
          /\ \A i \in DOMAIN tokens : tokens'[i] = [tokens[i] EXCEPT !.revoked = TRUE]
      BY <2>1, <2>2 DEF RevokeAll, Still
    <3>2. \A i \in DOMAIN tokens : ~Live(i)'
      BY <3>1, Typed DEF Live, Token
    <3>3. QED
      BY <2>1, <3>1, <3>2, HeldStill DEF Holds
  <2>3. ASSUME NEW i \in DOMAIN tokens, Expire(i)
        PROVE  FALSE
    BY <2>3 DEF Expire
  <2>4. QED
    BY <1>2, <1>3, <2>1, <2>2, <2>3 DEF Server, ServerStep
<1>4. CASE \/ AccessExpires \/ LogOut
           \/ \E r \in Rotations : SendRequest(r) \/ Answered(r) \/ Enqueue(r)
           \/ UNCHANGED vars
  <2>1. /\ UNCHANGED <<refresh, flag, unheard, pc, old, new, tokens>>
        /\ \/ UNCHANGED <<logout, leaving>>
           \/ logout' = "sent" /\ leaving' = refresh /\ flag
    BY <1>4 DEF AccessExpires, LogOut, SendRequest, Answered, Enqueue, vars, serverVars,
                cookieVars, pageVars, formVars
  <2>2. ASSUME NEW r \in Rotations, req'[r] # "idle"
        PROVE  flag
    <3>1. CASE req'[r] = req[r]
      BY <2>2, <3>1 DEF Holds
    <3>2. CASE req'[r] # req[r]
      <4>1. req \in [Rotations -> {"idle", "sent", "queued", "leading"}]
        BY DEF TypeOK, PageTypeOK
      <4>2. PICK s \in Rotations : SendRequest(s) \/ Answered(s) \/ Enqueue(s)
        BY <1>4, <3>2 DEF AccessExpires, LogOut, vars, pageVars
      <4>3. flag \/ req[s] # "idle"
        BY <4>2 DEF SendRequest, Answered, Enqueue, Rejected401
      <4>4. QED
        BY <4>3 DEF Holds
    <3>3. QED
      BY <3>1, <3>2
  <2>3. \A i : Live(i)' <=> Live(i)
    BY <2>1 DEF Live
  <2>4. logout' \in {"idle", "sent"} /\ (logout' = "sent" => leaving' # 0)
    BY <2>1 DEF Holds
  <2>5. Still
    BY <2>1 DEF Still
  <2>6. QED
    BY <2>1, <2>2, <2>3, <2>4, <2>5, HeldStill
<1>5. CASE Logout \/ LogoutFails \/ LoggedOut
  <2>1. ~Logout
    BY DEF Logout, RevokeToken, Holds
  <2>2. ~LogoutFails
    BY Typed DEF LogoutFails
  <2>3. ~LoggedOut
    BY DEF LoggedOut, Holds
  <2>4. QED
    BY <1>5, <2>1, <2>2, <2>3
<1>6. ASSUME NEW l \in Logins, LogIn(l)
      PROVE  Holds'
  <2>1. /\ UNCHANGED <<refresh, flag, unheard, logout, leaving, req, tokens, old, new>>
        /\ ~flag /\ pc'[l] = "insert"
        /\ \A d \in Calls : d # l => pc'[d] = pc[d]
    BY <1>1, <1>6, Typed DEF LogIn, StartLogin, Goto, cookieVars, pageVars, formVars
  <2>2. \A i : Live(i)' <=> Live(i)
    BY <2>1 DEF Live
  <2>3. \A r \in Rotations : pc'[r] = pc[r]
    BY <1>1, <2>1
  <2>4. QED
    BY <2>1, <2>2, <2>3 DEF Holds
<1>7. ASSUME NEW l \in Logins, LoggedIn(l)
      PROVE  Holds'
  <2>1. /\ UNCHANGED <<unheard, logout, leaving, req>> /\ flag' = TRUE
        /\ refresh' = new[l] /\ pc[l] = "granted" /\ End(l)
    BY <1>7 DEF LoggedIn, SetCookies, pageVars, formVars
  <2>2. /\ pc'[l] = "done" /\ new'[l] = 0 /\ tokens' = tokens
        /\ \A d \in Calls : d # l => pc'[d] = pc[d] /\ new'[d] = new[d] /\ old'[d] = old[d]
    BY <1>1, <2>1, Ends
  <2>3. InProgress(l) /\ refresh = 0 /\ new[l] # 0
    BY <1>1, <2>1, Typed DEF InProgress, Holds
  <2>4. \A m \in Logins : ~InProgress(m)'
    BY <1>1, <2>2, <2>3 DEF RowInv, OneLogin, InProgress
  <2>5. \A r \in Rotations : pc'[r] = "idle"
    BY <1>1, <2>2, <2>3
  <2>6. \A i \in DOMAIN tokens : Live(i)' => refresh' = i \/ \E c \in Calls : new'[c] = i
    <3>1. \A i \in DOMAIN tokens : i # 0 /\ (Live(i)' <=> Live(i))
      BY <2>2, Typed DEF Live
    <3>2. QED
      BY <2>1, <2>2, <2>3, <3>1 DEF Holds
  <2>7. \A c \in Calls : pc'[c] # "refused"
    BY <2>2 DEF Holds
  <2>8. QED
    BY <2>1, <2>2, <2>3, <2>4, <2>5, <2>6, <2>7 DEF Holds
<1>8. ASSUME NEW l \in Logins, LoginFails(l)
      PROVE  FALSE
  BY <1>1, <1>8 DEF LoginFails, Holds
<1>9. ASSUME NEW r \in Rotations, Lead(r)
      PROVE  Holds'
  <2>1. /\ UNCHANGED <<refresh, flag, unheard, logout, leaving, tokens, new>>
        /\ req[r] = "sent" /\ req' = [req EXCEPT ![r] = "leading"]
        /\ ~refreshing /\ old'[r] = refresh
        /\ pc'[r] = (IF refresh = 0 THEN "refused" ELSE "find")
        /\ \A d \in Calls : d # r => pc'[d] = pc[d] /\ old'[d] = old[d]
    BY <1>1, <1>9, Typed DEF Lead, Rejected401, StartRotation, Goto, cookieVars, formVars
  <2>2. flag /\ refresh # 0 /\ pc'[r] = "find"
    BY <2>1 DEF Holds
  <2>3. \A s \in Rotations : s # r => pc'[s] = "idle"
    <3>1. \A s \in Rotations : pc[s] = "idle"
      BY <2>1 DEF TypeOK, LeaderOK
    <3>2. QED
      BY <1>1, <2>1, <3>1
  <2>4. \A i : Live(i)' <=> Live(i)
    BY <2>1 DEF Live
  <2>5. \A l \in Logins : InProgress(l)' <=> InProgress(l)
    BY <1>1, <2>1 DEF InProgress
  <2>6. QED
    BY <2>1, <2>2, <2>3, <2>4, <2>5 DEF Holds
<1>10. ASSUME NEW r \in Rotations, Refreshed(r)
       PROVE  Holds'
  <2>1. /\ UNCHANGED <<flag, unheard, logout, leaving>>
        /\ refresh' = new[r] /\ pc[r] = "granted" /\ End(r)
    BY <1>10 DEF Refreshed, SetCookies, formVars
  <2>2. /\ pc'[r] = "idle" /\ new'[r] = 0 /\ tokens' = tokens
        /\ \A d \in Calls : d # r => pc'[d] = pc[d] /\ new'[d] = new[d] /\ old'[d] = old[d]
    BY <1>1, <2>1, Ends
  <2>3. flag /\ new[r] # 0 /\ ~Live(refresh)
    BY <1>1, <2>1, Typed DEF Holds
  <2>4. \A s \in Rotations : pc'[s] = "idle"
    BY <1>1, <2>1, <2>2, OneRotation
  <2>5. \A l \in Logins : InProgress(l)' <=> InProgress(l)
    BY <1>1, <2>2 DEF InProgress
  <2>6. \A i \in DOMAIN tokens : Live(i)' => refresh' = i \/ \E c \in Calls : new'[c] = i
    <3>1. \A i \in DOMAIN tokens : i # 0 /\ (Live(i)' <=> Live(i))
      BY <2>2, Typed DEF Live
    <3>2. QED
      BY <2>1, <2>2, <2>3, <3>1 DEF Holds
  <2>7. \A c \in Calls : pc'[c] # "refused"
    BY <2>2 DEF Holds
  <2>8. QED
    BY <2>1, <2>2, <2>3, <2>4, <2>5, <2>6, <2>7 DEF Holds
<1>11. ASSUME NEW r \in Rotations, RefreshFails(r)
       PROVE  FALSE
  BY <1>1, <1>11 DEF RefreshFails, Holds
<1>12. QED
  BY <1>3, <1>4, <1>5, <1>6, <1>7, <1>8, <1>9, <1>10, <1>11 DEF Next, RequestStep

(* Until a call fails or a session is ended, a live row is the cookie's or *)
(* on its way to become it, for any number of logins and requests.         *)
THEOREM LiveHeld == Spec => []LiveIsHeld
<1>1. HeldInv => LiveIsHeld
  BY DEF HeldInv, Holds, LiveIsHeld
<1>2. Init => HeldInv
  <2> SUFFICES ASSUME Init
               PROVE  Holds
    BY DEF HeldInv
  <2>1. /\ DOMAIN tokens = {} /\ refresh = 0 /\ flag = FALSE /\ logout = "idle" /\ unheard = {}
        /\ \A c \in Calls : pc[c] = "idle"
        /\ \A r \in Rotations : req[r] = "idle"
        /\ Logins \subseteq Calls /\ Rotations \subseteq Calls
    BY DEF Init, ServerInit, Calls
  <2>2. QED
    BY <2>1 DEF Holds, InProgress
<1>3. QED
  BY <1>1, <1>2, GoodInvariant, HeldStep, PTL DEF Spec
=============================================================================
