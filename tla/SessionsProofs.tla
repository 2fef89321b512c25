---------------------------- MODULE SessionsProofs ----------------------------
(***************************************************************************)
(* Proofs about Sessions, for any number of users, overlapping logins and  *)
(* tokens.  The inductive invariant ties the two tables a login writes:    *)
(* a JWT being signed belongs to exactly one handler, so a user has no     *)
(* more of them than there are handlers.                                   *)
(***************************************************************************)
EXTENDS Sessions, FiniteSetTheorems, TLAPS

\* Tokens the counter has not reached are unused.
Fresh == \A k \in Tokens : k >= nextToken => token[k].at = "unused"

\* A JWT is being signed by a handler ...
Signed ==
    \A k \in Tokens : token[k].at = "signing" =>
        \E l \in Logins : login[l].pc = "signing" /\ login[l].token = k

\* ... and a handler that signs, signs a JWT ...
Signs ==
    \A l \in Logins : login[l].pc = "signing" =>
        login[l].token \in Tokens /\ token[login[l].token].at = "signing"

\* ... of its own.
Own ==
    \A l, m \in Logins :
        /\ login[l].pc = "signing" /\ login[m].pc = "signing"
        /\ login[l].token = login[m].token
        => l = m

Inv == TypeOK /\ Fresh /\ Signed /\ Signs /\ Own

\* The actions, as the cases of every proof below.
LEMMA Cases ==
    ASSUME Next
    PROVE  \/ \E l \in Logins, u \in Users : FaceStart(l, u)
           \/ \E l \in Logins : FaceFails(l)
           \/ \E l \in Logins, u \in Users : LockOut(l, u)
           \/ \E l \in Logins, u \in Users, o \in Outcome : CountAttempt(l, u, o)
           \/ \E l \in Logins, u \in Users : HasPassword(l, u) /\ Sign(l, u)
           \/ \E l \in Logins : login[l].pc = "face" /\ Sign(l, login[l].user)
           \/ \E l \in Logins : InsertToken(l)
           \/ \E k \in Tokens, d \in Limiters : Serve(k, d)
           \/ \E k \in Tokens, d \in Limiters : LogOutIdle(k, d)
           \/ \E k \in Tokens : LogOutExpired(k)
           \/ \E k \in Tokens : Logout(k)
           \/ \E k \in Tokens : Evict(k)
           \/ \E u \in Users : Archive(u)
           \/ \E u \in Users : AttemptExpires(u)
           \/ Tick
           \/ Restart
BY DEF Next, LoginStep, RequestStep, WrongPassword, RefuseConcurrent,
       AcceptPassword, AcceptFace, Outcome

-----------------------------------------------------------------------------
(* Types.                                                                  *)

LEMMA InitTyped == Init => TypeOK
BY SessionsAssumption
   DEF Init, TypeOK, Token, Login, NoToken, IdleLogin, Tokens, Outcome

\* A handler knows the user it works for once it is past its first await.
LEMMA SignTyped ==
    ASSUME TypeOK, NEW l \in Logins, NEW u \in Users \cup {NoUser}, Sign(l, u)
    PROVE  TypeOK'
<1>1. nextToken \in Tokens /\ nextToken + 1 \in 1..(MaxTokens + 1)
  BY SessionsAssumption DEF TypeOK, Sign, Tokens
<1>2. Issued(u) \in Token
  BY SessionsAssumption DEF Token, Issued
<1>3. token' \in [Tokens -> Token]
  BY <1>1, <1>2 DEF TypeOK, Sign
<1>4. attempts' \in [Users -> Seq(Outcome)]
  <2>1. <<>> \in Seq(Outcome) /\ attempts' = [attempts EXCEPT ![u] = <<>>]
    BY DEF Sign
  <2>2. QED
    BY <2>1 DEF TypeOK
<1>5. login' \in [Logins -> Login]
  <2>1. [pc |-> "signing", user |-> u, token |-> nextToken] \in Login
    BY <1>1 DEF Login
  <2>2. QED
    BY <2>1 DEF TypeOK, Sign
<1>6. QED
  BY <1>1, <1>3, <1>4, <1>5 DEF TypeOK, Sign

LEMMA LeaveTyped ==
    ASSUME TypeOK, NEW l \in Logins, Leave(l)
    PROVE  login' \in [Logins -> Login]
BY DEF TypeOK, Leave, IdleLogin, Login

LEMMA DeleteTyped ==
    ASSUME TypeOK, NEW k \in Tokens, DeleteRow(k)
    PROVE  token' \in [Tokens -> Token]
<1>1. [token[k] EXCEPT !.at = "gone"] \in Token
  BY DEF TypeOK, Token
<1>2. QED
  BY <1>1 DEF TypeOK, DeleteRow

LEMMA NextTyped == TypeOK /\ Signs /\ [Next]_vars => TypeOK'
<1> SUFFICES ASSUME TypeOK, Signs, [Next]_vars PROVE TypeOK'
  OBVIOUS
<1>1. ASSUME NEW l \in Logins, NEW u \in Users, FaceStart(l, u) PROVE TypeOK'
  <2>1. [pc |-> "face", user |-> u, token |-> 0] \in Login
    BY DEF Login
  <2>2. QED
    BY <1>1, <2>1 DEF TypeOK, FaceStart
<1>2. ASSUME NEW l \in Logins, FaceFails(l) PROVE TypeOK'
  BY <1>2, LeaveTyped DEF TypeOK, FaceFails
<1>3. ASSUME NEW l \in Logins, NEW u \in Users, LockOut(l, u) PROVE TypeOK'
  BY <1>3, LeaveTyped DEF TypeOK, LockOut
<1>4. ASSUME NEW l \in Logins, NEW u \in Users, NEW o \in Outcome,
             CountAttempt(l, u, o)
      PROVE  TypeOK'
  <2>1. attempts' \in [Users -> Seq(Outcome)]
    BY <1>4 DEF TypeOK, CountAttempt
  <2>2. QED
    BY <1>4, <2>1, LeaveTyped DEF TypeOK, CountAttempt
<1>5. ASSUME NEW l \in Logins, NEW u \in Users, Sign(l, u) PROVE TypeOK'
  BY <1>5, SignTyped
<1>6. ASSUME NEW l \in Logins, Sign(l, login[l].user) PROVE TypeOK'
  <2>1. login[l].user \in Users \cup {NoUser}
    BY DEF TypeOK, Login
  <2>2. QED
    BY <1>6, <2>1, SignTyped
<1>7. ASSUME NEW l \in Logins, InsertToken(l) PROVE TypeOK'
  <2> DEFINE k == login[l].token
  <2>1. k \in Tokens
    BY <1>7 DEF InsertToken, Signs
  <2>2. [token[k] EXCEPT !.at = "row"] \in Token
    BY <2>1 DEF TypeOK, Token
  <2>3. token' \in [Tokens -> Token]
    BY <1>7, <2>1, <2>2 DEF TypeOK, InsertToken
  <2>4. QED
    BY <1>7, <2>1, <2>3, LeaveTyped DEF TypeOK, InsertToken
<1>8. ASSUME NEW k \in Tokens, NEW d \in Limiters, Serve(k, d) PROVE TypeOK'
  <2>1. [token[k] EXCEPT !.idle = 0] \in Token
    BY DEF TypeOK, Token
  <2>2. token' \in [Tokens -> Token]
    BY <1>8, <2>1 DEF TypeOK, Serve, Touched
  <2>3. QED
    BY <1>8, <2>2 DEF TypeOK, Serve
<1>9. ASSUME NEW k \in Tokens, NEW d \in Limiters, LogOutIdle(k, d) PROVE TypeOK'
  BY <1>9, DeleteTyped DEF TypeOK, LogOutIdle
<1>10. ASSUME NEW k \in Tokens, LogOutExpired(k) PROVE TypeOK'
  BY <1>10, DeleteTyped DEF TypeOK, LogOutExpired
<1>11. ASSUME NEW k \in Tokens, Logout(k) PROVE TypeOK'
  BY <1>11, DeleteTyped DEF TypeOK, Logout
<1>12. ASSUME NEW k \in Tokens, Evict(k) PROVE TypeOK'
  BY <1>12 DEF TypeOK, Evict
<1>13. ASSUME NEW u \in Users, Archive(u) PROVE TypeOK'
  BY <1>13 DEF TypeOK, Archive
<1>14. ASSUME NEW u \in Users, AttemptExpires(u) PROVE TypeOK'
  <2>1. Tail(attempts[u]) \in Seq(Outcome)
    BY <1>14 DEF TypeOK, AttemptExpires
  <2>2. QED
    BY <1>14, <2>1 DEF TypeOK, AttemptExpires
<1>15. ASSUME Tick PROVE TypeOK'
  <2>1. ASSUME NEW k \in Tokens PROVE Older(k) \in Token
    <3> DEFINE younger == IF token[k].left = 0 THEN 0 ELSE token[k].left - 1
               rest == IF token[k].at # "row" \/ token[k].idle > Lifetime
                       THEN token[k].idle ELSE token[k].idle + 1
    <3>1. token[k] \in Token /\ younger \in 0..Lifetime /\ rest \in Nat
      BY SessionsAssumption DEF TypeOK, Token
    <3>2. Older(k) = [[token[k] EXCEPT !.left = younger] EXCEPT !.idle = rest]
      BY DEF Older
    <3> HIDE DEF younger, rest
    <3>3. [token[k] EXCEPT !.left = younger] \in Token
      BY <3>1 DEF Token
    <3>4. [[token[k] EXCEPT !.left = younger] EXCEPT !.idle = rest] \in Token
      BY <3>1, <3>3 DEF Token
    <3>5. QED
      BY <3>2, <3>4
  <2>2. QED
    BY <1>15, <2>1 DEF TypeOK, Tick
<1>16. ASSUME Restart PROVE TypeOK'
  <2>1. \A k \in Tokens : [token[k] EXCEPT !.at = "lost"] \in Token
    BY DEF TypeOK, Token
  <2>2. IdleLogin \in Login
    BY DEF IdleLogin, Login
  <2>3. QED
    BY <1>16, <2>1, <2>2 DEF TypeOK, Restart
<1>17. CASE UNCHANGED vars
  BY <1>17 DEF vars, TypeOK
<1>18. QED
  BY <1>1, <1>2, <1>3, <1>4, <1>5, <1>6, <1>7, <1>8, <1>9, <1>10, <1>11,
     <1>12, <1>13, <1>14, <1>15, <1>16, <1>17, Cases

-----------------------------------------------------------------------------
(* Who signs what.                                                         *)

LEMMA InitInv == Init => Inv
<1> SUFFICES ASSUME Init PROVE Inv
  OBVIOUS
<1>1. TypeOK
  BY InitTyped
<1>2. Fresh /\ Signed
  BY DEF Init, Fresh, Signed, NoToken
<1>3. Signs /\ Own
  BY DEF Init, Signs, Own, IdleLogin
<1>4. QED
  BY <1>1, <1>2, <1>3 DEF Inv

\* Requests, expiry and time change neither which JWTs are being signed nor
\* which are unused.
Deletes(k) == token[k].at \in {"row", "gone"} /\ token'[k].at = "gone"
Keeps(k) == token'[k].at = token[k].at

LEMMA Untouched ==
    ASSUME Inv, nextToken' = nextToken, login' = login, TypeOK',
           \A k \in Tokens : Keeps(k) \/ Deletes(k)
    PROVE  Inv'
<1> USE DEF Keeps, Deletes
<1>1. Fresh'
  BY DEF Inv, Fresh
<1>2. Signed'
  BY DEF Inv, Signed
<1>3. Signs'
  BY DEF Inv, Signs
<1>4. Own'
  BY DEF Inv, Own
<1>5. QED
  BY <1>1, <1>2, <1>3, <1>4 DEF Inv

\* A handler that was not signing and is not signing now.
LEMMA Aside ==
    ASSUME Inv, TypeOK', nextToken' = nextToken, token' = token,
           NEW l \in Logins, NEW r \in Login,
           login[l].pc # "signing", r.pc # "signing",
           login' = [login EXCEPT ![l] = r]
    PROVE  Inv'
<1> USE DEF Inv, TypeOK
<1>1. \A m \in Logins : login'[m].pc = "signing" => m # l /\ login'[m] = login[m]
  OBVIOUS
<1>2. Fresh'
  BY DEF Fresh
<1>3. Signed'
  BY DEF Signed
<1>4. Signs'
  BY <1>1 DEF Signs
<1>5. Own'
  BY <1>1 DEF Own
<1>6. QED
  BY <1>2, <1>3, <1>4, <1>5

LEMMA SignInv ==
    ASSUME Inv, TypeOK', NEW l \in Logins, NEW u \in Users \cup {NoUser},
           login[l].pc # "signing", Sign(l, u)
    PROVE  Inv'
<1> DEFINE n == nextToken
<1>1. n \in Tokens /\ nextToken' = n + 1 /\ token[n].at = "unused"
  BY SessionsAssumption DEF Inv, TypeOK, Sign, Tokens, Fresh
<1>2. /\ token'[n].at = "signing"
      /\ \A k \in Tokens : k # n => token'[k] = token[k]
  BY <1>1 DEF Inv, TypeOK, Sign, Issued
<1>3. /\ login'[l].pc = "signing" /\ login'[l].token = n
      /\ \A m \in Logins : m # l => login'[m] = login[m]
  BY DEF Inv, TypeOK, Sign
<1>4. \A m \in Logins : login[m].pc = "signing" => login[m].token # n
  BY <1>1 DEF Inv, Signs
<1>5. Fresh'
  BY <1>1, <1>2 DEF Inv, Fresh, Tokens
<1>6. Signed'
  <2> SUFFICES ASSUME NEW k \in Tokens, token'[k].at = "signing"
               PROVE  \E m \in Logins : login'[m].pc = "signing" /\ login'[m].token = k
    BY DEF Signed
  <2>1. CASE k = n
    BY <2>1, <1>3
  <2>2. CASE k # n
    <3>1. PICK m \in Logins : login[m].pc = "signing" /\ login[m].token = k
      BY <2>2, <1>2 DEF Inv, Signed
    <3>2. QED
      BY <3>1, <1>3
  <2>3. QED
    BY <2>1, <2>2
<1>7. Signs'
  BY <1>1, <1>2, <1>3, <1>4 DEF Inv, Signs
<1>8. Own'
  BY <1>3, <1>4 DEF Inv, Own
<1>9. QED
  BY <1>5, <1>6, <1>7, <1>8 DEF Inv

LEMMA InsertInv ==
    ASSUME Inv, TypeOK', NEW l \in Logins, InsertToken(l)
    PROVE  Inv'
<1> DEFINE n == login[l].token
<1>1. n \in Tokens /\ token[n].at = "signing"
  BY DEF Inv, Signs, InsertToken
<1>2. /\ token'[n].at = "row"
      /\ \A k \in Tokens : k # n => token'[k] = token[k]
  BY <1>1 DEF Inv, TypeOK, InsertToken
<1>3. /\ login'[l].pc = "idle"
      /\ \A m \in Logins : m # l => login'[m] = login[m]
  BY DEF Inv, TypeOK, InsertToken, Leave, IdleLogin
<1>4. Fresh'
  BY <1>1, <1>2 DEF Inv, Fresh, InsertToken
<1>5. Signed'
  <2> SUFFICES ASSUME NEW k \in Tokens, token'[k].at = "signing"
               PROVE  \E m \in Logins : login'[m].pc = "signing" /\ login'[m].token = k
    BY DEF Signed
  <2>1. PICK m \in Logins : login[m].pc = "signing" /\ login[m].token = k
    BY <1>2 DEF Inv, Signed
  <2>2. m # l
    BY <2>1, <1>2
  <2>3. QED
    BY <2>1, <2>2, <1>3
<1>6. Signs'
  <2> SUFFICES ASSUME NEW m \in Logins, login'[m].pc = "signing"
               PROVE  login'[m].token \in Tokens /\ token'[login'[m].token].at = "signing"
    BY DEF Signs
  <2>1. m # l /\ login'[m] = login[m]
    BY <1>3
  <2>2. login[m].token # n
    BY <2>1 DEF Inv, Own, InsertToken
  <2>3. QED
    BY <2>1, <2>2, <1>2 DEF Inv, Signs
<1>7. Own'
  BY <1>3 DEF Inv, Own
<1>8. QED
  BY <1>4, <1>5, <1>6, <1>7 DEF Inv

LEMMA NextInv == Inv /\ [Next]_vars => Inv'
<1> SUFFICES ASSUME Inv, [Next]_vars PROVE Inv'
  OBVIOUS
<1>0. TypeOK' /\ TypeOK /\ IdleLogin \in Login
  BY NextTyped DEF Inv, IdleLogin, Login
<1>1. ASSUME NEW l \in Logins, NEW u \in Users, FaceStart(l, u) PROVE Inv'
  <2>1. [pc |-> "face", user |-> u, token |-> 0] \in Login
    BY DEF Login
  <2>2. QED
    BY <1>0, <1>1, <2>1, Aside DEF FaceStart
<1>2. ASSUME NEW l \in Logins, FaceFails(l) PROVE Inv'
  BY <1>0, <1>2, Aside DEF FaceFails, Leave, IdleLogin
<1>3. ASSUME NEW l \in Logins, NEW u \in Users, LockOut(l, u) PROVE Inv'
  BY <1>0, <1>3, Aside DEF LockOut, HasPassword, Leave, IdleLogin
<1>4. ASSUME NEW l \in Logins, NEW u \in Users, NEW o \in Outcome,
             CountAttempt(l, u, o)
      PROVE  Inv'
  BY <1>0, <1>4, Aside DEF CountAttempt, HasPassword, Leave, IdleLogin
<1>5. ASSUME NEW l \in Logins, NEW u \in Users, HasPassword(l, u), Sign(l, u)
      PROVE  Inv'
  BY <1>0, <1>5, SignInv DEF HasPassword
<1>6. ASSUME NEW l \in Logins, login[l].pc = "face", Sign(l, login[l].user)
      PROVE  Inv'
  <2>1. login[l].user \in Users \cup {NoUser}
    BY <1>0 DEF TypeOK, Login
  <2>2. QED
    BY <1>0, <1>6, <2>1, SignInv
<1>7. ASSUME NEW l \in Logins, InsertToken(l) PROVE Inv'
  BY <1>0, <1>7, InsertInv
<1>8. ASSUME NEW k \in Tokens, NEW d \in Limiters, Serve(k, d) PROVE Inv'
  <2>1. \A j \in Tokens : Keeps(j)
    BY <1>0, <1>8 DEF TypeOK, Serve, Touched, Keeps
  <2>2. QED
    BY <1>0, <1>8, <2>1, Untouched DEF Serve
<1>9. ASSUME NEW k \in Tokens, InHand(k), DeleteRow(k),
             nextToken' = nextToken, login' = login
      PROVE  Inv'
  <2>1. \A j \in Tokens : Keeps(j) \/ Deletes(j)
    BY <1>0, <1>9 DEF TypeOK, DeleteRow, InHand, Keeps, Deletes
  <2>2. QED
    BY <1>0, <1>9, <2>1, Untouched
<1>10. ASSUME NEW k \in Tokens, NEW d \in Limiters, LogOutIdle(k, d) PROVE Inv'
  BY <1>9, <1>10 DEF LogOutIdle
<1>11. ASSUME NEW k \in Tokens, LogOutExpired(k) \/ Logout(k) PROVE Inv'
  BY <1>9, <1>11 DEF LogOutExpired, Logout
<1>12. ASSUME nextToken' = nextToken, login' = login, token' = token PROVE Inv'
  <2>1. \A j \in Tokens : Keeps(j)
    BY <1>12 DEF Keeps
  <2>2. QED
    BY <1>0, <1>12, <2>1, Untouched
<1>13. ASSUME \/ \E k \in Tokens : Evict(k)
              \/ \E u \in Users : Archive(u) \/ AttemptExpires(u)
              \/ UNCHANGED vars
       PROVE  Inv'
  BY <1>12, <1>13 DEF Evict, Archive, AttemptExpires, vars
<1>14. ASSUME Tick PROVE Inv'
  <2>1. \A j \in Tokens : Keeps(j)
    <3> SUFFICES ASSUME NEW j \in Tokens PROVE Keeps(j)
      OBVIOUS
    <3>1. token[j] \in Token
      BY <1>0 DEF TypeOK
    <3>2. Older(j).at = token[j].at
      BY <3>1 DEF Older, Token
    <3>3. QED
      BY <1>14, <3>2 DEF Tick, Keeps
  <2>2. QED
    BY <1>0, <1>14, <2>1, Untouched DEF Tick
<1>15. ASSUME Restart PROVE Inv'
  <2>0. \A k \in Tokens : token'[k].at # "signing"
    BY <1>0, <1>15 DEF TypeOK, Restart, Token
  <2>1. \A k \in Tokens : token[k].at = "unused" => token'[k].at = "unused"
    BY <1>0, <1>15 DEF TypeOK, Restart, Token
  <2>2. \A l \in Logins : login'[l].pc = "idle"
    BY <1>15 DEF Restart, IdleLogin
  <2>3. Fresh'
    BY <1>15, <2>1 DEF Inv, Fresh, Restart
  <2>4. Signed'
    BY <2>0 DEF Signed
  <2>5. Signs' /\ Own'
    BY <2>2 DEF Signs, Own
  <2>6. QED
    BY <1>0, <2>3, <2>4, <2>5 DEF Inv
<1>16. QED
  BY <1>1, <1>2, <1>3, <1>4, <1>5, <1>6, <1>7, <1>8, <1>10, <1>11, <1>13,
     <1>14, <1>15, Cases

\* The inductive invariant: JWTs being signed and handlers that sign match.
THEOREM AlwaysInv == Spec => []Inv
<1>1. QED
  BY InitInv, NextInv, PTL DEF Spec

\* The tables and the handlers keep their types, whatever the constants.
THEOREM TypeCorrect == Spec => []TypeOK
<1>1. Inv => TypeOK
  BY DEF Inv
<1>2. QED
  BY <1>1, AlwaysInv, PTL

-----------------------------------------------------------------------------
(* A deleted row stays deleted.                                            *)

LEMMA StaysGone ==
    ASSUME Inv, [Next]_vars, NEW k \in Tokens, token[k].at = "gone"
    PROVE  token'[k].at = "gone"
<1> USE DEF Inv, TypeOK
<1>1. ASSUME NEW l \in Logins, NEW u, Sign(l, u) PROVE token'[k].at = "gone"
  <2>1. nextToken \in Tokens /\ token[nextToken].at = "unused"
    BY <1>1, SessionsAssumption DEF Sign, Tokens, Fresh
  <2>2. QED
    BY <1>1, <2>1 DEF Sign
<1>2. ASSUME NEW l \in Logins, InsertToken(l) PROVE token'[k].at = "gone"
  <2>1. login[l].token # k
    BY <1>2 DEF InsertToken, Signs
  <2>2. QED
    BY <1>2, <2>1 DEF InsertToken
<1>3. ASSUME NEW j \in Tokens, NEW d \in Limiters, Serve(j, d)
      PROVE  token'[k].at = "gone"
  BY <1>3 DEF Serve, Touched
<1>4. ASSUME NEW j \in Tokens, DeleteRow(j) PROVE token'[k].at = "gone"
  BY <1>4 DEF DeleteRow
<1>5. ASSUME Tick PROVE token'[k].at = "gone"
  <2>1. token[k] \in Token
    OBVIOUS
  <2>2. Older(k).at = token[k].at
    BY <2>1 DEF Older, Token
  <2>3. QED
    BY <1>5, <2>2 DEF Tick
<1>6. ASSUME Restart PROVE token'[k].at = "gone"
  BY <1>6 DEF Restart
<1>7. ASSUME token' = token PROVE token'[k].at = "gone"
  BY <1>7
<1>8. QED
  BY <1>1, <1>2, <1>3, <1>4, <1>5, <1>6, <1>7, Cases
     DEF FaceStart, FaceFails, LockOut, CountAttempt, LogOutIdle, LogOutExpired,
         Logout, Evict, Archive, AttemptExpires, vars

\* The row of a session that ended never returns, in whatever order late
\* requests with its JWT arrive.
THEOREM DeletedRowsStayDeleted == Spec => LogoutIsFinal
<1>1. Inv /\ [Next]_vars =>
        [\A k \in Tokens : token[k].at = "gone" => token'[k].at = "gone"]_vars
  BY StaysGone
<1>2. QED
  BY <1>1, AlwaysInv, PTL DEF Spec, LogoutIsFinal

-----------------------------------------------------------------------------
(* The rate limiter.                                                       *)

LEMMA StaysWithinLimit ==
    ASSUME TypeOK, AttemptsWithinLimit, [Next]_vars
    PROVE  AttemptsWithinLimit'
<1> SUFFICES ASSUME NEW v \in Users PROVE Len(attempts'[v]) <= MaxAttempts
  BY DEF AttemptsWithinLimit
<1>0. /\ MaxAttempts \in Nat /\ attempts[v] \in Seq(Outcome)
      /\ Len(attempts[v]) <= MaxAttempts
  BY SessionsAssumption DEF TypeOK, AttemptsWithinLimit
<1>1. ASSUME NEW l \in Logins, NEW u \in Users, NEW o \in Outcome,
             CountAttempt(l, u, o)
      PROVE  Len(attempts'[v]) <= MaxAttempts
  <2>1. CASE u = v
    <3>1. attempts'[v] = Append(attempts[v], o)
      BY <1>1, <2>1 DEF TypeOK, CountAttempt
    <3>2. Len(attempts[v]) < MaxAttempts
      BY <1>0, <1>1, <2>1 DEF CountAttempt, TooMany
    <3>3. QED
      BY <1>0, <3>1, <3>2
  <2>2. CASE u # v
    BY <1>0, <1>1, <2>2 DEF TypeOK, CountAttempt
  <2>3. QED
    BY <2>1, <2>2
<1>2. ASSUME NEW l \in Logins, NEW u, Sign(l, u)
      PROVE  Len(attempts'[v]) <= MaxAttempts
  BY <1>0, <1>2 DEF TypeOK, Sign
<1>3. ASSUME NEW u \in Users, AttemptExpires(u)
      PROVE  Len(attempts'[v]) <= MaxAttempts
  <2>1. CASE u = v
    <3>1. attempts'[v] = Tail(attempts[v]) /\ attempts[v] # <<>>
      BY <1>3, <2>1 DEF TypeOK, AttemptExpires
    <3>2. QED
      BY <1>0, <3>1
  <2>2. CASE u # v
    BY <1>0, <1>3, <2>2 DEF TypeOK, AttemptExpires
  <2>3. QED
    BY <2>1, <2>2
<1>4. ASSUME Restart PROVE Len(attempts'[v]) <= MaxAttempts
  BY <1>0, <1>4 DEF Restart
<1>5. ASSUME attempts' = attempts PROVE Len(attempts'[v]) <= MaxAttempts
  BY <1>0, <1>5
<1>6. QED
  BY <1>1, <1>2, <1>3, <1>4, <1>5, Cases
     DEF FaceStart, FaceFails, LockOut, InsertToken, Serve, LogOutIdle,
         LogOutExpired, Logout, Evict, Archive, Tick, vars

\* The limiter never counts more than max_attempts in a window.
THEOREM AttemptsAreLimited == Spec => []AttemptsWithinLimit
<1>1. Init => AttemptsWithinLimit
  BY SessionsAssumption DEF Init, AttemptsWithinLimit
<1>2. TypeOK /\ AttemptsWithinLimit /\ [Next]_vars => AttemptsWithinLimit'
  BY StaysWithinLimit
<1>3. QED
  BY <1>1, <1>2, TypeCorrect, PTL DEF Spec

-----------------------------------------------------------------------------
(* A user has no more sessions than there are handlers.                    *)

Open(u) == LiveRows(u) \cup Signing(u)

LEMMA OpenFinite == ASSUME NEW u PROVE IsFiniteSet(Open(u))
<1>1. IsFiniteSet(Tokens)
  BY SessionsAssumption, FS_Interval DEF Tokens
<1>2. Open(u) \subseteq Tokens
  BY DEF Open, LiveRows, Signing
<1>3. QED
  BY <1>1, <1>2, FS_Subset

\* JWTs that each have a handler of their own are no more than the handlers.
LEMMA HandlersBound ==
    ASSUME NEW K, NEW held, \A k \in K : \E l \in Logins : held[l].token = k
    PROVE  Cardinality(K) <= Cardinality(Logins)
<1> DEFINE Holder(k) == CHOOSE l \in Logins : held[l].token = k
           f == [k \in K |-> Holder(k)]
<1>1. \A k \in K : Holder(k) \in Logins /\ held[Holder(k)].token = k
  OBVIOUS
<1>2. f \in Injection(K, Logins)
  <2> HIDE DEF Holder
  <2>1. f \in [K -> Logins]
    BY <1>1
  <2>2. \A j, k \in K : f[j] = f[k] => j = k
    BY <1>1
  <2>3. QED
    BY <2>1, <2>2 DEF Injection, IsInjective
<1>3. QED
  BY <1>2, SessionsAssumption, FS_Injection

LEMMA Shrinks ==
    ASSUME NEW u \in Users, Cardinality(Open(u)) <= Cardinality(Logins),
           Open(u)' \subseteq Open(u)
    PROVE  Cardinality(Open(u)') <= Cardinality(Logins)
<1>1. IsFiniteSet(Open(u))
  BY OpenFinite
<1>2. Cardinality(Open(u)') <= Cardinality(Open(u)) /\ IsFiniteSet(Open(u)')
  BY <1>1, FS_Subset
<1>3. QED
  BY <1>1, <1>2, SessionsAssumption, FS_CardinalityType

\* A step that signs nothing opens no session.
LEMMA OnlySignOpens ==
    ASSUME Inv, NEW u \in Users, [Next]_vars,
           \A l \in Logins : \A v : ~Sign(l, v)
    PROVE  Open(u)' \subseteq Open(u)
<1> USE DEF Inv, TypeOK
<1> DEFINE Same(k) == token'[k].user = token[k].user
           At(k) == token'[k].at \in {"row", "signing"} => token[k].at \in {"row", "signing"}
           NotBack(k) == token'[k].left > 0 => token[k].left > 0
           Kept(k) == token'[k].at = "signing" => token[k].at = "signing"
           Row(k) == token'[k].at = "row" => token[k].at \in {"row", "signing"}
<1> SUFFICES ASSUME NEW k \in Tokens PROVE Same(k) /\ NotBack(k) /\ Kept(k) /\ Row(k)
  BY DEF Open, LiveRows, Signing
<1>0. token[k] \in Token
  OBVIOUS
<1>1. ASSUME NEW l \in Logins, InsertToken(l) PROVE Same(k) /\ NotBack(k) /\ Kept(k) /\ Row(k)
  <2>1. login[l].token \in Tokens /\ token[login[l].token].at = "signing"
    BY <1>1 DEF InsertToken, Signs
  <2>2. QED
    BY <1>1, <2>1 DEF InsertToken
<1>2. ASSUME NEW j \in Tokens, NEW d \in Limiters, Serve(j, d)
      PROVE  Same(k) /\ NotBack(k) /\ Kept(k) /\ Row(k)
  BY <1>2 DEF Serve, Touched
<1>3. ASSUME NEW j \in Tokens, DeleteRow(j) PROVE Same(k) /\ NotBack(k) /\ Kept(k) /\ Row(k)
  BY <1>3 DEF DeleteRow
<1>4. ASSUME Tick PROVE Same(k) /\ NotBack(k) /\ Kept(k) /\ Row(k)
  <2>1. Older(k).at = token[k].at /\ Older(k).user = token[k].user
    BY <1>0 DEF Older, Token
  <2>2. Older(k).left = IF token[k].left = 0 THEN 0 ELSE token[k].left - 1
    BY <1>0 DEF Older, Token
  <2>3. token[k].left \in Nat
    BY <1>0, SessionsAssumption DEF Token
  <2>4. QED
    BY <1>4, <2>1, <2>2, <2>3 DEF Tick
<1>5. ASSUME Restart PROVE Same(k) /\ NotBack(k) /\ Kept(k) /\ Row(k)
  BY <1>5 DEF Restart
<1>6. ASSUME token' = token PROVE Same(k) /\ NotBack(k) /\ Kept(k) /\ Row(k)
  BY <1>6
<1>7. QED
  BY <1>1, <1>2, <1>3, <1>4, <1>5, <1>6, Cases
     DEF FaceStart, FaceFails, LockOut, CountAttempt, LogOutIdle, LogOutExpired,
         Logout, Evict, Archive, AttemptExpires, vars

LEMMA StaysBounded ==
    ASSUME Inv, SessionsBounded, [Next]_vars
    PROVE  SessionsBounded'
<1>1. Inv'
  BY NextInv
<1> SUFFICES ASSUME NEW u \in Users
             PROVE  Cardinality(Open(u)') <= Cardinality(Logins)
  BY DEF SessionsBounded, Open
<1>2. Cardinality(Open(u)) <= Cardinality(Logins)
  BY DEF SessionsBounded, Open
<1>3. ASSUME NEW l \in Logins, NEW v, Sign(l, v)
      PROVE  Cardinality(Open(u)') <= Cardinality(Logins)
  <2> USE DEF Inv, TypeOK
  <2>1. nextToken \in Tokens
    BY <1>3, SessionsAssumption DEF Sign, Tokens
  <2>2. /\ token'[nextToken].user = v /\ token'[nextToken].at = "signing"
        /\ \A k \in Tokens : k # nextToken => token'[k] = token[k]
    BY <1>3, <2>1 DEF Sign, Issued
  <2>3. CASE u = v
    <3>1. LiveRows(u) = {}
      BY <1>3, <2>3 DEF Sign, Blocking, LiveRows
    <3>2. Open(u)' = Signing(u)'
      BY <2>2, <3>1 DEF Open, LiveRows, Signing
    <3>3. Cardinality(Signing(u)') <= Cardinality(Logins)
      <4>1. \A k \in Signing(u)' : \E h \in Logins : login'[h].token = k
        BY <1>1 DEF Inv, Signed, Signing
      <4>2. QED
        BY <4>1, HandlersBound
    <3>4. QED
      BY <3>2, <3>3
  <2>4. CASE u # v
    <3>1. Open(u)' \subseteq Open(u)
      BY <2>2, <2>4 DEF Open, LiveRows, Signing
    <3>2. QED
      BY <1>2, <3>1, Shrinks
  <2>5. QED
    BY <2>3, <2>4
<1>4. ASSUME \A l \in Logins : \A v : ~Sign(l, v)
      PROVE  Cardinality(Open(u)') <= Cardinality(Logins)
  BY <1>2, <1>4, OnlySignOpens, Shrinks
<1>5. QED
  BY <1>3, <1>4

\* However many logins of however many users overlap, a user never has more
\* sessions than there are login handlers; with one handler, one session.
THEOREM SessionsAreBounded == Spec => []SessionsBounded
<1>1. Init => SessionsBounded
  <2> SUFFICES ASSUME Init, NEW u \in Users PROVE Cardinality(Open(u)) <= Cardinality(Logins)
    BY DEF SessionsBounded, Open
  <2>1. Open(u) = {}
    BY DEF Init, Open, LiveRows, Signing, NoToken
  <2>2. QED
    BY <2>1, SessionsAssumption, FS_EmptySet, FS_CardinalityType
<1>2. Inv /\ SessionsBounded /\ [Next]_vars => SessionsBounded'
  BY StaysBounded
<1>3. QED
  BY <1>1, <1>2, AlwaysInv, PTL DEF Spec

(***************************************************************************)
(* "prevents concurrent logins" is true as long as logins do not overlap:  *)
(* with one handler a user has one session, at any limits.                 *)
(***************************************************************************)
THEOREM SerialLoginsHaveOneSession ==
    ASSUME Cardinality(Logins) = 1 PROVE Spec => []OneSession
<1>1. ASSUME SessionsBounded PROVE OneSession
  <2> SUFFICES ASSUME NEW u \in Users, NEW j \in LiveRows(u), NEW k \in LiveRows(u), j # k
               PROVE  FALSE
    BY DEF OneSession
  <2>1. IsFiniteSet(Open(u)) /\ Cardinality(Open(u)) <= 1
    BY <1>1, OpenFinite DEF SessionsBounded, Open
  <2>2. {j, k} \subseteq Open(u)
    BY DEF Open
  <2>3. IsFiniteSet({j, k}) /\ Cardinality({j, k}) <= Cardinality(Open(u))
    BY <2>1, <2>2, FS_Subset
  <2>4. Cardinality({k}) = 1 /\ IsFiniteSet({k})
    BY FS_Singleton
  <2>5. Cardinality({k} \cup {j}) = 2
    BY <2>4, FS_AddElement
  <2>6. {k} \cup {j} = {j, k}
    OBVIOUS
  <2>7. Cardinality(Open(u)) \in Nat
    BY <2>1, FS_CardinalityType
  <2> QED
    BY <2>1, <2>3, <2>5, <2>6, <2>7
<1> QED
  BY <1>1, SessionsAreBounded, PTL
=============================================================================
