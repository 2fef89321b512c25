------------------------------- MODULE Sessions -------------------------------
(***************************************************************************)
(* Logging in and out of the API: login with its rate limiter, the table   *)
(* of tokens, and the get_current_user dependency of every other request.  *)
(*                                                                         *)
(* All of it is `async def' on one event loop, so a handler runs alone     *)
(* from one await to the next.  A login awaits at two places: the facial   *)
(* service, and the decoding of the fresh JWT in the threadpool, between   *)
(* the check for another session and the insert of its own row.            *)
(*                                                                         *)
(* Time: one Tick is 60 minutes, what one of the two dependencies calls    *)
(* inactivity.  The 60-second window of the rate limiter is much shorter:  *)
(* its attempts leave it by a step of their own.                           *)
(***************************************************************************)
EXTENDS Integers, Sequences, FiniteSets

CONSTANTS
    Users,        \* active accounts of active organizations at the start
    Logins,       \* login handlers that may be in flight
    Limiters,     \* the dependencies: get_current_user, .._for_others
    IdleLimit,    \* the inactivity each of them allows, in ticks
    Lifetime,     \* `exp' of a JWT and expiration_period of its row
    MaxAttempts,  \* RateLimiter.max_attempts
    MaxTokens     \* bound: tokens ever generated

CONSTANTS NoUser, Main   \* Main: get_current_user, which logout depends on

Tokens == 1..MaxTokens

ASSUME SessionsAssumption ==
    /\ NoUser \notin Users
    /\ Main \in Limiters
    /\ IdleLimit \in [Limiters -> Nat]
    /\ Lifetime \in Nat \ {0}
    /\ MaxAttempts \in Nat \ {0}
    /\ MaxTokens \in Nat
    /\ IsFiniteSet(Logins)

VARIABLES
    active,    \* users.is_active
    attempts,  \* RateLimiter.failed_attempts: those still in the window
    token,     \* each JWT with its row of the table tokens
    nextToken, \* the JWT the next login generates
    cached,    \* JWTs whose payload is in Security.token_cache
    login      \* the login handlers

vars == <<active, attempts, token, nextToken, cached, login>>

(***************************************************************************)
(* left: time until `exp', the same for the JWT and its row.  idle: time   *)
(* since the row's last_activity.  at: "signing" before the insert, "row"  *)
(* while the row exists, "gone" once it is deleted (the client still has   *)
(* the JWT), "lost" if the process died before the client got it.          *)
(***************************************************************************)
Token == [user : Users \cup {NoUser},
          at : {"unused", "signing", "row", "gone", "lost"},
          left : 0..Lifetime,
          idle : Nat]

\* What an attempt in the window turned out to be.
Outcome == {"wrong", "concurrent"}

Login == [pc : {"idle", "face", "signing"},
          user : Users \cup {NoUser},
          token : Tokens \cup {0}]

TypeOK ==
    /\ active \in [Users -> BOOLEAN]
    /\ attempts \in [Users -> Seq(Outcome)]
    /\ token \in [Tokens -> Token]
    /\ nextToken \in 1..(MaxTokens + 1)
    /\ cached \subseteq Tokens
    /\ login \in [Logins -> Login]

IdleLogin == [pc |-> "idle", user |-> NoUser, token |-> 0]
NoToken == [user |-> NoUser, at |-> "unused", left |-> 0, idle |-> 0]

Init ==
    /\ active = [u \in Users |-> TRUE]
    /\ attempts = [u \in Users |-> <<>>]
    /\ token = [k \in Tokens |-> NoToken]
    /\ nextToken = 1
    /\ cached = {}
    /\ login = [l \in Logins |-> IdleLogin]

-----------------------------------------------------------------------------
(* Login: authenticate_user.                                               *)

\* Mutants of Blocking: the query forgets the expiry, or is not made.
AnyRow(u) == {k \in Tokens : token[k].user = u /\ token[k].at = "row"}
NoRow(u) == {k \in Tokens : token[k].user # token[k].user}

\* "existing_token": the rows that make a login a concurrent one.
Blocking(u) ==
    {k \in Tokens : token[k].user = u /\ token[k].at = "row" /\ token[k].left > 0}

\* The handler has looked the user up, found it active, and has its password.
HasPassword(l, u) ==
    \/ login[l].pc = "idle" /\ active[u]
    \/ login[l].pc = "face" /\ login[l].user = u

TooMany(u) == Len(attempts[u]) >= MaxAttempts

Leave(l) == login' = [login EXCEPT ![l] = IdleLogin]

\* A facial image and a facial service that answers its health check.
FaceStart(l, u) ==
    /\ login[l].pc = "idle"
    /\ active[u]
    /\ login' = [login EXCEPT ![l] = [pc |-> "face", user |-> u, token |-> 0]]
    /\ UNCHANGED <<active, attempts, token, nextToken, cached>>

\* The service fails, or says no and there is no password, or the face is
\* right but another session exists.
FaceFails(l) ==
    /\ login[l].pc = "face"
    /\ Leave(l)
    /\ UNCHANGED <<active, attempts, token, nextToken, cached>>

\* is_allowed: the attempt over the limit deactivates the account.
LockOut(l, u) ==
    /\ HasPassword(l, u)
    /\ TooMany(u)
    /\ active' = [active EXCEPT ![u] = FALSE]
    /\ Leave(l)
    /\ UNCHANGED <<attempts, token, nextToken, cached>>

\* Every attempt is counted before its password is verified.
CountAttempt(l, u, outcome) ==
    /\ HasPassword(l, u)
    /\ ~TooMany(u)
    /\ attempts' = [attempts EXCEPT ![u] = Append(@, outcome)]
    /\ Leave(l)
    /\ UNCHANGED <<active, token, nextToken, cached>>

WrongPassword(l, u) == CountAttempt(l, u, "wrong")

\* The password is right, but the user is logged in elsewhere: 403.
RefuseConcurrent(l, u) == Blocking(u) # {} /\ CountAttempt(l, u, "concurrent")

\* Mutant of Issued: the expiry is computed an hour ahead of UTC.
IssuedAhead(u) ==
    [user |-> u, at |-> "signing", left |-> Lifetime + 1, idle |-> 0]

\* A JWT valid for 28800 seconds, and the row that is to be stored with it.
Issued(u) == [user |-> u, at |-> "signing", left |-> Lifetime, idle |-> 0]

(***************************************************************************)
(* No other session: the attempts are forgotten and a JWT is generated.    *)
(* Then the handler awaits decode_token.                                   *)
(***************************************************************************)
Sign(l, u) ==
    /\ Blocking(u) = {}
    /\ nextToken <= MaxTokens
    /\ attempts' = [attempts EXCEPT ![u] = <<>>]
    /\ token' = [token EXCEPT ![nextToken] = Issued(u)]
    /\ nextToken' = nextToken + 1
    /\ login' = [login EXCEPT ![l] =
                    [pc |-> "signing", user |-> u, token |-> nextToken]]
    /\ UNCHANGED <<active, cached>>

AcceptPassword(l, u) == HasPassword(l, u) /\ ~TooMany(u) /\ Sign(l, u)

\* The facial path meets neither the limiter nor is_active again.
AcceptFace(l) == login[l].pc = "face" /\ Sign(l, login[l].user)

\* The await is over: insert the row, commit, answer with the JWT.
InsertToken(l) ==
    LET k == login[l].token IN
    /\ login[l].pc = "signing"
    /\ token' = [token EXCEPT ![k].at = "row"]
    /\ cached' = cached \cup {k}
    /\ Leave(l)
    /\ UNCHANGED <<active, attempts, nextToken>>

-----------------------------------------------------------------------------
(* Any other request: get_current_user and its variant, with a JWT `k'.    *)

InHand(k) == token[k].at \in {"row", "gone"}

\* last_activity is read from the JWT, where it is the time of the login.
Inactivity(k) == Lifetime - token[k].left

\* Mutants of Touched: the UPDATE becomes an upsert.
TouchedOrCreated(k) == [token EXCEPT ![k].idle = 0, ![k].at = "row"]

\* UPDATE tokens SET last_activity: of no effect once the row is gone.
Touched(k) ==
    IF token[k].at = "row" THEN [token EXCEPT ![k].idle = 0] ELSE token

Serve(k, d) ==
    /\ InHand(k)
    /\ token[k].left > 0
    /\ Inactivity(k) <= IdleLimit[d]
    /\ token' = Touched(k)
    /\ cached' = cached \cup {k}
    /\ UNCHANGED <<active, attempts, nextToken, login>>

DeleteRow(k) == token' = [token EXCEPT ![k].at = "gone"]

\* "Logged out due to inactivity".
LogOutIdle(k, d) ==
    /\ InHand(k)
    /\ token[k].left > 0
    /\ Inactivity(k) > IdleLimit[d]
    /\ DeleteRow(k)
    /\ cached' = cached \cup {k}
    /\ UNCHANGED <<active, attempts, nextToken, login>>

\* "Token expired": only a cached payload gets here, jwt.decode refuses an
\* expired JWT before the row is looked at.
LogOutExpired(k) ==
    /\ InHand(k)
    /\ token[k].left = 0
    /\ k \in cached
    /\ DeleteRow(k)
    /\ UNCHANGED <<active, attempts, nextToken, cached, login>>

\* POST /logout is a request of its own.
Logout(k) ==
    /\ InHand(k)
    /\ token[k].left > 0
    /\ Inactivity(k) <= IdleLimit[Main]
    /\ DeleteRow(k)
    /\ cached' = cached \cup {k}
    /\ UNCHANGED <<active, attempts, nextToken, login>>

-----------------------------------------------------------------------------
(* The environment.                                                        *)

\* delete_or_archive_employee, soft: no other code writes users.is_active.
Archive(u) ==
    /\ active[u]
    /\ active' = [active EXCEPT ![u] = FALSE]
    /\ UNCHANGED <<attempts, token, nextToken, cached, login>>

\* The oldest attempt is more than `period' seconds old.
AttemptExpires(u) ==
    /\ attempts[u] # <<>>
    /\ attempts' = [attempts EXCEPT ![u] = Tail(@)]
    /\ UNCHANGED <<active, token, nextToken, cached, login>>

\* The TTLCache drops an entry.
Evict(k) ==
    /\ k \in cached
    /\ cached' = cached \ {k}
    /\ UNCHANGED <<active, attempts, token, nextToken, login>>

\* The time since the last activity is capped where it stops mattering.
Older(k) ==
    [token[k] EXCEPT !.left = IF @ = 0 THEN 0 ELSE @ - 1,
                     !.idle = IF token[k].at # "row" \/ @ > Lifetime THEN @ ELSE @ + 1]

Tick ==
    /\ token' = [k \in Tokens |-> Older(k)]
    /\ UNCHANGED <<active, attempts, nextToken, cached, login>>

\* The process restarts: memory is lost, committed rows are not.
Restart ==
    /\ attempts' = [u \in Users |-> <<>>]
    /\ cached' = {}
    /\ login' = [l \in Logins |-> IdleLogin]
    /\ token' = [k \in Tokens |-> IF token[k].at = "signing"
                                  THEN [token[k] EXCEPT !.at = "lost"]
                                  ELSE token[k]]
    /\ UNCHANGED <<active, nextToken>>

-----------------------------------------------------------------------------
LoginStep(l) ==
    \/ \E u \in Users :
          \/ FaceStart(l, u)
          \/ LockOut(l, u)
          \/ WrongPassword(l, u)
          \/ RefuseConcurrent(l, u)
          \/ AcceptPassword(l, u)
    \/ FaceFails(l)
    \/ AcceptFace(l)
    \/ InsertToken(l)

RequestStep(k) ==
    \/ \E d \in Limiters : Serve(k, d) \/ LogOutIdle(k, d)
    \/ LogOutExpired(k)
    \/ Logout(k)

Next ==
    \/ \E l \in Logins : LoginStep(l)
    \/ \E k \in Tokens : RequestStep(k) \/ Evict(k)
    \/ \E u \in Users : Archive(u) \/ AttemptExpires(u)
    \/ Tick
    \/ Restart

Spec == Init /\ [][Next]_vars

(***************************************************************************)
(* Time passes, and a login that awaits its decoded JWT gets it.  Nobody   *)
(* has to log in, to send a request or to log out.                         *)
(***************************************************************************)
Fairness == WF_vars(Tick) /\ \A l \in Logins : WF_vars(InsertToken(l))

FairSpec == Spec /\ Fairness

-----------------------------------------------------------------------------
(* Properties                                                              *)

LiveRows(u) ==
    {k \in Tokens : token[k].user = u /\ token[k].at = "row" /\ token[k].left > 0}

Signing(u) == {k \in Tokens : token[k].user = u /\ token[k].at = "signing"}

(***************************************************************************)
(* The check for another session and the insert are not one step, so       *)
(* logins that overlap all succeed; but the sessions of a user are never   *)
(* more than the logins that can be in flight (authenticate_user, 5 to 7). *)
(***************************************************************************)
SessionsBounded ==
    \A u \in Users :
        Cardinality(LiveRows(u) \cup Signing(u)) <= Cardinality(Logins)

(***************************************************************************)
(* "prevents concurrent logins": at most one unexpired row of a user.      *)
(***************************************************************************)
OneSession == \A u \in Users : \A j, k \in LiveRows(u) : j = k

(***************************************************************************)
(* A row that logout or the inactivity check deleted does not come back:   *)
(* a late request with the same JWT must not block its user's next login.  *)
(***************************************************************************)
LogoutIsFinal ==
    [][\A k \in Tokens : token[k].at = "gone" => token'[k].at = "gone"]_vars

(***************************************************************************)
(* Whatever happens to their clients, the rows of a user stop blocking     *)
(* logins again and again: nobody is shut out by sessions nobody can end.  *)
(***************************************************************************)
NotShutOut == \A u \in Users : []<>(Blocking(u) = {})

\* Between two successes no more than max_attempts passwords are verified
\* in a window, however many logins overlap (RateLimiter.is_allowed).
AttemptsWithinLimit == \A u \in Users : Len(attempts[u]) <= MaxAttempts
=============================================================================
