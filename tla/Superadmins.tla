----------------------------- MODULE Superadmins -----------------------------
(***************************************************************************)
(* The sessions of the superadmin (Apis/super_auth.py,                     *)
(* Crud/sup_dependencies.py, Utils/sup_security.py): access tokens,        *)
(* refresh tokens in a table and a cookie, links to a dashboard kept in    *)
(* memory for ten minutes, and the account seeded at startup               *)
(* (seed_data.py).  /token, /refresh and /logout await the database: each  *)
(* await lets the others run.  There is one superadmin; nothing in the     *)
(* code deactivates it, an operator may.                                   *)
(***************************************************************************)
EXTENDS RecordsDomain, Integers, FiniteSets

CONSTANTS Tokens,    \* refresh tokens, each made once
          Links, MaxLinks   \* dashboard ids; TTLCache(maxsize)

VARIABLES
    admin,     \* the row of super_admins: absent, active or not
    stored,    \* refresh_tokens that have not expired
    known,     \* tokens that were answered to a client
    req,       \* request -> what it does and the token it holds
    ended,     \* tokens whose logout was answered
    links,     \* temporary_dashboard_links
    used       \* links ever made

vars == <<admin, stored, known, req, ended, links, used>>

Idle == [op |-> "idle", token |-> None]
Ops == {"idle", "token", "found", "leaving", "deleted", "issued", "refused"}

TypeOK ==
    /\ admin \in {"absent", "active", "inactive"}
    /\ stored \subseteq Tokens /\ known \subseteq Tokens /\ ended \subseteq known
    /\ req \in [Requests -> [op : Ops, token : Tokens \cup {None}]]
    /\ links \subseteq used /\ used \subseteq Links

Init ==
    /\ admin = "absent" /\ stored = {} /\ known = {} /\ ended = {}
    /\ req = [r \in Requests |-> Idle]
    /\ links = {} /\ used = {}

\* seed_superadmin, at every start: the row is looked up by name first.
Seed ==
    /\ admin' = IF admin = "absent" THEN "active" ELSE admin
    /\ links' = {}     \* the cache did not survive
    /\ req' = [r \in Requests |-> Idle]
    /\ UNCHANGED <<stored, known, ended, used>>

Deactivate ==
    /\ admin = "active" /\ admin' = "inactive"
    /\ UNCHANGED <<stored, known, req, ended, links, used>>

\* /login: name, password, security key, and the account must be active.
Login(k) ==
    /\ admin = "active" /\ k \notin used
    /\ used' = used \cup {k}
    /\ \E kept \in SUBSET links :        \* the least recently used link gives way
           /\ Cardinality(kept) = IF Cardinality(links) = MaxLinks
                                  THEN MaxLinks - 1 ELSE Cardinality(links)
           /\ links' = kept \cup {k}
    /\ UNCHANGED <<admin, stored, known, req, ended>>

LinkExpires(k) ==
    /\ k \in links /\ links' = links \ {k}
    /\ UNCHANGED <<admin, stored, known, req, ended, used>>

Step(r, op, t) == req' = [req EXCEPT ![r] = [op |-> op, token |-> t]]

Fresh(t) == t \notin known \cup stored /\ \A r \in Requests : req[r].token # t

\* /token checks the password only; the row is committed at the second await.
TokenBegin(r, t) ==
    /\ req[r].op = "idle" /\ admin # "absent" /\ Fresh(t)
    /\ Step(r, "token", t)
    /\ UNCHANGED <<admin, stored, known, ended, links, used>>

TokenCommit(r) ==
    /\ req[r].op = "token"
    /\ stored' = stored \cup {req[r].token}
    /\ Step(r, "issued", req[r].token)
    /\ UNCHANGED <<admin, known, ended, links, used>>

LookupAny(t) == t \in known      \* a mutant: the row is not asked for

(***************************************************************************)
(* /refresh: a token that is stored and has not expired gets an access     *)
(* token; it is looked up, and the answer made without looking again.      *)
(***************************************************************************)
Lookup(t) == t \in stored

Refresh(r, t) ==
    /\ req[r].op = "idle" /\ t \in known
    /\ Step(r, IF Lookup(t) THEN "found" ELSE "refused", t)
    /\ UNCHANGED <<admin, stored, known, ended, links, used>>

RefreshAnswer(r) ==
    /\ req[r].op = "found"
    /\ Step(r, "issued", req[r].token)
    /\ UNCHANGED <<admin, stored, known, ended, links, used>>

\* /logout: get_current_superadmin asks for an active row; the token's row goes.
Logout(r, t) ==
    /\ req[r].op = "idle" /\ t \in known
    /\ Step(r, IF admin = "active" THEN "leaving" ELSE "refused", t)
    /\ UNCHANGED <<admin, stored, known, ended, links, used>>

LogoutCommit(r) ==
    /\ req[r].op = "leaving"
    /\ stored' = stored \ {req[r].token}
    /\ Step(r, "deleted", req[r].token)
    /\ UNCHANGED <<admin, known, ended, links, used>>

LogoutAnswer(r) ==
    /\ req[r].op = "deleted"
    /\ ended' = ended \cup {req[r].token}
    /\ Step(r, "idle", None)
    /\ UNCHANGED <<admin, stored, known, links, used>>

Expire(t) ==
    /\ t \in stored /\ stored' = stored \ {t}
    /\ UNCHANGED <<admin, known, req, ended, links, used>>

\* The client has its answer.
Return(r) ==
    /\ req[r].op \in {"issued", "refused"}
    /\ Step(r, "idle", None)
    /\ known' = known \cup (IF req[r].op = "issued" THEN {req[r].token} ELSE {})
    /\ UNCHANGED <<admin, stored, ended, links, used>>

Next ==
    \/ Seed \/ Deactivate
    \/ \E k \in Links : Login(k) \/ LinkExpires(k)
    \/ \E t \in Tokens : Expire(t)
    \/ \E r \in Requests :
           \/ TokenCommit(r) \/ RefreshAnswer(r) \/ LogoutCommit(r) \/ LogoutAnswer(r)
           \/ Return(r)
           \/ \E t \in Tokens : TokenBegin(r, t) \/ Refresh(r, t) \/ Logout(r, t)

Spec == Init /\ [][Next]_vars

-----------------------------------------------------------------------------
(***************************************************************************)
(* Properties                                                              *)
(***************************************************************************)

(***************************************************************************)
(* "Invalidate the current session's refresh token" (super_auth.py:148):   *)
(* from the commit of a logout on, before it is answered and after, its    *)
(* token is found by no refresh, although the request that made the token, *)
(* refreshes and other logouts overlap with it.  A refresh that found it   *)
(* before the commit may still be answered an access token: that, and no   *)
(* more, is what a logout leaves open.                                     *)
(***************************************************************************)
Invalidated == ended \cup {req[q].token : q \in {p \in Requests : req[p].op = "deleted"}}

LoggedOutStaysOut ==
    [][\A r \in Requests : (req[r].op = "idle" /\ req'[r].op = "found")
                           => req'[r].token \notin Invalidated]_vars
=============================================================================
