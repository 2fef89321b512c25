------------------------------ MODULE Connections ------------------------------
(***************************************************************************)
(* The sockets of the API: ConnectionManager, the handlers of its socket   *)
(* endpoints, the logout that closes a user's sockets and the broadcasts   *)
(* that other requests await.                                              *)
(*                                                                         *)
(* One event loop runs it all: a task is atomic from one await that        *)
(* suspends to the next.  The lock of ConnectionManager is never held      *)
(* across an await, so register and unregister are atomic; sends, closes,  *)
(* receives and the threadpool suspend.  The lists are sets here: a socket *)
(* is in a list at most once, and no property depends on the order.  There *)
(* is one organization, lists of different ones never meet.                *)
(***************************************************************************)
EXTENDS Naturals, FiniteSets

CONSTANTS
    Sockets,  \* WebSocket objects that exist at a time
    Users,
    Kinds,    \* the endpoints in use, a subset of Endpoint
    Logouts,  \* logout handlers that may be in flight
    Pushes    \* tasks that may be in manager.broadcast at a time

CONSTANTS NoSocket, NoUser

(***************************************************************************)
(* form: /ws/form-design.  inputs: /ws/employee-inputs.  employee:         *)
(* /ws/employee.  summary: /ws/summary.  notify: /ws/notifications.        *)
(***************************************************************************)
Endpoint == {"form", "inputs", "employee", "summary", "notify"}

ASSUME ConnectionsAssumption ==
    /\ Kinds \subseteq Endpoint
    /\ NoSocket \notin Sockets
    /\ NoUser \notin Users

VARIABLES
    active,  \* active_connections of the organization
    conns,   \* user_connections
    sock,    \* each socket with its handler
    logout,  \* the tasks in unregister_user
    push     \* the tasks in broadcast

vars == <<active, conns, sock, logout, push>>

(***************************************************************************)
(* app: "closed" once the server has sent a close or a send failed; peer:  *)
(* whether the client is still connected; code: the server's close code,   *)
(* "away" for 1001, "policy" for 1008, "error" for 1011; rights: "jwt"     *)
(* until the JWT expires, "row" while its row of the table tokens exists;  *)
(* only what the handler looks at again after the accept.                  *)
(* pc: "initial" and "updating" are suspended in a send, "receiving" in    *)
(* receive_text, "checking" in the threadpool, "sleeping" in sleep(60),    *)
(* "closing" in close; "spinning" never suspends again.                    *)
(***************************************************************************)
Rights == {"jwt", "row"}

Socket == [kind : Endpoint, user : Users \cup {NoUser},
           pc : {"idle", "initial", "receiving", "updating", "checking",
                 "sleeping", "closing", "spinning", "done"},
           app : {"open", "closed"}, peer : {"here", "gone"},
           code : {"none", "away", "policy", "error"}, rights : SUBSET Rights]

\* now: the socket whose close is awaited.
LogoutTask == [pc : {"idle", "looping", "closing"}, user : Users \cup {NoUser},
               todo : SUBSET Sockets, now : Sockets \cup {NoSocket}]

PushTask == [pc : {"idle", "looping", "sending"},
             todo : SUBSET Sockets, now : Sockets \cup {NoSocket}]

TypeOK ==
    /\ active \subseteq Sockets
    /\ conns \in [Users -> SUBSET Sockets]
    /\ sock \in [Sockets -> Socket]
    /\ logout \in [Logouts -> LogoutTask]
    /\ push \in [Pushes -> PushTask]

NewSocket == [kind |-> "form", user |-> NoUser, pc |-> "idle", app |-> "open",
              peer |-> "here", code |-> "none", rights |-> {}]
NoLogout == [pc |-> "idle", user |-> NoUser, todo |-> {}, now |-> NoSocket]
NoPush == [pc |-> "idle", todo |-> {}, now |-> NoSocket]

Init ==
    /\ active = {}
    /\ conns = [u \in Users |-> {}]
    /\ sock = [s \in Sockets |-> NewSocket]
    /\ logout = [l \in Logouts |-> NoLogout]
    /\ push = [p \in Pushes |-> NoPush]

-----------------------------------------------------------------------------
(* ConnectionManager and the ways a handler ends.                          *)

Registered(s) == s \in active \/ \E u \in Users : s \in conns[u]

\* Mutants of Unregister: the user's list is forgotten, or deleted whole.
UnregisterFromOrg(s, u) ==
    /\ active' = active \ {s}
    /\ conns' = conns
UnregisterDelKey(s, u) ==
    /\ active' = active \ {s}
    /\ conns' = [v \in Users \ {u} |-> conns[v]]

Unregister(s, u) ==
    /\ active' = active \ {s}
    /\ conns' = [conns EXCEPT ![u] = @ \ {s}]

Leave(s) == Unregister(s, sock[s].user)

Keep == UNCHANGED <<active, conns>>

Goto(s, pc) == sock' = [sock EXCEPT ![s].pc = pc]

\* The handler returns or raises: the server drops the connection.
End(s) ==
    sock' = [sock EXCEPT ![s].pc = "done", ![s].peer = "gone", ![s].rights = {}]

\* The same after a send on the closed connection failed.
EndFailed(s) ==
    sock' = [sock EXCEPT ![s].pc = "done", ![s].peer = "gone", ![s].app = "closed",
                         ![s].rights = {}]

\* Mutant of CleansUp: summary relies on its outer `except' clauses only.
CleansUpOuter(s) == sock[s].kind \in {"form", "inputs"}

\* Where a WebSocketDisconnect out of the receive loop leads to unregister.
CleansUp(s) == sock[s].kind \in {"form", "inputs", "summary"}

Cleanup(s) == IF CleansUp(s) THEN Leave(s) ELSE Keep

(***************************************************************************)
(* receive_text on a socket another task closed: RuntimeError.  form       *)
(* ignores it and tries again, for ever; summary unregisters in its        *)
(* `finally'; the others call close, which raises before unregister.       *)
(***************************************************************************)
ReceiveAfterClose(s) ==
    \/ sock[s].kind = "form" /\ Goto(s, "spinning") /\ Keep
    \/ sock[s].kind = "summary" /\ End(s) /\ Leave(s)
    \/ sock[s].kind \in {"employee", "inputs"} /\ End(s) /\ Keep

\* The handler comes to the next receive_text of its loop.
ToReceive(s) ==
    \/ sock[s].app = "open" /\ Goto(s, "receiving") /\ Keep
    \/ sock[s].app = "closed" /\ ReceiveAfterClose(s)

\* Mutant of Broken: the server's own close is not seen.
BrokenByPeer(s) == sock[s].peer = "gone"

\* What a send or a receive in progress can fail on.
Broken(s) == sock[s].app = "closed" \/ sock[s].peer = "gone"

Tasks == <<logout, push>>

-----------------------------------------------------------------------------
(* The handlers.                                                           *)

\* The authenticated endpoints look at the JWT, not at its row.
Admits(k, rights) == "jwt" \in rights \/ k \in {"form", "notify"}

\* What the endpoint looks at again.
LooksAt(k) == {r \in Rights : k = "summary" \/ (k = "employee" /\ r = "jwt")}

\* Where the handler suspends first.
FirstAwait(k) ==
    IF k = "inputs" THEN "receiving" ELSE IF k = "notify" THEN "sleeping" ELSE "initial"

\* From the authentication through accept to the first await that suspends.
Connect(s, u, k, rights) ==
    /\ sock[s].pc = "idle"
    /\ Admits(k, rights)
    /\ sock' = [sock EXCEPT ![s] =
                  [NewSocket EXCEPT !.kind = k, !.user = u, !.pc = FirstAwait(k),
                                    !.rights = rights \cap LooksAt(k)]]
    /\ active' = active \cup {s}
    /\ conns' = IF k = "notify" THEN conns ELSE [conns EXCEPT ![u] = @ \cup {s}]
    /\ UNCHANGED Tasks

InitialSent(s) ==
    /\ sock[s].pc = "initial"
    /\ ToReceive(s)
    /\ UNCHANGED Tasks

\* WebSocketDisconnect before the receive loop: all three unregister.
InitialFails(s) ==
    /\ sock[s].pc = "initial"
    /\ Broken(s)
    /\ EndFailed(s)
    /\ Leave(s)
    /\ UNCHANGED Tasks

\* A close, of the client or of logout, reaches receive_text.
Disconnected(s) ==
    /\ sock[s].pc = "receiving"
    /\ Broken(s)
    /\ End(s)
    /\ Cleanup(s)
    /\ UNCHANGED Tasks

\* form and inputs: a message that was queued before the socket was closed.
\* On an open socket a message changes nothing.
LateMessage(s) ==
    /\ sock[s].pc = "receiving"
    /\ sock[s].kind \in {"form", "inputs"}
    /\ sock[s].app = "closed"
    /\ ReceiveAfterClose(s)
    /\ UNCHANGED Tasks

\* summary: a message or 60 seconds; the token is decoded in the threadpool.
Wake(s) ==
    /\ sock[s].pc = "receiving"
    /\ sock[s].kind = "summary"
    /\ Goto(s, "checking")
    /\ Keep
    /\ UNCHANGED Tasks

\* Mutant of Valid: the row is not looked up.
ValidJwt(s) == "jwt" \in sock[s].rights

\* is_ws_token_valid: the JWT and its row.
Valid(s) == sock[s].rights = Rights

Checked(s) ==
    /\ sock[s].pc = "checking"
    /\ Valid(s)
    /\ ToReceive(s)
    /\ UNCHANGED Tasks

StartClose(s, c) ==
    sock' = [sock EXCEPT ![s].pc = "closing", ![s].app = "closed", ![s].code = c]

\* close: raises if the socket is closed already.
CloseWith(s, c) ==
    \/ sock[s].app = "open" /\ StartClose(s, c)
    \/ sock[s].app = "closed" /\ End(s)

(***************************************************************************)
(* Not valid: WebSocketState has no member CLOSED, so the handler leaves   *)
(* with an AttributeError: it unregisters and closes with 1011.            *)
(***************************************************************************)
Revoked(s) ==
    /\ sock[s].pc = "checking"
    /\ ~Valid(s)
    /\ Leave(s)
    /\ CloseWith(s, "error")
    /\ UNCHANGED Tasks

\* employee: the JWT is decoded again after every message and 60 seconds.
Reauthenticate(s) ==
    \/ "jwt" \in sock[s].rights /\ ToReceive(s)
    \/ "jwt" \notin sock[s].rights /\ CloseWith(s, "policy") /\ Keep

WakeEmployee(s) ==
    /\ sock[s].pc = "receiving"
    /\ sock[s].kind = "employee"
    /\ Reauthenticate(s)
    /\ UNCHANGED Tasks

Refresh(s) ==
    /\ sock[s].pc = "receiving"
    /\ sock[s].kind = "employee"
    /\ ~Broken(s)
    /\ Goto(s, "updating")
    /\ Keep
    /\ UNCHANGED Tasks

Refreshed(s) ==
    /\ sock[s].pc = "updating"
    /\ Reauthenticate(s)
    /\ UNCHANGED Tasks

RefreshFails(s) ==
    /\ sock[s].pc = "updating"
    /\ Broken(s)
    /\ EndFailed(s)
    /\ Cleanup(s)
    /\ UNCHANGED Tasks

\* summary unregisters once more after its close.
Closed(s) ==
    /\ sock[s].pc = "closing"
    /\ End(s)
    /\ Cleanup(s)
    /\ UNCHANGED Tasks

\* notify: send_personal_message(reminder, websocket) lacks an argument.
Remind(s) ==
    /\ sock[s].pc = "sleeping"
    /\ End(s)
    /\ Keep
    /\ UNCHANGED Tasks

-----------------------------------------------------------------------------
(* Logout: unregister_user.                                                *)

\* The row of the request's JWT is deleted, and with it that right of the
\* sockets that were opened with it; then the user's sockets are listed.
LogoutStart(l, u, mine) ==
    /\ logout[l].pc = "idle"
    /\ \A s \in mine : sock[s].user = u
    /\ sock' = [s \in Sockets |-> IF s \in mine
                                  THEN [sock[s] EXCEPT !.rights = @ \ {"row"}] ELSE sock[s]]
    /\ logout' = [logout EXCEPT ![l] =
                    [pc |-> "looping", user |-> u, todo |-> conns[u], now |-> NoSocket]]
    /\ UNCHANGED <<active, conns, push>>

\* Mutant of Listed: the loop runs over the list itself, not over a copy.
ListedNow(l) == conns[logout[l].user]

Listed(l) == logout[l].todo

\* Mutant of Evict: the socket is forgotten, not closed.
EvictOnly(l, s) ==
    /\ sock' = sock
    /\ logout' = [logout EXCEPT ![l].todo = @ \ {s}]

\* Close the socket and wait, unless it is closed already.
Evict(l, s) ==
    \/ /\ sock[s].app = "open"
       /\ sock' = [sock EXCEPT ![s].app = "closed", ![s].code = "away"]
       /\ logout' = [logout EXCEPT ![l].pc = "closing", ![l].now = s, ![l].todo = @ \ {s}]
    \/ /\ sock[s].app = "closed"
       /\ sock' = sock
       /\ logout' = [logout EXCEPT ![l].todo = @ \ {s}]

\* A socket is unregistered and closed: no other task runs in between.
LogoutNext(l, s) ==
    /\ logout[l].pc = "looping"
    /\ s \in Listed(l)
    /\ Unregister(s, logout[l].user)
    /\ Evict(l, s)
    /\ UNCHANGED push

LogoutClosed(l) ==
    /\ logout[l].pc = "closing"
    /\ logout' = [logout EXCEPT ![l].pc = "looping", ![l].now = NoSocket]
    /\ UNCHANGED <<active, conns, sock, push>>

LogoutDone(l) ==
    /\ logout[l].pc = "looping"
    /\ Listed(l) = {}
    /\ logout' = [logout EXCEPT ![l] = NoLogout]
    /\ UNCHANGED <<active, conns, sock, push>>

-----------------------------------------------------------------------------
(* broadcast: awaited by create_or_update_data_input.                      *)

PushStart(p) ==
    /\ push[p].pc = "idle"
    /\ push' = [push EXCEPT ![p] = [pc |-> "looping", todo |-> active, now |-> NoSocket]]
    /\ UNCHANGED <<active, conns, sock, logout>>

Targets(p) == push[p].todo

\* Sending to a closed socket raises at once and is ignored.
PushNext(p, s) ==
    /\ push[p].pc = "looping"
    /\ s \in Targets(p)
    /\ push' = [push EXCEPT ![p] = [pc |-> IF sock[s].app = "open" THEN "sending" ELSE "looping",
                                    todo |-> @.todo \ {s},
                                    now |-> IF sock[s].app = "open" THEN s ELSE NoSocket]]
    /\ UNCHANGED <<active, conns, sock, logout>>

PushSent(p) ==
    /\ push[p].pc = "sending"
    /\ push' = [push EXCEPT ![p].pc = "looping", ![p].now = NoSocket]
    /\ UNCHANGED <<active, conns, sock, logout>>

\* An OSError: the socket counts as closed from now on.
PushFails(p) ==
    /\ push[p].pc = "sending"
    /\ Broken(push[p].now)
    /\ sock' = [sock EXCEPT ![push[p].now].app = "closed"]
    /\ push' = [push EXCEPT ![p].pc = "looping", ![p].now = NoSocket]
    /\ UNCHANGED <<active, conns, logout>>

PushDone(p) ==
    /\ push[p].pc = "looping"
    /\ Targets(p) = {}
    /\ push' = [push EXCEPT ![p] = NoPush]
    /\ UNCHANGED <<active, conns, sock, logout>>

-----------------------------------------------------------------------------
(* The environment.                                                        *)

Running(s) == sock[s].pc \notin {"idle", "done"}

ClientLeaves(s) ==
    /\ Running(s)
    /\ sock[s].peer = "here"
    /\ sock' = [sock EXCEPT ![s].peer = "gone"]
    /\ Keep
    /\ UNCHANGED Tasks

JwtExpires(s) ==
    /\ Running(s)
    /\ "jwt" \in sock[s].rights
    /\ sock' = [sock EXCEPT ![s].rights = @ \ {"jwt"}]
    /\ Keep
    /\ UNCHANGED Tasks

\* A task holds the object in a copy of a list.
Held(s) ==
    \/ \E l \in Logouts : s = logout[l].now \/ s \in logout[l].todo
    \/ \E p \in Pushes : s = push[p].now \/ s \in push[p].todo

\* A WebSocket object that nothing refers to makes room for another one.
Collect(s) ==
    /\ sock[s].pc = "done"
    /\ ~Registered(s)
    /\ ~Held(s)
    /\ sock' = [sock EXCEPT ![s] = NewSocket]
    /\ Keep
    /\ UNCHANGED Tasks

-----------------------------------------------------------------------------
HandlerStep(s) ==
    \/ InitialSent(s) \/ InitialFails(s) \/ Disconnected(s) \/ LateMessage(s)
    \/ Wake(s) \/ Checked(s) \/ Revoked(s)
    \/ WakeEmployee(s) \/ Refresh(s) \/ Refreshed(s) \/ RefreshFails(s)
    \/ Closed(s) \/ Remind(s)

LogoutStep(l) == LogoutClosed(l) \/ LogoutDone(l) \/ \E s \in Sockets : LogoutNext(l, s)

PushStep(p) ==
    PushSent(p) \/ PushFails(p) \/ PushDone(p) \/ \E s \in Sockets : PushNext(p, s)

\* The event loop runs a task only when the one before has suspended.
EventLoopRuns == \A s \in Sockets : sock[s].pc # "spinning"

Next ==
    \/ /\ EventLoopRuns
       /\ \/ \E s \in Sockets :
                \/ \E u \in Users, k \in Kinds, rights \in SUBSET Rights : Connect(s, u, k, rights)
                \/ HandlerStep(s)
                \/ Collect(s)
          \/ \E l \in Logouts :
                \/ \E u \in Users, mine \in SUBSET Sockets : LogoutStart(l, u, mine)
                \/ LogoutStep(l)
          \/ \E p \in Pushes : PushStep(p) \/ PushStart(p)
    \/ \E s \in Sockets : ClientLeaves(s) \/ JwtExpires(s)

Spec == Init /\ [][Next]_vars

(***************************************************************************)
(* The loop comes back to every task that can go on: sends and closes      *)
(* finish or fail (the server's pings end the wait for a dead client),     *)
(* a pending close wakes receive_text, and sixty seconds pass.  Nobody     *)
(* has to connect, to leave or to log out.                                 *)
(***************************************************************************)
Fairness ==
    /\ \A s \in Sockets :
          /\ SF_vars(EventLoopRuns /\ Disconnected(s))
          /\ WF_vars(EventLoopRuns /\ (InitialSent(s) \/ InitialFails(s)))
          /\ WF_vars(EventLoopRuns /\ (Wake(s) \/ WakeEmployee(s)))
          /\ WF_vars(EventLoopRuns /\ (Checked(s) \/ Revoked(s)))
          /\ WF_vars(EventLoopRuns /\ (Refreshed(s) \/ RefreshFails(s)))
          /\ WF_vars(EventLoopRuns /\ (Closed(s) \/ Remind(s)))
    /\ \A l \in Logouts : WF_vars(EventLoopRuns /\ LogoutStep(l))
    /\ \A p \in Pushes : WF_vars(EventLoopRuns /\ PushStep(p))

FairSpec == Spec /\ Fairness

-----------------------------------------------------------------------------
(* Properties                                                              *)

(***************************************************************************)
(* The two maps agree, whatever handler, logout and broadcast are doing:   *)
(* a socket of a registering endpoint is in its organization's list        *)
(* exactly when it is in its own user's, and in nobody else's.             *)
(***************************************************************************)
ListsAgree ==
    \A s \in Sockets : sock[s].kind # "notify" =>
        \A u \in Users : s \in conns[u] <=> s \in active /\ sock[s].user = u

\* A socket nobody closed with a code: its client left, or a send on it failed.
ClosedWithoutCode(s) == sock[s].app = "closed" /\ sock[s].code = "none"

(***************************************************************************)
(* Who cleans up, whatever handlers, logouts and broadcasts do together:   *)
(* form and summary unregister on every path out of their handlers, inputs *)
(* on all but one (a late message on a socket that a failed broadcast      *)
(* marked closed), and a socket that a logout closed is in no list, of     *)
(* whatever endpoint.  Of an employee socket that ended otherwise this     *)
(* says nothing: see EndedIsUnregistered.                                  *)
(***************************************************************************)
EndedLeavesLists ==
    \A s \in Sockets : sock[s].pc = "done" /\ Registered(s) =>
        /\ sock[s].kind \notin {"form", "summary"}
        /\ sock[s].kind = "inputs" => ClosedWithoutCode(s)
        /\ sock[s].code # "away"

(***************************************************************************)
(* "Proper cleanup on disconnect" (websocket_test_guide.md, of             *)
(* /ws/employee): the handler of a socket that ended left it in no list.   *)
(***************************************************************************)
EndedIsUnregistered ==
    \A s \in Sockets : sock[s].pc = "done" => ~Registered(s)

(***************************************************************************)
(* unregister_user and the handlers unregister and close without letting   *)
(* go of the loop: no handler runs on unregistered with its socket open,   *)
(* a client that believes it is connected and gets no broadcast any more.  *)
(***************************************************************************)
UnregisteredIsClosed ==
    \A s \in Sockets : Running(s) /\ ~Registered(s) => sock[s].app = "closed"

(***************************************************************************)
(* "Checks token validity every 60 seconds", "Expired tokens cause         *)
(* connection closure": the handlers of employee end once the JWT has      *)
(* expired, those of summary also once logout has deleted its row.         *)
(***************************************************************************)
UnauthorizedIsClosed ==
    \A s \in Sockets :
        /\ Running(s)
        /\ \/ sock[s].kind = "employee" /\ "jwt" \notin sock[s].rights
           \/ sock[s].kind = "summary" /\ sock[s].rights # Rights
        ~> ~Running(s)

\* Whoever closes a socket, client or server, the handler notices and ends.
BrokenEnds ==
    \A s \in Sockets :
        Running(s) /\ (sock[s].app = "closed" \/ sock[s].peer = "gone") ~> ~Running(s)

(***************************************************************************)
(* Clients that keep reconnecting keep neither a logout from its answer    *)
(* nor the submission of a change request that awaits its broadcast.       *)
(***************************************************************************)
TasksEnd ==
    /\ \A l \in Logouts : logout[l].pc # "idle" ~> logout[l].pc = "idle"
    /\ \A p \in Pushes : push[p].pc # "idle" ~> push[p].pc = "idle"
=============================================================================
