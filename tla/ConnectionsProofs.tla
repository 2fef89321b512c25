--------------------------- MODULE ConnectionsProofs ---------------------------
(***************************************************************************)
(* What holds of the registry of sockets for any number of sockets, users, *)
(* logouts and broadcasts, and any choice of endpoints.                    *)
(***************************************************************************)
EXTENDS Connections, TLAPS

(***************************************************************************)
(* The inductive invariant speaks of one socket at a time: what its pc, its *)
(* kind, its close code and its membership of the two maps have to do with  *)
(* each other, and that logouts hold sockets of their own user only.        *)
(***************************************************************************)
InMap(t) == \E u \in Users : t \in conns[u]

Agrees(t) ==
    sock[t].kind # "notify" =>
        \A u \in Users : t \in conns[u] <=> t \in active /\ sock[t].user = u

EndsClean(t) ==
    sock[t].pc = "done" /\ Registered(t) =>
        \/ sock[t].kind \in {"employee", "notify"}
        \/ sock[t].kind = "inputs" /\ sock[t].app = "closed" /\ sock[t].code = "none"

LeavesClosed(t) == Running(t) /\ ~Registered(t) => sock[t].app = "closed"

Places(t) ==
    /\ sock[t].pc \in {"initial", "spinning"} => sock[t].kind \in {"form", "employee", "summary"}
    /\ sock[t].pc = "receiving" => sock[t].kind # "notify"
    /\ sock[t].pc = "checking" => sock[t].kind = "summary"
    /\ sock[t].pc = "updating" => sock[t].kind = "employee"
    /\ sock[t].pc = "closing" => sock[t].kind \in {"employee", "summary"}
    /\ sock[t].pc = "sleeping" => sock[t].kind = "notify"
    /\ sock[t].pc = "idle" => sock[t].kind = "form"

Codes(t) ==
    /\ sock[t].code \in {"away", "error"} => ~Registered(t)
    /\ sock[t].code = "policy" => sock[t].kind = "employee"
    /\ sock[t].code # "none" => sock[t].app = "closed"

Fits(t) ==
    /\ Agrees(t) /\ EndsClean(t) /\ LeavesClosed(t) /\ Places(t) /\ Codes(t)
    /\ sock[t].pc = "idle" => ~Registered(t)
    /\ sock[t].pc # "idle" => sock[t].user \in Users
    /\ sock[t].kind = "notify" => ~InMap(t)

Own(l) ==
    \A t \in logout[l].todo :
        /\ sock[t].pc # "idle"
        /\ sock[t].user = logout[l].user
        /\ sock[t].kind # "notify"

Inv ==
    /\ TypeOK
    /\ \A t \in Sockets : Fits(t)
    /\ \A l \in Logouts : Own(l)

LEMMA InitInv == Init => Inv
<1> SUFFICES ASSUME Init PROVE Inv
  OBVIOUS
<1>1. TypeOK
  BY DEF Init, TypeOK, Socket, NewSocket, LogoutTask, NoLogout, PushTask, NoPush, Endpoint
<1>2. ASSUME NEW t \in Sockets PROVE Fits(t)
  BY DEF Init, NewSocket, Fits, Agrees, EndsClean, LeavesClosed, Places, Codes,
         Running, Registered, InMap
<1>3. ASSUME NEW l \in Logouts PROVE Own(l)
  BY DEF Init, NoLogout, Own
<1>4. QED
  BY <1>1, <1>2, <1>3 DEF Inv

-----------------------------------------------------------------------------
(* Types.                                                                  *)

PC == {"idle", "initial", "receiving", "updating", "checking",
       "sleeping", "closing", "spinning", "done"}

\* The maps keep their types whoever is registered or unregistered.
LEMMA MapTypes ==
    ASSUME TypeOK, NEW s \in Sockets,
           Keep \/ \E u : Unregister(s, u)
    PROVE  active' \subseteq Sockets /\ conns' \in [Users -> SUBSET Sockets]
BY DEF TypeOK, Keep, Unregister

-----------------------------------------------------------------------------
(* Steps of one socket's handler.                                          *)

Moves(s) ==
    /\ sock' \in [Sockets -> Socket]
    /\ \A t \in Sockets : t # s => sock'[t] = sock[t]
    /\ sock'[s].kind = sock[s].kind
    /\ sock'[s].user = sock[s].user

\* What the record of the socket becomes.
LEMMA GotoMoves ==
    ASSUME TypeOK, NEW s \in Sockets, NEW pc \in PC, Goto(s, pc)
    PROVE  /\ Moves(s)
           /\ sock'[s].pc = pc /\ sock'[s].app = sock[s].app /\ sock'[s].code = sock[s].code
<1> DEFINE q == [sock[s] EXCEPT !.pc = pc]
<1>0. sock[s] \in Socket
  BY DEF TypeOK
<1>1. q \in Socket
  BY <1>0 DEF Socket, PC
<1>2. sock' = [sock EXCEPT ![s] = q]
  BY DEF Goto
<1>3. /\ q.kind = sock[s].kind /\ q.user = sock[s].user /\ q.pc = pc
      /\ q.app = sock[s].app /\ q.code = sock[s].code
  BY <1>0 DEF Socket
<1> HIDE DEF q
<1>4. QED
  BY <1>1, <1>2, <1>3 DEF Moves, TypeOK

LEMMA EndMoves ==
    ASSUME TypeOK, NEW s \in Sockets, End(s) \/ EndFailed(s)
    PROVE  /\ Moves(s)
           /\ sock'[s].pc = "done" /\ sock'[s].code = sock[s].code
           /\ sock'[s].app \in {sock[s].app, "closed"}
<1> DEFINE r == sock[s]
           q1 == [r EXCEPT !.pc = "done"]
           q2 == [q1 EXCEPT !.peer = "gone"]
           q3 == [q2 EXCEPT !.app = "closed"]
           a == [q2 EXCEPT !.rights = {}]
           b == [q3 EXCEPT !.rights = {}]
<1>1. r \in Socket
  BY DEF TypeOK
<1>2. q1 \in Socket /\ q1.kind = r.kind /\ q1.user = r.user /\ q1.pc = "done"
      /\ q1.app = r.app /\ q1.code = r.code
  <2>1. q1 \in Socket
    BY <1>1 DEF Socket
  <2>2. q1.kind = r.kind /\ q1.user = r.user /\ q1.pc = "done"
      /\ q1.app = r.app /\ q1.code = r.code
    BY <1>1 DEF Socket
  <2>3. QED
    BY <2>1, <2>2
<1> HIDE DEF q1
<1>3. q2 \in Socket /\ q2.kind = r.kind /\ q2.user = r.user /\ q2.pc = "done"
      /\ q2.app = r.app /\ q2.code = r.code
  <2>1. q2 \in Socket
    BY <1>2 DEF Socket
  <2>2. q2.kind = r.kind /\ q2.user = r.user /\ q2.pc = "done"
      /\ q2.app = r.app /\ q2.code = r.code
    BY <1>2 DEF Socket
  <2>3. QED
    BY <2>1, <2>2
<1> HIDE DEF q2
<1>4. q3 \in Socket /\ q3.kind = r.kind /\ q3.user = r.user /\ q3.pc = "done"
      /\ q3.app = "closed" /\ q3.code = r.code
  <2>1. q3 \in Socket
    BY <1>3 DEF Socket
  <2>2. q3.kind = r.kind /\ q3.user = r.user /\ q3.pc = "done"
      /\ q3.app = "closed" /\ q3.code = r.code
    BY <1>3 DEF Socket
  <2>3. QED
    BY <2>1, <2>2
<1> HIDE DEF q3
<1>5. a \in Socket /\ a.kind = r.kind /\ a.user = r.user /\ a.pc = "done"
      /\ a.app = r.app /\ a.code = r.code
  <2>1. a \in Socket
    BY <1>3 DEF Socket
  <2>2. a.kind = r.kind /\ a.user = r.user /\ a.pc = "done"
      /\ a.app = r.app /\ a.code = r.code
    BY <1>3 DEF Socket
  <2>3. QED
    BY <2>1, <2>2
<1>6. b \in Socket /\ b.kind = r.kind /\ b.user = r.user /\ b.pc = "done"
      /\ b.app = "closed" /\ b.code = r.code
  <2>1. b \in Socket
    BY <1>4 DEF Socket
  <2>2. b.kind = r.kind /\ b.user = r.user /\ b.pc = "done"
      /\ b.app = "closed" /\ b.code = r.code
    BY <1>4 DEF Socket
  <2>3. QED
    BY <2>1, <2>2
<1>7. End(s) => sock' = [sock EXCEPT ![s] = a]
  BY DEF End, a, q1, q2, r
<1>8. EndFailed(s) => sock' = [sock EXCEPT ![s] = b]
  BY DEF EndFailed, b, q1, q2, q3, r
<1> HIDE DEF a, b
<1>9. QED
  BY <1>5, <1>6, <1>7, <1>8 DEF Moves, TypeOK

LEMMA CloseMoves ==
    ASSUME TypeOK, NEW s \in Sockets, NEW n \in {"away", "policy", "error"}, CloseWith(s, n)
    PROVE  /\ Moves(s)
           /\ \/ /\ sock'[s].pc = "closing" /\ sock'[s].app = "closed"
                 /\ sock'[s].code = n
              \/ sock[s].app = "closed" /\ End(s)
<1> DEFINE r == sock[s]
           q1 == [r EXCEPT !.pc = "closing"]
           q2 == [q1 EXCEPT !.app = "closed"]
           a == [q2 EXCEPT !.code = n]
<1>1. r \in Socket
  BY DEF TypeOK
<1>2. q1 \in Socket /\ q1.kind = r.kind /\ q1.user = r.user /\ q1.pc = "closing"
  <2>1. q1 \in Socket
    BY <1>1 DEF Socket
  <2>2. q1.kind = r.kind /\ q1.user = r.user /\ q1.pc = "closing"
    BY <1>1 DEF Socket
  <2>3. QED
    BY <2>1, <2>2
<1> HIDE DEF q1
<1>3. q2 \in Socket /\ q2.kind = r.kind /\ q2.user = r.user /\ q2.pc = "closing"
      /\ q2.app = "closed"
  <2>1. q2 \in Socket
    BY <1>2 DEF Socket
  <2>2. q2.kind = r.kind /\ q2.user = r.user /\ q2.pc = "closing"
      /\ q2.app = "closed"
    BY <1>2 DEF Socket
  <2>3. QED
    BY <2>1, <2>2
<1> HIDE DEF q2
<1>4. a \in Socket /\ a.kind = r.kind /\ a.user = r.user /\ a.pc = "closing"
      /\ a.app = "closed" /\ a.code = n
  <2>1. a \in Socket
    BY <1>3 DEF Socket
  <2>2. a.kind = r.kind /\ a.user = r.user /\ a.pc = "closing"
      /\ a.app = "closed" /\ a.code = n
    BY <1>3 DEF Socket
  <2>3. QED
    BY <2>1, <2>2
<1>5. StartClose(s, n) => sock' = [sock EXCEPT ![s] = a]
  BY DEF StartClose, a, q1, q2, r
<1> HIDE DEF a
<1>6. CASE StartClose(s, n)
  BY <1>4, <1>5, <1>6 DEF Moves, TypeOK
<1>7. CASE sock[s].app = "closed" /\ End(s)
  BY <1>7, EndMoves
<1>8. QED
  BY <1>6, <1>7 DEF CloseWith

-----------------------------------------------------------------------------
(* What a step of one handler does to the invariant.                       *)

\* The other sockets do not notice.
LEMMA OthersFit ==
    ASSUME Inv, NEW s \in Sockets, Moves(s), Keep \/ Leave(s),
           NEW t \in Sockets, t # s
    PROVE  Fits(t)'
<1>1. Fits(t) /\ sock'[t] = sock[t]
  BY DEF Inv, Moves
<1>2. (t \in active' <=> t \in active) /\ \A u \in Users : t \in conns'[u] <=> t \in conns[u]
  BY DEF Inv, TypeOK, Keep, Leave, Unregister
<1>3. Registered(t)' <=> Registered(t)
  BY <1>2 DEF Registered
<1>4. InMap(t)' <=> InMap(t)
  BY <1>2 DEF InMap
<1>5. QED
  BY <1>1, <1>2, <1>3, <1>4 DEF Fits, Agrees, EndsClean, LeavesClosed, Places, Codes, Running

\* One step of a handler that leaves logouts and broadcasts alone.
LEMMA StepFits ==
    ASSUME Inv, NEW s \in Sockets, Moves(s), Keep \/ Leave(s),
           logout' = logout, push' = push, sock'[s].pc # "idle", Fits(s)'
    PROVE  Inv'
<1>1. TypeOK'
  <2>1. active' \subseteq Sockets /\ conns' \in [Users -> SUBSET Sockets]
    BY MapTypes DEF Inv, Leave
  <2>2. QED
    BY <2>1 DEF Inv, TypeOK, Moves
<1>2. \A t \in Sockets : Fits(t)'
  BY OthersFit
<1>3. ASSUME NEW l \in Logouts PROVE Own(l)'
  <2>1. Own(l) /\ logout[l].todo \subseteq Sockets
    BY DEF Inv, TypeOK, LogoutTask
  <2>2. QED
    BY <2>1 DEF Own, Moves
<1>4. QED
  BY <1>1, <1>2, <1>3 DEF Inv

\* It stays registered and goes on ...
LEMMA Continues ==
    ASSUME Inv, NEW s \in Sockets, Moves(s), Keep, Running(s),
           sock'[s].app = sock[s].app, sock'[s].code = sock[s].code,
           sock'[s].pc \notin {"idle", "done"}, Places(s)'
    PROVE  Fits(s)'
<1>1. Fits(s)
  BY DEF Inv
<1>2. (Registered(s)' <=> Registered(s)) /\ (InMap(s)' <=> InMap(s))
  BY DEF Keep, Registered, InMap
<1>3. QED
  BY <1>1, <1>2 DEF Fits, Agrees, EndsClean, LeavesClosed, Codes, Running, Moves, Keep

\* ... or unregisters and ends, or closes ...
LEMMA Departs ==
    ASSUME Inv, NEW s \in Sockets, Moves(s), Leave(s), Running(s), sock[s].kind # "notify",
           \/ /\ sock'[s].pc = "done" /\ sock'[s].app \in {sock[s].app, "closed"}
              /\ sock'[s].code = sock[s].code
           \/ /\ sock'[s].pc = "closing" /\ sock'[s].app = "closed"
              /\ sock'[s].code = "error" /\ sock[s].kind = "summary"
    PROVE  Fits(s)'
<1>1. Fits(s) /\ sock[s].user \in Users
  BY DEF Inv, Fits, Running
<1>2. s \notin active' /\ \A u \in Users : s \notin conns'[u]
  BY <1>1 DEF Leave, Unregister, Fits, Agrees, Inv, TypeOK
<1>3. ~Registered(s)' /\ ~InMap(s)'
  BY <1>2 DEF Registered, InMap
<1>4. QED
  BY <1>1, <1>2, <1>3 DEF Fits, Agrees, EndsClean, LeavesClosed, Codes, Places, Running, Moves

\* ... or ends registered, if it is of an endpoint that may.
LEMMA Abandons ==
    ASSUME Inv, NEW s \in Sockets, Moves(s), Keep, Running(s),
           \/ /\ sock'[s].pc = "done" /\ sock'[s].app \in {sock[s].app, "closed"}
              /\ sock'[s].code = sock[s].code
              /\ \/ sock[s].kind \in {"employee", "notify"}
                 \/ sock[s].kind = "inputs" /\ sock[s].app = "closed"
           \/ /\ sock'[s].pc = "closing" /\ sock'[s].app = "closed"
              /\ sock'[s].code = "policy" /\ sock[s].kind = "employee"
    PROVE  Fits(s)'
<1>1. Fits(s) /\ sock[s].code \in {"none", "away", "policy", "error"}
  BY DEF Inv, TypeOK, Socket
<1>2. (Registered(s)' <=> Registered(s)) /\ (InMap(s)' <=> InMap(s))
  BY DEF Keep, Registered, InMap
<1>3. QED
  BY <1>1, <1>2 DEF Fits, Agrees, EndsClean, LeavesClosed, Codes, Places, Running, Moves, Keep
-----------------------------------------------------------------------------
(* The steps of the handlers.                                              *)

\* What StepFits asks of a step.
Proper(s) ==
    Moves(s) /\ (Keep \/ Leave(s)) /\ sock'[s].pc # "idle" /\ Fits(s)'

LEMMA EndProper ==
    ASSUME Inv, NEW s \in Sockets, Running(s), End(s) \/ EndFailed(s),
           \/ Leave(s) /\ sock[s].kind # "notify"
           \/ Keep /\ \/ sock[s].kind \in {"employee", "notify"}
                      \/ sock[s].kind = "inputs" /\ sock[s].app = "closed"
    PROVE  Proper(s)
<1>1. /\ Moves(s)
      /\ sock'[s].pc = "done" /\ sock'[s].code = sock[s].code
      /\ sock'[s].app \in {sock[s].app, "closed"}
  BY EndMoves DEF Inv
<1>2. Fits(s)'
  <2>1. CASE Leave(s) /\ sock[s].kind # "notify"
    BY <1>1, <2>1, Departs
  <2>2. CASE Keep /\ \/ sock[s].kind \in {"employee", "notify"}
                     \/ sock[s].kind = "inputs" /\ sock[s].app = "closed"
    BY <1>1, <2>2, Abandons
  <2>3. QED
    BY <2>1, <2>2
<1>3. QED
  BY <1>1, <1>2 DEF Proper

LEMMA GotoProper ==
    ASSUME Inv, NEW s \in Sockets, Running(s), NEW pc \in PC \ {"idle", "done"},
           Goto(s, pc), Keep, sock'[s].kind = sock[s].kind => Places(s)'
    PROVE  Proper(s)
<1>1. /\ Moves(s)
      /\ sock'[s].pc = pc /\ sock'[s].app = sock[s].app /\ sock'[s].code = sock[s].code
  BY GotoMoves DEF Inv
<1>2. Places(s)'
  BY <1>1 DEF Moves
<1>3. Fits(s)'
  BY <1>1, <1>2, Continues
<1>4. QED
  BY <1>1, <1>3 DEF Proper

LEMMA LateProper ==
    ASSUME Inv, NEW s \in Sockets, Running(s), sock[s].app = "closed", ReceiveAfterClose(s)
    PROVE  Proper(s)
<1>1. CASE sock[s].kind = "form" /\ Goto(s, "spinning") /\ Keep
  <2>1. sock'[s].pc = "spinning"
    BY <1>1, GotoMoves DEF Inv, PC
  <2>2. sock'[s].kind = sock[s].kind => Places(s)'
    BY <1>1, <2>1 DEF Places
  <2>3. QED
    BY <1>1, <2>2, GotoProper DEF PC
<1>2. CASE sock[s].kind = "summary" /\ End(s) /\ Leave(s)
  BY <1>2, EndProper
<1>3. CASE sock[s].kind \in {"employee", "inputs"} /\ End(s) /\ Keep
  BY <1>3, EndProper
<1>4. QED
  BY <1>1, <1>2, <1>3 DEF ReceiveAfterClose

LEMMA ReceiveProper ==
    ASSUME Inv, NEW s \in Sockets, Running(s), sock[s].kind # "notify", ToReceive(s)
    PROVE  Proper(s)
<1>1. CASE Goto(s, "receiving") /\ Keep
  <2>1. sock'[s].pc = "receiving"
    BY <1>1, GotoMoves DEF Inv, PC
  <2>2. sock'[s].kind = sock[s].kind => Places(s)'
    BY <1>1, <2>1 DEF Places
  <2>3. QED
    BY <1>1, <2>2, GotoProper DEF PC
<1>2. CASE sock[s].app = "closed" /\ ReceiveAfterClose(s)
  BY <1>2, LateProper
<1>3. QED
  BY <1>1, <1>2 DEF ToReceive

\* Where the pc of a running handler says it is, its endpoint is one that goes there.
LEMMA PlacesHold ==
    ASSUME Inv, NEW s \in Sockets
    PROVE  Places(s)
BY DEF Inv, Fits

LEMMA CheckedProper ==
    ASSUME Inv, NEW s \in Sockets,
           \/ sock[s].pc = "checking" /\ Leave(s) /\ CloseWith(s, "error")
           \/ /\ sock[s].pc \in {"receiving", "updating"} /\ sock[s].kind = "employee"
              /\ Reauthenticate(s)
    PROVE  Proper(s)
<1>1. CASE sock[s].pc = "checking" /\ Leave(s) /\ CloseWith(s, "error")
  <2>1. sock[s].kind = "summary" /\ Running(s)
    BY <1>1, PlacesHold DEF Places, Running
  <2>2. CASE sock[s].app = "closed" /\ End(s)
    BY <1>1, <2>1, <2>2, EndProper
  <2>3. CASE ~(sock[s].app = "closed" /\ End(s))
    <3>1. /\ Moves(s) /\ sock'[s].pc = "closing" /\ sock'[s].app = "closed"
          /\ sock'[s].code = "error"
      BY <1>1, <2>3, CloseMoves DEF Inv
    <3>2. Fits(s)'
      BY <1>1, <2>1, <3>1, Departs
    <3>3. QED
      BY <1>1, <3>1, <3>2 DEF Proper
  <2>4. QED
    BY <2>2, <2>3
<1>2. CASE /\ sock[s].pc \in {"receiving", "updating"} /\ sock[s].kind = "employee"
           /\ Reauthenticate(s)
  <2>1. Running(s)
    BY <1>2 DEF Running
  <2>2. CASE ToReceive(s)
    BY <1>2, <2>1, <2>2, ReceiveProper
  <2>3. CASE CloseWith(s, "policy") /\ Keep /\ sock[s].app = "closed" /\ End(s)
    BY <1>2, <2>1, <2>3, EndProper
  <2>4. CASE CloseWith(s, "policy") /\ Keep /\ ~(sock[s].app = "closed" /\ End(s))
    <3>1. /\ Moves(s) /\ sock'[s].pc = "closing" /\ sock'[s].app = "closed"
          /\ sock'[s].code = "policy"
      BY <2>4, CloseMoves DEF Inv
    <3>2. Fits(s)'
      BY <1>2, <2>1, <2>4, <3>1, Abandons
    <3>3. QED
      BY <2>4, <3>1, <3>2 DEF Proper
  <2>5. QED
    BY <1>2, <2>2, <2>3, <2>4 DEF Reauthenticate
<1>3. QED
  BY <1>1, <1>2

LEMMA HandlerProper ==
    ASSUME Inv, NEW s \in Sockets, HandlerStep(s)
    PROVE  Proper(s)
<1>1. CASE InitialSent(s)
  BY <1>1, PlacesHold, ReceiveProper DEF InitialSent, Places, Running
<1>2. CASE InitialFails(s)
  BY <1>2, PlacesHold, EndProper DEF InitialFails, Places, Running
<1>3. CASE Disconnected(s)
  <2>1. sock[s].kind \in Endpoint \ {"notify"} /\ Running(s)
    BY <1>3, PlacesHold DEF Disconnected, Places, Running, Inv, TypeOK, Socket
  <2>2. QED
    BY <1>3, <2>1, EndProper DEF Disconnected, Cleanup, CleansUp, Endpoint
<1>4. CASE LateMessage(s)
  BY <1>4, LateProper DEF LateMessage, Running
<1>5. CASE Wake(s)
  <2>1. sock'[s].pc = "checking"
    BY <1>5, GotoMoves DEF Wake, Inv, PC
  <2>2. sock'[s].kind = sock[s].kind => Places(s)'
    BY <1>5, <2>1 DEF Wake, Places
  <2>3. QED
    BY <1>5, <2>2, GotoProper DEF Wake, Running, PC
<1>6. CASE Checked(s)
  BY <1>6, PlacesHold, ReceiveProper DEF Checked, Places, Running
<1>7. CASE Revoked(s)
  BY <1>7, CheckedProper DEF Revoked
<1>8. CASE WakeEmployee(s)
  BY <1>8, CheckedProper DEF WakeEmployee
<1>9. CASE Refresh(s)
  <2>1. sock'[s].pc = "updating"
    BY <1>9, GotoMoves DEF Refresh, Inv, PC
  <2>2. sock'[s].kind = sock[s].kind => Places(s)'
    BY <1>9, <2>1 DEF Refresh, Places
  <2>3. QED
    BY <1>9, <2>2, GotoProper DEF Refresh, Running, PC
<1>10. CASE Refreshed(s)
  BY <1>10, PlacesHold, CheckedProper DEF Refreshed, Places
<1>11. CASE RefreshFails(s)
  BY <1>11, PlacesHold, EndProper DEF RefreshFails, Places, Running, Cleanup, CleansUp
<1>12. CASE Closed(s)
  BY <1>12, PlacesHold, EndProper DEF Closed, Places, Running, Cleanup, CleansUp
<1>13. CASE Remind(s)
  BY <1>13, PlacesHold, EndProper DEF Remind, Places, Running
<1>14. QED
  BY <1>1, <1>2, <1>3, <1>4, <1>5, <1>6, <1>7, <1>8, <1>9, <1>10, <1>11, <1>12, <1>13
     DEF HandlerStep

LEMMA HandlerInv ==
    ASSUME Inv, NEW s \in Sockets, HandlerStep(s)
    PROVE  Inv'
<1>1. Proper(s)
  BY HandlerProper
<1>2. logout' = logout /\ push' = push
  BY DEF HandlerStep, InitialSent, InitialFails, Disconnected, LateMessage, Wake, Checked,
         Revoked, WakeEmployee, Refresh, Refreshed, RefreshFails, Closed, Remind, Tasks
<1>3. QED
  BY <1>1, <1>2, StepFits DEF Proper
-----------------------------------------------------------------------------
(* The other steps.                                                        *)

LEMMA ConnectInv ==
    ASSUME Inv, NEW s \in Sockets, NEW u \in Users, NEW k \in Kinds, NEW rights \in SUBSET Rights,
           Connect(s, u, k, rights)
    PROVE  Inv'
<1> DEFINE q1 == [NewSocket EXCEPT !.kind = k]
           q2 == [q1 EXCEPT !.user = u]
           q3 == [q2 EXCEPT !.pc = FirstAwait(k)]
           q == [q3 EXCEPT !.rights = rights \cap LooksAt(k)]
<1>1. NewSocket \in Socket /\ NewSocket.app = "open" /\ NewSocket.code = "none"
  BY DEF NewSocket, Socket, Endpoint
<1>2. q1 \in Socket /\ q1.kind = k /\ q1.app = "open" /\ q1.code = "none"
  BY <1>1, ConnectionsAssumption DEF Socket
<1> HIDE DEF q1
<1>3. q2 \in Socket /\ q2.kind = k /\ q2.app = "open" /\ q2.code = "none" /\ q2.user = u
  BY <1>2 DEF Socket
<1> HIDE DEF q2
<1>4. q3 \in Socket /\ q3.kind = k /\ q3.app = "open" /\ q3.code = "none" /\ q3.user = u
      /\ q3.pc = FirstAwait(k)
  BY <1>3 DEF Socket, FirstAwait
<1> HIDE DEF q3
<1>5. q \in Socket /\ q.kind = k /\ q.app = "open" /\ q.code = "none" /\ q.user = u
      /\ q.pc = FirstAwait(k)
  BY <1>4 DEF Socket
<1>6. sock' = [sock EXCEPT ![s] = q]
  BY DEF Connect, q, q1, q2, q3
<1> HIDE DEF q
<1>7. sock'[s] = q /\ \A t \in Sockets : t # s => sock'[t] = sock[t]
  BY <1>6 DEF Inv, TypeOK
<1>8. s \notin active /\ \A v \in Users : s \notin conns[v]
  BY DEF Inv, Fits, Registered, Connect
<1>9. TypeOK'
  <2>1. sock' \in [Sockets -> Socket]
    BY <1>5, <1>6 DEF Inv, TypeOK
  <2>2. active' \subseteq Sockets /\ conns' \in [Users -> SUBSET Sockets]
    BY DEF Connect, Inv, TypeOK
  <2>3. QED
    BY <2>1, <2>2 DEF Inv, TypeOK, Connect, Tasks
<1>10. Fits(s)'
  <2>1. s \in active' /\ \A v \in Users : s \in conns'[v] <=> k # "notify" /\ v = u
    BY <1>8 DEF Connect, Inv, TypeOK
  <2>2. Registered(s)' /\ (InMap(s)' => k # "notify")
    BY <2>1 DEF Registered, InMap
  <2>3. Places(s)'
    BY <1>5, <1>7, ConnectionsAssumption DEF Places, FirstAwait, Endpoint
  <2>4. FirstAwait(k) \notin {"idle", "done"}
    BY DEF FirstAwait
  <2>5. QED
    BY <1>5, <1>7, <2>1, <2>2, <2>3, <2>4
       DEF Fits, Agrees, EndsClean, LeavesClosed, Codes, Running
<1>11. ASSUME NEW t \in Sockets, t # s PROVE Fits(t)'
  <2>1. Fits(t) /\ sock'[t] = sock[t]
    BY <1>7, <1>11 DEF Inv
  <2>2. (t \in active' <=> t \in active) /\ \A v \in Users : t \in conns'[v] <=> t \in conns[v]
    BY <1>11 DEF Inv, TypeOK, Connect
  <2>3. (Registered(t)' <=> Registered(t)) /\ (InMap(t)' <=> InMap(t))
    BY <2>2 DEF Registered, InMap
  <2>4. QED
    BY <2>1, <2>2, <2>3 DEF Fits, Agrees, EndsClean, LeavesClosed, Places, Codes, Running
<1>12. ASSUME NEW l \in Logouts PROVE Own(l)'
  <2>1. Own(l) /\ logout' = logout /\ logout[l].todo \subseteq Sockets /\ sock[s].pc = "idle"
    BY DEF Inv, TypeOK, LogoutTask, Connect, Tasks
  <2>2. QED
    BY <1>7, <2>1 DEF Own
<1>13. QED
  BY <1>9, <1>10, <1>11, <1>12 DEF Inv

(***************************************************************************)
(* Steps that register and unregister nobody, and change of the sockets at *)
(* most the peer, the rights, and app from open to closed.                 *)
(***************************************************************************)
Calm ==
    /\ Keep
    /\ sock' \in [Sockets -> Socket]
    /\ \A t \in Sockets :
          /\ sock'[t].kind = sock[t].kind /\ sock'[t].user = sock[t].user
          /\ sock'[t].pc = sock[t].pc /\ sock'[t].code = sock[t].code
          /\ sock'[t].app \in {sock[t].app, "closed"}

LEMMA CalmFits ==
    ASSUME Inv, Calm
    PROVE  \A t \in Sockets : Fits(t)'
<1> SUFFICES ASSUME NEW t \in Sockets PROVE Fits(t)'
  OBVIOUS
<1>1. /\ sock'[t].kind = sock[t].kind /\ sock'[t].user = sock[t].user
      /\ sock'[t].pc = sock[t].pc /\ sock'[t].code = sock[t].code
      /\ sock'[t].app \in {sock[t].app, "closed"}
      /\ Fits(t)
  BY DEF Inv, Calm
<1>2. active' = active /\ conns' = conns
  BY DEF Calm, Keep
<1>3. (Registered(t)' <=> Registered(t)) /\ (InMap(t)' <=> InMap(t))
  BY <1>2 DEF Registered, InMap
<1>4. Agrees(t)'
  BY <1>1, <1>2 DEF Fits, Agrees
<1>5. QED
  BY <1>1, <1>3, <1>4 DEF Fits, EndsClean, LeavesClosed, Places, Codes, Running

LEMMA CalmInv ==
    ASSUME Inv, Calm, UNCHANGED logout, push' \in [Pushes -> PushTask]
    PROVE  Inv'
<1>1. TypeOK'
  BY DEF Inv, TypeOK, Calm, Keep
<1>2. ASSUME NEW l \in Logouts PROVE Own(l)'
  <2>1. Own(l) /\ logout[l].todo \subseteq Sockets
    BY DEF Inv, TypeOK, LogoutTask
  <2>2. QED
    BY <2>1 DEF Own, Calm
<1>3. QED
  BY <1>1, <1>2, CalmFits DEF Inv

\* Steps that leave every socket as it is.
LEMMA StillCalm ==
    ASSUME Inv, UNCHANGED <<active, conns, sock>>
    PROVE  Calm
BY DEF Inv, TypeOK, Calm, Keep
\* A step that changes the record of one socket, calmly.
LEMMA OneCalm ==
    ASSUME TypeOK, Keep, NEW s \in Sockets, NEW q \in Socket, sock' = [sock EXCEPT ![s] = q],
           q.kind = sock[s].kind, q.user = sock[s].user, q.pc = sock[s].pc,
           q.code = sock[s].code, q.app \in {sock[s].app, "closed"}
    PROVE  Calm
BY DEF TypeOK, Calm

LEMMA LeavesInv ==
    ASSUME Inv, NEW s \in Sockets, ClientLeaves(s)
    PROVE  Inv'
<1> DEFINE q == [sock[s] EXCEPT !.peer = "gone"]
<1>1. sock[s] \in Socket
  BY DEF Inv, TypeOK
<1>2. q \in Socket
  BY <1>1 DEF Socket
<1>3. q.kind = sock[s].kind /\ q.user = sock[s].user /\ q.pc = sock[s].pc
      /\ q.code = sock[s].code /\ q.app = sock[s].app
  BY <1>1 DEF Socket
<1>4. sock' = [sock EXCEPT ![s] = q] /\ Keep /\ UNCHANGED <<logout, push>>
  BY DEF ClientLeaves, Tasks
<1> HIDE DEF q
<1>5. Calm
  BY <1>2, <1>3, <1>4, OneCalm DEF Inv
<1>6. QED
  BY <1>4, <1>5, CalmInv DEF Inv, TypeOK

LEMMA ExpiresInv ==
    ASSUME Inv, NEW s \in Sockets, JwtExpires(s)
    PROVE  Inv'
<1> DEFINE q == [sock[s] EXCEPT !.rights = @ \ {"jwt"}]
<1>1. sock[s] \in Socket
  BY DEF Inv, TypeOK
<1>2. q \in Socket
  BY <1>1 DEF Socket
<1>3. q.kind = sock[s].kind /\ q.user = sock[s].user /\ q.pc = sock[s].pc
      /\ q.code = sock[s].code /\ q.app = sock[s].app
  BY <1>1 DEF Socket
<1>4. sock' = [sock EXCEPT ![s] = q] /\ Keep /\ UNCHANGED <<logout, push>>
  BY DEF JwtExpires, Tasks
<1> HIDE DEF q
<1>5. Calm
  BY <1>2, <1>3, <1>4, OneCalm DEF Inv
<1>6. QED
  BY <1>4, <1>5, CalmInv DEF Inv, TypeOK

\* Nothing refers to the object any more, so no logout holds the new one.
LEMMA CollectInv ==
    ASSUME Inv, NEW s \in Sockets, Collect(s)
    PROVE  Inv'
<1>1. sock' = [sock EXCEPT ![s] = NewSocket] /\ Keep /\ logout' = logout /\ push' = push
      /\ ~Registered(s) /\ \A l \in Logouts : s \notin logout[l].todo
  BY DEF Collect, Tasks, Held
<1>2. NewSocket \in Socket /\ NewSocket.pc = "idle" /\ NewSocket.kind = "form"
      /\ NewSocket.app = "open" /\ NewSocket.code = "none"
  BY DEF NewSocket, Socket, Endpoint
<1>3. sock'[s] = NewSocket /\ \A t \in Sockets : t # s => sock'[t] = sock[t]
  BY <1>1 DEF Inv, TypeOK
<1>4. TypeOK'
  BY <1>1, <1>2 DEF Inv, TypeOK, Keep
<1>5. \A t \in Sockets : (Registered(t)' <=> Registered(t)) /\ (InMap(t)' <=> InMap(t))
  BY <1>1 DEF Keep, Registered, InMap
<1>6. Fits(s)'
  <2>1. s \notin active' /\ \A u \in Users : s \notin conns'[u]
    BY <1>1 DEF Keep, Registered
  <2>2. ~Registered(s)'
    BY <1>1, <1>5
  <2>3. QED
    BY <1>2, <1>3, <2>1, <2>2 DEF Fits, Agrees, EndsClean, LeavesClosed, Places, Codes, Running
<1>7. ASSUME NEW t \in Sockets, t # s PROVE Fits(t)'
  <2>1. Fits(t) /\ sock'[t] = sock[t] /\ active' = active /\ conns' = conns
    BY <1>1, <1>3, <1>7 DEF Inv, Keep
  <2>2. QED
    BY <1>5, <2>1 DEF Fits, Agrees, EndsClean, LeavesClosed, Places, Codes, Running
<1>8. ASSUME NEW l \in Logouts PROVE Own(l)'
  <2>1. Own(l) /\ logout[l].todo \subseteq Sockets
    BY DEF Inv, TypeOK, LogoutTask
  <2>2. QED
    BY <1>1, <1>3, <2>1 DEF Own
<1>9. QED
  BY <1>4, <1>6, <1>7, <1>8 DEF Inv

-----------------------------------------------------------------------------
(* Broadcasts.                                                             *)

\* What becomes of the record of a broadcast.
LEMMA PushTypes ==
    ASSUME TypeOK, NEW p \in Pushes,
           \/ PushStart(p) \/ PushSent(p) \/ PushFails(p) \/ PushDone(p)
           \/ \E s \in Sockets : PushNext(p, s)
    PROVE  push' \in [Pushes -> PushTask]
<1>0. push[p] \in PushTask
  BY DEF TypeOK
<1>1. CASE PushStart(p)
  BY <1>1 DEF TypeOK, PushStart, PushTask
<1>2. CASE PushSent(p) \/ PushFails(p)
  <2> DEFINE q1 == [push[p] EXCEPT !.pc = "looping"]
             q == [q1 EXCEPT !.now = NoSocket]
  <2>1. q1 \in PushTask
    BY <1>0 DEF PushTask
  <2>2. push' = [push EXCEPT ![p] = q]
    BY <1>2 DEF PushSent, PushFails
  <2> HIDE DEF q1
  <2>3. q \in PushTask
    BY <2>1 DEF PushTask
  <2> HIDE DEF q
  <2>4. QED
    BY <2>2, <2>3 DEF TypeOK
<1>3. CASE PushDone(p)
  BY <1>3 DEF TypeOK, PushDone, PushTask, NoPush
<1>4. CASE \E s \in Sockets : PushNext(p, s)
  BY <1>0, <1>4 DEF TypeOK, PushNext, PushTask
<1>5. QED
  BY <1>1, <1>2, <1>3, <1>4

LEMMA PushInv ==
    ASSUME Inv, NEW p \in Pushes, PushStart(p) \/ PushStep(p)
    PROVE  Inv'
<1>1. push' \in [Pushes -> PushTask] /\ logout' = logout
  BY PushTypes
     DEF Inv, PushStep, PushStart, PushSent, PushFails, PushDone, PushNext
<1>2. Calm
  <2>1. CASE PushFails(p) /\ push[p].now \in Sockets
    <3> DEFINE s == push[p].now
               q == [sock[s] EXCEPT !.app = "closed"]
    <3>1. sock[s] \in Socket
      BY <2>1 DEF Inv, TypeOK
    <3>2. q \in Socket
      BY <3>1 DEF Socket
    <3>3. q.kind = sock[s].kind /\ q.user = sock[s].user /\ q.pc = sock[s].pc
          /\ q.code = sock[s].code /\ q.app = "closed"
      BY <3>1 DEF Socket
    <3>4. sock' = [sock EXCEPT ![s] = q] /\ Keep
      BY <2>1 DEF PushFails, Keep
    <3>5. s \in Sockets
      BY <2>1
    <3> HIDE DEF q, s
    <3>6. QED
      BY <3>2, <3>3, <3>4, <3>5, OneCalm DEF Inv
  <2>2. CASE PushFails(p) /\ push[p].now \notin Sockets
    BY <2>2, StillCalm DEF PushFails, Inv, TypeOK
  <2>3. CASE ~PushFails(p)
    BY <2>3, StillCalm DEF PushStep, PushStart, PushSent, PushDone, PushNext
  <2>4. QED
    BY <2>1, <2>2, <2>3
<1>3. QED
  BY <1>1, <1>2, CalmInv

-----------------------------------------------------------------------------
(* Logouts.                                                                *)

LEMMA LogoutStartInv ==
    ASSUME Inv, NEW l \in Logouts, NEW u \in Users, NEW mine \in SUBSET Sockets,
           LogoutStart(l, u, mine)
    PROVE  Inv'
<1>1. Calm
  <2>1. ASSUME NEW s \in Sockets
        PROVE  /\ sock'[s] \in Socket
               /\ sock'[s].kind = sock[s].kind /\ sock'[s].user = sock[s].user
               /\ sock'[s].pc = sock[s].pc /\ sock'[s].code = sock[s].code
               /\ sock'[s].app = sock[s].app
    <3> DEFINE q == [sock[s] EXCEPT !.rights = @ \ {"row"}]
    <3>1. sock[s] \in Socket
      BY DEF Inv, TypeOK
    <3>2. q \in Socket
      BY <3>1 DEF Socket
    <3>3. q.kind = sock[s].kind /\ q.user = sock[s].user /\ q.pc = sock[s].pc
          /\ q.code = sock[s].code /\ q.app = sock[s].app
      BY <3>1 DEF Socket
    <3>4. sock'[s] \in {q, sock[s]}
      BY DEF LogoutStart
    <3> HIDE DEF q
    <3>5. QED
      BY <3>1, <3>2, <3>3, <3>4
  <2>2. sock' \in [Sockets -> Socket]
    <3>1. sock' = [s \in Sockets |-> sock'[s]]
      BY DEF LogoutStart
    <3>2. QED
      BY <2>1, <3>1
  <2>3. QED
    BY <2>1, <2>2 DEF Calm, Keep, LogoutStart
<1>2. TypeOK'
  <2>1. conns[u] \subseteq Sockets
    BY DEF Inv, TypeOK
  <2>2. logout' \in [Logouts -> LogoutTask]
    BY <2>1 DEF LogoutStart, Inv, TypeOK, LogoutTask
  <2>3. QED
    BY <1>1, <2>2 DEF Calm, Keep, LogoutStart, Inv, TypeOK
<1>3. ASSUME NEW m \in Logouts PROVE Own(m)'
  <2>1. CASE m = l
    <3>1. logout'[m].todo = conns[u] /\ logout'[m].user = u
      BY <2>1 DEF LogoutStart, Inv, TypeOK
    <3>2. ASSUME NEW t \in conns[u]
          PROVE  sock[t].pc # "idle" /\ sock[t].user = u /\ sock[t].kind # "notify"
      <4>1. t \in Sockets /\ Registered(t) /\ InMap(t)
        BY DEF Inv, TypeOK, Registered, InMap
      <4>2. QED
        BY <4>1 DEF Inv, Fits, Agrees
    <3>3. \A t \in conns[u] : t \in Sockets
      BY DEF Inv, TypeOK
    <3>4. QED
      BY <1>1, <3>1, <3>2, <3>3 DEF Own, Calm
  <2>2. CASE m # l
    <3>1. Own(m) /\ logout'[m] = logout[m] /\ logout[m].todo \subseteq Sockets
      BY <2>2 DEF LogoutStart, Inv, TypeOK, LogoutTask
    <3>2. QED
      BY <1>1, <3>1 DEF Own, Calm
  <2>3. QED
    BY <2>1, <2>2
<1>4. QED
  BY <1>1, <1>2, <1>3, CalmFits DEF Inv
\* A logout that goes on holds no socket it did not hold before.
LEMMA OwnShrinks ==
    ASSUME Inv, NEW l \in Logouts, NEW q \in LogoutTask, logout' = [logout EXCEPT ![l] = q],
           q.todo = {} \/ (q.todo \subseteq logout[l].todo /\ q.user = logout[l].user),
           \A t \in Sockets : /\ sock'[t].pc = sock[t].pc /\ sock'[t].kind = sock[t].kind
                              /\ sock'[t].user = sock[t].user,
           NEW m \in Logouts
    PROVE  Own(m)'
<1>1. Own(m) /\ Own(l) /\ logout[m].todo \subseteq Sockets /\ logout[l].todo \subseteq Sockets
  BY DEF Inv, TypeOK, LogoutTask
<1>2. (m = l => logout'[m] = q) /\ (m # l => logout'[m] = logout[m])
  BY DEF Inv, TypeOK
<1>3. QED
  BY <1>1, <1>2 DEF Own

LEMMA LogoutRestInv ==
    ASSUME Inv, NEW l \in Logouts, LogoutClosed(l) \/ LogoutDone(l)
    PROVE  Inv'
<1> DEFINE q1 == [logout[l] EXCEPT !.pc = "looping"]
           q2 == [q1 EXCEPT !.now = NoSocket]
<1>1. logout[l] \in LogoutTask
  BY DEF Inv, TypeOK
<1>2. q1 \in LogoutTask /\ q1.todo = logout[l].todo /\ q1.user = logout[l].user
  BY <1>1 DEF LogoutTask
<1>3. LogoutClosed(l) => logout' = [logout EXCEPT ![l] = q2]
  BY DEF LogoutClosed
<1> HIDE DEF q1
<1>4. q2 \in LogoutTask /\ q2.todo = logout[l].todo /\ q2.user = logout[l].user
  BY <1>2 DEF LogoutTask
<1> HIDE DEF q2
<1>5. NoLogout \in LogoutTask /\ NoLogout.todo = {}
  BY DEF NoLogout, LogoutTask
<1>6. UNCHANGED <<active, conns, sock, push>>
  BY DEF LogoutClosed, LogoutDone
<1>7. PICK q \in LogoutTask :
        /\ logout' = [logout EXCEPT ![l] = q]
        /\ q.todo = {} \/ (q.todo \subseteq logout[l].todo /\ q.user = logout[l].user)
  <2>1. CASE LogoutClosed(l)
    BY <1>3, <1>4, <2>1
  <2>2. CASE LogoutDone(l)
    BY <1>5, <2>2 DEF LogoutDone
  <2>3. QED
    BY <2>1, <2>2
<1>8. TypeOK'
  BY <1>6, <1>7 DEF Inv, TypeOK
<1>9. \A m \in Logouts : Own(m)'
  BY <1>6, <1>7, OwnShrinks
<1>10. QED
  BY <1>6, <1>8, <1>9, StillCalm, CalmFits DEF Inv

\* The two alternatives of Evict, as proofs name them.
EvictOpen(l, s) ==
    /\ sock[s].app = "open"
    /\ sock' = [sock EXCEPT ![s].app = "closed", ![s].code = "away"]
    /\ logout' = [logout EXCEPT ![l].pc = "closing", ![l].now = s, ![l].todo = @ \ {s}]

EvictClosed(l, s) ==
    /\ sock[s].app = "closed"
    /\ sock' = sock
    /\ logout' = [logout EXCEPT ![l].todo = @ \ {s}]

LEMMA LogoutNextInv ==
    ASSUME Inv, NEW l \in Logouts, NEW s \in Sockets, LogoutNext(l, s)
    PROVE  Inv'
<1>1. s \in logout[l].todo /\ sock[s].user = logout[l].user /\ sock[s].pc # "idle"
      /\ sock[s].kind # "notify"
  BY DEF LogoutNext, Listed, Inv, Own
<1>2. Leave(s) /\ push' = push
  BY <1>1 DEF LogoutNext, Leave
<1>3. sock[s] \in Socket /\ logout[l] \in LogoutTask
  BY DEF Inv, TypeOK
<1>4. Moves(s) /\ sock'[s].pc = sock[s].pc /\ sock'[s].app = "closed"
      /\ sock'[s].code \in {"away", sock[s].code}
  <2> DEFINE q1 == [sock[s] EXCEPT !.app = "closed"]
             q == [q1 EXCEPT !.code = "away"]
  <2>1. q1 \in Socket
    BY <1>3 DEF Socket
  <2>2. q1.kind = sock[s].kind /\ q1.user = sock[s].user /\ q1.pc = sock[s].pc
        /\ q1.app = "closed"
    BY <1>3 DEF Socket
  <2>3. sock' = [sock EXCEPT ![s] = q] \/ (sock' = sock /\ sock[s].app = "closed")
    <3>1. CASE EvictOpen(l, s)
      BY <3>1 DEF EvictOpen
    <3>2. CASE EvictClosed(l, s)
      BY <3>2 DEF EvictClosed
    <3>3. QED
      BY <3>1, <3>2 DEF LogoutNext, Evict, EvictOpen, EvictClosed
  <2> HIDE DEF q1
  <2>4. q \in Socket
    BY <2>1 DEF Socket
  <2>5. q.kind = sock[s].kind /\ q.user = sock[s].user /\ q.pc = sock[s].pc
        /\ q.app = "closed" /\ q.code = "away"
    BY <2>1, <2>2 DEF Socket
  <2> HIDE DEF q
  <2>6. QED
    BY <2>3, <2>4, <2>5 DEF Moves, Inv, TypeOK
<1>5. PICK q \in LogoutTask :
        /\ logout' = [logout EXCEPT ![l] = q]
        /\ q.todo \subseteq logout[l].todo /\ q.user = logout[l].user
  <2> DEFINE a == [logout[l] EXCEPT !.todo = @ \ {s}]
             b1 == [logout[l] EXCEPT !.pc = "closing"]
             b2 == [b1 EXCEPT !.now = s]
             b == [b2 EXCEPT !.todo = logout[l].todo \ {s}]
  <2>1. logout' = [logout EXCEPT ![l] = a] \/ logout' = [logout EXCEPT ![l] = b]
    <3>1. CASE EvictOpen(l, s)
      BY <3>1 DEF EvictOpen
    <3>2. CASE EvictClosed(l, s)
      BY <3>2 DEF EvictClosed
    <3>3. QED
      BY <3>1, <3>2 DEF LogoutNext, Evict, EvictOpen, EvictClosed
  <2>2. a \in LogoutTask /\ a.todo \subseteq logout[l].todo /\ a.user = logout[l].user
    BY <1>3 DEF LogoutTask
  <2>3. b1 \in LogoutTask /\ b1.todo = logout[l].todo /\ b1.user = logout[l].user
    BY <1>3 DEF LogoutTask
  <2> HIDE DEF a, b1
  <2>4. b2 \in LogoutTask /\ b2.todo = logout[l].todo /\ b2.user = logout[l].user
    BY <2>3 DEF LogoutTask
  <2> HIDE DEF b2
  <2>5. b \in LogoutTask /\ b.todo \subseteq logout[l].todo /\ b.user = logout[l].user
    BY <2>4 DEF LogoutTask
  <2> HIDE DEF b
  <2>6. QED
    BY <2>1, <2>2, <2>5
<1>6. TypeOK'
  <2>1. active' \subseteq Sockets /\ conns' \in [Users -> SUBSET Sockets]
    BY <1>2, MapTypes DEF Inv, Leave
  <2>2. logout' \in [Logouts -> LogoutTask]
    BY <1>5 DEF Inv, TypeOK
  <2>3. QED
    BY <1>2, <1>4, <2>1, <2>2 DEF Inv, TypeOK, Moves
<1>7. Fits(s)'
  <2>1. Fits(s) /\ sock[s].user \in Users
    BY <1>1 DEF Inv, Fits
  <2>2. s \notin active' /\ \A u \in Users : s \notin conns'[u]
    BY <1>1, <1>2, <2>1 DEF Leave, Unregister, Fits, Agrees, Inv, TypeOK
  <2>3. ~Registered(s)' /\ ~InMap(s)'
    BY <2>2 DEF Registered, InMap
  <2>4. sock'[s].kind = sock[s].kind /\ sock'[s].user = sock[s].user
    BY <1>4 DEF Moves
  <2>5. Places(s)'
    BY <1>4, <2>1, <2>4 DEF Fits, Places
  <2>6. Codes(s)'
    BY <1>4, <2>1, <2>3, <2>4 DEF Fits, Codes
  <2>7. QED
    BY <1>1, <1>4, <2>1, <2>2, <2>3, <2>4, <2>5, <2>6
       DEF Fits, Agrees, EndsClean, LeavesClosed
<1>8. \A t \in Sockets : Fits(t)'
  BY <1>2, <1>4, <1>7, OthersFit
<1>9. \A m \in Logouts : Own(m)'
  <2>1. \A t \in Sockets : /\ sock'[t].pc = sock[t].pc /\ sock'[t].kind = sock[t].kind
                           /\ sock'[t].user = sock[t].user
    BY <1>4 DEF Moves
  <2>2. QED
    BY <1>5, <2>1, OwnShrinks
<1>10. QED
  BY <1>6, <1>8, <1>9 DEF Inv

-----------------------------------------------------------------------------
(* The invariant and what follows from it.                                 *)

LEMMA NextInv ==
    ASSUME Inv, [Next]_vars
    PROVE  Inv'
<1>1. CASE UNCHANGED vars
  <2>1. UNCHANGED <<active, conns, sock, logout, push>>
    BY <1>1 DEF vars
  <2>2. QED
    BY <2>1, StillCalm, CalmInv DEF Inv, TypeOK
<1>2. CASE \E s \in Sockets, u \in Users, k \in Kinds, rights \in SUBSET Rights :
             Connect(s, u, k, rights)
  BY <1>2, ConnectInv
<1>3. CASE \E s \in Sockets : HandlerStep(s)
  BY <1>3, HandlerInv
<1>4. CASE \E s \in Sockets : Collect(s)
  BY <1>4, CollectInv
<1>5. CASE \E l \in Logouts : LogoutStep(l)
  BY <1>5, LogoutRestInv, LogoutNextInv DEF LogoutStep
<1>6. CASE \E l \in Logouts, u \in Users, mine \in SUBSET Sockets : LogoutStart(l, u, mine)
  BY <1>6, LogoutStartInv
<1>7. CASE \E p \in Pushes : PushStep(p) \/ PushStart(p)
  BY <1>7, PushInv
<1>8. CASE \E s \in Sockets : ClientLeaves(s) \/ JwtExpires(s)
  BY <1>8, LeavesInv, ExpiresInv
<1>9. QED
  BY <1>1, <1>2, <1>3, <1>4, <1>5, <1>6, <1>7, <1>8 DEF Next

\* The inductive invariant holds throughout.
THEOREM AlwaysInv == Spec => []Inv
<1>1. Init => Inv
  BY InitInv
<1>2. Inv /\ [Next]_vars => Inv'
  BY NextInv
<1>3. QED
  BY <1>1, <1>2, PTL DEF Spec

(***************************************************************************)
(* The lists, the sockets and the tasks keep their types: in particular no *)
(* step leaves a key of user_connections out.                              *)
(***************************************************************************)
THEOREM TypeCorrect == Spec => []TypeOK
<1>1. Inv => TypeOK
  BY DEF Inv
<1>2. QED
  BY <1>1, AlwaysInv, PTL

(***************************************************************************)
(* register, unregister and unregister_user keep active_connections and    *)
(* user_connections in step, for any number of sockets and requests.       *)
(***************************************************************************)
THEOREM ListsAlwaysAgree == Spec => []ListsAgree
<1>1. Inv => ListsAgree
  BY DEF Inv, Fits, Agrees, ListsAgree
<1>2. QED
  BY <1>1, AlwaysInv, PTL

(***************************************************************************)
(* Whatever closed it, a socket of form or summary is in no list once its  *)
(* handler has ended, and one of inputs only if a broadcast closed it; one *)
(* that unregister_user closed is in no list, of whatever endpoint.        *)
(***************************************************************************)
THEOREM EndedAreUnlisted == Spec => []EndedLeavesLists
<1>1. ASSUME Inv, NEW s \in Sockets, sock[s].pc = "done", Registered(s)
      PROVE  /\ sock[s].kind \notin {"form", "summary"}
             /\ sock[s].kind = "inputs" => ClosedWithoutCode(s)
             /\ sock[s].code # "away"
  BY <1>1 DEF Inv, Fits, EndsClean, Codes, ClosedWithoutCode
<1>2. Inv => EndedLeavesLists
  BY <1>1 DEF EndedLeavesLists
<1>3. QED
  BY <1>2, AlwaysInv, PTL

(***************************************************************************)
(* A socket that a handler or a logout took from the lists while its       *)
(* handler runs is closed: nobody is left connected and unheard of.        *)
(***************************************************************************)
THEOREM UnregisteredAreClosed == Spec => []UnregisteredIsClosed
<1>1. Inv => UnregisteredIsClosed
  BY DEF Inv, Fits, LeavesClosed, UnregisteredIsClosed
<1>2. QED
  BY <1>1, AlwaysInv, PTL
=============================================================================
