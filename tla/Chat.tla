--------------------------------- MODULE Chat ---------------------------------
(***************************************************************************)
(* Messages between users (App/main.py: websocket_chat, with connect and   *)
(* disconnect of notification/socket.py).  A message whose recipient is no *)
(* key of active_connections waits in memory and is sent whenever the      *)
(* recipient connects.  Between two awaits of a handler the others run.    *)
(***************************************************************************)
EXTENDS RecordsDomain, Integers, Sequences, Subsequences

CONSTANTS Sockets, Texts, MaxWaiting   \* bound: messages waiting for a user

VARIABLES
    socket,   \* socket -> its handler: where it is, whose it is
    open,     \* organization -> its list in active_connections, None without an entry
    waiting,  \* user -> pending_messages, None without an entry
    got       \* user -> texts its sockets were sent

vars == <<socket, open, waiting, got>>

\* A message waiting: its text, and whether its 24 hours have passed.
Message == [text : Texts, old : BOOLEAN]
Fresh(m) == ~m.old

Gone == [at |-> "gone", user |-> None, org |-> None, list |-> None, next |-> 0]

\* list: the list a replay walks through, None while it still is the user's own.
TypeOK ==
    /\ socket \in [Sockets -> [at : {"gone", "replay", "reading"}, user : Users \cup {None},
                               org : Orgs \cup {None}, list : Seq(Message) \cup {None},
                               next : Nat]]
    /\ open \in [Orgs -> Seq(Sockets) \cup {None}]
    /\ waiting \in [Users -> Seq(Message) \cup {None}]
    /\ got \in [Users -> SUBSET Texts]

Init ==
    /\ socket = [s \in Sockets |-> Gone]
    /\ open = [o \in Orgs |-> None]
    /\ waiting = [u \in Users |-> None]
    /\ got = [u \in Users |-> {}]

\* manager.connect: the socket joins the list of the organization, not of its user.
Connect(s, u, o) ==
    /\ socket[s] = Gone /\ \A p \in Orgs : open[p] # None => \A i \in 1..Len(open[p]) : open[p][i] # s
    /\ open' = [open EXCEPT ![o] = IF @ = None THEN <<s>> ELSE Append(@, s)]
    /\ socket' = [socket EXCEPT ![s] =
           [at |-> IF waiting[u] = None THEN "reading" ELSE "replay", user |-> u,
            org |-> o, list |-> None, next |-> 1]]
    /\ UNCHANGED <<waiting, got>>

Walked(s) == IF socket[s].list = None THEN waiting[socket[s].user] ELSE socket[s].list

\* One waiting message is sent; it stays in the list.
Replay(s) ==
    /\ socket[s].at = "replay" /\ socket[s].next <= Len(Walked(s))
    /\ got' = [got EXCEPT ![socket[s].user] = @ \cup {Walked(s)[socket[s].next].text}]
    /\ socket' = [socket EXCEPT ![s].next = @ + 1]
    /\ UNCHANGED <<open, waiting>>

FreshOf(list) == Subsequence(list, {i \in 1..Len(list) : Fresh(list[i])})

RetainedWalked(s) == FreshOf(Walked(s))   \* a mutant: it filters the list it walked

\* What a replay leaves: it filters the user's list of the moment, not the one it walked.
Retained(s) == FreshOf(waiting[socket[s].user])

\* The list is replaced: the other replays of the user go on with the one they hold.
Retain(s) ==
    /\ socket[s].at = "replay" /\ socket[s].next > Len(Walked(s))
    /\ waiting' = [waiting EXCEPT ![socket[s].user] = Retained(s)]
    /\ socket' = [t \in Sockets |->
           CASE t = s -> [socket[s] EXCEPT !.at = "reading", !.list = None]
             [] t # s /\ socket[t].at = "replay" /\ socket[t].user = socket[s].user
                  -> [socket[t] EXCEPT !.list = Walked(t)]
             [] OTHER -> socket[t]]
    /\ UNCHANGED <<open, got>>

(***************************************************************************)
(* A message for a recipient.  active_connections is keyed by organization:*)
(* a user is never found in it, connected or not, and the message waits;   *)
(* an organization's id reaches the sockets of its list, if any are left:  *)
(* disconnect leaves an empty list behind.  The first socket that is       *)
(* closed ends the sender's handler: with a disconnect it leaves the list, *)
(* with any other error it stays there.                                    *)
(***************************************************************************)
Listening(r) == r \in Orgs /\ open[r] # None

Store(u, t) ==
    LET now == IF waiting[u] = None THEN <<>> ELSE waiting[u]
    IN  /\ Len(now) < MaxWaiting
        /\ waiting' = [waiting EXCEPT ![u] = Append(now, [text |-> t, old |-> FALSE])]

\* The users on the sockets before the first dead one are reached.
Reached(r) ==
    LET list == open[r]
        live == {i \in 1..Len(list) : \A j \in 1..i : socket[list[j]] # Gone}
    IN  {socket[list[i]].user : i \in live}

Send(s, r, t) ==
    /\ socket[s].at = "reading"
    /\ IF Listening(r)
       THEN /\ got' = [u \in Users |-> IF u \in Reached(r) THEN got[u] \cup {t} ELSE got[u]]
            /\ IF \A i \in 1..Len(open[r]) : socket[open[r][i]] # Gone
               THEN UNCHANGED <<socket, open>>
               ELSE /\ socket' = [socket EXCEPT ![s] = Gone]
                    /\ \E left \in {TRUE, FALSE} :
                           open' = IF left THEN [open EXCEPT ![socket[s].org] =
                                                    Without(@, s)]
                                   ELSE open
            /\ UNCHANGED waiting
       ELSE r \in Users /\ Store(r, t) /\ UNCHANGED <<socket, open, got>>

\* The client leaves: the disconnect raised by receive_text or by a send of the replay.
Leave(s) ==
    /\ socket[s] # Gone
    /\ socket' = [socket EXCEPT ![s] = Gone]
    /\ open' = [open EXCEPT ![socket[s].org] = Without(@, s)]
    /\ UNCHANGED <<waiting, got>>

\* Data that is no JSON object, or another error that is no disconnect: it stays listed.
Garble(s) ==
    /\ socket[s] # Gone
    /\ socket' = [socket EXCEPT ![s] = Gone]
    /\ UNCHANGED <<open, waiting, got>>

\* Twenty-four hours pass for everything that waits.
Age ==
    /\ waiting' = [u \in Users |->
           IF waiting[u] = None THEN None
           ELSE [i \in 1..Len(waiting[u]) |-> [waiting[u][i] EXCEPT !.old = TRUE]]]
    /\ socket' = [s \in Sockets |->
           IF socket[s].list = None THEN socket[s]
           ELSE [socket[s] EXCEPT !.list =
                    [i \in 1..Len(@) |-> [@[i] EXCEPT !.old = TRUE]]]]
    /\ UNCHANGED <<open, got>>

Next ==
    \/ Age
    \/ \E s \in Sockets :
           \/ \E u \in Users, o \in Orgs : Connect(s, u, o)
           \/ \E r \in Users \cup Orgs, t \in Texts : Send(s, r, t)
           \/ Replay(s) \/ Retain(s) \/ Leave(s) \/ Garble(s)

Spec == Init /\ [][Next]_vars

-----------------------------------------------------------------------------
(***************************************************************************)
(* Properties                                                              *)
(***************************************************************************)

(***************************************************************************)
(* A message that waits is dropped only when its 24 hours have passed: the *)
(* replays of two sockets of a user, and the messages that arrive between  *)
(* the sends of a replay, lose none.                                       *)
(***************************************************************************)
KeptWhileFresh ==
    [][\A u \in Users : waiting[u] # None =>
          \A i \in 1..Len(waiting[u]) : Fresh(waiting[u][i]) =>
              \E j \in 1..Len(waiting'[u]) : waiting'[u][j].text = waiting[u][i].text]_vars

=============================================================================
