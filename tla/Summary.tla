------------------------------- MODULE Summary -------------------------------
(***************************************************************************)
(* The counts an organization's summary shows (Apis/summary.py), pushed to *)
(* the sockets that Connections registers.  A handler that changes what is *)
(* counted commits and creates a task; the task counts, then sends to one  *)
(* socket after the other.  Counts are told apart by the number of changes *)
(* they include.  The tables' own listeners (summary_listeners.py,         *)
(* employee_listeners.py) look for a session on the connection that        *)
(* nothing puts there, and do nothing.                                     *)
(***************************************************************************)
EXTENDS RecordsDomain, Integers, Sequences

CONSTANTS Clients,      \* sockets of the summary of one organization
          MaxChanges    \* bound: changes of what is counted

VARIABLES
    changes,   \* committed changes of what is counted
    pushed,    \* those made by handlers that push
    tasks,     \* push tasks: their change, what they counted, the sockets still to be sent to
    failed,    \* history: the changes whose push failed before it sent anything
    client     \* socket -> registered, what it was sent last, and the most it was sent

vars == <<changes, pushed, tasks, failed, client>>

Counted == 0..MaxChanges
Off == [on |-> FALSE, last |-> 0, most |-> 0]

TypeOK ==
    /\ changes \in Counted /\ pushed \in Counted
    /\ tasks \in Seq([of : Counted, counted : Counted \cup {None}, to : SUBSET Clients])
    /\ failed \subseteq Counted
    /\ client \in [Clients -> [on : BOOLEAN, last : Counted, most : Counted]]

Init ==
    /\ changes = 0 /\ pushed = 0 /\ tasks = <<>> /\ failed = {}
    /\ client = [c \in Clients |-> Off]

Pending(n) == [of |-> n, counted |-> None, to |-> {}]

\* Departments, branches, roles, employees, users: asyncio.create_task after the commit,
\* or, of an import, a background task that runs after the answer.
Push ==
    /\ changes < MaxChanges
    /\ changes' = changes + 1 /\ pushed' = changes + 1
    /\ tasks' = Append(tasks, Pending(changes + 1))
    /\ UNCHANGED <<failed, client>>

\* Ranks and policies of tenant_apis.py, tenancies and bills: nobody is told.
Change ==
    /\ changes < MaxChanges
    /\ changes' = changes + 1
    /\ UNCHANGED <<pushed, tasks, failed, client>>

\* _build_summary_payload and the copy of the list that broadcast_json walks.
Count(i) ==
    /\ tasks[i].counted = None
    /\ tasks' = [tasks EXCEPT ![i].counted = changes, ![i].to = {c \in Clients : client[c].on}]
    /\ UNCHANGED <<changes, pushed, failed, client>>

Without(i) == SubSeq(tasks, 1, i - 1) \o SubSeq(tasks, i + 1, Len(tasks))

(***************************************************************************)
(* It raises when the organization is gone or a query fails, as it may on  *)
(* the session of a request that is over, which get_db closes meanwhile;   *)
(* a background task is dropped when one before it raises.  Nothing tries  *)
(* again.                                                                  *)
(***************************************************************************)
Fail(i) ==
    /\ tasks[i].counted = None
    /\ failed' = failed \cup {tasks[i].of}
    /\ tasks' = Without(i)
    /\ UNCHANGED <<changes, pushed, client>>

Received(c, n) == [client[c] EXCEPT !.last = n, !.most = IF n > @ THEN n ELSE @]

DeliverOne(i, c) ==   \* a mutant: the first send that fails ends the broadcast
    /\ c \in tasks[i].to
    /\ tasks' = [tasks EXCEPT ![i].to = IF client[c].on THEN @ \ {c} ELSE {}]
    /\ client' = IF client[c].on THEN [client EXCEPT ![c] = Received(c, tasks[i].counted)]
                 ELSE client
    /\ UNCHANGED <<changes, pushed, failed>>

\* A send; to a socket that is gone it fails and the error is swallowed.
Deliver(i, c) ==
    /\ c \in tasks[i].to
    /\ tasks' = [tasks EXCEPT ![i].to = @ \ {c}]
    /\ client' = IF client[c].on THEN [client EXCEPT ![c] = Received(c, tasks[i].counted)]
                 ELSE client
    /\ UNCHANGED <<changes, pushed, failed>>

Done(i) == tasks[i].counted # None /\ tasks[i].to = {}

Finish ==
    \E i \in 1..Len(tasks) :
        /\ Done(i)
        /\ tasks' = Without(i)
        /\ UNCHANGED <<changes, pushed, failed, client>>

\* websocket_summary: registered, then the counts of the moment, with no await between.
Open(c) ==
    /\ client[c] = Off
    /\ client' = [client EXCEPT ![c] = [on |-> TRUE, last |-> changes, most |-> changes]]
    /\ UNCHANGED <<changes, pushed, tasks, failed>>

Close(c) ==
    /\ client[c].on
    /\ client' = [client EXCEPT ![c] = Off]
    /\ UNCHANGED <<changes, pushed, tasks, failed>>

TaskStep(i) == Count(i) \/ Fail(i) \/ \E c \in Clients : Deliver(i, c)

Next ==
    \/ Push \/ Change \/ Finish
    \/ \E i \in 1..Len(tasks) : TaskStep(i)
    \/ \E c \in Clients : Open(c) \/ Close(c)

(***************************************************************************)
(* The event loop runs every task that is ready, and what it does ends:    *)
(* counting raises or not, a send is taken or fails.                       *)
(***************************************************************************)
Fairness ==
    /\ \A i \in 1..MaxChanges : WF_vars(i <= Len(tasks) /\ TaskStep(i))
    /\ WF_vars(Finish)

Spec == Init /\ [][Next]_vars
FairSpec == Spec /\ Fairness

-----------------------------------------------------------------------------
(***************************************************************************)
(* Properties                                                              *)
(***************************************************************************)

(***************************************************************************)
(* Every change by a handler that pushes reaches every summary that stays  *)
(* open, or none: each is sent counts that include it, though clients come *)
(* and go while it is sent and sends fail, unless the push failed before   *)
(* it sent anything (summary.py:74-77).                                    *)
(***************************************************************************)
PushReaches ==
    \A c \in Clients, n \in 1..MaxChanges :
        (client[c].on /\ pushed = n)
            ~> (~client[c].on \/ client[c].most >= n \/ n \in failed)

=============================================================================
