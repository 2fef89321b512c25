---------------------------- MODULE TenantRecords ----------------------------
(***************************************************************************)
(* The records an organization keeps beside its staff                      *)
(* (Apis/tenant_apis.py, Crud/tenant_crud.py): ranks, promotion policies,  *)
(* payment gateways and notifications belong to an organization, payment   *)
(* details to an employee, salary payments to nobody a request is asked    *)
(* about.  The handlers run in threads, each with a session of its own:    *)
(* between the query of an update or a delete and its commit the others    *)
(* run.                                                                    *)
(***************************************************************************)
EXTENDS RecordsDomain, Integers, FiniteSets

CONSTANTS
    Rows,      \* ids of rows, each made once
    Columns    \* columns an update can change

VARIABLES
    table,    \* row -> its table, owner and the request that wrote each column, or None
    made,     \* ids that were made
    task,     \* request -> what it does and what it read; each does one thing
    done      \* request -> what it was answered, "no" before that

vars == <<table, made, task, done>>

Kinds == {"organization", "employee", "payment"}

\* by: the request that wrote a column, None for what the row was made with.
Record == [kind : Kinds, org : Orgs, by : [Columns -> Requests \cup {None}]]

Idle == [op |-> "idle", row |-> None, fields |-> {}, read |-> None]

TypeOK ==
    /\ table \in [Rows -> Record \cup {None}]
    /\ made \subseteq Rows
    /\ task \in [Requests -> [op : {"idle", "update", "delete"}, row : Rows \cup {None},
                           fields : SUBSET Columns, read : Record \cup {None}]]
    /\ done \in [Requests -> {"no", "refused", "lost", "saved", "deleted"}]

Init ==
    /\ table = [r \in Rows |-> None] /\ made = {}
    /\ task = [c \in Requests |-> Idle]
    /\ done = [c \in Requests |-> "no"]

\* One commit; the organization is the token's, the 403 of another one changes nothing.
Create(r, kind, o) ==
    /\ r \notin made /\ made' = made \cup {r}
    /\ table' = [table EXCEPT ![r] = [kind |-> kind, org |-> o,
                                      by |-> [c \in Columns |-> None]]]
    /\ UNCHANGED <<task, done>>

(***************************************************************************)
(* What the query of a request finds: a row of the token's organization, a *)
(* payment detail of the employee the request names, any salary payment.   *)
(* Promotion requests are never found: the query joins by a string, which  *)
(* this version of the library refuses.                                    *)
(***************************************************************************)
Finds(r, o, named) ==
    /\ table[r] # None
    /\ CASE table[r].kind = "organization" -> table[r].org = o
         [] table[r].kind = "employee" -> table[r].org = named
         [] OTHER -> TRUE

\* named: the organization whose employee the request names; fields: the columns
\* it sends with another value than the one it just read.
Begin(c, op, r, o, named, fields) ==
    /\ task[c] = Idle /\ done[c] = "no"
    /\ op = "delete" => fields = {}
    /\ IF Finds(r, o, named)
       THEN /\ task' = [task EXCEPT ![c] =
                   [op |-> op, row |-> r, fields |-> fields, read |-> table[r]]]
            /\ UNCHANGED done
       ELSE done' = [done EXCEPT ![c] = "refused"] /\ UNCHANGED task
    /\ UNCHANGED <<table, made>>

\* A mutant: the whole row goes back as it was read.
WrittenWhole(c, now) ==
    [now EXCEPT !.by = [f \in Columns |-> IF f \in task[c].fields THEN c
                                          ELSE task[c].read.by[f]]]

(***************************************************************************)
(* The columns the UPDATE names: exclude_unset leaves the columns that the *)
(* request did not send, and the session those that were assigned the      *)
(* value they had when they were read.  No column, no UPDATE.              *)
(***************************************************************************)
Written(c, now) ==
    [now EXCEPT !.by = [f \in Columns |-> IF f \in task[c].fields THEN c ELSE now.by[f]]]

\* A row that was deleted meanwhile is not matched, or not refreshed: a 500.
Commit(c) ==
    LET r == task[c].row
    IN  /\ task[c].op = "update" /\ done[c] = "no"
        /\ IF table[r] = None
           THEN table' = table /\ done' = [done EXCEPT ![c] = "lost"]
           ELSE /\ table' = [table EXCEPT ![r] = Written(c, table[r])]
                /\ done' = [done EXCEPT ![c] = "saved"]
        /\ UNCHANGED <<made, task>>

\* Deleting what another request deleted is only warned of.
Delete(c) ==
    /\ task[c].op = "delete" /\ done[c] = "no"
    /\ table' = [table EXCEPT ![task[c].row] = None]
    /\ done' = [done EXCEPT ![c] = "deleted"]
    /\ UNCHANGED <<made, task>>

Over == made = Rows /\ \A c \in Requests : done[c] # "no"
Ended == Over /\ UNCHANGED vars

Next ==
    \/ \E r \in Rows, kind \in Kinds, o \in Orgs : Create(r, kind, o)
    \/ \E c \in Requests :
           \/ Commit(c) \/ Delete(c)
           \/ \E r \in Rows, op \in {"update", "delete"}, o, named \in Orgs,
                 fields \in SUBSET Columns : Begin(c, op, r, o, named, fields)
    \/ Ended

Spec == Init /\ [][Next]_vars

-----------------------------------------------------------------------------
(***************************************************************************)
(* Properties                                                              *)
(***************************************************************************)

(***************************************************************************)
(* An update that was answered stays: as long as the row exists, a column  *)
(* it changed is only overwritten by another update that changes it too,   *)
(* although updates of the same row read it before each other's commits.   *)
(***************************************************************************)
Kept(c, f) ==
    LET w == table[task[c].row].by[f] IN
    \/ w = c
    \/ /\ w # None
       /\ done[w] = "saved" /\ task[w].row = task[c].row /\ f \in task[w].fields

AnsweredIsKept ==
    \A c \in Requests :
        (done[c] = "saved" /\ table[task[c].row] # None) =>
            \A f \in task[c].fields : Kept(c, f)

=============================================================================
