------------------------------ MODULE Accounts ------------------------------
(***************************************************************************)
(* Employees and the accounts they log in with: two tables with no key     *)
(* between them.  An employee's user is the row with the same email in the *)
(* same organization; every handler looks it up again by what it has read. *)
(*                                                                         *)
(* create_user may wait for an upload, update_user for the facial API;     *)
(* PATCH and DELETE of UserBase run in threads and read the two rows one   *)
(* after the other; the deletion of an organization commits row by row.    *)
(* PATCH /staff and POST /staff await nothing.                             *)
(* Left out: usernames, which only ever cause a refusal; the is_active of  *)
(* an employee, which no login reads; types, images, messages, audit rows. *)
(* An organization and its role are there again as soon as they were       *)
(* deleted, where in the code what names the old one fails.                *)
(***************************************************************************)
EXTENDS RecordsDomain, Naturals

CONSTANT Closing   \* the organizations whose deletion is requested

ASSUME ClosingAssumption == Closing \subseteq Orgs

VARIABLES
    person,   \* the table employees
    account,  \* the table users; role is the organization its role belongs to
    call,     \* the requests in flight
    archived, \* history: employees whose soft deletion was answered
    lone,     \* history: employees a deletion handled without their user,
    stray     \* and users without their employee: by the deletion of an
              \* organization, or by one that the employee's update overtook

vars == <<person, account, call, archived, lone, stray>>

Person == [email : People, org : Orgs]
Account == [email : People, org : Orgs, active : BOOLEAN, role : Orgs]
Kinds == {"soft", "hard", "reassign"}
\* The tables of an organization, in the order its deletion goes through them.
Tables == <<"users", "roles", "employees">>
Call == [pc : {"idle", "creating", "updating", "find", "commit", "closing"},
         kind : Kinds \cup {None}, emp : Staff \cup {None}, user : Users \cup {None},
         email : People \cup {None}, org : Orgs \cup {None},
         new : People \cup {None}, role : Orgs \cup {None},
         stale : BOOLEAN,  \* the employee was changed since it was read
         tables : SUBSET DOMAIN Tables, rows : SUBSET (Users \cup Orgs \cup Staff)]
NoCall == [pc |-> "idle", kind |-> None, emp |-> None, user |-> None,
           email |-> None, org |-> None, new |-> None, role |-> None,
           stale |-> FALSE, tables |-> {}, rows |-> {}]

TypeOK ==
    /\ person \in [Staff -> Person \cup {None}]
    /\ account \in [Users -> Account \cup {None}]
    /\ call \in [Requests -> Call]
    /\ archived \subseteq Staff /\ lone \subseteq Staff /\ stray \subseteq Users

Init ==
    /\ person = [e \in Staff |-> None]
    /\ account = [u \in Users |-> None]
    /\ call = [r \in Requests |-> NoCall]
    /\ archived = {} /\ lone = {} /\ stray = {}

Employees == {e \in Staff : person[e] # None}
Accounts == {u \in Users : account[u] # None}
Idle(r) == call[r].pc = "idle"
End(r) == call' = [call EXCEPT ![r] = NoCall]

\* Ids are new: of no row and of no request.
New(e, u) ==
    /\ e \notin Employees /\ u \notin Accounts
    /\ \A r \in Requests :
          /\ call[r].emp # e /\ call[r].user # u
          /\ e \notin call[r].rows /\ u \notin call[r].rows

\* The rows of users with this email in this organization; at most one.
Matching(m, o) == {u \in Accounts : account[u].email = m /\ account[u].org = o}
EmailFree(m) == \A e \in Employees : person[e].email # m
AccountFree(m) == \A u \in Accounts : account[u].email # m
Mine(e, u) == person[e].email = account[u].email /\ person[e].org = account[u].org
history == <<archived, lone, stray>>

-----------------------------------------------------------------------------
(***************************************************************************)
(* The insert of an employee and, in its event, of its user: a user found  *)
(* under the email, whose employee is gone, is given the role; the email   *)
(* taken in another organization fails the flush, and both rows with it.   *)
(***************************************************************************)
Insert(e, u, m, o, role) ==
    /\ EmailFree(m)
    /\ person' = [person EXCEPT ![e] = [email |-> m, org |-> o]]
    /\ \/ \E v \in Matching(m, o) :
            /\ account' = [account EXCEPT ![v].role = role]
            /\ lone' = lone \cup {e}
       \/ /\ AccountFree(m)
          /\ account' = [account EXCEPT ![u] =
                            [email |-> m, org |-> o, active |-> TRUE, role |-> role]]
          /\ UNCHANGED lone
    /\ UNCHANGED <<archived, stray>>

\* create_user: both emails are looked for; a role of any organization will do.
CreateUser(r, e, u, m, o, role) ==
    /\ Idle(r) /\ New(e, u)
    /\ EmailFree(m) /\ AccountFree(m)
    /\ call' = [call EXCEPT ![r] = [NoCall EXCEPT !.pc = "creating", !.emp = e, !.user = u,
                                       !.email = m, !.org = o, !.role = role]]
    /\ UNCHANGED <<person, account, history>>

\* The image is read: the insert, or its constraint's refusal.
FinishCreate(r) ==
    LET q == call[r] IN
    /\ q.pc = "creating"
    /\ \/ Insert(q.emp, q.user, q.email, q.org, q.role)
       \/ UNCHANGED <<person, account, history>>
    /\ End(r)

\* POST /staff: the employee's email is looked for, and the role in o.
CreateEmployee(e, u, m, o) ==
    /\ New(e, u)
    /\ Insert(e, u, m, o, o)
    /\ UNCHANGED call

-----------------------------------------------------------------------------
\* A mutant: the user is looked for in the new organization.
SyncedHere(old, m, o) ==
    [u \in Users |-> IF u \in Matching(old.email, o)
                     THEN [account[u] EXCEPT !.email = m, !.org = o] ELSE account[u]]

\* A mutant: a column the request leaves out is assigned as well.
SyncedUnset(old, m, o) ==
    [u \in Users |-> IF u \in Matching(old.email, old.org)
                     THEN [account[u] EXCEPT !.email = m,
                              !.org = IF o = old.org THEN None ELSE o]
                     ELSE account[u]]

\* After an update the user found under the OLD email gets the new values.
Synced(old, m, o) ==
    [u \in Users |-> IF u \in Matching(old.email, old.org)
                     THEN [account[u] EXCEPT !.email = m, !.org = o] ELSE account[u]]

\* PATCH /staff sets any column, the organization included; the role stays.
PatchStaff(e, m, o) ==
    LET old == person[e] IN
    /\ e \in Employees
    /\ \A x \in Employees \ {e} : person[x].email # m
    /\ \A u \in Accounts \ Matching(old.email, old.org) : account[u].email # m
    /\ person' = [person EXCEPT ![e] = [email |-> m, org |-> o]]
    /\ account' = Synced(old, m, o)
    /\ UNCHANGED <<call, history>>

(***************************************************************************)
(* update_user: the user by id, its employee by email alone; the new email *)
(* is looked for among the users, then the facial API is awaited.          *)
(***************************************************************************)
UpdateUser(r, u, m, role) ==
    /\ Idle(r) /\ u \in Accounts
    /\ m # None => AccountFree(m)
    /\ \E e \in Employees :
         /\ person[e].email = account[u].email
         /\ call' = [call EXCEPT ![r] = [NoCall EXCEPT !.pc = "updating", !.emp = e,
                        !.user = u, !.email = account[u].email, !.org = account[u].org,
                        !.new = m, !.role = role]]
    /\ UNCHANGED <<person, account, history>>

\* The role is looked for in the organization read before the wait.
RoleFound(q) == q.role \in {q.org, None}
(***************************************************************************)
(* Then one commit.  A row gone, or an email taken meanwhile, and nothing  *)
(* is changed: also when the email read now is another user's, whom the    *)
(* event of the employee would rename too.                                 *)
(***************************************************************************)
FinishUpdate(r) ==
    LET q == call[r]  u == q.user IN
    /\ q.pc = "updating"
    /\ \/ /\ RoleFound(q) /\ u \in Accounts
          /\ q.new # None \/ q.role # None
          /\ q.new # None =>
               /\ q.emp \in Employees
               /\ \A e \in Employees \ {q.emp} : person[e].email # q.new
               /\ \A v \in Accounts \ {u} : account[v].email # q.new
               /\ Matching(q.email, q.org) \subseteq {u}
          /\ person' = IF q.new = None THEN person
                       ELSE [person EXCEPT ![q.emp].email = q.new]
          /\ account' = [account EXCEPT ![u].email = IF q.new = None THEN @ ELSE q.new,
                                        ![u].role = IF q.role = None THEN @ ELSE q.role]
       \/ UNCHANGED <<person, account>>
    /\ End(r)
    /\ UNCHANGED history

-----------------------------------------------------------------------------
\* UserBase, in a thread: first the employee ...
Open(r, e, kind) ==
    /\ Idle(r) /\ e \in Employees
    /\ call' = [call EXCEPT ![r] = [NoCall EXCEPT !.pc = "find", !.kind = kind, !.emp = e,
                                       !.email = person[e].email, !.org = person[e].org]]
    /\ UNCHANGED <<person, account, history>>

\* ... then the user with that email; without one, PATCH ends with 500.
FindUser(r) ==
    LET q == call[r]
        found == Matching(q.email, q.org)
        fresh == q.emp \in Employees /\ person[q.emp].email = q.email
                                     /\ person[q.emp].org = q.org IN
    /\ q.pc = "find"
    /\ \/ \E u \in found :
            call' = [call EXCEPT ![r].pc = "commit", ![r].user = u, ![r].stale = ~fresh]
       \/ /\ found = {} /\ q.kind # "reassign"
          /\ call' = [call EXCEPT ![r].pc = "commit", ![r].stale = ~fresh]
       \/ found = {} /\ q.kind = "reassign" /\ End(r)
    /\ UNCHANGED <<person, account, history>>

\* A role of the caller's organization, and a department that is not modelled.
Reassign(r) ==
    LET q == call[r] IN
    /\ q.pc = "commit" /\ q.kind = "reassign"
    /\ account' = IF q.user \in Accounts THEN [account EXCEPT ![q.user].role = q.org]
                  ELSE account
    /\ End(r)
    /\ UNCHANGED <<person, history>>

\* A mutant: the account is left as it is.
SoftDeleteEmployee(r) ==
    LET q == call[r] IN
    /\ q.pc = "commit" /\ q.kind = "soft"
    /\ IF q.emp \in Employees /\ q.user \in Accounts \cup {None}
       THEN /\ archived' = archived \cup {q.emp}
            /\ lone' = IF q.stale THEN lone \cup {q.emp} ELSE lone
       ELSE UNCHANGED <<archived, lone>>
    /\ End(r)
    /\ UNCHANGED <<person, account, stray>>

\* Both rows or, if one is gone, neither: UPDATE counts its rows.
SoftDelete(r) ==
    LET q == call[r] IN
    /\ q.pc = "commit" /\ q.kind = "soft"
    /\ IF q.emp \in Employees /\ q.user \in Accounts \cup {None}
       THEN /\ account' = IF q.user = None THEN account
                          ELSE [account EXCEPT ![q.user].active = FALSE]
            /\ archived' = archived \cup {q.emp}
            /\ lone' = IF q.stale THEN lone \cup {q.emp} ELSE lone
       ELSE UNCHANGED <<account, archived, lone>>
    /\ End(r)
    /\ UNCHANGED <<person, stray>>

\* The rows us and es are deleted; whose partners they were is noted if parting.
Erase(us, es, parting) ==
    /\ person' = [e \in Staff |-> IF e \in es THEN None ELSE person[e]]
    /\ account' = [u \in Users |-> IF u \in us THEN None ELSE account[u]]
    /\ archived' = archived \ es
    /\ lone' = (lone \cup {e \in Employees : parting /\ \E u \in us : Mine(e, u)}) \ es
    /\ stray' = (stray \cup {u \in Accounts : parting /\ \E e \in es : Mine(e, u)}) \ us

\* A mutant: the account is left where it is.
HardDeleteEmployee(r) ==
    LET q == call[r] IN
    /\ q.pc = "commit" /\ q.kind = "hard"
    /\ Erase({}, {q.emp} \cap Employees, q.stale)
    /\ End(r)

\* DELETE of a row that is gone is only warned of.
HardDelete(r) ==
    LET q == call[r] IN
    /\ q.pc = "commit" /\ q.kind = "hard"
    /\ Erase({q.user} \cap Accounts, {q.emp} \cap Employees, q.stale)
    /\ End(r)

-----------------------------------------------------------------------------
(***************************************************************************)
(* The deletion of an organization: the relationship's primaryjoin says    *)
(* nothing about the organization, so it counts and collects the rows of   *)
(* all of them, table by table, and commits each row with its audit.       *)
(***************************************************************************)
RowsOf(t) ==
    CASE t = "users" -> Accounts [] t = "roles" -> Orgs [] t = "employees" -> Employees

First(tables) == CHOOSE i \in tables : \A j \in tables : i <= j
Collected(tables) == IF tables = {} THEN {} ELSE RowsOf(Tables[First(tables)])

CloseOrganization(r, o) ==
    LET tables == {i \in DOMAIN Tables : RowsOf(Tables[i]) # {}} IN
    /\ Idle(r)
    /\ call' = [call EXCEPT ![r] = [NoCall EXCEPT !.pc = "closing", !.org = o,
                                       !.tables = tables, !.rows = Collected(tables)]]
    /\ UNCHANGED <<person, account, history>>

\* A role takes its users with it; of a row that is gone nothing is deleted.
DeleteRow(r) ==
    LET q == call[r]  t == Tables[First(q.tables)] IN
    /\ q.pc = "closing" /\ q.tables # {}
    /\ \E row \in q.rows :
         /\ call' = [call EXCEPT ![r].rows = @ \ {row}]
         /\ \/ t = "users" /\ Erase({row} \cap Accounts, {}, TRUE)
            \/ t = "roles" /\ Erase({u \in Accounts : account[u].role = row}, {}, TRUE)
            \/ t = "employees" /\ Erase({}, {row} \cap Employees, TRUE)

NextTable(r) ==
    LET rest == call[r].tables \ {First(call[r].tables)} IN
    /\ call[r].pc = "closing" /\ call[r].tables # {} /\ call[r].rows = {}
    /\ call' = [call EXCEPT ![r].tables = rest, ![r].rows = Collected(rest)]
    /\ UNCHANGED <<person, account, history>>

\* The organization last; users go with it or, elsewhere, with its role.
DeleteOrganization(r) ==
    LET o == call[r].org IN
    /\ call[r].pc = "closing" /\ call[r].tables = {}
    /\ Erase({u \in Accounts : o \in {account[u].org, account[u].role}},
             {e \in Employees : person[e].org = o}, TRUE)
    /\ End(r)

\* A commit fails, or the process ends: what was deleted stays so.
AbandonClosing(r) ==
    /\ call[r].pc = "closing"
    /\ End(r)
    /\ UNCHANGED <<person, account, history>>

Step(r) ==
    FinishCreate(r) \/ FinishUpdate(r) \/ FindUser(r)
    \/ Reassign(r) \/ SoftDelete(r) \/ HardDelete(r)
    \/ DeleteRow(r) \/ NextTable(r) \/ DeleteOrganization(r) \/ AbandonClosing(r)

Next ==
    \/ \E r \in Requests, e \in Staff, u \in Users, m \in People, o, role \in Orgs :
          CreateUser(r, e, u, m, o, role)
    \/ \E e \in Staff, u \in Users, m \in People, o \in Orgs : CreateEmployee(e, u, m, o)
    \/ \E e \in Staff, m \in People, o \in Orgs : PatchStaff(e, m, o)
    \/ \E r \in Requests, u \in Users, m \in People \cup {None}, role \in Orgs \cup {None} :
          UpdateUser(r, u, m, role)
    \/ \E r \in Requests, e \in Staff, k \in Kinds : Open(r, e, k)
    \/ \E r \in Requests, o \in Closing : CloseOrganization(r, o)
    \/ \E r \in Requests : Step(r)

Spec == Init /\ [][Next]_vars

-----------------------------------------------------------------------------
(***************************************************************************)
(* Every employee has a user and every user its employee, through every    *)
(* interleaving of creations, changes of email and of organization and     *)
(* deletions.  Excepted are single rows: those whose partner the deletion  *)
(* of an organization took, or a DELETE whose employee was changed after   *)
(* it had been read and before its user was; and who took such a place.    *)
(***************************************************************************)
Paired ==
    /\ \A e \in Employees \ lone : \E u \in Accounts : Mine(e, u)
    /\ \A u \in Accounts \ stray : \E e \in Employees : Mine(e, u)

(***************************************************************************)
(* Whoever was archived cannot log in again, whatever is done to the       *)
(* employee or to its account after the two were read.                     *)
(***************************************************************************)
ArchivedCannotLogin ==
    \A e \in archived \ lone : \A u \in Accounts : Mine(e, u) => account[u].active = FALSE

(***************************************************************************)
(* An email is of one organization: whom update_user finds by email alone, *)
(* and whom a change of email reaches, is the user's own employee, also    *)
(* after rows of either table were deleted alone.                          *)
(***************************************************************************)
OneTenant ==
    \A e \in Employees, u \in Accounts :
        person[e].email = account[u].email => person[e].org = account[u].org

(***************************************************************************)
(* UserBase.py:347 "mark both Employee.is_active=False and                 *)
(* User.is_active=False": a DELETE that an update of the employee          *)
(* overtakes marks the employee alone.                                     *)
(***************************************************************************)
BothMarked ==
    \A e \in archived : \A u \in Accounts : Mine(e, u) => account[u].active = FALSE

=============================================================================
