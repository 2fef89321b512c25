---------------------------- MODULE Organizations ----------------------------
(***************************************************************************)
(* Signing an organization up, changing it and deleting it.  POST / and    *)
(* POST /create-form/ are async and commit several times without awaiting  *)
(* anything in between: the event loop is theirs from the first insert to  *)
(* the answer.  DELETE runs in a thread and commits row by row, between    *)
(* any two commits of the others.                                          *)
(*                                                                         *)
(* A name stands for name and organizational email (both unique, checked   *)
(* together), a person for an email (unique among employees and among      *)
(* users).  Of the tables of an organization the model keeps those that    *)
(* decide something: roles, users, employees and system settings.          *)
(***************************************************************************)
EXTENDS RecordsDomain, Naturals, Sequences

Settings == {"email", "theme"}
\* The tables of an organization, in the order a deletion goes through them.
Order == <<"users", "roles", "settings", "employees">>
Forms == {"plain", "withEmail", "noUser", "oneUser", "twoUsers"}

VARIABLES
    name,      \* the table organizations
    roles,     \* organizations that have a role
    user,      \* the table users: the organization of each
    emp,       \* the table employees: the organization of each
    setting,   \* system_settings: setting_name is unique over all organizations
    request,   \* the requests in flight
    loop,      \* the request that holds the event loop
    answered,  \* history: organizations whose sign-up was answered 201
    purged,    \* history: organizations a deletion took rows from
    trimmed    \* history: organizations an update took employees from

vars == <<name, roles, user, emp, setting, request, loop, answered, purged, trimmed>>

(***************************************************************************)
(* pc of a sign-up: "reading" the uploaded files; then which commit is     *)
(* next; "broken" when the transaction is in error but the handler has     *)
(* swallowed the exception.  Of a deletion: "deleting", table by table.    *)
(***************************************************************************)
SignUpPc == {"reading", "settings", "broken", "role", "admin", "second", "theme", "mail"}
Request == [pc : {"idle", "deleting"} \cup SignUpPc, org : Orgs \cup {None},
            name : OrgNames \cup {None}, person : People \cup {None},
            form : Forms \cup {None}, tables : SUBSET DOMAIN Order,
            rows : SUBSET (Orgs \X (People \cup Settings \cup {None}))]
NoRequest == [pc |-> "idle", org |-> None, name |-> None, person |-> None,
              form |-> None, tables |-> {}, rows |-> {}]

TypeOK ==
    /\ name \in [Orgs -> OrgNames \cup {None}]
    /\ roles \subseteq Orgs
    /\ user \in [People -> Orgs \cup {None}]
    /\ emp \in [People -> Orgs \cup {None}]
    /\ setting \in [Settings -> Orgs \cup {None}]
    /\ request \in [Requests -> Request]
    /\ loop \in Requests \cup {None}
    /\ answered \subseteq Orgs /\ purged \subseteq Orgs /\ trimmed \subseteq Orgs

Init ==
    /\ name = [o \in Orgs |-> None]
    /\ roles = {}
    /\ user = [p \in People |-> None]
    /\ emp = [p \in People |-> None]
    /\ setting = [s \in Settings |-> None]
    /\ request = [r \in Requests |-> NoRequest]
    /\ loop = None
    /\ answered = {} /\ purged = {} /\ trimmed = {}

database == <<name, roles, user, emp, setting>>
history == <<answered, purged, trimmed>>

Exists(o) == name[o] # None
Taken(n) == \E o \in Orgs : name[o] = n
At(r, pc) == request[r].pc = pc
Goto(r, pc) == request' = [request EXCEPT ![r].pc = pc]
Abandon(r) == /\ request' = [request EXCEPT ![r] = NoRequest]
              /\ loop' = None

-----------------------------------------------------------------------------
(***************************************************************************)
(* POST / looks for the name before it reads the logos; the form is looked *)
(* at after the reading.  The id is new: the model uses one again once     *)
(* nothing refers to it, and forgets its history.                          *)
(***************************************************************************)
SignUp(r, o, n, p, form) ==
    /\ At(r, "idle") /\ loop = None
    /\ ~Exists(o)
    /\ \A q \in Requests : request[q].org # o /\ \A row \in request[q].rows : row[1] # o
    /\ form \in {"plain", "withEmail"} => ~Taken(n)
    /\ request' = [request EXCEPT ![r] = [NoRequest EXCEPT
                      !.pc = "reading", !.org = o, !.name = n, !.person = p, !.form = form]]
    /\ answered' = answered \ {o} /\ purged' = purged \ {o} /\ trimmed' = trimmed \ {o}
    /\ UNCHANGED <<database, loop>>

\* The first commit.  A form also wants employees nobody has registered yet.
Insert(r) ==
    LET q == request[r] IN
    /\ At(r, "reading") /\ loop = None
    /\ IF Taken(q.name) \/ (q.form \notin {"plain", "withEmail"} /\ emp[q.person] # None)
       THEN Abandon(r) /\ UNCHANGED name
       ELSE /\ name' = [name EXCEPT ![q.org] = q.name]
            /\ loop' = r
            /\ Goto(r, IF q.form = "withEmail" THEN "settings" ELSE "role")
    /\ UNCHANGED <<roles, user, emp, setting, history>>

\* A unique or foreign key violation is swallowed without a rollback.
SaveSettings(r) ==
    LET o == request[r].org IN
    /\ At(r, "settings")
    /\ IF Exists(o) /\ setting["email"] = None
       THEN setting' = [setting EXCEPT !["email"] = o] /\ Goto(r, "role")
       ELSE UNCHANGED setting /\ Goto(r, "broken")
    /\ UNCHANGED <<name, roles, user, emp, loop, history>>

\* Any statement of a transaction in error fails: the request ends with 500.
Break(r) ==
    /\ At(r, "broken")
    /\ Abandon(r)
    /\ UNCHANGED <<database, history>>

SaveRole(r) ==
    LET o == request[r].org IN
    /\ At(r, "role")
    /\ IF Exists(o)
       THEN roles' = roles \cup {o} /\ Goto(r, "admin") /\ UNCHANGED loop
       ELSE UNCHANGED roles /\ Abandon(r)
    /\ UNCHANGED <<name, user, emp, setting, history>>

\* Mutants: the event of the insert swallows an email taken elsewhere.
InsertableElsewhere(o, p) ==
    /\ Exists(o) /\ o \in roles
    /\ emp[p] = None

(***************************************************************************)
(* Employee and user in one commit.  POST / leaves the user to the event   *)
(* of the insert, which updates a user of the same email and organization; *)
(* the form inserts both.  Emails of users are unique over all             *)
(* organizations: elsewhere taken, the flush fails and both rows with it.  *)
(***************************************************************************)
Insertable(o, p) ==
    /\ Exists(o) /\ o \in roles
    /\ emp[p] = None /\ user[p] \in {None, o}

SaveAdminSwallowing(r) ==
    LET q == request[r] IN
    /\ At(r, "admin")
    /\ IF q.form # "noUser" /\ InsertableElsewhere(q.org, q.person)
       THEN /\ emp' = [emp EXCEPT ![q.person] = q.org]
            /\ user' = [user EXCEPT ![q.person] = IF @ = None THEN q.org ELSE @]
            /\ Goto(r, "mail") /\ UNCHANGED loop
       ELSE UNCHANGED <<emp, user>> /\ Abandon(r)
    /\ UNCHANGED <<name, roles, setting, history>>

SaveAdmin(r) ==
    LET q == request[r] IN
    /\ At(r, "admin")
    /\ IF q.form # "noUser" /\ Insertable(q.org, q.person)
       THEN /\ emp' = [emp EXCEPT ![q.person] = q.org]
            /\ user' = [user EXCEPT ![q.person] = q.org]
            /\ Goto(r, CASE q.form = "twoUsers" -> "second"
                         [] q.form = "oneUser" -> "theme"
                         [] OTHER -> "mail")
            /\ UNCHANGED loop
       ELSE UNCHANGED <<emp, user>> /\ Abandon(r)
    /\ UNCHANGED <<name, roles, setting, history>>

\* Every user of a form gets the email of its last employee.
SaveSecond(r) ==
    /\ At(r, "second")
    /\ Abandon(r)
    /\ UNCHANGED <<database, history>>

\* The form's default setting has one name for all organizations.
SaveTheme(r) ==
    LET o == request[r].org IN
    /\ At(r, "theme")
    /\ IF Exists(o) /\ setting["theme"] = None
       THEN setting' = [setting EXCEPT !["theme"] = o] /\ Goto(r, "mail") /\ UNCHANGED loop
       ELSE UNCHANGED setting /\ Abandon(r)
    /\ UNCHANGED <<name, roles, user, emp, history>>

\* The welcome mail is sent or scheduled, else 500; then the answer.
Answer(r) ==
    /\ At(r, "mail")
    /\ answered' \in {answered, answered \cup {request[r].org}}
    /\ Abandon(r)
    /\ UNCHANGED <<database, purged, trimmed>>

-----------------------------------------------------------------------------
(***************************************************************************)
(* PATCH: a list of employees replaces the relationship, and the employees *)
(* left out of it are orphans, deleted with the commit.                    *)
(***************************************************************************)
Listed(o, kept) == [p \in People |-> IF emp[p] = o /\ p \notin kept THEN None ELSE emp[p]]

Update(o, kept) ==
    /\ loop = None /\ Exists(o)
    /\ kept \subseteq {p \in People : emp[p] = o}
    /\ emp' = Listed(o, kept)
    /\ emp' # emp
    /\ trimmed' = trimmed \cup {o}
    /\ UNCHANGED <<name, roles, user, setting, request, loop, answered, purged>>

-----------------------------------------------------------------------------
(***************************************************************************)
(* DELETE: the relationship's primaryjoin says nothing about the           *)
(* organization, so counts and rows are those of all of them.              *)
(***************************************************************************)
RowsOf(t) ==
    CASE t = "users" -> {<<user[p], p>> : p \in {p \in People : user[p] # None}}
      [] t = "roles" -> {<<o, None>> : o \in roles}
      [] t = "settings" -> {<<setting[s], s>> : s \in {s \in Settings : setting[s] # None}}
      [] t = "employees" -> {<<emp[p], p>> : p \in {p \in People : emp[p] # None}}

\* The table a deletion is at, and the rows it collects of it.
First(tables) == CHOOSE i \in tables : \A j \in tables : i <= j
Collected(tables) == IF tables = {} THEN {} ELSE RowsOf(Order[First(tables)])

\* Removes o and what it owns: the cascades of the relationships.
Erase(o) ==
    /\ name' = [name EXCEPT ![o] = None]
    /\ roles' = roles \ {o}
    /\ user' = [p \in People |-> IF user[p] = o THEN None ELSE user[p]]
    /\ emp' = [p \in People |-> IF emp[p] = o THEN None ELSE emp[p]]
    /\ setting' = [s \in Settings |-> IF setting[s] = o THEN None ELSE setting[s]]
    /\ purged' = purged \cup {o}

\* Without confirm nothing is deleted while anything is related.
Delete(r, o) ==
    LET tables == {i \in DOMAIN Order : RowsOf(Order[i]) # {}} IN
    /\ At(r, "idle") /\ Exists(o)
    /\ request' = [request EXCEPT ![r] = [NoRequest EXCEPT
                      !.pc = "deleting", !.org = o, !.tables = tables,
                      !.rows = Collected(tables)]]
    /\ UNCHANGED <<database, loop, history>>

\* One row and its audit in one commit; a role takes its users with it.
DeleteRow(r) ==
    LET q == request[r]  t == Order[First(q.tables)] IN
    /\ At(r, "deleting") /\ q.rows # {}
    /\ \E row \in q.rows \cap RowsOf(t) :
         /\ request' = [request EXCEPT ![r].rows = @ \ {row}]
         /\ user' = CASE t = "users" -> [user EXCEPT ![row[2]] = None]
                      [] t = "roles" -> [p \in People |-> IF user[p] = row[1] THEN None ELSE user[p]]
                      [] OTHER -> user
         /\ roles' = IF t = "roles" THEN roles \ {row[1]} ELSE roles
         /\ setting' = IF t = "settings" THEN [setting EXCEPT ![row[2]] = None] ELSE setting
         /\ emp' = IF t = "employees" THEN [emp EXCEPT ![row[2]] = None] ELSE emp
         /\ purged' = purged \cup {row[1]}
    /\ UNCHANGED <<name, loop, answered, trimmed>>

\* A row another deletion took meanwhile: nothing to delete, or 500.
RowIsGone(r) ==
    LET q == request[r] IN
    /\ At(r, "deleting") /\ q.rows # {}
    /\ \E row \in q.rows \ RowsOf(Order[First(q.tables)]) :
         request' \in {[request EXCEPT ![r].rows = @ \ {row}], [request EXCEPT ![r] = NoRequest]}
    /\ UNCHANGED <<database, loop, history>>

NextTable(r) ==
    LET rest == request[r].tables \ {First(request[r].tables)} IN
    /\ At(r, "deleting") /\ request[r].rows = {} /\ request[r].tables # {}
    /\ request' = [request EXCEPT ![r].tables = rest, ![r].rows = Collected(rest)]
    /\ UNCHANGED <<database, loop, history>>

DeleteLast(r) ==
    /\ At(r, "deleting") /\ request[r].tables = {}
    /\ IF Exists(request[r].org) THEN Erase(request[r].org)
                                  ELSE UNCHANGED <<database, purged>>
    /\ request' = [request EXCEPT ![r] = NoRequest]
    /\ UNCHANGED <<loop, answered, trimmed>>

\* The process ends between two commits.
Crash ==
    /\ request # [r \in Requests |-> NoRequest]
    /\ request' = [r \in Requests |-> NoRequest]
    /\ loop' = None
    /\ UNCHANGED <<database, history>>

Step(r) ==
    \/ Insert(r) \/ SaveSettings(r) \/ Break(r) \/ SaveRole(r) \/ SaveAdmin(r)
    \/ SaveSecond(r) \/ SaveTheme(r) \/ Answer(r)
    \/ DeleteRow(r) \/ RowIsGone(r) \/ NextTable(r) \/ DeleteLast(r)

Next ==
    \/ \E r \in Requests, o \in Orgs, n \in OrgNames, p \in People, f \in Forms :
          SignUp(r, o, n, p, f)
    \/ \E r \in Requests, o \in Orgs : Delete(r, o)
    \/ \E o \in Orgs, kept \in SUBSET People : Update(o, kept)
    \/ \E r \in Requests : Step(r)
    \/ Crash

Spec == Init /\ [][Next]_vars

-----------------------------------------------------------------------------
(***************************************************************************)
(* Whoever was answered 201 can log in: the organization, a role, a user   *)
(* and its employee are there, whatever the other sign-ups and a crash     *)
(* did; only a deletion takes them away, an update the employee.           *)
(***************************************************************************)
AnsweredHasAdmin ==
    \A o \in answered \ purged :
        /\ Exists(o) /\ o \in roles
        /\ \E p \in People : user[p] = o /\ (o \notin trimmed => emp[p] = o)

=============================================================================
