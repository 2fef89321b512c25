--------------------------- MODULE AccountsProofs ---------------------------
(***************************************************************************)
(* Proofs about Accounts, for any number of employees, accounts and        *)
(* requests.  What holds the two tables together is not in either of them: *)
(* a request between its reads and its commit holds an employee and a user *)
(* of which, as long as both exist, no step makes strangers, and no step   *)
(* gives either of them another partner in the meantime.                   *)
(***************************************************************************)
EXTENDS Accounts, TLAPS

\* The two unique columns.
Unique ==
    /\ \A d, e \in Employees : person[d].email = person[e].email => d = e
    /\ \A u, v \in Accounts : account[u].email = account[v].email => u = v

\* The ids of rows still to be inserted are held by one request only.
Reserved ==
    \A r \in Requests : call[r].pc = "creating" =>
        /\ call[r].emp \in Staff \ Employees /\ call[r].user \in Users \ Accounts
        /\ call[r].email \in People /\ call[r].org \in Orgs /\ call[r].role \in Orgs
        /\ \A q \in Requests \ {r} : call[q].emp # call[r].emp /\ call[q].user # call[r].user

\* What the other requests hold.
Filled ==
    \A r \in Requests :
        /\ call[r].pc \in {"updating", "find", "commit"} =>
              call[r].emp \in Staff /\ call[r].org \in Orgs /\ call[r].email \in People
        /\ call[r].pc = "updating" => call[r].user \in Users
        /\ call[r].pc = "find" => call[r].user = None

\* A request about to commit which nothing has overtaken holds a pair, or
\* what is left of one; who has come in the place of the rest is lone.
Bound(r) ==
    call[r].pc = "updating" \/ (call[r].pc = "commit" /\ ~call[r].stale) =>
        /\ call[r].emp \in Employees /\ call[r].user \in Accounts =>
              Mine(call[r].emp, call[r].user)
        /\ call[r].pc = "commit" =>
              /\ \A u \in Accounts :
                    call[r].emp \in Employees /\ Mine(call[r].emp, u) => u = call[r].user
              /\ \A e \in Employees \ lone :
                    call[r].user \in Accounts /\ Mine(e, call[r].user) => e = call[r].emp

Inv ==
    /\ TypeOK /\ Unique /\ OneTenant /\ Reserved /\ Filled
    /\ archived \subseteq Employees
    /\ Paired /\ ArchivedCannotLogin
    /\ \A r \in Requests : Bound(r)

\* A step lets request q alone, ends it, or is one of a deletion.
Calm(q) ==
    \/ call'[q] = call[q]
    \/ /\ call'[q].pc \in {"idle", "closing"}
       /\ call'[q].emp \in {None, call[q].emp} /\ call'[q].user \in {None, call[q].user}

-----------------------------------------------------------------------------
(* The rows and the pairs.                                                 *)

LEMMA Rows ==
    ASSUME TypeOK
    PROVE  /\ \A e \in Staff : e \in Employees <=> person[e] \in Person
           /\ \A u \in Users : u \in Accounts <=> account[u] \in Account
BY RowAssumption DEF TypeOK, Employees, Accounts, Person, Account

\* An employee has at most one account, an account at most one employee.
LEMMA OneMate ==
    ASSUME Unique
    PROVE  /\ \A e \in Employees : \A u, v \in Accounts : Mine(e, u) /\ Mine(e, v) => u = v
           /\ \A d, e \in Employees : \A u \in Accounts : Mine(d, u) /\ Mine(e, u) => d = e
BY DEF Unique, Mine

-----------------------------------------------------------------------------
(* The requests: a step ends one of them and leaves what the others hold.  *)

LEMMA RequestsKeep ==
    ASSUME Inv,
           \A q \in Requests : Calm(q),
           \A q \in Requests : call'[q].pc = "creating" =>
               call[q].emp \notin Employees' /\ call[q].user \notin Accounts'
    PROVE  Reserved' /\ Filled'
<1>1. ASSUME NEW q \in Requests
      PROVE  \/ call'[q] = call[q]
             \/ /\ call'[q].pc \in {"idle", "closing"}
                /\ call'[q].emp \in {None, call[q].emp}
                /\ call'[q].user \in {None, call[q].user}
  BY DEF Calm
<1>2. Filled'
  BY <1>1 DEF Inv, Filled
<1>3. Reserved'
  <2> SUFFICES ASSUME NEW r \in Requests, call'[r].pc = "creating"
               PROVE  /\ call'[r].emp \in Staff \ Employees'
                      /\ call'[r].user \in Users \ Accounts'
                      /\ call'[r].email \in People /\ call'[r].org \in Orgs
                      /\ call'[r].role \in Orgs
                      /\ \A q \in Requests \ {r} :
                            call'[q].emp # call'[r].emp /\ call'[q].user # call'[r].user
    BY DEF Reserved
  <2>1. call'[r] = call[r]
    BY <1>1
  <2>2. \A q \in Requests \ {r} : call[q].emp # call[r].emp /\ call[q].user # call[r].user
    BY <2>1 DEF Inv, Reserved
  <2>3. call[r].emp # None /\ call[r].user # None
    BY <2>1, DomainAssumption DEF Inv, Reserved
  <2> QED
    BY <1>1, <2>1, <2>2, <2>3 DEF Inv, Reserved
<1> QED
  BY <1>2, <1>3

LEMMA Ended ==
    ASSUME TypeOK, NEW r \in Requests, End(r)
    PROVE  /\ \A q \in Requests : call'[q] = IF q = r THEN NoCall ELSE call[q]
           /\ call' \in [Requests -> Call]
           /\ \A q \in Requests : Calm(q)
BY DEF End, TypeOK, NoCall, Call, Calm

\* What a deletion collects are rows.
LEMMA CollectedTyped ==
    ASSUME NEW tables \in SUBSET DOMAIN Tables
    PROVE  Collected(tables) \subseteq Users \cup Orgs \cup Staff
<1>1. RowsOf("users") = Accounts /\ RowsOf("roles") = Orgs /\ RowsOf("employees") = Employees
  BY DEF RowsOf
<1>2. ASSUME tables # {}
      PROVE  First(tables) \in DOMAIN Tables
  <2>1. DOMAIN Tables = {1, 2, 3}
    BY DEF Tables
  <2>2. \E i \in tables : \A j \in tables : i <= j
    BY <1>2, <2>1
  <2> QED
    BY <2>2 DEF First
<1>3. \A i \in DOMAIN Tables : Tables[i] \in {"users", "roles", "employees"}
  BY DEF Tables
<1> QED
  BY <1>1, <1>2, <1>3 DEF Collected, Accounts, Employees

-----------------------------------------------------------------------------
(* Steps that only open a request, read for it, or end it.                 *)

\* A step of r which leaves the tables: what it holds afterwards.
LEMMA ReadsKeep ==
    ASSUME Inv, NEW r \in Requests,
           UNCHANGED <<person, account, history>>,
           call' \in [Requests -> Call],
           \A q \in Requests \ {r} : call'[q] = call[q],
           call[r].pc # "creating",
           /\ call'[r].pc \in {"updating", "find", "commit"} =>
                 call'[r].emp \in Staff /\ call'[r].org \in Orgs /\ call'[r].email \in People
           /\ call'[r].pc = "updating" => call'[r].user \in Users
           /\ call'[r].pc = "find" => call'[r].user = None,
           call'[r].pc # "creating",
           call'[r].emp = None \/ call'[r].emp = call[r].emp \/ call'[r].emp \in Employees,
           call'[r].user = None \/ call'[r].user = call[r].user \/ call'[r].user \in Accounts,
           Bound(r)'
    PROVE  Inv'
<1>0. UNCHANGED <<archived, lone, stray>>
  BY DEF history
<1>1. Employees' = Employees /\ Accounts' = Accounts
  BY DEF Employees, Accounts
<1>2. TypeOK' /\ Unique' /\ OneTenant' /\ archived' \subseteq Employees'
  BY <1>0, <1>1 DEF Inv, TypeOK, Unique, OneTenant
<1>3. Filled'
  <2> SUFFICES ASSUME NEW q \in Requests
               PROVE  /\ call'[q].pc \in {"updating", "find", "commit"} =>
                            /\ call'[q].emp \in Staff /\ call'[q].org \in Orgs
                            /\ call'[q].email \in People
                      /\ call'[q].pc = "updating" => call'[q].user \in Users
                      /\ call'[q].pc = "find" => call'[q].user = None
    BY DEF Filled
  <2> QED
    BY DEF Inv, Filled
<1>4. Reserved'
  <2> SUFFICES ASSUME NEW p \in Requests, call'[p].pc = "creating"
               PROVE  /\ call'[p].emp \in Staff \ Employees
                      /\ call'[p].user \in Users \ Accounts
                      /\ call'[p].email \in People /\ call'[p].org \in Orgs
                      /\ call'[p].role \in Orgs
                      /\ \A q \in Requests \ {p} :
                            call'[q].emp # call'[p].emp /\ call'[q].user # call'[p].user
    BY <1>1 DEF Reserved
  <2>1. p # r /\ call'[p] = call[p]
    OBVIOUS
  <2>2. /\ call[p].emp \in Staff \ Employees /\ call[p].user \in Users \ Accounts
        /\ call[p].email \in People /\ call[p].org \in Orgs /\ call[p].role \in Orgs
        /\ \A q \in Requests \ {p} : call[q].emp # call[p].emp /\ call[q].user # call[p].user
    BY <2>1 DEF Inv, Reserved
  <2>3. call'[r].emp # call[p].emp /\ call'[r].user # call[p].user
    BY <2>1, <2>2, DomainAssumption
  <2> QED
    BY <2>1, <2>2, <2>3
<1>5. Paired' /\ ArchivedCannotLogin'
  BY <1>0, <1>1 DEF Inv, Paired, ArchivedCannotLogin, Mine
<1>6. ASSUME NEW q \in Requests, q # r
      PROVE  Bound(q)'
  BY <1>0, <1>1, <1>6 DEF Inv, Bound, Mine
<1> QED
  BY <1>2, <1>3, <1>4, <1>5, <1>6 DEF Inv

\* A request may also end without a trace.
LEMMA QuietKeeps ==
    ASSUME Inv, UNCHANGED <<person, account, history>>,
           call' \in [Requests -> Call],
           \A q \in Requests : Calm(q)
    PROVE  Inv'
<1>0. UNCHANGED <<archived, lone, stray>>
  BY DEF history
<1>1. Employees' = Employees /\ Accounts' = Accounts
  BY DEF Employees, Accounts
<1>2. \A q \in Requests : call'[q].pc \notin {"idle", "closing"} => call'[q] = call[q]
  BY DEF Calm
<1>3. TypeOK' /\ Unique' /\ OneTenant' /\ archived' \subseteq Employees'
  BY <1>0, <1>1 DEF Inv, TypeOK, Unique, OneTenant
<1>4. \A q \in Requests : call'[q].pc = "creating" =>
          call[q].emp \notin Employees' /\ call[q].user \notin Accounts'
  BY <1>1, <1>2 DEF Inv, Reserved
<1>5. Reserved' /\ Filled'
  BY <1>4, RequestsKeep
<1>6. Paired' /\ ArchivedCannotLogin'
  BY <1>0, <1>1 DEF Inv, Paired, ArchivedCannotLogin, Mine
<1>7. ASSUME NEW q \in Requests
      PROVE  Bound(q)'
  BY <1>0, <1>1, <1>2 DEF Inv, Bound, Mine
<1> QED
  BY <1>3, <1>5, <1>6, <1>7 DEF Inv

-----------------------------------------------------------------------------
(* Steps that insert rows.                                                 *)

LEMMA InsertKeeps ==
    ASSUME Inv, NEW e \in Staff, NEW u \in Users, NEW m \in People,
           NEW o \in Orgs, NEW role \in Orgs,
           e \notin Employees, u \notin Accounts,
           Insert(e, u, m, o, role),
           call' \in [Requests -> Call],
           \A q \in Requests : call'[q] \in {call[q], NoCall},
           \A q \in Requests : Calm(q),
           \A q \in Requests : call'[q].pc # "idle" =>
               call[q].emp # e /\ call[q].user # u
    PROVE  Inv'
<1>1. /\ \A d \in Staff : person'[d] = IF d = e THEN [email |-> m, org |-> o] ELSE person[d]
      /\ person' \in [Staff -> Person \cup {None}]
      /\ Employees' = Employees \cup {e}
      /\ \A d \in Employees : d # e /\ person[d].email # m
  BY RowAssumption DEF Inv, TypeOK, Insert, Person, Employees, EmailFree
<1>2. archived' = archived /\ archived' \subseteq Employees' /\ stray' = stray
  BY <1>1 DEF Inv, Insert
<1>3. \A d, f \in Employees' : person'[d].email = person'[f].email => d = f
  BY <1>1 DEF Inv, Unique, Employees
<1>4. \A q \in Requests : call'[q].pc # "idle" => call'[q] = call[q]
  BY DEF NoCall
<1>5. CASE \E v \in Matching(m, o) : /\ account' = [account EXCEPT ![v].role = role]
                                     /\ lone' = lone \cup {e}
  <2>1. PICK v \in Matching(m, o) : /\ account' = [account EXCEPT ![v].role = role]
                                    /\ lone' = lone \cup {e}
    BY <1>5
  <2>2. /\ v \in Accounts /\ v \in Users /\ account[v] \in Account
        /\ account[v].email = m /\ account[v].org = o
    BY Rows DEF Inv, Matching, Accounts
  <2>3. /\ account' \in [Users -> Account \cup {None}]
        /\ Accounts' = Accounts
        /\ \A x \in Accounts :
              /\ account'[x].email = account[x].email /\ account'[x].org = account[x].org
              /\ account'[x].active = account[x].active
    BY <2>1, <2>2, RowAssumption DEF Inv, TypeOK, Account, Accounts
  <2>4. \A d \in Employees, x \in Accounts : Mine(d, x)' <=> Mine(d, x)
    BY <1>1, <2>3 DEF Mine, Employees
  <2>5. Unique'
    BY <1>3, <2>3 DEF Inv, Unique
  <2>6. TypeOK'
    BY <1>1, <1>2, <2>1, <2>3 DEF Inv, TypeOK
  <2>7. Reserved' /\ Filled'
    <3>1. \A q \in Requests : call'[q].pc = "creating" =>
             call[q].emp \notin Employees' /\ call[q].user \notin Accounts'
      BY <1>1, <1>4, <2>3 DEF Inv, Reserved
    <3> QED
      BY <3>1, RequestsKeep
  <2>8. OneTenant'
    <3> SUFFICES ASSUME NEW d \in Employees', NEW x \in Accounts,
                        person'[d].email = account'[x].email
                 PROVE  person'[d].org = account'[x].org
      BY <2>3 DEF OneTenant
    <3>1. CASE d = e
      BY <1>1, <2>2, <2>3, <3>1 DEF Inv, Unique
    <3>2. CASE d # e
      BY <1>1, <2>3, <3>2 DEF Inv, OneTenant, Employees
    <3> QED
      BY <3>1, <3>2
  <2>9. Paired' /\ ArchivedCannotLogin'
    BY <1>1, <1>2, <2>1, <2>3, <2>4 DEF Inv, Paired, ArchivedCannotLogin
  <2>10. ASSUME NEW r \in Requests
         PROVE  Bound(r)'
    <3> SUFFICES ASSUME call'[r].pc # "idle"
                 PROVE  Bound(r)'
      BY DEF Bound
    <3>1. call'[r] = call[r] /\ call[r].emp # e
      BY <1>4
    <3> QED
      BY <1>1, <2>1, <2>3, <2>4, <3>1 DEF Inv, Bound
  <2> QED
    BY <1>2, <2>5, <2>6, <2>7, <2>8, <2>9, <2>10 DEF Inv
<1>6. CASE /\ AccountFree(m)
           /\ account' = [account EXCEPT ![u] =
                             [email |-> m, org |-> o, active |-> TRUE, role |-> role]]
           /\ UNCHANGED lone
  <2>1. /\ \A x \in Users : account'[x] =
              IF x = u THEN [email |-> m, org |-> o, active |-> TRUE, role |-> role]
              ELSE account[x]
        /\ account' \in [Users -> Account \cup {None}]
        /\ Accounts' = Accounts \cup {u}
        /\ \A x \in Accounts : x # u /\ account[x].email # m
    <3> DEFINE row == [email |-> m, org |-> o, active |-> TRUE, role |-> role]
    <3>1. row \in Account
      BY DEF Account
    <3>2. row # None
      BY <3>1, RowAssumption DEF Account
    <3>3. /\ account' = [account EXCEPT ![u] = row]
          /\ account \in [Users -> Account \cup {None}]
      BY <1>6 DEF Inv, TypeOK
    <3> HIDE DEF row
    <3>4. /\ \A x \in Users : account'[x] = IF x = u THEN row ELSE account[x]
          /\ account' \in [Users -> Account \cup {None}]
      BY <3>1, <3>3
    <3>5. Accounts' = Accounts \cup {u}
      BY <3>2, <3>4 DEF Accounts
    <3>6. \A x \in Accounts : x # u /\ account[x].email # m
      BY <1>6 DEF AccountFree
    <3> QED
      BY <3>4, <3>5, <3>6 DEF row
  <2>2. Unique'
    <3>1. \A x, y \in Accounts' : account'[x].email = account'[y].email => x = y
      BY <2>1 DEF Inv, Unique, Accounts
    <3> QED
      BY <1>3, <3>1 DEF Unique
  <2>3. TypeOK'
    BY <1>1, <1>2, <1>6, <2>1 DEF Inv, TypeOK
  <2>4. Reserved' /\ Filled'
    <3>1. \A q \in Requests : call'[q].pc = "creating" =>
             call[q].emp \notin Employees' /\ call[q].user \notin Accounts'
      BY <1>1, <1>4, <2>1 DEF Inv, Reserved
    <3> QED
      BY <3>1, RequestsKeep
  <2>5. /\ \A d \in Employees, x \in Accounts : Mine(d, x)' <=> Mine(d, x)
        /\ Mine(e, u)'
        /\ \A d \in Employees : person'[d].email # account'[u].email
        /\ \A x \in Accounts : person'[e].email # account'[x].email
    BY <1>1, <2>1 DEF Mine, Employees, Accounts
  <2>6. OneTenant'
    <3> SUFFICES ASSUME NEW d \in Employees', NEW x \in Accounts',
                        person'[d].email = account'[x].email
                 PROVE  person'[d].org = account'[x].org
      BY DEF OneTenant
    <3>1. CASE d = e /\ x = u
      BY <2>5, <3>1 DEF Mine
    <3>2. CASE d # e /\ x # u
      BY <1>1, <2>1, <3>2 DEF Inv, OneTenant, Employees, Accounts
    <3> QED
      BY <1>1, <2>1, <2>5, <3>1, <3>2
  <2>7. Paired'
    BY <1>1, <1>2, <1>6, <2>1, <2>5 DEF Inv, Paired
  <2>8. ArchivedCannotLogin'
    <3> SUFFICES ASSUME NEW d \in archived' \ lone', NEW x \in Accounts', Mine(d, x)'
                 PROVE  account'[x].active = FALSE
      BY DEF ArchivedCannotLogin
    <3>1. d \in archived \ lone /\ d \in Employees
      BY <1>2, <1>6 DEF Inv
    <3>2. x \in Accounts /\ x \in Users /\ x # u
      BY <2>1, <2>5, <3>1 DEF Accounts, Mine
    <3>3. account[x].active = FALSE
      BY <2>5, <3>1, <3>2 DEF Inv, ArchivedCannotLogin
    <3> QED
      BY <2>1, <3>2, <3>3
  <2>9. ASSUME NEW r \in Requests
        PROVE  Bound(r)'
    <3> SUFFICES ASSUME call'[r].pc # "idle"
                 PROVE  Bound(r)'
      BY DEF Bound
    <3>1. call'[r] = call[r] /\ call[r].emp # e /\ call[r].user # u
      BY <1>4
    <3>2. \A d \in Employees : ~Mine(d, u)'
      BY <2>5 DEF Mine
    <3>3. \A x \in Accounts : ~Mine(e, x)'
      BY <2>5 DEF Mine
    <3> QED
      BY <1>1, <1>6, <2>1, <2>5, <3>1, <3>2, <3>3 DEF Inv, Bound
  <2> QED
    BY <1>2, <2>2, <2>3, <2>4, <2>6, <2>7, <2>8, <2>9 DEF Inv
<1> QED
  BY <1>5, <1>6 DEF Insert

LEMMA FinishCreateKeeps ==
    ASSUME Inv, NEW r \in Requests, FinishCreate(r)
    PROVE  Inv'
<1> DEFINE q == call[r]
<1>1. /\ q.pc = "creating" /\ End(r)
      /\ \/ Insert(q.emp, q.user, q.email, q.org, q.role)
         \/ UNCHANGED <<person, account, history>>
  BY DEF FinishCreate
<1>2. /\ \A p \in Requests : call'[p] = IF p = r THEN NoCall ELSE call[p]
      /\ call' \in [Requests -> Call]
      /\ \A p \in Requests : Calm(p)
  BY <1>1, Ended DEF Inv
<1>3. /\ q.emp \in Staff /\ q.emp \notin Employees
      /\ q.user \in Users /\ q.user \notin Accounts
      /\ q.email \in People /\ q.org \in Orgs /\ q.role \in Orgs
      /\ \A p \in Requests \ {r} : call[p].emp # q.emp /\ call[p].user # q.user
  BY <1>1 DEF Inv, Reserved
<1>4. CASE Insert(q.emp, q.user, q.email, q.org, q.role)
  <2>1. \A p \in Requests : call'[p] \in {call[p], NoCall}
    BY <1>2
  <2>2. \A p \in Requests : call'[p].pc # "idle" => call[p].emp # q.emp /\ call[p].user # q.user
    BY <1>2, <1>3 DEF NoCall
  <2> QED
    BY <1>1, <1>2, <1>3, <1>4, <2>1, <2>2, InsertKeeps
<1>5. CASE UNCHANGED <<person, account, history>>
  BY <1>1, <1>2, <1>5, QuietKeeps
<1> QED
  BY <1>1, <1>4, <1>5

LEMMA CreateEmployeeKeeps ==
    ASSUME Inv, NEW e \in Staff, NEW u \in Users, NEW m \in People, NEW o \in Orgs,
           CreateEmployee(e, u, m, o)
    PROVE  Inv'
<1>1. /\ e \notin Employees /\ u \notin Accounts
      /\ \A q \in Requests : call[q].emp # e /\ call[q].user # u
      /\ Insert(e, u, m, o, o) /\ UNCHANGED call
      /\ \A q \in Requests : Calm(q)
  BY DEF CreateEmployee, New, Calm
<1>2. call' \in [Requests -> Call]
  BY <1>1 DEF Inv, TypeOK
<1> QED
  BY <1>1, <1>2, InsertKeeps

-----------------------------------------------------------------------------
(* Steps that begin a request.                                             *)

LEMMA CreateUserKeeps ==
    ASSUME Inv, NEW r \in Requests, NEW e \in Staff, NEW u \in Users, NEW m \in People,
           NEW o \in Orgs, NEW role \in Orgs,
           CreateUser(r, e, u, m, o, role)
    PROVE  Inv'
<1> DEFINE new == [NoCall EXCEPT !.pc = "creating", !.emp = e, !.user = u,
                                 !.email = m, !.org = o, !.role = role]
<1>1. /\ new \in Call /\ new.pc = "creating" /\ new.emp = e /\ new.user = u
      /\ new.email = m /\ new.org = o /\ new.role = role
  BY DEF NoCall, Call
<1>2. /\ call[r].pc = "idle" /\ New(e, u)
      /\ call' = [call EXCEPT ![r] = new]
      /\ UNCHANGED <<person, account, history>>
  BY DEF CreateUser, Idle
<1> HIDE DEF new
<1>3. /\ \A q \in Requests : call'[q] = IF q = r THEN new ELSE call[q]
      /\ call' \in [Requests -> Call]
  BY <1>1, <1>2 DEF Inv, TypeOK
<1>4. Employees' = Employees /\ Accounts' = Accounts
  BY <1>2 DEF Employees, Accounts
<1>5. TypeOK' /\ Unique' /\ OneTenant' /\ archived' \subseteq Employees'
  BY <1>2, <1>3, <1>4 DEF Inv, TypeOK, Unique, OneTenant, history
<1>6. Filled'
  BY <1>1, <1>3 DEF Inv, Filled
<1>7. Reserved'
  <2>1. \A q \in Requests : call[q].emp # e /\ call[q].user # u
    BY <1>2 DEF New
  <2>2. e \in Staff \ Employees /\ u \in Users \ Accounts
    BY <1>2 DEF New
  <2> QED
    BY <1>1, <1>3, <1>4, <2>1, <2>2 DEF Inv, Reserved
<1>8. Paired' /\ ArchivedCannotLogin'
  BY <1>2, <1>4 DEF Inv, Paired, ArchivedCannotLogin, Mine, history
<1>9. ASSUME NEW q \in Requests
      PROVE  Bound(q)'
  BY <1>1, <1>2, <1>3, <1>4 DEF Inv, Bound, Mine, history
<1> QED
  BY <1>5, <1>6, <1>7, <1>8, <1>9 DEF Inv

LEMMA UpdateUserKeeps ==
    ASSUME Inv, NEW r \in Requests, NEW u \in Users, NEW m \in People \cup {None},
           NEW role \in Orgs \cup {None},
           UpdateUser(r, u, m, role)
    PROVE  Inv'
<1>1. PICK e \in Employees :
         /\ person[e].email = account[u].email
         /\ call' = [call EXCEPT ![r] = [NoCall EXCEPT !.pc = "updating", !.emp = e,
                        !.user = u, !.email = account[u].email, !.org = account[u].org,
                        !.new = m, !.role = role]]
  BY DEF UpdateUser
<1> DEFINE new == [NoCall EXCEPT !.pc = "updating", !.emp = e,
                        !.user = u, !.email = account[u].email, !.org = account[u].org,
                        !.new = m, !.role = role]
<1>2. /\ u \in Accounts /\ e \in Staff
      /\ account[u].email \in People /\ account[u].org \in Orgs
      /\ person[e].org \in Orgs
  BY Rows DEF UpdateUser, Inv, Account, Person, Employees
<1>3. /\ new \in Call /\ new.pc = "updating" /\ new.emp = e /\ new.user = u
      /\ new.email = account[u].email /\ new.org = account[u].org
  BY <1>2 DEF NoCall, Call
<1>4. /\ call[r].pc = "idle"
      /\ call' = [call EXCEPT ![r] = new]
      /\ UNCHANGED <<person, account, history>>
  BY <1>1 DEF UpdateUser, Idle
<1> HIDE DEF new
<1>5. /\ \A q \in Requests : call'[q] = IF q = r THEN new ELSE call[q]
      /\ call' \in [Requests -> Call]
  BY <1>3, <1>4 DEF Inv, TypeOK
<1>6. Mine(e, u)
  BY <1>1, <1>2 DEF Inv, OneTenant, Mine
<1>7. Bound(r)'
  BY <1>3, <1>4, <1>5, <1>6 DEF Bound, Mine
<1> QED
  BY <1>2, <1>3, <1>4, <1>5, <1>7, ReadsKeep

LEMMA OpenKeeps ==
    ASSUME Inv, NEW r \in Requests, NEW e \in Staff, NEW k \in Kinds, Open(r, e, k)
    PROVE  Inv'
<1> DEFINE new == [NoCall EXCEPT !.pc = "find", !.kind = k, !.emp = e,
                                 !.email = person[e].email, !.org = person[e].org]
<1>1. /\ e \in Employees
      /\ person[e].email \in People /\ person[e].org \in Orgs
  BY Rows DEF Open, Inv, Person
<1>2. /\ new \in Call /\ new.pc = "find" /\ new.emp = e /\ new.user = None
      /\ new.email = person[e].email /\ new.org = person[e].org
  BY <1>1 DEF NoCall, Call
<1>3. /\ call[r].pc = "idle"
      /\ call' = [call EXCEPT ![r] = new]
      /\ UNCHANGED <<person, account, history>>
  BY DEF Open, Idle
<1> HIDE DEF new
<1>4. /\ \A q \in Requests : call'[q] = IF q = r THEN new ELSE call[q]
      /\ call' \in [Requests -> Call]
  BY <1>2, <1>3 DEF Inv, TypeOK
<1>5. Bound(r)'
  BY <1>2, <1>4 DEF Bound
<1> QED
  BY <1>1, <1>2, <1>3, <1>4, <1>5, ReadsKeep

\* The user found for an employee that has not changed is the employee's.
LEMMA FindUserKeeps ==
    ASSUME Inv, NEW r \in Requests, FindUser(r)
    PROVE  Inv'
<1> DEFINE q == call[r]
           found == Matching(q.email, q.org)
           fresh == q.emp \in Employees /\ person[q.emp].email = q.email
                                        /\ person[q.emp].org = q.org
<1>1. /\ q.pc = "find" /\ UNCHANGED <<person, account, history>>
      /\ \/ \E u \in found : call' = [call EXCEPT ![r].pc = "commit", ![r].user = u,
                                                  ![r].stale = ~fresh]
         \/ found = {} /\ call' = [call EXCEPT ![r].pc = "commit", ![r].stale = ~fresh]
         \/ found = {} /\ End(r)
  BY DEF FindUser
<1>2. q.emp \in Staff /\ q.org \in Orgs /\ q.email \in People /\ q \in Call /\ q.user = None
  BY <1>1 DEF Inv, Filled, TypeOK
<1>3. /\ Employees' = Employees /\ Accounts' = Accounts /\ lone' = lone
      /\ \A e \in Employees, u \in Accounts : Mine(e, u)' <=> Mine(e, u)
  BY <1>1 DEF Employees, Accounts, Mine, history
<1>4. \A u \in found : u \in Accounts /\ u \in Users /\ (fresh => Mine(q.emp, u))
  BY DEF Matching, Accounts, Mine
<1>5. /\ fresh => q.emp \in Employees /\ \A u \in Accounts : Mine(q.emp, u) => u \in found
      /\ fresh \in BOOLEAN
  BY DEF Matching, Mine
<1> HIDE DEF found, fresh
<1>6. CASE \E u \in found : call' = [call EXCEPT ![r].pc = "commit", ![r].user = u,
                                                 ![r].stale = ~fresh]
  <2>1. PICK u \in found : call' = [call EXCEPT ![r].pc = "commit", ![r].user = u,
                                                ![r].stale = ~fresh]
    BY <1>6
  <2> DEFINE new == [q EXCEPT !.pc = "commit", !.user = u, !.stale = ~fresh]
  <2>2. call' = [call EXCEPT ![r] = new]
    BY <2>1 DEF Inv, TypeOK
  <2>3. /\ new \in Call /\ new.pc = "commit" /\ new.user = u /\ new.emp = q.emp
        /\ new.org = q.org /\ new.email = q.email /\ new.stale = ~fresh
    <3> DEFINE st == ~fresh
    <3>1. u \in Users
      BY <1>4, <2>1
    <3>2. st \in BOOLEAN
      OBVIOUS
    <3> HIDE DEF st
    <3>3. [q EXCEPT !.pc = "commit", !.user = u, !.stale = st] \in Call
      BY <1>2, <3>1, <3>2 DEF Call
    <3> QED
      BY <1>2, <3>1, <3>2, <3>3 DEF Call, st
  <2> HIDE DEF new
  <2>4. /\ \A p \in Requests \ {r} : call'[p] = call[p]
        /\ call'[r] = new
        /\ call' \in [Requests -> Call]
    BY <2>2, <2>3 DEF Inv, TypeOK
  <2>5. Bound(r)'
    <3>1. CASE fresh
      <4>1. u \in Accounts /\ q.emp \in Employees /\ Mine(q.emp, u)
        BY <1>4, <1>5, <3>1
      <4>2. /\ \A v \in Accounts : Mine(q.emp, v) => v = u
            /\ \A e \in Employees : Mine(e, u) => e = q.emp
        BY <4>1, OneMate DEF Inv
      <4> QED
        BY <1>3, <2>3, <2>4, <4>1, <4>2 DEF Bound
    <3>2. CASE ~fresh
      BY <2>3, <2>4, <3>2 DEF Bound
    <3> QED
      BY <3>1, <3>2
  <2>6. u \in Accounts /\ u \in Users
    BY <1>4
  <2> QED
    BY <1>1, <1>2, <2>3, <2>4, <2>5, <2>6, ReadsKeep
<1>7. CASE found = {} /\ call' = [call EXCEPT ![r].pc = "commit", ![r].stale = ~fresh]
  <2> DEFINE new == [q EXCEPT !.pc = "commit", !.stale = ~fresh]
  <2>1. call' = [call EXCEPT ![r] = new]
    BY <1>7 DEF Inv, TypeOK
  <2>2. /\ new \in Call /\ new.pc = "commit" /\ new.user = None /\ new.emp = q.emp
        /\ new.org = q.org /\ new.email = q.email /\ new.stale = ~fresh
    BY <1>2, <1>5 DEF Call
  <2> HIDE DEF new
  <2>3. /\ \A p \in Requests \ {r} : call'[p] = call[p]
        /\ call'[r] = new
        /\ call' \in [Requests -> Call]
    BY <2>1, <2>2 DEF Inv, TypeOK
  <2>4. None \notin Accounts
    BY DomainAssumption DEF Accounts
  <2>5. Bound(r)'
    <3>1. CASE fresh
      <4>1. q.emp \in Employees /\ \A v \in Accounts : ~Mine(q.emp, v)
        BY <1>5, <1>7, <3>1
      <4> QED
        BY <1>3, <2>2, <2>3, <2>4, <4>1 DEF Bound
    <3>2. CASE ~fresh
      BY <2>2, <2>3, <3>2 DEF Bound
    <3> QED
      BY <3>1, <3>2
  <2> QED
    BY <1>1, <1>2, <2>2, <2>3, <2>5, ReadsKeep
<1>8. CASE found = {} /\ End(r)
  BY <1>1, <1>8, Ended, QuietKeeps DEF Inv
<1> QED
  BY <1>1, <1>6, <1>7, <1>8

\* A deletion of an organization collects rows, or is given up.
LEMMA CloseOrganizationKeeps ==
    ASSUME Inv, NEW r \in Requests, NEW o \in Orgs, CloseOrganization(r, o)
    PROVE  Inv'
<1> DEFINE tables == {i \in DOMAIN Tables : RowsOf(Tables[i]) # {}}
           new == [NoCall EXCEPT !.pc = "closing", !.org = o,
                                 !.tables = tables, !.rows = Collected(tables)]
<1>1. tables \subseteq DOMAIN Tables
  OBVIOUS
<1>2. Collected(tables) \subseteq Users \cup Orgs \cup Staff
  BY <1>1, CollectedTyped
<1> HIDE DEF tables
<1>3. new \in Call /\ new.pc = "closing" /\ new.emp = None /\ new.user = None
  BY <1>1, <1>2 DEF NoCall, Call
<1>4. call' = [call EXCEPT ![r] = new] /\ UNCHANGED <<person, account, history>>
  BY DEF CloseOrganization, tables
<1> HIDE DEF new
<1>5. call' \in [Requests -> Call] /\ \A q \in Requests : Calm(q)
  BY <1>3, <1>4 DEF Inv, TypeOK, Calm
<1> QED
  BY <1>4, <1>5, QuietKeeps

LEMMA NextTableKeeps ==
    ASSUME Inv, NEW r \in Requests, NextTable(r)
    PROVE  Inv'
<1> DEFINE q == call[r]
           rest == q.tables \ {First(q.tables)}
           new == [q EXCEPT !.tables = rest, !.rows = Collected(rest)]
<1>1. q \in Call /\ q.pc = "closing"
  BY DEF NextTable, Inv, TypeOK
<1>2. rest \subseteq DOMAIN Tables
  BY <1>1 DEF Call
<1>3. Collected(rest) \subseteq Users \cup Orgs \cup Staff
  BY <1>2, CollectedTyped
<1>4. call' = [call EXCEPT ![r] = new] /\ UNCHANGED <<person, account, history>>
  BY DEF NextTable, Inv, TypeOK
<1> HIDE DEF rest
<1>5. new \in Call /\ new.pc = "closing" /\ new.emp = q.emp /\ new.user = q.user
  BY <1>1, <1>2, <1>3 DEF Call
<1> HIDE DEF new
<1>6. call' \in [Requests -> Call] /\ \A p \in Requests : Calm(p)
  BY <1>4, <1>5 DEF Inv, TypeOK, Calm
<1> QED
  BY <1>4, <1>6, QuietKeeps

LEMMA AbandonClosingKeeps ==
    ASSUME Inv, NEW r \in Requests, AbandonClosing(r)
    PROVE  Inv'
BY Ended, QuietKeeps DEF AbandonClosing, Inv

-----------------------------------------------------------------------------
(* Steps that change rows: who is whose stays as it was.                   *)

LEMMA RowsKeep ==
    ASSUME Inv, TypeOK', Unique', OneTenant', archived' \subseteq Employees',
           Employees' \subseteq Employees, Accounts' \subseteq Accounts,
           \A q \in Requests : Calm(q),
           \A e \in Employees', u \in Accounts' : Mine(e, u)' <=> Mine(e, u),
           Employees' \ lone' \subseteq Employees \ lone,
           Paired', ArchivedCannotLogin'
    PROVE  Inv'
<1>1. \A q \in Requests : call'[q].pc \notin {"idle", "closing"} => call'[q] = call[q]
  BY DEF Calm
<1>2. \A q \in Requests : call'[q].pc = "creating" =>
          call[q].emp \notin Employees' /\ call[q].user \notin Accounts'
  BY <1>1 DEF Inv, Reserved
<1>3. Reserved' /\ Filled'
  BY <1>2, RequestsKeep
<1>4. ASSUME NEW q \in Requests
      PROVE  Bound(q)'
  <2> SUFFICES ASSUME call'[q].pc \in {"updating", "commit"}
               PROVE  Bound(q)'
    BY DEF Bound
  <2>1. call'[q] = call[q]
    BY <1>1
  <2> QED
    BY <2>1 DEF Inv, Bound
<1> QED
  BY <1>3, <1>4 DEF Inv

\* Emails and organizations change, the partners with each other.
LEMMA RewrittenKeep ==
    ASSUME Inv, TypeOK', Unique', OneTenant',
           Employees' = Employees, Accounts' = Accounts,
           \A q \in Requests : Calm(q),
           \A e \in Employees, u \in Accounts : Mine(e, u)' <=> Mine(e, u),
           \A u \in Accounts : account'[u].active = account[u].active,
           UNCHANGED <<archived, lone, stray>>
    PROVE  Inv'
<1>1. Paired' /\ ArchivedCannotLogin' /\ archived' \subseteq Employees'
  BY DEF Inv, Paired, ArchivedCannotLogin
<1> QED
  BY <1>1, RowsKeep

\* The user found under the old email follows its employee.
LEMMA PatchStaffKeeps ==
    ASSUME Inv, NEW e \in Staff, NEW m \in People, NEW o \in Orgs, PatchStaff(e, m, o)
    PROVE  Inv'
<1> DEFINE mates == Matching(person[e].email, person[e].org)
<1>1. /\ e \in Employees
      /\ \A x \in Employees \ {e} : person[x].email # m
      /\ \A u \in Accounts \ mates : account[u].email # m
      /\ person' = [person EXCEPT ![e] = [email |-> m, org |-> o]]
      /\ account' = [u \in Users |-> IF u \in mates
                        THEN [account[u] EXCEPT !.email = m, !.org = o] ELSE account[u]]
      /\ UNCHANGED <<call, archived, lone, stray>>
  BY DEF PatchStaff, Synced, history
<1>2. /\ mates \subseteq Accounts
      /\ \A u \in Accounts : u \in mates <=> Mine(e, u)
      /\ \A u, v \in mates : u = v
  BY DEF Matching, Mine, Inv, Unique
<1> HIDE DEF mates
<1>3. /\ \A d \in Staff : person'[d] = IF d = e THEN [email |-> m, org |-> o] ELSE person[d]
      /\ person' \in [Staff -> Person \cup {None}]
      /\ Employees' = Employees
  <2> DEFINE row == [email |-> m, org |-> o]
  <2>1. row \in Person /\ row # None /\ person' = [person EXCEPT ![e] = row]
    <3>1. row \in Person
      BY DEF Person
    <3>2. row # None
      BY <3>1, RowAssumption DEF Person
    <3> QED
      BY <1>1, <3>1, <3>2
  <2>2. person \in [Staff -> Person \cup {None}]
    BY DEF Inv, TypeOK
  <2> HIDE DEF row
  <2>3. /\ \A d \in Staff : person'[d] = IF d = e THEN row ELSE person[d]
        /\ person' \in [Staff -> Person \cup {None}]
    BY <2>1, <2>2
  <2>4. Employees' = Employees
    BY <1>1, <2>1, <2>3 DEF Employees
  <2> QED
    BY <2>3, <2>4 DEF row
<1>4. /\ account' \in [Users -> Account \cup {None}]
      /\ Accounts' = Accounts
      /\ \A u \in Accounts :
            /\ account'[u].active = account[u].active
            /\ IF u \in mates THEN account'[u].email = m /\ account'[u].org = o
               ELSE account'[u] = account[u]
  <2>1. ASSUME NEW u \in mates
        PROVE  /\ account'[u] \in Account
               /\ account'[u].active = account[u].active
               /\ account'[u].email = m /\ account'[u].org = o
    <3>1. u \in Users /\ account[u] \in Account
      BY <1>2, Rows DEF Inv, Accounts
    <3>2. account'[u] = [account[u] EXCEPT !.email = m, !.org = o]
      BY <1>1, <3>1
    <3> QED
      BY <3>1, <3>2 DEF Account
  <2>2. \A u \in Users : u \notin mates => account'[u] = account[u]
    BY <1>1
  <2>3. /\ account \in [Users -> Account \cup {None}] /\ None \notin Account
        /\ mates \subseteq Users
    BY <1>2, RowAssumption DEF Inv, TypeOK, Account, Accounts
  <2>4. account' \in [Users -> Account \cup {None}]
    BY <1>1, <2>1, <2>2, <2>3
  <2>5. Accounts' = Accounts
    BY <1>2, <2>1, <2>2, <2>3 DEF Accounts
  <2> QED
    BY <2>1, <2>2, <2>4, <2>5 DEF Accounts
<1>5. TypeOK'
  BY <1>1, <1>3, <1>4 DEF Inv, TypeOK
<1>6. Unique'
  <2>1. \A d, f \in Employees' : person'[d].email = person'[f].email => d = f
    BY <1>1, <1>3 DEF Inv, Unique, Employees
  <2>2. \A u, v \in Accounts' : account'[u].email = account'[v].email => u = v
    <3> SUFFICES ASSUME NEW u \in Accounts, NEW v \in Accounts,
                        account'[u].email = account'[v].email
                 PROVE  u = v
      BY <1>4
    <3>1. CASE u \in mates /\ v \in mates
      BY <1>2, <3>1
    <3>2. CASE u \notin mates /\ v \notin mates
      BY <1>4, <3>2 DEF Inv, Unique
    <3>3. CASE u \in mates /\ v \notin mates
      BY <1>1, <1>4, <3>3
    <3>4. CASE u \notin mates /\ v \in mates
      BY <1>1, <1>4, <3>4
    <3> QED
      BY <3>1, <3>2, <3>3, <3>4
  <2> QED
    BY <2>1, <2>2 DEF Unique
<1>7. \A d \in Employees, u \in Accounts : Mine(d, u)' <=> Mine(d, u)
  <2> SUFFICES ASSUME NEW d \in Employees, NEW u \in Accounts
               PROVE  Mine(d, u)' <=> Mine(d, u)
    OBVIOUS
  <2>1. d \in Staff
    BY DEF Employees
  <2>2. CASE d = e /\ u \in mates
    BY <1>2, <1>3, <1>4, <2>1, <2>2 DEF Mine
  <2>3. CASE d = e /\ u \notin mates
    BY <1>1, <1>2, <1>3, <1>4, <2>1, <2>3 DEF Mine
  <2>4. CASE d # e /\ u \in mates
    <3>1. ~Mine(d, u)
      BY <1>1, <1>2, <2>4, OneMate DEF Inv
    <3>2. person'[d].email # m /\ account'[u].email = m
      BY <1>1, <1>3, <1>4, <2>1, <2>4
    <3> QED
      BY <3>1, <3>2 DEF Mine
  <2>5. CASE d # e /\ u \notin mates
    BY <1>3, <1>4, <2>1, <2>5 DEF Mine
  <2> QED
    BY <2>2, <2>3, <2>4, <2>5
<1>8. OneTenant'
  <2> SUFFICES ASSUME NEW d \in Employees, NEW u \in Accounts,
                      person'[d].email = account'[u].email
               PROVE  person'[d].org = account'[u].org
    BY <1>3, <1>4 DEF OneTenant
  <2>1. d \in Staff
    BY DEF Employees
  <2>2. CASE d = e /\ u \in mates
    BY <1>3, <1>4, <2>1, <2>2
  <2>3. CASE d = e /\ u \notin mates
    BY <1>1, <1>3, <1>4, <2>1, <2>3
  <2>4. CASE d # e /\ u \in mates
    BY <1>1, <1>3, <1>4, <2>1, <2>4
  <2>5. CASE d # e /\ u \notin mates
    BY <1>3, <1>4, <2>1, <2>5 DEF Inv, OneTenant
  <2> QED
    BY <2>2, <2>3, <2>4, <2>5
<1>9. \A q \in Requests : Calm(q)
  BY <1>1 DEF Calm
<1> QED
  BY <1>1, <1>3, <1>4, <1>5, <1>6, <1>7, <1>8, <1>9, RewrittenKeep

\* A role is assigned, to one account or to none.
LEMMA RoleKeeps ==
    ASSUME Inv, NEW u \in Accounts, NEW o \in Orgs,
           account' = [account EXCEPT ![u].role = o],
           UNCHANGED <<person, history>>,
           call' \in [Requests -> Call],
           \A q \in Requests : Calm(q)
    PROVE  Inv'
<1>0. UNCHANGED <<archived, lone, stray>>
  BY DEF history
<1>1. u \in Users /\ account[u] \in Account
  BY Rows DEF Inv, Accounts
<1>2. /\ account' \in [Users -> Account \cup {None}]
      /\ Accounts' = Accounts /\ Employees' = Employees
      /\ \A v \in Accounts : /\ account'[v].email = account[v].email
                             /\ account'[v].org = account[v].org
                             /\ account'[v].active = account[v].active
  BY <1>1, RowAssumption DEF Inv, TypeOK, Account, Accounts, Employees
<1>3. TypeOK' /\ Unique' /\ OneTenant'
  BY <1>0, <1>2 DEF Inv, TypeOK, Unique, OneTenant
<1>4. \A d \in Employees, v \in Accounts : Mine(d, v)' <=> Mine(d, v)
  BY <1>2 DEF Mine
<1> QED
  BY <1>0, <1>2, <1>3, <1>4, RewrittenKeep

LEMMA ReassignKeeps ==
    ASSUME Inv, NEW r \in Requests, Reassign(r)
    PROVE  Inv'
<1>1. /\ \A q \in Requests : Calm(q)
      /\ call' \in [Requests -> Call]
  BY Ended DEF Reassign, Inv
<1>2. call[r].org \in Orgs
  BY DEF Reassign, Inv, Filled
<1>3. CASE call[r].user \in Accounts
  BY <1>1, <1>2, <1>3, RoleKeeps DEF Reassign
<1>4. CASE call[r].user \notin Accounts
  BY <1>1, <1>4, QuietKeeps DEF Reassign
<1> QED
  BY <1>3, <1>4

\* The two rows an update holds get the new email together.
LEMMA FinishUpdateKeeps ==
    ASSUME Inv, NEW r \in Requests, FinishUpdate(r)
    PROVE  Inv'
<1> DEFINE q == call[r]
           u == q.user
           renamed == q.new # None
<1>1. /\ \A p \in Requests : Calm(p)
      /\ call' \in [Requests -> Call]
      /\ UNCHANGED history /\ UNCHANGED <<archived, lone, stray>>
      /\ q.pc = "updating"
  BY Ended DEF FinishUpdate, Inv, history
<1>2. CASE UNCHANGED <<person, account>>
  BY <1>1, <1>2, QuietKeeps
<1>3. CASE /\ u \in Accounts
           /\ renamed =>
               /\ q.emp \in Employees
               /\ \A e \in Employees \ {q.emp} : person[e].email # q.new
               /\ \A v \in Accounts \ {u} : account[v].email # q.new
           /\ person' = IF ~renamed THEN person ELSE [person EXCEPT ![q.emp].email = q.new]
           /\ account' = [account EXCEPT ![u].email = IF ~renamed THEN @ ELSE q.new,
                                         ![u].role = IF q.role = None THEN @ ELSE q.role]
  <2>1. /\ q \in Call /\ (renamed => q.new \in People)
        /\ (q.role # None => q.role \in Orgs)
    BY DEF Inv, TypeOK, Call
  <2>2. /\ \A e \in Staff : e # q.emp => person'[e] = person[e]
        /\ ~renamed => person' = person
        /\ renamed => /\ q.emp \in Staff
                      /\ person'[q.emp].email = q.new
                      /\ person'[q.emp].org = person[q.emp].org
                      /\ person'[q.emp] \in Person
        /\ person' \in [Staff -> Person \cup {None}]
        /\ Employees' = Employees
    <3>1. person \in [Staff -> Person \cup {None}] /\ None \notin Person
      BY RowAssumption DEF Inv, TypeOK, Person
    <3>2. CASE ~renamed
      BY <1>3, <3>1, <3>2 DEF Employees
    <3>3. CASE renamed
      <4>1. q.emp \in Staff /\ person[q.emp] \in Person
        BY <1>3, <3>3, Rows DEF Inv, Employees
      <4>2. /\ \A e \in Staff : e # q.emp => person'[e] = person[e]
            /\ person' \in [Staff -> Person \cup {None}]
            /\ person'[q.emp] = [person[q.emp] EXCEPT !.email = q.new]
        BY <1>3, <2>1, <3>1, <3>3, <4>1 DEF Person
      <4>3. person'[q.emp] \in Person /\ person'[q.emp].email = q.new
            /\ person'[q.emp].org = person[q.emp].org
        BY <2>1, <3>3, <4>1, <4>2 DEF Person
      <4>4. Employees' = Employees
        BY <1>3, <3>1, <3>3, <4>1, <4>2, <4>3 DEF Employees
      <4> QED
        BY <3>3, <4>1, <4>2, <4>3, <4>4
    <3> QED
      BY <3>2, <3>3
  <2>3. /\ \A v \in Users : v # u => account'[v] = account[v]
        /\ account'[u].email = IF renamed THEN q.new ELSE account[u].email
        /\ account'[u].org = account[u].org
        /\ account'[u].active = account[u].active
        /\ account' \in [Users -> Account \cup {None}]
        /\ Accounts' = Accounts
    <3> DEFINE m == IF ~renamed THEN account[u].email ELSE q.new
               o == IF q.role = None THEN account[u].role ELSE q.role
    <3>1. u \in Users /\ account[u] \in Account
      BY <1>3, Rows DEF Inv, Accounts
    <3>2. m \in People /\ o \in Orgs
      BY <2>1, <3>1 DEF Account
    <3>3. account \in [Users -> Account \cup {None}] /\ None \notin Account
      BY RowAssumption DEF Inv, TypeOK, Account
    <3>4. account' = [account EXCEPT ![u] = [account[u] EXCEPT !.email = m, !.role = o]]
      BY <1>3, <3>1, <3>3 DEF Account
    <3> HIDE DEF m, o
    <3> DEFINE row == [account[u] EXCEPT !.email = m, !.role = o]
    <3>5. /\ row \in Account /\ row.email = m /\ row.org = account[u].org
          /\ row.active = account[u].active
      BY <3>1, <3>2 DEF Account
    <3> HIDE DEF row
    <3>6. \A v \in Users : account'[v] = IF v = u THEN row ELSE account[v]
      BY <3>3, <3>4 DEF row
    <3>7. account' \in [Users -> Account \cup {None}]
      BY <3>3, <3>4, <3>5 DEF row
    <3>8. Accounts' = Accounts
      BY <1>3, <3>3, <3>5, <3>6 DEF Accounts
    <3> QED
      BY <3>1, <3>5, <3>6, <3>7, <3>8 DEF m
  <2>4. TypeOK'
    BY <1>1, <2>2, <2>3 DEF Inv, TypeOK
  <2>5. Unique'
    <3>1. \A d, e \in Employees' : person'[d].email = person'[e].email => d = e
      BY <1>3, <2>2 DEF Inv, Unique, Employees
    <3>2. \A v, w \in Accounts' : account'[v].email = account'[w].email => v = w
      <4> SUFFICES ASSUME NEW v \in Accounts, NEW w \in Accounts,
                          account'[v].email = account'[w].email
                   PROVE  v = w
        BY <2>3
      <4>1. v \in Users /\ w \in Users
        BY DEF Accounts
      <4>2. CASE v # u /\ w # u
        BY <2>3, <4>1, <4>2 DEF Inv, Unique
      <4>3. CASE v = u /\ w # u
        <5>1. account'[w].email = account[w].email
          BY <2>3, <4>1, <4>3
        <5>2. CASE renamed
          BY <1>3, <2>3, <4>3, <5>1, <5>2
        <5>3. CASE ~renamed
          BY <2>3, <4>3, <5>1, <5>3 DEF Inv, Unique
        <5> QED
          BY <5>2, <5>3
      <4>4. CASE v # u /\ w = u
        <5>1. account'[v].email = account[v].email
          BY <2>3, <4>1, <4>4
        <5>2. CASE renamed
          BY <1>3, <2>3, <4>4, <5>1, <5>2
        <5>3. CASE ~renamed
          BY <2>3, <4>4, <5>1, <5>3 DEF Inv, Unique
        <5> QED
          BY <5>2, <5>3
      <4> QED
        BY <4>2, <4>3, <4>4
    <3> QED
      BY <3>1, <3>2 DEF Unique
  <2>6. \A e \in Employees, v \in Accounts : Mine(e, v)' <=> Mine(e, v)
    <3>0. renamed => q.emp \in Employees /\ q.emp \in Staff /\ Mine(q.emp, u)
      BY <1>1, <1>3 DEF Inv, Bound, Employees
    <3> SUFFICES ASSUME NEW e \in Employees, NEW v \in Accounts
                 PROVE  Mine(e, v)' <=> Mine(e, v)
      OBVIOUS
    <3>1. e \in Staff /\ v \in Users
      BY DEF Employees, Accounts
    <3>2. CASE ~renamed
      BY <2>2, <2>3, <3>1, <3>2 DEF Mine
    <3>3. CASE renamed /\ e = q.emp /\ v = u
      BY <2>2, <2>3, <3>0, <3>3 DEF Mine
    <3>4. CASE renamed /\ e # q.emp /\ v = u
      <4>1. ~Mine(e, v)
        BY <3>0, <3>4, <1>3, OneMate DEF Inv
      <4>2. person'[e].email # q.new /\ account'[v].email = q.new
        BY <1>3, <2>2, <2>3, <3>1, <3>4
      <4> QED
        BY <4>1, <4>2 DEF Mine
    <3>5. CASE renamed /\ e = q.emp /\ v # u
      <4>1. ~Mine(e, v)
        BY <3>0, <3>5, <1>3, OneMate DEF Inv
      <4>2. person'[e].email = q.new /\ account'[v].email # q.new
        BY <1>3, <2>2, <2>3, <3>1, <3>5
      <4> QED
        BY <4>1, <4>2 DEF Mine
    <3>6. CASE renamed /\ e # q.emp /\ v # u
      BY <2>2, <2>3, <3>1, <3>6 DEF Mine
    <3> QED
      BY <3>2, <3>3, <3>4, <3>5, <3>6
  <2>7. OneTenant'
    <3> SUFFICES ASSUME NEW e \in Employees, NEW v \in Accounts,
                        person'[e].email = account'[v].email
                 PROVE  person'[e].org = account'[v].org
      BY <2>2, <2>3 DEF OneTenant
    <3>1. e \in Staff /\ v \in Users
      BY DEF Employees, Accounts
    <3>2. person'[e].org = person[e].org /\ account'[v].org = account[v].org
      BY <2>2, <2>3, <3>1
    <3>3. CASE ~renamed
      BY <2>2, <2>3, <3>1, <3>2, <3>3 DEF Inv, OneTenant
    <3>4. CASE renamed /\ e = q.emp /\ v = u
      BY <1>1, <1>3, <3>2, <3>4 DEF Inv, Bound, Mine
    <3>5. CASE renamed /\ e # q.emp /\ v = u
      BY <1>3, <2>2, <2>3, <3>1, <3>5
    <3>6. CASE renamed /\ e = q.emp /\ v # u
      BY <1>3, <2>2, <2>3, <3>1, <3>6
    <3>7. CASE renamed /\ e # q.emp /\ v # u
      BY <2>2, <2>3, <3>1, <3>2, <3>7 DEF Inv, OneTenant
    <3> QED
      BY <3>3, <3>4, <3>5, <3>6, <3>7
  <2>8. \A v \in Accounts : account'[v].active = account[v].active
    BY <2>3 DEF Accounts
  <2> QED
    BY <1>1, <2>2, <2>3, <2>4, <2>5, <2>6, <2>7, <2>8, RewrittenKeep
<1> QED
  BY <1>2, <1>3 DEF FinishUpdate

\* What a request of UserBase holds is archived or deleted together.
LEMMA SoftDeleteKeeps ==
    ASSUME Inv, NEW r \in Requests, SoftDelete(r)
    PROVE  Inv'
<1> DEFINE q == call[r]
<1>1. /\ \A p \in Requests : Calm(p)
      /\ call' \in [Requests -> Call] /\ q \in Call
      /\ UNCHANGED <<person, stray>> /\ q.pc = "commit"
  BY Ended DEF SoftDelete, Inv, TypeOK
<1>2. CASE UNCHANGED <<account, archived, lone>>
  BY <1>1, <1>2, QuietKeeps DEF history
<1>3. CASE /\ q.emp \in Employees /\ q.user \in Accounts \cup {None}
           /\ account' = IF q.user = None THEN account
                         ELSE [account EXCEPT ![q.user].active = FALSE]
           /\ archived' = archived \cup {q.emp}
           /\ lone' = IF q.stale THEN lone \cup {q.emp} ELSE lone
  <2>1. /\ account' \in [Users -> Account \cup {None}]
        /\ Accounts' = Accounts /\ Employees' = Employees
        /\ \A v \in Accounts :
              /\ account'[v].email = account[v].email /\ account'[v].org = account[v].org
              /\ account[v].active = FALSE => account'[v].active = FALSE
        /\ q.user # None => account'[q.user].active = FALSE
    <3>0. Employees' = Employees
      BY <1>1 DEF Employees
    <3>1. account \in [Users -> Account \cup {None}] /\ None \notin Account
      BY RowAssumption DEF Inv, TypeOK, Account
    <3>2. CASE q.user = None
      BY <1>3, <3>0, <3>1, <3>2 DEF Accounts
    <3>3. CASE q.user # None
      <4> DEFINE row == [account[q.user] EXCEPT !.active = FALSE]
      <4>1. q.user \in Users /\ account[q.user] \in Account
        BY <1>3, <3>3, Rows DEF Inv, Accounts
      <4>2. /\ row \in Account /\ row.email = account[q.user].email
            /\ row.org = account[q.user].org /\ row.active = FALSE
        BY <4>1 DEF Account
      <4>3. account' = [account EXCEPT ![q.user] = row]
        BY <1>3, <3>3
      <4> HIDE DEF row
      <4>4. /\ \A v \in Users : account'[v] = IF v = q.user THEN row ELSE account[v]
            /\ account' \in [Users -> Account \cup {None}]
        BY <3>1, <4>2, <4>3
      <4>5. Accounts' = Accounts
        BY <3>1, <4>1, <4>2, <4>4 DEF Accounts
      <4> QED
        BY <3>0, <4>1, <4>2, <4>4, <4>5 DEF Accounts
    <3> QED
      BY <3>2, <3>3
  <2>2. /\ q.emp \in Staff /\ q.stale \in BOOLEAN
        /\ lone \subseteq lone' /\ (q.stale => q.emp \in lone')
    BY <1>1, <1>3 DEF Employees, Call
  <2>3. TypeOK' /\ Unique' /\ OneTenant' /\ archived' \subseteq Employees'
    BY <1>1, <1>3, <2>1, <2>2 DEF Inv, TypeOK, Unique, OneTenant, Employees
  <2>4. \A e \in Employees, v \in Accounts : Mine(e, v)' <=> Mine(e, v)
    BY <1>1, <2>1 DEF Mine
  <2>5. Paired'
    BY <1>1, <2>1, <2>2, <2>4 DEF Inv, Paired
  <2>6. ASSUME NEW e \in archived' \ lone', NEW v \in Accounts, Mine(e, v)
        PROVE  account'[v].active = FALSE
    <3>1. CASE e \in archived
      BY <2>1, <2>2, <2>6, <3>1 DEF Inv, ArchivedCannotLogin
    <3>2. CASE e = q.emp
      <4>1. ~q.stale
        BY <2>2, <2>6, <3>2
      <4>2. v = q.user
        BY <1>1, <1>3, <2>6, <3>2, <4>1 DEF Inv, Bound
      <4>3. v # None
        BY DomainAssumption DEF Accounts
      <4> QED
        BY <2>1, <4>2, <4>3
    <3> QED
      BY <1>3, <2>6, <3>1, <3>2
  <2>7. ArchivedCannotLogin'
    BY <2>1, <2>3, <2>4, <2>6 DEF ArchivedCannotLogin
  <2> QED
    BY <1>1, <2>1, <2>2, <2>3, <2>4, <2>5, <2>7, RowsKeep
<1> QED
  BY <1>2, <1>3 DEF SoftDelete

-----------------------------------------------------------------------------
(* Steps that delete rows: what is left is as it was.                      *)

LEMMA EraseKeeps ==
    ASSUME Inv, NEW us \in SUBSET Accounts, NEW es \in SUBSET Employees,
           NEW parting \in BOOLEAN, Erase(us, es, parting),
           call' \in [Requests -> Call],
           \A q \in Requests : Calm(q),
           ~parting =>
               /\ \A e \in (Employees \ lone) \ es : \A u \in us : ~Mine(e, u)
               /\ \A u \in (Accounts \ stray) \ us : \A e \in es : ~Mine(e, u)
    PROVE  Inv'
<1>1. us \subseteq Users /\ es \subseteq Staff
  BY DEF Accounts, Employees
<1>2. /\ person' \in [Staff -> Person \cup {None}]
      /\ \A e \in Staff : person'[e] = IF e \in es THEN None ELSE person[e]
      /\ Employees' = Employees \ es
  BY <1>1 DEF Erase, Inv, TypeOK, Employees
<1>3. /\ account' \in [Users -> Account \cup {None}]
      /\ \A u \in Users : account'[u] = IF u \in us THEN None ELSE account[u]
      /\ Accounts' = Accounts \ us
  BY <1>1 DEF Erase, Inv, TypeOK, Accounts
<1>4. /\ \A e \in Employees' : e \in Staff /\ person'[e] = person[e]
      /\ \A u \in Accounts' : u \in Users /\ account'[u] = account[u]
  BY <1>2, <1>3 DEF Employees, Accounts
<1>5. \A e \in Employees', u \in Accounts' : Mine(e, u)' <=> Mine(e, u)
  BY <1>4 DEF Mine
<1>6. /\ archived' = archived \ es
      /\ lone' = (lone \cup {e \in Employees : parting /\ \E u \in us : Mine(e, u)}) \ es
      /\ stray' = (stray \cup {u \in Accounts : parting /\ \E e \in es : Mine(e, u)}) \ us
  BY DEF Erase
<1>7. TypeOK'
  BY <1>2, <1>3, <1>6 DEF Inv, TypeOK, Employees, Accounts
<1>8. Unique' /\ OneTenant' /\ archived' \subseteq Employees'
  BY <1>2, <1>3, <1>4, <1>6 DEF Inv, Unique, OneTenant
<1>9. ASSUME NEW e \in Employees' \ lone'
      PROVE  /\ e \in Employees \ lone
             /\ \E u \in Accounts' : Mine(e, u)'
  <2>1. /\ e \in (Employees \ lone) \ es
        /\ parting => \A u \in us : ~Mine(e, u)
    BY <1>2, <1>6
  <2>2. PICK u \in Accounts : Mine(e, u)
    BY <2>1 DEF Inv, Paired
  <2>3. u \in Accounts'
    BY <1>3, <2>1, <2>2
  <2> QED
    BY <1>5, <2>1, <2>2, <2>3
<1>10. ASSUME NEW u \in Accounts' \ stray'
       PROVE  \E e \in Employees' : Mine(e, u)'
  <2>1. /\ u \in (Accounts \ stray) \ us
        /\ parting => \A e \in es : ~Mine(e, u)
    BY <1>3, <1>6
  <2>2. PICK e \in Employees : Mine(e, u)
    BY <2>1 DEF Inv, Paired
  <2>3. e \in Employees'
    BY <1>2, <2>1, <2>2
  <2> QED
    BY <1>5, <2>2, <2>3
<1>11. Paired'
  BY <1>9, <1>10 DEF Paired
<1>12. ArchivedCannotLogin'
  <2> SUFFICES ASSUME NEW e \in archived' \ lone', NEW u \in Accounts', Mine(e, u)'
               PROVE  account'[u].active = FALSE
    BY DEF ArchivedCannotLogin
  <2>1. e \in Employees' /\ e \in archived \ lone /\ u \in Accounts
    BY <1>3, <1>6, <1>8, <1>9
  <2> QED
    BY <1>4, <1>5, <2>1 DEF Inv, ArchivedCannotLogin
<1> QED
  BY <1>2, <1>3, <1>5, <1>7, <1>8, <1>9, <1>11, <1>12, RowsKeep

\* A DELETE takes both, unless an update has overtaken it.
LEMMA HardDeleteKeeps ==
    ASSUME Inv, NEW r \in Requests, HardDelete(r)
    PROVE  Inv'
<1> DEFINE q == call[r]
           us == {q.user} \cap Accounts
           es == {q.emp} \cap Employees
<1>1. /\ \A p \in Requests : Calm(p)
      /\ call' \in [Requests -> Call]
      /\ q.pc = "commit" /\ q.stale \in BOOLEAN
      /\ Erase(us, es, q.stale)
  BY Ended DEF HardDelete, Inv, TypeOK, Call
<1>2. us \in SUBSET Accounts /\ es \in SUBSET Employees
  OBVIOUS
<1>3. ASSUME ~q.stale
      PROVE  /\ \A e \in (Employees \ lone) \ es : \A u \in us : ~Mine(e, u)
             /\ \A u \in (Accounts \ stray) \ us : \A e \in es : ~Mine(e, u)
  <2>1. Bound(r)
    BY DEF Inv
  <2>2. ASSUME NEW e \in (Employees \ lone) \ es, NEW u \in us
        PROVE  ~Mine(e, u)
    BY <1>1, <1>3, <2>1 DEF Bound
  <2>3. ASSUME NEW u \in (Accounts \ stray) \ us, NEW e \in es
        PROVE  ~Mine(e, u)
    BY <1>1, <1>3, <2>1 DEF Bound
  <2> QED
    BY <2>2, <2>3
<1> QED
  BY <1>1, <1>2, <1>3, EraseKeeps

\* The deletion of an organization notes whom it leaves alone.
LEMMA DeleteRowKeeps ==
    ASSUME Inv, NEW r \in Requests, DeleteRow(r)
    PROVE  Inv'
<1> DEFINE q == call[r]
<1>1. PICK row \in q.rows :
         /\ q.pc = "closing"
         /\ call' = [call EXCEPT ![r].rows = @ \ {row}]
         /\ \/ Erase({row} \cap Accounts, {}, TRUE)
            \/ Erase({u \in Accounts : account[u].role = row}, {}, TRUE)
            \/ Erase({}, {row} \cap Employees, TRUE)
  BY DEF DeleteRow
<1> DEFINE new == [q EXCEPT !.rows = q.rows \ {row}]
<1>2. /\ q \in Call /\ q.rows \subseteq Users \cup Orgs \cup Staff
      /\ call' = [call EXCEPT ![r] = new]
  BY <1>1 DEF Inv, TypeOK, Call
<1>3. new \in Call /\ new.pc = "closing" /\ new.emp = q.emp /\ new.user = q.user
  BY <1>1, <1>2 DEF Call
<1> HIDE DEF new
<1>4. call' \in [Requests -> Call] /\ \A p \in Requests : Calm(p)
  BY <1>2, <1>3 DEF Inv, TypeOK, Calm
<1> DEFINE us == {u \in Accounts : account[u].role = row}
<1>5. CASE Erase({row} \cap Accounts, {}, TRUE)
  BY <1>4, <1>5, EraseKeeps
<1>6. CASE Erase(us, {}, TRUE)
  <2>1. us \in SUBSET Accounts
    OBVIOUS
  <2> HIDE DEF us
  <2> QED
    BY <1>4, <1>6, <2>1, EraseKeeps
<1>7. CASE Erase({}, {row} \cap Employees, TRUE)
  BY <1>4, <1>7, EraseKeeps
<1> QED
  BY <1>1, <1>5, <1>6, <1>7

LEMMA DeleteOrganizationKeeps ==
    ASSUME Inv, NEW r \in Requests, DeleteOrganization(r)
    PROVE  Inv'
<1> DEFINE o == call[r].org
           us == {u \in Accounts : o \in {account[u].org, account[u].role}}
           es == {e \in Employees : person[e].org = o}
<1>1. us \in SUBSET Accounts /\ es \in SUBSET Employees
  OBVIOUS
<1>2. /\ Erase(us, es, TRUE) /\ call' \in [Requests -> Call]
      /\ \A p \in Requests : Calm(p)
  BY Ended DEF DeleteOrganization, Inv
<1> HIDE DEF us, es
<1> QED
  BY <1>1, <1>2, EraseKeeps

-----------------------------------------------------------------------------
(* The theorems.                                                           *)

LEMMA InitHolds == Init => Inv
<1> SUFFICES ASSUME Init
             PROVE  Inv
  OBVIOUS
<1>1. Employees = {} /\ Accounts = {}
  BY DEF Init, Employees, Accounts
<1>2. TypeOK
  BY DEF Init, TypeOK, NoCall, Call
<1>3. Reserved /\ Filled /\ \A r \in Requests : Bound(r)
  BY DEF Init, NoCall, Reserved, Filled, Bound
<1> QED
  BY <1>1, <1>2, <1>3 DEF Init, Inv, Unique, OneTenant, Paired, ArchivedCannotLogin

LEMMA NextKeeps ==
    ASSUME Inv, [Next]_vars
    PROVE  Inv'
<1>1. CASE \E r \in Requests, e \in Staff, u \in Users, m \in People, o, role \in Orgs :
               CreateUser(r, e, u, m, o, role)
  BY <1>1, CreateUserKeeps
<1>2. CASE \E e \in Staff, u \in Users, m \in People, o \in Orgs : CreateEmployee(e, u, m, o)
  BY <1>2, CreateEmployeeKeeps
<1>3. CASE \E e \in Staff, m \in People, o \in Orgs : PatchStaff(e, m, o)
  BY <1>3, PatchStaffKeeps
<1>4. CASE \E r \in Requests, u \in Users, m \in People \cup {None},
              role \in Orgs \cup {None} : UpdateUser(r, u, m, role)
  BY <1>4, UpdateUserKeeps
<1>5. CASE \E r \in Requests, e \in Staff, k \in Kinds : Open(r, e, k)
  BY <1>5, OpenKeeps
<1>6. CASE \E r \in Requests, o \in Closing : CloseOrganization(r, o)
  BY <1>6, CloseOrganizationKeeps, ClosingAssumption
<1>7. CASE \E r \in Requests : Step(r)
  BY <1>7, FinishCreateKeeps, FinishUpdateKeeps, FindUserKeeps, ReassignKeeps,
     SoftDeleteKeeps, HardDeleteKeeps, DeleteRowKeeps, NextTableKeeps,
     DeleteOrganizationKeeps, AbandonClosingKeeps DEF Step
<1>8. CASE UNCHANGED vars
  <2>1. /\ \A q \in Requests : Calm(q)
        /\ call' \in [Requests -> Call]
    BY <1>8 DEF vars, Inv, TypeOK, Calm
  <2> QED
    BY <1>8, <2>1, QuietKeeps DEF vars, history
<1> QED
  BY <1>1, <1>2, <1>3, <1>4, <1>5, <1>6, <1>7, <1>8 DEF Next

\* The rows and the requests keep their types.
THEOREM TypeCorrect == Spec => []TypeOK
<1>1. Inv => TypeOK
  BY DEF Inv
<1> QED
  BY <1>1, InitHolds, NextKeeps, PTL DEF Spec

(***************************************************************************)
(* Every employee has an account and every account an employee, but for    *)
(* the rows which the deletion of an organization, or a DELETE that an     *)
(* update overtook, has left without their partner: create_user,           *)
(* update_user, PATCH /staff, UserBase and deletions of organizations, row *)
(* by row, in any order.                                                   *)
(***************************************************************************)
THEOREM PairsStay == Spec => []Paired
<1>1. Inv => Paired
  BY DEF Inv
<1> QED
  BY <1>1, InitHolds, NextKeeps, PTL DEF Spec

\* With the same exceptions an archived employee's account stays inactive.
THEOREM ArchivedStayOut == Spec => []ArchivedCannotLogin
<1>1. Inv => ArchivedCannotLogin
  BY DEF Inv
<1> QED
  BY <1>1, InitHolds, NextKeeps, PTL DEF Spec

\* No email is of an employee and of an account of two organizations.
THEOREM TenantsStayApart == Spec => []OneTenant
<1>1. Inv => OneTenant
  BY DEF Inv
<1> QED
  BY <1>1, InitHolds, NextKeeps, PTL DEF Spec

=============================================================================
