---------------------------- MODULE RecordsProofs ----------------------------
(***************************************************************************)
(* Proofs about the records: Departments, then Organizations, for any      *)
(* number of organizations, departments, branches, employees, people and   *)
(* requests; last, what they say of the two side by side (MCRecords).      *)
(*                                                                         *)
(* Departments.  The two properties carry each other: that an employee who *)
(* is just being hired holds no post yet follows from posts naming         *)
(* employees that exist, which in turn needs the rows to be typed.         *)
(***************************************************************************)
EXTENDS MCRecords, Integers, TLAPS

Inv == TypeOK /\ OnePost /\ PostsExist

-----------------------------------------------------------------------------
(* Types.                                                                  *)

LEMMA InitTyped == Init => TypeOK
BY DEF Init, TypeOK, Department, Branch, NoDepartment, NoBranch

LEMMA NextTyped ==
    ASSUME TypeOK, [Next]_vars
    PROVE  TypeOK'
<1> USE DEF TypeOK, Department, Branch
<1>1. ASSUME NEW o \in Orgs, NEW d \in DeptIds, NEW n \in DeptNames,
             NEW e \in Staff \cup {None}, NEW b \in BranchIds \cup {None},
             CreateDepartment(o, d, n, e, b)
      PROVE  TypeOK'
  BY <1>1 DEF CreateDepartment
<1>2. ASSUME NEW d \in DeptIds, NEW n \in DeptNames,
             NEW e \in Staff \cup {None}, NEW b \in BranchIds \cup {None},
             UpdateDepartment(d, n, e, b)
      PROVE  TypeOK'
  BY <1>2 DEF UpdateDepartment, Depts
<1>3. ASSUME NEW d \in DeptIds, DeleteDepartment(d)
      PROVE  TypeOK'
  BY <1>3 DEF DeleteDepartment, NoDepartment
<1>4. ASSUME NEW o \in Orgs, NEW b \in BranchIds, NEW e \in Staff \cup {None},
             CreateBranch(o, b, e)
      PROVE  TypeOK'
  BY <1>4 DEF CreateBranch
<1>5. ASSUME NEW b \in BranchIds, NEW e \in Staff \cup {None}, UpdateBranch(b, e)
      PROVE  TypeOK'
  BY <1>5 DEF UpdateBranch
<1>6. ASSUME NEW b \in BranchIds, DeleteBranch(b)
      PROVE  TypeOK'
  BY <1>6 DEF DeleteBranch, NoBranch, NoDepartment
<1>7. ASSUME NEW e \in Staff, NEW d \in DeptIds \cup {None},
             NEW b \in BranchIds \cup {None}, Hire(e, d, b)
      PROVE  TypeOK'
  BY <1>7 DEF Hire
<1>8. ASSUME NEW e \in Staff, DeleteEmployee(e)
      PROVE  TypeOK'
  BY <1>8 DEF DeleteEmployee, Vacated
<1>9. ASSUME NEW o \in Orgs, ChangeNature(o)
      PROVE  TypeOK'
  BY <1>9 DEF ChangeNature
<1>10. CASE UNCHANGED vars
  BY <1>10 DEF vars
<1> QED
  BY <1>1, <1>2, <1>3, <1>4, <1>5, <1>6, <1>7, <1>8, <1>9, <1>10 DEF Next

-----------------------------------------------------------------------------
(* Posts.  What a row is after a step, for every kind of step.             *)

\* A row of departments is written and nothing else changes.
LEMMA RowWritten ==
    ASSUME Inv, NEW d \in DeptIds, NEW row \in Department, row.org # None,
           Storable(d, row),
           dept' = [dept EXCEPT ![d] = row],
           UNCHANGED <<hired, branch>>,
           unchecked \subseteq unchecked',
           row.head \in unchecked' \/ row.head = None \/ row.branch = None
               \/ \A b \in Branches : branch[b].manager # row.head
    PROVE  OnePost' /\ PostsExist'
<1>1. Depts' = Depts \cup {d} /\ Branches' = Branches
  BY DEF Inv, TypeOK, Depts, Branches
<1>2. \A c \in DeptIds : dept'[c] = IF c = d THEN row ELSE dept[c]
  BY DEF Inv, TypeOK
<1>3. OneDepartmentPerHead'
  BY <1>1, <1>2 DEF Inv, OnePost, OneDepartmentPerHead, Storable, Depts
<1>4. OneBranchPerManager'
  BY <1>1 DEF Inv, OnePost, OneBranchPerManager
<1>5. HeadOrManager'
  BY <1>1, <1>2 DEF Inv, OnePost, HeadOrManager, Depts
<1>6. PostsExist'
  BY <1>1, <1>2 DEF Inv, PostsExist, Storable, Depts
<1> QED
  BY <1>3, <1>4, <1>5, <1>6 DEF OnePost

\* Nobody has a post who is not employed.
LEMMA NewHaveNoPost ==
    ASSUME Inv, NEW e \in Staff, e \notin hired
    PROVE  /\ \A c \in Depts : dept[c].head # e
           /\ \A a \in Branches : branch[a].manager # e
BY DomainAssumption DEF Inv, PostsExist

LEMMA CreateDepartmentKeeps ==
    ASSUME Inv, NEW o \in Orgs, NEW d \in DeptIds, NEW n \in DeptNames,
           NEW e \in Staff \cup {None}, NEW b \in BranchIds \cup {None},
           CreateDepartment(o, d, n, e, b)
    PROVE  OnePost' /\ PostsExist'
<1> DEFINE row == [org |-> o, name |-> n, head |-> e, branch |-> b]
<1>1. row \in Department /\ row.org # None
  BY DomainAssumption DEF Department
<1>2. row.head = None \/ row.branch = None \/ \A a \in Branches : branch[a].manager # row.head
  BY DEF CreateDepartment, Managed
<1>3. Storable(d, row) /\ dept' = [dept EXCEPT ![d] = row]
  BY DEF CreateDepartment
<1> QED
  BY <1>1, <1>2, <1>3, RowWritten DEF CreateDepartment

LEMMA UpdateDepartmentKeeps ==
    ASSUME Inv, NEW d \in DeptIds, NEW n \in DeptNames,
           NEW e \in Staff \cup {None}, NEW b \in BranchIds \cup {None},
           UpdateDepartment(d, n, e, b)
    PROVE  OnePost' /\ PostsExist'
<1> DEFINE row == [org |-> dept[d].org, name |-> n, head |-> e, branch |-> b]
<1>1. row \in Department /\ row.org # None
  BY DEF Department, UpdateDepartment, Depts, Inv, TypeOK
<1>2. row.head \in unchecked' \/ row.head = None
  BY DEF UpdateDepartment
<1>3. Storable(d, row) /\ dept' = [dept EXCEPT ![d] = row] /\ unchecked \subseteq unchecked'
  BY DEF UpdateDepartment
<1> QED
  BY <1>1, <1>2, <1>3, RowWritten DEF UpdateDepartment

LEMMA DeleteDepartmentKeeps ==
    ASSUME Inv, NEW d \in DeptIds, DeleteDepartment(d)
    PROVE  OnePost' /\ PostsExist'
<1>1. Depts' = Depts \ {d} /\ Branches' = Branches
  BY DEF DeleteDepartment, Inv, TypeOK, Depts, Branches, NoDepartment
<1>2. \A c \in Depts' : dept'[c] = dept[c]
  BY <1>1 DEF DeleteDepartment, Inv, TypeOK, Depts
<1> QED
  BY <1>1, <1>2 DEF DeleteDepartment, Inv, OnePost, OneDepartmentPerHead, OneBranchPerManager,
        HeadOrManager, PostsExist

LEMMA CreateBranchKeeps ==
    ASSUME Inv, NEW o \in Orgs, NEW b \in BranchIds, NEW e \in Staff \cup {None},
           CreateBranch(o, b, e)
    PROVE  OnePost' /\ PostsExist'
<1>1. Branches' = Branches \cup {b} /\ Depts' = Depts
  BY DomainAssumption DEF CreateBranch, Inv, TypeOK, Branches, Depts
<1>2. \A a \in BranchIds : branch'[a] = IF a = b THEN [org |-> o, manager |-> e] ELSE branch[a]
  BY DEF CreateBranch, Inv, TypeOK
<1>3. OneDepartmentPerHead'
  BY <1>1 DEF CreateBranch, Inv, OnePost, OneDepartmentPerHead
<1>4. OneBranchPerManager'
  BY <1>1, <1>2 DEF CreateBranch, Managed, Inv, OnePost, OneBranchPerManager, Branches
<1>5. HeadOrManager'
  BY <1>1, <1>2 DEF CreateBranch, Headed, Inv, OnePost, HeadOrManager, Branches
<1>6. PostsExist'
  BY <1>1, <1>2 DEF CreateBranch, Inv, PostsExist, Branches
<1> QED
  BY <1>3, <1>4, <1>5, <1>6 DEF OnePost

LEMMA UpdateBranchKeeps ==
    ASSUME Inv, NEW b \in BranchIds, NEW e \in Staff \cup {None}, UpdateBranch(b, e)
    PROVE  OnePost' /\ PostsExist'
<1>1. Branches' = Branches /\ Depts' = Depts
  BY DEF UpdateBranch, Inv, TypeOK, Branch, Branches, Depts
<1>2. \A a \in BranchIds : /\ branch'[a].org = branch[a].org
                           /\ branch'[a].manager = IF a = b THEN e ELSE branch[a].manager
  BY DEF UpdateBranch, Inv, TypeOK, Branch
<1>3. OneDepartmentPerHead'
  BY <1>1 DEF UpdateBranch, Inv, OnePost, OneDepartmentPerHead
<1>4. OneBranchPerManager'
  BY <1>1, <1>2 DEF UpdateBranch, Inv, OnePost, OneBranchPerManager, Branches
<1>5. HeadOrManager'
  BY <1>1, <1>2 DEF UpdateBranch, Inv, OnePost, HeadOrManager, Branches
<1>6. PostsExist'
  BY <1>1, <1>2 DEF UpdateBranch, Inv, PostsExist, Branches
<1> QED
  BY <1>3, <1>4, <1>5, <1>6 DEF OnePost

LEMMA DeleteBranchKeeps ==
    ASSUME Inv, NEW b \in BranchIds, DeleteBranch(b)
    PROVE  OnePost' /\ PostsExist'
<1>1. Branches' = Branches \ {b} /\ Depts' = Depts \ OfBranch(b)
  BY DEF DeleteBranch, OfBranch, Inv, TypeOK, Branches, Depts, NoBranch, NoDepartment
<1>2. /\ \A c \in Depts' : dept'[c] = dept[c] /\ dept[c].branch # b
      /\ \A a \in Branches' : branch'[a] = branch[a]
  BY <1>1 DEF DeleteBranch, OfBranch, Inv, TypeOK, Branches, Depts
<1>3. Branches' \subseteq Branches /\ Depts' \subseteq Depts
  BY <1>1
<1> QED
  BY <1>1, <1>2, <1>3 DEF DeleteBranch, Inv, OnePost, OneDepartmentPerHead, OneBranchPerManager,
        HeadOrManager, PostsExist

LEMMA HireKeeps ==
    ASSUME Inv, NEW e \in Staff, NEW d \in DeptIds \cup {None},
           NEW b \in BranchIds \cup {None}, Hire(e, d, b)
    PROVE  OnePost' /\ PostsExist'
<1>1. Branches' = Branches /\ Depts' = Depts
  BY DEF Hire, Inv, TypeOK, Branch, Department, Branches, Depts
<1>2. /\ \A c \in DeptIds : /\ dept'[c].org = dept[c].org /\ dept'[c].branch = dept[c].branch
                            /\ dept'[c].head = IF c = d THEN e ELSE dept[c].head
      /\ \A a \in BranchIds : /\ branch'[a].org = branch[a].org
                              /\ branch'[a].manager = IF a = b THEN e ELSE branch[a].manager
  BY DomainAssumption DEF Hire, Inv, TypeOK, Branch, Department
<1>3. /\ \A c \in Depts : dept[c].head # e
      /\ \A a \in Branches : branch[a].manager # e
  BY NewHaveNoPost DEF Hire
<1>4. OneDepartmentPerHead'
  BY <1>1, <1>2, <1>3 DEF Inv, OnePost, OneDepartmentPerHead, Depts
<1>5. OneBranchPerManager'
  BY <1>1, <1>2, <1>3 DEF Hire, Inv, OnePost, OneBranchPerManager, Branches
<1>6. HeadOrManager'
  <2> SUFFICES ASSUME NEW c \in Depts', NEW a \in Branches',
                      dept'[c].branch # None, dept'[c].head # None,
                      dept'[c].org = branch'[a].org, dept'[c].head = branch'[a].manager
               PROVE  dept'[c].head \in unchecked'
    BY DEF HeadOrManager
  <2>1. c \in DeptIds /\ a \in BranchIds /\ c \in Depts /\ a \in Branches
    BY <1>1 DEF Depts, Branches
  <2>2. CASE c = d /\ a = b
    BY <2>1, <2>2, <1>2, DomainAssumption DEF Hire
  <2>3. CASE c # d /\ a # b
    BY <2>1, <2>3, <1>2 DEF Hire, Inv, OnePost, HeadOrManager
  <2>4. CASE c = d /\ a # b
    BY <2>1, <2>4, <1>2, <1>3
  <2>5. CASE c # d /\ a = b
    BY <2>1, <2>5, <1>2, <1>3
  <2> QED
    BY <2>2, <2>3, <2>4, <2>5
<1>7. PostsExist'
  BY <1>1, <1>2 DEF Hire, Inv, PostsExist, Depts, Branches
<1> QED
  BY <1>4, <1>5, <1>6, <1>7 DEF OnePost

LEMMA DeleteEmployeeKeeps ==
    ASSUME Inv, NEW e \in Staff, DeleteEmployee(e)
    PROVE  OnePost' /\ PostsExist'
<1>1. /\ \A c \in DeptIds : /\ dept'[c].org = dept[c].org /\ dept'[c].branch = dept[c].branch
                            /\ dept'[c].head = IF dept[c].head = e THEN None ELSE dept[c].head
      /\ \A a \in BranchIds : /\ branch'[a].org = branch[a].org
                              /\ branch'[a].manager = IF branch[a].manager = e THEN None
                                                      ELSE branch[a].manager
  BY DEF DeleteEmployee, Vacated, Inv, TypeOK, Department, Branch
<1>2. Branches' = Branches /\ Depts' = Depts
  BY <1>1 DEF Branches, Depts
<1>3. OneDepartmentPerHead'
  BY <1>1, <1>2 DEF Inv, OnePost, OneDepartmentPerHead, Depts
<1>4. OneBranchPerManager'
  BY <1>1, <1>2 DEF DeleteEmployee, Inv, OnePost, OneBranchPerManager, Branches
<1>5. HeadOrManager'
  BY <1>1, <1>2 DEF DeleteEmployee, Inv, OnePost, HeadOrManager, Branches, Depts
<1>6. PostsExist'
  BY <1>1, <1>2 DEF DeleteEmployee, Inv, PostsExist, Branches, Depts
<1> QED
  BY <1>3, <1>4, <1>5, <1>6 DEF OnePost

LEMMA UnchangedKeeps ==
    ASSUME Inv, UNCHANGED <<hired, dept, branch, unchecked>>
    PROVE  OnePost' /\ PostsExist'
BY DEF Inv, OnePost, OneDepartmentPerHead, OneBranchPerManager, HeadOrManager, PostsExist,
       Depts, Branches

-----------------------------------------------------------------------------
(* The theorems.                                                           *)

LEMMA InitInv == Init => Inv
<1> SUFFICES ASSUME Init PROVE Inv
  OBVIOUS
<1>1. Depts = {} /\ Branches = {}
  BY DEF Init, Depts, Branches, NoDepartment, NoBranch
<1> QED
  BY <1>1, InitTyped DEF Inv, OnePost, OneDepartmentPerHead, OneBranchPerManager,
        HeadOrManager, PostsExist

LEMMA NextInv ==
    ASSUME Inv, [Next]_vars
    PROVE  Inv'
<1>1. TypeOK'
  BY NextTyped DEF Inv
<1>2. OnePost' /\ PostsExist'
  <2>1. CASE \E o \in Orgs, d \in DeptIds, n \in DeptNames, e \in Staff \cup {None},
                b \in BranchIds \cup {None} : CreateDepartment(o, d, n, e, b)
    BY <2>1, CreateDepartmentKeeps
  <2>2. CASE \E d \in DeptIds, n \in DeptNames, e \in Staff \cup {None},
                b \in BranchIds \cup {None} : UpdateDepartment(d, n, e, b)
    BY <2>2, UpdateDepartmentKeeps
  <2>3. CASE \E d \in DeptIds : DeleteDepartment(d)
    BY <2>3, DeleteDepartmentKeeps
  <2>4. CASE \E o \in Orgs, b \in BranchIds, e \in Staff \cup {None} : CreateBranch(o, b, e)
    BY <2>4, CreateBranchKeeps
  <2>5. CASE \E b \in BranchIds, e \in Staff \cup {None} : UpdateBranch(b, e)
    BY <2>5, UpdateBranchKeeps
  <2>6. CASE \E b \in BranchIds : DeleteBranch(b)
    BY <2>6, DeleteBranchKeeps
  <2>7. CASE \E e \in Staff, d \in DeptIds \cup {None}, b \in BranchIds \cup {None} :
                Hire(e, d, b)
    BY <2>7, HireKeeps
  <2>8. CASE \E e \in Staff : DeleteEmployee(e)
    BY <2>8, DeleteEmployeeKeeps
  <2>9. CASE UNCHANGED vars \/ \E o \in Orgs : ChangeNature(o)
    BY <2>9, UnchangedKeeps DEF vars, ChangeNature
  <2> QED
    BY <2>1, <2>2, <2>3, <2>4, <2>5, <2>6, <2>7, <2>8, <2>9 DEF Next
<1> QED
  BY <1>1, <1>2 DEF Inv

(***************************************************************************)
(* The tables keep their types.                                            *)
(***************************************************************************)
THEOREM TypeCorrect == Spec => []TypeOK
<1>1. Init => TypeOK
  BY InitTyped
<1>2. TypeOK /\ [Next]_vars => TypeOK'
  BY NextTyped
<1> QED
  BY <1>1, <1>2, PTL DEF Spec

LEMMA AlwaysInv == Spec => []Inv
<1>1. Inv /\ [Next]_vars => Inv'
  BY NextInv
<1> QED
  BY InitInv, <1>1, PTL DEF Spec

(***************************************************************************)
(* uq_hod_per_org and the checks of create_department and create_branch    *)
(* are enough for one post per employee, as long as nobody is appointed by *)
(* an update or while hired: in whatever order departments and branches    *)
(* are made, changed and deleted, however many there are.                  *)
(***************************************************************************)
THEOREM OnePostEach == Spec => []OnePost
<1>1. Inv => OnePost
  BY DEF Inv
<1> QED
  BY AlwaysInv, <1>1, PTL

(***************************************************************************)
(* No post names an employee who was deleted, no department a branch.      *)
(***************************************************************************)
THEOREM PostsAlwaysExist == Spec => []PostsExist
<1>1. Inv => PostsExist
  BY DEF Inv
<1> QED
  BY AlwaysInv, <1>1, PTL

-----------------------------------------------------------------------------
(***************************************************************************)
(* Organizations.  Between its last insert and its answer a sign-up holds  *)
(* nothing but the promise that what it inserted is still there: Promised  *)
(* says so of the sign-ups that AnsweredHasAdmin does not speak about yet. *)
(* An id is only made again when no request names it, which needs the      *)
(* requests to be well-formed.                                             *)
(***************************************************************************)

\* What the requests in flight hold.
Formed ==
    \A r \in Requests :
        /\ request[r].pc # "idle" => request[r].org \in Orgs
        /\ request[r].pc \in Org!SignUpPc =>
               request[r].name \in OrgNames /\ request[r].person \in People
        /\ request[r].rows # {} => request[r].tables # {}

\* The organization is complete, unless a deletion took rows from it.
HasAdmin(o) ==
    o \notin purged =>
        /\ Org!Exists(o) /\ o \in roles
        /\ \E p \in People : user[p] = o /\ (o \notin trimmed => emp[p] = o)

\* Sign-ups past their last insert of people.
Promised == \A r \in Requests : request[r].pc \in {"theme", "mail"} => HasAdmin(request[r].org)

OrgInv == Org!TypeOK /\ Formed /\ Promised /\ Org!AnsweredHasAdmin

-----------------------------------------------------------------------------
LEMMA InitOrgInv == Org!Init => OrgInv
<1> SUFFICES ASSUME Org!Init PROVE OrgInv
  OBVIOUS
<1>1. Org!NoRequest \in Org!Request
  BY DEF Org!NoRequest, Org!Request, Org!SignUpPc
<1>2. Org!TypeOK
  BY <1>1 DEF Org!Init, Org!TypeOK
<1> QED
  BY <1>2 DEF Org!Init, OrgInv, Formed, Promised, Org!AnsweredHasAdmin, Org!NoRequest,
     Org!SignUpPc

\* A request that is none is well-formed.
LEMMA NoRequestTyped ==
    /\ Org!NoRequest \in Org!Request /\ Org!NoRequest.pc = "idle" /\ Org!NoRequest.rows = {}
BY DEF Org!NoRequest, Org!Request, Org!SignUpPc

\* One request changes; the others are as they were.
LEMMA OneRequest ==
    ASSUME OrgInv, NEW r \in Requests, NEW q \in Org!Request,
           request' = [request EXCEPT ![r] = q],
           q.pc # "idle" => q.org \in Orgs,
           q.pc \in Org!SignUpPc => q.name \in OrgNames /\ q.person \in People,
           q.rows # {} => q.tables # {}
    PROVE  request' \in [Requests -> Org!Request] /\ Formed'
BY DEF OrgInv, Org!TypeOK, Formed

\* A step of a sign-up to another place.
LEMMA GotoFormed ==
    ASSUME OrgInv, NEW r \in Requests, NEW pc \in Org!SignUpPc,
           request[r].pc \in Org!SignUpPc, Org!Goto(r, pc)
    PROVE  /\ request' \in [Requests -> Org!Request] /\ Formed'
           /\ \A q \in Requests : request'[q].org = request[q].org
           /\ \A q \in Requests \ {r} : request'[q] = request[q]
           /\ request'[r].pc = pc
<1> DEFINE q == [request[r] EXCEPT !.pc = pc]
<1>1. request[r] \in Org!Request
  BY DEF OrgInv, Org!TypeOK
<1>2. q \in Org!Request /\ q.pc = pc /\ q.org = request[r].org /\ q.name = request[r].name
      /\ q.person = request[r].person /\ q.rows = request[r].rows /\ q.tables = request[r].tables
  BY <1>1 DEF Org!Request
<1>3. request' = [request EXCEPT ![r] = q]
  BY <1>1 DEF Org!Goto, OrgInv, Org!TypeOK
<1>4. pc # "idle"
  BY DEF Org!SignUpPc
<1>5. /\ request[r].org \in Orgs /\ request[r].name \in OrgNames /\ request[r].person \in People
      /\ request[r].rows # {} => request[r].tables # {}
  BY DEF OrgInv, Formed, Org!SignUpPc
<1> HIDE DEF q
<1>6. request' \in [Requests -> Org!Request] /\ Formed'
  BY <1>2, <1>3, <1>5, OneRequest
<1> QED
  BY <1>2, <1>3, <1>6 DEF OrgInv, Org!TypeOK

LEMMA AbandonFormed ==
    ASSUME OrgInv, NEW r \in Requests, Org!Abandon(r)
    PROVE  /\ request' \in [Requests -> Org!Request] /\ Formed'
           /\ \A q \in Requests \ {r} : request'[q] = request[q]
           /\ request'[r].pc = "idle" /\ loop' = None
<1>1. request' = [request EXCEPT ![r] = Org!NoRequest] /\ loop' = None
  BY DEF Org!Abandon
<1>2. Org!NoRequest.pc \notin Org!SignUpPc
  BY DEF Org!NoRequest, Org!SignUpPc
<1>3. request' \in [Requests -> Org!Request] /\ Formed'
  BY <1>1, <1>2, NoRequestTyped, OneRequest
<1> QED
  BY <1>1, <1>3, NoRequestTyped DEF OrgInv, Org!TypeOK

(* Steps after which every organization that was complete still is. *)
LEMMA CompleteStays ==
    ASSUME OrgInv,
           \A o \in Orgs : HasAdmin(o) => HasAdmin(o)',
           \A r \in Requests : request'[r].pc \in {"theme", "mail"} =>
               \/ HasAdmin(request[r].org)'
               \/ request[r].pc \in {"theme", "mail"} /\ request'[r].org = request[r].org,
           \A o \in answered' : o \in answered \/ HasAdmin(o)'
    PROVE  Promised' /\ Org!AnsweredHasAdmin'
<1>1. \A r \in Requests : request[r].pc \in {"theme", "mail"} =>
         request[r].org \in Orgs /\ HasAdmin(request[r].org)
  BY DEF OrgInv, Formed, Promised
<1>2. \A o \in answered : o \in Orgs /\ HasAdmin(o)
  BY DEF OrgInv, Org!TypeOK, Org!AnsweredHasAdmin, HasAdmin
<1>3. \A o \in answered' : HasAdmin(o)'
  BY <1>2
<1>4. Org!AnsweredHasAdmin'
  BY <1>3 DEF Org!AnsweredHasAdmin, HasAdmin
<1>5. ASSUME NEW r \in Requests, request'[r].pc \in {"theme", "mail"}
      PROVE  HasAdmin(request[r].org)'
  <2>1. CASE HasAdmin(request[r].org)'
    BY <2>1
  <2>2. CASE request[r].pc \in {"theme", "mail"} /\ request'[r].org = request[r].org
    <3>1. PICK o \in Orgs : o = request[r].org
      BY <1>1, <2>2
    <3>2. HasAdmin(o)'
      BY <1>1, <2>2, <3>1
    <3>3. request'[r].org = o
      BY <2>2, <3>1
    <3> QED
      BY <3>2, <3>3 DEF HasAdmin, Org!Exists
  <2> QED
    BY <1>5, <2>1, <2>2
<1> QED
  BY <1>4, <1>5 DEF Promised

\* Who is there stays there, or is known to be taken.
LEMMA HasAdminStays ==
    ASSUME NEW o \in Orgs, HasAdmin(o),
           purged \subseteq purged', trimmed \subseteq trimmed',
           o \notin purged' => /\ name[o] # None => name'[o] # None
                               /\ o \in roles => o \in roles'
                               /\ \A p \in People : user[p] = o => user'[p] = o
                               /\ o \notin trimmed' => \A p \in People : emp[p] = o => emp'[p] = o
    PROVE  HasAdmin(o)'
<1> SUFFICES ASSUME o \notin purged'
             PROVE  /\ name'[o] # None /\ o \in roles'
                    /\ \E p \in People : user'[p] = o /\ (o \notin trimmed' => emp'[p] = o)
  BY DEF HasAdmin, Org!Exists
<1>1. name[o] # None /\ o \in roles
  BY DEF HasAdmin, Org!Exists
<1>2. PICK p \in People : user[p] = o /\ (o \notin trimmed => emp[p] = o)
  BY DEF HasAdmin, Org!Exists
<1> QED
  BY <1>1, <1>2

\* A step of a request that leaves people, roles and names alone.
LEMMA QuietStep ==
    ASSUME OrgInv, UNCHANGED <<name, roles, user, emp, Org!history>>,
           setting' \in [Org!Settings -> Orgs \cup {None}],
           request' \in [Requests -> Org!Request], Formed', loop' \in Requests \cup {None},
           \A r \in Requests : request'[r].pc \in {"theme", "mail"} =>
               request[r].pc \in {"theme", "mail"} /\ request'[r].org = request[r].org
    PROVE  OrgInv'
<1>1. \A o \in Orgs : HasAdmin(o) => HasAdmin(o)'
  BY HasAdminStays DEF Org!history
<1>2. Promised' /\ Org!AnsweredHasAdmin'
  BY <1>1, CompleteStays DEF Org!history
<1> QED
  BY <1>2 DEF OrgInv, Org!TypeOK, Org!history

-----------------------------------------------------------------------------
LEMMA SignUpKeeps ==
    ASSUME OrgInv, NEW r \in Requests, NEW o \in Orgs, NEW n \in OrgNames, NEW p \in People,
           NEW form \in Org!Forms, Org!SignUp(r, o, n, p, form)
    PROVE  OrgInv'
<1> DEFINE q == [Org!NoRequest EXCEPT !.pc = "reading", !.org = o, !.name = n, !.person = p,
                                  !.form = form]
<1>1. /\ q \in Org!Request /\ q.pc = "reading" /\ q.org = o /\ q.name = n /\ q.person = p
      /\ q.rows = {}
  BY DEF Org!NoRequest, Org!Request, Org!SignUpPc
<1>2. /\ request' = [request EXCEPT ![r] = q]
      /\ \A c \in Requests : request[c].org # o
      /\ answered' = answered \ {o} /\ purged' = purged \ {o} /\ trimmed' = trimmed \ {o}
      /\ UNCHANGED <<name, roles, user, emp, setting, loop>>
  BY DEF Org!SignUp, Org!database
<1> HIDE DEF q
<1>3. request' \in [Requests -> Org!Request] /\ Formed'
  BY <1>1, <1>2, OneRequest
<1>4. Org!TypeOK'
  BY <1>2, <1>3 DEF OrgInv, Org!TypeOK
<1>5. \A c \in Orgs \ {o} : HasAdmin(c) => HasAdmin(c)'
  BY <1>2 DEF HasAdmin, Org!Exists
<1>6. Org!AnsweredHasAdmin'
  <2>1. \A c \in answered' : c \in Orgs \ {o} /\ c \in answered
    BY <1>2 DEF OrgInv, Org!TypeOK
  <2>2. \A c \in answered : HasAdmin(c)
    BY DEF OrgInv, Org!AnsweredHasAdmin, HasAdmin
  <2>3. \A c \in answered' : HasAdmin(c)'
    BY <1>5, <2>1, <2>2
  <2> QED
    BY <2>3 DEF Org!AnsweredHasAdmin, HasAdmin
<1>7. Promised'
  <2> SUFFICES ASSUME NEW c \in Requests, request'[c].pc \in {"theme", "mail"}
               PROVE  HasAdmin(request[c].org)'
    BY DEF Promised
  <2>1. c # r /\ request'[c] = request[c]
    BY <1>1, <1>2 DEF OrgInv, Org!TypeOK
  <2>2. PICK d \in Orgs \ {o} : d = request[c].org
    BY <1>2, <2>1 DEF OrgInv, Formed
  <2>3. HasAdmin(d)
    BY <2>1, <2>2 DEF OrgInv, Promised
  <2>4. HasAdmin(d)' /\ request'[c].org = d
    BY <1>5, <2>1, <2>2, <2>3
  <2> QED
    BY <2>4 DEF HasAdmin, Org!Exists
<1> QED
  BY <1>3, <1>4, <1>6, <1>7 DEF OrgInv

\* A request is abandoned and nothing else happens.
LEMMA AbandonKeeps ==
    ASSUME OrgInv, NEW r \in Requests, Org!Abandon(r), UNCHANGED <<Org!database, Org!history>>
    PROVE  OrgInv'
<1>1. setting' \in [Org!Settings -> Orgs \cup {None}] /\ UNCHANGED <<name, roles, user, emp, Org!history>>
  BY DEF Org!database, OrgInv, Org!TypeOK
<1> QED
  BY <1>1, AbandonFormed, QuietStep

LEMMA InsertKeeps ==
    ASSUME OrgInv, NEW r \in Requests, Org!Insert(r)
    PROVE  OrgInv'
<1>1. CASE Org!Abandon(r) /\ UNCHANGED name
  BY <1>1, AbandonKeeps DEF Org!Insert, Org!database
<1>2. CASE ~(Org!Abandon(r) /\ UNCHANGED name)
  <2> DEFINE pc == IF request[r].form = "withEmail" THEN "settings" ELSE "role"
  <2>1. /\ name' = [name EXCEPT ![request[r].org] = request[r].name]
        /\ loop' = r /\ Org!Goto(r, pc) /\ request[r].pc = "reading"
        /\ UNCHANGED <<roles, user, emp, setting, answered, purged, trimmed>>
    BY <1>2 DEF Org!Insert, Org!At, Org!history
  <2>2. pc \in Org!SignUpPc \ {"theme", "mail"} /\ request[r].pc \in Org!SignUpPc
    BY <2>1 DEF Org!SignUpPc
  <2> HIDE DEF pc
  <2>3. /\ request' \in [Requests -> Org!Request] /\ Formed' /\ request'[r].pc = pc
        /\ \A q \in Requests \ {r} : request'[q] = request[q]
    BY <2>1, <2>2, GotoFormed
  <2>4. /\ request[r].org \in Orgs /\ request[r].name \in OrgNames
        /\ request[r].name # None
    BY <2>1, <2>2, DomainAssumption DEF OrgInv, Formed
  <2>5. Org!TypeOK'
    BY <2>1, <2>3, <2>4 DEF OrgInv, Org!TypeOK
  <2>6. \A o \in Orgs : name[o] # None => name'[o] # None
    BY <2>1, <2>4 DEF OrgInv, Org!TypeOK
  <2>7. \A o \in Orgs : HasAdmin(o) => HasAdmin(o)'
    BY <2>1, <2>6, HasAdminStays
  <2>8. Promised' /\ Org!AnsweredHasAdmin'
    BY <2>1, <2>2, <2>3, <2>7, CompleteStays
  <2> QED
    BY <2>3, <2>5, <2>8 DEF OrgInv
<1> QED
  BY <1>1, <1>2

\* Steps that write the default settings: they concern nobody else.
LEMMA SettingKeeps ==
    ASSUME OrgInv, NEW r \in Requests, NEW s \in Org!Settings, NEW pc \in Org!SignUpPc \ {"theme"},
           request[r].pc \in Org!SignUpPc, Org!Goto(r, pc),
           pc = "mail" => request[r].pc = "theme",
           setting' = [setting EXCEPT ![s] = request[r].org] \/ setting' = setting,
           UNCHANGED <<name, roles, user, emp, loop, Org!history>>
    PROVE  OrgInv'
<1>1. /\ request' \in [Requests -> Org!Request] /\ Formed' /\ request'[r].pc = pc
      /\ \A q \in Requests : request'[q].org = request[q].org
      /\ \A q \in Requests \ {r} : request'[q] = request[q]
  BY GotoFormed
<1>2. request[r].org \in Orgs
  BY DEF OrgInv, Formed, Org!SignUpPc
<1>3. setting' \in [Org!Settings -> Orgs \cup {None}] /\ loop' \in Requests \cup {None}
  BY <1>2 DEF OrgInv, Org!TypeOK
<1> QED
  BY <1>1, <1>3, QuietStep

LEMMA SettingsKeep ==
    ASSUME OrgInv, NEW r \in Requests, Org!SaveSettings(r) \/ Org!SaveTheme(r)
    PROVE  OrgInv'
<1>1. CASE Org!SaveSettings(r)
  <2>1. PICK pc \in {"role", "broken"} : Org!Goto(r, pc)
    BY <1>1 DEF Org!SaveSettings
  <2>2. "email" \in Org!Settings /\ pc \in Org!SignUpPc \ {"theme"} /\ request[r].pc \in Org!SignUpPc
    BY <1>1 DEF Org!SaveSettings, Org!At, Org!Settings, Org!SignUpPc
  <2>3. setting' = [setting EXCEPT !["email"] = request[r].org] \/ setting' = setting
    BY <1>1 DEF Org!SaveSettings
  <2> QED
    BY <1>1, <2>1, <2>2, <2>3, SettingKeeps DEF Org!SaveSettings
<1>2. CASE Org!SaveTheme(r) /\ Org!Goto(r, "mail")
  <2>1. "theme" \in Org!Settings /\ "mail" \in Org!SignUpPc \ {"theme"} /\ request[r].pc \in Org!SignUpPc
        /\ request[r].pc = "theme"
    BY <1>2 DEF Org!SaveTheme, Org!At, Org!Settings, Org!SignUpPc
  <2>2. setting' = [setting EXCEPT !["theme"] = request[r].org] \/ setting' = setting
    BY <1>2 DEF Org!SaveTheme
  <2>3. UNCHANGED <<name, roles, user, emp, Org!history>>
    BY <1>2 DEF Org!SaveTheme
  <2>4. CASE UNCHANGED loop
    BY <1>2, <2>1, <2>2, <2>3, <2>4, SettingKeeps
  <2>5. CASE ~UNCHANGED loop
    BY <1>2, <2>3, <2>5, AbandonKeeps DEF Org!SaveTheme, Org!database
  <2> QED
    BY <2>4, <2>5
<1>3. CASE Org!SaveTheme(r) /\ Org!Abandon(r) /\ UNCHANGED setting
  BY <1>3, AbandonKeeps DEF Org!SaveTheme, Org!database
<1> QED
  BY <1>1, <1>2, <1>3 DEF Org!SaveTheme

LEMMA SaveRoleKeeps ==
    ASSUME OrgInv, NEW r \in Requests, Org!SaveRole(r)
    PROVE  OrgInv'
<1>1. CASE Org!Abandon(r) /\ UNCHANGED roles
  BY <1>1, AbandonKeeps DEF Org!SaveRole, Org!database
<1>2. CASE ~(Org!Abandon(r) /\ UNCHANGED roles)
  <2>1. /\ roles' = roles \cup {request[r].org} /\ Org!Goto(r, "admin") /\ request[r].pc = "role"
        /\ UNCHANGED <<name, user, emp, setting, loop, answered, purged, trimmed>>
    BY <1>2 DEF Org!SaveRole, Org!At, Org!history
  <2>2. "admin" \in Org!SignUpPc /\ request[r].pc \in Org!SignUpPc
    BY <2>1 DEF Org!SignUpPc
  <2>3. /\ request' \in [Requests -> Org!Request] /\ Formed' /\ request'[r].pc = "admin"
        /\ \A q \in Requests \ {r} : request'[q] = request[q]
    BY <2>1, <2>2, GotoFormed
  <2>4. request[r].org \in Orgs
    BY <2>1 DEF OrgInv, Formed
  <2>5. Org!TypeOK'
    BY <2>1, <2>3, <2>4 DEF OrgInv, Org!TypeOK
  <2>6. \A o \in Orgs : HasAdmin(o) => HasAdmin(o)'
    BY <2>1, HasAdminStays
  <2>7. Promised' /\ Org!AnsweredHasAdmin'
    BY <2>1, <2>3, <2>6, CompleteStays
  <2> QED
    BY <2>3, <2>5, <2>7 DEF OrgInv
<1> QED
  BY <1>1, <1>2

LEMMA SaveAdminKeeps ==
    ASSUME OrgInv, NEW r \in Requests, Org!SaveAdmin(r)
    PROVE  OrgInv'
<1>1. CASE Org!Abandon(r) /\ UNCHANGED <<emp, user>>
  BY <1>1, AbandonKeeps DEF Org!SaveAdmin, Org!database
<1>2. CASE ~(Org!Abandon(r) /\ UNCHANGED <<emp, user>>)
  <2>1. PICK o \in Orgs, p \in People : o = request[r].org /\ p = request[r].person
    BY <1>2 DEF Org!SaveAdmin, Org!At, OrgInv, Formed, Org!SignUpPc
  <2>2. PICK pc \in {"second", "theme", "mail"} :
           /\ Org!Goto(r, pc) /\ request[r].pc = "admin" /\ Org!Insertable(o, p)
           /\ emp' = [emp EXCEPT ![p] = o] /\ user' = [user EXCEPT ![p] = o]
           /\ UNCHANGED <<name, roles, setting, loop, answered, purged, trimmed>>
    BY <1>2, <2>1 DEF Org!SaveAdmin, Org!At, Org!history
  <2>3. pc \in Org!SignUpPc /\ request[r].pc \in Org!SignUpPc
    BY <2>2 DEF Org!SignUpPc
  <2>4. /\ request' \in [Requests -> Org!Request] /\ Formed' /\ request'[r].pc = pc
        /\ \A q \in Requests : request'[q].org = request[q].org
        /\ \A q \in Requests \ {r} : request'[q] = request[q]
    BY <2>2, <2>3, GotoFormed
  <2>5. o # None
    BY DomainAssumption
  <2>6. Org!TypeOK'
    BY <2>2, <2>4, <2>5 DEF OrgInv, Org!TypeOK
  <2>7. /\ name[o] # None /\ o \in roles /\ emp[p] = None /\ user[p] \in {None, o}
        /\ \A x \in People : /\ emp'[x] = IF x = p THEN o ELSE emp[x]
                             /\ user'[x] = IF x = p THEN o ELSE user[x]
    BY <2>2, <2>5 DEF Org!Insertable, Org!Exists, OrgInv, Org!TypeOK
  <2>8. \A c \in Orgs : HasAdmin(c) => HasAdmin(c)'
    <3> SUFFICES ASSUME NEW c \in Orgs, HasAdmin(c)
                 PROVE  HasAdmin(c)'
      OBVIOUS
    <3>1. \A x \in People : user[x] = c => user'[x] = c
      BY <2>5, <2>7, DomainAssumption
    <3>2. \A x \in People : emp[x] = c => emp'[x] = c
      BY <2>5, <2>7, DomainAssumption
    <3> QED
      BY <2>2, <3>1, <3>2, HasAdminStays
  <2>9. HasAdmin(o)'
    BY <2>2, <2>5, <2>7 DEF HasAdmin, Org!Exists
  <2>10. request'[r].org = o
    BY <2>4, <2>1
  <2>11. \A q \in Requests : request'[q].pc \in {"theme", "mail"} =>
             \/ HasAdmin(request[q].org)'
             \/ request[q].pc \in {"theme", "mail"} /\ request'[q].org = request[q].org
    <3>1. HasAdmin(request[r].org)'
      BY <2>9, <2>10 DEF HasAdmin, Org!Exists
    <3> QED
      BY <2>4, <3>1
  <2>12. Promised' /\ Org!AnsweredHasAdmin'
    BY <2>2, <2>8, <2>11, CompleteStays
  <2> QED
    BY <2>4, <2>6, <2>12 DEF OrgInv
<1> QED
  BY <1>1, <1>2

LEMMA EndsKeep ==
    ASSUME OrgInv, NEW r \in Requests, Org!Break(r) \/ Org!SaveSecond(r)
    PROVE  OrgInv'
BY AbandonKeeps DEF Org!Break, Org!SaveSecond

LEMMA AnswerKeeps ==
    ASSUME OrgInv, NEW r \in Requests, Org!Answer(r)
    PROVE  OrgInv'
<1>1. /\ request[r].pc = "mail" /\ Org!Abandon(r)
      /\ UNCHANGED <<name, roles, user, emp, setting, purged, trimmed>>
      /\ answered' \subseteq answered \cup {request[r].org}
  BY DEF Org!Answer, Org!At, Org!database
<1>2. /\ request' \in [Requests -> Org!Request] /\ Formed' /\ request'[r].pc = "idle"
      /\ loop' = None /\ \A q \in Requests \ {r} : request'[q] = request[q]
  BY <1>1, AbandonFormed
<1>3. PICK o \in Orgs : o = request[r].org /\ HasAdmin(o)
  BY <1>1 DEF OrgInv, Formed, Promised
<1>4. Org!TypeOK'
  BY <1>1, <1>2, <1>3 DEF OrgInv, Org!TypeOK
<1>5. \A c \in Orgs : HasAdmin(c) => HasAdmin(c)'
  BY <1>1, HasAdminStays
<1>6. \A c \in answered' : c \in answered \/ HasAdmin(c)'
  BY <1>1, <1>3, <1>5
<1>7. Promised' /\ Org!AnsweredHasAdmin'
  BY <1>2, <1>5, <1>6, CompleteStays
<1> QED
  BY <1>2, <1>4, <1>7 DEF OrgInv

LEMMA UpdateKeeps ==
    ASSUME OrgInv, NEW o \in Orgs, NEW kept \in SUBSET People, Org!Update(o, kept)
    PROVE  OrgInv'
<1>1. /\ emp' = Org!Listed(o, kept) /\ trimmed' = trimmed \cup {o}
      /\ UNCHANGED <<name, roles, user, setting, request, loop, answered, purged>>
  BY DEF Org!Update
<1>2. Org!TypeOK' /\ Formed'
  BY <1>1 DEF OrgInv, Org!TypeOK, Org!Listed, Formed
<1>3. \A p \in People, c \in Orgs \ {o} : emp[p] = c => emp'[p] = c
  BY <1>1 DEF Org!Listed
<1>4. ASSUME NEW c \in Orgs, HasAdmin(c)
      PROVE  HasAdmin(c)'
  BY <1>1, <1>3, <1>4, HasAdminStays
<1>5. Promised' /\ Org!AnsweredHasAdmin'
  BY <1>1, <1>4, CompleteStays
<1> QED
  BY <1>2, <1>5 DEF OrgInv

-----------------------------------------------------------------------------
\* What a deletion collects are rows, of a table that is left.
LEMMA FirstLeft ==
    ASSUME NEW tables \in SUBSET DOMAIN Org!Order, tables # {}
    PROVE  Org!First(tables) \in tables
<1>1. DOMAIN Org!Order = 1 .. 4
  BY DEF Org!Order
<1>2. \E i \in tables : \A j \in tables : i <= j
  <2>1. CASE 1 \in tables
    BY <1>1, <2>1
  <2>2. CASE 1 \notin tables /\ 2 \in tables
    BY <1>1, <2>2
  <2>3. CASE 1 \notin tables /\ 2 \notin tables /\ 3 \in tables
    BY <1>1, <2>3
  <2>4. CASE tables \subseteq {4}
    BY <2>4
  <2> QED
    BY <1>1, <2>1, <2>2, <2>3, <2>4
<1> QED
  BY <1>2 DEF Org!First

LEMMA RowsTyped ==
    ASSUME Org!TypeOK, NEW i \in DOMAIN Org!Order
    PROVE  Org!RowsOf(Org!Order[i]) \in SUBSET (Orgs \X (People \cup Org!Settings \cup {None}))
<1>1. Org!Order[i] \in {"users", "roles", "settings", "employees"}
  BY DEF Org!Order
<1>2. CASE Org!Order[i] = "users"
  BY <1>2 DEF Org!RowsOf, Org!TypeOK
<1>3. CASE Org!Order[i] = "roles"
  BY <1>3 DEF Org!RowsOf, Org!TypeOK
<1>4. CASE Org!Order[i] = "settings"
  BY <1>4 DEF Org!RowsOf, Org!TypeOK
<1>5. CASE Org!Order[i] = "employees"
  BY <1>5 DEF Org!RowsOf, Org!TypeOK
<1> QED
  BY <1>1, <1>2, <1>3, <1>4, <1>5

LEMMA CollectedTyped ==
    ASSUME Org!TypeOK, NEW tables \in SUBSET DOMAIN Org!Order
    PROVE  /\ Org!Collected(tables) \in SUBSET (Orgs \X (People \cup Org!Settings \cup {None}))
           /\ Org!Collected(tables) # {} => tables # {}
BY FirstLeft, RowsTyped DEF Org!Collected

LEMMA DeleteKeeps ==
    ASSUME OrgInv, NEW r \in Requests, NEW o \in Orgs, Org!Delete(r, o)
    PROVE  OrgInv'
<1> DEFINE tables == {i \in DOMAIN Org!Order : Org!RowsOf(Org!Order[i]) # {}}
           q == [Org!NoRequest EXCEPT !.pc = "deleting", !.org = o, !.tables = tables,
                                  !.rows = Org!Collected(tables)]
<1>1. /\ tables \in SUBSET DOMAIN Org!Order
      /\ Org!Collected(tables) \in SUBSET (Orgs \X (People \cup Org!Settings \cup {None}))
      /\ Org!Collected(tables) # {} => tables # {}
  BY CollectedTyped DEF OrgInv
<1>2. request' = [request EXCEPT ![r] = q] /\ UNCHANGED <<Org!database, loop, Org!history>>
  BY DEF Org!Delete
<1> HIDE DEF tables
<1>3. /\ q \in Org!Request /\ q.pc = "deleting" /\ q.org = o
      /\ q.rows = Org!Collected(tables) /\ q.tables = tables
  BY <1>1 DEF Org!NoRequest, Org!Request
<1> HIDE DEF q
<1>4. "deleting" \notin Org!SignUpPc \cup {"theme", "mail"}
  BY DEF Org!SignUpPc
<1>5. request' \in [Requests -> Org!Request] /\ Formed'
  BY <1>1, <1>2, <1>3, <1>4, OneRequest
<1>6. \A c \in Requests : c # r => request'[c] = request[c]
  BY <1>2 DEF OrgInv, Org!TypeOK
<1>7. request'[r] = q
  BY <1>2 DEF OrgInv, Org!TypeOK
<1>8. setting' \in [Org!Settings -> Orgs \cup {None}] /\ loop' \in Requests \cup {None}
      /\ UNCHANGED <<name, roles, user, emp, Org!history>>
  BY <1>2 DEF Org!database, OrgInv, Org!TypeOK
<1> QED
  BY <1>3, <1>4, <1>5, <1>6, <1>7, <1>8, QuietStep

\* A deletion goes on with what it has left.
LEMMA DeletingFormed ==
    ASSUME OrgInv, NEW r \in Requests, request[r].pc = "deleting",
           NEW tables \in SUBSET DOMAIN Org!Order,
           NEW rows \in SUBSET (Orgs \X (People \cup Org!Settings \cup {None})),
           rows # {} => tables # {},
           request' = [request EXCEPT ![r].tables = tables, ![r].rows = rows]
    PROVE  /\ request' \in [Requests -> Org!Request] /\ Formed'
           /\ \A c \in Requests \ {r} : request'[c] = request[c]
           /\ request'[r].pc = "deleting"
<1> DEFINE q == [request[r] EXCEPT !.tables = tables, !.rows = rows]
<1>1. request[r] \in Org!Request /\ request[r].org \in Orgs /\ "deleting" \notin Org!SignUpPc
  BY DEF OrgInv, Org!TypeOK, Formed, Org!SignUpPc
<1>2. /\ q \in Org!Request /\ q.pc = "deleting" /\ q.org = request[r].org
      /\ q.rows = rows /\ q.tables = tables
  BY <1>1 DEF Org!Request
<1>3. request' = [request EXCEPT ![r] = q]
  BY DEF OrgInv, Org!TypeOK
<1> HIDE DEF q
<1>4. request' \in [Requests -> Org!Request] /\ Formed'
  BY <1>1, <1>2, <1>3, OneRequest
<1> QED
  BY <1>2, <1>3, <1>4 DEF OrgInv, Org!TypeOK

\* The rows a deletion still has to look at, less one.
LEMMA RowDoneFormed ==
    ASSUME OrgInv, NEW r \in Requests, request[r].pc = "deleting", NEW row,
           request' = [request EXCEPT ![r].rows = @ \ {row}]
    PROVE  /\ request' \in [Requests -> Org!Request] /\ Formed'
           /\ \A c \in Requests \ {r} : request'[c] = request[c]
           /\ request'[r].pc = "deleting"
<1>1. request[r] \in Org!Request
  BY DEF OrgInv, Org!TypeOK
<1>2. PICK tables, rows : tables = request[r].tables /\ rows = request[r].rows \ {row}
  OBVIOUS
<1>3. /\ tables \in SUBSET DOMAIN Org!Order /\ (rows # {} => tables # {})
      /\ rows \in SUBSET (Orgs \X (People \cup Org!Settings \cup {None}))
  BY <1>1, <1>2 DEF Org!Request, OrgInv, Formed
<1>4. request' = [request EXCEPT ![r].tables = tables, ![r].rows = rows]
  BY <1>1, <1>2 DEF Org!Request, OrgInv, Org!TypeOK
<1> QED
  BY <1>3, <1>4, DeletingFormed

LEMMA DeleteRowKeeps ==
    ASSUME OrgInv, NEW r \in Requests, Org!DeleteRow(r)
    PROVE  OrgInv'
<1> DEFINE i == Org!First(request[r].tables)
<1>1. PICK row \in request[r].rows \cap Org!RowsOf(Org!Order[i]) :
         /\ request' = [request EXCEPT ![r].rows = @ \ {row}]
         /\ user' = CASE Org!Order[i] = "users" -> [user EXCEPT ![row[2]] = None]
                      [] Org!Order[i] = "roles" -> [p \in People |-> IF user[p] = row[1] THEN None ELSE user[p]]
                      [] OTHER -> user
         /\ roles' = IF Org!Order[i] = "roles" THEN roles \ {row[1]} ELSE roles
         /\ setting' = IF Org!Order[i] = "settings" THEN [setting EXCEPT ![row[2]] = None] ELSE setting
         /\ emp' = IF Org!Order[i] = "employees" THEN [emp EXCEPT ![row[2]] = None] ELSE emp
         /\ purged' = purged \cup {row[1]}
         /\ UNCHANGED <<name, loop, answered, trimmed>>
         /\ request[r].pc = "deleting"
  BY DEF Org!DeleteRow, Org!At
<1>2. /\ request' \in [Requests -> Org!Request] /\ Formed'
      /\ \A c \in Requests \ {r} : request'[c] = request[c]
      /\ request'[r].pc = "deleting"
  BY <1>1, RowDoneFormed
<1>3. i \in DOMAIN Org!Order
  <2>1. request[r].tables # {} /\ request[r].tables \in SUBSET DOMAIN Org!Order
    BY <1>1 DEF OrgInv, Org!TypeOK, Formed, Org!Request
  <2> QED
    BY <2>1, FirstLeft
<1>4. row[1] \in Orgs
  BY <1>1, <1>3, RowsTyped DEF OrgInv
<1>5. Org!Order[i] \in {"users", "roles", "settings", "employees"}
  BY <1>3 DEF Org!Order
<1> HIDE DEF i
<1>6. /\ user' \in [People -> Orgs \cup {None}] /\ roles' \subseteq Orgs
      /\ setting' \in [Org!Settings -> Orgs \cup {None}] /\ emp' \in [People -> Orgs \cup {None}]
  BY <1>1, <1>5 DEF OrgInv, Org!TypeOK
<1>7. Org!TypeOK'
  BY <1>1, <1>2, <1>4, <1>6 DEF OrgInv, Org!TypeOK
<1>8. \A c \in Orgs \ {row[1]} :
         /\ c \in roles => c \in roles'
         /\ \A p \in People : (user[p] = c => user'[p] = c) /\ (emp[p] = c => emp'[p] = c)
  <2>1. CASE Org!Order[i] = "users"
    <3>1. PICK p \in People : row = <<user[p], p>>
      BY <1>1, <2>1 DEF Org!RowsOf
    <3> QED
      BY <1>1, <2>1, <3>1 DEF OrgInv, Org!TypeOK
  <2>2. CASE Org!Order[i] = "roles"
    BY <1>1, <2>2 DEF OrgInv, Org!TypeOK
  <2>3. CASE Org!Order[i] = "settings"
    BY <1>1, <2>3
  <2>4. CASE Org!Order[i] = "employees"
    <3>1. PICK p \in People : row = <<emp[p], p>>
      BY <1>1, <2>4 DEF Org!RowsOf
    <3> QED
      BY <1>1, <2>4, <3>1 DEF OrgInv, Org!TypeOK
  <2> QED
    BY <1>5, <2>1, <2>2, <2>3, <2>4
<1>9. \A c \in Orgs : HasAdmin(c) => HasAdmin(c)'
  BY <1>1, <1>8, HasAdminStays
<1>10. Promised' /\ Org!AnsweredHasAdmin'
  BY <1>1, <1>2, <1>9, CompleteStays
<1> QED
  BY <1>2, <1>7, <1>10 DEF OrgInv

LEMMA RowIsGoneKeeps ==
    ASSUME OrgInv, NEW r \in Requests, Org!RowIsGone(r)
    PROVE  OrgInv'
<1>1. request[r].pc = "deleting" /\ UNCHANGED <<name, roles, user, emp, setting, loop, Org!history>>
  BY DEF Org!RowIsGone, Org!At, Org!database
<1>2. setting' \in [Org!Settings -> Orgs \cup {None}] /\ loop' \in Requests \cup {None}
  BY <1>1 DEF OrgInv, Org!TypeOK
<1>3. CASE request' = [request EXCEPT ![r] = Org!NoRequest]
  <2>1. request' \in [Requests -> Org!Request] /\ Formed'
    BY <1>3, NoRequestTyped, OneRequest DEF Org!SignUpPc
  <2>2. \A c \in Requests : request'[c] = IF c = r THEN Org!NoRequest ELSE request[c]
    BY <1>3 DEF OrgInv, Org!TypeOK
  <2> QED
    BY <1>1, <1>2, <2>1, <2>2, NoRequestTyped, QuietStep
<1>4. CASE \E row : request' = [request EXCEPT ![r].rows = @ \ {row}]
  BY <1>1, <1>2, <1>4, RowDoneFormed, QuietStep
<1> QED
  BY <1>3, <1>4 DEF Org!RowIsGone

LEMMA NextTableKeeps ==
    ASSUME OrgInv, NEW r \in Requests, Org!NextTable(r)
    PROVE  OrgInv'
<1>1. PICK rest : rest = request[r].tables \ {Org!First(request[r].tables)}
  OBVIOUS
<1>2. PICK rows : rows = Org!Collected(rest)
  OBVIOUS
<1>3. /\ request[r].pc = "deleting"
      /\ request' = [request EXCEPT ![r].tables = rest, ![r].rows = rows]
      /\ UNCHANGED <<name, roles, user, emp, setting, loop, Org!history>>
  BY <1>1, <1>2 DEF Org!NextTable, Org!At, Org!database
<1>4. rest \in SUBSET DOMAIN Org!Order
  BY <1>1 DEF OrgInv, Org!TypeOK, Org!Request
<1>5. /\ rows \in SUBSET (Orgs \X (People \cup Org!Settings \cup {None}))
      /\ rows # {} => rest # {}
  BY <1>2, <1>4, CollectedTyped DEF OrgInv
<1>6. /\ request' \in [Requests -> Org!Request] /\ Formed'
      /\ \A c \in Requests \ {r} : request'[c] = request[c]
      /\ request'[r].pc = "deleting"
  BY <1>3, <1>4, <1>5, DeletingFormed
<1>7. setting' \in [Org!Settings -> Orgs \cup {None}] /\ loop' \in Requests \cup {None}
  BY <1>3 DEF OrgInv, Org!TypeOK
<1> QED
  BY <1>3, <1>6, <1>7, QuietStep

LEMMA DeleteLastKeeps ==
    ASSUME OrgInv, NEW r \in Requests, Org!DeleteLast(r)
    PROVE  OrgInv'
<1>1. /\ request[r].pc = "deleting" /\ request' = [request EXCEPT ![r] = Org!NoRequest]
      /\ UNCHANGED <<loop, answered, trimmed>>
  BY DEF Org!DeleteLast, Org!At
<1>2. request' \in [Requests -> Org!Request] /\ Formed'
  BY <1>1, NoRequestTyped, OneRequest DEF Org!SignUpPc
<1>3. \A c \in Requests : request'[c] = IF c = r THEN Org!NoRequest ELSE request[c]
  BY <1>1 DEF OrgInv, Org!TypeOK
<1>4. CASE UNCHANGED <<Org!database, purged>>
  <2>1. /\ setting' \in [Org!Settings -> Orgs \cup {None}] /\ loop' \in Requests \cup {None}
        /\ UNCHANGED <<name, roles, user, emp, Org!history>>
    BY <1>1, <1>4 DEF Org!database, Org!history, OrgInv, Org!TypeOK
  <2> QED
    BY <1>2, <1>3, <2>1, NoRequestTyped, QuietStep
<1>5. CASE Org!Erase(request[r].org)
  <2>1. PICK o \in Orgs : o = request[r].org
    BY <1>1 DEF OrgInv, Formed
  <2>2. /\ name' = [name EXCEPT ![o] = None] /\ roles' = roles \ {o}
        /\ user' = [p \in People |-> IF user[p] = o THEN None ELSE user[p]]
        /\ emp' = [p \in People |-> IF emp[p] = o THEN None ELSE emp[p]]
        /\ setting' = [s \in Org!Settings |-> IF setting[s] = o THEN None ELSE setting[s]]
        /\ purged' = purged \cup {o}
    BY <1>5, <2>1 DEF Org!Erase
  <2>3. Org!TypeOK'
    BY <1>1, <1>2, <2>2 DEF OrgInv, Org!TypeOK
  <2>4. \A c \in Orgs \ {o} :
           /\ name'[c] = name[c]
           /\ \A p \in People : (user[p] = c => user'[p] = c) /\ (emp[p] = c => emp'[p] = c)
    BY <2>2 DEF OrgInv, Org!TypeOK
  <2>5. \A c \in Orgs : HasAdmin(c) => HasAdmin(c)'
    BY <1>1, <2>2, <2>4, HasAdminStays
  <2>6. Promised' /\ Org!AnsweredHasAdmin'
    BY <1>1, <1>3, <2>5, NoRequestTyped, CompleteStays
  <2> QED
    BY <1>2, <2>3, <2>6 DEF OrgInv
<1> QED
  BY <1>4, <1>5 DEF Org!DeleteLast

LEMMA CrashKeeps ==
    ASSUME OrgInv, Org!Crash
    PROVE  OrgInv'
<1>1. /\ request' = [r \in Requests |-> Org!NoRequest] /\ loop' = None
      /\ UNCHANGED <<name, roles, user, emp, setting, Org!history>>
  BY DEF Org!Crash, Org!database
<1>2. request' \in [Requests -> Org!Request] /\ Formed'
  BY <1>1, NoRequestTyped DEF Formed, Org!SignUpPc
<1>3. setting' \in [Org!Settings -> Orgs \cup {None}]
  BY <1>1 DEF OrgInv, Org!TypeOK
<1> QED
  BY <1>1, <1>2, <1>3, NoRequestTyped, QuietStep

LEMMA NextOrgInv ==
    ASSUME OrgInv, [Org!Next]_(Org!vars)
    PROVE  OrgInv'
<1>1. CASE \E r \in Requests, o \in Orgs, n \in OrgNames, p \in People, f \in Org!Forms :
              Org!SignUp(r, o, n, p, f)
  BY <1>1, SignUpKeeps
<1>2. CASE \E r \in Requests, o \in Orgs : Org!Delete(r, o)
  BY <1>2, DeleteKeeps
<1>3. CASE \E o \in Orgs, kept \in SUBSET People : Org!Update(o, kept)
  BY <1>3, UpdateKeeps
<1>4. CASE \E r \in Requests : Org!Step(r)
  BY <1>4, InsertKeeps, SettingsKeep, EndsKeep, SaveRoleKeeps, SaveAdminKeeps, AnswerKeeps,
     DeleteRowKeeps, RowIsGoneKeeps, NextTableKeeps, DeleteLastKeeps DEF Org!Step
<1>5. CASE Org!Crash
  BY <1>5, CrashKeeps
<1>6. CASE UNCHANGED Org!vars
  BY <1>6, QuietStep DEF Org!vars, Org!history, OrgInv, Org!TypeOK, Formed
<1> QED
  BY <1>1, <1>2, <1>3, <1>4, <1>5, <1>6 DEF Org!Next

LEMMA AlwaysOrgInv == Org!Spec => []OrgInv
<1>1. OrgInv /\ [Org!Next]_(Org!vars) => OrgInv'
  BY NextOrgInv
<1> QED
  BY InitOrgInv, <1>1, PTL DEF Org!Spec

(***************************************************************************)
(* Requests, organizations and what they own keep their types.             *)
(***************************************************************************)
THEOREM OrganizationsTyped == Org!Spec => []Org!TypeOK
<1>1. OrgInv => Org!TypeOK
  BY DEF OrgInv
<1> QED
  BY AlwaysOrgInv, <1>1, PTL

-----------------------------------------------------------------------------
(* Side by side.                                                           *)

\* What each of them does here is what it does alone.
LEMMA SideBySide == SpecAll => Spec /\ Org!Spec
<1>1. InitAll => Init /\ Org!Init
  BY DEF InitAll
<1>2. [NextAll]_allVars => [Next]_vars /\ [Org!Next]_(Org!vars)
  BY DEF NextAll, allVars, organizationVars, vars, Org!vars
<1> QED
  BY <1>1, <1>2, PTL DEF SpecAll, Spec, Org!Spec

(***************************************************************************)
(* The rows of departments, branches and organizations, and the requests   *)
(* in flight, keep their types.                                            *)
(***************************************************************************)
THEOREM RecordsTyped == SpecAll => []AllTypeOK
<1>1. TypeOK /\ Org!TypeOK => AllTypeOK
  BY DEF AllTypeOK
<1> QED
  BY SideBySide, TypeCorrect, OrganizationsTyped, <1>1, PTL

(***************************************************************************)
(* Whoever was answered 201 can log in: for any number of sign-ups that    *)
(* overlap with each other, with deletions, updates and crashes, an        *)
(* organization whose sign-up was answered has a role, a user and its      *)
(* employee, unless a deletion took rows of it.                            *)
(***************************************************************************)
THEOREM AnsweredCanLogIn == SpecAll => []AnsweredHasAdmin
<1>1. OrgInv => AnsweredHasAdmin
  BY DEF OrgInv, AnsweredHasAdmin
<1> QED
  BY SideBySide, AlwaysOrgInv, <1>1, PTL
=============================================================================
