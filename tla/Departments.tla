----------------------------- MODULE Departments -----------------------------
(***************************************************************************)
(* Departments and branches and who heads them: Crud/department.py and     *)
(* Crud/branch.py behind their endpoints, and the appointments made while  *)
(* an employee is created.                                                 *)
(*                                                                         *)
(* The endpoints are async and await nothing, so each is one step; a       *)
(* deletion of an employee (a thread) in the middle of one ends as the     *)
(* foreign key does, as if it had come first.  Names of branches are left  *)
(* out: only a refusal depends on them.                                    *)
(***************************************************************************)
EXTENDS RecordsDomain

VARIABLES
    branched,  \* organizations whose nature is "Branch Managed"
    hired,     \* employees that exist
    dept,      \* the table departments
    branch,    \* the table branches
    unchecked  \* history: who got a post, or whose post moved, without a check

vars == <<branched, hired, dept, branch, unchecked>>

\* A row exists if it has an organization: organization_id is not nullable.
Department == [org : Orgs \cup {None}, name : DeptNames \cup {None},
               head : Staff \cup {None}, branch : BranchIds \cup {None}]
Branch == [org : Orgs \cup {None}, manager : Staff \cup {None}]

NoDepartment == [org |-> None, name |-> None, head |-> None, branch |-> None]
NoBranch == [org |-> None, manager |-> None]

TypeOK ==
    /\ branched \subseteq Orgs
    /\ hired \subseteq Staff
    /\ dept \in [DeptIds -> Department]
    /\ branch \in [BranchIds -> Branch]
    /\ unchecked \subseteq Staff

Init ==
    /\ branched \in SUBSET Orgs
    /\ hired = {}
    /\ dept = [d \in DeptIds |-> NoDepartment]
    /\ branch = [b \in BranchIds |-> NoBranch]
    /\ unchecked = {}

Depts == {d \in DeptIds : dept[d].org # None}
Branches == {b \in BranchIds : branch[b].org # None}

Headed(e, o) == {d \in Depts : dept[d].head = e /\ dept[d].org = o}

\* The query joins branches and organizations on nothing: any branch will do.
Managed(e, o) == {b \in Branches : branch[b].manager = e}

-----------------------------------------------------------------------------
\* A mutant: uq_hod_per_org is missing.
StorableByName(d, row) ==
    /\ row.head \in hired \cup {None}
    /\ row.branch \in Branches \cup {None}
    /\ \A other \in Depts \ {d} :
          dept[other].org = row.org => dept[other].name # row.name

\* uq_department_name_per_org and uq_hod_per_org; foreign keys.
Storable(d, row) ==
    /\ row.head \in hired \cup {None}
    /\ row.branch \in Branches \cup {None}
    /\ \A other \in Depts \ {d} :
          dept[other].org = row.org =>
              /\ dept[other].name # row.name
              /\ row.head # None => dept[other].head # row.head

\* The manager check runs for a department of a branch only; without a head it
\* asks for manager_id IS NULL, and finds the branches without a manager.
CreateDepartment(o, d, n, e, b) ==
    LET row == [org |-> o, name |-> n, head |-> e, branch |-> b] IN
    /\ d \notin Depts
    /\ e # None => Headed(e, o) = {}
    /\ b # None => /\ o \in branched
                   /\ \A x \in Depts : dept[x].branch = b => dept[x].name # n
                   /\ Managed(e, o) = {}
    /\ Storable(d, row)
    /\ dept' = [dept EXCEPT ![d] = row]
    /\ UNCHANGED <<branched, hired, branch, unchecked>>

\* The columns that are set are assigned; only the constraints can refuse.
UpdateDepartment(d, n, e, b) ==
    LET row == [org |-> dept[d].org, name |-> n, head |-> e, branch |-> b] IN
    /\ d \in Depts
    /\ row # dept[d]
    /\ Storable(d, row)
    /\ dept' = [dept EXCEPT ![d] = row]
    /\ unchecked' = unchecked \cup ({e} \ {None})
    /\ UNCHANGED <<branched, hired, branch>>

DeleteDepartment(d) ==
    /\ d \in Depts
    /\ dept' = [dept EXCEPT ![d] = NoDepartment]
    /\ UNCHANGED <<branched, hired, branch, unchecked>>

CreateBranch(o, b, e) ==
    /\ b \notin Branches
    /\ o \in branched
    /\ e # None => Headed(e, o) = {} /\ Managed(e, o) = {}
    /\ e \in hired \cup {None}
    /\ branch' = [branch EXCEPT ![b] = [org |-> o, manager |-> e]]
    /\ UNCHANGED <<branched, hired, dept, unchecked>>

UpdateBranch(b, e) ==
    /\ b \in Branches
    /\ e # branch[b].manager
    /\ e \in hired \cup {None}
    /\ branch' = [branch EXCEPT ![b].manager = e]
    /\ unchecked' = unchecked \cup ({e} \ {None})
    /\ UNCHANGED <<branched, hired, dept>>

\* A mutant: only the departments of the branch's own organization.
OfBranchHere(b) == {d \in Depts : dept[d].branch = b /\ dept[d].org = branch[b].org}

\* The departments go with their branch, by the cascade of the relationship.
OfBranch(b) == {d \in Depts : dept[d].branch = b}

DeleteBranch(b) ==
    /\ b \in Branches
    /\ dept' = [d \in DeptIds |-> IF d \in OfBranch(b) THEN NoDepartment ELSE dept[d]]
    /\ branch' = [branch EXCEPT ![b] = NoBranch]
    /\ UNCHANGED <<branched, hired, unchecked>>

-----------------------------------------------------------------------------
(***************************************************************************)
(* create_user appoints the new employee: head of department d if the role *)
(* has "department:head:dashboard", manager of branch b if it has          *)
(* "branch:manager".  Ids are looked up everywhere.  The commits of this   *)
(* are one step, for nothing is awaited between them: cut off by a crash,  *)
(* it is a Hire with fewer posts; when the employee is deleted in between, *)
(* the foreign key refuses the posts that are left, as after the deletion. *)
(***************************************************************************)
Hire(e, d, b) ==
    /\ e \notin hired
    /\ d \in Depts \cup {None} /\ b \in Branches \cup {None}
    /\ hired' = hired \cup {e}
    /\ dept' = IF d = None THEN dept ELSE [dept EXCEPT ![d].head = e]
    /\ branch' = IF b = None THEN branch ELSE [branch EXCEPT ![b].manager = e]
    /\ unchecked' = IF d # None /\ b # None THEN unchecked \cup {e} ELSE unchecked
    /\ UNCHANGED branched

\* A mutant: the branch goes with its manager, as by ON DELETE CASCADE.
VacatedByCascade(e) ==
    /\ dept' = [d \in DeptIds |-> IF dept[d].head = e
                                  THEN [dept[d] EXCEPT !.head = None] ELSE dept[d]]
    /\ branch' = [b \in BranchIds |-> IF branch[b].manager = e THEN None ELSE branch[b]]

\* ON DELETE SET NULL of both foreign keys.
Vacated(e) ==
    /\ dept' = [d \in DeptIds |-> IF dept[d].head = e
                                  THEN [dept[d] EXCEPT !.head = None] ELSE dept[d]]
    /\ branch' = [b \in BranchIds |-> IF branch[b].manager = e
                                      THEN [branch[b] EXCEPT !.manager = None]
                                      ELSE branch[b]]

DeleteEmployee(e) ==
    /\ e \in hired
    /\ hired' = hired \ {e}
    /\ Vacated(e)
    /\ unchecked' = unchecked \ {e}
    /\ UNCHANGED branched

\* The nature of an organization is a column of its PUT.
ChangeNature(o) ==
    /\ branched' = (branched \ {o}) \cup ({o} \ branched)
    /\ UNCHANGED <<hired, dept, branch, unchecked>>

Next ==
    \/ \E o \in Orgs, d \in DeptIds, n \in DeptNames, e \in Staff \cup {None},
          b \in BranchIds \cup {None} : CreateDepartment(o, d, n, e, b)
    \/ \E d \in DeptIds, n \in DeptNames, e \in Staff \cup {None},
          b \in BranchIds \cup {None} : UpdateDepartment(d, n, e, b)
    \/ \E d \in DeptIds : DeleteDepartment(d)
    \/ \E o \in Orgs, b \in BranchIds, e \in Staff \cup {None} : CreateBranch(o, b, e)
    \/ \E b \in BranchIds, e \in Staff \cup {None} : UpdateBranch(b, e)
    \/ \E b \in BranchIds : DeleteBranch(b)
    \/ \E e \in Staff, d \in DeptIds \cup {None}, b \in BranchIds \cup {None} : Hire(e, d, b)
    \/ \E e \in Staff : DeleteEmployee(e)
    \/ \E o \in Orgs : ChangeNature(o)

Spec == Init /\ [][Next]_vars

-----------------------------------------------------------------------------
(***************************************************************************)
(* One employee, one post.  Nobody heads two departments of one            *)
(* organization.  Whoever manages two branches, or manages a branch and    *)
(* heads a department of a branch of the same organization, got there      *)
(* through an update or an appointment: the creations never lead to it, in *)
(* whatever order posts are given, emptied and given again.                *)
(***************************************************************************)
OneDepartmentPerHead ==
    \A c, d \in Depts : c # d /\ dept[c].head # None /\ dept[c].org = dept[d].org
                            => dept[c].head # dept[d].head

OneBranchPerManager ==
    \A a, b \in Branches : a # b /\ branch[a].manager # None
                                 /\ branch[a].manager = branch[b].manager
                               => branch[a].manager \in unchecked

HeadOrManager ==
    \A d \in Depts, b \in Branches :
        dept[d].branch # None /\ dept[d].head # None
        /\ dept[d].org = branch[b].org /\ dept[d].head = branch[b].manager
            => dept[d].head \in unchecked

OnePost == OneDepartmentPerHead /\ OneBranchPerManager /\ HeadOrManager

(***************************************************************************)
(* What a row points to exists: deleting an employee vacates the posts in  *)
(* both tables, deleting a branch takes its departments with it, those     *)
(* other organizations put there included.                                 *)
(***************************************************************************)
PostsExist ==
    /\ \A d \in Depts : /\ dept[d].head \in hired \cup {None}
                        /\ dept[d].branch \in Branches \cup {None}
    /\ \A b \in Branches : branch[b].manager \in hired \cup {None}
=============================================================================
