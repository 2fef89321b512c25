---------------------------- MODULE RecordsDomain ----------------------------
(***************************************************************************)
(* The things the modules of the records speak about.  Each of them is the *)
(* identity of a row (a uuid) or a value its columns are compared by; None *)
(* is SQL's NULL and Python's None.                                        *)
(***************************************************************************)
CONSTANTS
    Orgs,      \* organizations
    OrgNames,  \* their names
    Staff,     \* employees
    Users,     \* user accounts
    People,    \* emails: what identifies a person in employees and in users
    DeptIds,   \* departments
    BranchIds, \* branches
    DeptNames, \* names of departments
    Requests,  \* requests in flight at a time
    None

ASSUME DomainAssumption ==
    /\ None \notin Orgs \cup OrgNames \cup Staff \cup Users \cup People
    /\ None \notin DeptIds \cup BranchIds \cup DeptNames \cup Requests

\* A missing row is no row.
ASSUME RowAssumption ==
    /\ None \notin [email : People, org : Orgs]
    /\ None \notin [email : People, org : Orgs, active : BOOLEAN, role : Orgs]
=============================================================================
