------------------------------ MODULE MCRecords ------------------------------
(***************************************************************************)
(* Organizations and departments, which share no state, side by side: each *)
(* behaviour runs the one in focus.                                        *)
(***************************************************************************)
EXTENDS Departments, TLC

CONSTANT Focus

VARIABLES focus,
    name, roles, user, emp, setting, request, loop, answered, purged, trimmed

Org == INSTANCE Organizations

organizationVars ==
    <<name, roles, user, emp, setting, request, loop, answered, purged, trimmed>>
allVars == <<focus, vars, organizationVars>>

InitAll ==
    /\ focus \in Focus
    /\ Init /\ (focus # "Departments" => branched = {})
    /\ Org!Init

NextAll ==
    /\ UNCHANGED focus
    /\ IF focus = "Departments" THEN Next ELSE UNCHANGED vars
    /\ IF focus = "Organizations" THEN Org!Next ELSE UNCHANGED organizationVars

SpecAll == InitAll /\ [][NextAll]_allVars

Symmetry ==
    Permutations(Orgs) \cup Permutations(Requests) \cup Permutations(Staff)
    \cup Permutations(DeptIds) \cup Permutations(BranchIds)

AllTypeOK == TypeOK /\ Org!TypeOK
AnsweredHasAdmin == Org!AnsweredHasAdmin
=============================================================================
