------------------------------- MODULE MCStaff -------------------------------
(***************************************************************************)
(* The accounts of the staff and the bulk import, which share no state,    *)
(* side by side: each behaviour runs the one in focus.                     *)
(***************************************************************************)
EXTENDS Accounts, Naturals, Sequences, FiniteSets, TLC

CONSTANTS Focus, MaxRows

\* Rows are counted; None is none of them.
ASSUME MaxRowsAssumption == MaxRows \in Nat /\ None \notin 1 .. MaxRows

VARIABLES focus,
    sheet, related, dated, next, phase, units, present, stored, linked, map, list,
    errors, reported, skipped, deleted

Import == INSTANCE BulkImport

importVars == <<sheet, related, dated, next, phase, units, present, stored, linked, map,
                list, errors, reported, skipped, deleted>>
allVars == <<focus, vars, importVars>>

\* One upload stands for all of them while another component is in focus.
Unused ==
    /\ Len(sheet) = 1 /\ Len(related) = 1 /\ ~dated /\ present = {}
    /\ sheet[1] = CHOOSE row \in Import!Row : TRUE
    /\ related[1] = None

InitAll ==
    /\ focus \in Focus
    /\ Init
    /\ Import!Init /\ (focus # "BulkImport" => Unused)

NextAll ==
    /\ UNCHANGED focus
    /\ IF focus = "BulkImport" THEN UNCHANGED vars ELSE Next
    /\ IF focus = "BulkImport" THEN Import!Next ELSE UNCHANGED importVars

SpecAll == InitAll /\ [][NextAll]_allVars

(***************************************************************************)
(* The bound of the runs: "Accounts" is requests that overlap while one    *)
(* organization has rows, "Tenants" one request, among those that await    *)
(* nothing, while several have.                                            *)
(***************************************************************************)
InUse ==
    {person[e].org : e \in Employees} \cup {account[u].org : u \in Accounts}
    \cup {account[u].role : u \in Accounts}
    \cup {call[r].org : r \in Requests} \cup {call[r].role : r \in Requests}

Scope ==
    /\ focus = "Accounts" => Cardinality(InUse \ {None}) <= 1
    /\ focus = "Tenants" => Cardinality({r \in Requests : ~Idle(r)}) <= 1

Symmetry ==
    Permutations(Orgs) \cup Permutations(Requests) \cup Permutations(Staff)
    \cup Permutations(Users)

AllTypeOK == TypeOK /\ Import!TypeOK
EveryRowAccounted == Import!EveryRowAccounted
LinkedByEmail == Import!LinkedByEmail
=============================================================================
