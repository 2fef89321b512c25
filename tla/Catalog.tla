------------------------------- MODULE Catalog -------------------------------
(***************************************************************************)
(* What an organization starts from: the default roles in the table        *)
(* data_banks (Apis/default.py, seeded at every start with the values of   *)
(* Utils/config.py), the roles made from them (Crud/role_crud.py, the      *)
(* generic Crud/base.py, Apis/apis.py) and the saved dashboards            *)
(* (Crud/crud_dashboard.py, Apis/dashboard_routes.py).  Every handler here *)
(* is a coroutine without an await between its queries and its commit, so  *)
(* each is one step.                                                       *)
(***************************************************************************)
EXTENDS RecordsDomain, Integers, Sequences, SequencesExt, Subsequences

CONSTANTS
    RoleNames,   \* names of roles
    Defaults,    \* DEFAULT_ROLE_PERMISSIONS: a sequence of some of them
    StaffRole,    \* the role of whoever is imported without one, in any case of letters
    MaxEntries,  \* bound: entries of data_banks "roles"
    MaxRoles     \* bound: rows of roles, and of dashboards

VARIABLES
    bank,       \* data of the row "roles"; None before the first start
    up,         \* the server runs
    role,       \* <<organization, name>> -> rows of roles
    board       \* <<user, organization>> -> rows of dashboards

vars == <<bank, up, role, board>>

\* An entry: its role, whether an edit wrote it, whether all its values can be hashed.
Entry == [name : RoleNames, edited : BOOLEAN, plain : BOOLEAN]
Seeded(n) == [name |-> n, edited |-> FALSE, plain |-> FALSE]

TypeOK ==
    /\ bank = None \/ (bank \in Seq(Entry) /\ Len(bank) <= MaxEntries)
    /\ up \in BOOLEAN
    /\ role \in [Orgs \X RoleNames -> Nat]
    /\ board \in [Users \X Orgs -> Nat]

Init ==
    /\ bank = None /\ up = FALSE
    /\ role = [x \in Orgs \X RoleNames |-> 0]
    /\ board = [x \in Users \X Orgs |-> 0]

-----------------------------------------------------------------------------
(***************************************************************************)
(* data_banks                                                              *)
(***************************************************************************)

Names == {bank[i].name : i \in DOMAIN bank}

AbsentAsIs(n) == ~Contains(bank, Seeded(n))   \* a mutant: whole entries are compared

Absent(n) == n \notin Names

\* What a start adds to the row: the defaults whose name no entry has.
Missing ==
    LET absent == Subsequence(Defaults, {i \in DOMAIN Defaults : Absent(Defaults[i])})
    IN  [i \in DOMAIN absent |-> Seeded(absent[i])]

Start ==
    /\ ~up /\ up' = TRUE
    /\ bank' = IF bank = None THEN [i \in DOMAIN Defaults |-> Seeded(Defaults[i])]
               ELSE bank \o Missing
    /\ UNCHANGED <<role, board>>

\* The bound is kept here: what the next start adds fits.
Stop ==
    /\ up /\ up' = FALSE
    /\ Len(bank) + Len(Missing) <= MaxEntries
    /\ UNCHANGED <<bank, role, board>>

(***************************************************************************)
(* update_data_bank replaces the first entry whose key has the value; the  *)
(* row is found by its id only: a name is no uuid and the query fails.     *)
(***************************************************************************)
First(n) == CHOOSE i \in DOMAIN bank :
                bank[i].name = n /\ \A j \in 1..i - 1 : bank[j].name # n

Update(n, e) ==
    /\ up /\ n \in Names
    /\ e.edited
    /\ bank' = [bank EXCEPT ![First(n)] = e]
    /\ UNCHANGED <<up, role, board>>

(***************************************************************************)
(* create_data_bank on a row that exists puts every entry into a set: one  *)
(* entry with a list of permissions, as all defaults are, and it fails.    *)
(***************************************************************************)
Add(e) ==
    /\ up /\ Len(bank) < MaxEntries
    /\ e.edited /\ e.plain
    /\ \A i \in DOMAIN bank : bank[i].plain
    /\ bank' = IF Contains(bank, e) THEN bank ELSE Append(bank, e)
    /\ UNCHANGED <<up, role, board>>

-----------------------------------------------------------------------------
(***************************************************************************)
(* Roles                                                                   *)
(***************************************************************************)

\* POST /role asks for the name in the organization first.
Taken(o, n) == role[<<o, n>>] > 0

Insert(o, n) ==
    /\ SumFunction(role) < MaxRoles
    /\ role' = [role EXCEPT ![<<o, n>>] = @ + 1]
    /\ UNCHANGED <<bank, up, board>>

CreateRole(o, n) == up /\ ~Taken(o, n) /\ Insert(o, n)

\* POST /roles goes through CRUDBase.create, which asks for nothing.
CreateRoles(o, n) == up /\ Insert(o, n)

\* get_or_create_default_role of a bulk import: any case of the letters will do.
ImportRole(o, n) ==
    /\ up /\ n \in StaffRole
    /\ \A m \in StaffRole : role[<<o, m>>] = 0
    /\ Insert(o, n)

-----------------------------------------------------------------------------
(***************************************************************************)
(* Dashboards                                                              *)
(***************************************************************************)

\* The dashboard of the payload's user in the organization is updated, or made.
Upsert(u, o) ==
    /\ up
    /\ board[<<u, o>>] > 0 \/ SumFunction(board) < MaxRoles
    /\ board' = IF board[<<u, o>>] > 0 THEN board ELSE [board EXCEPT ![<<u, o>>] = 1]
    /\ UNCHANGED <<bank, up, role>>

\* PUT /{dashboard_id} assigns whatever columns it is given, the owner's among them.
Rewrite(x, y) ==
    /\ up /\ board[x] > 0
    /\ board' = IF x = y THEN board ELSE [board EXCEPT ![x] = @ - 1, ![y] = @ + 1]
    /\ UNCHANGED <<bank, up, role>>

Next ==
    \/ Start \/ Stop
    \/ \E n \in RoleNames, e \in Entry : Update(n, e)
    \/ \E e \in Entry : Add(e)
    \/ \E o \in Orgs, n \in RoleNames :
           CreateRole(o, n) \/ CreateRoles(o, n) \/ ImportRole(o, n)
    \/ \E u \in Users, o \in Orgs : Upsert(u, o)
    \/ \E x, y \in Users \X Orgs : Rewrite(x, y)

Spec == Init /\ [][Next]_vars

-----------------------------------------------------------------------------
(***************************************************************************)
(* Properties                                                              *)
(***************************************************************************)

(***************************************************************************)
(* What was edited in data_banks survives the starts of the server: the    *)
(* seeding neither changes an entry nor adds another one of its name, the  *)
(* default's own text included.                                            *)
(***************************************************************************)
EditsSurvive ==
    [][(~up /\ up' /\ bank # None) =>
          /\ IsPrefix(bank, bank')
          /\ \A i, j \in DOMAIN bank' :
                 (j > Len(bank) /\ i < j) => bank'[i].name # bank'[j].name]_vars

=============================================================================
