SPECIFICATION SpecAll
CONSTANTS
    None = None
    Orgs = {o1, o2}
    OrgNames = {n1}
    People = {p1, p2}
    Requests = {r1, r2}
    Staff = {e1, e2}
    Users = {u1, u2}
    DeptIds = {d1}
    BranchIds = {b1}
    DeptNames = {m1}
    Closing = {o1, o2}
    MaxRows = 2
    Focus = {"Accounts", "Tenants", "BulkImport"}
SYMMETRY Symmetry
INVARIANTS AllTypeOK OneTenant Paired ArchivedCannotLogin EveryRowAccounted LinkedByEmail
CONSTRAINT Scope
