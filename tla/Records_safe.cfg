SPECIFICATION SpecAll
CONSTANTS
    None = None
    Orgs = {o1, o2}
    OrgNames = {n1, n2}
    People = {p1}
    Requests = {r1, r2}
    Staff = {e1}
    Users = {u1}
    DeptIds = {d1, d2}
    BranchIds = {b1, b2}
    DeptNames = {m1, m2}
    Focus = {"Organizations", "Departments"}
SYMMETRY Symmetry
INVARIANTS AllTypeOK OnePost PostsExist AnsweredHasAdmin
