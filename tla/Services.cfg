SPECIFICATION FairSpec
CONSTANTS
    None = None
    Orgs = {o1, o2}
    OrgNames = {n1}
    People = {p1}
    Requests = {r1, r2}
    Staff = {e1, e2}
    Users = {u1}
    DeptIds = {d1}
    BranchIds = {b1}
    DeptNames = {m1}
    MaxDays = 2
    MaxRestarts = 1
    MaxFiled = 1
    Sockets = {s1, s2}
    Texts = {t1, t2}
    MaxWaiting = 2
    Clients = {c1, c2}
    MaxChanges = 2
    Backends = 2
    FileNames = {f1, f2}
    MaxAttempts = 3
    Tokens = {k1, k2}
    Links = {l1, l2}
    MaxLinks = 1
    RoleNames = {admin_role, staff_role}
    Defaults <- TwoDefaults
    StaffRole = {staff_role}
    admin_role = admin_role
    staff_role = staff_role
    MaxEntries = 3
    MaxRoles = 2
    Rows = {w1}
    Columns = {x1, x2}
    MaxContacts = 4
    EntryHeights = {8, 16}
    TableHeights = {20, 120, 300}
    Tables = 9
    Certified = 3
    Focus = {"Chat", "Storage", "Superadmins", "Catalog", "TenantRecords",
             "Export", "Mail", "Summary", "DailyChecks"}
CONSTRAINT Representative
INVARIANTS AllTypeOK AnswerIsWhole PictureIsListed AnsweredIsKept Legible
    LoggedMeansTold CongratulatedOnce
PROPERTIES KeptWhileFresh LoggedOutStaysOut EditsSurvive
    PushReaches MailEnds
