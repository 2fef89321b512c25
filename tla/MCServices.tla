------------------------------ MODULE MCServices ------------------------------
(***************************************************************************)
(* The services around the records, which share no state, side by side:    *)
(* each behaviour runs the one in focus.                                   *)
(***************************************************************************)
EXTENDS Storage, Sequences

CONSTANTS Focus,
    MaxDays, MaxRestarts, MaxFiled,
    Sockets, Texts, MaxWaiting,
    Clients, MaxChanges,
    MaxAttempts,
    Tokens, Links, MaxLinks,
    RoleNames, Defaults, StaffRole, MaxEntries, MaxRoles, admin_role, staff_role,
    Rows, Columns,
    MaxContacts, EntryHeights, TableHeights, Tables, Certified

VARIABLES focus,
    roster, day, fires, run, logged, greeted, unread, filed, restarts, skipped,
    socket, open, waiting, got,
    changes, pushed, tasks, failed, client,
    tenant, mail, tries, arrived,
    admin, stored, known, req, ended, links, used,
    bank, up, role, board,
    table, made, task, done,
    at, section, left, y, low, image, item

\* DEFAULT_ROLE_PERMISSIONS of the runs; the proofs are about any list of names.
TwoDefaults == <<admin_role, staff_role>>

\* The bounds are numbers, no default role is there twice, and there is room for them.
ASSUME ServicesAssumption ==
    /\ MaxDays \in Nat \ {0} /\ MaxRestarts \in Nat /\ MaxFiled \in Nat
    /\ MaxWaiting \in Nat /\ MaxChanges \in Nat /\ MaxAttempts \in Nat \ {0}
    /\ MaxEntries \in Nat /\ Defaults \in Seq(RoleNames) /\ Len(Defaults) <= MaxEntries
    /\ \A i, j \in 1..Len(Defaults) : i # j => Defaults[i] # Defaults[j]
    /\ MaxContacts \in Nat /\ Tables \in Nat /\ Certified \in Nat
    /\ EntryHeights \subseteq Nat /\ TableHeights \subseteq Nat

Checks == INSTANCE DailyChecks
Chat == INSTANCE Chat
Summary == INSTANCE Summary
Mail == INSTANCE Mail
Super == INSTANCE Superadmins
Catalog == INSTANCE Catalog
Tenant == INSTANCE TenantRecords
Export == INSTANCE Export

checksVars == <<roster, day, fires, run, logged, greeted, unread, filed, restarts, skipped>>
chatVars == <<socket, open, waiting, got>>
summaryVars == <<changes, pushed, tasks, failed, client>>
mailVars == <<tenant, mail, tries, arrived>>
superVars == <<admin, stored, known, req, ended, links, used>>
catalogVars == <<bank, up, role, board>>
tenantVars == <<table, made, task, done>>
exportVars == <<at, section, left, y, low, image, item>>
allVars == <<focus, checksVars, chatVars, summaryVars, vars, mailVars, superVars,
          catalogVars, tenantVars, exportVars>>

\* One initial state stands for all of them while another component is in focus.
Unused ==
    /\ focus # "DailyChecks" =>
           /\ roster = [e \in Staff |-> CHOOSE r \in Checks!Employee : TRUE]
           /\ fires = 1
    /\ focus # "Mail" => tenant = "absent"

(***************************************************************************)
(* The organizations are interchangeable, and so are the employees: of the *)
(* rosters that differ only in who is who, these are enough for a run.     *)
(***************************************************************************)
Birthday(e) == IF roster[e].birthday = None THEN 0 ELSE roster[e].birthday

Representative ==
    focus = "DailyChecks" =>
        LET first == CHOOSE e \in Staff : TRUE
        IN  /\ roster[first].org = CHOOSE o \in Orgs : TRUE
            /\ \A e \in Staff : Birthday(first) <= Birthday(e)

InitAll ==
    /\ focus \in Focus
    /\ Checks!Init /\ Chat!Init /\ Summary!Init /\ Init /\ Mail!Init
    /\ Super!Init /\ Catalog!Init /\ Tenant!Init /\ Export!Init
    /\ Unused

NextAll ==
    /\ UNCHANGED focus
    /\ IF focus = "DailyChecks" THEN Checks!Next ELSE UNCHANGED checksVars
    /\ IF focus = "Chat" THEN Chat!Next ELSE UNCHANGED chatVars
    /\ IF focus = "Summary" THEN Summary!Next ELSE UNCHANGED summaryVars
    /\ IF focus = "Storage" THEN Next ELSE UNCHANGED vars
    /\ IF focus = "Mail" THEN Mail!Next ELSE UNCHANGED mailVars
    /\ IF focus = "Superadmins" THEN Super!Next ELSE UNCHANGED superVars
    /\ IF focus = "Catalog" THEN Catalog!Next ELSE UNCHANGED catalogVars
    /\ IF focus = "TenantRecords" THEN Tenant!Next ELSE UNCHANGED tenantVars
    /\ IF focus = "Export" THEN Export!Next ELSE UNCHANGED exportVars

SpecAll == InitAll /\ [][NextAll]_allVars

\* What Summary and Mail assume of the event loop and of servers, while they are in focus.
Fairness ==
    /\ \A i \in 1..MaxChanges :
           WF_summaryVars(focus = "Summary" /\ i <= Len(tasks) /\ Summary!TaskStep(i))
    /\ WF_summaryVars(focus = "Summary" /\ Summary!Finish)
    /\ \A r \in Requests : WF_mailVars(focus = "Mail" /\ Mail!Returns(r) /\ Mail!Work(r))

FairSpec == SpecAll /\ Fairness

AllTypeOK ==
    /\ Checks!TypeOK /\ Chat!TypeOK /\ Summary!TypeOK /\ TypeOK
    /\ Mail!TypeOK /\ Super!TypeOK /\ Catalog!TypeOK /\ Tenant!TypeOK
    /\ Export!TypeOK
LoggedMeansTold == Checks!LoggedMeansTold
CongratulatedOnce == Checks!CongratulatedOnce
KeptWhileFresh == Chat!KeptWhileFresh
PushReaches == Summary!PushReaches
MailEnds == focus = "Mail" => Mail!MailEnds
LoggedOutStaysOut == Super!LoggedOutStaysOut
EditsSurvive == Catalog!EditsSurvive
AnsweredIsKept == Tenant!AnsweredIsKept
Legible == Export!Legible
=============================================================================
