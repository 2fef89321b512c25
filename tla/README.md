# Verification of the staff records backend

TLA+ models of the multi-tenant staff records backend in `src/App` (FastAPI,
synchronous SQLAlchemy sessions on PostgreSQL, one uvicorn process), the TLC
configurations that check them on small instances, and TLAPS proofs of what
matters most for every value of the constants.

    tlc -workers 2 -config DataInputs.cfg MCDataInputs
    tlapm DataInputsProofs.tla

## The system

Three facts about how the program runs decide what its steps are:

- A `def` endpoint runs in a thread of Starlette's pool. Any number of them
  interleave at every statement they send to the database. Sessions are
  `autoflush=False`, PostgreSQL is at READ COMMITTED, almost nothing takes a row
  lock and few natural keys have a unique constraint: a handler is a sequence
  of read, decide, commit steps.
- An `async def` endpoint runs on the one event loop. Its synchronous database
  calls block the loop, so it is atomic from one `await` that really suspends
  to the next, against other `async def` code, but not against the threads.
- Several handlers commit more than once. A crash or an exception between two
  commits leaves the first one in place.

### Components

| Component | State | Operations | Interacts with | Modelled |
|---|---|---|---|---|
| Change requests (`Crud/employee_data_input.py`, `Service/handlers/emp_handler.py`, `Apis/employee_requests.py`) | rows of `employee_data_inputs`, the tables a request is applied to | submit (create or overwrite), PATCH (decide, apply, delete), DELETE | pushes a decision to sockets; thread and loop | DataInputs |
| Authentication and sessions (`Crud/auth.py`, `Apis/auth.py`, `Utils/rate_limiter.py`, `Utils/security.py`) | rows of `tokens`, `users.is_active`, attempts in memory, JWT cache | login (password, face), every authenticated request, logout, soft delete | logout closes sockets | Sessions |
| Push notifications (`notification/socket.py`, socket endpoints in `main.py`, `Apis/ws_employee.py`, `Apis/ws_summary.py`) | `active_connections`, `user_connections`, the sockets | connect, receive, re-validate, broadcast, personal message, logout | sessions, change requests | Connections |
| Employees and user accounts (`Models/models.py` mapper events, `Crud/user_base.py`, `Apis/UserBase.py`, `Apis/apis.py`) | `employees`, `users` | create, update, archive, reassign, delete; events that copy one row to the other | roles, organizations | Accounts |
| Bulk import (`Crud/user_base.py`, `bulk_insert_crud`) | the same, branches, departments, roles; error records | one transaction per row, helpers that commit inside a row | | BulkImport |
| Departments and branches (`Crud/department.py`, `Crud/branch.py`) | heads and managers | create, update, delete, appoint | employees | Departments |
| Organizations (`Apis/main.py`, `Crud/crud.py`) | organizations and what they own | two sign-ups, update, delete | mail, storage | Organizations |
| Daily checks (`Utils/daily_checks.py`, `Utils/promotion_evaluator.py`, `Apis/promotions.py`) | `daily_check_logs`, notifications, promotion requests | the interval job, restarts, a confirmation | | DailyChecks |
| Chat (`main.py`, `/ws/chat`) | `pending_messages`, `active_connections` | connect and replay, send, disconnect | Connections' manager | Chat |
| Summaries and change listeners (`Apis/summary.py`, `*_listeners.py`) | push tasks | push, count, deliver | Connections' manager | Summary |
| File storage (`Utils/storage_utils.py`, `Service/storage_service.py`, listeners in `Models/models.py`) | blobs, `file_storages` | upload with fallback, replace, remove | | Storage |
| Email (`Service/*email*.py`) | a background task | tenant's server, default one, retries | sign-up | Mail |
| Superadmin (`Apis/super_auth.py`, `Utils/sup_security.py`) | `super_admins`, `refresh_tokens`, links in memory | seed, login, token, refresh, logout | | Superadmins |
| Roles, default data, dashboards (`Crud/role_crud.py`, `Apis/default.py`, `Crud/crud_dashboard.py`) | `roles`, `data_banks`, `dashboards` | seed at startup, edit, three ways to make a role, upsert | | Catalog |
| Tenant records (`Apis/tenant_apis.py`, `Crud/tenant_crud.py`) | ranks, policies, gateways, notifications, payment details, payments | create, update, delete | | TenantRecords |
| Employee export (`Apis/employee_download.py`) | the cursor on a page | sections, lines, tables, images | | Export |
| Form compiler and samples, schemas and configuration, employee aggregator, code no route reaches | none or static | pure formatting and declarations | | no |

### What is hard, and what would make each part correct

- **Change requests.** Two commits per approval, no row lock, a re-read between
  them. Correct: an approved request is never forgotten, is applied at most once, and
  never comes back after it; one pending request per employee and type. The code keeps
  "at most once" with one reviewer only, does not keep "only while approved", and
  loses the last through a PATCH back to Pending (`reopened`).
- **Sessions.** Checks before an `await` and the insert after it; a limiter that
  counts before it knows; the activity time kept in two places. Correct: one
  session per user, what was logged out stays so, nobody is shut out for ever.
- **Push notifications.** Handlers suspended in `receive`, `send` or a thread
  while logout closes their socket; registration that races with logout; cleanup
  on every exit path. Correct: what is registered has a handler, what has ended
  is unregistered, a logged-out user receives nothing.
- **Employees and users.** Two tables kept equal by events inside the flush, and
  handlers that await a facial API, or run in threads, between reading one row
  and the other. Correct: rows stay in pairs, who was archived stays locked out.
- **Bulk import.** Rows that fail after their helpers committed and after their
  employee was mapped. Correct: each row stored or reported, and what refers to
  an employee refers to the right one.
- **Departments, branches.** Exclusion by check-then-insert, differently on
  create and update, and deletions that touch four tables.
- **Organizations.** Five commits of a sign-up against a deletion that commits row
  by row. Correct: whoever was answered has an organization with an administrator.
- **Daily checks.** A commit per organization that is active when the check begins, a log
  row at the end, restarts.
- **Chat, summaries.** Lists that change between two sends, pushes that fail unnoticed.
- **Storage, email.** Backends and servers that fail half-way, retries, a call without a timeout.
- **Superadmin.** Requests that hold a token across an await while it is logged out.
- **Tenant records.** Updates in threads that read a row before each other's commits.
- **Export.** Thresholds for a page break that each helper chooses for itself, and pictures
  on pages of their own.

`PROJECT.json` lists the hazards line by line.
## Modules

`RecordsDomain` declares the identities the records' modules speak about, with
the assumption that none of them is None. A component has a module, an
instantiation in an MC module, and, where something is proved, a module of
proofs:

| Component modules | Checked by | Proofs |
|---|---|---|
| DataInputs, RequestLifecycle (its abstract specification) | MCDataInputs | DataInputsProofs |
| Sessions | MCSessions | SessionsProofs |
| Connections | MCConnections | ConnectionsProofs |
| Departments, Organizations | MCRecords | RecordsProofs |
| Accounts, BulkImport | MCStaff | AccountsProofs, StaffProofs |
| Storage, Superadmins, TenantRecords, Catalog | MCServices | StoresProofs, ServicesProofs |
| DailyChecks, Chat, Summary, Mail, Export | MCServices | ServicesProofs |

`Subsequences` says what a list comprehension with a condition leaves of a list;
Chat and Catalog use it where the code has one. It is `SelectSeq` without the
recursion, about which nothing can be proved.

The theorems about MCRecords, MCStaff and MCServices are about the very
specification their runs check (`SpecAll`), with its instances and its `focus`.

Left to do, in order: a composition of Sessions and Connections (a logout that
closes the sockets of the session it deletes); the safety half of the liveness
properties (what decreases with each step of a task); downloads and the bulk
formats of Export.
## DataInputs: change requests

`DataInputs.tla` models `create_or_update_data_input`, `update_data_input`,
`delete_data_input` and the generic upsert of the handlers that apply a request.

| In the model | In the code |
|---|---|
| `rows[r]` (status, slot, data), `nextRow` | rows of `employee_data_inputs`; a slot is an employee and a data type, of which only bio-data may not be repeated |
| `records` | rows of the target tables: what decides whether an upsert inserts or patches |
| `patch[t]` (pc, row, old, want, ...) | a thread in `update_data_input`: `load`, first commit (`saved`), refresh, resolve, second commit |
| `create` | the one event-loop handler in `create_or_update_data_input`: lookup, then insert or overwrite |
| `applies`, `failed`, `reopened` | history variables, read by properties only |

`PatchLoad` reads the row and `old_status`; `PatchSave` is the first commit, of
the whole row SQLAlchemy found changed; `PatchRefresh` is
the refresh at line 476 and the test at 481; `ApplyResolve` is the natural-key
lookup of `_upsert_intelligent`; `ApplyCommit` the insert or patch, the delete
of the request and the second commit. `PatchStale`, `CreateStale` are the
`StaleDataError` of a row deleted meanwhile, `ApplyFails` any exception of a
handler. `Crash` loses all handlers; everything committed stays.

`RequestLifecycle.tla` is the abstract life of one request: submitted once, decided any
number of times while it is open, taken up by a reviewer who found it Approved, applied
or given up by that reviewer, and closed for good. While a reviewer holds it another may
decide it anew or withdraw it: that is what the code allows, and the reason why
"apply only on approval" is true of the moment a request is taken up and false of the
moment it is applied. `ImplementsLifecycle` maps each row to its phase, and a thread past
the test at line 481 to a claim on its row (`Claims`).

Runs:

- `DataInputs`: two instances, told apart by `crew` of MCDataInputs. In the one every reviewer
  works, who send any of the three statuses, on one slot and one payload; in the other one
  reviewer does, on every payload and a slot without a usable key. Holds:
  `ApprovedIsInFlightOrFailed`, `OnePendingUnlessReopened`, `AppliedIsGone`,
  `ImplementsLifecycle`, with one reviewer `SerialAppliesOnce`, and `ApprovalSettles` under
  weak fairness of the handler's own steps (a running thread goes on; nobody has to send
  a request).
- `DataInputs_late` (violation): a request is rejected or deleted while it is being
  applied, and is applied all the same. A second reviewer who applies it is a case of this: both
  read Pending, the first applies and deletes the request, the second applies it again.

Two Pending rows of a slot are possible, and `one_or_none()` then raises on every later
submission: a request is rejected, submitted anew, and put back to Pending, which
the schema accepts. `OnePendingUnlessReopened` says that there is no other way to them.

`failed` records the rows left Approved by an exception or a crash between the two
commits. The code has no way back for them (a second PATCH to Approved does not see a
transition); `ApprovedIsInFlightOrFailed` permits them and says that there are no others.

Bounds: two workers are all a race needs, since every race is between one
commit and one earlier read. Two rows are the least for two requests of a slot. On the
payload and the slot only the handlers' lookup depends, one at a time: that is why the
second instance may do with one reviewer.

Proofs (`DataInputsProofs.tla`), for any number of workers, slots and payloads:
`AlwaysInv` (types, and what a handler's local variables owe to the row it
read), `TypeCorrect`, `ApprovalsAreNotForgotten`, `AppliedStaysGone`, `PendingIsUnique`
(creations run on the event loop, one at a time, and an insert overlooks only rows a
PATCH set back to Pending after its lookup) and `RefinesLifecycle`. With one worker
only: `SerialApprovalsApplyOnce`, which rests on the handler's copy of the row being
current while no other thread can commit; `DataInputs_late` shows what happens with two.
## Sessions: login, requests and logout

`Sessions.tla` models `authenticate_user` with `RateLimiter`, `get_current_user`
and `get_current_user_for_others`, `logout_user`, and the soft delete of an account.

| In the model | In the code |
|---|---|
| `token[k]` (`at`, `left`, `idle`) | a JWT and its row of `tokens`: time to `exp` / `expiration_period`, time since `last_activity` |
| `login[l]` | a login between its awaits: the facial service, the decoding of the fresh JWT in the threadpool |
| `attempts` | `RateLimiter.failed_attempts` |
| `cached` | `Security.token_cache`, which answers for expired JWTs as well |
| `active` | `users.is_active` |

`Tick` is an hour: the two dependencies allow 180 and 60 minutes of
inactivity, a JWT lives eight hours. The limiter's window of 60 seconds is much
shorter, so attempts leave it by `AttemptExpires`. `Restart` clears memory.

Runs:

- `Sessions`: two logins in flight, limits scaled down (their order kept), three
  tokens. Holds: `SessionsBounded`, `LogoutIsFinal`, and `NotShutOut` if time passes and
  a threadpool call returns (`FairSpec`; no client owes a request or a logout).
- `Sessions_concurrent` (violation): two overlapping logins both get a row, with the real
  limits (3 h, 1 h, 8 h).

Proofs (`SessionsProofs.tla`): `AlwaysInv` (types; a JWT being signed belongs
to one handler, and a handler that signs holds one), `TypeCorrect`,
`DeletedRowsStayDeleted`, `AttemptsAreLimited`, and `SessionsAreBounded`: when a handler
signs, the user has no row that counts, so all its sessions are JWTs being
signed, and these map injectively to handlers; later steps add none. With one
handler that is `OneSession` (`SerialLoginsHaveOneSession`).
## Connections: sockets, logout and broadcasts

`Connections.tla` models `ConnectionManager`, the handlers of five socket
endpoints, `logout_user` with `unregister_user`, and `broadcast`, which
`create_or_update_data_input` awaits. There is one organization: the lists of
two never meet.

| In the model | In the code |
|---|---|
| `active`, `conns` | `active_connections` of the organization, `user_connections` |
| `sock[s]` | a `WebSocket` and its handler: `pc` is the await it is suspended in, `app` whether this side has closed or failed, `peer` whether the client is there, `code` the server's close code, `rights` what a re-validation looks at (the JWT's `exp`, its row of `tokens`) |
| `logout[l]` | a task in `unregister_user` with its copy of the user's list |
| `push[p]` | a task in `broadcast` with its copy of the organization's list |

Everything between two awaits that suspend is one action. `_lock` is never held
across one, so `register` and `unregister` are atomic; `LogoutNext` is
`unregister` together with the start of `close`. `Connect` goes from the
authentication to the first `send` or `receive`: uvicorn's `accept` does not
suspend, the next call waits for the handshake. `Wake` and `Checked` are apart
because the JWT is decoded in the threadpool. `ReceiveAfterClose` is the `RuntimeError`
of `receive_text` on a socket another task closed, which each endpoint treats
differently. A JWT that no longer names a user counts as expired.

Runs:

- `Connections_two`: two sockets of any endpoint, two users, a logout, a
  broadcast. Holds: `ListsAgree`, `EndedLeavesLists`, `UnregisteredIsClosed`.
  Two sockets are what two tasks can disagree about; two users tell the keys of
  `user_connections` apart. Deadlock is not checked: see the next run but one.
- `Connections_live`: one socket slot (a collected socket makes room for the next
  client, so a stream of reconnecting clients is possible), two logouts, a broadcast.
  Holds: `UnauthorizedIsClosed`, `BrokenEnds`, `TasksEnd` (logouts and broadcasts).
  The form endpoint is left out: it can stop the loop, and then nothing ends.
- `Connections_loop` (violation): logout closes a form socket whose handler is still
  in its first `send` (a slow client); its receive loop then catches the `RuntimeError` and
  retries without ever suspending. The server answers nobody until it is killed.
- `Connections_employee` (violation): an employee socket whose client disconnects stays
  in both lists, against the "Proper cleanup on disconnect" of `websocket_test_guide.md`.
  `EndedLeavesLists` says what remains true: which handlers do clean up, and that a
  logout leaves none of the user's sockets behind.

Fairness: the event loop comes back to every task that can go on. A `send` or a
`close` finishes or fails (the server's pings end the wait for a dead client),
and sixty seconds pass. A pending disconnect is preferred by `receive_text` only
when it is its turn, hence strong fairness of `Disconnected`. No client has to
do anything.

What the runs leave as the code has it, without a promise to hold it against: a
handler of notify ends registered (its first reminder raises); a
summary whose session was revoked closes with 1011, not 1008, since
`WebSocketState.CLOSED` does not exist; a socket may register with a logged-out JWT,
because only `exp` is looked at; decisions are pushed to the employee's id, which no
socket is listed under.

Proofs (`ConnectionsProofs.tla`), for any number of sockets, users, logouts and
broadcasts, from `ConnectionsAssumption`. `Inv` says of each socket (`Fits`) which pcs
its endpoint can be in, that it is in both maps or in neither, that a code sent by logout or by the
`except` of summary comes with its removal from the maps, and of each logout (`Own`) that its copy
holds live sockets of its own user only: without that, `LogoutNext` could take a socket out of one map and
not the other. A handler's step changes one socket (`Moves`), and either goes on, departs
unregistered or is abandoned (`Continues`, `Departs`, `Abandons`); steps of the client,
the clock and broadcasts are `Calm`. From it: `TypeCorrect`,
`ListsAlwaysAgree`, `EndedAreUnlisted`, `UnregisteredAreClosed`.
## The records: Departments, Organizations, Accounts, BulkImport

Each of these modules is complete in itself; those of one MC module share no
variable, so they run side by side in one configuration: `focus` names the
component a behaviour runs, the others stay in one initial state. The states
are the sum of the components', not their product. The MC module extends one of
them (Departments, Accounts, Storage) and instantiates the others; `SpecAll` is their sum,
`AllTypeOK` all their type invariants.

| In the model | In the code |
|---|---|
| Departments: `dept`, `branch`, `hired`, `branched` | the two tables, the employees, organizations whose nature is branch managed |
| `Storable` / `OfBranch` / `Vacated` | constraints of `departments`; the cascade of a branch; `SET NULL` of a deleted employee |
| Organizations: `request[r].pc` | the commits of `create_organization` and `create_organization_form` in order, `deleting` table by table |
| `loop` | the handler that holds the event loop; deletions run in threads, between any two commits |
| Accounts: `person`, `account` | `employees` and `users`; no key joins them, only email and organization |
| `call[r]` | a request between its reads: `creating` (an upload is awaited), `updating` (the facial API), `find` and `commit` (UserBase in a thread) |
| `closing`, `tables`, `rows` | `delete_with_references`: the tables still to go through, the rows collected of the first; a commit for each row, rows of all organizations |
| `stale` | the employee was changed after the DELETE had read it and before its user was looked up |
| `lone`, `stray` | history: employees and users whose partner a deletion took without them |
| `Synced` | the `after_update` event: the user under the old email gets the new values |
| BulkImport: `phase`, `next`, `map`, `list` | where `bulk_insert_crud` is, `employee_map`, `employee_list` |

Runs:

- `Records_safe`: two organizations, departments and branches, one employee;
  two sign-ups or deletions, with a crash. Holds: `OnePost`
  (who heads or manages twice got there by an update or an appointment, which check
  nothing), `PostsExist`, `AnsweredHasAdmin`. Two of everything is what an exclusion
  and a collision of names need; posts of different employees never interact.
- `Staff`: two requests, employees, users and emails, and two organizations, both deletable; uploads of
  two rows with every fault. Two requests overlap only while one organization has rows, and rows of two
  are kept with one request among those that await nothing (`Scope`): two requests are needed for
  one to overtake the other, two organizations for one deletion to take rows of both, two pairs for them to
  be mixed up. Holds: `Paired`, `ArchivedCannotLogin`, `OneTenant`, on which `update_user`
  relies when it looks an employee up by email alone, `EveryRowAccounted`, `LinkedByEmail`.
  `Paired` and `ArchivedCannotLogin` except single rows, not behaviours:
  `lone` and `stray` collect those whose partner was taken by a step of an organization's deletion or
  by a DELETE which an update had overtaken between its two reads; whatever else happens
  to such a row, or after it, is checked.
- `Staff_unmarked` (violation, no organization is deleted): without the
  exception of overtaken deletions the promise of UserBase.py:347 fails.
  A DELETE reads the employee, PATCH /staff renames it, and the soft DELETE finds no
  user and marks the employee alone. A hard one fails UserBase.py:253 alike (an employee without a
  user): it may even find, and delete, the user of whoever was given the old email.

Not forbidden: a related row without an email goes to the employee after its own when
one before was refused, because `employee_list` leaves out the refused ones and user_base.py:1292
assumes that the sheets align (`InOrder`).

What `OnePost` does not say: `update_department` and `update_branch` check nothing, so whoever got
a post from them (`unchecked`) is excepted. What `AnsweredHasAdmin` does not say: anything of an
organization whose rows a deletion took (`purged`).

Identities that nothing distinguishes are symmetric; no liveness is checked here.

Proofs:

- `RecordsProofs`, for any number of rows, people and requests. `OnePostEach`,
  `PostsAlwaysExist`: the two
  properties carry each other, since that an employee who is being hired holds no post
  yet follows from posts naming employees who exist. `AnsweredCanLogIn`
  (`AnsweredHasAdmin`): not inductive, as it is silent about a sign-up that has inserted its
  administrator and not answered yet. `OrgInv` adds `Promised`, which says the same of
  those, and `Formed`: a request past its reading has an organization, a name and
  a person, and a deletion with rows in hand has a table they are of. A role or user that
  disappears does so by a deletion's step, which adds its organization to
  `purged`, or with the organization itself. `RecordsTyped` puts both side by side.
- `AccountsProofs`: `TypeCorrect`, `PairsStay`, `ArchivedStayOut`, `TenantsStayApart`, for any number of
  requests, from `DomainAssumption`, `RowAssumption` (None is no row) and `ClosingAssumption`. `Paired` is not
  inductive: a request holds an employee and a user it read some time ago. `Inv`
  adds `Unique` (the two unique columns), `OneTenant`, `Reserved` (an id still to be inserted is
  held by one request), `Filled`, and `Bound`: what a request about
  to commit holds, if nothing overtook its reads, is a pair as long as both rows exist, and neither
  has got another partner but one who is `lone`. The key is that no step changes who is whose
  among the rows that survive it (`RowsKeep`, `RewrittenKeep`): renames go to both at once, an insert
  is refused an email that is taken, and deletions (`EraseKeeps`) note whom they leave alone.
- `StaffProofs`, for sheets of any length. `RowsAreAccounted`: `ImportInv` says it of the
  rows that were looked at (`RowsAccounted`: each is stored, was deleted, or has an
  error, never two of them, and rows ahead have none; `RelatedAccounted` for the related
  sheet), so the answer has it of all. `RelatedAreLinkedByEmail` rests on
  `MapTrue`: whoever the map has for an email is a row of that email, in lower case, also
  when that row was rolled back after it was mapped; a row by position has no email
  to contradict. `AtRow` keeps the row at hand inside its sheet. `StaffTyped` is
  the type invariant of both modules.

## The services: nine components in `MCServices`

| Module | State in the code | What its steps are |
|---|---|---|
| DailyChecks | `daily_check_logs`, notifications, the scheduler | `Fire` the job for the organizations that are active, for each of them `Take`, `Promote`, `Birthdays` (a commit, or the foreign key refuses the HoD's notification and the check ends), `Log`; `Restart`, `NextDay` |
| Chat | `pending_messages`, `active_connections` | `Connect`, `Replay` one message, `Retain` what is fresh, `Send`, `Leave`, `Garble`, `Age` |
| Summary | tasks made by `push_summary_update` | `Push`, `Count` or `Fail` (the query raises, the session is closed), `Deliver` to one socket, `Finish`; `Change` is what nobody pushes |
| Storage | blobs, `file_storages`, a picture's column | `Begin`, `Put` one file, `Again` (the upload is called twice), `Fail` (the next backend), `Answer`, `Save`, `UpdatePicture`, `Remove` |
| Mail | the handler's and a background task, the tenant's provider | `Test` the tenant's server, `Send`, `Queue`, `Attempt`, `Stop` |
| Superadmins | `super_admins`, `refresh_tokens`, the link cache | `Seed`, `Login`, token, refresh and logout cut at each await |
| Catalog | `data_banks`, `roles`, `dashboards` | `Start` seeds, `Update`, `Add`, three ways to make a role, `Upsert`, `Rewrite` |
| TenantRecords | rows with the request that wrote each column | `Create`, `Begin` (the query), `Commit`, `Delete` |
| Export | the cursor `y`, the lowest ink `low`, the lower edge `image` of a page's picture | one action per helper of the layout |

`Services` checks, each about one of them: `LoggedMeansTold`, `CongratulatedOnce`, `KeptWhileFresh`,
`PushReaches`, `AnswerIsWhole`, `PictureIsListed`, `MailEnds`, `LoggedOutStaysOut`, `EditsSurvive`,
`AnsweredIsKept`, `Legible`. DailyChecks has the most states;
its constraint `Representative` is a symmetry by hand: of the initial rosters that differ only in the
names of employees and organizations it keeps one, and the roster never changes. The bounds: two
days and a restart (a check interrupted and made again); two sockets of one user and two
waiting messages (one arrives during a replay); two changes and clients; two
backends and files (a failure between files); three attempts; two requests and
tokens, one link; one row with two columns for two requests (equal or different
columns); four contacts, and heights below and above a page. `MaxDays`, `MaxRestarts`,
`MaxFiled`, `MaxWaiting`, `MaxChanges`, `MaxLinks`, `MaxEntries`, `MaxRoles` and `MaxRows`
cap what is unbounded in the code; they stand in guards and types.

Fairness: of Summary, that the event loop runs each push task that can go on (it
counts or raises, a send ends or fails) and collects it; of Mail, that the handler and its
background task go on, except in a call to SendGrid: the SMTP client has a timeout of 60
seconds, `SendGridProvider` has none, and both are called synchronously by an async handler, so a call
that hangs stops everything (`Free`). No client has to do anything. The other
services are checked for safety only.

What the properties except, and why the code allows no more. `LoggedMeansTold`: an
organization that was inactive when the check began (`skipped`), since the day is logged for all of
them. `PushReaches`: a push that failed before it sent anything (`failed`), since nothing tries
again. `MailEnds`: a call to SendGrid that never returns, and who waits for the loop behind it.
`Legible`: what is drawn over the picture of a certificate (`covers`): the picture gets a page of its
own while the cursor stays where it was, so its caption and the next table lie over it.
`LoggedOutStaysOut`: a refresh that looked the token up before the logout committed. `Legible`: pictures,
whose captions and following tables do overlap them.

Proofs, from `ServicesAssumption` (bounds are numbers, at least one day and
one attempt; the seeded defaults are distinct names and fit, as those of
`DEFAULT_ROLE_PERMISSIONS` do; heights are numbers), `BackendsAssumption` (at
least one backend, which `get_storage_service` has) and `DomainAssumption`, for any
number of requests, rows, tokens, files, sockets, messages, days and contacts. Each
component has an inductive invariant; `ServicesInv` is their conjunction, kept by
`SpecAll` because a step runs one component and leaves the others' state alone
(`SideBySide`).

| Theorems | Inductive invariant, and why the property alone is not inductive |
|---|---|
| `LoggedDaysAreTold`, `NobodyIsToldTwice` | `ChecksInv`: while a check runs, who is born in an organization it went through, and did not skip, was congratulated (`ChecksTold`), who is in one that is left was not, nor is anybody for a day to come (`ChecksUntold`); the next fire is never in the past (`ChecksSchedule`). A restart moves it to tomorrow, which is what saves a half-made check from being made again. |
| `FreshMessagesWait` | `ChatInv`: a socket that replays has a list of messages to replay, and its connection stands in a list (`ChatReplaying`, `ChatOwned`). `ChatKept` is then a fact of each step; `SubsequenceFacts` (StoresProofs) says that what is retained is every fresh element. |
| `AnswersAreWhole`, `PicturesAreListed` | `StorageInv`: what an upload has collected and what it has left are together what it was sent, all from the backend in use. `Fallback` starts anew. |
| `LogoutIsFinal` | `SuperInv`: a token found was stored, an ended one is not, and a token being issued belongs to one request (`SuperOwn`, `SuperApart`). A token is made once. |
| `EditsAreKept` | `CatalogInv`: while the server is down there is room for what is missing. What `Start` appends are the entries that are absent by name, in order, each once: `SubsequenceFacts` again. |
| `UpdatesAreKept` | `TenantInv`: a request at work has its row among those made, and a row is made once, so a commit meets the row it has read or none. |
| `PagesAreLegible` | `ExportInv`: `ExportCursor` says that the cursor is below what is drawn, inside the page, and `ExportSection` where each helper may be with it. |
| `ServicesTyped` | All of these, with `MailInv` (a mail still to be tried has attempts left) and `SummaryInv` (tasks are a sequence of pushes). |

`PushReaches` and `MailEnds` are liveness and stay with TLC.

What these models leave as the code has it: chat messages to a connected user wait, because
the recipient is looked up among organizations; older counts can arrive after newer ones;
rules by employee type never promote; a deletion of an organization collects rows of
the others (`purged`).
## What is proved and what is only checked

Proved: every invariant and every action property of the passing runs, type
correctness included, and that change requests implement their life cycle for any
number of reviewers. That a request is applied at most once is proved for one worker, and that
a user has one session for one login handler. The theorems are listed under "theorems" in `PROJECT.json`. The proofs assume only
the named assumptions on the constants, which TLC evaluates in the runs. The bounds of
the runs (`MaxDays`, `MaxRows` and the like) are arbitrary numbers in the proofs.

Only model-checked: liveness (`ApprovalSettles`, `NotShutOut`, `UnauthorizedIsClosed`,
`BrokenEnds`, `TasksEnd`, `PushReaches`, `MailEnds`). Fairness and ENABLED are outside
the prover. Nothing is proved by induction over data: a sheet is walked by the steps of
BulkImport, and lists are filtered by places (`Subsequences`), not by recursion.

The properties of the violation runs are false of the code: each is a finding, with
the line it contradicts.

## What is not modelled

Formatting, hashing and signing; the compiler of forms and the sample workbooks;
schemas, settings and the engine; the employee aggregator, which only reads; SMS, one call
whose outcome nothing looks at; downloads and the direct upload, which touch no
row; of Export its fonts, column widths and bulk formats; usernames, types and
ranks of an employee, which only cause refusals. The change listeners return
before they do anything. No route reaches `Service/bulk_insert_service.py`,
`Crud/async_base.py`, the helpers after `update_user` in `Crud/user_base.py`,
`update_role` and the permission helpers of `Crud/role_crud.py`, or
`expire_old_tokens`. Alembic scripts and the test scripts at the top of `src/` are not
part of the running program.
