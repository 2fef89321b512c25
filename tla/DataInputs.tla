------------------------------ MODULE DataInputs ------------------------------
(***************************************************************************)
(* The change-request workflow: an employee submits a change of a record   *)
(* (table employee_data_inputs), HR decides it with PATCH, an approval     *)
(* applies it to the target table and deletes the request.                 *)
(*                                                                         *)
(* PATCH and DELETE are `def' endpoints: they run in the threadpool, each  *)
(* with its own READ COMMITTED session, so every commit and every query    *)
(* that opens a transaction is a step of its own.  The create endpoint is  *)
(* `async def': from its lookup of a pending row to its commit there is no *)
(* await, so two creations never interleave with each other, but both      *)
(* interleave with the threads.                                            *)
(***************************************************************************)
EXTENDS Integers, Sequences

CONSTANTS
    Slots,          \* (employee, data_type) pairs requests are made for
    KeyedSlots,     \* those whose natural-key lookup can be evaluated
    Keys,           \* values of the natural key (degree, company, ...)
    Payloads,       \* the forms employees send
    Threads,        \* threadpool workers
    PatchStatuses,  \* the statuses HR sends with PATCH
    SeedRecords,    \* rows of the target tables at the start
    MaxRows         \* bound: requests ever inserted

CONSTANTS NoKey, NoSlot, NoData   \* none of a slot, a key, a payload

RequestStatus == {"Pending", "Approved", "Rejected"}

Rows == 1..MaxRows

\* A record of a target table; its primary key is its place in `records'.
Record == [slot : Slots, key : Keys \cup {NoKey}]

(***************************************************************************)
(* What a form carries: request_type, the primary key of the target record *)
(* (0 when the payload has no `id') and its natural key.                   *)
(***************************************************************************)
Data == [mode : {"save", "update"}, pk : Nat, key : Keys \cup {NoKey}]

ASSUME SlotsAssumption == KeyedSlots \subseteq Slots /\ NoSlot \notin Slots
ASSUME StatusAssumption == PatchStatuses \subseteq RequestStatus
ASSUME MaxRowsAssumption == MaxRows \in Nat
ASSUME SeedAssumption == SeedRecords \in Seq(Record)
ASSUME PayloadAssumption == \A d \in Payloads : d \in Data

VARIABLES
    rows,     \* employee_data_inputs; "unused" ids come before, "gone" after
    nextRow,  \* the id the next insert gets
    records,  \* the target tables
    patch,    \* the PATCH request each worker is serving
    create,   \* the create request on the event loop
    applies,  \* history: committed applications of each request
    failed,   \* history: requests whose approval died before its commit
    reopened  \* history: requests that are Pending because a PATCH said so

vars == <<rows, nextRow, records, patch, create, applies, failed, reopened>>

Row == [slot : Slots \cup {NoSlot},
        status : RequestStatus \cup {"unused", "gone"},
        data : Data \cup {NoData}]

Patch == [pc : {"idle", "loaded", "saved", "approved", "resolved"},
          row : Rows \cup {0},
          want : PatchStatuses \cup {"none"},   \* "none": comments only
          old : RequestStatus \cup {"none"},
          data : Data \cup {NoData},
          target : Nat]

Create == [pc : {"idle", "looked"},
           slot : Slots \cup {NoSlot},
           row : Rows \cup {0},                 \* 0: nothing pending found
           data : Data \cup {NoData}]

TypeOK ==
    /\ rows \in [Rows -> Row]
    /\ nextRow \in 1..(MaxRows + 1)
    /\ records \in Seq(Record)
    /\ patch \in [Threads -> Patch]
    /\ create \in Create
    /\ applies \in [Rows -> Nat]
    /\ failed \subseteq Rows
    /\ reopened \subseteq Rows

IdlePatch == [pc |-> "idle", row |-> 0, want |-> "none", old |-> "none",
              data |-> NoData, target |-> 0]
IdleCreate == [pc |-> "idle", slot |-> NoSlot, row |-> 0, data |-> NoData]

Init ==
    /\ rows = [r \in Rows |->
                  [slot |-> NoSlot, status |-> "unused", data |-> NoData]]
    /\ nextRow = 1
    /\ records = SeedRecords
    /\ patch = [t \in Threads |-> IdlePatch]
    /\ create = IdleCreate
    /\ applies = [r \in Rows |-> 0]
    /\ failed = {}
    /\ reopened = {}

\* Mutant of Live: a deleted row still accepts an UPDATE.
LiveOrGone(r) == rows[r].status # "unused"

Live(r) == rows[r].status \in RequestStatus

-----------------------------------------------------------------------------
(* Create: validate, look for the pending row of the slot, then upsert it. *)

\* Mutant of PendingRows: the lookup before the insert is left out.
NoPendingRows(s) == {r \in Rows : rows[r].slot # rows[r].slot}

PendingRows(s) == {r \in Rows : rows[r].slot = s /\ rows[r].status = "Pending"}

(***************************************************************************)
(* one_or_none(): two pending rows raise MultipleResultsFound (no change,  *)
(* so no step); one is remembered, none becomes 0.  A legal payload of a   *)
(* slot names an existing record or none.                                  *)
(***************************************************************************)
CreateLookup(s, d) ==
    /\ create.pc = "idle"
    /\ \A r1, r2 \in PendingRows(s) : r1 = r2
    /\ d.pk # 0 => d.pk \in DOMAIN records
    /\ \E r \in Rows \cup {0} :
          /\ IF PendingRows(s) = {} THEN r = 0 /\ nextRow <= MaxRows
                                    ELSE r \in PendingRows(s)
          /\ create' = [pc |-> "looked", slot |-> s, row |-> r, data |-> d]
    /\ UNCHANGED <<rows, nextRow, records, patch, applies, failed, reopened>>

CreateInsert ==
    /\ create.pc = "looked"
    /\ create.row = 0
    /\ rows' = [rows EXCEPT ![nextRow] = [slot |-> create.slot,
                                          status |-> "Pending",
                                          data |-> create.data]]
    /\ nextRow' = nextRow + 1
    /\ create' = IdleCreate
    /\ UNCHANGED <<records, patch, applies, failed, reopened>>

\* UPDATE ... SET data, request_date, request_type WHERE id: the status
\* column is not written, and not looked at again.
CreateOverwrite ==
    /\ create.pc = "looked"
    /\ create.row # 0
    /\ Live(create.row)
    /\ rows' = [rows EXCEPT ![create.row].data = create.data]
    /\ create' = IdleCreate
    /\ UNCHANGED <<nextRow, records, patch, applies, failed, reopened>>

\* The row was deleted after the lookup: StaleDataError, a 500.
CreateStale ==
    /\ create.pc = "looked"
    /\ create.row # 0
    /\ ~Live(create.row)
    /\ create' = IdleCreate
    /\ UNCHANGED <<rows, nextRow, records, patch, applies, failed, reopened>>

-----------------------------------------------------------------------------
(* PATCH: update_data_input, one step per transaction.                     *)

Finish(t) == patch' = [patch EXCEPT ![t] = IdlePatch]

\* get_data_input, and old_status remembered.  A missing row is a 404.
PatchLoad(t, r, want) ==
    /\ patch[t].pc = "idle"
    /\ Live(r)
    /\ patch' = [patch EXCEPT ![t] = [IdlePatch EXCEPT !.pc = "loaded",
                                                       !.row = r,
                                                       !.want = want,
                                                       !.old = rows[r].status]]
    /\ UNCHANGED <<rows, nextRow, records, create, applies, failed, reopened>>

\* Mutant of WritesStatus: exclude_unset is left out, null is a new status.
WritesUnset(t) == patch[t].want # patch[t].old

\* SQLAlchemy writes the columns that differ from what was loaded.
WritesStatus(t) == patch[t].want \notin {"none", patch[t].old}

\* The first commit: the new status is durable from here on.
PatchSave(t) ==
    LET r == patch[t].row IN
    /\ patch[t].pc = "loaded"
    /\ Live(r)
    /\ IF WritesStatus(t)
       THEN /\ rows' = [rows EXCEPT ![r].status = patch[t].want]
            /\ failed' = failed \ {r}
            /\ reopened' = IF patch[t].want = "Pending"
                           THEN reopened \cup {r} ELSE reopened \ {r}
       ELSE UNCHANGED <<rows, failed, reopened>>
    /\ patch' = [patch EXCEPT ![t].pc = "saved"]
    /\ UNCHANGED <<nextRow, records, create, applies>>

\* The row is gone at the first commit or at the refresh: a 500.
PatchStale(t) ==
    /\ patch[t].pc \in {"loaded", "saved"}
    /\ ~Live(patch[t].row)
    /\ Finish(t)
    /\ UNCHANGED <<rows, nextRow, records, create, applies, failed, reopened>>

\* Mutant of JustApproved: a Rejected request cannot be approved any more.
ApprovedFromPending(old, new) == old = "Pending" /\ new = "Approved"

JustApproved(old, new) == old # "Approved" /\ new = "Approved"

\* db.refresh, in a new transaction: the row as it is now, not as written.
PatchRefresh(t) ==
    LET r == patch[t].row IN
    /\ patch[t].pc = "saved"
    /\ Live(r)
    /\ IF JustApproved(patch[t].old, rows[r].status)
       THEN patch' = [patch EXCEPT ![t].pc = "approved", ![t].data = rows[r].data]
       ELSE Finish(t)
    /\ UNCHANGED <<rows, nextRow, records, create, applies, failed, reopened>>

-----------------------------------------------------------------------------
(* apply_data_input -> the handler of the data type -> _upsert_intelligent *)

\* The records an update's natural key selects.
Matches(s, k) ==
    {i \in DOMAIN records : records[i].slot = s /\ records[i].key = k}

(***************************************************************************)
(* id is the record the upsert decides to patch, 0 to insert.  No id is    *)
(* possible when the key is ambiguous (400) or is not in the payload       *)
(* (KeyError): then only ApplyFails is enabled.                            *)
(***************************************************************************)
Resolves(s, d, id) ==
    \/ d.mode = "save" /\ id = 0
    \/ /\ d.mode = "update"
       /\ d.pk # 0
       /\ id = IF d.pk \in DOMAIN records THEN d.pk ELSE 0
    \/ /\ d.mode = "update"
       /\ d.pk = 0
       /\ s \in KeyedSlots
       /\ d.key # NoKey
       /\ \/ Matches(s, d.key) = {} /\ id = 0
          \/ Matches(s, d.key) = {id}

ApplyResolve(t, id) ==
    /\ patch[t].pc = "approved"
    /\ Resolves(rows[patch[t].row].slot, patch[t].data, id)
    /\ patch' = [patch EXCEPT ![t].pc = "resolved", ![t].target = id]
    /\ UNCHANGED <<rows, nextRow, records, create, applies, failed, reopened>>

\* The insert, or the patch: the payload's employee, and its key if it has one.
Upserted(s, d, id) ==
    IF id = 0
    THEN Append(records, [slot |-> s, key |-> d.key])
    ELSE [records EXCEPT
             ![id] = [slot |-> s, key |-> IF d.key = NoKey THEN @.key ELSE d.key]]

\* Mutant of Deleted: the request is not deleted with its application.
NotDeleted(r) == rows

Deleted(r) == [rows EXCEPT ![r].status = "gone"]

(***************************************************************************)
(* The second commit: the upsert and the delete together.  A row somebody  *)
(* else deleted meanwhile is only a warning: the upsert is still committed.*)
(***************************************************************************)
ApplyCommit(t) ==
    LET r == patch[t].row IN
    /\ patch[t].pc = "resolved"
    /\ records' = Upserted(rows[r].slot, patch[t].data, patch[t].target)
    /\ rows' = Deleted(r)
    /\ applies' = [applies EXCEPT ![r] = @ + 1]
    /\ Finish(t)
    /\ UNCHANGED <<nextRow, create, failed, reopened>>

\* The handler or the second commit raises: rollback and re-raise.  The
\* first commit stays.
ApplyFails(t) ==
    /\ patch[t].pc \in {"approved", "resolved"}
    /\ failed' = failed \cup {patch[t].row}
    /\ Finish(t)
    /\ UNCHANGED <<rows, nextRow, records, create, applies, reopened>>

-----------------------------------------------------------------------------
\* DELETE /employee-data-inputs/{id}, and the cascade of a deleted employee.
DeleteInput(t, r) ==
    /\ patch[t].pc = "idle"
    /\ Live(r)
    /\ rows' = [rows EXCEPT ![r].status = "gone"]
    /\ UNCHANGED <<nextRow, records, patch, create, applies, failed, reopened>>

InFlight(t) == patch[t].pc \in {"saved", "approved", "resolved"}

\* The process dies: handlers vanish, committed rows stay.
Crash ==
    /\ create' = IdleCreate
    /\ patch' = [t \in Threads |-> IdlePatch]
    /\ failed' = failed \cup {patch[t].row : t \in
                    {u \in Threads : InFlight(u) /\ patch[u].old # "Approved"}}
    /\ UNCHANGED <<rows, nextRow, records, applies, reopened>>

Handler(t) ==
    \/ PatchSave(t)
    \/ PatchStale(t)
    \/ PatchRefresh(t)
    \/ \E id \in 0..Len(records) : ApplyResolve(t, id)
    \/ ApplyCommit(t)
    \/ ApplyFails(t)

Next ==
    \/ \E s \in Slots, d \in Payloads : CreateLookup(s, d)
    \/ CreateInsert
    \/ CreateOverwrite
    \/ CreateStale
    \/ \E t \in Threads, r \in Rows :
          \/ \E want \in PatchStatuses \cup {"none"} : PatchLoad(t, r, want)
          \/ DeleteInput(t, r)
    \/ \E t \in Threads : Handler(t)
    \/ Crash

Spec == Init /\ [][Next]_vars

(***************************************************************************)
(* A worker that started a PATCH finishes it: nothing it does waits for    *)
(* another request.  Nobody is obliged to send a request, and nothing is   *)
(* assumed of Crash.                                                       *)
(***************************************************************************)
Fairness == \A t \in Threads : WF_vars(Handler(t))

FairSpec == Spec /\ Fairness

-----------------------------------------------------------------------------
(* Properties                                                              *)

Approving(t) == InFlight(t) /\ patch[t].old # "Approved"

(***************************************************************************)
(* An Approved row is a passing state: either a PATCH that saw it before   *)
(* its approval is still going to apply it, or such a PATCH failed or died *)
(* between its two commits.  With any number of concurrent PATCHes, no     *)
(* approval is just forgotten (update_data_input, the two db.commit()).    *)
(***************************************************************************)
ApprovedIsInFlightOrFailed ==
    \A r \in Rows : rows[r].status = "Approved" =>
        r \in failed \/ \E t \in Threads : patch[t].row = r /\ Approving(t)

(***************************************************************************)
(* Two Pending rows of a slot have one origin: a PATCH set one of them     *)
(* back to Pending.  However creations, decisions and deletions overlap,   *)
(* create_or_update_data_input itself never makes a second one.            *)
(***************************************************************************)
OnePendingUnlessReopened ==
    \A r1, r2 \in Rows :
        /\ rows[r1].status = "Pending" /\ rows[r2].status = "Pending"
        /\ rows[r1].slot = rows[r2].slot
        => r1 = r2 \/ r1 \in reopened \/ r2 \in reopened

(***************************************************************************)
(* A request whose data reached the target tables is gone for good: its    *)
(* application and its deletion are one commit, and no late UPDATE of the  *)
(* create handler or of another PATCH brings it back.                      *)
(***************************************************************************)
AppliedIsGone == \A r \in Rows : applies[r] > 0 => rows[r].status = "gone"

\* One request changes the target tables at most once (`just transitioned').
AppliedAtMostOnce == \A r \in Rows : applies[r] <= 1

(***************************************************************************)
(* "apply only on approval": when an application commits, the request it   *)
(* applies is still there and still Approved.                              *)
(***************************************************************************)
AppliedOnlyWhenApproved ==
    [][\A r \in Rows : applies'[r] > applies[r] => rows[r].status = "Approved"]_vars

(***************************************************************************)
(* An approval does not stay in flight: the row is applied, deleted,       *)
(* decided anew, or recorded as failed.                                    *)
(***************************************************************************)
Undecided(r) == rows[r].status = "Approved" /\ r \notin failed

ApprovalSettles == \A r \in Rows : Undecided(r) ~> ~Undecided(r)

-----------------------------------------------------------------------------
(* What the workflow promises about one request after another.             *)
Phase(r) ==
    CASE applies[r] > 0 -> "Applied"
      [] applies[r] = 0 /\ rows[r].status = "gone" -> "Withdrawn"
      [] applies[r] = 0 /\ rows[r].status # "gone" -> rows[r].status

\* A reviewer whose PATCH saw its own approval and still has to apply it.
Holding(t) == patch[t].pc \in {"approved", "resolved"}

Claims(r) == {t \in Threads : Holding(t) /\ patch[t].row = r}

Lifecycle == INSTANCE RequestLifecycle
             WITH Requests <- Rows, Reviewers <- Threads,
                  phase <- [r \in Rows |-> Phase(r)],
                  claims <- [r \in Rows |-> Claims(r)]

(***************************************************************************)
(* However many PATCHes, deletions and submissions overlap, the handlers   *)
(* implement the life cycle of a request: only a reviewer who found it     *)
(* Approved applies it, and a closed request is never decided, taken up or *)
(* submitted again.                                                        *)
(***************************************************************************)
ImplementsLifecycle == Lifecycle!Spec
=============================================================================
