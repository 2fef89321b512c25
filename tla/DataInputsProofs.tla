--------------------------- MODULE DataInputsProofs ---------------------------
(***************************************************************************)
(* Proofs about DataInputs, for any slots, payloads, workers and bound.    *)
(***************************************************************************)
EXTENDS DataInputs, TLAPS

(***************************************************************************)
(* Every variable keeps its type: tables hold rows, handlers hold what     *)
(* they loaded (the whole workflow of Crud/employee_data_input.py).        *)
(***************************************************************************)
LEMMA UpsertedType ==
    ASSUME records \in Seq(Record), NEW s \in Slots, NEW d \in Data,
           NEW id \in 0..Len(records)
    PROVE  Upserted(s, d, id) \in Seq(Record)
<1>1. CASE id = 0
  <2>1. [slot |-> s, key |-> d.key] \in Record
    BY DEF Record, Data
  <2> QED
    BY <1>1, <2>1 DEF Upserted
<1>2. CASE id # 0
  <2>1. id \in 1..Len(records) /\ records[id] \in Record
    BY <1>2
  <2>2. [slot |-> s,
         key |-> IF d.key = NoKey THEN records[id].key ELSE d.key] \in Record
    BY <2>1 DEF Record, Data
  <2> QED
    BY <1>2, <2>1, <2>2 DEF Upserted
<1> QED
  BY <1>1, <1>2

(***************************************************************************)
(* What handlers rely on between their steps: a used row has a slot and a  *)
(* payload, a handler past its lookup names a used row, an approval holds  *)
(* the payload it read, and a resolved target still exists (target tables  *)
(* only grow here).                                                        *)
(***************************************************************************)
UsedRow(r) == /\ rows[r].status # "unused"
              /\ rows[r].slot \in Slots
              /\ rows[r].data \in Data

WellFormed ==
    /\ \A r \in Rows : IF r < nextRow THEN UsedRow(r) ELSE rows[r].status = "unused"
    /\ \A t \in Threads :
          /\ patch[t].pc # "idle" => patch[t].row \in Rows /\ patch[t].row < nextRow
          /\ patch[t].pc # "idle" => patch[t].old \in RequestStatus
          /\ patch[t].pc \in {"approved", "resolved"} =>
                patch[t].data \in Data /\ patch[t].old # "Approved"
          /\ patch[t].pc = "resolved" => patch[t].target \in 0..Len(records)
    /\ create.pc = "looked" =>
          /\ create.slot \in Slots
          /\ create.data \in Data
          /\ IF create.row = 0 THEN nextRow \in Rows
                               ELSE create.row < nextRow

Inv == TypeOK /\ WellFormed

LEMMA InitInv == Init => Inv
<1> SUFFICES ASSUME Init PROVE Inv
  OBVIOUS
<1> USE MaxRowsAssumption, SeedAssumption
<1>1. TypeOK
  BY DEF Init, TypeOK, Row, Rows, Patch, Create, IdlePatch, IdleCreate,
         RequestStatus
<1>2. WellFormed
  BY DEF Init, WellFormed, Rows, IdlePatch, IdleCreate
<1> QED
  BY <1>1, <1>2 DEF Inv

(***************************************************************************)
(* Each action preserves the invariant.                                    *)
(***************************************************************************)
LEMMA CreateLookupInv ==
    ASSUME Inv, NEW s \in Slots, NEW d \in Payloads, CreateLookup(s, d)
    PROVE  Inv'
<1>1. d \in Data
  BY PayloadAssumption
<1>2. TypeOK'
  BY <1>1 DEF Inv, TypeOK, CreateLookup, Create
<1>3. \A r \in PendingRows(s) : r \in Rows /\ r < nextRow
  BY MaxRowsAssumption DEF Inv, WellFormed, TypeOK, Rows, PendingRows
<1>4. IF create'.row = 0 THEN nextRow \in Rows ELSE create'.row < nextRow
  <2>1. PICK r \in Rows \cup {0} :
           /\ IF PendingRows(s) = {} THEN r = 0 /\ nextRow <= MaxRows
                                     ELSE r \in PendingRows(s)
           /\ create' = [pc |-> "looked", slot |-> s, row |-> r, data |-> d]
    BY DEF CreateLookup
  <2>2. 0 \notin PendingRows(s)
    BY DEF PendingRows, Rows
  <2> QED
    BY <1>3, <2>1, <2>2, MaxRowsAssumption DEF Inv, TypeOK, Rows
<1>5. create'.slot \in Slots /\ create'.data \in Data
  BY <1>1 DEF CreateLookup
<1>6. WellFormed'
  BY <1>4, <1>5 DEF Inv, TypeOK, WellFormed, UsedRow, CreateLookup
<1> QED
  BY <1>2, <1>6 DEF Inv

LEMMA CreateInsertInv == ASSUME Inv, CreateInsert PROVE Inv'
<1> DEFINE new == [slot |-> create.slot, status |-> "Pending", data |-> create.data]
<1>1. nextRow \in Rows /\ create.slot \in Slots /\ create.data \in Data
  BY DEF Inv, WellFormed, CreateInsert
<1>2. new \in Row
  BY <1>1 DEF Row, RequestStatus
<1>3. rows' \in [Rows -> Row] /\ rows' = [rows EXCEPT ![nextRow] = new]
  BY <1>1, <1>2 DEF Inv, TypeOK, CreateInsert
<1>4. TypeOK'
  BY <1>1, <1>3, MaxRowsAssumption
     DEF Inv, TypeOK, CreateInsert, IdleCreate, Create, Rows
<1>5. \A r \in Rows : IF r < nextRow' THEN UsedRow(r)' ELSE rows'[r].status = "unused"
  BY <1>1, <1>3, MaxRowsAssumption
     DEF Inv, TypeOK, WellFormed, UsedRow, CreateInsert, Rows
<1>6. WellFormed'
  BY <1>1, <1>5, MaxRowsAssumption
     DEF Inv, TypeOK, WellFormed, CreateInsert, IdleCreate, Rows
<1> QED
  BY <1>4, <1>6 DEF Inv

LEMMA CreateOverwriteInv == ASSUME Inv, CreateOverwrite PROVE Inv'
<1>1. create.row \in Rows /\ create.row < nextRow /\ create.data \in Data
  BY DEF Inv, TypeOK, Create, WellFormed, CreateOverwrite
<1>2. /\ rows' \in [Rows -> Row]
      /\ \A r \in Rows : /\ rows'[r].status = rows[r].status
                         /\ rows'[r].slot = rows[r].slot
                         /\ rows'[r].data \in {rows[r].data, create.data}
  BY <1>1 DEF Inv, TypeOK, CreateOverwrite, Row
<1>3. TypeOK'
  BY <1>2 DEF Inv, TypeOK, CreateOverwrite, IdleCreate, Create
<1>4. WellFormed'
  BY <1>1, <1>2 DEF Inv, TypeOK, WellFormed, UsedRow, CreateOverwrite, IdleCreate
<1> QED
  BY <1>3, <1>4 DEF Inv

LEMMA CreateStaleInv == ASSUME Inv, CreateStale PROVE Inv'
BY DEF Inv, TypeOK, WellFormed, UsedRow, CreateStale, IdleCreate, Create

LEMMA PatchLoadInv ==
    ASSUME Inv, NEW t \in Threads, NEW r \in Rows,
           NEW want \in PatchStatuses \cup {"none"}, PatchLoad(t, r, want)
    PROVE  Inv'
<1>1. r < nextRow /\ rows[r].status \in RequestStatus
  BY DEF Inv, WellFormed, PatchLoad, Live, RequestStatus
<1>2. TypeOK'
  BY <1>1, StatusAssumption DEF Inv, TypeOK, PatchLoad, Patch, IdlePatch
<1>3. WellFormed'
  BY <1>1 DEF Inv, TypeOK, WellFormed, UsedRow, PatchLoad, IdlePatch
<1> QED
  BY <1>2, <1>3 DEF Inv

LEMMA PatchSaveRows ==
    ASSUME Inv, NEW t \in Threads, PatchSave(t)
    PROVE  /\ rows' \in [Rows -> Row]
           /\ \A x \in Rows :
                 /\ rows'[x].slot = rows[x].slot
                 /\ rows'[x].data = rows[x].data
                 /\ rows'[x].status # rows[x].status =>
                       /\ x = patch[t].row
                       /\ WritesStatus(t)
                       /\ rows'[x].status = patch[t].want
<1> DEFINE r == patch[t].row
<1>1. r \in Rows /\ patch[t].want \in PatchStatuses \cup {"none"}
  BY DEF Inv, TypeOK, Patch, WellFormed, PatchSave
<1>2. CASE WritesStatus(t)
  <2>1. rows' = [rows EXCEPT ![r] = [rows[r] EXCEPT !.status = patch[t].want]]
    BY <1>2 DEF PatchSave
  <2>2. patch[t].want \in RequestStatus
    BY <1>1, <1>2, StatusAssumption DEF WritesStatus
  <2>a. rows[r] \in Row
    BY <1>1 DEF Inv, TypeOK
  <2>3. [rows[r] EXCEPT !.status = patch[t].want] \in Row
    BY <2>2, <2>a DEF Row
  <2> QED
    BY <1>1, <1>2, <2>1, <2>2, <2>3 DEF Inv, TypeOK, Row
<1>3. CASE ~WritesStatus(t)
  BY <1>3 DEF Inv, TypeOK, PatchSave
<1> QED
  BY <1>2, <1>3

LEMMA PatchSaveInv == ASSUME Inv, NEW t \in Threads, PatchSave(t) PROVE Inv'
<1> DEFINE r == patch[t].row
<1>1. r \in Rows /\ r < nextRow /\ UsedRow(r)
  BY DEF Inv, WellFormed, PatchSave
<1>2. /\ rows' \in [Rows -> Row]
      /\ \A x \in Rows : /\ rows'[x].slot = rows[x].slot
                         /\ rows'[x].data = rows[x].data
                         /\ rows'[x].status # rows[x].status =>
                               x = r /\ rows'[x].status \in RequestStatus
  <2>1. WritesStatus(t) => patch[t].want \in RequestStatus
    BY StatusAssumption DEF WritesStatus, Inv, TypeOK, Patch
  <2> QED
    BY <2>1, PatchSaveRows
<1>3. failed' \subseteq Rows /\ reopened' \subseteq Rows
  BY <1>1 DEF Inv, TypeOK, PatchSave
<1>4. TypeOK'
  <2>1. [patch[t] EXCEPT !.pc = "saved"] \in Patch
    BY DEF Inv, TypeOK, Patch
  <2>2. patch' \in [Threads -> Patch]
    BY <2>1 DEF Inv, TypeOK, PatchSave
  <2> QED
    BY <1>2, <1>3, <2>2 DEF Inv, TypeOK, PatchSave
<1>5. \A x \in Rows : IF x < nextRow THEN UsedRow(x)' ELSE rows'[x].status = "unused"
  BY <1>1, <1>2 DEF Inv, WellFormed, UsedRow, RequestStatus
<1>6. WellFormed'
  BY <1>1, <1>5 DEF Inv, TypeOK, WellFormed, PatchSave
<1> QED
  BY <1>4, <1>6 DEF Inv

LEMMA FinishInv ==
    ASSUME Inv, NEW t \in Threads, Finish(t), failed' \subseteq Rows,
           UNCHANGED <<rows, nextRow, records, create, applies, reopened>>
    PROVE  Inv'
BY DEF Inv, TypeOK, WellFormed, UsedRow, Finish, IdlePatch, Patch

LEMMA PatchRefreshInv == ASSUME Inv, NEW t \in Threads, PatchRefresh(t) PROVE Inv'
<1> DEFINE r == patch[t].row
<1>1. r \in Rows /\ r < nextRow /\ rows[r].data \in Data
  BY DEF Inv, WellFormed, UsedRow, PatchRefresh
<1>2. CASE JustApproved(patch[t].old, rows[r].status)
  <2>1. patch' = [patch EXCEPT ![t].pc = "approved", ![t].data = rows[r].data]
    BY <1>2 DEF PatchRefresh
  <2>2. TypeOK'
    <3>1. [patch[t] EXCEPT !.pc = "approved", !.data = rows[r].data] \in Patch
      BY <1>1 DEF Inv, TypeOK, Patch
    <3>2. patch' \in [Threads -> Patch]
      BY <2>1, <3>1 DEF Inv, TypeOK
    <3> QED
      BY <3>2 DEF Inv, TypeOK, PatchRefresh
  <2>3. WellFormed'
    BY <1>1, <1>2, <2>1
       DEF Inv, TypeOK, WellFormed, UsedRow, PatchRefresh, JustApproved, Patch
  <2> QED
    BY <2>2, <2>3 DEF Inv
<1>3. CASE ~JustApproved(patch[t].old, rows[r].status)
  BY <1>3, FinishInv DEF PatchRefresh, Inv, TypeOK
<1> QED
  BY <1>2, <1>3

LEMMA ApplyResolveInv ==
    ASSUME Inv, NEW t \in Threads, NEW id \in 0..Len(records), ApplyResolve(t, id)
    PROVE  Inv'
<1>1. TypeOK'
  <2>. id \in Nat
    BY DEF Inv, TypeOK
  <2>1. [patch[t] EXCEPT !.pc = "resolved", !.target = id] \in Patch
    BY DEF Inv, TypeOK, Patch
  <2>2. patch' \in [Threads -> Patch]
    BY <2>1 DEF Inv, TypeOK, ApplyResolve
  <2> QED
    BY <2>2 DEF Inv, TypeOK, ApplyResolve
<1>2. WellFormed'
  BY DEF Inv, TypeOK, WellFormed, UsedRow, ApplyResolve, Patch
<1> QED
  BY <1>1, <1>2 DEF Inv

LEMMA ApplyCommitInv == ASSUME Inv, NEW t \in Threads, ApplyCommit(t) PROVE Inv'
<1> DEFINE r == patch[t].row
           id == patch[t].target
<1>1. /\ r \in Rows /\ r < nextRow /\ UsedRow(r)
      /\ patch[t].data \in Data
      /\ id \in 0..Len(records)
  BY DEF Inv, TypeOK, Patch, WellFormed, ApplyCommit
<1>2. records' \in Seq(Record)
  BY <1>1, UpsertedType DEF Inv, TypeOK, ApplyCommit, UsedRow
<1>3. Len(records') >= Len(records)
  BY <1>1 DEF Inv, TypeOK, ApplyCommit, Upserted
<1>4. /\ rows' \in [Rows -> Row]
      /\ \A x \in Rows : /\ rows'[x].slot = rows[x].slot
                         /\ rows'[x].data = rows[x].data
                         /\ rows'[x].status = IF x = r THEN "gone" ELSE rows[x].status
  BY <1>1 DEF Inv, TypeOK, ApplyCommit, Deleted, Row
<1>5. TypeOK'
  BY <1>1, <1>2, <1>4 DEF Inv, TypeOK, ApplyCommit, Finish, IdlePatch, Patch
<1>6. \A x \in Rows : IF x < nextRow THEN UsedRow(x)' ELSE rows'[x].status = "unused"
  BY <1>1, <1>4 DEF Inv, WellFormed, UsedRow
<1>7. \A u \in Threads : patch'[u].pc = "resolved" => patch'[u].target \in 0..Len(records')
  BY <1>2, <1>3, <1>5 DEF Inv, TypeOK, WellFormed, ApplyCommit, Finish, IdlePatch, Patch
<1>8. WellFormed'
  BY <1>6, <1>7 DEF Inv, TypeOK, WellFormed, ApplyCommit, Finish, IdlePatch
<1> QED
  BY <1>5, <1>8 DEF Inv

LEMMA DeleteInputInv ==
    ASSUME Inv, NEW t \in Threads, NEW r \in Rows, DeleteInput(t, r)
    PROVE  Inv'
<1>1. /\ rows' \in [Rows -> Row]
      /\ \A x \in Rows : /\ rows'[x].slot = rows[x].slot
                         /\ rows'[x].data = rows[x].data
                         /\ rows'[x].status = IF x = r THEN "gone" ELSE rows[x].status
  BY DEF Inv, TypeOK, DeleteInput, Row
<1>2. TypeOK'
  BY <1>1 DEF Inv, TypeOK, DeleteInput
<1>3. \A x \in Rows : IF x < nextRow THEN UsedRow(x)' ELSE rows'[x].status = "unused"
  BY <1>1 DEF Inv, WellFormed, UsedRow, DeleteInput, Live, RequestStatus
<1>4. WellFormed'
  BY <1>3 DEF Inv, WellFormed, DeleteInput
<1> QED
  BY <1>2, <1>4 DEF Inv

LEMMA CrashInv == ASSUME Inv, Crash PROVE Inv'
<1>1. \A t \in Threads : InFlight(t) => patch[t].row \in Rows
  BY DEF Inv, WellFormed, InFlight
<1>2. TypeOK'
  BY <1>1 DEF Inv, TypeOK, Crash, IdlePatch, IdleCreate, Patch, Create
<1>3. WellFormed'
  BY DEF Inv, TypeOK, WellFormed, UsedRow, Crash, IdlePatch, IdleCreate
<1> QED
  BY <1>2, <1>3 DEF Inv

LEMMA HandlerInv == ASSUME Inv, NEW t \in Threads, Handler(t) PROVE Inv'
<1>1. CASE PatchSave(t)
  BY <1>1, PatchSaveInv
<1>2. CASE PatchStale(t)
  BY <1>2, FinishInv DEF PatchStale, Inv, TypeOK
<1>3. CASE PatchRefresh(t)
  BY <1>3, PatchRefreshInv
<1>4. CASE \E id \in 0..Len(records) : ApplyResolve(t, id)
  BY <1>4, ApplyResolveInv
<1>5. CASE ApplyCommit(t)
  BY <1>5, ApplyCommitInv
<1>6. CASE ApplyFails(t)
  <2>1. patch[t].row \in Rows
    BY <1>6 DEF ApplyFails, Inv, WellFormed
  <2> QED
    BY <1>6, <2>1, FinishInv DEF ApplyFails, Inv, TypeOK
<1> QED
  BY <1>1, <1>2, <1>3, <1>4, <1>5, <1>6 DEF Handler

LEMMA StepInv == Inv /\ [Next]_vars => Inv'
<1> SUFFICES ASSUME Inv, [Next]_vars PROVE Inv'
  OBVIOUS
<1>1. CASE \E s \in Slots, d \in Payloads : CreateLookup(s, d)
  BY <1>1, CreateLookupInv
<1>2. CASE CreateInsert
  BY <1>2, CreateInsertInv
<1>3. CASE CreateOverwrite
  BY <1>3, CreateOverwriteInv
<1>4. CASE CreateStale
  BY <1>4, CreateStaleInv
<1>5. CASE \E t \in Threads, r \in Rows, want \in PatchStatuses \cup {"none"} :
              PatchLoad(t, r, want)
  BY <1>5, PatchLoadInv
<1>6. CASE \E t \in Threads, r \in Rows : DeleteInput(t, r)
  BY <1>6, DeleteInputInv
<1>7. CASE \E t \in Threads : Handler(t)
  BY <1>7, HandlerInv
<1>8. CASE Crash
  BY <1>8, CrashInv
<1>9. CASE UNCHANGED vars
  BY <1>9 DEF vars, Inv, TypeOK, WellFormed, UsedRow
<1> QED
  BY <1>1, <1>2, <1>3, <1>4, <1>5, <1>6, <1>7, <1>8, <1>9 DEF Next

(***************************************************************************)
(* Tables and handlers keep their types in every state the endpoints of    *)
(* employee_requests.py can reach, and handlers their working assumptions. *)
(***************************************************************************)
THEOREM AlwaysInv == Spec => []Inv
BY InitInv, StepInv, PTL DEF Spec

\* The rows and the handlers' variables keep their types.
THEOREM TypeCorrect == Spec => []TypeOK
<1>1. Inv => TypeOK
  BY DEF Inv
<1> QED
  BY <1>1, AlwaysInv, PTL

-----------------------------------------------------------------------------
(* An approval is never forgotten while no handler fails.                  *)

Covered(r) ==
    r \in failed \/ \E t \in Threads : patch[t].row = r /\ Approving(t)

LEMMA SaveKeepsApprovals ==
    ASSUME Inv, ApprovedIsInFlightOrFailed, NEW t \in Threads, PatchSave(t),
           NEW r \in Rows, rows'[r].status = "Approved"
    PROVE  Covered(r)'
<1> DEFINE w == patch[t].row
<1>1. /\ w \in Rows
      /\ patch'[t].pc = "saved" /\ patch'[t].row = w /\ patch'[t].old = patch[t].old
      /\ \A u \in Threads : u # t => patch'[u] = patch[u]
      /\ ~Approving(t)
  BY DEF Inv, TypeOK, Patch, WellFormed, PatchSave, Approving, InFlight
<1>2. CASE r = w /\ WritesStatus(t)
  <2>1. patch[t].want = "Approved" /\ patch[t].old # "Approved"
    BY <1>1, <1>2 DEF Inv, TypeOK, Row, PatchSave, WritesStatus
  <2> QED
    BY <1>1, <1>2, <2>1 DEF Covered, Approving, InFlight
<1>3. CASE ~(r = w /\ WritesStatus(t))
  <2>1. rows[r].status = "Approved" /\ (r \in failed => r \in failed')
    BY <1>1, <1>3 DEF Inv, TypeOK, Row, PatchSave
  <2>2. Covered(r)
    BY <2>1 DEF ApprovedIsInFlightOrFailed, Covered
  <2> QED
    BY <1>1, <2>1, <2>2 DEF Covered, Approving, InFlight
<1> QED
  BY <1>2, <1>3

\* A worker may stop serving a request that is not Approved any more.
LEMMA FinishKeepsApprovals ==
    ASSUME Inv, ApprovedIsInFlightOrFailed, NEW t \in Threads, Finish(t),
           failed \subseteq failed',
           NEW r \in Rows, rows[r].status = "Approved",
           r = patch[t].row /\ Approving(t) => r \in failed'
    PROVE  Covered(r)'
<1>1. Covered(r)
  BY DEF ApprovedIsInFlightOrFailed, Covered
<1>2. \A u \in Threads : u # t => patch'[u] = patch[u]
  BY DEF Finish, Inv, TypeOK
<1> QED
  BY <1>1, <1>2 DEF Covered, Approving, InFlight

LEMMA HandlerKeepsApprovals ==
    ASSUME Inv, ApprovedIsInFlightOrFailed, NEW t \in Threads, Handler(t)
    PROVE  ApprovedIsInFlightOrFailed'
<1> SUFFICES ASSUME NEW r \in Rows, rows'[r].status = "Approved" PROVE Covered(r)'
  BY DEF ApprovedIsInFlightOrFailed, Covered
<1>1. CASE PatchSave(t)
  BY <1>1, SaveKeepsApprovals
<1>2. CASE PatchStale(t)
  BY <1>2, FinishKeepsApprovals DEF PatchStale, Live, RequestStatus
<1>3. CASE PatchRefresh(t)
  <2>1. rows[r].status = "Approved" /\ UNCHANGED failed
    BY <1>3 DEF PatchRefresh
  <2>2. CASE JustApproved(patch[t].old, rows[patch[t].row].status)
    <3>1. /\ patch'[t].pc = "approved" /\ patch'[t].row = patch[t].row
          /\ patch'[t].old = patch[t].old
          /\ \A u \in Threads : u # t => patch'[u] = patch[u]
      BY <1>3, <2>2 DEF PatchRefresh, Inv, TypeOK, Patch
    <3>2. Covered(r)
      BY <2>1 DEF ApprovedIsInFlightOrFailed, Covered
    <3> QED
      BY <2>1, <3>1, <3>2 DEF Covered, Approving, InFlight
  <2>3. CASE ~JustApproved(patch[t].old, rows[patch[t].row].status)
    BY <1>3, <2>1, <2>3, FinishKeepsApprovals
       DEF PatchRefresh, JustApproved, Approving
  <2> QED
    BY <2>2, <2>3
<1>4. CASE \E id \in 0..Len(records) : ApplyResolve(t, id)
  <2>1. /\ patch'[t].pc = "resolved" /\ patch'[t].row = patch[t].row
        /\ patch'[t].old = patch[t].old
        /\ \A u \in Threads : u # t => patch'[u] = patch[u]
        /\ rows[r].status = "Approved" /\ UNCHANGED failed
    BY <1>4 DEF ApplyResolve, Inv, TypeOK, Patch
  <2>2. Covered(r)
    BY <2>1 DEF ApprovedIsInFlightOrFailed, Covered
  <2> QED
    BY <2>1, <2>2 DEF Covered, Approving, InFlight
<1>5. CASE ApplyCommit(t)
  <2>1. rows[r].status = "Approved" /\ r # patch[t].row
    BY <1>5 DEF ApplyCommit, Deleted, Inv, TypeOK, Row
  <2> QED
    BY <1>5, <2>1, FinishKeepsApprovals DEF ApplyCommit
<1>6. CASE ApplyFails(t)
  BY <1>6, FinishKeepsApprovals DEF ApplyFails
<1> QED
  BY <1>1, <1>2, <1>3, <1>4, <1>5, <1>6 DEF Handler

LEMMA StepKeepsApprovals ==
    Inv /\ ApprovedIsInFlightOrFailed /\ [Next]_vars => ApprovedIsInFlightOrFailed'
<1> SUFFICES ASSUME Inv, ApprovedIsInFlightOrFailed, [Next]_vars
             PROVE  ApprovedIsInFlightOrFailed'
  OBVIOUS
<1>1. CASE /\ UNCHANGED <<patch, failed>>
           /\ \A r \in Rows : rows'[r].status = "Approved" => rows[r].status = "Approved"
  BY <1>1 DEF ApprovedIsInFlightOrFailed, Approving, InFlight
<1>2. CASE \E s \in Slots, d \in Payloads : CreateLookup(s, d)
  BY <1>1, <1>2 DEF CreateLookup
<1>3. CASE CreateInsert
  BY <1>1, <1>3 DEF CreateInsert, Inv, TypeOK
<1>4. CASE CreateOverwrite
  BY <1>1, <1>4 DEF CreateOverwrite, Inv, TypeOK, Row
<1>5. CASE CreateStale
  BY <1>1, <1>5 DEF CreateStale
<1>6. ASSUME NEW t \in Threads, NEW r \in Rows,
             NEW want \in PatchStatuses \cup {"none"}, PatchLoad(t, r, want)
      PROVE  ApprovedIsInFlightOrFailed'
  <2>1. /\ ~Approving(t) /\ UNCHANGED <<rows, failed>>
        /\ \A u \in Threads : u # t => patch'[u] = patch[u]
    BY <1>6 DEF PatchLoad, Approving, InFlight, Inv, TypeOK
  <2> QED
    BY <2>1 DEF ApprovedIsInFlightOrFailed, Approving, InFlight
<1>7. CASE \E t \in Threads, r \in Rows : DeleteInput(t, r)
  BY <1>1, <1>7 DEF DeleteInput, Inv, TypeOK, Row
<1>8. CASE \E t \in Threads : Handler(t)
  BY <1>8, HandlerKeepsApprovals
<1>9. CASE Crash
  BY <1>9 DEF Crash, ApprovedIsInFlightOrFailed, Approving
<1>10. CASE UNCHANGED vars
  BY <1>1, <1>10 DEF vars
<1> QED
  BY <1>2, <1>3, <1>4, <1>5, <1>6, <1>7, <1>8, <1>9, <1>10 DEF Next

(***************************************************************************)
(* However many PATCHes run together, an Approved request is being applied *)
(* or its approval failed or died between the two commits of               *)
(* update_data_input.                                                      *)
(***************************************************************************)
THEOREM ApprovalsAreNotForgotten == Spec => []ApprovedIsInFlightOrFailed
<1>1. Init => ApprovedIsInFlightOrFailed
  BY DEF Init, ApprovedIsInFlightOrFailed
<1> QED
  BY <1>1, AlwaysInv, StepKeepsApprovals, PTL DEF Spec

-----------------------------------------------------------------------------
(* The only Pending rows create_or_update_data_input can overlook are      *)
(* those a PATCH set back to Pending after its lookup.                     *)
PendingInv ==
    /\ OnePendingUnlessReopened
    /\ create.pc = "looked" /\ create.row = 0 =>
          PendingRows(create.slot) \subseteq reopened

\* A step that makes no row Pending keeps PendingInv.
LEMMA NoNewPending ==
    ASSUME PendingInv,
           \A r \in Rows : /\ rows'[r].slot = rows[r].slot
                           /\ rows'[r].status = "Pending" =>
                                 rows[r].status = "Pending" \/ r \in reopened'
                           /\ rows'[r].status = "Pending" /\ r \in reopened =>
                                 r \in reopened',
           create' = create \/ create'.pc = "idle"
    PROVE  PendingInv'
BY DEF PendingInv, OnePendingUnlessReopened, PendingRows

LEMMA StepPending ==
    ASSUME Inv, PendingInv, [Next]_vars
    PROVE  PendingInv'
<1>1. ASSUME NEW s \in Slots, NEW d \in Payloads, CreateLookup(s, d)
      PROVE  PendingInv'
  <2>1. /\ UNCHANGED <<rows, reopened>> /\ create'.slot = s
        /\ create'.row = 0 => PendingRows(s) = {}
    BY <1>1 DEF CreateLookup, PendingRows, Rows
  <2> QED
    BY <2>1 DEF PendingInv, OnePendingUnlessReopened, PendingRows
<1>2. CASE CreateInsert
  <2>1. /\ nextRow \in Rows
        /\ rows'[nextRow].slot = create.slot
        /\ \A r \in Rows : r # nextRow => rows'[r] = rows[r]
        /\ PendingRows(create.slot) \subseteq reopened
        /\ create'.pc = "idle"
        /\ UNCHANGED reopened
    BY <1>2 DEF CreateInsert, Inv, TypeOK, Row, WellFormed, PendingInv, IdleCreate
  <2> QED
    BY <2>1 DEF PendingInv, OnePendingUnlessReopened, PendingRows
<1>3. CASE CreateOverwrite
  BY <1>3, NoNewPending DEF CreateOverwrite, IdleCreate, Inv, TypeOK, Row
<1>4. CASE CreateStale
  BY <1>4, NoNewPending DEF CreateStale, IdleCreate
<1>5. CASE \E t \in Threads, r \in Rows, want \in PatchStatuses \cup {"none"} :
              PatchLoad(t, r, want)
  BY <1>5, NoNewPending DEF PatchLoad
<1>6. CASE \E t \in Threads, r \in Rows : DeleteInput(t, r)
  BY <1>6, NoNewPending DEF DeleteInput, Inv, TypeOK, Row
<1>7. ASSUME NEW t \in Threads, Handler(t) PROVE PendingInv'
  <2>0. UNCHANGED create
    BY <1>7 DEF Handler, PatchSave, PatchStale, PatchRefresh, ApplyResolve,
                ApplyCommit, ApplyFails
  <2>1. CASE PatchSave(t)
    <3>1. \A r \in Rows :
             /\ rows'[r].slot = rows[r].slot
             /\ rows'[r].status # rows[r].status =>
                   /\ r = patch[t].row
                   /\ WritesStatus(t)
                   /\ rows'[r].status = patch[t].want
      BY <2>1, PatchSaveRows
    <3>2. CASE WritesStatus(t)
      <4>1. /\ patch[t].row \in Rows
            /\ rows'[patch[t].row].status = patch[t].want
            /\ reopened' = IF patch[t].want = "Pending"
                           THEN reopened \cup {patch[t].row}
                           ELSE reopened \ {patch[t].row}
        BY <2>1, <3>2 DEF PatchSave, Inv, TypeOK, Row, WellFormed
      <4> QED
        BY <2>0, <3>1, <4>1, NoNewPending
    <3>3. CASE ~WritesStatus(t)
      <4>1. UNCHANGED <<rows, reopened>>
        BY <2>1, <3>3 DEF PatchSave
      <4> QED
        BY <2>0, <4>1, NoNewPending
    <3> QED
      BY <3>2, <3>3
  <2>2. CASE ApplyCommit(t)
    BY <2>0, <2>2, NoNewPending DEF ApplyCommit, Deleted, Inv, TypeOK, Row
  <2>3. CASE UNCHANGED <<rows, reopened>>
    BY <2>0, <2>3, NoNewPending
  <2> QED
    BY <1>7, <2>1, <2>2, <2>3
       DEF Handler, PatchStale, PatchRefresh, ApplyResolve, ApplyFails
<1>8. CASE Crash
  BY <1>8, NoNewPending DEF Crash, IdleCreate
<1>9. CASE UNCHANGED vars
  BY <1>9, NoNewPending DEF vars
<1> QED
  BY <1>1, <1>2, <1>3, <1>4, <1>5, <1>6, <1>7, <1>8, <1>9 DEF Next

(***************************************************************************)
(* Whatever HR sends, two Pending requests of one employee and data type   *)
(* come from a PATCH that set one back: create_or_update_data_input and    *)
(* the deletions and decisions that overlap it make none of their own.     *)
(***************************************************************************)
THEOREM PendingIsUnique == Spec => []OnePendingUnlessReopened
<1>1. Init => PendingInv
  BY DEF Init, PendingInv, OnePendingUnlessReopened, IdleCreate
<1>2. Inv /\ PendingInv /\ [Next]_vars => PendingInv'
  BY StepPending
<1>3. PendingInv => OnePendingUnlessReopened
  BY DEF PendingInv
<1> QED
  BY <1>1, <1>2, <1>3, AlwaysInv, PTL DEF Spec

-----------------------------------------------------------------------------
(***************************************************************************)
(* With one reviewer at a time (no two workers serve PATCH or DELETE       *)
(* together) the row an approval holds stays Approved until its commit.    *)
(***************************************************************************)
OneWorker == \A t, u \in Threads : t = u

SerialInv ==
    /\ AppliedIsGone
    /\ AppliedAtMostOnce
    /\ \A t \in Threads : Holding(t) => rows[patch[t].row].status = "Approved"

\* The rows of the requests that are gone stay gone.
LEMMA GoneStaysGone ==
    ASSUME Inv, [Next]_vars, NEW r \in Rows, rows[r].status = "gone"
    PROVE  rows'[r].status = "gone" /\ (applies'[r] # applies[r] =>
               \E t \in Threads : ApplyCommit(t) /\ patch[t].row = r)
<1>1. CASE UNCHANGED <<rows, applies>>
  BY <1>1
<1>2. CASE CreateInsert
  <2>1. r # nextRow
    BY <1>2, MaxRowsAssumption DEF CreateInsert, Inv, TypeOK, WellFormed, Rows
  <2> QED
    BY <1>2, <2>1 DEF CreateInsert, Inv, TypeOK
<1>3. CASE CreateOverwrite
  BY <1>3 DEF CreateOverwrite, Inv, TypeOK, Row
<1>4. CASE \E t \in Threads, x \in Rows : DeleteInput(t, x)
  BY <1>4 DEF DeleteInput, Inv, TypeOK, Row
<1>5. ASSUME NEW t \in Threads, PatchSave(t)
      PROVE  rows'[r].status = "gone" /\ UNCHANGED applies
  <2>1. r # patch[t].row
    BY <1>5 DEF PatchSave, Live, RequestStatus
  <2> QED
    BY <1>5, <2>1, PatchSaveRows DEF PatchSave
<1>6. ASSUME NEW t \in Threads, ApplyCommit(t)
      PROVE  /\ rows'[r].status = "gone"
             /\ applies'[r] # applies[r] => patch[t].row = r
  BY <1>6 DEF ApplyCommit, Deleted, Inv, TypeOK, Row
<1>7. CASE UNCHANGED vars
  BY <1>1, <1>7 DEF vars
<1> QED
  BY <1>1, <1>2, <1>3, <1>4, <1>5, <1>6, <1>7
     DEF Next, Handler, CreateLookup, CreateStale, PatchLoad, PatchStale,
         PatchRefresh, ApplyResolve, ApplyFails, Crash

\* While a worker holds an approval, no step of another actor moves the row.
LEMMA HeldStaysApproved ==
    ASSUME OneWorker, Inv, SerialInv, [Next]_vars, NEW t \in Threads, Holding(t)'
    PROVE  rows'[patch'[t].row].status = "Approved"
<1>1. \A u \in Threads : u = t
  BY DEF OneWorker
<1>2. CASE UNCHANGED <<rows, patch>>
  BY <1>2 DEF SerialInv, Holding
<1>3. CASE CreateInsert
  <2>1. rows[patch[t].row].status = "Approved" /\ patch[t].row \in Rows
    BY <1>3 DEF CreateInsert, SerialInv, Holding, Inv, WellFormed
  <2>2. patch[t].row < nextRow /\ UNCHANGED patch
    BY <1>3 DEF CreateInsert, Inv, WellFormed, Holding
  <2>3. patch[t].row # nextRow
    BY <2>1, <2>2, MaxRowsAssumption DEF Inv, TypeOK, Rows
  <2> QED
    BY <1>3, <2>1, <2>2, <2>3 DEF CreateInsert, Inv, TypeOK
<1>4. CASE CreateOverwrite
  <2>1. rows[patch[t].row].status = "Approved" /\ patch[t].row \in Rows
    BY <1>4 DEF CreateOverwrite, SerialInv, Holding, Inv, WellFormed
  <2> QED
    BY <1>4, <2>1 DEF CreateOverwrite, Inv, TypeOK, Row
<1>5. CASE \E u \in Threads, r \in Rows : DeleteInput(u, r)
  BY <1>1, <1>5 DEF DeleteInput, Holding
<1>6. CASE \E u \in Threads, r \in Rows, want \in PatchStatuses \cup {"none"} :
              PatchLoad(u, r, want)
  BY <1>1, <1>6 DEF PatchLoad, Holding, Inv, TypeOK, Patch
<1>7. CASE PatchSave(t)
  BY <1>7 DEF PatchSave, Holding, Inv, TypeOK, Patch
<1>8. CASE Finish(t)
  BY <1>8 DEF Finish, IdlePatch, Holding, Inv, TypeOK
<1>9. CASE PatchRefresh(t)
  <2>1. CASE JustApproved(patch[t].old, rows[patch[t].row].status)
    BY <1>9, <2>1 DEF PatchRefresh, JustApproved, Inv, TypeOK, Patch
  <2>2. CASE ~JustApproved(patch[t].old, rows[patch[t].row].status)
    BY <1>8, <1>9, <2>2 DEF PatchRefresh
  <2> QED
    BY <2>1, <2>2
<1>10. CASE \E id \in 0..Len(records) : ApplyResolve(t, id)
  BY <1>10 DEF ApplyResolve, SerialInv, Holding, Inv, TypeOK, Patch
<1>11. CASE Crash
  BY <1>11 DEF Crash, IdlePatch, Holding
<1>12. CASE UNCHANGED vars
  BY <1>2, <1>12 DEF vars
<1> QED
  BY <1>1, <1>2, <1>3, <1>4, <1>5, <1>6, <1>7, <1>8, <1>9, <1>10, <1>11, <1>12
     DEF Next, Handler, CreateLookup, CreateStale, PatchStale, ApplyCommit, ApplyFails

LEMMA OnlyCommitsApply ==
    [Next]_vars => UNCHANGED applies \/ \E t \in Threads : ApplyCommit(t)
<1>1. ASSUME NEW t \in Threads, Handler(t)
      PROVE  UNCHANGED applies \/ ApplyCommit(t)
  BY <1>1 DEF Handler, PatchSave, PatchStale, PatchRefresh, ApplyResolve, ApplyFails
<1>2. ASSUME NEW t \in Threads, NEW r \in Rows,
             \/ \E want \in PatchStatuses \cup {"none"} : PatchLoad(t, r, want)
             \/ DeleteInput(t, r)
      PROVE  UNCHANGED applies
  BY <1>2 DEF PatchLoad, DeleteInput
<1>3. ASSUME \/ \E s \in Slots, d \in Payloads : CreateLookup(s, d)
             \/ CreateInsert \/ CreateOverwrite \/ CreateStale \/ Crash
      PROVE  UNCHANGED applies
  BY <1>3 DEF CreateLookup, CreateInsert, CreateOverwrite, CreateStale, Crash
<1>4. UNCHANGED vars => UNCHANGED applies
  BY DEF vars
<1> QED
  BY <1>1, <1>2, <1>3, <1>4 DEF Next

\* The rows that were applied are gone, with any number of reviewers.
LEMMA StepApplied ==
    ASSUME Inv, AppliedIsGone, [Next]_vars
    PROVE  AppliedIsGone'
<1>1. ASSUME NEW t \in Threads, ApplyCommit(t) PROVE AppliedIsGone'
  <2>1. patch[t].row \in Rows
    BY <1>1 DEF ApplyCommit, Inv, WellFormed
  <2>2. \A r \in Rows : /\ rows'[r].status = IF r = patch[t].row THEN "gone"
                                                               ELSE rows[r].status
                        /\ r # patch[t].row => applies'[r] = applies[r]
    BY <1>1, <2>1 DEF ApplyCommit, Deleted, Inv, TypeOK, Row
  <2> QED
    BY <2>2 DEF AppliedIsGone
<1>2. ASSUME UNCHANGED applies PROVE AppliedIsGone'
  BY <1>2, GoneStaysGone DEF AppliedIsGone
<1> QED
  BY <1>1, <1>2, OnlyCommitsApply

(***************************************************************************)
(* A request that was applied is deleted in the same commit and never      *)
(* written again, however many PATCHes, submissions and crashes overlap.   *)
(***************************************************************************)
THEOREM AppliedStaysGone == Spec => []AppliedIsGone
<1>1. Init => AppliedIsGone
  BY DEF Init, AppliedIsGone
<1>2. Inv /\ AppliedIsGone /\ [Next]_vars => AppliedIsGone'
  BY StepApplied
<1> QED
  BY <1>1, <1>2, AlwaysInv, PTL DEF Spec

LEMMA StepSerial ==
    ASSUME OneWorker, Inv, SerialInv, [Next]_vars
    PROVE  SerialInv'
<1>1. ASSUME NEW t \in Threads, ApplyCommit(t) PROVE AppliedIsGone' /\ AppliedAtMostOnce'
  <2>1. /\ patch[t].row \in Rows
        /\ applies[patch[t].row] = 0
    <3>1. patch[t].pc = "resolved"
      BY <1>1 DEF ApplyCommit
    <3>2. patch[t].row \in Rows
      BY <3>1 DEF Inv, WellFormed
    <3>3. rows[patch[t].row].status = "Approved"
      BY <3>1 DEF SerialInv, Holding
    <3>4. applies[patch[t].row] \in Nat
      BY <3>2 DEF Inv, TypeOK
    <3>5. ~(applies[patch[t].row] > 0)
      BY <3>2, <3>3 DEF SerialInv, AppliedIsGone
    <3> QED
      BY <3>2, <3>4, <3>5
  <2>2. \A r \in Rows : /\ rows'[r].status = IF r = patch[t].row THEN "gone"
                                                               ELSE rows[r].status
                        /\ applies'[r] = IF r = patch[t].row THEN 1 ELSE applies[r]
    BY <1>1, <2>1 DEF ApplyCommit, Deleted, Inv, TypeOK, Row
  <2> QED
    BY <2>1, <2>2 DEF SerialInv, AppliedIsGone, AppliedAtMostOnce
<1>2. ASSUME UNCHANGED applies PROVE AppliedIsGone' /\ AppliedAtMostOnce'
  <2>1. ASSUME NEW r \in Rows, applies'[r] > 0 PROVE rows'[r].status = "gone"
    <3>1. rows[r].status = "gone"
      BY <1>2, <2>1 DEF SerialInv, AppliedIsGone
    <3> QED
      BY <3>1, GoneStaysGone
  <2> QED
    BY <1>2, <2>1 DEF SerialInv, AppliedIsGone, AppliedAtMostOnce
<1>3. AppliedIsGone' /\ AppliedAtMostOnce'
  BY <1>1, <1>2, OnlyCommitsApply
<1> QED
  BY <1>3, HeldStaysApproved DEF SerialInv

LEMMA SerialAlways ==
    ASSUME OneWorker PROVE Spec => []SerialInv
<1>1. Init => SerialInv
  BY DEF Init, SerialInv, AppliedIsGone, AppliedAtMostOnce, Holding, IdlePatch
<1>2. Inv /\ SerialInv /\ [Next]_vars => SerialInv'
  BY StepSerial
<1> QED
  BY <1>1, <1>2, AlwaysInv, PTL DEF Spec

(***************************************************************************)
(* One reviewer at a time: an approved request reaches the target tables   *)
(* at most once, whatever else employees and crashes do.                   *)
(***************************************************************************)
THEOREM SerialApprovalsApplyOnce ==
    ASSUME OneWorker PROVE Spec => []AppliedAtMostOnce
<1>1. SerialInv => AppliedAtMostOnce
  BY DEF SerialInv
<1> QED
  BY <1>1, SerialAlways, PTL

-----------------------------------------------------------------------------
(* The handlers implement the life cycle of a request, whatever the number *)
(* of reviewers: every step is a step of RequestLifecycle, or none.        *)

\* The phase of a request depends on its status and its applications only.
LEMMA SamePhase ==
    ASSUME NEW r \in Rows, applies'[r] = applies[r],
           rows'[r].status = rows[r].status
    PROVE  Phase(r)' = Phase(r)
BY DEF Phase

\* The phases and claims of requests whose rows and reviewers do not move.
LEMMA SamePhases ==
    ASSUME UNCHANGED applies, \A r \in Rows : rows'[r].status = rows[r].status
    PROVE  UNCHANGED [r \in Rows |-> Phase(r)]
BY SamePhase

LEMMA SameClaims ==
    ASSUME NEW r \in Rows,
           \A t \in Threads : t \in Claims(r)' <=> t \in Claims(r)
    PROVE  Claims(r)' = Claims(r)
BY DEF Claims

LEMMA KeptClaims ==
    ASSUME \A t \in Threads : /\ Holding(t)' <=> Holding(t)
                              /\ Holding(t) => patch'[t].row = patch[t].row
    PROVE  UNCHANGED [r \in Rows |-> Claims(r)]
<1>1. \A r \in Rows : Claims(r)' = Claims(r)
  BY DEF Claims
<1> QED
  BY <1>1

LEMMA BecomesPhase ==
    ASSUME NEW r \in Rows, NEW p, Phase(r)' = p,
           \A x \in Rows : x # r => Phase(x)' = Phase(x)
    PROVE  Lifecycle!Become(r, p)
BY DEF Lifecycle!Become

\* A reviewer who finishes gives up the claim of its request, if it has one.
LEMMA FinishGivesUp ==
    ASSUME Inv, NEW t \in Threads, Finish(t), Holding(t)
    PROVE  /\ patch[t].row \in Rows
           /\ t \in Claims(patch[t].row)
           /\ Lifecycle!GiveUp(patch[t].row, t)
<1> DEFINE r == patch[t].row
<1>1. r \in Rows /\ t \in Claims(r)
  BY DEF Inv, WellFormed, Holding, Claims
<1>2. /\ \A u \in Threads : u # t => patch'[u] = patch[u]
      /\ ~Holding(t)'
  BY DEF Finish, Inv, TypeOK, IdlePatch, Holding
<1>3. \A x \in Rows : Claims(x)' = IF x = r THEN Claims(x) \ {t} ELSE Claims(x)
  BY <1>2 DEF Claims, Holding
<1> QED
  BY <1>1, <1>3 DEF Lifecycle!GiveUp

\* A handler that ends with the rows as they are drops a claim or nothing.
LEMMA FinishDrops ==
    ASSUME Inv, NEW t \in Threads, Finish(t), UNCHANGED <<rows, applies>>
    PROVE  [Lifecycle!Next]_<<[r \in Rows |-> Phase(r)], [r \in Rows |-> Claims(r)]>>
<1>1. CASE Holding(t)
  BY <1>1, SamePhases, FinishGivesUp DEF Lifecycle!Drop, Lifecycle!Next
<1>2. CASE ~Holding(t)
  <2>1. \A u \in Threads : /\ Holding(u)' <=> Holding(u)
                           /\ Holding(u) => patch'[u].row = patch[u].row
    BY <1>2 DEF Finish, IdlePatch, Holding, Inv, TypeOK
  <2> QED
    BY <2>1, SamePhases, KeptClaims
<1> QED
  BY <1>1, <1>2

LEMMA StepLifecycle ==
    ASSUME Inv, AppliedIsGone, [Next]_vars
    PROVE  [Lifecycle!Next]_<<[r \in Rows |-> Phase(r)], [r \in Rows |-> Claims(r)]>>
<1> DEFINE ph == [r \in Rows |-> Phase(r)]
           cl == [r \in Rows |-> Claims(r)]
<1>1. \A r \in Rows : rows[r].status # "gone" => applies[r] = 0 /\ Phase(r) = rows[r].status
  BY DEF Inv, TypeOK, AppliedIsGone, Phase
<1>2. ASSUME UNCHANGED <<applies, patch>>, \A r \in Rows : rows'[r].status = rows[r].status
      PROVE  UNCHANGED <<ph, cl>>
  BY <1>2, SamePhases, KeptClaims DEF Holding
<1>3. CASE CreateInsert
  <2>1. PICK r \in Rows : r = nextRow /\ rows[r].status = "unused"
    BY <1>3, MaxRowsAssumption DEF CreateInsert, Inv, TypeOK, WellFormed, Rows
  <2>2. /\ rows'[r].status = "Pending" /\ UNCHANGED <<applies, patch>>
        /\ \A x \in Rows : x # r => rows'[x] = rows[x]
    BY <1>3, <2>1 DEF CreateInsert, Inv, TypeOK
  <2>3. Phase(r)' = "Pending"
    BY <1>1, <2>1, <2>2 DEF Phase
  <2>4. \A x \in Rows : x # r => Phase(x)' = Phase(x)
    BY <2>2, SamePhase
  <2>5. UNCHANGED cl
    BY <2>2, KeptClaims DEF Holding
  <2>6. Lifecycle!Submit(r)
    BY <1>1, <2>1, <2>3, <2>4, <2>5, BecomesPhase DEF Lifecycle!Submit
  <2> QED
    BY <2>1, <2>6 DEF Lifecycle!Next
<1>4. ASSUME NEW t \in Threads, NEW r \in Rows, DeleteInput(t, r)
      PROVE  Lifecycle!Next
  <2>1. /\ rows'[r].status = "gone" /\ UNCHANGED <<applies, patch>>
        /\ \A x \in Rows : x # r => rows'[x] = rows[x]
        /\ rows[r].status \in RequestStatus
    BY <1>4 DEF DeleteInput, Live, Inv, TypeOK, Row
  <2>2. Phase(r)' = "Withdrawn"
    BY <1>1, <2>1 DEF Phase, RequestStatus
  <2>3. \A x \in Rows : x # r => Phase(x)' = Phase(x)
    BY <2>1, SamePhase
  <2>4. UNCHANGED cl
    BY <2>1, KeptClaims DEF Holding
  <2>5. Lifecycle!Withdraw(r)
    BY <1>1, <2>1, <2>2, <2>3, <2>4, BecomesPhase
       DEF Lifecycle!Withdraw, Lifecycle!Open, RequestStatus
  <2> QED
    BY <2>5 DEF Lifecycle!Next
<1>5. ASSUME NEW t \in Threads, PatchSave(t)
      PROVE  Lifecycle!Next \/ UNCHANGED <<ph, cl>>
  <2>1. PICK r \in Rows : /\ r = patch[t].row
                          /\ rows[r].status \in RequestStatus
                          /\ UNCHANGED applies
    BY <1>5 DEF PatchSave, Live, Inv, WellFormed
  <2>2. UNCHANGED cl
    <3>1. \A u \in Threads : /\ Holding(u)' <=> Holding(u)
                             /\ Holding(u) => patch'[u].row = patch[u].row
      BY <1>5 DEF PatchSave, Holding, Inv, TypeOK, Patch
    <3> QED
      BY <3>1, KeptClaims
  <2>3. CASE rows'[r].status = rows[r].status
    <3>1. \A x \in Rows : rows'[x].status = rows[x].status
      BY <1>5, <2>1, <2>3, PatchSaveRows
    <3> QED
      BY <2>1, <2>2, <3>1, SamePhases
  <2>4. CASE rows'[r].status # rows[r].status
    <3>1. rows'[r].status \in RequestStatus
      BY <1>5, <2>1, <2>4, PatchSaveRows, StatusAssumption
         DEF WritesStatus, Inv, TypeOK, Patch
    <3>2. Phase(r)' = rows'[r].status
      BY <1>1, <2>1, <3>1 DEF Phase, RequestStatus
    <3>3. \A x \in Rows : x # r => Phase(x)' = Phase(x)
      BY <1>5, <2>1, PatchSaveRows, SamePhase
    <3>4. Lifecycle!Become(r, rows'[r].status)
      BY <2>1, <3>2, <3>3, BecomesPhase
    <3>5. Lifecycle!Decide(r)
      BY <1>1, <2>1, <2>2, <3>1, <3>4
         DEF Lifecycle!Decide, Lifecycle!Open, RequestStatus
    <3> QED
      BY <2>1, <3>5 DEF Lifecycle!Next
  <2> QED
    BY <2>3, <2>4
<1>6. ASSUME NEW t \in Threads, PatchRefresh(t)
      PROVE  [Lifecycle!Next]_<<ph, cl>>
  <2>1. CASE JustApproved(patch[t].old, rows[patch[t].row].status)
    <3>1. PICK r \in Rows : r = patch[t].row /\ rows[r].status = "Approved"
      BY <1>6, <2>1 DEF PatchRefresh, JustApproved, Inv, WellFormed
    <3>2. /\ patch'[t].row = r /\ Holding(t)' /\ ~Holding(t)
          /\ \A u \in Threads : u # t => patch'[u] = patch[u]
          /\ UNCHANGED <<rows, applies>>
      BY <1>6, <2>1, <3>1 DEF PatchRefresh, Holding, Inv, TypeOK, Patch
    <3>3. \A x \in Rows : Claims(x)' = IF x = r THEN Claims(x) \cup {t} ELSE Claims(x)
      BY <3>1, <3>2 DEF Claims, Holding
    <3>4. Lifecycle!Claim(r, t)
      BY <1>1, <3>1, <3>2, <3>3, SamePhases DEF Lifecycle!Claim
    <3> QED
      BY <3>1, <3>4 DEF Lifecycle!Next
  <2>2. CASE ~JustApproved(patch[t].old, rows[patch[t].row].status)
    BY <1>6, <2>2, FinishDrops DEF PatchRefresh
  <2> QED
    BY <2>1, <2>2
<1>7. ASSUME NEW t \in Threads, NEW id \in 0..Len(records), ApplyResolve(t, id)
      PROVE  UNCHANGED <<ph, cl>>
  <2>1. \A u \in Threads : /\ Holding(u)' <=> Holding(u)
                           /\ Holding(u) => patch'[u].row = patch[u].row
    BY <1>7 DEF ApplyResolve, Holding, Inv, TypeOK, Patch
  <2> QED
    BY <1>7, <2>1, SamePhases, KeptClaims DEF ApplyResolve
<1>8. ASSUME NEW t \in Threads, ApplyCommit(t) PROVE Lifecycle!Next
  <2>1. PICK r \in Rows : r = patch[t].row /\ Holding(t)
    BY <1>8 DEF ApplyCommit, Holding, Inv, WellFormed
  <2>2. /\ applies'[r] = applies[r] + 1
        /\ \A x \in Rows : x # r => rows'[x] = rows[x] /\ applies'[x] = applies[x]
    BY <1>8, <2>1 DEF ApplyCommit, Deleted, Inv, TypeOK
  <2>3. Phase(r)' = "Applied"
    BY <2>1, <2>2 DEF Phase, Inv, TypeOK
  <2>4. \A x \in Rows : x # r => Phase(x)' = Phase(x)
    BY <2>2, SamePhase
  <2>5. Lifecycle!Become(r, "Applied")
    BY <2>1, <2>3, <2>4, BecomesPhase
  <2>6. t \in Claims(r) /\ Lifecycle!GiveUp(r, t)
    BY <1>8, <2>1, FinishGivesUp DEF ApplyCommit
  <2>7. Lifecycle!Apply(r, t)
    BY <2>1, <2>5, <2>6 DEF Lifecycle!Apply
  <2> QED
    BY <2>1, <2>7 DEF Lifecycle!Next
<1>9. ASSUME NEW t \in Threads, Handler(t)
      PROVE  [Lifecycle!Next]_<<ph, cl>>
  <2>1. CASE PatchStale(t) \/ ApplyFails(t)
    BY <2>1, FinishDrops DEF PatchStale, ApplyFails
  <2> QED
    BY <1>5, <1>6, <1>7, <1>8, <1>9, <2>1 DEF Handler
<1>10. CASE Crash
  <2>1. \A r \in Rows : Claims(r)' = {}
    BY <1>10 DEF Crash, Claims, Holding, IdlePatch
  <2>2. Lifecycle!DropAll
    BY <1>10, <2>1, SamePhases DEF Crash, Lifecycle!DropAll, Lifecycle!NoClaims
  <2> QED
    BY <2>2 DEF Lifecycle!Next
<1>11. ASSUME NEW t \in Threads, NEW r \in Rows,
              NEW want \in PatchStatuses \cup {"none"}, PatchLoad(t, r, want)
       PROVE  UNCHANGED <<ph, cl>>
  <2>1. \A u \in Threads : /\ Holding(u)' <=> Holding(u)
                           /\ Holding(u) => patch'[u].row = patch[u].row
    BY <1>11 DEF PatchLoad, IdlePatch, Holding, Inv, TypeOK
  <2> QED
    BY <1>11, <2>1, SamePhases, KeptClaims DEF PatchLoad
<1>12. CASE CreateOverwrite
  BY <1>2, <1>12 DEF CreateOverwrite, Inv, TypeOK, Row
<1>13. CASE UNCHANGED vars \/ CreateStale
            \/ \E s \in Slots, d \in Payloads : CreateLookup(s, d)
  BY <1>2, <1>13 DEF vars, CreateStale, CreateLookup
<1> QED
  BY <1>3, <1>4, <1>9, <1>10, <1>11, <1>12, <1>13 DEF Next

(***************************************************************************)
(* update_data_input and the handlers implement the abstract life cycle of *)
(* a request for any number of concurrent PATCHes, deletions, submissions  *)
(* and crashes: an application is one a reviewer took up while the request *)
(* was Approved, and nothing reopens a closed request.                     *)
(***************************************************************************)
THEOREM RefinesLifecycle == Spec => ImplementsLifecycle
<1>1. Init => Lifecycle!Init
  <2> SUFFICES ASSUME Init PROVE Lifecycle!Init
    OBVIOUS
  <2>1. \A r \in Rows : Phase(r) = "unused"
    BY DEF Init, Phase
  <2>2. \A r \in Rows : Claims(r) = {}
    BY DEF Init, Claims, Holding, IdlePatch
  <2> QED
    BY <2>1, <2>2 DEF Lifecycle!Init, Lifecycle!NoClaims
<1>2. Inv /\ AppliedIsGone /\ [Next]_vars =>
        [Lifecycle!Next]_<<[r \in Rows |-> Phase(r)], [r \in Rows |-> Claims(r)]>>
  BY StepLifecycle
<1> QED
  BY <1>1, <1>2, AlwaysInv, AppliedStaysGone, PTL
     DEF Spec, ImplementsLifecycle, Lifecycle!Spec
=============================================================================
