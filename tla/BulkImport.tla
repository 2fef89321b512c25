----------------------------- MODULE BulkImport -----------------------------
(***************************************************************************)
(* bulk_insert_crud: one upload, its employees' sheet and one related      *)
(* sheet, row by row, each row its own transaction.  The endpoint is async *)
(* and awaits nothing, so only threads (a deletion) and a crash come       *)
(* between two commits.                                                    *)
(*                                                                         *)
(* An email is a person and a spelling: Employee.email is unique as it is  *)
(* spelt, employee_map is keyed by it in lower case, the person.  A unit   *)
(* stands for the branch, department, rank, type and role of a row, which  *)
(* are created where they are missing and committed before the row is.     *)
(***************************************************************************)
EXTENDS RecordsDomain, Naturals, Sequences

CONSTANT MaxRows  \* of a sheet

Spellings == {"lower", "upper"}
Emails == People \X Spellings
Faults == {"none", "flush", "salary"}
Row == [email : Emails, unit : DeptNames, fault : Faults]
Sheets(S) == UNION {[1 .. n -> S] : n \in 1 .. MaxRows}

VARIABLES
    sheet,    \* the rows of employees
    related,  \* the rows of the related sheet: an email, or None without a column
    dated,    \* a cell of the file is a date, which error_details cannot hold
    next,     \* the row to process
    phase,    \* where the request is
    units,    \* the units of the organization
    present,  \* emails of the employees there are
    stored,   \* the rows whose employee exists
    linked,   \* the employee, by its row, of each related row that was stored
    map,      \* employee_map
    list,     \* employee_list
    errors,   \* error_records
    reported, \* the BulkUploadError
    skipped,  \* history: no employee was mapped, related rows were not read
    deleted   \* history: rows whose employee was deleted meanwhile

vars == <<sheet, related, dated, next, phase, units, present, stored, linked, map, list,
          errors, reported, skipped, deleted>>

Rows == 1 .. MaxRows
Failures == ({"employees"} \X Rows) \cup ({"related"} \X Rows)
Phases == {"resolve", "insert", "related", "log", "done", "failed", "crashed"}

TypeOK ==
    /\ sheet \in Sheets(Row) /\ related \in Sheets(Emails \cup {None}) /\ dated \in BOOLEAN
    /\ next \in 1 .. MaxRows + 1 /\ phase \in Phases
    /\ units \subseteq DeptNames /\ present \subseteq Emails
    /\ stored \subseteq Rows /\ deleted \subseteq Rows
    /\ linked \in [Rows -> Rows \cup {None}]
    /\ map \in [People -> Rows \cup {None}] /\ list \in Seq(Rows)
    /\ errors \subseteq Failures /\ reported \subseteq Failures /\ skipped \in BOOLEAN

Init ==
    /\ sheet \in Sheets(Row)
    /\ related \in Sheets(Emails \cup {None})
    /\ dated \in BOOLEAN
    /\ next = 1 /\ phase = "resolve"
    /\ units = {}
    /\ present \in {{}} \cup {{m} : m \in Emails}
    /\ stored = {} /\ deleted = {}
    /\ linked = [k \in Rows |-> None]
    /\ map = [p \in People |-> None] /\ list = <<>>
    /\ errors = {} /\ reported = {} /\ skipped = FALSE

Lower(email) == email[1]
files == <<sheet, related, dated>>

-----------------------------------------------------------------------------
Go(nextPhase, row) == phase' = nextPhase /\ next' = row

\* The next row; after the last one the related sheet, if anybody is mapped.
NextEmployee(m) ==
    IF next < Len(sheet) THEN Go("resolve", next + 1) /\ UNCHANGED skipped
    ELSE /\ skipped' = (m = [p \in People |-> None])
         /\ Go(IF skipped' THEN "log" ELSE "related", 1)

NextRelated ==
    IF next < Len(related) THEN Go("related", next + 1) ELSE Go("log", 1)

Fail(name) == errors' = errors \cup {<<name, next>>}

\* process_related_field: looked for and, if missing, committed at once.
Resolve ==
    /\ phase = "resolve"
    /\ units' = units \cup {sheet[next].unit}
    /\ Go("insert", next)
    /\ UNCHANGED <<files, present, stored, linked, map, list, errors, reported, skipped, deleted>>

(***************************************************************************)
(* The employee is flushed and mapped, then its salary, then the commit: a *)
(* salary that is refused takes the employee back, and leaves it mapped.   *)
(***************************************************************************)
Mapped(row) == [map EXCEPT ![Lower(row.email)] = next]

Refused(row) == row.email \in present \/ row.fault = "flush"

\* A mutant: a failed row is rolled back and forgotten.
InsertUnreported ==
    LET row == sheet[next] IN
    /\ phase = "insert"
    /\ IF Refused(row) \/ row.fault = "salary"
       THEN NextEmployee(map) /\ UNCHANGED <<present, stored, map, list, errors>>
       ELSE /\ present' = present \cup {row.email} /\ stored' = stored \cup {next}
            /\ map' = Mapped(row) /\ list' = Append(list, next)
            /\ NextEmployee(Mapped(row))
            /\ UNCHANGED errors
    /\ UNCHANGED <<files, units, linked, reported, deleted>>

Insert ==
    LET row == sheet[next] IN
    /\ phase = "insert"
    /\ IF Refused(row)
       THEN /\ Fail("employees") /\ NextEmployee(map)
            /\ UNCHANGED <<present, stored, map, list>>
       ELSE /\ map' = Mapped(row) /\ list' = Append(list, next)
            /\ NextEmployee(Mapped(row))
            /\ IF row.fault = "salary"
               THEN Fail("employees") /\ UNCHANGED <<present, stored>>
               ELSE /\ present' = present \cup {row.email} /\ stored' = stored \cup {next}
                    /\ UNCHANGED errors
    /\ UNCHANGED <<files, units, linked, reported, deleted>>

-----------------------------------------------------------------------------
InOrder(k) == IF k <= Len(list) THEN list[k] ELSE None

\* A mutant: an unknown email falls back to the order.
OwnerOrNext(k) ==
    IF related[k] # None /\ map[Lower(related[k])] # None
    THEN map[Lower(related[k])] ELSE InOrder(k)

\* By the email if the row has one, known or not; else by the order.
Owner(k) == IF related[k] # None THEN map[Lower(related[k])] ELSE InOrder(k)

\* Without an employee, or with one that is gone, the row is refused.
Relate ==
    /\ phase = "related"
    /\ IF Owner(next) \in stored
       THEN linked' = [linked EXCEPT ![next] = Owner(next)] /\ UNCHANGED errors
       ELSE Fail("related") /\ UNCHANGED linked
    /\ NextRelated
    /\ UNCHANGED <<files, units, present, stored, map, list, reported, skipped, deleted>>

\* The report holds the cells: a date among them is refused, and the answer 500.
Log ==
    /\ phase = "log"
    /\ IF dated /\ errors # {} THEN Go("failed", 1) /\ UNCHANGED reported
                              ELSE Go("done", 1) /\ reported' = errors
    /\ UNCHANGED <<files, units, present, stored, linked, map, list, errors, skipped, deleted>>

-----------------------------------------------------------------------------
Over == phase \in {"done", "failed", "crashed"}

\* A thread deletes an employee, and by the cascade what is linked to it.
Delete(i) ==
    /\ ~Over /\ i \in stored
    /\ stored' = stored \ {i} /\ deleted' = deleted \cup {i}
    /\ present' = present \ {sheet[i].email}
    /\ linked' = [k \in Rows |-> IF linked[k] = i THEN None ELSE linked[k]]
    /\ UNCHANGED <<files, next, phase, units, map, list, errors, reported, skipped>>

Crash ==
    /\ ~Over
    /\ phase' = "crashed"
    /\ UNCHANGED <<files, next, units, present, stored, linked, map, list, errors,
                   reported, skipped, deleted>>

Ended == Over /\ UNCHANGED vars

Next ==
    \/ Resolve \/ Insert \/ Relate \/ Log
    \/ \E i \in Rows : Delete(i)
    \/ Crash
    \/ Ended

Spec == Init /\ [][Next]_vars

-----------------------------------------------------------------------------
(***************************************************************************)
(* Nothing is lost on the way: when the upload is answered, every row of   *)
(* employees has its employee or is in the report, never both, and every   *)
(* related row is linked or in the report, unless its employee was deleted *)
(* or nobody could be mapped.                                              *)
(***************************************************************************)
EveryRowAccounted ==
    phase = "done" =>
        /\ \A i \in DOMAIN sheet :
              (i \in stored \cup deleted) # (<<"employees", i>> \in reported)
        /\ \A k \in DOMAIN related :
              \/ linked[k] # None \/ <<"related", k>> \in reported
              \/ skipped \/ deleted # {}

(***************************************************************************)
(* A related row that names a person is linked to an employee of that      *)
(* person, however rows fail, repeat or are deleted in between.            *)
(***************************************************************************)
LinkedByEmail ==
    \A k \in DOMAIN related :
        related[k] # None /\ linked[k] # None
            => Lower(sheet[linked[k]].email) = Lower(related[k])
=============================================================================
