----------------------------- MODULE StaffProofs -----------------------------
(***************************************************************************)
(* Proofs about BulkImport, for sheets of any length, any units and any    *)
(* deletions while it runs, and about Accounts and BulkImport side by side *)
(* (MCStaff).                                                              *)
(*                                                                         *)
(* What is promised of an upload that was answered is built up row by row: *)
(* RowsAccounted and RelatedAccounted say it of the rows that were looked  *)
(* at already.  MapTrue is why a related row is linked to the person it    *)
(* names: whoever the map has for an email stands in a row of that email,  *)
(* also when the row itself was taken back after it was mapped.            *)
(***************************************************************************)
EXTENDS MCStaff, AccountsProofs

\* Rows of employees that were looked at.
Processed == IF phase \in {"resolve", "insert"} THEN 1 .. next - 1 ELSE DOMAIN sheet

\* The row at hand is a row of its sheet.
AtRow ==
    /\ phase \in {"resolve", "insert"} => next \in DOMAIN sheet
    /\ phase = "related" => next \in DOMAIN related

\* Of the rows that were looked at each has its employee or an error, of the others none.
RowsAccounted ==
    phase # "crashed" =>
        /\ stored \cup deleted \subseteq Processed
        /\ \A i \in Processed : (i \in stored \cup deleted) # (<<"employees", i>> \in errors)
        /\ \A i \in Import!Rows \ Processed : <<"employees", i>> \notin errors

RelatedDone(k) == phase \in {"log", "done", "failed"} \/ (phase = "related" /\ k < next)

RelatedAccounted ==
    \A k \in DOMAIN related : RelatedDone(k) =>
        \/ linked[k] # None \/ <<"related", k>> \in errors
        \/ skipped \/ deleted # {}

\* Whoever is mapped is a person of the row it is mapped to.
MapTrue ==
    \A p \in People : map[p] # None =>
        map[p] \in DOMAIN sheet /\ Import!Lower(sheet[map[p]].email) = p

Reported == phase = "done" => reported = errors

ImportInv == /\ Import!TypeOK /\ AtRow /\ RowsAccounted /\ RelatedAccounted /\ MapTrue /\ Reported
       /\ Import!LinkedByEmail

-----------------------------------------------------------------------------
\* A sheet is a sequence of at most MaxRows rows.
LEMMA SheetTyped ==
    ASSUME NEW S, NEW s \in Import!Sheets(S)
    PROVE  /\ Len(s) \in 1 .. MaxRows /\ DOMAIN s = 1 .. Len(s)
           /\ \A i \in DOMAIN s : s[i] \in S
<1>1. PICK n \in 1 .. MaxRows : s \in [1 .. n -> S]
  BY DEF Import!Sheets
<1> QED
  BY <1>1, MaxRowsAssumption

LEMMA BothSheetsTyped ==
    ASSUME Import!TypeOK
    PROVE  /\ Len(sheet) \in 1 .. MaxRows /\ DOMAIN sheet = 1 .. Len(sheet)
           /\ Len(related) \in 1 .. MaxRows /\ DOMAIN related = 1 .. Len(related)
           /\ \A i \in DOMAIN sheet : sheet[i] \in Import!Row /\ i \in Import!Rows
           /\ \A k \in DOMAIN related : related[k] \in Import!Emails \cup {None} /\ k \in Import!Rows
<1>1. sheet \in Import!Sheets(Import!Row) /\ related \in Import!Sheets(Import!Emails \cup {None})
  BY DEF Import!TypeOK
<1>2. /\ Len(sheet) \in 1 .. MaxRows /\ DOMAIN sheet = 1 .. Len(sheet)
      /\ \A i \in DOMAIN sheet : sheet[i] \in Import!Row
  BY <1>1, SheetTyped
<1>3. /\ Len(related) \in 1 .. MaxRows /\ DOMAIN related = 1 .. Len(related)
      /\ \A k \in DOMAIN related : related[k] \in Import!Emails \cup {None}
  BY <1>1, SheetTyped
<1> QED
  BY <1>2, <1>3, MaxRowsAssumption DEF Import!Rows

LEMMA InitImport == Import!Init => ImportInv
<1> SUFFICES ASSUME Import!Init PROVE ImportInv
  OBVIOUS
<1>1. Import!TypeOK
  <2>1. present \subseteq Import!Emails
    BY DEF Import!Init
  <2>2. list \in Seq(Import!Rows) /\ next \in 1 .. MaxRows + 1
    BY MaxRowsAssumption DEF Import!Init
  <2> QED
    BY <2>1, <2>2 DEF Import!Init, Import!TypeOK, Import!Phases
<1>2. AtRow
  BY <1>1, BothSheetsTyped DEF Import!Init, AtRow
<1>3. RowsAccounted
  BY <1>1, BothSheetsTyped DEF Import!Init, RowsAccounted, Processed
<1>4. RelatedAccounted /\ MapTrue /\ Reported
  BY DEF Import!Init, RelatedAccounted, RelatedDone, MapTrue, Reported
<1>5. Import!LinkedByEmail
  BY <1>1, BothSheetsTyped DEF Import!Init, Import!LinkedByEmail
<1> QED
  BY <1>1, <1>2, <1>3, <1>4, <1>5 DEF ImportInv

LEMMA ResolveKeeps ==
    ASSUME ImportInv, Import!Resolve
    PROVE  ImportInv'
<1>1. /\ phase = "resolve" /\ phase' = "insert" /\ next' = next
      /\ units' = units \cup {sheet[next].unit}
      /\ UNCHANGED <<sheet, related, dated, present, stored, linked, map, list, errors,
                     reported, skipped, deleted>>
  BY DEF Import!Resolve, Import!Go, Import!files
<1>2. next \in DOMAIN sheet /\ sheet[next] \in Import!Row
  BY <1>1, BothSheetsTyped DEF ImportInv, AtRow
<1>3. Import!TypeOK'
  BY <1>1, <1>2 DEF ImportInv, Import!TypeOK, Import!Row, Import!Phases
<1>4. AtRow' /\ RowsAccounted'
  BY <1>1 DEF ImportInv, AtRow, RowsAccounted, Processed
<1>5. RelatedAccounted' /\ MapTrue' /\ Reported' /\ Import!LinkedByEmail'
  BY <1>1 DEF ImportInv, RelatedAccounted, RelatedDone, MapTrue, Reported, Import!LinkedByEmail
<1> QED
  BY <1>3, <1>4, <1>5 DEF ImportInv

\* After a row of employees: the next one, or what follows the last one.
LEMMA NextEmployeeMoves ==
    ASSUME Import!TypeOK, next \in DOMAIN sheet, phase = "insert", NEW m, Import!NextEmployee(m),
           UNCHANGED Import!files
    PROVE  /\ next' \in 1 .. MaxRows + 1 /\ phase' \in Import!Phases /\ skipped' \in BOOLEAN
           /\ AtRow'
           /\ Processed' = Processed \cup {next} /\ next \notin Processed
           /\ phase' \notin {"done", "failed", "crashed"}
           /\ phase' = "log" => skipped'
           /\ phase' = "related" => next' = 1
<1>1. /\ Len(sheet) \in 1 .. MaxRows /\ DOMAIN sheet = 1 .. Len(sheet)
      /\ Len(related) \in 1 .. MaxRows /\ DOMAIN related = 1 .. Len(related)
      /\ UNCHANGED <<sheet, related>>
  BY BothSheetsTyped DEF Import!files
<1>2. CASE next < Len(sheet)
  <2>1. phase' = "resolve" /\ next' = next + 1 /\ skipped' = skipped
    BY <1>2 DEF Import!NextEmployee, Import!Go
  <2> QED
    BY <1>1, <1>2, <2>1, MaxRowsAssumption DEF Import!TypeOK, Import!Phases, AtRow, Processed
<1>3. CASE ~(next < Len(sheet))
  <2>1. /\ skipped' \in BOOLEAN /\ phase' = (IF skipped' THEN "log" ELSE "related")
        /\ next' = 1
    BY <1>3 DEF Import!NextEmployee, Import!Go
  <2>2. next = Len(sheet)
    BY <1>1, <1>3
  <2> QED
    BY <1>1, <2>1, <2>2, MaxRowsAssumption DEF Import!Phases, AtRow, Processed
<1> QED
  BY <1>2, <1>3

LEMMA InsertRowKeeps ==
    ASSUME ImportInv, Import!Insert
    PROVE  ImportInv'
<1> DEFINE row == sheet[next]
<1>1. /\ phase = "insert" /\ next \in DOMAIN sheet /\ row \in Import!Row /\ next \in Import!Rows
      /\ UNCHANGED <<sheet, related, dated, units, linked, reported, deleted>>
      /\ UNCHANGED Import!files
  BY BothSheetsTyped DEF Import!Insert, ImportInv, AtRow, Import!files
<1>2. /\ stored \cup deleted \subseteq Processed
      /\ \A i \in Processed : (i \in stored \cup deleted) # (<<"employees", i>> \in errors)
      /\ \A i \in Import!Rows \ Processed : <<"employees", i>> \notin errors
  BY <1>1 DEF ImportInv, RowsAccounted
<1>3. /\ map' = map \/ map' = Import!Mapped(row)
      /\ list' = list \/ list' = Append(list, next)
      /\ \/ /\ errors' = errors \cup {<<"employees", next>>} /\ UNCHANGED <<present, stored>>
         \/ /\ errors' = errors /\ stored' = stored \cup {next}
            /\ present' = present \cup {row.email}
      /\ \E m : Import!NextEmployee(m)
  BY DEF Import!Insert, Import!Fail
<1>4. /\ next' \in 1 .. MaxRows + 1 /\ phase' \in Import!Phases /\ skipped' \in BOOLEAN
      /\ AtRow'
      /\ Processed' = Processed \cup {next} /\ next \notin Processed
      /\ phase' \notin {"done", "failed", "crashed"}
      /\ phase' = "log" => skipped'
      /\ phase' = "related" => next' = 1
  BY <1>1, <1>3, NextEmployeeMoves DEF ImportInv
<1>5. /\ \A p \in People : map'[p] = map[p] \/ (map'[p] = next /\ Import!Lower(row.email) = p)
      /\ map' \in [People -> Import!Rows \cup {None}]
  BY <1>1, <1>3 DEF Import!Mapped, ImportInv, Import!TypeOK
<1>6. Import!TypeOK'
  <2>1. row.email \in Import!Emails /\ <<"employees", next>> \in Import!Failures
    BY <1>1 DEF Import!Row, Import!Failures
  <2>2. list' \in Seq(Import!Rows)
    BY <1>1, <1>3 DEF ImportInv, Import!TypeOK
  <2>3. errors' \subseteq Import!Failures /\ stored' \subseteq Import!Rows /\ present' \subseteq Import!Emails
    BY <1>1, <1>3, <2>1 DEF ImportInv, Import!TypeOK
  <2> QED
    BY <1>1, <1>4, <1>5, <2>2, <2>3 DEF ImportInv, Import!TypeOK
<1>7. RowsAccounted'
  <2>1. stored' \cup deleted' \subseteq Processed'
    BY <1>1, <1>2, <1>3, <1>4
  <2>2. \A i \in Processed' : (i \in stored' \cup deleted') # (<<"employees", i>> \in errors')
    <3> SUFFICES ASSUME NEW i \in Processed'
                 PROVE  (i \in stored' \cup deleted') # (<<"employees", i>> \in errors')
      OBVIOUS
    <3>1. CASE i # next
      <4>1. i \in stored' \cup deleted' <=> i \in stored \cup deleted
        BY <1>1, <1>3, <3>1
      <4>2. <<"employees", i>> \in errors' <=> <<"employees", i>> \in errors
        BY <1>3, <3>1
      <4> QED
        BY <1>2, <1>4, <3>1, <4>1, <4>2
    <3>2. CASE i = next
      <4>1. next \notin stored \cup deleted /\ <<"employees", next>> \notin errors
        BY <1>1, <1>2, <1>4
      <4> QED
        BY <1>1, <1>3, <3>2, <4>1
    <3> QED
      BY <3>1, <3>2
  <2>3. \A i \in Import!Rows \ Processed' : <<"employees", i>> \notin errors'
    BY <1>2, <1>3, <1>4
  <2> QED
    BY <2>1, <2>2, <2>3 DEF RowsAccounted
<1>8. RelatedAccounted'
  BY <1>1, <1>4, BothSheetsTyped DEF ImportInv, RelatedAccounted, RelatedDone
<1>9. MapTrue'
  BY <1>1, <1>5 DEF ImportInv, MapTrue
<1>10. Reported' /\ Import!LinkedByEmail'
  BY <1>1, <1>4 DEF ImportInv, Reported, Import!LinkedByEmail
<1> QED
  BY <1>4, <1>6, <1>7, <1>8, <1>9, <1>10 DEF ImportInv

LEMMA RelateKeeps ==
    ASSUME ImportInv, Import!Relate
    PROVE  ImportInv'
<1>1. /\ phase = "related" /\ next \in DOMAIN related /\ next \in Import!Rows
      /\ UNCHANGED <<sheet, related, dated, units, present, stored, map, list, reported,
                     skipped, deleted>>
  BY BothSheetsTyped DEF Import!Relate, ImportInv, AtRow, Import!files
<1>2. \/ /\ Import!Owner(next) \in stored /\ linked' = [linked EXCEPT ![next] = Import!Owner(next)]
         /\ errors' = errors
      \/ errors' = errors \cup {<<"related", next>>} /\ linked' = linked
  BY DEF Import!Relate, Import!Fail
<1>3. /\ Len(related) \in 1 .. MaxRows /\ DOMAIN related = 1 .. Len(related)
  BY BothSheetsTyped DEF ImportInv
<1>4. \/ next < Len(related) /\ phase' = "related" /\ next' = next + 1
      \/ next = Len(related) /\ phase' = "log" /\ next' = 1
  BY <1>1, <1>3 DEF Import!Relate, Import!NextRelated, Import!Go
<1>5. stored \subseteq Import!Rows /\ None \notin Import!Rows
  BY MaxRowsAssumption DEF ImportInv, Import!TypeOK, Import!Rows
<1>6. /\ \A k \in Import!Rows \ {next} : linked'[k] = linked[k]
      /\ linked' \in [Import!Rows -> Import!Rows \cup {None}]
      /\ \/ linked'[next] = Import!Owner(next) /\ Import!Owner(next) \in Import!Rows /\ Import!Owner(next) # None
         \/ linked'[next] = linked[next] /\ <<"related", next>> \in errors'
  BY <1>1, <1>2, <1>5 DEF ImportInv, Import!TypeOK
<1>7. Import!TypeOK'
  <2>1. errors' \subseteq Import!Failures
    BY <1>1, <1>2 DEF ImportInv, Import!TypeOK, Import!Failures
  <2>2. next' \in 1 .. MaxRows + 1 /\ phase' \in Import!Phases
    BY <1>1, <1>3, <1>4, MaxRowsAssumption DEF Import!Phases
  <2> QED
    BY <1>1, <1>6, <2>1, <2>2 DEF ImportInv, Import!TypeOK
<1>8. AtRow'
  BY <1>1, <1>3, <1>4 DEF AtRow
<1>9. RowsAccounted'
  BY <1>1, <1>2, <1>4 DEF ImportInv, RowsAccounted, Processed
<1>10. RelatedAccounted'
  <2> SUFFICES ASSUME NEW k \in DOMAIN related, RelatedDone(k)'
               PROVE  linked'[k] # None \/ <<"related", k>> \in errors' \/ skipped \/ deleted # {}
    BY <1>1 DEF RelatedAccounted
  <2>1. CASE k = next
    BY <1>6, <2>1
  <2>2. CASE k # next
    <3>1. RelatedDone(k) /\ k \in Import!Rows
      BY <1>1, <1>3, <1>4, <2>2, BothSheetsTyped DEF RelatedDone, ImportInv
    <3> QED
      BY <1>2, <1>6, <2>2, <3>1 DEF ImportInv, RelatedAccounted
  <2> QED
    BY <2>1, <2>2
<1>11. MapTrue' /\ Reported'
  BY <1>1, <1>4 DEF ImportInv, MapTrue, Reported
<1>12. Import!LinkedByEmail'
  <2> SUFFICES ASSUME NEW k \in DOMAIN related, related[k] # None, linked'[k] # None
               PROVE  Import!Lower(sheet[linked'[k]].email) = Import!Lower(related[k])
    BY <1>1 DEF Import!LinkedByEmail
  <2>1. CASE linked'[k] = linked[k]
    BY <2>1 DEF ImportInv, Import!LinkedByEmail
  <2>2. CASE linked'[k] # linked[k]
    <3>1. k = next /\ linked'[k] = Import!Owner(next) /\ Import!Owner(next) # None
      BY <1>6, <2>2, BothSheetsTyped DEF ImportInv
    <3>2. Import!Owner(next) = map[Import!Lower(related[k])]
      BY <3>1 DEF Import!Owner
    <3>3. Import!Lower(related[k]) \in People
      BY BothSheetsTyped DEF ImportInv, Import!Emails, Import!Lower
    <3> QED
      BY <3>1, <3>2, <3>3 DEF ImportInv, MapTrue
  <2> QED
    BY <2>1, <2>2
<1> QED
  BY <1>7, <1>8, <1>9, <1>10, <1>11, <1>12 DEF ImportInv

LEMMA LogKeeps ==
    ASSUME ImportInv, Import!Log
    PROVE  ImportInv'
<1>1. /\ phase = "log" /\ next' = 1
      /\ phase' \in {"done", "failed"} /\ (phase' = "done" => reported' = errors)
      /\ reported' \in {reported, errors}
      /\ UNCHANGED <<sheet, related, dated, units, present, stored, linked, map, list, errors,
                     skipped, deleted>>
  BY DEF Import!Log, Import!Go, Import!files
<1>2. Import!TypeOK'
  BY <1>1, MaxRowsAssumption DEF ImportInv, Import!TypeOK, Import!Phases
<1>3. AtRow' /\ RowsAccounted'
  BY <1>1 DEF ImportInv, AtRow, RowsAccounted, Processed
<1>4. RelatedAccounted' /\ MapTrue' /\ Reported' /\ Import!LinkedByEmail'
  BY <1>1 DEF ImportInv, RelatedAccounted, RelatedDone, MapTrue, Reported, Import!LinkedByEmail
<1> QED
  BY <1>2, <1>3, <1>4 DEF ImportInv

LEMMA DeleteKeeps ==
    ASSUME ImportInv, NEW i \in Import!Rows, Import!Delete(i)
    PROVE  ImportInv'
<1>1. /\ phase \notin {"done", "failed", "crashed"} /\ i \in stored
      /\ stored' = stored \ {i} /\ deleted' = deleted \cup {i}
      /\ present' \subseteq present
      /\ linked' = [k \in Import!Rows |-> IF linked[k] = i THEN None ELSE linked[k]]
      /\ UNCHANGED <<sheet, related, dated, next, phase, units, map, list, errors, reported,
                     skipped>>
  BY DEF Import!Delete, Import!Over, Import!files
<1>2. Import!TypeOK'
  BY <1>1 DEF ImportInv, Import!TypeOK
<1>3. AtRow' /\ MapTrue' /\ Reported'
  BY <1>1 DEF ImportInv, AtRow, MapTrue, Reported
<1>4. stored' \cup deleted' = stored \cup deleted
  BY <1>1
<1>5. RowsAccounted'
  BY <1>1, <1>4 DEF ImportInv, RowsAccounted, Processed
<1>6. RelatedAccounted'
  BY <1>1 DEF RelatedAccounted
<1>7. Import!LinkedByEmail'
  BY <1>1, BothSheetsTyped DEF ImportInv, Import!LinkedByEmail
<1> QED
  BY <1>2, <1>3, <1>5, <1>6, <1>7 DEF ImportInv

LEMMA CrashKeeps ==
    ASSUME ImportInv, Import!Crash
    PROVE  ImportInv'
<1>1. /\ phase' = "crashed"
      /\ UNCHANGED <<sheet, related, dated, next, units, present, stored, linked, map, list,
                     errors, reported, skipped, deleted>>
  BY DEF Import!Crash, Import!files
<1> QED
  BY <1>1 DEF ImportInv, Import!TypeOK, Import!Phases, AtRow, RowsAccounted, RelatedAccounted,
     RelatedDone, MapTrue,
              Reported, Import!LinkedByEmail

LEMMA NextImport ==
    ASSUME ImportInv, [Import!Next]_(Import!vars)
    PROVE  ImportInv'
<1>1. CASE UNCHANGED Import!vars
  BY <1>1 DEF Import!vars, ImportInv, Import!TypeOK, AtRow, RowsAccounted, Processed,
     RelatedAccounted,
              RelatedDone, MapTrue, Reported, Import!LinkedByEmail
<1> QED
  BY <1>1, ResolveKeeps, InsertRowKeeps, RelateKeeps, LogKeeps, DeleteKeeps, CrashKeeps
  DEF Import!Next, Import!Ended

LEMMA AlwaysImport == Import!Spec => []ImportInv
<1>1. ImportInv /\ [Import!Next]_(Import!vars) => ImportInv'
  BY NextImport
<1> QED
  BY InitImport, <1>1, PTL DEF Import!Spec

\* What is accounted for when the request goes on is when it is answered.
LEMMA InvAccounts == ImportInv => Import!EveryRowAccounted
BY DEF ImportInv, Import!EveryRowAccounted, RowsAccounted, Processed, Reported,
   RelatedAccounted, RelatedDone

-----------------------------------------------------------------------------
(* Side by side.                                                           *)

\* What each of them does here is what it does alone.
LEMMA SideBySide == SpecAll => Spec /\ Import!Spec
<1>1. InitAll => Init /\ Import!Init
  BY DEF InitAll
<1>2. [NextAll]_allVars => [Next]_vars /\ [Import!Next]_(Import!vars)
  BY DEF NextAll, allVars, importVars, vars, Import!vars
<1> QED
  BY <1>1, <1>2, PTL DEF SpecAll, Spec, Import!Spec

(***************************************************************************)
(* Employees, accounts, requests and uploads keep their types.             *)
(***************************************************************************)
THEOREM StaffTyped == SpecAll => []AllTypeOK
<1>1. ImportInv => Import!TypeOK
  BY DEF ImportInv
<1>2. TypeOK /\ Import!TypeOK => AllTypeOK
  BY DEF AllTypeOK
<1> QED
  BY SideBySide, TypeCorrect, AlwaysImport, <1>1, <1>2, PTL

(***************************************************************************)
(* When bulk_insert_crud answers, every row of employees has its employee  *)
(* or stands in the report, never both, and every related row is linked or *)
(* stands in the report, unless its employee was deleted or nobody was     *)
(* mapped: whatever rows fail, and wherever deletions come in between.     *)
(***************************************************************************)
THEOREM RowsAreAccounted == SpecAll => []EveryRowAccounted
<1>1. ImportInv => EveryRowAccounted
  BY InvAccounts DEF EveryRowAccounted
<1> QED
  BY SideBySide, AlwaysImport, <1>1, PTL

(***************************************************************************)
(* A related row with an email is linked to an employee of that person,    *)
(* though the map is keyed by the email in lower case and keeps rows whose *)
(* transaction was rolled back.                                            *)
(***************************************************************************)
THEOREM RelatedAreLinkedByEmail == SpecAll => []LinkedByEmail
<1>1. ImportInv => LinkedByEmail
  BY DEF ImportInv, LinkedByEmail
<1> QED
  BY SideBySide, AlwaysImport, <1>1, PTL
=============================================================================
