--------------------------- MODULE ServicesProofs ---------------------------
(***************************************************************************)
(* Proofs about the other services of MCServices (the daily checks, the    *)
(* export, the chat, the summaries and the mail), and what all of them     *)
(* keep side by side, whichever is in focus.                               *)
(***************************************************************************)
EXTENDS StoresProofs

-----------------------------------------------------------------------------
(***************************************************************************)
(* The daily checks.  The invariant says what a check that is under way    *)
(* has done, organization by organization, and why it is the only one of   *)
(* its day: the job fires again on a later day than the check began.       *)
(***************************************************************************)
ChecksSchedule ==
    /\ fires >= day
    /\ run.busy => fires = day + 1
    /\ (run.at # None \/ run.todo # {}) => run.busy
    /\ run.at \notin run.left

\* Organizations the check has been through, those it left out from the start excepted.
ChecksThrough(o) == run.busy /\ o \notin run.left /\ o # run.at /\ <<o, day>> \notin skipped

ChecksTold ==
    \A e \in Staff : (ChecksThrough(roster[e].org) /\ roster[e].birthday = day)
                     => greeted[<<e, day>>] > 0

\* Nobody is congratulated before the check reaches the organization, nor ahead of time.
ChecksUntold ==
    /\ \A e \in Staff, d \in Checks!Days : d > day => greeted[<<e, d>>] = 0
    /\ \A e \in Staff : (run.busy /\ roster[e].org \in run.left \cup {run.at})
                        => greeted[<<e, day>>] = 0
    /\ fires = day => \A e \in Staff : greeted[<<e, day>>] = 0

ChecksInv ==
    /\ Checks!TypeOK /\ ChecksSchedule /\ ChecksTold /\ ChecksUntold
    /\ Checks!LoggedMeansTold /\ Checks!CongratulatedOnce

ChecksRun == [busy : BOOLEAN, at : Orgs \cup {None}, left : SUBSET Orgs,
              todo : SUBSET (Staff \X Checks!Policies)]

LEMMA ChecksTyped ==
    ASSUME ChecksInv
    PROVE  /\ roster \in [Staff -> Checks!Employee] /\ day \in 1..MaxDays /\ day \in Nat
           /\ fires \in 1..MaxDays + 1 /\ fires \in Nat /\ run \in ChecksRun
           /\ greeted \in [Staff \X Checks!Days -> 0..MaxDays + MaxRestarts]
           /\ \A e \in Staff : roster[e].org \in Orgs
           /\ skipped \subseteq Orgs \X Checks!Days
           /\ MaxDays \in Nat \ {0} /\ MaxRestarts \in Nat /\ MaxFiled \in Nat
BY ServicesAssumption DEF ChecksInv, Checks!TypeOK, Checks!Days, ChecksRun, Checks!Employee

LEMMA ChecksInit == Checks!Init => ChecksInv
<1> SUFFICES ASSUME Checks!Init PROVE ChecksInv
  OBVIOUS
<1>1. Checks!Idle \in ChecksRun /\ run = Checks!Idle
  BY DEF Checks!Init, Checks!Idle, ChecksRun
<1>2. Checks!TypeOK
  BY <1>1, ServicesAssumption DEF Checks!Init, Checks!TypeOK, Checks!Days, ChecksRun
<1>3. ChecksSchedule /\ ChecksTold /\ ChecksUntold
  BY <1>1, DomainAssumption, ServicesAssumption
     DEF Checks!Init, Checks!Idle, ChecksSchedule, ChecksTold, ChecksThrough, ChecksUntold, Checks!Days
<1>4. Checks!LoggedMeansTold /\ Checks!CongratulatedOnce
  BY DEF Checks!Init, Checks!LoggedMeansTold, Checks!CongratulatedOnce
<1> QED
  BY <1>2, <1>3, <1>4 DEF ChecksInv

LEMMA ChecksFire ==
    ASSUME ChecksInv, Checks!Fire
    PROVE  ChecksInv'
<1>1. PICK on \in SUBSET Orgs :
         /\ fires = day /\ ~run.busy /\ fires' = day + 1
         /\ UNCHANGED <<roster, day, logged, greeted, unread, filed, restarts>>
         /\ \/ run' = Checks!Idle /\ skipped' = skipped
            \/ /\ run' = [busy |-> TRUE, at |-> None, left |-> on, todo |-> {}]
               /\ skipped' = skipped \cup (Orgs \ on) \X {day} /\ day \notin logged
  BY DEF Checks!Fire, Checks!Idle
<1>2. /\ run' \in ChecksRun /\ run'.at = None /\ run'.todo = {}
      /\ run'.busy => run'.left = on /\ skipped' = skipped \cup (Orgs \ on) \X {day}
  <2>1. CASE run' = Checks!Idle
    BY <2>1 DEF Checks!Idle, ChecksRun
  <2>2. CASE run' = [busy |-> TRUE, at |-> None, left |-> on, todo |-> {}]
    BY <1>1, <2>2, ChecksTyped DEF ChecksRun, Checks!Idle
  <2> QED
    BY <1>1, <2>1, <2>2
<1>3. Checks!TypeOK'
  <2>1. skipped' \subseteq Orgs \X Checks!Days
    BY <1>1, ChecksTyped DEF Checks!Days
  <2> QED
    BY <1>1, <1>2, <2>1, ChecksTyped DEF ChecksInv, Checks!TypeOK, ChecksRun, Checks!Days
<1>4. ChecksSchedule'
  BY <1>1, <1>2, ChecksTyped, DomainAssumption DEF ChecksSchedule, ChecksRun
<1>5. ChecksTold'
  <2> SUFFICES ASSUME NEW e \in Staff, run'.busy, roster[e].org \notin run'.left,
                      <<roster[e].org, day>> \notin skipped'
               PROVE  FALSE
    BY <1>1 DEF ChecksTold, ChecksThrough
  <2> QED
    BY <1>2, ChecksTyped
<1>6. ChecksUntold'
  BY <1>1, <1>2, ChecksTyped DEF ChecksInv, ChecksUntold
<1>7. Checks!LoggedMeansTold' /\ Checks!CongratulatedOnce'
  <2>1. skipped \subseteq skipped'
    BY <1>1
  <2> QED
    BY <1>1, <2>1 DEF ChecksInv, Checks!LoggedMeansTold, Checks!CongratulatedOnce, Checks!Days
<1> QED
  BY <1>3, <1>4, <1>5, <1>6, <1>7 DEF ChecksInv

LEMMA ChecksTake ==
    ASSUME ChecksInv, NEW o \in Orgs, Checks!Take(o)
    PROVE  ChecksInv'
<1>1. /\ run.busy /\ run.at = None /\ o \in run.left
      /\ UNCHANGED <<roster, day, fires, logged, greeted, unread, filed, restarts, skipped>>
      /\ run' = [run EXCEPT !.at = o, !.left = @ \ {o}, !.todo = Checks!Of(o) \X Checks!Policies]
  BY DEF Checks!Take
<1>2. /\ run' \in ChecksRun /\ run'.busy /\ run'.at = o /\ run'.left = run.left \ {o}
  BY <1>1, ChecksTyped DEF ChecksRun, Checks!Of
<1>3. Checks!TypeOK'
  BY <1>1, <1>2 DEF ChecksInv, Checks!TypeOK, ChecksRun
<1>4. ChecksSchedule'
  BY <1>1, <1>2 DEF ChecksInv, ChecksSchedule
<1>5. ChecksTold'
  BY <1>1, <1>2, ChecksTyped, DomainAssumption DEF ChecksInv, ChecksTold, ChecksThrough
<1>6. ChecksUntold'
  BY <1>1, <1>2 DEF ChecksInv, ChecksUntold, Checks!Days
<1>7. Checks!LoggedMeansTold' /\ Checks!CongratulatedOnce'
  BY <1>1 DEF ChecksInv, Checks!LoggedMeansTold, Checks!CongratulatedOnce, Checks!Days
<1> QED
  BY <1>3, <1>4, <1>5, <1>6, <1>7 DEF ChecksInv

LEMMA ChecksPromote ==
    ASSUME ChecksInv, Checks!Promote
    PROVE  ChecksInv'
<1>1. PICK d \in Staff \X Checks!Policies :
          /\ UNCHANGED <<roster, day, fires, logged, greeted, filed, restarts, skipped>>
          /\ run' = [run EXCEPT !.todo = @ \ {d}]
          /\ unread' \in {unread, unread \cup {d[1]}}
  BY ChecksTyped DEF Checks!Promote, ChecksRun
<1>2. /\ run' \in ChecksRun /\ run'.busy = run.busy /\ run'.at = run.at /\ run'.left = run.left
      /\ run'.todo \subseteq run.todo
  BY <1>1, ChecksTyped DEF ChecksRun
<1>3. Checks!TypeOK'
  BY <1>1, <1>2 DEF ChecksInv, Checks!TypeOK, ChecksRun
<1>4. ChecksSchedule'
  BY <1>1, <1>2 DEF ChecksInv, ChecksSchedule
<1>5. ChecksTold'
  BY <1>1, <1>2 DEF ChecksInv, ChecksTold, ChecksThrough
<1>6. ChecksUntold'
  BY <1>1, <1>2 DEF ChecksInv, ChecksUntold, Checks!Days
<1>7. Checks!LoggedMeansTold' /\ Checks!CongratulatedOnce'
  BY <1>1 DEF ChecksInv, Checks!LoggedMeansTold, Checks!CongratulatedOnce, Checks!Days
<1> QED
  BY <1>3, <1>4, <1>5, <1>6, <1>7 DEF ChecksInv

LEMMA ChecksBirthdays ==
    ASSUME ChecksInv, Checks!Birthdays
    PROVE  ChecksInv'
<1>1. /\ run.at # None /\ UNCHANGED <<roster, day, fires, logged, unread, filed, restarts, skipped>>
  BY DEF Checks!Birthdays
<1>2. run.busy /\ run.at \in Orgs /\ run.at \notin run.left
  BY <1>1, ChecksTyped DEF ChecksInv, ChecksSchedule, ChecksRun
<1>3. CASE greeted' = greeted /\ run' = Checks!Idle
  <2>1. run' \in ChecksRun /\ ~run'.busy /\ run'.at = None /\ run'.todo = {} /\ run'.left = {}
    BY <1>3 DEF Checks!Idle, ChecksRun
  <2>2. Checks!TypeOK'
    BY <1>1, <1>3, <2>1 DEF ChecksInv, Checks!TypeOK, ChecksRun
  <2>3. ChecksSchedule' /\ ChecksTold' /\ ChecksUntold'
    BY <1>1, <1>3, <2>1, DomainAssumption
       DEF ChecksInv, ChecksSchedule, ChecksTold, ChecksThrough, ChecksUntold, Checks!Days
  <2>4. Checks!LoggedMeansTold' /\ Checks!CongratulatedOnce'
    BY <1>1, <1>3 DEF ChecksInv, Checks!LoggedMeansTold, Checks!CongratulatedOnce, Checks!Days
  <2> QED
    BY <2>2, <2>3, <2>4 DEF ChecksInv
<1>4. CASE greeted' = Checks!Congratulated /\ run' = [run EXCEPT !.at = None]
  <2>1. /\ run' \in ChecksRun /\ run'.busy /\ run'.at = None /\ run'.left = run.left
    BY <1>2, <1>4, ChecksTyped DEF ChecksRun
  <2>2. \A e \in Staff, d \in Checks!Days :
            greeted'[<<e, d>>] = IF roster[e].org = run.at /\ roster[e].birthday = day /\ d = day
                                 THEN greeted[<<e, d>>] + 1 ELSE greeted[<<e, d>>]
    BY <1>4 DEF Checks!Congratulated, Checks!Born, Checks!Of
  <2>3. \A e \in Staff, d \in Checks!Days :
            greeted[<<e, d>>] \in 0..1 /\ greeted'[<<e, d>>] \in 0..1
                /\ greeted'[<<e, d>>] >= greeted[<<e, d>>]
    <3> SUFFICES ASSUME NEW e \in Staff, NEW d \in Checks!Days
                 PROVE  /\ greeted[<<e, d>>] \in 0..1 /\ greeted'[<<e, d>>] \in 0..1
                        /\ greeted'[<<e, d>>] >= greeted[<<e, d>>]
      OBVIOUS
    <3>1. greeted[<<e, d>>] \in Nat
      BY ChecksTyped
    <3>2. greeted[<<e, d>>] <= 1
      BY DEF ChecksInv, Checks!CongratulatedOnce
    <3>3. (roster[e].org = run.at /\ d = day) => greeted[<<e, d>>] = 0
      BY <1>2 DEF ChecksInv, ChecksUntold
    <3> QED
      BY <2>2, <3>1, <3>2, <3>3
  <2>4. greeted' \in [Staff \X Checks!Days -> 0..1]
    <3>1. \A x \in Staff \X Checks!Days : greeted'[x] \in 0..1
      BY <2>3
    <3>2. greeted' = [x \in Staff \X Checks!Days |-> greeted'[x]]
      BY <1>4 DEF Checks!Congratulated
    <3> QED
      BY <3>1, <3>2
  <2>5. Checks!TypeOK'
    <3>1. greeted' \in [Staff \X Checks!Days -> 0..MaxDays + MaxRestarts]
      BY <2>4, ChecksTyped
    <3>2. Checks!Days' = Checks!Days
      BY DEF Checks!Days
    <3> QED
      BY <1>1, <2>1, <3>1, <3>2 DEF ChecksInv, Checks!TypeOK, ChecksRun
  <2>6. ChecksSchedule'
    BY <1>1, <1>2, <2>1, ChecksTyped, DomainAssumption DEF ChecksInv, ChecksSchedule, ChecksRun
  <2>7. ChecksTold'
    <3> SUFFICES ASSUME NEW e \in Staff, roster[e].org \notin run.left, roster[e].birthday = day,
                        <<roster[e].org, day>> \notin skipped
                 PROVE  greeted'[<<e, day>>] > 0
      BY <1>1, <2>1 DEF ChecksTold, ChecksThrough
    <3>1. day \in Checks!Days
      BY ChecksTyped DEF Checks!Days
    <3>2. CASE roster[e].org = run.at
      BY <2>2, <2>3, <3>1, <3>2
    <3>3. CASE roster[e].org # run.at
      <4>1. greeted[<<e, day>>] > 0
        BY <1>2, <3>3 DEF ChecksInv, ChecksTold, ChecksThrough
      <4> QED
        BY <2>3, <3>1, <4>1
    <3> QED
      BY <3>2, <3>3
  <2>8. ChecksUntold'
    <3>1. day \in Checks!Days /\ fires # day
      BY <1>2, ChecksTyped DEF ChecksInv, ChecksSchedule, Checks!Days
    <3>2. \A e \in Staff, d \in Checks!Days : d > day => greeted'[<<e, d>>] = 0
      BY <2>2, <3>1, ChecksTyped DEF ChecksInv, ChecksUntold, Checks!Days
    <3>3. \A e \in Staff : roster[e].org \in run.left => greeted'[<<e, day>>] = 0
      BY <1>2, <2>2, <3>1 DEF ChecksInv, ChecksUntold
    <3>4. \A e \in Staff : roster[e].org # None
      BY ChecksTyped, DomainAssumption
    <3> QED
      BY <1>1, <2>1, <3>1, <3>2, <3>3, <3>4 DEF ChecksUntold, Checks!Days
  <2>9. Checks!LoggedMeansTold'
    <3> SUFFICES ASSUME NEW d \in logged, NEW e \in Staff, roster[e].birthday = d,
                        <<roster[e].org, d>> \notin skipped
                 PROVE  greeted'[<<e, d>>] > 0
      BY <1>1 DEF Checks!LoggedMeansTold
    <3>1. d \in Checks!Days /\ greeted[<<e, d>>] > 0
      BY DEF ChecksInv, Checks!TypeOK, Checks!LoggedMeansTold
    <3> QED
      BY <2>3, <3>1
  <2>10. Checks!CongratulatedOnce'
    BY <2>4 DEF Checks!CongratulatedOnce, Checks!Days
  <2> QED
    BY <2>5, <2>6, <2>7, <2>8, <2>9, <2>10 DEF ChecksInv
<1> QED
  BY <1>3, <1>4 DEF Checks!Birthdays, Checks!Failed

LEMMA ChecksLog ==
    ASSUME ChecksInv, Checks!Log
    PROVE  ChecksInv'
<1>1. /\ run.busy /\ run.at = None /\ run.left = {} /\ run' = Checks!Idle
      /\ logged' = logged \cup {day}
      /\ UNCHANGED <<roster, day, fires, greeted, unread, filed, restarts, skipped>>
  BY DEF Checks!Log
<1>2. run' \in ChecksRun /\ ~run'.busy /\ run'.at = None /\ run'.todo = {} /\ run'.left = {}
  BY <1>1 DEF Checks!Idle, ChecksRun
<1>3. Checks!TypeOK'
  BY <1>1, <1>2, ChecksTyped DEF ChecksInv, Checks!TypeOK, ChecksRun, Checks!Days
<1>4. ChecksSchedule' /\ ChecksTold' /\ ChecksUntold'
  BY <1>1, <1>2, DomainAssumption
     DEF ChecksInv, ChecksSchedule, ChecksTold, ChecksThrough, ChecksUntold, Checks!Days
<1>5. Checks!LoggedMeansTold'
  BY <1>1, ChecksTyped, DomainAssumption
     DEF ChecksInv, Checks!LoggedMeansTold, ChecksTold, ChecksThrough
<1>6. Checks!CongratulatedOnce'
  BY <1>1 DEF ChecksInv, Checks!CongratulatedOnce, Checks!Days
<1> QED
  BY <1>3, <1>4, <1>5, <1>6 DEF ChecksInv

LEMMA ChecksRestart ==
    ASSUME ChecksInv, Checks!Restart
    PROVE  ChecksInv'
<1>1. /\ restarts < MaxRestarts /\ restarts' = restarts + 1 /\ run' = Checks!Idle /\ fires' = day + 1
      /\ UNCHANGED <<roster, day, logged, greeted, unread, filed, skipped>>
  BY DEF Checks!Restart, Checks!Rescheduled
<1>2. run' \in ChecksRun /\ ~run'.busy /\ run'.at = None /\ run'.todo = {} /\ run'.left = {}
  BY <1>1 DEF Checks!Idle, ChecksRun
<1>3. Checks!TypeOK'
  BY <1>1, <1>2, ChecksTyped DEF ChecksInv, Checks!TypeOK, ChecksRun, Checks!Days
<1>4. ChecksSchedule' /\ ChecksTold'
  BY <1>1, <1>2, ChecksTyped, DomainAssumption DEF ChecksSchedule, ChecksTold, ChecksThrough
<1>5. ChecksUntold'
  BY <1>1, <1>2, ChecksTyped DEF ChecksInv, ChecksUntold, Checks!Days
<1>6. Checks!LoggedMeansTold' /\ Checks!CongratulatedOnce'
  BY <1>1 DEF ChecksInv, Checks!LoggedMeansTold, Checks!CongratulatedOnce, Checks!Days
<1> QED
  BY <1>3, <1>4, <1>5, <1>6 DEF ChecksInv

LEMMA ChecksNextDay ==
    ASSUME ChecksInv, Checks!NextDay
    PROVE  ChecksInv'
<1>1. /\ day < MaxDays /\ fires > day /\ ~run.busy /\ day' = day + 1
      /\ UNCHANGED <<roster, fires, run, logged, greeted, unread, filed, restarts, skipped>>
  BY DEF Checks!NextDay
<1>2. Checks!TypeOK'
  BY <1>1, ChecksTyped DEF ChecksInv, Checks!TypeOK, Checks!Days
<1>3. ChecksSchedule' /\ ChecksTold'
  BY <1>1, ChecksTyped DEF ChecksInv, ChecksSchedule, ChecksTold, ChecksThrough
<1>4. ChecksUntold'
  BY <1>1, ChecksTyped DEF ChecksInv, ChecksUntold, Checks!Days
<1>5. Checks!LoggedMeansTold' /\ Checks!CongratulatedOnce'
  BY <1>1 DEF ChecksInv, Checks!LoggedMeansTold, Checks!CongratulatedOnce, Checks!Days
<1> QED
  BY <1>2, <1>3, <1>4, <1>5 DEF ChecksInv

\* The steps of the employees touch neither the check nor what it did.
ChecksAside ==
    \/ Checks!Confirm \/ UNCHANGED Checks!vars
    \/ (\E e \in Staff : Checks!Read(e))

LEMMA ChecksOther ==
    ASSUME ChecksInv, ChecksAside
    PROVE  ChecksInv'
<1>1. UNCHANGED <<roster, day, fires, run, logged, greeted, restarts, skipped>>
  BY DEF ChecksAside, Checks!Confirm, Checks!Read, Checks!vars
<1>2. unread' \subseteq unread /\ filed' \in 0..MaxFiled
  BY ChecksTyped
     DEF ChecksAside, Checks!Confirm, Checks!Read, Checks!vars, ChecksInv, Checks!TypeOK
<1>3. Checks!TypeOK'
  BY <1>1, <1>2 DEF ChecksInv, Checks!TypeOK
<1> QED
  BY <1>1, <1>3 DEF ChecksInv, ChecksSchedule, ChecksTold, ChecksThrough, ChecksUntold,
                    Checks!LoggedMeansTold, Checks!CongratulatedOnce, Checks!Days

LEMMA ChecksNext ==
    ASSUME ChecksInv, [Checks!Next]_(Checks!vars)
    PROVE  ChecksInv'
BY ChecksFire, ChecksTake, ChecksPromote, ChecksBirthdays, ChecksLog, ChecksRestart,
   ChecksNextDay, ChecksOther DEF Checks!Next, ChecksAside

-----------------------------------------------------------------------------
(***************************************************************************)
(* The export.  What makes every helper's own look at the room enough: the *)
(* cursor stays on the page and below whatever is inked there.             *)
(***************************************************************************)
ExportCursor == y <= Export!Top /\ y < low /\ low <= Export!Page /\ (at = "letterhead" => low = Export!Page)

\* A section is under way only when there is one; its files come below its title.
ExportSection ==
    /\ at \notin {"title", "done"} => section <= Tables + 1
    /\ at = "files" => y < Export!Top

ExportInv == Export!TypeOK /\ ExportCursor /\ ExportSection /\ Export!Legible

LEMMA ExportInit == Export!Init => ExportInv
BY ServicesAssumption
   DEF Export!Init, ExportInv, Export!TypeOK, ExportCursor, ExportSection, Export!Legible, Export!Page, Export!Top

ExportItem == [kind : {"text", "entry", "table"}, top : 0..Export!Page, bottom : Int,
               under : Int, covers : BOOLEAN]

\* Whatever is drawn where Room says leaves a legible page and the cursor below it.
LEMMA ExportDraw ==
    ASSUME ExportInv, NEW v \in 0..Export!Page, v \in {y, Export!Top}, v <= Export!Top,
           NEW end \in Int, end <= v, end >= Export!Bottom \/ v = Export!Top,
           NEW kind \in {"text", "entry", "table"}, NEW next \in Int,
           next <= Export!Top, next # end,
           Export!Draw(kind, v, end, next), at' # "letterhead"
    PROVE  /\ y' \in Int /\ low' \in Int /\ image' \in 0..Export!Page
           /\ item' \in ExportItem
           /\ ExportCursor' /\ Export!Legible'
<1> DEFINE covers == v = y /\ image <= v /\ v < low
           under == IF v = y THEN Export!Ink ELSE Export!Page
<1>0. covers \in BOOLEAN
  OBVIOUS
<1>1. /\ item' = [kind |-> kind, top |-> v, bottom |-> end, under |-> under, covers |-> covers]
      /\ y' = next /\ low' = IF next > end THEN Export!Page ELSE end
      /\ image' \in {image, Export!Page}
  BY DEF Export!Draw
<1>2. y \in Int /\ low \in Int /\ under \in Int /\ (v < under \/ covers)
  BY DEF Export!Ink, ExportInv, Export!TypeOK, ExportCursor, Export!Top, Export!Page
<1> HIDE DEF covers, under
<1>3. Export!Legible'
  BY <1>1, <1>2 DEF Export!Legible, Export!Fits, Export!Top, Export!Bottom, Export!Page
<1>4. ExportCursor'
  BY <1>1, <1>2 DEF ExportCursor, Export!Top, Export!Page
<1>5. item' \in ExportItem
  BY <1>0, <1>1, <1>2 DEF ExportItem, Export!Page
<1>6. image' \in 0..Export!Page
  BY <1>1 DEF ExportInv, Export!TypeOK, Export!Page
<1> QED
  BY <1>1, <1>2, <1>3, <1>4, <1>5, <1>6 DEF Export!Page

LEMMA ExportLine ==
    ASSUME ExportInv, Export!Line
    PROVE  ExportInv'
<1>0. at' # "letterhead"
  BY DEF Export!Line, Export!Go
<1>1. at \in {"lines", "last"} /\ section \in 0..Tables + 1 /\ left \in 0..MaxContacts + 6
      /\ y \in Int /\ y <= Export!Top
  BY ServicesAssumption DEF Export!Line, ExportInv, Export!TypeOK, ExportSection, ExportCursor
<1> DEFINE v == Export!Room(y, 12)
           next == Export!Room(v - 8, 8)
<1>2. v \in {y, Export!Top} /\ v \in 0..Export!Page /\ v <= Export!Top /\ v \in Int /\ (v >= 42 \/ v = Export!Top)
  BY <1>1 DEF Export!Room, Export!Bottom, Export!Top, Export!Page
<1>3. Export!Draw("text", v, v, next)
  BY DEF Export!Line
<1> HIDE DEF v
<1>4. next \in Int /\ next <= Export!Top /\ next # v /\ v >= Export!Bottom
  BY <1>2 DEF Export!Room, Export!Top, Export!Page, Export!Bottom
<1> HIDE DEF next
<1>5. y' \in Int /\ low' \in Int
      /\ image' \in 0..Export!Page /\ item' \in ExportItem
      /\ ExportCursor' /\ Export!Legible'
  BY <1>2, <1>3, <1>4, <1>0, ExportDraw
<1>6. at' \in {at, "contact", "title"} /\ section' \in 0..Tables + 2
      /\ left' \in 0..MaxContacts + 6 /\ (at' # "title" => section' = section)
  BY <1>1, ServicesAssumption DEF Export!Line, Export!Go
<1> QED
  BY <1>1, <1>5, <1>6 DEF ExportInv, Export!TypeOK, ExportSection, ExportItem

LEMMA ExportTitle ==
    ASSUME ExportInv, Export!Title
    PROVE  ExportInv'
<1>0. at' # "letterhead"
  BY DEF Export!Title, Export!Go, Export!First
<1>1. at = "title" /\ section \in 0..Tables + 1 /\ y \in Int /\ y <= Export!Top
  BY ServicesAssumption DEF Export!Title, ExportInv, Export!TypeOK, ExportCursor
<1>2. Export!Needs(section) \in {15, 20, 25}
  BY DEF Export!Needs
<1> DEFINE v == Export!Room(y, Export!Needs(section))
<1>3. v \in {y, Export!Top} /\ v \in 0..Export!Page /\ v <= Export!Top /\ v \in Int /\ v >= Export!Bottom
  BY <1>1, <1>2 DEF Export!Room, Export!Bottom, Export!Top, Export!Page
<1>4. Export!Draw("text", v, v, v - 10)
  BY DEF Export!Title
<1> HIDE DEF v
<1>5. v - 10 \in Int /\ v - 10 <= Export!Top /\ v - 10 # v
  BY <1>3 DEF Export!Top, Export!Page
<1>6. y' \in Int /\ low' \in Int
      /\ image' \in 0..Export!Page /\ item' \in ExportItem
      /\ ExportCursor' /\ Export!Legible'
  BY <1>3, <1>4, <1>5, <1>0, ExportDraw
<1>7. /\ at' \in {"lines", "files", "table"} /\ section' = section
      /\ left' \in 0..6
  BY DEF Export!Title, Export!Go, Export!First
<1>8. (y < Export!Top)'
  BY <1>3, <1>4 DEF Export!Draw, Export!Top, Export!Page
<1> QED
  BY <1>1, <1>6, <1>7, <1>8, ServicesAssumption DEF ExportInv, Export!TypeOK, ExportSection, ExportItem

LEMMA ExportContact ==
    ASSUME ExportInv, Export!Contact
    PROVE  ExportInv'
<1>0. at' # "letterhead"
  BY DEF Export!Contact, Export!Go
<1>1. at = "contact" /\ section \in 0..Tables + 1 /\ y \in Int /\ y <= Export!Top
  BY ServicesAssumption DEF Export!Contact, ExportInv, Export!TypeOK, ExportCursor, ExportSection
<1> DEFINE v == Export!Room(y, 12)
<1>2. v \in {y, Export!Top} /\ v \in 0..Export!Page /\ v <= Export!Top /\ v \in Int /\ v >= Export!Bottom
  BY <1>1 DEF Export!Room, Export!Bottom, Export!Top, Export!Page
<1>3. Export!Draw("text", v, v, v - 8)
  BY DEF Export!Contact
<1> HIDE DEF v
<1>4. v - 8 \in Int /\ v - 8 <= Export!Top /\ v - 8 # v
  BY <1>2 DEF Export!Top, Export!Page
<1>5. y' \in Int /\ low' \in Int
      /\ image' \in 0..Export!Page /\ item' \in ExportItem
      /\ ExportCursor' /\ Export!Legible'
  BY <1>2, <1>3, <1>4, <1>0, ExportDraw
<1>6. at' = "entry" /\ section' = section /\ left' \in 0..MaxContacts
  BY DEF Export!Contact, Export!Go
<1> QED
  BY <1>1, <1>5, <1>6, ServicesAssumption DEF ExportInv, Export!TypeOK, ExportSection, ExportItem

LEMMA ExportEntry ==
    ASSUME ExportInv, Export!Entry
    PROVE  ExportInv'
<1>0. at' # "letterhead"
  BY DEF Export!Entry, Export!Go
<1>1. at = "entry" /\ section \in 0..Tables + 1 /\ left \in 1..MaxContacts + 6
      /\ y \in Int /\ y <= Export!Top
  BY ServicesAssumption DEF Export!Entry, ExportInv, Export!TypeOK, ExportCursor, ExportSection
<1>2. PICK h \in EntryHeights :
        Export!Draw("entry", Export!Room(y, h), Export!Room(y, h) - h,
                    Export!Room(y, h) - h - 1)
  BY DEF Export!Entry
<1> DEFINE v == Export!Room(y, h)
<1>3. h \in Nat
  BY ServicesAssumption
<1>4. v \in {y, Export!Top} /\ v \in 0..Export!Page /\ v <= Export!Top /\ v \in Int
      /\ (v >= Export!Bottom + h \/ v = Export!Top)
  BY <1>1, <1>3 DEF Export!Room, Export!Bottom, Export!Top, Export!Page
<1>5. Export!Draw("entry", v, v - h, v - h - 1)
  BY <1>2
<1> HIDE DEF v
<1>6. /\ v - h - 1 \in Int /\ v - h - 1 <= Export!Top /\ v - h - 1 # v - h
      /\ v - h \in Int /\ v - h <= v
      /\ v - h >= Export!Bottom \/ v = Export!Top
  BY <1>3, <1>4 DEF Export!Bottom, Export!Top, Export!Page
<1>7. y' \in Int /\ low' \in Int
      /\ image' \in 0..Export!Page /\ item' \in ExportItem
      /\ ExportCursor' /\ Export!Legible'
  BY <1>3, <1>4, <1>5, <1>6, <1>0, ExportDraw
<1>8. at' = "entry" /\ section' = section /\ left' \in 0..MaxContacts + 6
  BY <1>1, ServicesAssumption DEF Export!Entry, Export!Go
<1> QED
  BY <1>1, <1>7, <1>8, ServicesAssumption DEF ExportInv, Export!TypeOK, ExportSection, ExportItem

LEMMA ExportTable ==
    ASSUME ExportInv, Export!Table
    PROVE  ExportInv'
<1>0. at' # "letterhead"
  BY DEF Export!Table, Export!Go
<1>1. at = "table" /\ section \in 0..Tables + 1 /\ y \in Int /\ y <= Export!Top
  BY ServicesAssumption DEF Export!Table, ExportInv, Export!TypeOK, ExportCursor, ExportSection
<1> DEFINE w == Export!Room(y, 11)
<1>2. w \in {y, Export!Top} /\ w \in Int /\ w <= Export!Top
  BY <1>1 DEF Export!Room, Export!Bottom, Export!Top, Export!Page
<1>3. PICK h \in TableHeights :
        Export!Draw("table", Export!Room(w, h), Export!Room(w, h) - h,
                    Export!Room(w, h) - h - 10)
  BY DEF Export!Table
<1> HIDE DEF w
<1> DEFINE v == Export!Room(w, h)
<1>4. h \in Nat
  BY ServicesAssumption
<1>5. v \in {w, Export!Top} /\ v \in 0..Export!Page /\ v <= Export!Top /\ v \in Int
      /\ (v >= Export!Bottom + h \/ v = Export!Top)
  BY <1>2, <1>4 DEF Export!Room, Export!Bottom, Export!Top, Export!Page
<1>6. Export!Draw("table", v, v - h, v - h - 10)
  BY <1>3
<1> HIDE DEF v
<1>7. /\ v \in {y, Export!Top} /\ v - h - 10 \in Int /\ v - h - 10 <= Export!Top /\ v - h - 10 # v - h
      /\ v - h \in Int /\ v - h <= v
      /\ v - h >= Export!Bottom \/ v = Export!Top
  BY <1>2, <1>4, <1>5 DEF Export!Bottom, Export!Top, Export!Page
<1>8. y' \in Int /\ low' \in Int
      /\ image' \in 0..Export!Page /\ item' \in ExportItem
      /\ ExportCursor' /\ Export!Legible'
  BY <1>4, <1>5, <1>6, <1>7, <1>0, ExportDraw
<1>9. at' = "title" /\ section' = section + 1 /\ left' = 0
  BY DEF Export!Table, Export!Go
<1> QED
  BY <1>1, <1>8, <1>9, ServicesAssumption DEF ExportInv, Export!TypeOK, ExportSection, ExportItem

\* What moves the cursor, or starts a page, without drawing.
LEMMA ExportMoves ==
    ASSUME ExportInv, Export!Letterhead \/ Export!ContactEnds \/ Export!Image
    PROVE  ExportInv'
<1>1. item' = item /\ Export!Legible'
  BY DEF Export!Letterhead, Export!ContactEnds, Export!Image, ExportInv, Export!Legible,
     Export!Fits
<1>2. /\ at' \in {"title", "last", at} /\ (at' # "title" => at # "title" /\ section' = section)
      /\ section' \in 0..Tables + 2 /\ left' \in 0..MaxContacts + 6
  BY ServicesAssumption DEF Export!Letterhead, Export!ContactEnds, Export!Image, Export!Go,
     ExportInv, Export!TypeOK
<1>3. ExportSection'
  <2>1. at' = "files" => y' = y /\ at = "files"
    BY DEF Export!Letterhead, Export!ContactEnds, Export!Image, Export!Go
  <2>2. (at = "files" => y < Export!Top)'
    BY <2>1 DEF ExportInv, ExportSection, Export!Top, Export!Page
  <2>3. (at \notin {"title", "done"} => section <= Tables + 1)'
    BY <1>2 DEF Export!Letterhead, Export!ContactEnds, Export!Image, Export!Go, ExportInv,
       ExportSection
  <2> QED
    BY <2>2, <2>3 DEF ExportSection
<1>4. y' \in Int /\ low' \in Int /\ image' \in 0..Export!Page /\ ExportCursor'
  <2>1. CASE Export!Letterhead
    BY <2>1 DEF Export!Letterhead, ExportInv, Export!TypeOK, ExportCursor, Export!Top, Export!Page
  <2>2. CASE Export!ContactEnds
    <3>1. Export!Room(y, 8) \in {y, Export!Top}
      BY DEF Export!Room
    <3> QED
      BY <2>2, <3>1 DEF Export!ContactEnds, Export!Go, ExportInv, Export!TypeOK, ExportCursor,
         Export!Top, Export!Page
  <2>3. CASE Export!Image
    BY <2>3 DEF Export!Image, ExportInv, Export!TypeOK, ExportCursor, ExportSection,
       Export!Top, Export!Page
  <2> QED
    BY <2>1, <2>2, <2>3
<1> QED
  BY <1>1, <1>2, <1>3, <1>4 DEF ExportInv, Export!TypeOK

LEMMA ExportOther ==
    ASSUME ExportInv, Export!Skip \/ Export!Prepared \/ Export!Save \/ UNCHANGED Export!vars
    PROVE  ExportInv'
<1>1. UNCHANGED <<y, low, image, item>> /\ (at' = "letterhead" => at = "letterhead")
  BY DEF Export!Skip, Export!Prepared, Export!Save, Export!Go, Export!vars
<1>2. ExportCursor' /\ Export!Legible'
  BY <1>1 DEF ExportInv, ExportCursor, Export!Legible, Export!Fits
<1>3. /\ at' \in {"title", "table", "done", at} /\ section' \in 0..Tables + 2
      /\ left' \in 0..MaxContacts + 6 /\ ExportSection'
  BY ServicesAssumption DEF Export!Skip, Export!Prepared, Export!Save, Export!vars, Export!Go,
     ExportInv, Export!TypeOK, ExportSection
<1> QED
  BY <1>1, <1>2, <1>3 DEF ExportInv, Export!TypeOK

LEMMA ExportNext ==
    ASSUME ExportInv, [Export!Next]_(Export!vars)
    PROVE  ExportInv'
BY ExportTitle, ExportLine, ExportContact, ExportEntry, ExportTable, ExportMoves, ExportOther
   DEF Export!Next, Export!Ended

-----------------------------------------------------------------------------
(***************************************************************************)
(* The chat.  A socket that is open has a user and stands in the list of   *)
(* its organization's row; one that replays has messages to walk through.  *)
(***************************************************************************)
ChatSocket == [at : {"gone", "replay", "reading"}, user : Users \cup {None},
               org : Orgs \cup {None}, list : Seq(Chat!Message) \cup {None}, next : Nat]

ChatOwned ==
    \A s \in Sockets :
        /\ socket[s].at = "gone" => socket[s] = Chat!Gone
        /\ socket[s].at # "gone" =>
               socket[s].user \in Users /\ socket[s].org \in Orgs
               /\ open[socket[s].org] \in Seq(Sockets)

ChatReplaying ==
    \A s \in Sockets : socket[s].at = "replay" =>
        waiting[socket[s].user] \in Seq(Chat!Message) /\ socket[s].next >= 1

ChatInv == Chat!TypeOK /\ ChatOwned /\ ChatReplaying

\* What a step may do to the messages that wait.
ChatKept ==
    \A u \in Users : waiting[u] # None =>
        \A i \in 1..Len(waiting[u]) : Chat!Fresh(waiting[u][i]) =>
            \E j \in 1..Len(waiting'[u]) : waiting'[u][j].text = waiting[u][i].text

LEMMA ChatInit == Chat!Init => ChatInv
<1>1. Chat!Gone \in ChatSocket
  BY DEF Chat!Gone, ChatSocket
<1> QED
  BY <1>1 DEF Chat!Init, ChatInv, Chat!TypeOK, ChatOwned, ChatReplaying, Chat!Gone, ChatSocket

LEMMA ChatSubsequence ==
    ASSUME NEW s, NEW I
    PROVE  Chat!Subsequence(s, I) = Subsequence(s, I)
BY DEF Chat!Subsequence, Chat!Rank, Chat!Cardinality, Subsequence, Rank, Cardinality

LEMMA ChatFresh ==
    ASSUME NEW list \in Seq(Chat!Message)
    PROVE  /\ Chat!FreshOf(list) \in Seq(Chat!Message)
           /\ \A i \in 1..Len(list) : Chat!Fresh(list[i]) =>
                  \E j \in 1..Len(Chat!FreshOf(list)) : Chat!FreshOf(list)[j] = list[i]
<1> DEFINE I == {i \in 1..Len(list) : Chat!Fresh(list[i])}
<1>1. I \in SUBSET (1..Len(list)) /\ Chat!FreshOf(list) = Subsequence(list, I)
  BY ChatSubsequence DEF Chat!FreshOf
<1>2. \A i \in 1..Len(list) : Chat!Fresh(list[i]) => i \in I
  OBVIOUS
<1> HIDE DEF I
<1>3. /\ Subsequence(list, I) \in Seq(Chat!Message)
      /\ \A i \in I : \E k \in 1..Len(Subsequence(list, I)) : Subsequence(list, I)[k] = list[i]
  BY <1>1, SubsequenceFacts
<1> QED
  BY <1>1, <1>2, <1>3

LEMMA ChatWithout ==
    ASSUME NEW list \in Seq(Sockets), NEW s
    PROVE  Chat!Without(list, s) \in Seq(Sockets)
<1>1. {i \in 1..Len(list) : list[i] # s} \in SUBSET (1..Len(list))
  OBVIOUS
<1> QED
  BY <1>1, ChatSubsequence, SubsequenceFacts DEF Chat!Without

LEMMA ChatWalked ==
    ASSUME ChatInv, NEW s \in Sockets, socket[s].at = "replay"
    PROVE  Chat!Walked(s) \in Seq(Chat!Message)
BY DEF ChatInv, Chat!TypeOK, ChatReplaying, Chat!Walked

LEMMA ChatConnect ==
    ASSUME ChatInv, NEW s \in Sockets, NEW u \in Users, NEW o \in Orgs, Chat!Connect(s, u, o)
    PROVE  ChatInv' /\ ChatKept
<1> DEFINE new == [at |-> IF waiting[u] = None THEN "reading" ELSE "replay", user |-> u,
                   org |-> o, list |-> None, next |-> 1]
<1>1. /\ socket' = [socket EXCEPT ![s] = new] /\ UNCHANGED <<waiting, got>>
      /\ open' = [open EXCEPT ![o] = IF @ = None THEN <<s>> ELSE Append(@, s)]
  BY DEF Chat!Connect
<1>2. /\ new \in ChatSocket /\ new.at \in {"reading", "replay"} /\ new.user = u /\ new.org = o
      /\ new.next = 1 /\ (new.at = "replay" => waiting[u] # None)
  BY DEF ChatSocket
<1> HIDE DEF new
<1>3. open' \in [Orgs -> Seq(Sockets) \cup {None}] /\ open'[o] \in Seq(Sockets)
      /\ \A p \in Orgs \ {o} : open'[p] = open[p]
  BY <1>1 DEF ChatInv, Chat!TypeOK
<1>4. \A t \in Sockets : socket'[t] = IF t = s THEN new ELSE socket[t]
  BY <1>1 DEF ChatInv, Chat!TypeOK
<1>5. Chat!TypeOK'
  BY <1>1, <1>2, <1>3 DEF ChatInv, Chat!TypeOK, ChatSocket
<1>6. ChatOwned'
  <2> SUFFICES ASSUME NEW t \in Sockets
               PROVE  /\ socket'[t].at = "gone" => socket'[t] = Chat!Gone
                      /\ socket'[t].at # "gone" =>
                             socket'[t].user \in Users /\ socket'[t].org \in Orgs
                             /\ open'[socket'[t].org] \in Seq(Sockets)
    BY DEF ChatOwned
  <2>1. CASE t = s
    BY <1>2, <1>3, <1>4, <2>1
  <2>2. CASE t # s
    BY <1>3, <1>4, <2>2 DEF ChatInv, ChatOwned
  <2> QED
    BY <2>1, <2>2
<1>7. ChatReplaying'
  <2> SUFFICES ASSUME NEW t \in Sockets, socket'[t].at = "replay"
               PROVE  waiting'[socket'[t].user] \in Seq(Chat!Message) /\ socket'[t].next >= 1
    BY DEF ChatReplaying
  <2>1. waiting[u] \in Seq(Chat!Message) \cup {None}
    BY DEF ChatInv, Chat!TypeOK
  <2>2. CASE t = s
    BY <1>1, <1>2, <1>4, <2>1, <2>2
  <2>3. CASE t # s
    BY <1>1, <1>4, <2>3 DEF ChatInv, ChatReplaying
  <2> QED
    BY <2>2, <2>3
<1> QED
  BY <1>1, <1>5, <1>6, <1>7 DEF ChatInv, ChatKept

LEMMA ChatReplay ==
    ASSUME ChatInv, NEW s \in Sockets, Chat!Replay(s)
    PROVE  ChatInv' /\ ChatKept
<1>1. /\ socket[s].at = "replay" /\ socket[s].next <= Len(Chat!Walked(s))
      /\ got' = [got EXCEPT ![socket[s].user] = @ \cup {Chat!Walked(s)[socket[s].next].text}]
      /\ socket' = [socket EXCEPT ![s].next = @ + 1]
      /\ UNCHANGED <<open, waiting>>
  BY DEF Chat!Replay
<1>2. socket[s] \in ChatSocket /\ socket[s].user \in Users /\ socket[s].next \in Nat
      /\ socket[s].next >= 1
  BY <1>1 DEF ChatInv, Chat!TypeOK, ChatOwned, ChatReplaying, ChatSocket
<1>3. Chat!Walked(s)[socket[s].next] \in Chat!Message
  BY <1>1, <1>2, ChatWalked
<1> DEFINE new == [socket[s] EXCEPT !.next = @ + 1]
<1>4. /\ new \in ChatSocket /\ new.at = socket[s].at /\ new.user = socket[s].user
      /\ new.org = socket[s].org /\ new.next >= 1
  BY <1>2 DEF ChatSocket
<1>5. socket' = [socket EXCEPT ![s] = new]
  BY <1>1 DEF ChatInv, Chat!TypeOK
<1> HIDE DEF new
<1>6. \A t \in Sockets : socket'[t] = IF t = s THEN new ELSE socket[t]
  BY <1>5 DEF ChatInv, Chat!TypeOK
<1>7. Chat!TypeOK'
  <2>1. got' \in [Users -> SUBSET Texts]
    <3>1. Chat!Walked(s)[socket[s].next].text \in Texts
      BY <1>3 DEF Chat!Message
    <3> QED
      BY <1>1, <1>2, <3>1 DEF ChatInv, Chat!TypeOK
  <2>2. socket' \in [Sockets -> ChatSocket]
    BY <1>4, <1>5 DEF ChatInv, Chat!TypeOK, ChatSocket
  <2> QED
    BY <1>1, <2>1, <2>2 DEF ChatInv, Chat!TypeOK, ChatSocket
<1>8. ChatOwned' /\ ChatReplaying'
  <2>1. \A t \in Sockets :
            /\ socket'[t].at = socket[t].at /\ socket'[t].user = socket[t].user
            /\ socket'[t].org = socket[t].org
            /\ socket'[t].next = socket[t].next \/ socket'[t].next >= 1
            /\ socket[t].at = "gone" => socket'[t] = socket[t]
    BY <1>1, <1>4, <1>6
  <2>2. ChatOwned'
    BY <1>1, <2>1 DEF ChatInv, ChatOwned
  <2>3. ChatReplaying'
    <3> SUFFICES ASSUME NEW t \in Sockets, socket'[t].at = "replay"
                 PROVE  waiting'[socket'[t].user] \in Seq(Chat!Message) /\ socket'[t].next >= 1
      BY DEF ChatReplaying
    <3>1. waiting[socket[t].user] \in Seq(Chat!Message) /\ socket[t].next >= 1
      BY <2>1 DEF ChatInv, ChatReplaying
    <3> QED
      BY <1>1, <2>1, <3>1
  <2> QED
    BY <2>2, <2>3
<1> QED
  BY <1>1, <1>7, <1>8 DEF ChatInv, ChatKept

LEMMA ChatRetain ==
    ASSUME ChatInv, NEW s \in Sockets, Chat!Retain(s)
    PROVE  ChatInv' /\ ChatKept
<1> DEFINE list == waiting[socket[s].user]
<1>1. /\ socket[s].at = "replay" /\ UNCHANGED <<open, got>>
      /\ waiting' = [waiting EXCEPT ![socket[s].user] = Chat!FreshOf(list)]
  BY DEF Chat!Retain, Chat!Retained
<1>2. socket[s].user \in Users /\ list \in Seq(Chat!Message)
  BY <1>1 DEF ChatInv, ChatOwned, ChatReplaying
<1>3. Chat!FreshOf(list) \in Seq(Chat!Message)
  BY <1>2, ChatFresh
<1>4. \A u \in Users : waiting'[u] = IF u = socket[s].user THEN Chat!FreshOf(list) ELSE waiting[u]
  BY <1>1 DEF ChatInv, Chat!TypeOK
<1>5. waiting' \in [Users -> Seq(Chat!Message) \cup {None}]
  BY <1>1, <1>3 DEF ChatInv, Chat!TypeOK
<1>6. \A t \in Sockets :
          /\ socket'[t] \in ChatSocket
          /\ t = s => socket'[t].at = "reading"
          /\ t # s => socket'[t].at = socket[t].at /\ socket'[t].next = socket[t].next
          /\ socket'[t].user = socket[t].user /\ socket'[t].org = socket[t].org
          /\ socket[t].at # "replay" => socket'[t] = socket[t]
  <2> TAKE t \in Sockets
  <2>1. socket[t] \in ChatSocket
    BY DEF ChatInv, Chat!TypeOK, ChatSocket
  <2>2. CASE t = s
    BY <1>1, <2>1, <2>2 DEF Chat!Retain, ChatSocket
  <2>3. CASE t # s /\ socket[t].at = "replay" /\ socket[t].user = socket[s].user
    <3>1. Chat!Walked(t) \in Seq(Chat!Message)
      BY <2>3, ChatWalked
    <3>2. socket'[t] = [socket[t] EXCEPT !.list = Chat!Walked(t)]
      BY <2>3 DEF Chat!Retain
    <3> QED
      BY <2>1, <2>3, <3>1, <3>2 DEF ChatSocket
  <2>4. CASE t # s /\ ~(socket[t].at = "replay" /\ socket[t].user = socket[s].user)
    <3>1. socket'[t] = socket[t]
      BY <2>4 DEF Chat!Retain
    <3> QED
      BY <2>1, <2>4, <3>1
  <2> QED
    BY <2>2, <2>3, <2>4
<1>7. socket' \in [Sockets -> ChatSocket]
  <2>1. socket' = [t \in Sockets |-> socket'[t]]
    BY DEF Chat!Retain
  <2> QED
    BY <1>6, <2>1
<1>8. Chat!TypeOK'
  BY <1>1, <1>5, <1>7 DEF ChatInv, Chat!TypeOK, ChatSocket
<1>9. ChatOwned'
  BY <1>1, <1>6 DEF ChatInv, ChatOwned
<1>10. ChatReplaying'
  <2> SUFFICES ASSUME NEW t \in Sockets, socket'[t].at = "replay"
               PROVE  waiting'[socket'[t].user] \in Seq(Chat!Message) /\ socket'[t].next >= 1
    BY DEF ChatReplaying
  <2>1. /\ socket[t].at = "replay" /\ socket'[t].next = socket[t].next
        /\ socket'[t].user = socket[t].user
    BY <1>6
  <2>2. waiting[socket[t].user] \in Seq(Chat!Message) /\ socket[t].user \in Users
        /\ socket[t].next >= 1
    BY <2>1 DEF ChatInv, ChatReplaying, ChatOwned
  <2> QED
    BY <1>3, <1>4, <2>1, <2>2
<1>11. ChatKept
  <2> SUFFICES ASSUME NEW u \in Users, waiting[u] # None,
                      NEW i \in 1..Len(waiting[u]), Chat!Fresh(waiting[u][i])
               PROVE  \E j \in 1..Len(waiting'[u]) : waiting'[u][j].text = waiting[u][i].text
    BY DEF ChatKept
  <2>1. CASE u = socket[s].user
    BY <1>2, <1>4, <2>1, ChatFresh
  <2>2. CASE u # socket[s].user
    BY <1>4, <2>2
  <2> QED
    BY <2>1, <2>2
<1> QED
  BY <1>8, <1>9, <1>10, <1>11 DEF ChatInv

\* A socket that goes, from its list or not.
LEMMA ChatGoes ==
    ASSUME ChatInv, NEW s \in Sockets, socket[s] # Chat!Gone,
           socket' = [socket EXCEPT ![s] = Chat!Gone],
           open' \in {open, [open EXCEPT ![socket[s].org] = Chat!Without(@, s)]},
           waiting' = waiting, got' \in [Users -> SUBSET Texts]
    PROVE  ChatInv' /\ ChatKept
<1>1. socket[s].org \in Orgs /\ open[socket[s].org] \in Seq(Sockets)
  BY DEF ChatInv, ChatOwned
<1>2. Chat!Without(open[socket[s].org], s) \in Seq(Sockets)
  BY <1>1, ChatWithout
<1>3. open' \in [Orgs -> Seq(Sockets) \cup {None}]
      /\ \A o \in Orgs : open[o] \in Seq(Sockets) => open'[o] \in Seq(Sockets)
  BY <1>1, <1>2 DEF ChatInv, Chat!TypeOK
<1>4. \A t \in Sockets : socket'[t] = IF t = s THEN Chat!Gone ELSE socket[t]
  BY DEF ChatInv, Chat!TypeOK
<1>5. Chat!Gone \in ChatSocket /\ Chat!Gone.at = "gone"
  BY DEF Chat!Gone, ChatSocket
<1>6. Chat!TypeOK'
  BY <1>3, <1>5 DEF ChatInv, Chat!TypeOK, ChatSocket
<1>7. ChatOwned' /\ ChatReplaying'
  BY <1>3, <1>4, <1>5 DEF ChatInv, ChatOwned, ChatReplaying
<1> QED
  BY <1>6, <1>7 DEF ChatInv, ChatKept

LEMMA ChatSend ==
    ASSUME ChatInv, NEW s \in Sockets, NEW r \in Users \cup Orgs, NEW t \in Texts, Chat!Send(s, r, t)
    PROVE  ChatInv' /\ ChatKept
<1>1. socket[s].at = "reading" /\ socket[s] # Chat!Gone
  BY DEF Chat!Send, Chat!Gone
<1>2. CASE Chat!Listening(r)
  <2>1. got' \in [Users -> SUBSET Texts] /\ waiting' = waiting
    BY <1>2 DEF Chat!Send, ChatInv, Chat!TypeOK
  <2>2. CASE UNCHANGED <<socket, open>>
    BY <2>1, <2>2 DEF ChatInv, Chat!TypeOK, ChatOwned, ChatReplaying, ChatKept
  <2>3. CASE ~UNCHANGED <<socket, open>>
    <3>1. socket' = [socket EXCEPT ![s] = Chat!Gone]
          /\ open' \in {open, [open EXCEPT ![socket[s].org] = Chat!Without(@, s)]}
      BY <1>2, <2>3 DEF Chat!Send
    <3> QED
      BY <1>1, <2>1, <3>1, ChatGoes
  <2> QED
    BY <2>2, <2>3
<1>3. CASE ~Chat!Listening(r)
  <2> DEFINE now == IF waiting[r] = None THEN <<>> ELSE waiting[r]
             new == [text |-> t, old |-> FALSE]
  <2>1. r \in Users /\ UNCHANGED <<socket, open, got>>
        /\ waiting' = [waiting EXCEPT ![r] = Append(now, new)]
    BY <1>3 DEF Chat!Send, Chat!Store
  <2>2. now \in Seq(Chat!Message) /\ new \in Chat!Message /\ (waiting[r] # None => now = waiting[r])
    <3>1. waiting[r] \in Seq(Chat!Message) \cup {None}
      BY <2>1 DEF ChatInv, Chat!TypeOK
    <3>2. new \in Chat!Message
      BY DEF Chat!Message
    <3> QED
      BY <3>1, <3>2
  <2> HIDE DEF now, new
  <2>3. Append(now, new) \in Seq(Chat!Message) /\ Len(Append(now, new)) = Len(now) + 1
        /\ \A i \in 1..Len(now) : Append(now, new)[i] = now[i]
    BY <2>2
  <2>4. \A u \in Users : waiting'[u] = IF u = r THEN Append(now, new) ELSE waiting[u]
    BY <2>1 DEF ChatInv, Chat!TypeOK
  <2>5. Chat!TypeOK'
    BY <2>1, <2>3 DEF ChatInv, Chat!TypeOK
  <2>6. ChatOwned' /\ ChatReplaying'
    BY <2>1, <2>3, <2>4 DEF ChatInv, ChatOwned, ChatReplaying
  <2>7. ChatKept
    <3> SUFFICES ASSUME NEW u \in Users, waiting[u] # None, NEW i \in 1..Len(waiting[u])
                 PROVE  \E j \in 1..Len(waiting'[u]) : waiting'[u][j].text = waiting[u][i].text
      BY DEF ChatKept
    <3>1. CASE u = r
      <4>1. now = waiting[u] /\ waiting'[u] = Append(now, new)
        BY <2>2, <2>4, <3>1
      <4>0. Len(now) \in Nat
        BY <2>2
      <4>2. i \in 1..Len(waiting'[u]) /\ waiting'[u][i] = waiting[u][i]
        BY <2>3, <4>0, <4>1
      <4> QED
        BY <4>2
    <3>2. CASE u # r
      BY <2>4, <3>2
    <3> QED
      BY <3>1, <3>2
  <2> QED
    BY <2>5, <2>6, <2>7 DEF ChatInv
<1> QED
  BY <1>2, <1>3

LEMMA ChatLeaves ==
    ASSUME ChatInv, NEW s \in Sockets, Chat!Leave(s) \/ Chat!Garble(s)
    PROVE  ChatInv' /\ ChatKept
<1>1. got' \in [Users -> SUBSET Texts]
  BY DEF Chat!Leave, Chat!Garble, ChatInv, Chat!TypeOK
<1> QED
  BY <1>1, ChatGoes DEF Chat!Leave, Chat!Garble

\* The same messages, all of them old.
ChatAged(list) == [i \in 1..Len(list) |-> [list[i] EXCEPT !.old = TRUE]]

LEMMA ChatAge ==
    ASSUME ChatInv, Chat!Age
    PROVE  ChatInv' /\ ChatKept
<1>1. ASSUME NEW list \in Seq(Chat!Message)
      PROVE  /\ ChatAged(list) \in Seq(Chat!Message) /\ Len(ChatAged(list)) = Len(list)
             /\ \A i \in 1..Len(list) : ChatAged(list)[i].text = list[i].text
  <2>1. Len(list) \in Nat /\ \A i \in 1..Len(list) : list[i] \in Chat!Message
    OBVIOUS
  <2>2. \A m \in Chat!Message :
            /\ [m EXCEPT !.old = TRUE] \in Chat!Message
            /\ [m EXCEPT !.old = TRUE].text = m.text
    BY DEF Chat!Message
  <2>3. \A i \in 1..Len(list) :
            /\ ChatAged(list)[i] \in Chat!Message
            /\ ChatAged(list)[i].text = list[i].text
    BY <2>1, <2>2 DEF ChatAged
  <2>4. ChatAged(list) = [i \in 1..Len(list) |-> ChatAged(list)[i]]
    BY DEF ChatAged
  <2>5. ChatAged(list) \in Seq(Chat!Message) /\ Len(ChatAged(list)) = Len(list)
    BY <2>1, <2>3, <2>4
  <2> QED
    BY <2>3, <2>5
<1>2. /\ waiting' = [u \in Users |-> IF waiting[u] = None THEN None ELSE ChatAged(waiting[u])]
      /\ UNCHANGED <<open, got>>
  BY DEF Chat!Age, ChatAged
<1>3. \A u \in Users : waiting[u] \in Seq(Chat!Message) \cup {None}
  BY DEF ChatInv, Chat!TypeOK
<1>4. \A u \in Users :
          /\ waiting'[u] \in Seq(Chat!Message) \cup {None}
          /\ waiting[u] \in Seq(Chat!Message) => waiting'[u] \in Seq(Chat!Message)
  BY <1>1, <1>2, <1>3
<1>5. waiting' \in [Users -> Seq(Chat!Message) \cup {None}]
  BY <1>2, <1>4
<1>6. \A s \in Sockets :
          /\ socket'[s] \in ChatSocket
          /\ socket'[s].at = socket[s].at /\ socket'[s].next = socket[s].next
          /\ socket'[s].user = socket[s].user /\ socket'[s].org = socket[s].org
          /\ socket[s] = Chat!Gone => socket'[s] = Chat!Gone
  <2> TAKE s \in Sockets
  <2>1. socket[s] \in ChatSocket
    BY DEF ChatInv, Chat!TypeOK, ChatSocket
  <2>2. CASE socket[s].list = None
    <3>1. socket'[s] = socket[s]
      BY <2>2 DEF Chat!Age
    <3> QED
      BY <2>1, <3>1
  <2>3. CASE socket[s].list # None
    <3>1. socket[s].list \in Seq(Chat!Message) /\ socket[s] # Chat!Gone
      BY <2>1, <2>3 DEF ChatSocket, Chat!Gone
    <3>2. socket'[s] = [socket[s] EXCEPT !.list = ChatAged(socket[s].list)]
      BY <2>3 DEF Chat!Age, ChatAged
    <3>3. ChatAged(socket[s].list) \in Seq(Chat!Message)
      BY <1>1, <3>1
    <3> QED
      BY <2>1, <3>1, <3>2, <3>3 DEF ChatSocket
  <2> QED
    BY <2>2, <2>3
<1>7. socket' \in [Sockets -> ChatSocket]
  <2>1. socket' = [s \in Sockets |-> socket'[s]]
    BY DEF Chat!Age
  <2> QED
    BY <1>6, <2>1
<1>8. Chat!TypeOK'
  BY <1>2, <1>5, <1>7 DEF ChatInv, Chat!TypeOK, ChatSocket
<1>9. ChatOwned'
  BY <1>2, <1>6 DEF ChatInv, ChatOwned
<1>10. ChatReplaying'
  BY <1>4, <1>6 DEF ChatInv, ChatReplaying, ChatOwned
<1>11. ChatKept
  BY <1>1, <1>2, <1>3 DEF ChatKept
<1> QED
  BY <1>8, <1>9, <1>10, <1>11 DEF ChatInv

LEMMA ChatNext ==
    ASSUME ChatInv, [Chat!Next]_(Chat!vars)
    PROVE  ChatInv' /\ (ChatKept \/ UNCHANGED Chat!vars)
<1>1. CASE UNCHANGED Chat!vars
  BY <1>1 DEF Chat!vars, ChatInv, Chat!TypeOK, ChatOwned, ChatReplaying
<1>2. CASE Chat!Next
  BY <1>2, ChatAge, ChatConnect, ChatSend, ChatReplay, ChatRetain, ChatLeaves DEF Chat!Next
<1> QED
  BY <1>1, <1>2

-----------------------------------------------------------------------------
(***************************************************************************)
(* The summaries.  A task has sockets to send to only once it has counted. *)
(***************************************************************************)
SummaryTask ==
    {t \in [of : Summary!Counted, counted : Summary!Counted \cup {None}, to : SUBSET Clients] :
         t.to # {} => t.counted \in Summary!Counted}

SummaryInv == Summary!TypeOK /\ tasks \in Seq(SummaryTask)

LEMMA SummaryInit == Summary!Init => SummaryInv
<1> SUFFICES ASSUME Summary!Init PROVE SummaryInv
  OBVIOUS
<1>1. 0 \in Summary!Counted
  BY ServicesAssumption DEF Summary!Counted
<1> QED
  BY <1>1 DEF Summary!Init, SummaryInv, Summary!TypeOK, Summary!Off

LEMMA SeqOfMore ==
    ASSUME NEW S, NEW T, S \subseteq T, NEW s \in Seq(S)
    PROVE  s \in Seq(T)
<1>1. PICK n \in Nat : s \in [1..n -> S]
  BY SMT
<1>2. s \in [1..n -> T]
  BY <1>1
<1> QED
  BY <1>1, <1>2, SMT

\* Tasks that are counted, or nobody's yet, are tasks.
LEMMA SummaryTyped ==
    ASSUME tasks' \in Seq(SummaryTask), changes' \in Summary!Counted, pushed' \in Summary!Counted,
           failed' \subseteq Summary!Counted,
           client' \in [Clients -> [on : BOOLEAN, last : Summary!Counted, most : Summary!Counted]]
    PROVE  SummaryInv'
<1>1. SummaryTask \subseteq [of : Summary!Counted, counted : Summary!Counted \cup {None}, to : SUBSET Clients]
  BY DEF SummaryTask
<1>2. tasks' \in Seq([of : Summary!Counted, counted : Summary!Counted \cup {None}, to : SUBSET Clients])
  BY <1>1, SeqOfMore
<1> QED
  BY <1>2 DEF SummaryInv, Summary!TypeOK, SummaryTask, Summary!Counted

LEMMA SummaryOne ==
    ASSUME SummaryInv, NEW i \in 1..Len(tasks), NEW t \in SummaryTask
    PROVE  [tasks EXCEPT ![i] = t] \in Seq(SummaryTask)
<1>1. tasks \in [1..Len(tasks) -> SummaryTask] /\ Len(tasks) \in Nat
  BY DEF SummaryInv
<1>2. [tasks EXCEPT ![i] = t] \in [1..Len(tasks) -> SummaryTask]
  BY <1>1
<1> QED
  BY <1>1, <1>2

LEMMA SummaryPush ==
    ASSUME SummaryInv, Summary!Push \/ Summary!Change
    PROVE  SummaryInv'
<1>1. changes < MaxChanges => changes + 1 \in Summary!Counted
  BY ServicesAssumption DEF SummaryInv, Summary!TypeOK, Summary!Counted
<1>2. tasks' \in Seq(SummaryTask)
  <2>1. CASE Summary!Push
    <3> DEFINE t == Summary!Pending(changes + 1)
    <3>1. t \in SummaryTask
      BY <1>1, <2>1 DEF Summary!Push, Summary!Pending, SummaryTask
    <3>2. tasks' = Append(tasks, t)
      BY <2>1 DEF Summary!Push
    <3> HIDE DEF t
    <3> QED
      BY <3>1, <3>2 DEF SummaryInv
  <2> QED
    BY <2>1 DEF Summary!Change, SummaryInv
<1>3. changes' \in Summary!Counted /\ pushed' \in Summary!Counted
  BY <1>1 DEF Summary!Push, Summary!Change, SummaryInv, Summary!TypeOK
<1> QED
  BY <1>2, <1>3, SummaryTyped DEF Summary!Push, Summary!Change, SummaryInv, Summary!TypeOK

\* A task that ends.
LEMMA SummaryWithout ==
    ASSUME SummaryInv, NEW i \in 1..Len(tasks)
    PROVE  Summary!Without(i) \in Seq(SummaryTask)
<1>1. Len(tasks) \in Nat /\ \A j \in 1..Len(tasks) : tasks[j] \in SummaryTask
  BY DEF SummaryInv
<1>2. SubSeq(tasks, 1, i - 1) \in Seq(SummaryTask)
      /\ SubSeq(tasks, i + 1, Len(tasks)) \in Seq(SummaryTask)
  BY <1>1 DEF SummaryInv
<1> QED
  BY <1>2 DEF Summary!Without

LEMMA SummaryStep ==
    ASSUME SummaryInv, NEW i \in 1..Len(tasks), Summary!TaskStep(i)
    PROVE  SummaryInv'
<1>1. /\ tasks[i] \in SummaryTask
      /\ tasks[i] \in [of : Summary!Counted, counted : Summary!Counted \cup {None}, to : SUBSET Clients]
      /\ tasks[i].to # {} => tasks[i].counted \in Summary!Counted
  BY DEF SummaryInv, SummaryTask
<1>2. CASE Summary!Count(i)
  <2> DEFINE t == [tasks[i] EXCEPT !.counted = changes, !.to = {c \in Clients : client[c].on}]
  <2>1. t \in SummaryTask
    BY <1>1 DEF SummaryInv, Summary!TypeOK, SummaryTask
  <2>2. tasks' = [tasks EXCEPT ![i] = t]
    BY <1>2 DEF Summary!Count
  <2> HIDE DEF t
  <2>3. tasks' \in Seq(SummaryTask)
    BY <2>1, <2>2, SummaryOne
  <2> QED
    BY <1>2, <2>3, SummaryTyped DEF Summary!Count, SummaryInv, Summary!TypeOK, Summary!Counted
<1>3. ASSUME NEW c \in Clients, Summary!Deliver(i, c)
      PROVE  SummaryInv'
  <2> DEFINE t == [tasks[i] EXCEPT !.to = @ \ {c}]
  <2>1. t \in SummaryTask
    BY <1>1 DEF SummaryTask
  <2>2. tasks' = [tasks EXCEPT ![i] = t]
    BY <1>3 DEF Summary!Deliver, SummaryInv
  <2> HIDE DEF t
  <2>3. tasks' \in Seq(SummaryTask)
    BY <2>1, <2>2, SummaryOne
  <2>4. tasks[i].counted \in Summary!Counted
    BY <1>1, <1>3 DEF Summary!Deliver
  <2>5. client[c] \in [on : BOOLEAN, last : Summary!Counted, most : Summary!Counted]
    BY DEF SummaryInv, Summary!TypeOK
  <2>6. Summary!Received(c, tasks[i].counted) \in [on : BOOLEAN, last : Summary!Counted, most : Summary!Counted]
    BY <2>4, <2>5 DEF Summary!Received
  <2>7. client' \in [Clients -> [on : BOOLEAN, last : Summary!Counted, most : Summary!Counted]]
    BY <1>3, <2>6 DEF Summary!Deliver, SummaryInv, Summary!TypeOK
  <2> QED
    BY <1>3, <2>3, <2>7, SummaryTyped
       DEF Summary!Deliver, SummaryInv, Summary!TypeOK, Summary!Counted
<1>4. CASE Summary!Fail(i)
  <2>1. tasks' \in Seq(SummaryTask)
    BY <1>4, SummaryWithout DEF Summary!Fail
  <2>2. failed' \subseteq Summary!Counted
    BY <1>1, <1>4 DEF Summary!Fail, SummaryInv, Summary!TypeOK
  <2> QED
    BY <1>4, <2>1, <2>2, SummaryTyped DEF Summary!Fail, SummaryInv, Summary!TypeOK, Summary!Counted
<1> QED
  BY <1>2, <1>3, <1>4 DEF Summary!TaskStep

LEMMA SummaryFinish ==
    ASSUME SummaryInv, Summary!Finish
    PROVE  SummaryInv'
<1>1. tasks' \in Seq(SummaryTask) /\ UNCHANGED <<changes, pushed, failed, client>>
  BY SummaryWithout DEF Summary!Finish
<1> QED
  BY <1>1, SummaryTyped DEF SummaryInv, Summary!TypeOK, Summary!Counted

LEMMA SummaryClients ==
    ASSUME SummaryInv,
           (\E c \in Clients : Summary!Open(c) \/ Summary!Close(c)) \/ UNCHANGED Summary!vars
    PROVE  SummaryInv'
<1>1. UNCHANGED <<changes, pushed, tasks, failed>>
  BY DEF Summary!Open, Summary!Close, Summary!vars
<1>2. 0 \in Summary!Counted
  BY ServicesAssumption DEF Summary!Counted
<1>3. client' \in [Clients -> [on : BOOLEAN, last : Summary!Counted, most : Summary!Counted]]
  <2> DEFINE C == [on : BOOLEAN, last : Summary!Counted, most : Summary!Counted]
  <2>1. client \in [Clients -> C] /\ changes \in Summary!Counted
    BY DEF SummaryInv, Summary!TypeOK
  <2>2. Summary!Off \in C
    BY <1>2 DEF Summary!Off
  <2>3. [on |-> TRUE, last |-> changes, most |-> changes] \in C
    BY <2>1
  <2> HIDE DEF C
  <2>4. client' \in [Clients -> C]
    BY <2>1, <2>2, <2>3 DEF Summary!Open, Summary!Close, Summary!vars
  <2> QED
    BY <2>4 DEF C
<1> QED
  BY <1>1, <1>3, SummaryTyped DEF SummaryInv, Summary!TypeOK, Summary!Counted

LEMMA SummaryNext ==
    ASSUME SummaryInv, [Summary!Next]_(Summary!vars)
    PROVE  SummaryInv'
BY SummaryPush, SummaryStep, SummaryFinish, SummaryClients DEF Summary!Next

-----------------------------------------------------------------------------
(***************************************************************************)
(* The mail.  A mail that is not over has an attempt left, and what has    *)
(* arrived came from the tenant's own server or from an attempt.           *)
(***************************************************************************)
MailCounted ==
    \A r \in Requests :
        /\ mail[r] \notin {"sent", "logged", "lost"} => tries[r] < MaxAttempts
        /\ arrived[r] <= tries[r] + 1
        /\ mail[r] \in {"none", "testing", "sending"} => arrived[r] = 0

MailInv == Mail!TypeOK /\ MailCounted

LEMMA MailInit == Mail!Init => MailInv
BY ServicesAssumption DEF Mail!Init, MailInv, Mail!TypeOK, MailCounted, Mail!Where

\* A step of one mail.
LEMMA MailOne ==
    ASSUME MailInv, NEW r \in Requests, NEW w \in Mail!Where,
           NEW n \in 0..MaxAttempts, NEW a \in Nat,
           w \notin {"sent", "logged", "lost"} => n < MaxAttempts,
           a <= n + 1, w \in {"none", "testing", "sending"} => a = 0,
           mail' = [mail EXCEPT ![r] = w], tries' = [tries EXCEPT ![r] = n],
           arrived' = [arrived EXCEPT ![r] = a], tenant' = tenant
    PROVE  MailInv'
<1>1. a \in 0..MaxAttempts + 1
  BY ServicesAssumption
<1>2. Mail!TypeOK'
  BY <1>1 DEF MailInv, Mail!TypeOK
<1>3. \A q \in Requests :
          /\ mail'[q] = IF q = r THEN w ELSE mail[q]
          /\ tries'[q] = IF q = r THEN n ELSE tries[q]
          /\ arrived'[q] = IF q = r THEN a ELSE arrived[q]
  BY DEF MailInv, Mail!TypeOK
<1>4. MailCounted'
  BY <1>3 DEF MailInv, MailCounted
<1> QED
  BY <1>2, <1>4 DEF MailInv

LEMMA MailWork ==
    ASSUME MailInv, NEW r \in Requests, Mail!Work(r)
    PROVE  MailInv'
<1>1. /\ tries[r] \in 0..MaxAttempts /\ tries[r] \in Nat /\ arrived[r] \in Nat
      /\ arrived[r] <= tries[r] + 1
      /\ mail[r] \notin {"sent", "logged", "lost"} => tries[r] < MaxAttempts
      /\ mail[r] \in {"none", "testing", "sending"} => arrived[r] = 0
  BY ServicesAssumption DEF MailInv, Mail!TypeOK, MailCounted
<1>2. /\ tries = [tries EXCEPT ![r] = tries[r]]
      /\ arrived = [arrived EXCEPT ![r] = arrived[r]]
      /\ mail = [mail EXCEPT ![r] = mail[r]]
  BY DEF MailInv, Mail!TypeOK
<1>3. CASE Mail!Start(r) \/ Mail!Test(r) \/ Mail!Queue(r)
  <2>1. PICK w \in {"testing", "waiting", "sending", "queued"} : mail' = [mail EXCEPT ![r] = w]
    BY <1>3 DEF Mail!Start, Mail!Test, Mail!Queue, Mail!Move, Mail!Chosen
  <2>2. UNCHANGED <<tenant, tries, arrived>>
        /\ mail[r] \in {"none", "testing", "waiting"}
        /\ w \in Mail!Where /\ (w \in {"testing", "sending"} => arrived[r] = 0)
    BY <1>1, <1>3, <2>1 DEF Mail!Start, Mail!Test, Mail!Queue, Mail!Move, Mail!Chosen,
       Mail!Where, MailInv, Mail!TypeOK
  <2> QED
    BY <1>1, <1>2, <2>1, <2>2, MailOne
<1>4. CASE Mail!Send(r)
  <2>1. PICK t \in Mail!Taken : /\ arrived' = [arrived EXCEPT ![r] = @ + t.copies]
                           /\ Mail!Move(r, IF t.ok THEN "sent" ELSE "waiting")
    BY <1>4 DEF Mail!Send
  <2>2. PICK w \in {"sent", "waiting"} : mail' = [mail EXCEPT ![r] = w]
    BY <2>1 DEF Mail!Move
  <2>3. /\ arrived[r] = 0 /\ t.copies \in {0, 1} /\ w \in Mail!Where
        /\ tries[r] < MaxAttempts /\ UNCHANGED <<tenant, tries>>
    BY <1>1, <1>4, <2>1 DEF Mail!Send, Mail!Taken, Mail!Where
  <2>4. arrived' = [arrived EXCEPT ![r] = t.copies]
    <3>1. arrived[r] + t.copies = t.copies
      BY <2>3
    <3> QED
      BY <2>1, <3>1
  <2>5. t.copies \in Nat /\ t.copies <= tries[r] + 1
    BY <1>1, <2>3
  <2> QED
    BY <1>1, <1>2, <2>2, <2>3, <2>4, <2>5, MailOne
<1>5. CASE Mail!Attempt(r)
  <2>1. PICK t \in Mail!Taken :
            /\ arrived' = [arrived EXCEPT ![r] = @ + t.copies]
            /\ mail' = [mail EXCEPT ![r] =
                   IF t.ok THEN "sent" ELSE IF Mail!GivesUp(r) THEN "logged" ELSE @]
    BY <1>5 DEF Mail!Attempt
  <2>2. /\ mail[r] = "queued" /\ tries' = [tries EXCEPT ![r] = tries[r] + 1]
        /\ tenant' = tenant /\ t.copies \in {0, 1}
    BY <1>5 DEF Mail!Attempt, Mail!Taken
  <2> DEFINE w == IF t.ok THEN "sent" ELSE IF Mail!GivesUp(r) THEN "logged" ELSE "queued"
             a == arrived[r] + t.copies
             n == tries[r] + 1
  <2>3. mail' = [mail EXCEPT ![r] = w] /\ arrived' = [arrived EXCEPT ![r] = a]
    BY <2>1, <2>2
  <2>4. w \in {"sent", "logged", "queued"} /\ (w = "queued" => n # MaxAttempts)
    BY DEF Mail!GivesUp
  <2>5. a \in Nat /\ n \in 0..MaxAttempts /\ a <= n + 1
    BY <1>1, <2>2, ServicesAssumption
  <2>6. w \in Mail!Where /\ (w \notin {"sent", "logged", "lost"} => n < MaxAttempts)
        /\ w \notin {"none", "testing", "sending"}
    BY <2>4, <2>5, ServicesAssumption DEF Mail!Where
  <2>7. tries' = [tries EXCEPT ![r] = n]
    BY <2>2
  <2> HIDE DEF w, a, n
  <2> QED
    BY <2>2, <2>3, <2>5, <2>6, <2>7, MailOne
<1> QED
  BY <1>3, <1>4, <1>5 DEF Mail!Work

LEMMA MailNext ==
    ASSUME MailInv, [Mail!Next]_(Mail!vars)
    PROVE  MailInv'
<1>1. CASE UNCHANGED Mail!vars
  BY <1>1 DEF Mail!vars, MailInv, Mail!TypeOK, MailCounted
<1>2. CASE Mail!Stop
  <2>1. UNCHANGED <<tenant, tries, arrived>>
        /\ \A r \in Requests : mail'[r] \in {mail[r], "lost"}
    BY <1>2 DEF Mail!Stop
  <2>2. mail' \in [Requests -> Mail!Where]
    BY <1>2 DEF Mail!Stop, MailInv, Mail!TypeOK, Mail!Where
  <2>3. Mail!TypeOK'
    BY <2>1, <2>2 DEF MailInv, Mail!TypeOK
  <2>4. MailCounted'
    BY <2>1 DEF MailInv, MailCounted
  <2> QED
    BY <2>3, <2>4 DEF MailInv
<1> QED
  BY <1>1, <1>2, MailWork DEF Mail!Next, Mail!Ended

-----------------------------------------------------------------------------
(* Side by side.                                                           *)

\* What each of them does here is what it does alone.
LEMMA SideBySide ==
    SpecAll => /\ Checks!Spec /\ Chat!Spec /\ Summary!Spec /\ Spec /\ Mail!Spec
               /\ Super!Spec /\ Catalog!Spec /\ Tenant!Spec /\ Export!Spec
<1>1. InitAll => /\ Checks!Init /\ Chat!Init /\ Summary!Init /\ Init /\ Mail!Init
                 /\ Super!Init /\ Catalog!Init /\ Tenant!Init /\ Export!Init
  BY DEF InitAll
<1>2. [NextAll]_allVars => [Checks!Next]_(Checks!vars)
  BY DEF NextAll, allVars, checksVars, Checks!vars
<1>3. [NextAll]_allVars => [Chat!Next]_(Chat!vars)
  BY DEF NextAll, allVars, chatVars, Chat!vars
<1>4. [NextAll]_allVars => [Summary!Next]_(Summary!vars)
  BY DEF NextAll, allVars, summaryVars, Summary!vars
<1>5. [NextAll]_allVars => [Next]_vars
  BY DEF NextAll, allVars
<1>6. [NextAll]_allVars => [Mail!Next]_(Mail!vars)
  BY DEF NextAll, allVars, mailVars, Mail!vars
<1>7. [NextAll]_allVars => [Super!Next]_(Super!vars)
  BY DEF NextAll, allVars, superVars, Super!vars
<1>8. [NextAll]_allVars => [Catalog!Next]_(Catalog!vars)
  BY DEF NextAll, allVars, catalogVars, Catalog!vars
<1>9. [NextAll]_allVars => [Tenant!Next]_(Tenant!vars)
  BY DEF NextAll, allVars, tenantVars, Tenant!vars
<1>10. [NextAll]_allVars => [Export!Next]_(Export!vars)
  BY DEF NextAll, allVars, exportVars, Export!vars
<1> QED
  BY <1>1, <1>2, <1>3, <1>4, <1>5, <1>6, <1>7, <1>8, <1>9, <1>10, PTL
     DEF SpecAll, Checks!Spec, Chat!Spec, Summary!Spec, Spec, Mail!Spec, Super!Spec,
         Catalog!Spec, Tenant!Spec, Export!Spec

\* The invariants of all of them.
ServicesInv ==
    /\ ChecksInv /\ ChatInv /\ SummaryInv /\ StorageInv /\ MailInv
    /\ SuperInv /\ CatalogInv /\ TenantInv /\ ExportInv

LEMMA AlwaysServices == SpecAll => []ServicesInv
<1>1. Checks!Spec => []ChecksInv
  BY ChecksInit, ChecksNext, PTL DEF Checks!Spec
<1>2. Chat!Spec => []ChatInv
  <2>1. ChatInv /\ [Chat!Next]_(Chat!vars) => ChatInv'
    BY ChatNext
  <2> QED
    BY <2>1, ChatInit, PTL DEF Chat!Spec
<1>3. Summary!Spec => []SummaryInv
  BY SummaryInit, SummaryNext, PTL DEF Summary!Spec
<1>4. Spec => []StorageInv
  BY StorageInit, StorageNext, PTL DEF Spec
<1>5. Mail!Spec => []MailInv
  BY MailInit, MailNext, PTL DEF Mail!Spec
<1>6. Super!Spec => []SuperInv
  BY SuperInit, SuperNext, PTL DEF Super!Spec
<1>7. Catalog!Spec => []CatalogInv
  <2>1. CatalogInv /\ [Catalog!Next]_(Catalog!vars) => CatalogInv'
    BY CatalogNext
  <2> QED
    BY <2>1, CatalogInit, PTL DEF Catalog!Spec
<1>8. Tenant!Spec => []TenantInv
  BY TenantInit, TenantNext, PTL DEF Tenant!Spec
<1>9. Export!Spec => []ExportInv
  BY ExportInit, ExportNext, PTL DEF Export!Spec
<1>10. (/\ ChecksInv /\ ChatInv /\ SummaryInv /\ StorageInv /\ MailInv
        /\ SuperInv /\ CatalogInv /\ TenantInv /\ ExportInv) => ServicesInv
  BY DEF ServicesInv
<1> QED
  BY SideBySide, <1>1, <1>2, <1>3, <1>4, <1>5, <1>6, <1>7, <1>8, <1>9, <1>10, PTL

(***************************************************************************)
(* The state of every service keeps its type.                              *)
(***************************************************************************)
THEOREM ServicesTyped == SpecAll => []AllTypeOK
<1>1. ServicesInv => AllTypeOK
  BY DEF ServicesInv, AllTypeOK, ChecksInv, ChatInv, SummaryInv, StorageInv, MailInv,
         SuperInv, CatalogInv, TenantInv, ExportInv
<1> QED
  BY AlwaysServices, <1>1, PTL

(***************************************************************************)
(* Over any number of days, restarts and checks that fail half-way, a day  *)
(* in DailyCheckLog is one on which everybody born on it was congratulated.*)
(***************************************************************************)
THEOREM LoggedDaysAreTold == SpecAll => []LoggedMeansTold
<1>1. ServicesInv => LoggedMeansTold
  BY DEF ServicesInv, ChecksInv, LoggedMeansTold
<1> QED
  BY AlwaysServices, <1>1, PTL

(***************************************************************************)
(* The interval the job is scheduled with is enough to congratulate nobody *)
(* twice on a day: a check that failed leaves no trace, but the next one   *)
(* begins on a later day.                                                  *)
(***************************************************************************)
THEOREM NobodyIsToldTwice == SpecAll => []CongratulatedOnce
<1>1. ServicesInv => CongratulatedOnce
  BY DEF ServicesInv, ChecksInv, CongratulatedOnce
<1> QED
  BY AlwaysServices, <1>1, PTL

(***************************************************************************)
(* However many backends fail, and after however many files, the URLs of   *)
(* an answered upload are those of all its files in one backend.           *)
(***************************************************************************)
THEOREM AnswersAreWhole == SpecAll => []AnswerIsWhole
<1>1. ServicesInv => AnswerIsWhole
  BY DEF ServicesInv, StorageInv, StorageAllWhole, StorageWhole, AnswerIsWhole
<1> QED
  BY AlwaysServices, <1>1, PTL

(***************************************************************************)
(* The listener keeps file_storages in step with the rows that name files. *)
(***************************************************************************)
THEOREM PicturesAreListed == SpecAll => []PictureIsListed
<1>1. ServicesInv => PictureIsListed
  BY DEF ServicesInv, StorageInv
<1> QED
  BY AlwaysServices, <1>1, PTL

(***************************************************************************)
(* An update that was answered is overwritten only by one that names the   *)
(* same column: for any number of requests that read the row before each   *)
(* other's commits, tenant_crud.py writes back no column it was not sent.  *)
(***************************************************************************)
THEOREM UpdatesAreKept == SpecAll => []AnsweredIsKept
<1>1. ServicesInv => AnsweredIsKept
  BY DEF ServicesInv, TenantInv, AnsweredIsKept
<1> QED
  BY AlwaysServices, <1>1, PTL

(***************************************************************************)
(* Whatever the record holds, and however high its entries and tables are, *)
(* the thresholds of the helpers keep every section above the margin and   *)
(* below what is on the page.                                              *)
(***************************************************************************)
THEOREM PagesAreLegible == SpecAll => []Legible
<1>1. ServicesInv => Legible
  BY DEF ServicesInv, ExportInv, Legible
<1> QED
  BY AlwaysServices, <1>1, PTL

(***************************************************************************)
(* Replays of any number of sockets, and messages that arrive between      *)
(* their sends, drop no waiting message that is fresh.                     *)
(***************************************************************************)
THEOREM FreshMessagesWait == SpecAll => KeptWhileFresh
<1>1. ChatInv /\ [Chat!Next]_(Chat!vars) => [ChatKept]_(Chat!vars)
  BY ChatNext
<1>2. ServicesInv => ChatInv
  BY DEF ServicesInv
<1> QED
  BY SideBySide, AlwaysServices, <1>1, <1>2, PTL
     DEF Chat!Spec, KeptWhileFresh, Chat!KeptWhileFresh, ChatKept

(***************************************************************************)
(* Whatever overlaps with a logout, no /refresh that looks the token up    *)
(* after the logout's commit finds it; one that found it before may still  *)
(* be answered.                                                            *)
(***************************************************************************)
THEOREM LogoutIsFinal == SpecAll => LoggedOutStaysOut
<1>1. SuperInv /\ [Super!Next]_(Super!vars) => \A r \in Requests :
                                (req[r].op = "idle" /\ req'[r].op = "found")
                                => req'[r].token \notin Super!Invalidated
  <2> SUFFICES ASSUME SuperInv, [Super!Next]_(Super!vars), NEW r \in Requests,
                      req[r].op = "idle", req'[r].op = "found"
               PROVE  req'[r].token \notin Super!Invalidated
    OBVIOUS
  <2>1. PICK t \in Tokens : Super!Refresh(r, t)
    <3>1. CASE Super!Seed \/ Super!Deactivate \/ UNCHANGED Super!vars
      BY <3>1 DEF Super!Seed, Super!Deactivate, Super!vars, Super!Idle
    <3>2. CASE \E k \in Links : Super!Login(k) \/ Super!LinkExpires(k)
      BY <3>2 DEF Super!Login, Super!LinkExpires
    <3>3. CASE \E u \in Tokens : Super!Expire(u)
      BY <3>3 DEF Super!Expire
    <3>4. ASSUME NEW q \in Requests,
                 Super!TokenCommit(q) \/ Super!RefreshAnswer(q)
                 \/ Super!LogoutCommit(q) \/ Super!LogoutAnswer(q)
                     \/ Super!Return(q)
          PROVE  FALSE
      BY <3>4 DEF SuperInv, Super!TypeOK, Super!TokenCommit, Super!RefreshAnswer,
         Super!LogoutCommit, Super!LogoutAnswer,
                  Super!Return, Super!Step
    <3>5. ASSUME NEW q \in Requests, NEW u \in Tokens, Super!TokenBegin(q, u) \/ Super!Logout(q, u)
          PROVE  FALSE
      BY <3>5 DEF SuperInv, Super!TypeOK, Super!TokenBegin, Super!Logout, Super!Step
    <3>6. ASSUME NEW q \in Requests, NEW u \in Tokens, Super!Refresh(q, u)
          PROVE  q = r
      BY <3>6 DEF SuperInv, Super!TypeOK, Super!Refresh, Super!Step
    <3> QED
      BY <3>1, <3>2, <3>3, <3>4, <3>5, <3>6 DEF Super!Next
  <2>2. t \in stored /\ req'[r].token = t
    BY <2>1 DEF Super!Refresh, Super!Lookup, Super!Step, SuperInv, Super!TypeOK
  <2> QED
    BY <2>2 DEF SuperInv, SuperApart, Super!Invalidated
<1>2. ServicesInv => SuperInv
  BY DEF ServicesInv
<1> QED
  BY SideBySide, AlwaysServices, <1>1, <1>2, PTL
     DEF Super!Spec, LoggedOutStaysOut, Super!LoggedOutStaysOut

(***************************************************************************)
(* A start of the server adds to data_banks what is missing by name, after *)
(* what is there, and changes no entry, for any list of default roles in   *)
(* which no name is there twice.                                           *)
(***************************************************************************)
THEOREM EditsAreKept == SpecAll => EditsSurvive
<1>1. CatalogInv /\ [Catalog!Next]_(Catalog!vars) => [CatalogEdits]_(Catalog!vars)
  BY CatalogNext
<1>2. ServicesInv => CatalogInv
  BY DEF ServicesInv
<1> QED
  BY SideBySide, AlwaysServices, <1>1, <1>2, PTL
     DEF Catalog!Spec, EditsSurvive, Catalog!EditsSurvive, CatalogEdits
=============================================================================
