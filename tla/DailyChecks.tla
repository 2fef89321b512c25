----------------------------- MODULE DailyChecks -----------------------------
(***************************************************************************)
(* The scheduled check of birthdays and promotions                         *)
(* (Utils/daily_checks.py), the rule it evaluates                          *)
(* (Utils/promotion_evaluator.py) and the request an employee files when   *)
(* told that a promotion is due (Apis/promotions.py).  Days are counted;   *)
(* the server may stop and start at any time.                              *)
(***************************************************************************)
EXTENDS RecordsDomain, Integers, FiniteSets

CONSTANTS MaxDays, MaxRestarts, MaxFiled   \* bounds: days, restarts, filed requests

VARIABLES
    roster,   \* employee -> its record, as the check reads it
    day,      \* today
    fires,    \* the day on which the interval job fires next
    run,      \* the check being made
    logged,   \* DailyCheckLog: the days
    greeted,  \* <<employee, day>> -> birthday notifications stored
    unread,   \* employees with an unread notification of type promotion_due
    filed     \* rows of promotion_requests

VARIABLES restarts, skipped   \* history: restarts; <<organization, day>> a check left out

vars == <<roster, day, fires, run, logged, greeted, unread, filed, restarts, skipped>>

Days == 1..MaxDays
Idle == [busy |-> FALSE, at |-> None, left |-> {}, todo |-> {}]

(***************************************************************************)
(* evaluate_promotion_criteria.  Employee.employee_type is the related row,*)
(* never the name the criteria are keyed by, and no employee has a         *)
(* performance rating: rules by type and rules with a rating reject all.   *)
(***************************************************************************)
Eligible(rules, years) ==
    ~rules.by_type /\ ~rules.rating /\ years # None /\ years >= rules.years

Employee == [org : Orgs, birthday : Days \cup {None}, years : {1, None}, headed : BOOLEAN]

\* The policies that are active, the same for every organization.
Policies == {[by_type |-> FALSE, rating |-> FALSE, years |-> 1],
             [by_type |-> TRUE, rating |-> FALSE, years |-> 0]}

Of(o) == {e \in Staff : roster[e].org = o}
Born(o) == {e \in Of(o) : roster[e].birthday = day}

TypeOK ==
    /\ roster \in [Staff -> Employee]
    /\ day \in Days /\ fires \in 1..MaxDays + 1
    /\ run \in [busy : BOOLEAN, at : Orgs \cup {None}, left : SUBSET Orgs,
                todo : SUBSET (Staff \X Policies)]
    /\ logged \subseteq Days
    /\ greeted \in [Staff \X Days -> 0..MaxDays + MaxRestarts]
    /\ unread \subseteq Staff
    /\ filed \in 0..MaxFiled
    /\ restarts \in 0..MaxRestarts
    /\ skipped \subseteq Orgs \X Days

Init ==
    /\ roster \in [Staff -> Employee]
    /\ day = 1 /\ fires \in {1, 2}
    /\ run = Idle /\ logged = {} /\ restarts = 0
    /\ greeted = [x \in Staff \X Days |-> 0]
    /\ unread = {} /\ filed = 0
    /\ skipped = {}

(***************************************************************************)
(* daily_checks_wrapper: a day that is logged is left alone.  The next     *)
(* firing is set, a day later, when the job is submitted.  The check is of *)
(* the organizations that are active as it begins: any, since they are     *)
(* activated and deactivated at any time (toggle_active_status).           *)
(***************************************************************************)
Fire ==
    /\ fires = day /\ ~run.busy
    /\ fires' = day + 1
    /\ IF day \in logged
       THEN run' = Idle /\ UNCHANGED skipped
       ELSE \E active \in SUBSET Orgs :
              /\ run' = [Idle EXCEPT !.busy = TRUE, !.left = active]
              /\ skipped' = skipped \cup (Orgs \ active) \X {day}
    /\ UNCHANGED <<roster, day, logged, greeted, unread, filed, restarts>>

\* The next organization: first its policies, each for its active employees.
Take(o) ==
    /\ run.busy /\ run.at = None /\ o \in run.left
    /\ run' = [run EXCEPT !.at = o, !.left = @ \ {o}, !.todo = Of(o) \X Policies]
    /\ UNCHANGED <<roster, day, fires, logged, greeted, unread, filed, restarts, skipped>>

\* The next of them: told unless an unread notice exists; committed at once.
Promote ==
    /\ run.todo # {}
    /\ LET d == CHOOSE x \in run.todo : TRUE
       IN  /\ run' = [run EXCEPT !.todo = @ \ {d}]
           /\ unread' = IF Eligible(d[2], roster[d[1]].years) THEN unread \cup {d[1]}
                        ELSE unread
    /\ UNCHANGED <<roster, day, fires, logged, greeted, filed, restarts, skipped>>

(***************************************************************************)
(* The birthdays of an organization are committed together.  The head of   *)
(* the department is addressed by an employee's id in a column that        *)
(* references users: the commit fails and the exception ends the check.    *)
(***************************************************************************)
Storable == \A e \in Born(run.at) : ~roster[e].headed

Congratulated ==
    [x \in Staff \X Days |->
        IF x[1] \in Born(run.at) /\ x[2] = day THEN greeted[x] + 1 ELSE greeted[x]]

FailedSkipping == [run EXCEPT !.at = None]  \* a mutant: only the organization is given up

\* What an exception leaves of a check.
Failed == Idle

Birthdays ==
    /\ run.at # None /\ run.todo = {}
    /\ IF Storable
       THEN greeted' = Congratulated /\ run' = [run EXCEPT !.at = None]
       ELSE greeted' = greeted /\ run' = Failed
    /\ UNCHANGED <<roster, day, fires, logged, unread, filed, restarts, skipped>>

Log ==
    /\ run.busy /\ run.at = None /\ run.left = {}
    /\ logged' = logged \cup {day}
    /\ run' = Idle
    /\ UNCHANGED <<roster, day, fires, greeted, unread, filed, restarts, skipped>>

RescheduledNow == day        \* a mutant: the job fires at the start too

(***************************************************************************)
(* schedule_daily_checks at every start: the job is replaced, and an       *)
(* interval counts from the moment it is added.                            *)
(***************************************************************************)
Rescheduled == day + 1

Restart ==
    /\ restarts < MaxRestarts
    /\ restarts' = restarts + 1
    /\ run' = Idle
    /\ fires' = Rescheduled
    /\ UNCHANGED <<roster, day, logged, greeted, unread, filed, skipped>>

\* A check ends on the day it begins.
NextDay ==
    /\ day < MaxDays /\ fires > day /\ ~run.busy
    /\ day' = day + 1
    /\ UNCHANGED <<roster, fires, run, logged, greeted, unread, filed, restarts, skipped>>

\* update_notification: the employee marks the notice read.
Read(e) ==
    /\ e \in unread
    /\ unread' = unread \ {e}
    /\ UNCHANGED <<roster, day, fires, run, logged, greeted, filed, restarts, skipped>>

(***************************************************************************)
(* confirm_promotion_request, told or not, any number of times.  The row   *)
(* is committed first; the notice to the head of the department that       *)
(* follows cannot be stored, so the answer is an error when there is one.  *)
(***************************************************************************)
Confirm ==
    /\ filed < MaxFiled
    /\ filed' = filed + 1
    /\ UNCHANGED <<roster, day, fires, run, logged, greeted, unread, restarts, skipped>>

Next ==
    \/ Fire \/ Confirm \/ Promote \/ Birthdays \/ Log \/ Restart \/ NextDay
    \/ \E o \in Orgs : Take(o)
    \/ \E e \in Staff : Read(e)
    \/ day = MaxDays /\ UNCHANGED vars

Spec == Init /\ [][Next]_vars

-----------------------------------------------------------------------------
(***************************************************************************)
(* Properties                                                              *)
(***************************************************************************)

(***************************************************************************)
(* A day is logged only when everybody born on it was congratulated, in    *)
(* every organization that was active as the check of that day began       *)
(* (daily_checks.py:36), whatever was activated or deactivated since: a    *)
(* check that stopped half-way is not taken for one that was made.         *)
(***************************************************************************)
LoggedMeansTold ==
    \A d \in logged, e \in Staff :
        (roster[e].birthday = d /\ <<roster[e].org, d>> \notin skipped) => greeted[<<e, d>>] > 0

(***************************************************************************)
(* Nobody is congratulated twice on a day, whatever restarts and failures  *)
(* the check goes through: nothing records which organizations a check     *)
(* that failed had already committed, only the schedule keeps it from      *)
(* being made again on the same day.                                       *)
(***************************************************************************)
CongratulatedOnce == \A x \in Staff \X Days : greeted[x] <= 1

=============================================================================
