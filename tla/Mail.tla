--------------------------------- MODULE Mail ---------------------------------
(***************************************************************************)
(* The mail that follows a sign-up (Apis/main.py, after the organization   *)
(* is committed): the tenant's own server when it is configured            *)
(* (Service/custom_email_service.py, custom_email_provider.py), else, or   *)
(* after any error, the default one as a background task that is retried   *)
(* (Service/email_service.py).  The tenant's server is called in the       *)
(* handler, which runs on the event loop: until the call returns, nothing  *)
(* else does.                                                              *)
(***************************************************************************)
EXTENDS RecordsDomain, Integers

CONSTANT MaxAttempts   \* EMAIL_RETRY_ATTEMPTS

VARIABLES
    tenant,    \* the settings of the organizations: the provider, or that there is none
    mail,      \* request -> where its mail is
    tries,     \* request -> attempts of the background task
    arrived    \* request -> copies the recipient has

vars == <<tenant, mail, tries, arrived>>

Where == {"none", "testing", "sending", "waiting", "queued", "sent", "logged", "lost"}
Usable == {"smtp", "sendgrid"}
Settings == {"absent", "unusable"} \cup Usable

\* Where the handler is in a call to the tenant's server.
Calling == {"testing", "sending"}
Ends == {"sent", "logged", "lost"}

TypeOK ==
    /\ tenant \in Settings
    /\ mail \in [Requests -> Where]
    /\ tries \in [Requests -> 0..MaxAttempts]
    /\ arrived \in [Requests -> 0..MaxAttempts + 1]

Init ==
    /\ tenant \in Settings
    /\ mail = [r \in Requests |-> "none"]
    /\ tries = [r \in Requests |-> 0]
    /\ arrived = [r \in Requests |-> 0]

Move(r, w) == mail' = [mail EXCEPT ![r] = w]

\* A mutant: without settings nothing is scheduled.
ChosenIfAny == CASE tenant \in Usable -> "testing" [] tenant = "unusable" -> "waiting" [] OTHER -> "none"

\* Settings that do not parse, or name another provider, raise in the constructor.
Chosen == IF tenant \in Usable THEN "testing" ELSE "waiting"

\* The event loop is not in the call of another request.
Free(r) == \A q \in Requests \ {r} : mail[q] \notin Calling

Start(r) ==
    /\ mail[r] = "none" /\ Free(r)
    /\ Move(r, Chosen)
    /\ UNCHANGED <<tenant, tries, arrived>>

\* test_connection logs in on a connection of its own.
Test(r) ==
    /\ mail[r] = "testing"
    /\ \E w \in {"sending", "waiting"} : Move(r, w)
    /\ UNCHANGED <<tenant, tries, arrived>>

\* What a server does with a mail: takes it; refuses it; takes it and fails to say so.
Taken == {[copies |-> 1, ok |-> TRUE], [copies |-> 0, ok |-> FALSE], [copies |-> 1, ok |-> FALSE]}

Send(r) ==
    /\ mail[r] = "sending"
    /\ \E t \in Taken :
           /\ arrived' = [arrived EXCEPT ![r] = @ + t.copies]
           /\ Move(r, IF t.ok THEN "sent" ELSE "waiting")
    /\ UNCHANGED <<tenant, tries>>

\* The request is answered: only then do its background tasks run.
Queue(r) ==
    /\ mail[r] = "waiting" /\ Free(r)
    /\ Move(r, "queued")
    /\ UNCHANGED <<tenant, tries, arrived>>

\* A mutant: one attempt too many.
GivesUpAfter(r) == tries[r] = MaxAttempts

\* The attempt being made is the last one.
GivesUp(r) == tries[r] + 1 = MaxAttempts

Attempt(r) ==
    /\ mail[r] = "queued" /\ Free(r)
    /\ tries' = [tries EXCEPT ![r] = @ + 1]
    /\ \E t \in Taken :
           /\ arrived' = [arrived EXCEPT ![r] = @ + t.copies]
           /\ mail' = [mail EXCEPT ![r] =
                  IF t.ok THEN "sent" ELSE IF GivesUp(r) THEN "logged" ELSE @]
    /\ UNCHANGED tenant

\* Background tasks are in memory: a server that stops takes them with it.
Stop ==
    /\ mail' = [r \in Requests |->
           IF mail[r] \in {"testing", "sending", "waiting", "queued"} THEN "lost" ELSE mail[r]]
    /\ UNCHANGED <<tenant, tries, arrived>>

Work(r) == Start(r) \/ Test(r) \/ Send(r) \/ Queue(r) \/ Attempt(r)

Over == \A r \in Requests : mail[r] \in Ends
Ended == Over /\ UNCHANGED vars

Next == (\E r \in Requests : Work(r)) \/ Stop \/ Ended

(***************************************************************************)
(* An attempt ends: SMTPProvider connects with a timeout of 60 seconds, as *)
(* the default server's client does.  SendGridProvider gives its client    *)
(* none, so a call to it may never return.                                 *)
(***************************************************************************)
Returns(r) == tenant = "smtp" \/ mail[r] \notin Calling

Fairness == \A r \in Requests : WF_vars(Returns(r) /\ Work(r))

Spec == Init /\ [][Next]_vars
FairSpec == Spec /\ Fairness

-----------------------------------------------------------------------------
(***************************************************************************)
(* Properties                                                              *)
(***************************************************************************)

(***************************************************************************)
(* Every mail comes to an end, whichever servers fail and how often: only  *)
(* a call to SendGrid that hangs, and the event loop with it, keeps one    *)
(* from it (custom_email_provider.py:76-107 sets no timeout).              *)
(***************************************************************************)
MailEnds ==
    \/ \A r \in Requests : <>(mail[r] \in Ends)
    \/ tenant = "sendgrid" /\ <>[](\E r \in Requests : mail[r] \in Calling)
=============================================================================
