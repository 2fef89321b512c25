--------------------------- MODULE RequestLifecycle ---------------------------
(***************************************************************************)
(* What the change-request workflow promises about each request, whatever  *)
(* tables and transactions implement it.  A request is submitted once and  *)
(* decided any number of times while it is open.  A reviewer who finds it  *)
(* Approved takes it up and later applies it or gives it up; other         *)
(* reviewers may decide it anew or withdraw it meanwhile.  Once it is      *)
(* closed it stays closed.                                                 *)
(***************************************************************************)
CONSTANTS Requests, Reviewers

VARIABLES
    phase,   \* of each request
    claims   \* the reviewers who have taken it up

Open == {"Pending", "Approved", "Rejected"}
Phases == Open \cup {"unused", "Applied", "Withdrawn"}

TypeOK == /\ phase \in [Requests -> Phases]
          /\ claims \in [Requests -> SUBSET Reviewers]

NoClaims == [r \in Requests |-> {}]

Init == /\ phase = [r \in Requests |-> "unused"]
        /\ claims = NoClaims

Become(r, p) == phase' = [phase EXCEPT ![r] = p]

Submit(r) == phase[r] = "unused" /\ Become(r, "Pending") /\ UNCHANGED claims

Decide(r) == /\ phase[r] \in Open
             /\ \E p \in Open : Become(r, p)
             /\ UNCHANGED claims

Claim(r, v) == /\ phase[r] = "Approved"
               /\ claims' = [claims EXCEPT ![r] = @ \cup {v}]
               /\ UNCHANGED phase

GiveUp(r, v) == claims' = [claims EXCEPT ![r] = @ \ {v}]

Apply(r, v) == v \in claims[r] /\ GiveUp(r, v) /\ Become(r, "Applied")

Drop(r, v) == v \in claims[r] /\ GiveUp(r, v) /\ UNCHANGED phase

DropAll == claims' = NoClaims /\ UNCHANGED phase

Withdraw(r) == phase[r] \in Open /\ Become(r, "Withdrawn") /\ UNCHANGED claims

Next ==
    \/ \E r \in Requests : Submit(r) \/ Decide(r) \/ Withdraw(r)
    \/ \E r \in Requests, v \in Reviewers : Claim(r, v) \/ Apply(r, v) \/ Drop(r, v)
    \/ DropAll

Spec == Init /\ [][Next]_<<phase, claims>>
=============================================================================
