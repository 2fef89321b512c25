---------------------------- MODULE MCDataInputs ----------------------------
(* Instances of DataInputs for TLC.                                        *)
EXTENDS DataInputs, TLC

CONSTANTS s1, s2, k1

\* An update by natural key, one by primary key, one with neither, a save.
UpdateByKey == [mode |-> "update", pk |-> 0, key |-> k1]
UpdateById == [mode |-> "update", pk |-> 1, key |-> NoKey]
Save == [mode |-> "save", pk |-> 0, key |-> k1]

UpdateAndSave == {UpdateByKey, Save}
AllPayloads == {UpdateByKey, UpdateById, Save}

OneSeed == <<[slot |-> s1, key |-> k1]>>

(***************************************************************************)
(* Two instances in one run.  With crew "all" every reviewer sends PATCHes *)
(* and the employee sends updates by key for one slot; with crew "one" a   *)
(* single reviewer does and the employee sends every form for s1, and for  *)
(* s2, which has no natural key, the one that needs it.                    *)
(***************************************************************************)
VARIABLE crew

Solo == CHOOSE t \in Threads : TRUE

\* A step of DeleteInput.
Withdraws == UNCHANGED patch /\ \E r \in Rows : Live(r) /\ ~Live(r)'

OneReviewer ==
    /\ \A t \in Threads \ {Solo} : UNCHANGED patch[t]
    /\ Withdraws => patch[Solo].pc = "idle"

FormsOfOne == create'.slot = s2 => create'.data = UpdateByKey

FormsOfAll == create'.slot \in {NoSlot, s1} /\ create'.data \in {NoData, UpdateByKey}

CrewNext ==
    /\ Next
    /\ UNCHANGED crew
    /\ crew = "one" => OneReviewer /\ FormsOfOne
    /\ crew = "all" => FormsOfAll

CrewInit == Init /\ crew \in {"one", "all"}

CrewSpec == CrewInit /\ [][CrewNext]_<<vars, crew>>

FairCrewSpec == CrewSpec /\ Fairness

(***************************************************************************)
(* One request changes the target tables at most once (`If we just         *)
(* transitioned into Approved', update_data_input), whatever is submitted  *)
(* meanwhile, fails or crashes, as long as one reviewer decides and        *)
(* deletes after the other.  With two at a time it does not hold.          *)
(***************************************************************************)
SerialAppliesOnce == crew = "one" => AppliedAtMostOnce
=============================================================================
