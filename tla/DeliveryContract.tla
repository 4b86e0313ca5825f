-------------------------- MODULE DeliveryContract --------------------------
(***************************************************************************)
(* What a publisher promises about the records given to it: Send accepts   *)
(* or rejects a record, an accepted record has one outcome, which never    *)
(* changes, the callback sees a failure before anyone else does, and Close *)
(* returns when every accepted record has its outcome.                     *)
(***************************************************************************)
CONSTANT Records

VARIABLES outcome,   \* per record: what its sender knows
          told,      \* records whose failure the callback has seen
          closing,   \* nothing more is accepted
          finished   \* a Close has returned

contractVars == <<outcome, told, closing, finished>>

Init ==
    /\ outcome  = [r \in Records |-> "unsent"]
    /\ told     = {}
    /\ closing  = FALSE
    /\ finished = FALSE

Reject(r) ==
    /\ outcome[r] = "unsent"
    /\ outcome' = [outcome EXCEPT ![r] = "rejected"]
    /\ UNCHANGED <<told, closing, finished>>

Accept(r) ==
    /\ outcome[r] = "unsent"
    /\ ~closing
    /\ outcome' = [outcome EXCEPT ![r] = "accepted"]
    /\ UNCHANGED <<told, closing, finished>>

Acknowledge(r) ==
    /\ outcome[r] = "accepted"
    /\ r \notin told
    /\ outcome' = [outcome EXCEPT ![r] = "acked"]
    /\ UNCHANGED <<told, closing, finished>>

Tell(r) ==
    /\ outcome[r] = "accepted"
    /\ r \notin told
    /\ told' = told \cup {r}
    /\ UNCHANGED <<outcome, closing, finished>>

Fail(r) ==
    /\ outcome[r] = "accepted"
    /\ r \in told
    /\ outcome' = [outcome EXCEPT ![r] = "failed"]
    /\ UNCHANGED <<told, closing, finished>>

BeginClose ==
    /\ closing' = TRUE
    /\ UNCHANGED <<outcome, told, finished>>

FinishClose ==
    /\ closing
    /\ \A r \in Records : outcome[r] # "accepted"
    /\ finished' = TRUE
    /\ UNCHANGED <<outcome, told, closing>>

Next ==
    \/ \E r \in Records : Reject(r) \/ Accept(r) \/ Acknowledge(r) \/ Tell(r) \/ Fail(r)
    \/ BeginClose
    \/ FinishClose

Spec == Init /\ [][Next]_contractVars

=============================================================================
