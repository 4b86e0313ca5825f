--------------------------- MODULE StrategyLease ---------------------------
(***************************************************************************)
(* What sharing a retry strategy between consumers comes to: at any time   *)
(* one of them at most holds it, and the next can have it when that one    *)
(* has let go.                                                             *)
(***************************************************************************)
CONSTANTS Calls, Strategies, Nobody

VARIABLE holder   \* who holds each strategy

Init == holder = [st \in Strategies |-> Nobody]

Acquire(s, st) ==
    /\ holder[st] = Nobody
    /\ holder' = [holder EXCEPT ![st] = s]

Release(s, st) ==
    /\ holder[st] = s
    /\ holder' = [holder EXCEPT ![st] = Nobody]

Next == \E s \in Calls, st \in Strategies : Acquire(s, st) \/ Release(s, st)

Spec == Init /\ [][Next]_holder

=============================================================================
