----------------------------- MODULE AtLeastOnce -----------------------------
(***************************************************************************)
(* What a consumer group promises its users: a message is dealt with (by   *)
(* the handler, or by the error strategy in its place) before the group's  *)
(* committed offset passes it, and a committed offset never goes back.     *)
(***************************************************************************)
EXTENDS Naturals

CONSTANTS Partitions, LogLen

VARIABLES resolved,   \* messages dealt with
          committed   \* committed offset of each partition

Message == [part : Partitions, off : 0 .. LogLen - 1]

\* Every message of p below offset o has been dealt with.
PrefixResolved(p, o) ==
    \A msg \in Message : msg.part = p /\ msg.off < o => msg \in resolved

Init ==
    /\ resolved  = {}
    /\ committed = [p \in Partitions |-> 0]

\* A message, or the rest of a batch, is dealt with.
Resolve ==
    /\ resolved \subseteq resolved'
    /\ resolved' \subseteq Message
    /\ UNCHANGED committed

\* Offsets are committed: forward, and over messages dealt with only.
Commit ==
    /\ committed' \in [Partitions -> 0 .. LogLen]
    /\ \A p \in Partitions : committed[p] <= committed'[p] /\ PrefixResolved(p, committed'[p])
    /\ UNCHANGED resolved

Spec == Init /\ [][Resolve \/ Commit]_<<resolved, committed>>

=============================================================================
