---------------------------- MODULE MCSubscriber ----------------------------
(***************************************************************************)
(* Subscriber for TLC: members and partitions are model values and         *)
(* interchangeable, so the safety runs use symmetry; the liveness runs     *)
(* do not.                                                                 *)
(***************************************************************************)
EXTENDS Subscriber, TLC

Symmetry == Permutations(Members) \cup Permutations(Partitions)

=============================================================================
