-------------------------- MODULE MCRetryStrategy --------------------------
(***************************************************************************)
(* RetryStrategy for TLC: two calls on one subscriber, and one on another  *)
(* that was given the same strategy.                                       *)
(***************************************************************************)
EXTENDS RetryStrategy

CONSTANTS s1, s2, s3, A, B, r

TwoOnOne == [s \in Calls |-> IF s = s3 THEN B ELSE A]
Shared   == [u \in Subscribers |-> r]

=============================================================================
