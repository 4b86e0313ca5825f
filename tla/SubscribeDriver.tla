--------------------------- MODULE SubscribeDriver ---------------------------
(***************************************************************************)
(* The Kafka consumer behind a subscriber (internal/subscribe/             *)
(* subscribedriver/consumer.go) together with the two things it drives:    *)
(* librdkafka's client state, kept per member, and the group coordinator,  *)
(* which is external.                                                      *)
(*                                                                         *)
(* A member is one Subscriber value: it is single-use, so a restart of the *)
(* process is another member.  The log of every partition is fixed and     *)
(* holds the offsets 0 .. LogLen - 1; a committed offset is the next       *)
(* offset to read.                                                         *)
(***************************************************************************)
EXTENDS Naturals

CONSTANTS Members,          \* subscribers of one consumer group
          Partitions,       \* partitions of the topic
          LogLen,           \* messages in each partition
          AutoCommitEvery,  \* WithAutoCommitEvery in microseconds, 0 when unset
          MaxFaults,        \* bound on crashes, evictions and failed calls
          Nobody            \* owner of a partition no member holds

ASSUME DriverAssumption ==
    /\ LogLen \in Nat
    /\ AutoCommitEvery \in Nat
    /\ MaxFaults \in Nat
    /\ Nobody \notin Members

VARIABLES
    committed,    \* coordinator: committed offset of each partition
    owner,        \* coordinator: the member given each partition last
    rebalancing,  \* coordinator: a new generation is due
    membership,   \* standing of each member, see Standings
    assigned,     \* client: partitions passed to Assign
    position,     \* client: next offset Poll returns, per partition
    stored,       \* client: offset store, 0 where nothing is stored
    faults        \* faults injected so far

groupVars  == <<committed, owner, rebalancing, membership>>
clientVars == <<assigned, position, stored>>
driverVars == <<groupVars, clientVars, faults>>

Offsets  == 0 .. LogLen
Messages == [part : Partitions, off : 0 .. LogLen - 1]

(***************************************************************************)
(* "out": no group member; "joining": has asked to join and holds nothing; *)
(* "awaiting": in the current generation, its assignment not delivered by  *)
(* Poll yet; "active": has called Assign; "lost": put out of the group     *)
(* while still holding what it was assigned, and not told yet.             *)
(***************************************************************************)
Standings == {"out", "joining", "awaiting", "active", "lost"}

Fault   == faults < MaxFaults /\ faults' = faults + 1
NoFault == UNCHANGED faults

(***************************************************************************)
(* New: the interval that turns the background committer on, and the whole *)
(* milliseconds librdkafka is given.                                       *)
(***************************************************************************)
autoCommit == AutoCommitEvery > 0

\* Mutant of intervalMs: the interval is taken in minutes.
intervalInMinutes == AutoCommitEvery \div 60000000

intervalMs == AutoCommitEvery \div 1000

DriverInit ==
    /\ committed   = [p \in Partitions |-> 0]
    /\ owner       = [p \in Partitions |-> Nobody]
    /\ rebalancing = FALSE
    /\ membership  = [m \in Members |-> "out"]
    /\ assigned    = [m \in Members |-> {}]
    /\ position    = [m \in Members |-> [p \in Partitions |-> 0]]
    /\ stored      = [m \in Members |-> [p \in Partitions |-> 0]]
    /\ faults      = 0

-----------------------------------------------------------------------------
(***************************************************************************)
(* The store and the commits.                                              *)
(***************************************************************************)

\* Mutant of StoreOffset: one is added twice.
StoreOffsetPlusTwo(m, p, o) ==
    /\ p \in assigned[m]
    /\ stored' = [stored EXCEPT ![m][p] = o + 2]

\* StoreOffset after librdkafka accepted it: the resume position, offset + 1.
StoreOffset(m, p, o) ==
    /\ p \in assigned[m]
    /\ stored' = [stored EXCEPT ![m][p] = o + 1]

\* StoreOffset answered with ErrState, classified as ErrPartitionRevoked: the
\* member has lost the partition and has not run its revoke callback yet.
ErrPartitionRevoked(m) == membership[m] = "lost"

\* The committed offsets once what m has stored is published.
Published(m) ==
    [p \in Partitions |->
        IF p \in assigned[m] /\ stored[m][p] > 0 THEN stored[m][p] ELSE committed[p]]

\* CommitStored always commits; the coordinator takes offsets only from a
\* member of the current generation, and the call can fail.  An empty store
\* (ErrNoOffset) changes nothing.  Every caller only logs an error.
CommitStored(m) ==
    \/ /\ membership[m] = "active"
       /\ committed' = Published(m)
       /\ NoFault
    \/ /\ membership[m] = "active"
       /\ Published(m) # committed
       /\ Fault
       /\ UNCHANGED committed
    \/ /\ membership[m] # "active"
       /\ NoFault
       /\ UNCHANGED committed

\* Mutant of MaybeCommitStored: the test of autoCommit is inverted.
MaybeCommitInverted(m) ==
    IF ~autoCommit THEN UNCHANGED <<committed, faults>> ELSE CommitStored(m)

\* MaybeCommitStored leaves the timing to the background committer, if any.
MaybeCommitStored(m) ==
    IF autoCommit THEN UNCHANGED <<committed, faults>> ELSE CommitStored(m)

\* librdkafka's background committer, which an interval of 0 ms disables.
AutoCommit(m) ==
    /\ autoCommit
    /\ intervalMs > 0
    /\ Published(m) # committed
    /\ membership[m] = "active"
    /\ CommitStored(m)
    /\ UNCHANGED <<owner, rebalancing, membership, clientVars>>

-----------------------------------------------------------------------------
(***************************************************************************)
(* Rebalancing.  The callback runs inside Poll, or inside Close.           *)
(***************************************************************************)

\* Unassign: librdkafka forgets the assignment, its positions and its store.
Unassign(m) ==
    /\ assigned' = [assigned EXCEPT ![m] = {}]
    /\ position' = [position EXCEPT ![m] = [p \in Partitions |-> 0]]
    /\ stored'   = [stored   EXCEPT ![m] = [p \in Partitions |-> 0]]

\* SubscribeToTopic: the member asks to join the group.
SubscribeToTopic(m) ==
    /\ membership'  = [membership EXCEPT ![m] = "joining"]
    /\ rebalancing' = TRUE
    /\ UNCHANGED <<committed, owner, clientVars>>

\* rebalanceCallback, AssignedPartitions: Assign starts every partition at its
\* committed offset (at the earliest one where nothing is committed).
AssignedPartitions(m) ==
    /\ membership[m] = "awaiting"
    /\ membership' = [membership EXCEPT ![m] = "active"]
    /\ assigned'   = [assigned EXCEPT ![m] = {p \in Partitions : owner[p] = m}]
    /\ position'   = [position EXCEPT ![m] = committed]
    /\ UNCHANGED <<committed, owner, rebalancing, stored>>
    /\ NoFault

\* Mutant of RevokedPartitions: Unassign is not called.
RevokedStaysAssigned(m) ==
    /\ membership[m] = "lost" \/ (membership[m] = "active" /\ rebalancing)
    /\ CommitStored(m)
    /\ membership'  = [membership EXCEPT ![m] = "joining"]
    /\ rebalancing' = TRUE
    /\ UNCHANGED <<owner, clientVars>>

\* Mutant of RevokedPartitions: nothing is committed.
RevokedUncommitted(m) ==
    /\ membership[m] = "lost" \/ (membership[m] = "active" /\ rebalancing)
    /\ Unassign(m)
    /\ membership'  = [membership EXCEPT ![m] = "joining"]
    /\ rebalancing' = TRUE
    /\ UNCHANGED <<owner, committed, faults>>

\* rebalanceCallback, RevokedPartitions: CommitStored, then Unassign of every
\* partition.  The member asks to join again as the callback returns.
RevokedPartitions(m) ==
    /\ membership[m] = "lost" \/ (membership[m] = "active" /\ rebalancing)
    /\ CommitStored(m)
    /\ Unassign(m)
    /\ membership'  = [membership EXCEPT ![m] = "joining"]
    /\ rebalancing' = TRUE
    /\ UNCHANGED owner

\* Mutant of Close: the member never leaves the group.
CloseWithoutLeaving(m) ==
    /\ CommitStored(m)
    /\ UNCHANGED <<clientVars, membership, rebalancing, owner>>

\* Close: a last revoke callback for a member that holds partitions, then it
\* leaves the group.
Close(m) ==
    /\ CommitStored(m)
    /\ Unassign(m)
    /\ membership'  = [membership EXCEPT ![m] = "out"]
    /\ rebalancing' = (rebalancing \/ membership[m] # "out")
    /\ UNCHANGED owner

\* Poll hands out the next message of an assigned partition.
PollMessage(m, msg) ==
    /\ membership[m] \in {"active", "lost"}
    /\ msg.part \in assigned[m]
    /\ msg.off = position[m][msg.part]
    /\ position' = [position EXCEPT ![m][msg.part] = @ + 1]
    /\ UNCHANGED <<groupVars, assigned, stored>>
    /\ NoFault

-----------------------------------------------------------------------------
(***************************************************************************)
(* The group coordinator (external).                                       *)
(***************************************************************************)

\* Every member has given its partitions back (eager protocol): the next
\* generation spreads the partitions over the members waiting for one.
CompleteRebalance ==
    /\ rebalancing
    /\ \A m \in Members : membership[m] \notin {"active", "awaiting"}
    /\ \E m \in Members : membership[m] = "joining"
    /\ owner' \in [Partitions -> {m \in Members : membership[m] = "joining"}]
    /\ membership' = [m \in Members |->
                         IF membership[m] = "joining" THEN "awaiting" ELSE membership[m]]
    /\ rebalancing' = FALSE
    /\ UNCHANGED <<committed, clientVars>>
    /\ NoFault

\* A member that did not poll within max.poll.interval.ms, or whose session
\* timed out, is put out of the group; it finds out at a later Poll.
Evict(m) ==
    /\ membership[m] = "active"
    /\ Fault
    /\ membership'  = [membership EXCEPT ![m] = "lost"]
    /\ rebalancing' = TRUE
    /\ UNCHANGED <<committed, owner, clientVars>>

\* The process dies: its client state is gone, and the coordinator drops it.
Die(m) ==
    /\ Fault
    /\ Unassign(m)
    /\ membership'  = [membership EXCEPT ![m] = "out"]
    /\ rebalancing' = (rebalancing \/ membership[m] # "out")
    /\ UNCHANGED <<committed, owner>>

-----------------------------------------------------------------------------
DriverTypeOK ==
    /\ committed   \in [Partitions -> Offsets]
    /\ owner       \in [Partitions -> Members \cup {Nobody}]
    /\ rebalancing \in BOOLEAN
    /\ membership  \in [Members -> Standings]
    /\ assigned    \in [Members -> SUBSET Partitions]
    /\ position    \in [Members -> [Partitions -> Offsets]]
    /\ stored      \in [Members -> [Partitions -> Offsets]]
    /\ faults      \in 0 .. MaxFaults

=============================================================================
