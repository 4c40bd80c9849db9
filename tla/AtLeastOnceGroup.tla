-------------------------- MODULE AtLeastOnceGroup --------------------------
(***************************************************************************)
(* What a ConsumerGroup promises its application, without tokens, leases,  *)
(* rebalances or failures: Events are delivered, possibly again; a         *)
(* delivered Event is processed; the committed offset is moved only over   *)
(* processed Events, within the log, or by a deliberate change of position,*)
(* which says what is to be processed from now on.                         *)
(***************************************************************************)
EXTENDS Integers

CONSTANTS
    Partitions, MaxOffset,
    Record,         \* kind of the record at each offset of each partition
    InitialHigh

VARIABLES high, committed, delivered, processed

vars == <<high, committed, delivered, processed>>

Offsets == 0 .. MaxOffset - 1

Init ==
    /\ high = [p \in Partitions |-> InitialHigh]
    /\ committed = [p \in Partitions |-> -1]
    /\ delivered = [p \in Partitions |-> {}]
    /\ processed = [p \in Partitions |-> {}]

Append(p) ==
    /\ high[p] < MaxOffset
    /\ high' = [high EXCEPT ![p] = @ + 1]
    /\ UNCHANGED <<committed, delivered, processed>>

\* The first delivery of an Event; a redelivery changes nothing.
Deliver(p, o) ==
    /\ o < high[p]
    /\ Record[p][o] = "event"
    /\ delivered' = [delivered EXCEPT ![p] = @ \cup {o}]
    /\ UNCHANGED <<high, committed, processed>>

\* The group's offset may follow what has been processed.
MayCommit(p) ==
    \/ UNCHANGED committed
    \/ \E n \in 0 .. MaxOffset :
            /\ n <= high[p]
            /\ \A o \in Offsets : o < n /\ Record[p][o] = "event" => o \in processed'[p]
            /\ committed' = [committed EXCEPT ![p] = n]

Process(p, o) ==
    /\ o \in delivered[p]
    /\ processed' = [processed EXCEPT ![p] = @ \cup {o}]
    /\ MayCommit(p)
    /\ UNCHANGED <<high, delivered>>

Commit(p) ==
    /\ UNCHANGED <<high, delivered, processed>>
    /\ MayCommit(p)

\* Another member has processed what lies below n.
OthersProcess(p, n) ==
    /\ n <= high[p]
    /\ committed' = [committed EXCEPT ![p] = n]
    /\ processed' = [processed EXCEPT ![p] = @ \cup 0 .. n - 1]
    /\ UNCHANGED <<high, delivered>>

\* The position of the group is changed: what lies above is to be processed.  An
\* application that is told of a failure cannot rely on that.
Reposition(S, target) ==
    /\ \A p \in S : target[p] <= high[p]
    /\ committed' = [p \in Partitions |-> IF p \in S THEN target[p] ELSE committed[p]]
    /\ \/ processed' = [p \in Partitions |->
                IF p \in S THEN 0 .. target[p] - 1 ELSE processed[p]]
       \/ processed' = [p \in Partitions |->
                IF p \in S THEN processed[p] \cup 0 .. target[p] - 1 ELSE processed[p]]
    /\ UNCHANGED <<high, delivered>>

\* A group without a commit may be configured to begin at the end of a partition.
BeginAtEnd(S) ==
    /\ \A p \in S : committed[p] = -1
    /\ processed' = [p \in Partitions |->
            IF p \in S THEN processed[p] \cup ((0 .. high[p] - 1) \ delivered[p])
            ELSE processed[p]]
    /\ UNCHANGED <<high, committed, delivered>>

Next ==
    \/ \E p \in Partitions : Append(p) \/ Commit(p)
    \/ \E p \in Partitions, o \in Offsets : Deliver(p, o) \/ Process(p, o)
    \/ \E p \in Partitions, n \in 0 .. MaxOffset : OthersProcess(p, n)
    \/ \E S \in SUBSET Partitions :
            \/ BeginAtEnd(S)
            \/ \E target \in [Partitions -> 0 .. MaxOffset] : Reposition(S, target)

Spec == Init /\ [][Next]_vars
=============================================================================
