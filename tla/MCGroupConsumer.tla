-------------------------- MODULE MCGroupConsumer --------------------------
(***************************************************************************)
(* Instances of GroupConsumer for TLC: the contents of the logs, and the   *)
(* symmetry of the partitions.                                             *)
(***************************************************************************)
EXTENDS GroupConsumer, TLC

\* Every record is an Event.
EventLog == [p \in Partitions |-> [o \in Offsets |-> "event"]]

\* The second offset holds a transaction marker.
MarkerLog ==
    [p \in Partitions |-> [o \in Offsets |-> IF o = 1 THEN "gap" ELSE "event"]]

\* An Event, an undecodable record, a marker, and Events again.
MixedLog ==
    [p \in Partitions |-> [o \in Offsets |->
        IF o = 1 THEN "malformed" ELSE IF o = 2 THEN "gap" ELSE "event"]]

PartitionSymmetry == Permutations(Partitions)
=============================================================================
