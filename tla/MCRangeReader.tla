--------------------------- MODULE MCRangeReader ---------------------------
(***************************************************************************)
(* Instances of RangeReader for TLC: the contents of the logs.             *)
(***************************************************************************)
EXTENDS RangeReader

CONSTANTS p1, p2

\* One partition holds an Event; the other an Event, a transaction marker,
\* an Event and an undecodable record.
MixedLog ==
    [p \in Partitions |-> [o \in Offsets |->
        IF p = p1 \/ o \in {0, 2} THEN "event" ELSE IF o = 1 THEN "gap" ELSE "malformed"]]

MixedLogEnd == [p \in Partitions |-> IF p = p1 THEN 1 ELSE MaxOffset]

\* Every record is an Event.
EventLog == [p \in Partitions |-> [o \in Offsets |-> "event"]]

FullLogEnd == [p \in Partitions |-> MaxOffset]
=============================================================================
