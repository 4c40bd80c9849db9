---------------------------- MODULE RangeReader ----------------------------
(***************************************************************************)
(* KafkaRangeReader.read of consumer/__init__.py: read-range and replay    *)
(* over the partitions of a Stream, page by page, and the cursors of       *)
(* cursor/__init__.py that chain the pages.                                *)
(*                                                                         *)
(* The actors are an application that reads a range and continues it with  *)
(* the cursor of the last page; the client library, which hands out the    *)
(* records of the assigned partitions; producers that append, retention    *)
(* that deletes, and an administrator who adds partitions or rotates the   *)
(* token keys.  ReadBegin is the part of read() up to consumer.assign;     *)
(* each turn of the polling loop is a step.                                *)
(*                                                                         *)
(* An Event is a pair <<partition, offset>>.  Record says what an offset   *)
(* holds, as in GroupConsumer; high is the last stable offset, which is    *)
(* what both get_watermark_offsets and the end-of-partition report show.   *)
(***************************************************************************)
EXTENDS Integers, FiniteSets, FiniteSetsExt

CONSTANTS
    Partitions,           \* partitions the topic may come to have
    InitialPartitions,    \* partitions it has at first
    MaxOffset,            \* bound on the length of every log
    LogEnd,               \* bound on the length of each partition's log
    Record,               \* kind of the record at each offset
    InitialHigh,          \* records in every log at first
    AutoOffsetReset,      \* binding option autoOffsetReset
    Limit,                \* limit of the command
    MaxCursorPartitions,  \* MAX_CURSOR_PARTITIONS
    TimeToLive,           \* ttl_ms of the cursor codec
    MaxClock,             \* bound on the clock
    MaxKey,               \* bound on key rotations
    Env                   \* behaviours a run admits

Offsets == 0 .. MaxOffset - 1
Positions == 0 .. MaxOffset
Events == Partitions \X Offsets

Environment ==
    { "start",           \* the application gives a start position
      "end",             \* ... an end position
      "foreign-token",   \* ... a token of another Stream
      "append", "retention", "partitions", "keys",
      "client-failure" } \* consumer.poll may raise or return an error

ASSUME RangeAssumption ==
    /\ InitialPartitions \subseteq Partitions
    /\ MaxOffset \in Nat
    /\ Record \in [Partitions -> [Offsets -> {"event", "malformed", "gap"}]]
    /\ LogEnd \in [Partitions -> Positions]
    /\ InitialHigh \in Positions
    /\ \A p \in InitialPartitions : InitialHigh <= LogEnd[p]
    /\ AutoOffsetReset \in {"earliest", "latest"}
    /\ Limit \in Nat \ {0}
    /\ MaxCursorPartitions \in Nat
    /\ TimeToLive \in Nat \ {0}
    /\ MaxClock \in Nat
    /\ MaxKey \in Nat \ {0}
    /\ Env \subseteq Environment

VARIABLES
    \* The broker, and time.
    present,     \* partitions of the topic
    high, low,   \* end and start of each partition's log
    clock,
    \* TokenCodec: the key ring, and the id of its active key.
    ring, active,
    \* read(): the local variables of the call in progress.
    pc,          \* "idle" or "polling"
    partitions, positions, ends, events,
    at,          \* the temporary consumer's fetch positions
    \* The application: the end bound of its range, and the last page.
    end, page,
    \* History of the chain of pages: where it began, the Events its pages
    \* hold, those that two pages hold, those read at or beyond the page's
    \* end (in this page, in the chain).
    origin, returned, repeated, beyond, dropped

broker  == <<present, high, low, clock>>
keys    == <<ring, active>>
reader  == <<pc, partitions, positions, ends, events, at, beyond>>
client  == <<end, page>>
history == <<origin, returned, repeated, dropped>>
vars    == <<broker, keys, reader, client, history>>

PartialPositions == UNION {[S -> Positions] : S \in SUBSET Partitions}

\* The payload of a cursor or a position, the key it was signed with, and
\* whether it names this Stream.
Token ==
    [positions : PartialPositions, key : 0 .. MaxKey, expires : Nat, here : BOOLEAN]

NoToken == [positions |-> [p \in {} |-> 0], key |-> 0, expires |-> 0, here |-> TRUE]

NoPage == [cursor |-> NoToken, truncated |-> FALSE]

TypeOK ==
    /\ present \subseteq Partitions
    /\ high \in [Partitions -> Positions]
    /\ low \in [Partitions -> Positions]
    /\ \A p \in Partitions : low[p] <= high[p]
    /\ clock \in Nat
    /\ ring \subseteq 1 .. MaxKey
    /\ active \in ring
    /\ pc \in {"idle", "polling"}
    /\ partitions \subseteq present
    /\ positions \in [Partitions -> Positions]
    /\ ends \in [Partitions -> Positions]
    /\ at \in [Partitions -> Positions]
    /\ events \subseteq Events
    /\ Cardinality(events) <= Limit
    /\ end \in Token
    /\ page \in [cursor : Token, truncated : BOOLEAN]
    /\ origin \in [Partitions -> Positions]
    /\ returned \subseteq Events
    /\ repeated \subseteq Events
    /\ beyond \subseteq Events
    /\ dropped \subseteq Events

Zero == [p \in Partitions |-> 0]

Init ==
    /\ present = InitialPartitions
    /\ high = [p \in Partitions |-> IF p \in InitialPartitions THEN InitialHigh ELSE 0]
    /\ low = Zero
    /\ clock = 0
    /\ ring = {1}
    /\ active = 1
    /\ pc = "idle"
    /\ partitions = {}
    /\ positions = Zero
    /\ ends = Zero
    /\ at = Zero
    /\ events = {}
    /\ end = NoToken
    /\ page = NoPage
    /\ origin = Zero
    /\ returned = {}
    /\ repeated = {}
    /\ beyond = {}
    /\ dropped = {}

-----------------------------------------------------------------------------
(* Tokens.                                                                 *)

\* encode_cursor and encode_position: signed with the active key.
Encode(ps) ==
    [positions |-> ps, key |-> active, expires |-> clock + TimeToLive, here |-> TRUE]

\* TokenCodec.decode: the signature is verified before the expiry.
TokenError(t) ==
    IF t.key \notin ring THEN {"InvalidCursor"}
    ELSE IF clock >= t.expires THEN {"CursorExpired"}
    ELSE {}

\* decode_cursor, decode_position: ... and the Stream it was made for last.
ScopeError(t) ==
    IF TokenError(t) = {} /\ ~t.here THEN {"InvalidCursor"} ELSE TokenError(t)

\* _decode_positions, of a bound that may be absent.  A cursor and a position
\* are read alike: what is not the one is tried as the other.
DecodeError(t) == IF t = NoToken THEN {} ELSE ScopeError(t)

\* positions.setdefault and ends.setdefault.
From(source) ==
    [p \in Partitions |->
        IF p \in DOMAIN source.positions THEN source.positions[p]
        ELSE IF p \in present THEN low[p] ELSE 0]

Until(bound) ==
    [p \in Partitions |->
        IF p \in DOMAIN bound.positions THEN bound.positions[p]
        ELSE IF p \in present THEN high[p] ELSE 0]

\* Mutant: a position at the end of the log is taken for one beyond it.
BoundErrorAtEnd(p, from, until) ==
    IF from[p] < low[p] THEN {"CursorExpired"}
    ELSE IF \/ from[p] >= high[p]
            \/ until[p] > high[p]
            \/ until[p] < from[p]
         THEN {"RetentionBoundaryExceeded"}
    ELSE {}

\* What is wrong with one partition's bounds.
BoundError(p, from, until) ==
    IF from[p] < low[p] THEN {"CursorExpired"}
    ELSE IF \/ from[p] > high[p]
            \/ until[p] > high[p]
            \/ until[p] < from[p]
         THEN {"RetentionBoundaryExceeded"}
    ELSE {}

\* _partition_ids finds partitions, and no more than a cursor may hold.
Readable == present # {} /\ Cardinality(present) <= MaxCursorPartitions

\* The exceptions read() may raise before it assigns the partitions; none
\* if it goes on.  The partitions are checked one after the other: any of
\* the wrong ones may be the first.
Refusals(source, bound) ==
    IF ~Readable
    THEN {"RetentionBoundaryExceeded"}
    ELSE IF DecodeError(source) # {} THEN DecodeError(source)
    ELSE IF DecodeError(bound) # {} THEN DecodeError(bound)
    ELSE LET wrong == UNION {BoundError(p, From(source), Until(bound)) : p \in present}
         IN  IF wrong = {} /\ ~(DOMAIN source.positions \cup DOMAIN bound.positions
                                   \subseteq present)
             THEN {"InvalidCursor"}
             ELSE wrong

-----------------------------------------------------------------------------
(* read(), up to consumer.assign.                                          *)

\* read() ends: its locals and the temporary consumer are gone.
Leave ==
    /\ pc' = "idle"
    /\ partitions' = {}
    /\ positions' = Zero
    /\ ends' = Zero
    /\ at' = Zero
    /\ events' = {}
    /\ beyond' = {}

\* source is the cursor of the last page, or the start of a new chain.
Read(source, bound) ==
    \/ /\ Refusals(source, bound) # {}
       /\ UNCHANGED reader
    \/ /\ Refusals(source, bound) = {}
       /\ pc' = "polling"
       /\ partitions' = present
       /\ positions' = From(source)
       /\ ends' = Until(bound)
       /\ at' = From(source)
       /\ events' = {}
       /\ beyond' = {}

\* Positions in the receipts of published Events: of this Stream, or of
\* another one.
Receipts ==
    {Encode([p \in {e[1]} |-> e[2]]) : e \in present \X Offsets}

Published(t) ==
    \E p \in DOMAIN t.positions :
        t.positions[p] < high[p] /\ Record[p][t.positions[p]] = "event"

Starts ==
    {NoToken}
        \cup {t \in Receipts : "start" \in Env /\ Published(t)}
        \cup {[t EXCEPT !.here = FALSE] : t \in {u \in Receipts : "foreign-token" \in Env}}

Bounds == {NoToken} \cup {t \in Receipts : "end" \in Env /\ Published(t)}

\* The application begins a new chain of pages.
ReadStart ==
    /\ pc = "idle"
    /\ \E source \in Starts, bound \in Bounds :
          /\ Read(source, bound)
          /\ end' = bound
          /\ origin' = From(source)
    /\ page' = NoPage
    /\ returned' = {}
    /\ repeated' = {}
    /\ dropped' = {}
    /\ UNCHANGED <<broker, keys>>

\* ... or goes on with the cursor of the last page and the same end.  A
\* partition added meanwhile joins the chain at the start of its log.
ReadNext ==
    /\ pc = "idle"
    /\ page # NoPage
    /\ Read(page.cursor, end)
    /\ origin' = [p \in Partitions |->
                     IF p \in DOMAIN page.cursor.positions THEN origin[p]
                     ELSE From(page.cursor)[p]]
    /\ UNCHANGED <<broker, keys, end, page, returned, repeated, dropped>>

-----------------------------------------------------------------------------
(* The polling loop.                                                       *)

\* positions[item] < ends[item] for some partition.
Left == \E p \in partitions : positions[p] < ends[p]

\* Mutant: the limit of the command is forgotten.
PollingWithoutLimit == pc = "polling" /\ Left

\* The condition of the while loop.
Polling == pc = "polling" /\ Cardinality(events) < Limit /\ Left

\* The next record the client library hands out; the client may have
\* fetched it before retention deleted it.
NextRecord(p, o) ==
    /\ o \in at[p] .. high[p] - 1
    /\ Record[p][o] # "gap"
    /\ \A i \in at[p] .. o - 1 : Record[p][i] = "gap"

\* Mutant: the position stays on the record instead of moving past it.
ConsumedAtOffset(p, o) ==
    /\ at' = [at EXCEPT ![p] = o + 1]
    /\ positions' = [positions EXCEPT ![p] = Max({@, o})]

Consumed(p, o) ==
    /\ at' = [at EXCEPT ![p] = o + 1]
    /\ positions' = [positions EXCEPT ![p] = Max({@, o + 1})]

\* A record below the end of the range is decoded and joins the page.
Collect ==
    /\ Polling
    /\ \E p \in partitions : \E o \in Offsets :
          /\ NextRecord(p, o)
          /\ o < ends[p]
          /\ Record[p][o] = "event"
          /\ Consumed(p, o)
          /\ events' = events \cup {<<p, o>>}
    /\ UNCHANGED <<broker, keys, client, history, pc, partitions, ends, beyond>>

\* A record at or beyond the end is left out, but the position moves past it.
PassBeyondEnd ==
    /\ Polling
    /\ \E p \in partitions : \E o \in Offsets :
          /\ NextRecord(p, o)
          /\ o >= ends[p]
          /\ Consumed(p, o)
          /\ beyond' = IF Record[p][o] = "event" THEN beyond \cup {<<p, o>>} ELSE beyond
    /\ UNCHANGED <<broker, keys, client, history, pc, partitions, ends, events>>

\* _decode_event refuses a record: the page is lost.
DecodeRaises ==
    /\ Polling
    /\ \E p \in partitions : \E o \in Offsets :
          NextRecord(p, o) /\ o < ends[p] /\ Record[p][o] = "malformed"
    /\ Leave
    /\ UNCHANGED <<broker, keys, end, page, history>>

\* The end-of-partition report.  It may be one the client queued before the
\* log grew, but every record below its offset has been handed out.
EndOfPartition ==
    /\ Polling
    /\ \E p \in partitions : \E o \in at[p] .. high[p] :
          /\ \A i \in at[p] .. o - 1 : Record[p][i] = "gap"
          /\ at' = [at EXCEPT ![p] = o]
          /\ positions' = [positions EXCEPT ![p] = Max({@, o})]
    /\ UNCHANGED <<broker, keys, client, history, pc, partitions, ends, events, beyond>>

\* Retention has overtaken the fetch position: auto.offset.reset decides.
OffsetOutOfRange ==
    /\ Polling
    /\ \E p \in partitions :
          /\ at[p] < low[p]
          /\ at' = [at EXCEPT ![p] = IF AutoOffsetReset = "earliest" THEN low[p] ELSE high[p]]
    /\ UNCHANGED <<broker, keys, client, history, pc, partitions, positions, ends, events, beyond>>

PollFails ==
    /\ "client-failure" \in Env
    /\ Polling
    /\ Leave
    /\ UNCHANGED <<broker, keys, end, page, history>>

\* Mutant: the cursor is made from the ends of the range.
ReadReturnsEnds ==
    /\ pc = "polling"
    /\ Leave
    /\ page' = [cursor |-> Encode([p \in partitions |-> ends[p]]), truncated |-> Left]
    /\ returned' = returned \cup events
    /\ repeated' = repeated \cup (returned \cap events)
    /\ dropped' = dropped \cup beyond
    /\ UNCHANGED <<broker, keys, end, origin>>

\* The page is returned: the range is exhausted, the limit reached, or the
\* deadline has passed.
ReadReturns ==
    /\ pc = "polling"
    /\ Leave
    /\ page' = [cursor    |-> Encode([p \in partitions |-> positions[p]]),
                truncated |-> Left]
    /\ returned' = returned \cup events
    /\ repeated' = repeated \cup (returned \cap events)
    /\ dropped' = dropped \cup beyond
    /\ UNCHANGED <<broker, keys, end, origin>>

-----------------------------------------------------------------------------
(* The environment.                                                        *)

Append ==
    /\ "append" \in Env
    /\ \E p \in present :
          /\ high[p] < LogEnd[p]
          /\ high' = [high EXCEPT ![p] = @ + 1]
    /\ UNCHANGED <<present, low, clock, keys, reader, client, history>>

Retention ==
    /\ "retention" \in Env
    /\ \E p \in present :
          /\ low[p] < high[p]
          /\ low' = [low EXCEPT ![p] = @ + 1]
    /\ UNCHANGED <<present, high, clock, keys, reader, client, history>>

AddPartition ==
    /\ "partitions" \in Env
    /\ \E p \in Partitions \ present : present' = present \cup {p}
    /\ UNCHANGED <<high, low, clock, keys, reader, client, history>>

\* A new active key; any of the previous ones may stay for verification.
RotateKeys ==
    /\ "keys" \in Env
    /\ active < MaxKey
    /\ active' = active + 1
    /\ \E previous \in SUBSET ring : ring' = previous \cup {active + 1}
    /\ UNCHANGED <<broker, reader, client, history>>

Tick ==
    /\ clock < MaxClock
    /\ clock' = clock + 1
    /\ UNCHANGED <<present, high, low, keys, reader, client, history>>

Next ==
    \/ ReadStart \/ ReadNext
    \/ Collect \/ PassBeyondEnd \/ DecodeRaises \/ EndOfPartition
    \/ OffsetOutOfRange \/ PollFails \/ ReadReturns
    \/ Append \/ Retention \/ AddPartition \/ RotateKeys \/ Tick

Spec == Init /\ [][Next]_vars

-----------------------------------------------------------------------------
(* Properties.                                                             *)

\* Where the chain stands: the position the call in progress has reached, or
\* the cursor of the last page.
Reached(p) ==
    IF pc = "polling" THEN positions[p]
    ELSE IF p \in DOMAIN page.cursor.positions THEN page.cursor.positions[p]
    ELSE origin[p]

\* The Events between the start of the chain and where it stands that are
\* still retained.
Behind ==
    {e \in Events : /\ Record[e[1]][e[2]] = "event"
                    /\ origin[e[1]] <= e[2]
                    /\ e[2] < Reached(e[1])
                    /\ low[e[1]] <= e[2]}

Held == IF pc = "polling" THEN returned \cup events ELSE returned
Passed == IF pc = "polling" THEN dropped \cup beyond ELSE dropped

\* An Event the cursors have moved past is in one of the pages, or lay at or
\* beyond the end that was fixed for the page that read it: no failed page,
\* end-of-partition report, reset or added partition loses one.
PagesCover == Behind \subseteq Held \cup Passed

\* The pages of a chain never return an Event twice, whichever of them timed
\* out, failed or stopped at the limit.
PagesNeverRepeat == repeated = {}

\* A cursor the reader hands out is one the reader accepts: without an end
\* bound, the next read is refused only for a token that expired or whose
\* key is gone, for records deleted since, or for too many partitions.
CursorsContinue ==
    /\ pc = "idle"
    /\ page # NoPage
    /\ end = NoToken
    /\ DecodeError(page.cursor) = {}
    /\ \A p \in DOMAIN page.cursor.positions : low[p] <= page.cursor.positions[p]
    /\ Readable
    => Refusals(page.cursor, end) = {}
=============================================================================
