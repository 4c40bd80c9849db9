------------------------- MODULE RangeReaderProofs -------------------------
(***************************************************************************)
(* Proofs about RangeReader, for every topic, every log, every limit and   *)
(* every sequence of failures, key rotations and deletions.                *)
(***************************************************************************)
EXTENDS RangeReader, FiniteSetTheorems, TLAPS

USE DEF vars, broker, keys, reader, client, history

-----------------------------------------------------------------------------
(* The inductive invariants.                                               *)

\* Why TypeOK holds: the number of Events in a page is that of a finite set.
TypeInv == TypeOK /\ IsFiniteSet(events)

\* The positions the last page's cursor holds.
Cursor == page.cursor.positions

\* Why PagesNeverRepeat and CursorsContinue hold: a cursor lies within the log; the
\* Events of earlier pages lie below it, those of the page being read at or above it;
\* the client's fetch position is never behind the position the cursor will hold.
CursorWithinLog ==
    \A p \in DOMAIN Cursor : p \in present /\ Cursor[p] <= high[p]

ReturnedBehindCursor ==
    \A e \in returned : e[1] \in DOMAIN Cursor /\ e[2] < Cursor[e[1]]

PollingAhead ==
    pc = "polling" =>
        /\ DOMAIN Cursor \subseteq partitions
        /\ \A p \in DOMAIN Cursor : Cursor[p] <= positions[p]
        /\ \A p \in partitions : positions[p] <= at[p] /\ at[p] <= high[p]
        /\ \A e \in events : /\ e[1] \in partitions /\ e[2] < positions[e[1]]
                             /\ e[1] \in DOMAIN Cursor => Cursor[e[1]] <= e[2]

ChainInv ==
    /\ PagesNeverRepeat
    /\ CursorWithinLog
    /\ ReturnedBehindCursor
    /\ PollingAhead
    /\ pc = "idle" => events = {}

\* Why PagesCover holds: the cursor covers what lies behind it, so a page that fails
\* loses nothing; the positions cover what lies behind them; and what the fetch
\* position has skipped was deleted.
Due(e) == Record[e[1]][e[2]] = "event" /\ origin[e[1]] <= e[2] /\ low[e[1]] <= e[2]

CursorCovers ==
    \A e \in Events : /\ Due(e)
                      /\ e[1] \in DOMAIN Cursor /\ e[2] < Cursor[e[1]]
                      => e \in returned \cup dropped

PositionsCover ==
    pc = "polling" => \A e \in Events :
        Due(e) /\ e[2] < positions[e[1]]
            => e \in returned \cup events \cup dropped \cup beyond

SkippedIsDeleted ==
    pc = "polling" => \A p \in partitions :
        \A o \in positions[p] .. at[p] - 1 : o < low[p]

CoverInv == CursorCovers /\ PositionsCover /\ SkippedIsDeleted

-----------------------------------------------------------------------------
(* The operators the model is built from.                                  *)

\* Offsets and positions are natural numbers.
LEMMA OffsetFacts ==
    /\ Offsets \subseteq Nat /\ Positions \subseteq Nat
    /\ Offsets \subseteq Positions /\ 0 \in Positions
    /\ \A o \in Offsets : o + 1 \in Positions
    /\ \A p \in Positions, q \in Nat : q <= p => q \in Positions
  BY RangeAssumption DEF Offsets, Positions

\* The position moves forward, to the record just read.
LEMMA MaxFacts ==
    ASSUME NEW a \in Int, NEW b \in Int
    PROVE  /\ Max({a, b}) \in {a, b}
           /\ Max({a, b}) >= a /\ Max({a, b}) >= b
           /\ a <= b => Max({a, b}) = b
<1>1. \E x \in {a, b} : \A y \in {a, b} : x >= y
  <2>1. CASE a <= b
    BY <2>1
  <2>2. CASE ~(a <= b)
    BY <2>2
  <2> QED
    BY <2>1, <2>2
<1>2. Max({a, b}) \in {a, b} /\ \A y \in {a, b} : Max({a, b}) >= y
  BY <1>1 DEF Max
<1> QED
  BY <1>2

\* A cursor's positions are positions of partitions the topic may have.
LEMMA PartialFacts ==
    /\ \A f \in PartialPositions : /\ DOMAIN f \subseteq Partitions
                                   /\ \A p \in DOMAIN f : f[p] \in Positions
    /\ \A S \in SUBSET Partitions : [S -> Positions] \subseteq PartialPositions
  BY DEF PartialPositions

\* The absent token is a token; it names no partition.
LEMMA NoTokenFacts ==
    /\ NoToken \in Token
    /\ DOMAIN NoToken.positions = {}
<1>1. [p \in {} |-> 0] \in [{} -> Positions]
  OBVIOUS
<1>2. [p \in {} |-> 0] \in PartialPositions
  BY <1>1, PartialFacts
<1>3. 0 \in 0 .. MaxKey /\ 0 \in Nat
  BY RangeAssumption
<1>4. NoToken \in Token
  BY <1>2, <1>3 DEF NoToken, Token
<1>5. NoToken.positions = [p \in {} |-> 0]
  BY DEF NoToken
<1> QED
  BY <1>4, <1>5

\* What the reader signs is a token.
LEMMA EncodeType ==
    ASSUME TypeOK, NEW S \in SUBSET Partitions, NEW ps \in [S -> Positions]
    PROVE  Encode(ps) \in Token /\ Encode(ps).positions = ps
<1>1. ps \in PartialPositions
  BY PartialFacts
<1>2. active \in 0 .. MaxKey
  BY RangeAssumption DEF TypeOK
<1>3. clock + TimeToLive \in Nat
  BY RangeAssumption DEF TypeOK
<1> QED
  BY <1>1, <1>2, <1>3 DEF Encode, Token

\* The application's starts and bounds are tokens.
LEMMA StartsType == TypeOK => Starts \subseteq Token /\ Bounds \subseteq Token
<1> SUFFICES ASSUME TypeOK PROVE Starts \subseteq Token /\ Bounds \subseteq Token
  OBVIOUS
<1>1. Receipts \subseteq Token
  <2>1. ASSUME NEW e \in present \X Offsets
        PROVE  Encode([p \in {e[1]} |-> e[2]]) \in Token
    <3>1. {e[1]} \in SUBSET Partitions /\ e[2] \in Positions
      BY OffsetFacts DEF TypeOK
    <3>2. [p \in {e[1]} |-> e[2]] \in [{e[1]} -> Positions]
      BY <3>1
    <3> QED
      BY <3>1, <3>2, EncodeType
  <2> QED
    BY <2>1 DEF Receipts
<1>2. \A t \in Token : [t EXCEPT !.here = FALSE] \in Token
  BY DEF Token
<1> QED
  BY <1>1, <1>2, NoTokenFacts DEF Starts, Bounds

\* The positions of a read lie on the partitions the topic may have.
LEMMA FromType ==
    ASSUME TypeOK, NEW t \in Token
    PROVE  /\ From(t) \in [Partitions -> Positions]
           /\ Until(t) \in [Partitions -> Positions]
<1>1. t.positions \in PartialPositions
  BY DEF Token
<1>2. \A p \in DOMAIN t.positions : t.positions[p] \in Positions
  BY <1>1, PartialFacts
<1>3. \A p \in Partitions : low[p] \in Positions /\ high[p] \in Positions
  BY DEF TypeOK
<1> QED
  BY <1>2, <1>3, OffsetFacts DEF From, Until

\* A read that is not refused starts within the log of every partition, and its
\* tokens name partitions the topic has.
LEMMA AcceptedIsWithinLog ==
    ASSUME TypeOK, NEW source \in Token, NEW bound \in Token,
           Refusals(source, bound) = {}
    PROVE  /\ DOMAIN source.positions \subseteq present
           /\ \A p \in present : From(source)[p] <= high[p]
<1> DEFINE wrong == UNION {BoundError(p, From(source), Until(bound)) : p \in present}
<1>1. wrong = {} /\ DOMAIN source.positions \cup DOMAIN bound.positions \subseteq present
  BY DEF Refusals
<1>2. \A p \in present : BoundError(p, From(source), Until(bound)) = {}
  BY <1>1
<1>3. \A p \in present : ~(From(source)[p] > high[p])
  BY <1>2 DEF BoundError
<1>4. \A p \in present : From(source)[p] \in Nat /\ high[p] \in Nat
  BY FromType, OffsetFacts DEF TypeOK
<1> QED
  BY <1>1, <1>3, <1>4

-----------------------------------------------------------------------------
(* Types.                                                                  *)

\* The initial state is of the right type.
LEMMA InitType == Init => TypeInv
<1> SUFFICES ASSUME Init PROVE TypeInv
  OBVIOUS
<1>1. Zero \in [Partitions -> Positions] /\ high \in [Partitions -> Positions]
  BY OffsetFacts, RangeAssumption DEF Init, Zero
<1>2. \A p \in Partitions : low[p] <= high[p]
  <2>1. \A p \in Partitions : low[p] = 0 /\ high[p] \in Nat
    BY <1>1, OffsetFacts DEF Init, Zero
  <2> QED
    BY <2>1
<1>3. ring \subseteq 1 .. MaxKey
  BY RangeAssumption DEF Init
<1>4. Cardinality(events) <= Limit /\ IsFiniteSet(events)
  BY FS_EmptySet, RangeAssumption DEF Init
<1>5. page \in [cursor : Token, truncated : BOOLEAN] /\ end \in Token
  BY NoTokenFacts DEF Init, NoPage
<1> QED
  BY <1>1, <1>2, <1>3, <1>4, <1>5, RangeAssumption DEF Init, TypeOK, TypeInv

\* read() forgets its locals.
LEMMA LeaveType ==
    ASSUME Leave
    PROVE  /\ pc' = "idle" /\ partitions' = {}
           /\ positions' \in [Partitions -> Positions]
           /\ ends' \in [Partitions -> Positions]
           /\ at' \in [Partitions -> Positions]
           /\ events' = {} /\ Cardinality(events') <= Limit /\ IsFiniteSet(events')
           /\ beyond' = {}
<1>1. Zero \in [Partitions -> Positions]
  BY OffsetFacts DEF Zero
<1>2. Cardinality(events') <= Limit /\ IsFiniteSet(events')
  BY FS_EmptySet, RangeAssumption DEF Leave
<1> QED
  BY <1>1, <1>2 DEF Leave

\* read() starts from the positions its tokens give.
LEMMA ReadType ==
    ASSUME TypeInv, NEW source \in Token, NEW bound \in Token, Read(source, bound)
    PROVE  /\ pc' \in {"idle", "polling"} /\ partitions' \subseteq present
           /\ positions' \in [Partitions -> Positions]
           /\ ends' \in [Partitions -> Positions]
           /\ at' \in [Partitions -> Positions]
           /\ events' \subseteq Events
           /\ Cardinality(events') <= Limit /\ IsFiniteSet(events')
           /\ beyond' \subseteq Events
<1>1. CASE UNCHANGED reader
  BY <1>1 DEF TypeInv, TypeOK
<1>2. CASE Refusals(source, bound) = {} /\ ~UNCHANGED reader
  <2>1. events' = {} => Cardinality(events') <= Limit /\ IsFiniteSet(events')
    BY FS_EmptySet, RangeAssumption
  <2>2. TypeOK
    BY DEF TypeInv
  <2> QED
    BY <1>2, <2>1, <2>2, FromType DEF Read
<1> QED
  BY <1>1, <1>2 DEF Read

\* The client and the cursor's position move past a record, or up to an end.
LEMMA MoveType ==
    ASSUME TypeOK, NEW p \in Partitions, NEW o \in Positions,
           positions' = [positions EXCEPT ![p] = Max({@, o})]
    PROVE  /\ positions' \in [Partitions -> Positions]
           /\ positions'[p] = Max({positions[p], o})
           /\ \A q \in Partitions \ {p} : positions'[q] = positions[q]
<1>1. positions[p] \in Positions
  BY DEF TypeOK
<1>2. Max({positions[p], o}) \in Positions
  <2>1. positions[p] \in Int /\ o \in Int
    BY <1>1, RangeAssumption DEF Positions
  <2>2. Max({positions[p], o}) \in {positions[p], o}
    BY <2>1, MaxFacts
  <2> QED
    BY <1>1, <2>2
<1>3. positions \in [Partitions -> Positions]
  BY DEF TypeOK
<1>4. positions' = [positions EXCEPT ![p] = Max({positions[p], o})]
  OBVIOUS
<1> QED
  BY <1>2, <1>3, <1>4

\* Every step keeps the types.
LEMMA NextType == TypeInv /\ [Next]_vars => TypeInv'
<1> SUFFICES ASSUME TypeInv, [Next]_vars PROVE TypeInv'
  OBVIOUS
<1>a. TypeOK /\ IsFiniteSet(events) /\ Cardinality(events) \in Nat
  BY FS_CardinalityType DEF TypeInv
<1>b. ASSUME NEW p \in partitions, NEW o \in Offsets, NextRecord(p, o), Consumed(p, o)
      PROVE  positions' \in [Partitions -> Positions] /\ at' \in [Partitions -> Positions]
  <2>1. p \in Partitions /\ o + 1 \in Positions
    BY <1>a, OffsetFacts DEF TypeOK
  <2> QED
    BY <1>a, <1>b, <2>1, MoveType DEF Consumed, TypeOK
<1>1. CASE ReadStart
  <2>1. PICK source \in Starts, bound \in Bounds :
            Read(source, bound) /\ end' = bound /\ origin' = From(source)
    BY <1>1 DEF ReadStart
  <2>2. source \in Token /\ bound \in Token /\ From(source) \in [Partitions -> Positions]
    BY <1>a, StartsType, FromType
  <2>3. page' \in [cursor : Token, truncated : BOOLEAN]
    BY <1>1, NoTokenFacts DEF ReadStart, NoPage
  <2> QED
    BY <1>1, <2>1, <2>2, <2>3, ReadType DEF ReadStart, TypeInv, TypeOK
<1>2. CASE ReadNext
  <2>1. page.cursor \in Token /\ end \in Token
    BY <1>a DEF TypeOK
  <2>2. From(page.cursor) \in [Partitions -> Positions]
    BY <1>a, <2>1, FromType
  <2>3. origin' \in [Partitions -> Positions]
    BY <1>2, <1>a, <2>2 DEF ReadNext, TypeOK
  <2> QED
    BY <1>2, <2>1, <2>3, ReadType DEF ReadNext, TypeInv, TypeOK
<1>3. CASE Collect
  <2>1. PICK p \in partitions, o \in Offsets :
            /\ NextRecord(p, o) /\ Consumed(p, o)
            /\ events' = events \cup {<<p, o>>}
    BY <1>3 DEF Collect
  <2>2. IsFiniteSet(events') /\ Cardinality(events') <= Limit
    <3>1. Cardinality(events) < Limit /\ Cardinality(events) \in Nat /\ Limit \in Nat
      BY <1>3, <1>a, RangeAssumption DEF Collect, Polling
    <3>2. /\ IsFiniteSet(events')
          /\ Cardinality(events') \in {Cardinality(events), Cardinality(events) + 1}
      BY <1>a, <2>1, FS_AddElement
    <3> QED
      BY <3>1, <3>2
  <2>3. events' \subseteq Events
    BY <1>a, <2>1 DEF TypeOK, Events
  <2> QED
    BY <1>3, <1>b, <2>1, <2>2, <2>3 DEF Collect, TypeInv, TypeOK
<1>4. CASE PassBeyondEnd
  <2>1. PICK p \in partitions, o \in Offsets :
            /\ NextRecord(p, o) /\ Consumed(p, o)
            /\ beyond' \in {beyond, beyond \cup {<<p, o>>}}
    BY <1>4 DEF PassBeyondEnd
  <2>2. beyond' \subseteq Events
    BY <1>a, <2>1 DEF TypeOK, Events
  <2> QED
    BY <1>4, <1>b, <2>1, <2>2 DEF PassBeyondEnd, TypeInv, TypeOK
<1>5. CASE DecodeRaises \/ PollFails
  BY <1>5, LeaveType DEF DecodeRaises, PollFails, TypeInv, TypeOK
<1>6. CASE EndOfPartition
  <2>a. PICK p \in partitions : \E o \in at[p] .. high[p] :
            /\ at' = [at EXCEPT ![p] = o]
            /\ positions' = [positions EXCEPT ![p] = Max({@, o})]
    BY <1>6 DEF EndOfPartition
  <2>1. PICK o \in at[p] .. high[p] :
            /\ at' = [at EXCEPT ![p] = o]
            /\ positions' = [positions EXCEPT ![p] = Max({@, o})]
    BY <2>a
  <2>2. p \in Partitions /\ at[p] \in Nat /\ high[p] \in Positions
    BY <1>a, OffsetFacts DEF TypeOK
  <2>3. o \in Positions
    BY <2>2, RangeAssumption DEF Positions
  <2>4. positions' \in [Partitions -> Positions] /\ at' \in [Partitions -> Positions]
    BY <1>a, <2>1, <2>2, <2>3, MoveType DEF TypeOK
  <2> QED
    BY <1>6, <2>4 DEF EndOfPartition, TypeInv, TypeOK
<1>7. CASE OffsetOutOfRange
  BY <1>7 DEF OffsetOutOfRange, TypeInv, TypeOK
<1>8. CASE ReadReturns
  <2>1. [p \in partitions |-> positions[p]] \in [partitions -> Positions]
    BY <1>a DEF TypeOK
  <2>2. partitions \in SUBSET Partitions
    BY <1>a DEF TypeOK
  <2>3. Encode([p \in partitions |-> positions[p]]) \in Token
    BY <1>a, <2>1, <2>2, EncodeType
  <2>4. Left \in BOOLEAN
    BY DEF Left
  <2>5. page' \in [cursor : Token, truncated : BOOLEAN]
    BY <1>8, <2>3, <2>4 DEF ReadReturns
  <2> QED
    BY <1>8, <2>5, LeaveType DEF ReadReturns, TypeInv, TypeOK
<1>9. CASE Append
  <2>1. PICK p \in present : high[p] < LogEnd[p] /\ high' = [high EXCEPT ![p] = @ + 1]
    BY <1>9 DEF Append
  <2>2. /\ p \in Partitions /\ high[p] \in Nat /\ LogEnd[p] \in Positions
        /\ \A q \in Partitions : low[q] \in Nat /\ high[q] \in Nat /\ low[q] <= high[q]
    BY <1>a, OffsetFacts, RangeAssumption DEF TypeOK
  <2>3. high[p] + 1 \in Positions
    BY <2>1, <2>2, RangeAssumption DEF Positions
  <2>4. high' \in [Partitions -> Positions]
    BY <1>a, <2>1, <2>3 DEF TypeOK
  <2>5. \A q \in Partitions : low[q] <= high'[q]
    BY <1>a, <2>1, <2>2 DEF TypeOK
  <2> QED
    BY <1>9, <2>4, <2>5 DEF Append, TypeInv, TypeOK
<1>10. CASE Retention
  <2>1. PICK p \in present : low[p] < high[p] /\ low' = [low EXCEPT ![p] = @ + 1]
    BY <1>10 DEF Retention
  <2>2. /\ p \in Partitions /\ low[p] \in Nat /\ high[p] \in Positions /\ high[p] \in Nat
        /\ \A q \in Partitions : low[q] \in Nat /\ high[q] \in Nat /\ low[q] <= high[q]
    BY <1>a, OffsetFacts DEF TypeOK
  <2>3. low[p] + 1 \in Positions /\ low[p] + 1 <= high[p]
    BY <2>1, <2>2, OffsetFacts
  <2>4. low' \in [Partitions -> Positions]
    BY <1>a, <2>1, <2>3 DEF TypeOK
  <2>5. \A q \in Partitions : low'[q] <= high[q]
    BY <1>a, <2>1, <2>2, <2>3 DEF TypeOK
  <2> QED
    BY <1>10, <2>4, <2>5 DEF Retention, TypeInv, TypeOK
<1>11. CASE AddPartition
  BY <1>11 DEF AddPartition, TypeInv, TypeOK
<1>12. CASE RotateKeys
  <2>1. active + 1 \in 1 .. MaxKey
    BY <1>12, <1>a, RangeAssumption DEF RotateKeys, TypeOK
  <2> QED
    BY <1>12, <2>1 DEF RotateKeys, TypeInv, TypeOK
<1>13. CASE Tick
  BY <1>13 DEF Tick, TypeInv, TypeOK
<1>14. CASE UNCHANGED vars
  BY <1>14 DEF TypeInv, TypeOK
<1> QED
  BY <1>1, <1>2, <1>3, <1>4, <1>5, <1>6, <1>7, <1>8, <1>9, <1>10, <1>11, <1>12,
     <1>13, <1>14 DEF Next

\* The reader's variables keep their types: a page never holds more Events than the
\* command's limit, positions never leave the log's range, and the partitions of a
\* read are partitions of the topic.
THEOREM TypeCorrect == Spec => []TypeOK
<1>1. TypeInv => TypeOK
  BY DEF TypeInv
<1> QED
  BY <1>1, InitType, NextType, PTL DEF Spec

-----------------------------------------------------------------------------
(* The pages of a chain.                                                   *)

\* The last page's cursor is a partial function on the partitions.
LEMMA CursorFacts ==
    ASSUME TypeOK
    PROVE  /\ DOMAIN Cursor \subseteq Partitions
           /\ \A p \in DOMAIN Cursor : Cursor[p] \in Positions /\ Cursor[p] \in Nat
<1>1. Cursor \in PartialPositions
  BY DEF TypeOK, Token, Cursor
<1> QED
  BY <1>1, PartialFacts, OffsetFacts

\* Without a page there is no cursor.
LEMMA NoPageFacts == page' = NoPage => DOMAIN Cursor' = {}
<1> SUFFICES ASSUME page' = NoPage PROVE DOMAIN Cursor' = {}
  OBVIOUS
<1>1. Cursor' = NoToken.positions
  BY DEF Cursor, NoPage
<1> QED
  BY <1>1, NoTokenFacts

\* How a record or an end-of-partition report moves the client and the cursor.
Moves(p, n) ==
    /\ at' = [at EXCEPT ![p] = n]
    /\ positions' = [positions EXCEPT ![p] = Max({@, n})]

\* A record that is read, or an end that is reported, moves one position up to the
\* client's new fetch position.
LEMMA MoveChain ==
    ASSUME TypeOK, \A q \in partitions : positions[q] <= at[q] /\ at[q] <= high[q],
           NEW p \in partitions, NEW n \in Positions, at[p] <= n, n <= high[p],
           Moves(p, n)
    PROVE  /\ \A q \in Partitions : /\ at'[q] = IF q = p THEN n ELSE at[q]
                                    /\ positions'[q] = IF q = p THEN n ELSE positions[q]
                                    /\ positions[q] \in Nat /\ at[q] \in Nat
                                    /\ high[q] \in Nat
           /\ \A q \in partitions : /\ positions[q] <= positions'[q]
                                    /\ positions'[q] <= at'[q] /\ at'[q] <= high[q]
<1>1. p \in Partitions /\ partitions \subseteq Partitions
  BY DEF TypeOK
<1>2. \A q \in Partitions : /\ positions[q] \in Nat /\ at[q] \in Nat /\ high[q] \in Nat
  BY OffsetFacts DEF TypeOK
<1>3. n \in Nat
  BY OffsetFacts
<1>5. positions[p] <= n
  BY <1>1, <1>2, <1>3
<1>6. Max({positions[p], n}) = n
  <2>1. positions[p] \in Int /\ n \in Int
    BY <1>1, <1>2, <1>3
  <2> QED
    BY <1>5, <2>1, MaxFacts
<1>7. \A q \in Partitions : /\ at'[q] = IF q = p THEN n ELSE at[q]
                            /\ positions'[q] = IF q = p THEN n ELSE positions[q]
  BY <1>1, <1>6, MoveType DEF TypeOK, Moves
<1> QED
  BY <1>1, <1>2, <1>3, <1>5, <1>7

\* Before the first page there is nothing to repeat.
LEMMA InitChain == Init => ChainInv
<1> SUFFICES ASSUME Init PROVE ChainInv
  OBVIOUS
<1>1. DOMAIN Cursor = {}
  <2>1. Cursor = NoToken.positions
    BY DEF Init, Cursor, NoPage
  <2> QED
    BY <2>1, NoTokenFacts
<1> QED
  BY <1>1 DEF Init, ChainInv, PagesNeverRepeat, CursorWithinLog, ReturnedBehindCursor,
              PollingAhead

\* Every step keeps the chain of pages.
LEMMA NextChain == TypeInv /\ ChainInv /\ [Next]_vars => ChainInv'
<1> SUFFICES ASSUME TypeInv, ChainInv, [Next]_vars PROVE ChainInv'
  OBVIOUS
<1>a. TypeOK
  BY DEF TypeInv
<1> USE DEF ChainInv, PagesNeverRepeat, CursorWithinLog, ReturnedBehindCursor, PollingAhead
<1>b. page' = page => Cursor' = Cursor
  BY DEF Cursor
<1>c. ASSUME Leave, UNCHANGED <<broker, page, returned, repeated>>
      PROVE  ChainInv'
  BY <1>b, <1>c DEF Leave
<1>d. ASSUME NEW p \in partitions, NEW o \in Offsets, NextRecord(p, o)
      PROVE  /\ o \in Nat /\ o + 1 \in Positions /\ at[p] \in Nat
             /\ at[p] <= o + 1 /\ at[p] <= o /\ o + 1 <= high[p]
  <2>1. at[p] \in Nat /\ high[p] \in Nat /\ o \in Nat /\ o + 1 \in Positions
    BY <1>a, OffsetFacts DEF TypeOK
  <2> QED
    BY <1>d, <2>1 DEF NextRecord
<1>1. CASE ReadStart
  <2>1. PICK source \in Starts, bound \in Bounds : Read(source, bound)
    BY <1>1 DEF ReadStart
  <2>2. source \in Token /\ bound \in Token
    BY <1>a, StartsType
  <2>3. DOMAIN Cursor' = {}
    BY <1>1, NoPageFacts DEF ReadStart
  <2>4. returned' = {} /\ repeated' = {} /\ UNCHANGED broker /\ pc = "idle" /\ events = {}
    BY <1>1 DEF ReadStart
  <2>5. CASE UNCHANGED reader
    BY <2>3, <2>4, <2>5
  <2>6. CASE Refusals(source, bound) = {} /\ ~UNCHANGED reader
    <3>1. /\ partitions' = present /\ events' = {}
          /\ positions' = From(source) /\ at' = From(source) /\ pc' = "polling"
      BY <2>1, <2>6 DEF Read
    <3>2. /\ \A p \in present : From(source)[p] <= high[p] /\ From(source)[p] \in Nat
      BY <1>a, <2>2, <2>6, AcceptedIsWithinLog, FromType, OffsetFacts DEF TypeOK
    <3> QED
      BY <2>3, <2>4, <3>1, <3>2
  <2> QED
    BY <2>1, <2>5, <2>6 DEF Read
<1>2. CASE ReadNext
  <2>1. /\ Read(page.cursor, end) /\ page.cursor \in Token /\ end \in Token
        /\ UNCHANGED <<broker, page, returned, repeated>> /\ pc = "idle" /\ events = {}
    BY <1>2, <1>a DEF ReadNext, TypeOK
  <2>2. CASE UNCHANGED reader
    BY <1>b, <2>1, <2>2
  <2>3. CASE Refusals(page.cursor, end) = {} /\ ~UNCHANGED reader
    <3>1. /\ partitions' = present /\ events' = {} /\ pc' = "polling"
          /\ positions' = From(page.cursor) /\ at' = From(page.cursor)
      BY <2>1, <2>3 DEF Read
    <3>2. /\ \A p \in present : /\ From(page.cursor)[p] <= high[p]
                                /\ From(page.cursor)[p] \in Nat
          /\ DOMAIN Cursor \subseteq present
      BY <1>a, <2>1, <2>3, AcceptedIsWithinLog, FromType, OffsetFacts DEF TypeOK, Cursor
    <3>3. \A p \in DOMAIN Cursor : From(page.cursor)[p] = Cursor[p]
      BY <1>a, CursorFacts DEF From, Cursor
    <3> QED
      BY <1>a, <1>b, <2>1, <3>1, <3>2, <3>3, CursorFacts
  <2> QED
    BY <2>1, <2>2, <2>3 DEF Read
<1>3. CASE Collect
  <2>1. PICK p \in partitions, o \in Offsets :
            /\ NextRecord(p, o) /\ Consumed(p, o)
            /\ events' = events \cup {<<p, o>>}
    BY <1>3 DEF Collect
  <2>2. /\ UNCHANGED <<broker, page, returned, repeated, pc, partitions>>
        /\ pc = "polling"
    BY <1>3 DEF Collect, Polling
  <2>3. /\ \A q \in Partitions : /\ positions'[q] = IF q = p THEN o + 1 ELSE positions[q]
                                 /\ positions[q] \in Nat
        /\ \A q \in partitions : /\ positions[q] <= positions'[q]
                                 /\ positions'[q] <= at'[q] /\ at'[q] <= high[q]
    <3>1. /\ o + 1 \in Positions /\ at[p] <= o + 1 /\ o + 1 <= high[p]
          /\ Moves(p, o + 1)
      BY <1>d, <2>1 DEF Consumed, Moves
    <3>2. \A q \in partitions : positions[q] <= at[q] /\ at[q] <= high[q]
      BY <2>2
    <3> HIDE DEF ChainInv
    <3> QED
      BY <1>a, <3>1, <3>2, MoveChain
  <2>4. p \in Partitions /\ partitions \subseteq Partitions
    BY <1>a DEF TypeOK
  <2>5. \A q \in DOMAIN Cursor : Cursor[q] <= positions'[q]
    <3>1. \A q \in DOMAIN Cursor : /\ Cursor[q] \in Nat /\ Cursor[q] <= positions[q]
                                   /\ q \in partitions
      BY <1>a, <2>2, CursorFacts
    <3>2. \A q \in partitions : positions[q] \in Nat /\ positions'[q] \in Nat
      BY <1>d, <2>1, <2>3, <2>4
    <3> HIDE DEF ChainInv
    <3> QED
      BY <2>3, <3>1, <3>2
  <2>6. p \in DOMAIN Cursor => Cursor[p] <= o
    BY <1>a, <1>d, <2>1, <2>2, <2>3, <2>4, CursorFacts
  <2>7. \A e \in events : e[2] \in Nat /\ e[1] \in Partitions
    BY <1>a, OffsetFacts DEF TypeOK, Events
  <2>8. \A e \in events' : /\ e[1] \in partitions /\ e[2] < positions'[e[1]]
                           /\ e[1] \in DOMAIN Cursor => Cursor[e[1]] <= e[2]
    <3>1. ASSUME NEW e \in events
          PROVE  /\ e[1] \in partitions /\ e[2] < positions'[e[1]]
                 /\ e[1] \in DOMAIN Cursor => Cursor[e[1]] <= e[2]
      <4>1. /\ e[1] \in partitions /\ e[2] < positions[e[1]]
            /\ e[1] \in DOMAIN Cursor => Cursor[e[1]] <= e[2]
        BY <2>2
      <4>2. /\ e[2] \in Nat /\ positions[e[1]] \in Nat /\ positions'[e[1]] \in Nat
            /\ positions[e[1]] <= positions'[e[1]]
        BY <1>d, <2>1, <2>3, <2>7, <4>1
      <4> QED
        BY <4>1, <4>2
    <3>2. o < positions'[p]
      BY <1>d, <2>1, <2>3, <2>4
    <3> QED
      BY <2>1, <2>6, <3>1, <3>2
  <2> QED
    BY <1>b, <2>2, <2>3, <2>5, <2>8
<1>4. CASE PassBeyondEnd
  <2>1. PICK p \in partitions, o \in Offsets : NextRecord(p, o) /\ Consumed(p, o)
    BY <1>4 DEF PassBeyondEnd
  <2>2. /\ UNCHANGED <<broker, page, returned, repeated, pc, partitions, events>>
        /\ pc = "polling"
    BY <1>4 DEF PassBeyondEnd, Polling
  <2>3. /\ \A q \in Partitions : positions[q] \in Nat /\ positions'[q] \in Nat
        /\ \A q \in partitions : /\ positions[q] <= positions'[q]
                                 /\ positions'[q] <= at'[q] /\ at'[q] <= high[q]
    <3>1. /\ o + 1 \in Positions /\ at[p] <= o + 1 /\ o + 1 <= high[p] /\ o + 1 \in Nat
          /\ Moves(p, o + 1)
      BY <1>d, <2>1 DEF Consumed, Moves
    <3>2. \A q \in partitions : positions[q] <= at[q] /\ at[q] <= high[q]
      BY <2>2
    <3> HIDE DEF ChainInv
    <3> QED
      BY <1>a, <3>1, <3>2, MoveChain
  <2>4. /\ partitions \subseteq Partitions
        /\ \A e \in events : e[2] \in Nat /\ e[1] \in Partitions
    BY <1>a, OffsetFacts DEF TypeOK, Events
  <2> QED
    BY <1>a, <1>b, <2>2, <2>3, <2>4, CursorFacts
<1>5. CASE DecodeRaises \/ PollFails
  BY <1>5, <1>c DEF DecodeRaises, PollFails
<1>6. CASE EndOfPartition
  <2>a. PICK p \in partitions : \E o \in at[p] .. high[p] : Moves(p, o)
    BY <1>6 DEF EndOfPartition, Moves
  <2>1. PICK o \in at[p] .. high[p] : Moves(p, o)
    BY <2>a
  <2>2. /\ UNCHANGED <<broker, page, returned, repeated, pc, partitions, events>>
        /\ pc = "polling"
    BY <1>6 DEF EndOfPartition, Polling
  <2>3. p \in Partitions /\ at[p] \in Nat /\ high[p] \in Positions
    BY <1>a, OffsetFacts DEF TypeOK
  <2>4. o \in Positions /\ at[p] <= o /\ o <= high[p]
    BY <2>3, RangeAssumption DEF Positions
  <2>5. /\ \A q \in Partitions : positions[q] \in Nat /\ positions'[q] \in Nat
        /\ \A q \in partitions : /\ positions[q] <= positions'[q]
                                 /\ positions'[q] <= at'[q] /\ at'[q] <= high[q]
    <3>1. o \in Nat
      BY <2>4, OffsetFacts
    <3>2. \A q \in partitions : positions[q] <= at[q] /\ at[q] <= high[q]
      BY <2>2
    <3> HIDE DEF ChainInv
    <3> QED
      BY <1>a, <2>1, <2>4, <3>1, <3>2, MoveChain
  <2>6. /\ partitions \subseteq Partitions
        /\ \A e \in events : e[2] \in Nat /\ e[1] \in Partitions
    BY <1>a, OffsetFacts DEF TypeOK, Events
  <2> QED
    BY <1>a, <1>b, <2>2, <2>5, <2>6, CursorFacts
<1>7. CASE OffsetOutOfRange
  <2>1. PICK p \in partitions :
            at[p] < low[p] /\ at' \in {[at EXCEPT ![p] = low[p]], [at EXCEPT ![p] = high[p]]}
    BY <1>7 DEF OffsetOutOfRange
  <2>2. /\ \A q \in Partitions : /\ at[q] \in Nat /\ low[q] \in Nat /\ high[q] \in Nat
                                 /\ positions[q] \in Nat /\ low[q] <= high[q]
        /\ partitions \subseteq Partitions
    BY <1>a, OffsetFacts DEF TypeOK
  <2>3. /\ at'[p] = low[p] \/ at'[p] = high[p]
        /\ \A q \in Partitions : q # p => at'[q] = at[q]
    <3>1. CASE at' = [at EXCEPT ![p] = low[p]]
      BY <1>a, <3>1 DEF TypeOK
    <3>2. CASE at' = [at EXCEPT ![p] = high[p]]
      BY <1>a, <3>2 DEF TypeOK
    <3> QED
      BY <2>1, <3>1, <3>2
  <2>4. /\ UNCHANGED <<broker, page, returned, repeated, pc, partitions, positions, events>>
        /\ pc = "polling"
    BY <1>7 DEF OffsetOutOfRange, Polling
  <2>5. \A q \in partitions : positions[q] <= at'[q] /\ at'[q] <= high[q]
    <3> SUFFICES ASSUME NEW q \in partitions
                 PROVE  positions[q] <= at'[q] /\ at'[q] <= high[q]
      OBVIOUS
    <3>1. positions[q] <= at[q] /\ at[q] <= high[q]
      BY <2>4
    <3>2. CASE q = p
      BY <2>1, <2>2, <2>3, <3>1, <3>2
    <3>3. CASE q # p
      BY <2>2, <2>3, <3>1, <3>3
    <3> QED
      BY <3>2, <3>3
  <2> QED
    BY <1>b, <2>4, <2>5
<1>8. CASE ReadReturns
  <2>1. /\ pc = "polling" /\ pc' = "idle" /\ events' = {}
        /\ returned' = returned \cup events
        /\ repeated' = repeated \cup (returned \cap events)
        /\ UNCHANGED broker
    BY <1>8 DEF ReadReturns, Leave
  <2>2. Cursor' = [p \in partitions |-> positions[p]]
    BY <1>8 DEF ReadReturns, Encode, Cursor
  <2>3. /\ partitions \subseteq Partitions /\ partitions \subseteq present
        /\ \A p \in Partitions : positions[p] \in Nat /\ at[p] \in Nat /\ high[p] \in Nat
        /\ \A e \in returned \cup events : e[2] \in Nat /\ e[1] \in Partitions
    BY <1>a, OffsetFacts DEF TypeOK, Events
  <2>4. CursorWithinLog'
    BY <2>1, <2>2, <2>3
  <2>5. ReturnedBehindCursor'
    <3>1. ASSUME NEW e \in returned PROVE e[1] \in partitions /\ e[2] < positions[e[1]]
      BY <1>a, <2>1, <2>3, CursorFacts
    <3> QED
      BY <2>1, <2>2, <3>1
  <2>6. returned \cap events = {}
    <3> SUFFICES ASSUME NEW e \in returned, e \in events PROVE FALSE
      OBVIOUS
    <3>1. e[1] \in DOMAIN Cursor /\ e[2] < Cursor[e[1]] /\ Cursor[e[1]] <= e[2]
      BY <2>1
    <3> QED
      BY <1>a, <2>3, <3>1, CursorFacts
  <2> QED
    BY <2>1, <2>4, <2>5, <2>6
<1>9. CASE Append
  <2>1. PICK p \in present : high' = [high EXCEPT ![p] = @ + 1]
    BY <1>9 DEF Append
  <2>2. \A q \in Partitions : high[q] \in Nat /\ high'[q] \in {high[q], high[q] + 1}
    BY <1>a, <2>1, OffsetFacts DEF TypeOK
  <2>3. \A q \in Partitions : at[q] \in Nat /\ positions[q] \in Nat
    BY <1>a, OffsetFacts DEF TypeOK
  <2>4. \A n \in Nat, q \in Partitions : n <= high[q] => n <= high'[q]
    BY <2>2
  <2>5. UNCHANGED <<present, page, reader, returned, repeated>>
    BY <1>9 DEF Append
  <2>6. partitions \subseteq Partitions
    BY <1>a DEF TypeOK
  <2>7. CursorWithinLog'
    BY <1>a, <1>b, <2>4, <2>5, CursorFacts
  <2> QED
    BY <1>b, <2>3, <2>4, <2>5, <2>6, <2>7
<1>10. CASE Retention \/ AddPartition \/ RotateKeys \/ Tick \/ UNCHANGED vars
  <2>1. /\ UNCHANGED <<high, page, reader, returned, repeated>>
        /\ present \subseteq present'
    BY <1>10 DEF Retention, AddPartition, RotateKeys, Tick
  <2> QED
    BY <1>b, <2>1
<1> QED
  BY <1>1, <1>2, <1>3, <1>4, <1>5, <1>6, <1>7, <1>8, <1>9, <1>10 DEF Next

\* The pages of a chain never return an Event twice, whatever fails, is deleted,
\* appended, added or rotated between and during the reads.
THEOREM PagesDisjoint == Spec => []PagesNeverRepeat
<1>1. Init => TypeInv /\ ChainInv
  BY InitType, InitChain
<1>2. TypeInv /\ ChainInv /\ [Next]_vars => TypeInv' /\ ChainInv'
  BY NextType, NextChain
<1>3. ChainInv => PagesNeverRepeat
  BY DEF ChainInv
<1> QED
  BY <1>1, <1>2, <1>3, PTL DEF Spec

\* A cursor within the log, of partitions the topic has, is accepted.
LEMMA CursorAccepted == TypeOK /\ ChainInv => CursorsContinue
<1> SUFFICES ASSUME TypeOK, ChainInv, end = NoToken, DecodeError(page.cursor) = {},
                    \A p \in DOMAIN Cursor : low[p] <= Cursor[p],
                    Readable
             PROVE  Refusals(page.cursor, end) = {}
  BY DEF CursorsContinue, Cursor
<1>1. DOMAIN Cursor \subseteq present /\ \A p \in DOMAIN Cursor : Cursor[p] <= high[p]
  BY DEF ChainInv, CursorWithinLog
<1>2. \A p \in present : p \in Partitions /\ low[p] \in Nat /\ high[p] \in Nat /\ low[p] <= high[p]
  BY OffsetFacts DEF TypeOK
<1>3. DecodeError(end) = {} /\ DOMAIN end.positions = {}
  BY NoTokenFacts DEF DecodeError
<1>4. ASSUME NEW p \in present
      PROVE  BoundError(p, From(page.cursor), Until(end)) = {}
  <2>1. Until(end)[p] = high[p]
    BY <1>2, <1>3, <1>4 DEF Until
  <2>2. From(page.cursor)[p] = IF p \in DOMAIN Cursor THEN Cursor[p] ELSE low[p]
    BY <1>2, <1>4 DEF From, Cursor
  <2>3. /\ From(page.cursor)[p] \in Nat
        /\ low[p] <= From(page.cursor)[p] /\ From(page.cursor)[p] <= high[p]
    BY <1>1, <1>2, <1>4, <2>2, CursorFacts
  <2> QED
    BY <1>2, <1>4, <2>1, <2>3 DEF BoundError
<1>5. UNION {BoundError(p, From(page.cursor), Until(end)) : p \in present} = {}
  BY <1>4
<1>6. DOMAIN page.cursor.positions \cup DOMAIN end.positions \subseteq present
  BY <1>1, <1>3 DEF Cursor
<1> QED
  BY <1>3, <1>5, <1>6 DEF Refusals

\* A cursor the reader hands out is one the reader accepts, whatever happened to the
\* topic since, unless it expired, lost its key, or points below the retained log.
THEOREM CursorsStayValid == Spec => []CursorsContinue
<1>1. Init => TypeInv /\ ChainInv
  BY InitType, InitChain
<1>2. TypeInv /\ ChainInv /\ [Next]_vars => TypeInv' /\ ChainInv'
  BY NextType, NextChain
<1>3. TypeInv /\ ChainInv => CursorsContinue
  BY CursorAccepted DEF TypeInv
<1> QED
  BY <1>1, <1>2, <1>3, PTL DEF Spec

-----------------------------------------------------------------------------
(* The pages of a chain cover the log.                                     *)

\* What CoverInv says of the past is what PagesCover asks for.
LEMMA CoverInvCovers == TypeOK /\ ChainInv /\ CoverInv => PagesCover
<1> SUFFICES ASSUME TypeOK, ChainInv, CoverInv, NEW e \in Behind
             PROVE  e \in Held \cup Passed
  BY DEF PagesCover
<1>1. e \in Events /\ Due(e) /\ e[2] < Reached(e[1])
  BY DEF Behind, Due
<1>2. e[1] \in Partitions /\ e[2] \in Nat /\ origin[e[1]] \in Nat
  BY <1>1, OffsetFacts DEF Events, TypeOK
<1>3. CASE pc = "polling"
  BY <1>1, <1>3 DEF CoverInv, PositionsCover, Held, Passed, Reached
<1>4. CASE pc # "polling"
  <2>1. e[1] \in DOMAIN Cursor
    BY <1>1, <1>2, <1>4 DEF Reached, Due, Cursor
  <2> QED
    BY <1>1, <1>4, <2>1 DEF CoverInv, CursorCovers, Held, Passed, Reached, Cursor
<1> QED
  BY <1>3, <1>4

\* Before the first page there is nothing to cover.
LEMMA InitCover == Init => CoverInv
<1> SUFFICES ASSUME Init PROVE CoverInv
  OBVIOUS
<1>1. DOMAIN Cursor = {}
  <2>1. Cursor = NoToken.positions
    BY DEF Init, Cursor, NoPage
  <2> QED
    BY <2>1, NoTokenFacts
<1> QED
  BY <1>1 DEF Init, CoverInv, CursorCovers, PositionsCover, SkippedIsDeleted

\* Reading up to n accounts for every Event below n: what lies between the position
\* and the fetch position was deleted, what lies between that and n holds no Event
\* but the one the step adds.
LEMMA MoveCover ==
    ASSUME TypeOK, ChainInv, CoverInv, pc = "polling",
           NEW p \in partitions, NEW n \in Positions, at[p] <= n, n <= high[p],
           Moves(p, n),
           NEW new \in SUBSET Events,
           \A o \in Offsets : at[p] <= o /\ o < n /\ Record[p][o] = "event" => <<p, o>> \in new,
           events' \cup beyond' = events \cup beyond \cup new,
           UNCHANGED <<pc, low, origin, page, returned, dropped, partitions>>
    PROVE  CoverInv'
<1>1. Cursor' = Cursor /\ \A e : Due(e)' = Due(e)
  BY DEF Cursor, Due
<1>2. CursorCovers'
  BY <1>1 DEF CoverInv, CursorCovers
<1>3. /\ \A q \in Partitions : /\ at'[q] = IF q = p THEN n ELSE at[q]
                               /\ positions'[q] = IF q = p THEN n ELSE positions[q]
                               /\ positions[q] \in Nat /\ at[q] \in Nat
  BY MoveChain DEF ChainInv, PollingAhead
<1>4. /\ p \in Partitions /\ partitions \subseteq Partitions
      /\ n \in Nat /\ low[p] \in Nat
  BY OffsetFacts DEF TypeOK
<1>5. ASSUME NEW e \in Events, Due(e), e[2] < positions'[e[1]]
      PROVE  e \in returned \cup events' \cup dropped \cup beyond'
  <2>1. e[1] \in Partitions /\ e[2] \in Offsets /\ e[2] \in Nat /\ e = <<e[1], e[2]>>
    <3>1. e \in Partitions \X Offsets
      BY DEF Events
    <3>2. e[1] \in Partitions /\ e[2] \in Offsets /\ e = <<e[1], e[2]>>
      BY <3>1
    <3> QED
      BY <3>2, OffsetFacts
  <2>2. CASE e[2] < positions[e[1]]
    BY <1>5, <2>2 DEF CoverInv, PositionsCover
  <2>3. CASE ~(e[2] < positions[e[1]])
    <3>1. e[1] = p /\ e[2] < n /\ positions[p] <= e[2]
      BY <1>3, <1>5, <2>1, <2>3
    <3>2. at[p] <= e[2]
      <4> SUFFICES ASSUME ~(at[p] <= e[2]) PROVE FALSE
        OBVIOUS
      <4>1. e[2] \in positions[p] .. at[p] - 1
        BY <1>3, <1>4, <2>1, <3>1
      <4>2. e[2] < low[p]
        BY <4>1 DEF CoverInv, SkippedIsDeleted
      <4>3. low[p] <= e[2]
        BY <1>5, <3>1 DEF Due
      <4> QED
        BY <1>4, <2>1, <4>2, <4>3
    <3>3. e \in new
      BY <1>5, <2>1, <3>1, <3>2 DEF Due
    <3> QED
      BY <3>3
  <2> QED
    BY <2>2, <2>3
<1>6. PositionsCover'
  BY <1>1, <1>5 DEF PositionsCover
<1>7. SkippedIsDeleted'
  BY <1>3, <1>4 DEF CoverInv, SkippedIsDeleted
<1> QED
  BY <1>2, <1>6, <1>7 DEF CoverInv

\* Every step keeps the pages covering what lies behind them.
LEMMA NextCover ==
    ASSUME AutoOffsetReset = "earliest"
    PROVE  TypeInv /\ ChainInv /\ CoverInv /\ [Next]_vars => CoverInv'
<1> SUFFICES ASSUME TypeInv, ChainInv, CoverInv, [Next]_vars PROVE CoverInv'
  OBVIOUS
<1>a. TypeOK
  BY DEF TypeInv
<1>b. page' = page => Cursor' = Cursor
  BY DEF Cursor
<1>c. ASSUME pc' # "polling", UNCHANGED <<low, origin, page, returned, dropped>>
      PROVE  CoverInv'
  BY <1>b, <1>c DEF CoverInv, CursorCovers, PositionsCover, SkippedIsDeleted, Due
<1>d. ASSUME NEW p \in partitions, NEW o \in Offsets, NextRecord(p, o)
      PROVE  /\ o + 1 \in Positions /\ at[p] <= o + 1 /\ o + 1 <= high[p]
             /\ p \in Partitions
             /\ \A i \in Offsets : at[p] <= i /\ i < o + 1 /\ Record[p][i] = "event" => i = o
  <2>1. /\ at[p] \in Nat /\ high[p] \in Nat /\ o \in Nat /\ o + 1 \in Positions
        /\ p \in Partitions /\ Offsets \subseteq Nat
    BY <1>a, OffsetFacts DEF TypeOK
  <2>2. \A i \in Offsets : at[p] <= i /\ i < o + 1 /\ i # o => i \in at[p] .. o - 1
    BY <2>1
  <2> QED
    BY <1>d, <2>1, <2>2 DEF NextRecord
<1>1. CASE ReadStart
  <2>1. PICK source \in Starts, bound \in Bounds :
            Read(source, bound) /\ origin' = From(source)
    BY <1>1 DEF ReadStart
  <2>2. From(source) \in [Partitions -> Positions]
    BY <1>a, StartsType, FromType
  <2>3. DOMAIN Cursor' = {}
    BY <1>1, NoPageFacts DEF ReadStart
  <2>4. CursorCovers'
    BY <2>3 DEF CursorCovers
  <2>5. CASE UNCHANGED reader
    BY <1>1, <2>4, <2>5 DEF ReadStart, CoverInv, PositionsCover, SkippedIsDeleted
  <2>6. CASE positions' = From(source) /\ at' = From(source) /\ partitions' = present
    <3>1. \A p \in Partitions : /\ positions'[p] = origin'[p] /\ at'[p] = origin'[p]
                                /\ origin'[p] \in Nat
      BY <2>1, <2>2, <2>6, OffsetFacts
    <3>2. \A e \in Events : e[1] \in Partitions /\ e[2] \in Nat
      BY OffsetFacts DEF Events
    <3>3. \A e \in Events : Due(e)' => ~(e[2] < positions'[e[1]])
      BY <3>1, <3>2 DEF Due
    <3>4. partitions' \subseteq Partitions
      BY <1>a, <2>6 DEF TypeOK
    <3>5. SkippedIsDeleted'
      BY <3>1, <3>4 DEF SkippedIsDeleted
    <3> QED
      BY <2>4, <3>3, <3>5 DEF CoverInv, PositionsCover
  <2> QED
    BY <2>1, <2>5, <2>6 DEF Read
<1>2. CASE ReadNext
  <2>1. /\ Read(page.cursor, end) /\ page.cursor \in Token /\ pc = "idle"
        /\ UNCHANGED <<broker, page, returned, dropped>>
        /\ origin' = [p \in Partitions |->
                        IF p \in DOMAIN Cursor THEN origin[p] ELSE From(page.cursor)[p]]
    BY <1>2, <1>a DEF ReadNext, TypeOK, Cursor
  <2>2. \A e \in Events : e[1] \in Partitions /\ e[2] \in Nat
    BY OffsetFacts DEF Events
  <2>3. CursorCovers'
    BY <1>b, <2>1, <2>2 DEF CoverInv, CursorCovers, Due
  <2>4. CASE UNCHANGED reader
    BY <2>1, <2>3, <2>4 DEF CoverInv, PositionsCover, SkippedIsDeleted
  <2>5. CASE /\ positions' = From(page.cursor) /\ at' = From(page.cursor)
             /\ partitions' = present
    <3>1. From(page.cursor) \in [Partitions -> Positions]
      BY <1>a, <2>1, FromType
    <3>2. \A p \in Partitions :
            /\ positions'[p] \in Nat /\ at'[p] = positions'[p]
            /\ p \in DOMAIN Cursor => positions'[p] = Cursor[p]
            /\ p \notin DOMAIN Cursor => positions'[p] = origin'[p]
      BY <2>1, <2>5, <3>1, OffsetFacts DEF From, Cursor
    <3>3. ASSUME NEW e \in Events, Due(e)', e[2] < positions'[e[1]]
          PROVE  e \in returned \cup dropped
      <4>1. e[1] \in DOMAIN Cursor
        BY <2>2, <3>2, <3>3 DEF Due
      <4> QED
        BY <1>b, <2>1, <2>2, <2>3, <3>2, <3>3, <4>1 DEF CursorCovers
    <3>4. partitions' \subseteq Partitions
      BY <1>a, <2>5 DEF TypeOK
    <3>5. SkippedIsDeleted'
      BY <3>2, <3>4 DEF SkippedIsDeleted
    <3> QED
      BY <2>1, <2>3, <3>3, <3>5 DEF CoverInv, PositionsCover
  <2> QED
    BY <2>1, <2>4, <2>5 DEF Read
<1>3. CASE Collect
  <2>1. PICK p \in partitions, o \in Offsets :
            /\ NextRecord(p, o) /\ Moves(p, o + 1)
            /\ events' = events \cup {<<p, o>>}
    BY <1>3 DEF Collect, Consumed, Moves
  <2>2. /\ pc = "polling" /\ beyond' = beyond
        /\ UNCHANGED <<pc, low, origin, page, returned, dropped, partitions>>
    BY <1>3 DEF Collect, Polling
  <2>3. {<<p, o>>} \in SUBSET Events
    BY <1>d, <2>1 DEF Events
  <2>4. events' \cup beyond' = events \cup beyond \cup {<<p, o>>}
    BY <2>1, <2>2
  <2>5. \A i \in Offsets : at[p] <= i /\ i < o + 1 /\ Record[p][i] = "event"
                              => <<p, i>> \in {<<p, o>>}
    BY <1>d, <2>1
  <2>6. o + 1 \in Positions /\ at[p] <= o + 1 /\ o + 1 <= high[p]
    BY <1>d, <2>1
  <2> QED
    BY <1>a, <2>1, <2>2, <2>3, <2>4, <2>5, <2>6, MoveCover
<1>4. CASE PassBeyondEnd
  <2>1. PICK p \in partitions, o \in Offsets :
            /\ NextRecord(p, o) /\ Moves(p, o + 1)
            /\ beyond' = IF Record[p][o] = "event" THEN beyond \cup {<<p, o>>} ELSE beyond
    BY <1>4 DEF PassBeyondEnd, Consumed, Moves
  <2>2. /\ pc = "polling" /\ events' = events
        /\ UNCHANGED <<pc, low, origin, page, returned, dropped, partitions>>
    BY <1>4 DEF PassBeyondEnd, Polling
  <2> DEFINE new == IF Record[p][o] = "event" THEN {<<p, o>>} ELSE {}
  <2>3. new \in SUBSET Events
    BY <1>d, <2>1 DEF Events
  <2>4. events' \cup beyond' = events \cup beyond \cup new
    BY <2>1, <2>2
  <2>5. \A i \in Offsets : at[p] <= i /\ i < o + 1 /\ Record[p][i] = "event"
                              => <<p, i>> \in new
    BY <1>d, <2>1
  <2>6. o + 1 \in Positions /\ at[p] <= o + 1 /\ o + 1 <= high[p]
    BY <1>d, <2>1
  <2> HIDE DEF new
  <2> QED
    BY <1>a, <2>1, <2>2, <2>3, <2>4, <2>5, <2>6, MoveCover
<1>5. CASE DecodeRaises \/ PollFails
  BY <1>5, <1>c DEF DecodeRaises, PollFails, Leave
<1>6. CASE EndOfPartition
  <2>a. PICK p \in partitions : \E o \in at[p] .. high[p] :
            Moves(p, o) /\ \A i \in at[p] .. o - 1 : Record[p][i] = "gap"
    BY <1>6 DEF EndOfPartition, Moves
  <2>1. PICK o \in at[p] .. high[p] :
            Moves(p, o) /\ \A i \in at[p] .. o - 1 : Record[p][i] = "gap"
    BY <2>a
  <2>2. /\ pc = "polling" /\ events' \cup beyond' = events \cup beyond \cup {}
        /\ UNCHANGED <<pc, low, origin, page, returned, dropped, partitions>>
    BY <1>6 DEF EndOfPartition, Polling
  <2>3. /\ at[p] \in Nat /\ high[p] \in Positions /\ high[p] \in Nat
        /\ Offsets \subseteq Nat
    BY <1>a, OffsetFacts DEF TypeOK
  <2>4. o \in Nat /\ at[p] <= o /\ o <= high[p]
    BY <2>3
  <2>5. o \in Positions
    BY <2>3, <2>4, OffsetFacts
  <2>6. \A i \in Offsets : at[p] <= i /\ i < o /\ Record[p][i] = "event" => <<p, i>> \in {}
    BY <2>1, <2>3, <2>4
  <2>7. {} \in SUBSET Events
    OBVIOUS
  <2> QED
    BY <1>a, <2>1, <2>2, <2>4, <2>5, <2>6, <2>7, MoveCover
<1>7. CASE OffsetOutOfRange
  <2>1. PICK p \in partitions : at[p] < low[p] /\ at' = [at EXCEPT ![p] = low[p]]
    BY <1>7 DEF OffsetOutOfRange
  <2>2. /\ UNCHANGED <<low, origin, page, returned, dropped, pc, partitions, positions,
                       events, beyond>>
        /\ pc = "polling"
    BY <1>7 DEF OffsetOutOfRange, Polling
  <2>3. \A q \in Partitions : at'[q] = IF q = p THEN low[p] ELSE at[q]
    BY <1>a, <2>1 DEF TypeOK
  <2>4. /\ partitions \subseteq Partitions
        /\ \A q \in Partitions : low[q] \in Nat /\ positions[q] \in Nat
    BY <1>a, OffsetFacts DEF TypeOK
  <2>5. SkippedIsDeleted'
    <3> SUFFICES ASSUME NEW q \in partitions, NEW i \in positions[q] .. at'[q] - 1
                 PROVE  i < low[q]
      BY <2>2 DEF SkippedIsDeleted
    <3>1. CASE q = p
      BY <2>3, <2>4, <3>1
    <3>2. CASE q # p
      BY <2>2, <2>3, <2>4, <3>2 DEF CoverInv, SkippedIsDeleted
    <3> QED
      BY <3>1, <3>2
  <2>6. CursorCovers' /\ PositionsCover'
    BY <1>b, <2>2 DEF CoverInv, CursorCovers, PositionsCover, Due
  <2> QED
    BY <2>5, <2>6 DEF CoverInv
<1>8. CASE ReadReturns
  <2>1. /\ pc = "polling" /\ pc' = "idle"
        /\ returned' = returned \cup events /\ dropped' = dropped \cup beyond
        /\ UNCHANGED <<low, origin>>
    BY <1>8 DEF ReadReturns, Leave
  <2>2. Cursor' = [p \in partitions |-> positions[p]]
    BY <1>8 DEF ReadReturns, Encode, Cursor
  <2>3. CursorCovers'
    <3> SUFFICES ASSUME NEW e \in Events, Due(e)', e[1] \in partitions,
                        e[2] < positions[e[1]]
                 PROVE  e \in returned' \cup dropped'
      BY <2>2 DEF CursorCovers
    <3>1. Due(e)
      BY <2>1 DEF Due
    <3> QED
      BY <2>1, <3>1 DEF CoverInv, PositionsCover
  <2> QED
    BY <2>1, <2>3 DEF CoverInv, PositionsCover, SkippedIsDeleted
<1>9. CASE Retention
  <2>1. PICK p \in present : low' = [low EXCEPT ![p] = @ + 1]
    BY <1>9 DEF Retention
  <2>2. \A q \in Partitions : low[q] \in Nat /\ low'[q] \in {low[q], low[q] + 1}
    BY <1>a, <2>1, OffsetFacts DEF TypeOK
  <2>3. UNCHANGED <<page, origin, reader, returned, dropped>>
    BY <1>9 DEF Retention
  <2>4. \A e \in Events : Due(e)' => Due(e)
    <3>1. \A e \in Events : e[1] \in Partitions /\ e[2] \in Nat
      BY OffsetFacts DEF Events
    <3> QED
      BY <2>2, <2>3, <3>1 DEF Due
  <2>5. SkippedIsDeleted'
    <3>1. /\ partitions \subseteq Partitions
          /\ \A q \in Partitions : at[q] \in Nat /\ positions[q] \in Nat
      BY <1>a, OffsetFacts DEF TypeOK
    <3> QED
      BY <2>2, <2>3, <3>1 DEF CoverInv, SkippedIsDeleted
  <2> QED
    BY <1>b, <2>3, <2>4, <2>5 DEF CoverInv, CursorCovers, PositionsCover
<1>10. CASE Append \/ AddPartition \/ RotateKeys \/ Tick \/ UNCHANGED vars
  <2>1. UNCHANGED <<low, page, origin, reader, returned, dropped>>
    BY <1>10 DEF Append, AddPartition, RotateKeys, Tick
  <2>2. \A e : Due(e)' = Due(e)
    BY <2>1 DEF Due
  <2> QED
    BY <1>b, <2>1, <2>2 DEF CoverInv, CursorCovers, PositionsCover, SkippedIsDeleted
<1> QED
  BY <1>1, <1>2, <1>3, <1>4, <1>5, <1>6, <1>7, <1>8, <1>9, <1>10 DEF Next

\* Nothing is lost between the pages of a chain: under the policy "earliest", an Event
\* the cursors have moved past and that is still retained is in one of the pages or lay
\* beyond the page's end.
THEOREM PagesLoseNothing ==
    ASSUME AutoOffsetReset = "earliest"
    PROVE  Spec => []PagesCover
<1>1. Init => TypeInv /\ ChainInv /\ CoverInv
  BY InitType, InitChain, InitCover
<1>2. TypeInv /\ ChainInv /\ CoverInv /\ [Next]_vars => TypeInv' /\ ChainInv' /\ CoverInv'
  BY NextType, NextChain, NextCover
<1>3. TypeInv /\ ChainInv /\ CoverInv => PagesCover
  BY CoverInvCovers DEF TypeInv
<1> QED
  BY <1>1, <1>2, <1>3, PTL DEF Spec

=============================================================================
