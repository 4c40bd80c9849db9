------------------------ MODULE GroupConsumerProofs ------------------------
(***************************************************************************)
(* Proofs about GroupConsumer, for every set of partitions, every log and  *)
(* every value of the bounds.                                              *)
(***************************************************************************)
EXTENDS GroupConsumer, WellFoundedInduction, TLAPS

-----------------------------------------------------------------------------
(* The inductive invariants.                                               *)

\* Why NothingSkipped holds: the safe offset only moves over processed Events;
\* acknowledged offsets are processed; the first delivery of a partition, which
\* sets safe_next, has nothing unprocessed below it; whatever can seek the client
\* back comes after that first delivery; and a dead-letter publish that is waiting
\* for its acknowledgement has succeeded.
SafeNextCovered == \A p \in Partitions : Covered(p, safe_next[p])

AcknowledgedIsProcessed == \A p \in Partitions : acknowledged[p] \subseteq resolved[p]

StartCovered ==
    \A p \in assigned : safe_next[p] = NoOffset => Covered(p, position[p])

SafeNextKnown ==
    /\ \A i \in inflight : safe_next[i.partition] # NoOffset
    /\ \A p \in Partitions : paused[p] # NoPause => safe_next[p] # NoOffset

DeadLettersPublished ==
    /\ lock # "dead-letter" => dead = {}
    /\ \A t \in dead : t.offset \in resolved[t.partition]

SafetyInv ==
    /\ NothingSkipped
    /\ SafeNextCovered
    /\ AcknowledgedIsProcessed
    /\ StartCovered
    /\ SafeNextKnown
    /\ DeadLettersPublished

\* Why OnlyOwnedDeliveries holds: partitions are assigned only when none is owned.
OwnedInv ==
    /\ OnlyOwnedDeliveries
    /\ generation = "joining" => assigned = {}

\* Why NoneStranded holds where no negative acknowledgement asks for a redelivery:
\* nothing is paused, what is in flight lies below the client's position, and every
\* delivery counts as an attempt.
StrandedInv ==
    /\ NoneStranded
    /\ \A p \in Partitions : paused[p] = NoPause
    /\ \A i \in inflight : i.attempt >= 1 /\ i.offset < position[i.partition]
    /\ \A c \in calls : c.operation = "nack" => RetryAfter # {}
    /\ lock # "group-position"

\* The offsets of p that a delivery, an acknowledgement or a seek can still start from.
Remembered(p) ==
    {position[p]} \cup acknowledged[p]
        \cup {i.offset : i \in {j \in inflight : j.partition = p}}
        \cup ({paused[p].offset} \ {NoOffset})

\* Why CommittedMonotonic holds: safe_next is not behind the committed offset, or no
\* run of acknowledged offsets can begin at it, because it is left over from an
\* earlier assignment and everything remembered since then lies above it.
NotBehind(p) ==
    \/ safe_next[p] # NoOffset /\ safe_next[p] >= committed[p]
    \/ \A o \in Remembered(p) :
            IF safe_next[p] = NoOffset THEN o >= committed[p] ELSE o > safe_next[p]

SafeNextInv == generation = "stable" => \A p \in assigned : NotBehind(p)

\* Why GroupPositionAtomic holds: nobody commits while group_position holds the lock.
ComparedIsCurrent ==
    lock = "group-position" => \A p \in Partitions : CommittedPosition(p) = before[p]

\* The offset _expire_inflight rewinds to is one of the expired offsets: a
\* non-empty set of offsets has a least element.
LEMMA RewindIsExpired ==
    ASSUME TypeOK, NEW p \in Partitions, ExpiredOffsets(p) # {}
    PROVE  /\ Rewind(p) \in ExpiredOffsets(p)
           /\ Rewind(p) \in Offsets
           /\ \A o \in ExpiredOffsets(p) : Rewind(p) <= o
<1>1. ExpiredOffsets(p) \subseteq Offsets
  BY DEF TypeOK, ExpiredOffsets, Token
<1>2. Offsets \subseteq Nat
  BY LogAssumption DEF Offsets
<1>3. \E m \in ExpiredOffsets(p) :
          \A o \in ExpiredOffsets(p) : <<o, m>> \notin OpToRel(<, Nat)
  BY <1>1, <1>2, NatLessThanWellFounded, WFMin
<1>4. PICK m \in ExpiredOffsets(p) :
          \A o \in ExpiredOffsets(p) : <<o, m>> \notin OpToRel(<, Nat)
  BY <1>3
<1>5. \A o, n \in Nat : o < n => <<o, n>> \in OpToRel(<, Nat)
  BY Zenon DEF OpToRel
<1>6. \A o \in ExpiredOffsets(p) : o \in Nat
  BY <1>1, <1>2
<1>7. \A o \in ExpiredOffsets(p) : ~(o < m)
  BY <1>4, <1>5, <1>6, Zenon
<1>8. \A o \in ExpiredOffsets(p) : m <= o
  BY <1>6, <1>7
<1> QED
  BY <1>1, <1>8 DEF Rewind, Min

\* The tuples of variables, which every step's UNCHANGED mentions.
USE DEF vars, broker, client, state, thread, other

\* Offsets and positions are natural numbers.
LEMMA OffsetFacts ==
    /\ Offsets \subseteq Nat /\ Positions \subseteq Nat
    /\ Offsets \subseteq Positions /\ 0 \in Positions
    /\ \A o \in Offsets : o + 1 \in Positions
    /\ NoOffset \notin Positions
  BY LogAssumption DEF Offsets, Positions, NoOffset

\* What a rewind or a resumption leaves behind is well typed.
LEMMA ScannedType ==
    ASSUME TypeOK, NEW E \in SUBSET ExpiredPartitions,
           NEW D \in SUBSET DuePartitions, NEW Q \in SUBSET DuePartitions,
           Scanned(E, D, Q)
    PROVE  /\ position' \in [Partitions -> Positions]
           /\ muted' \subseteq Partitions
           /\ paused' \in [Partitions -> Pause \cup {NoPause}]
           /\ inflight' \subseteq Token
           /\ acknowledged' \in [Partitions -> SUBSET Offsets]
<1>1. \A p \in E : Rewind(p) \in Positions
  BY RewindIsExpired, OffsetFacts DEF ExpiredPartitions
<1>2. \A p \in D \cup Q : paused[p].offset \in Positions
  BY OffsetFacts DEF TypeOK, DuePartitions, Pause, NoPause
<1>3. position' \in [Partitions -> Positions]
  BY <1>1, <1>2 DEF TypeOK, Scanned
<1>4. acknowledged' \in [Partitions -> SUBSET Offsets]
  BY DEF TypeOK, Scanned
<1> QED
  BY <1>3, <1>4 DEF TypeOK, Scanned

\* The locked part of acknowledge keeps what it changes well typed.
LEMMA AcknowledgeType ==
    ASSUME TypeOK, NEW t \in Token, Acknowledge(t)
    PROVE  /\ committed' \in [Partitions -> Positions \cup {NoOffset}]
           /\ safe_next' \in [Partitions -> Positions \cup {NoOffset}]
           /\ acknowledged' \in [Partitions -> SUBSET Offsets]
           /\ inflight' \subseteq Token
           /\ attempts' \in [Partitions -> [Offsets -> Nat]]
<1>1. t.partition \in Partitions /\ t.offset \in Offsets
  BY DEF Token
<1>2. Original(t) \in Positions
  BY <1>1, OffsetFacts DEF TypeOK, Original
<1>3. Acked(t) \subseteq Offsets
  BY <1>1 DEF TypeOK, Acked
<1>4. ForgetDelivery(t) => /\ inflight' \subseteq Token
                           /\ attempts' \in [Partitions -> [Offsets -> Nat]]
  BY <1>1 DEF TypeOK, ForgetDelivery
<1>5. \A safe : TakeRun(t, safe) => acknowledged' \in [Partitions -> SUBSET Offsets]
  BY <1>1, <1>3 DEF TypeOK, TakeRun
<1>6. CASE AckHeld(t)
  BY <1>1, <1>2, <1>4, <1>5, <1>6 DEF TypeOK, AckHeld
<1>7. CASE \E safe \in Positions : AckCommits(t, safe)
  BY <1>1, <1>4, <1>5, <1>7 DEF TypeOK, AckCommits
<1>8. CASE \E safe \in Positions : AckCommitFails(t, safe)
  <2> PICK safe \in Positions : AckCommitFails(t, safe)
    BY <1>8
  <2>1. committed' = committed \/ committed' = [committed EXCEPT ![t.partition] = safe]
    BY DEF AckCommitFails
  <2>2. committed' \in [Partitions -> Positions \cup {NoOffset}]
    BY <1>1, <2>1 DEF TypeOK
  <2>3. safe_next' \in [Partitions -> Positions \cup {NoOffset}]
    BY <1>1, <1>2 DEF TypeOK, AckCommitFails
  <2> QED
    BY <1>5, <2>2, <2>3 DEF TypeOK, AckCommitFails
<1> QED
  BY <1>6, <1>7, <1>8 DEF Acknowledge


\* The initial state is well typed.
LEMMA InitType == Init => TypeOK
<1> SUFFICES ASSUME Init PROVE TypeOK
  OBVIOUS
<1>1. /\ high \in [Partitions -> Positions]
      /\ committed \in [Partitions -> Positions \cup {NoOffset}]
      /\ position \in [Partitions -> Positions]
      /\ safe_next \in [Partitions -> Positions \cup {NoOffset}]
      /\ before \in [Partitions -> Positions]
      /\ target \in [Partitions -> Positions]
  BY LogAssumption, OffsetFacts DEF Init, NoneOf
<1>2. /\ attempts \in [Partitions -> [Offsets -> Nat]]
      /\ acknowledged \in [Partitions -> SUBSET Offsets]
      /\ paused \in [Partitions -> Pause \cup {NoPause}]
      /\ delivered \in [Partitions -> SUBSET Offsets]
      /\ resolved \in [Partitions -> SUBSET Offsets]
  BY DEF Init, NoneOf
<1> QED
  BY <1>1, <1>2 DEF Init, TypeOK

\* Every step keeps the state well typed.
LEMMA NextType == TypeOK /\ [Next]_vars => TypeOK'
<1> SUFFICES ASSUME TypeOK, [Next]_vars PROVE TypeOK'
  OBVIOUS
<1> USE OffsetFacts
<1>1. CASE PollBegin
  BY <1>1 DEF TypeOK, PollBegin
<1>2. CASE PollScan
  <2>1. ExpiredPartitions \in SUBSET ExpiredPartitions /\ DuePartitions \in SUBSET DuePartitions
    OBVIOUS
  <2>2. Scanned(ExpiredPartitions, DuePartitions, {})
    BY <1>2 DEF PollScan
  <2> QED
    BY <1>2, <2>1, <2>2, ScannedType DEF TypeOK, PollScan
<1>3. CASE PollScanFails
  <2>1. \E E \in SUBSET ExpiredPartitions, D \in SUBSET DuePartitions,
           Q \in SUBSET DuePartitions : Scanned(E, D, Q)
    BY <1>3 DEF PollScanFails
  <2> QED
    BY <1>3, <2>1, ScannedType DEF TypeOK, PollScanFails
<1>4. CASE FetchNothing
  BY <1>4 DEF TypeOK, FetchNothing
<1>5. CASE PollFails
  BY <1>5 DEF TypeOK, PollFails
<1>6. CASE PollReturn
  BY <1>6 DEF TypeOK, PollReturn
<1>7. CASE Refused
  BY <1>7 DEF TypeOK, Refused
<1>8. ASSUME NEW p \in Partitions, NEW o \in Offsets, Deliver(p, o)
      PROVE  TypeOK'
  <2> DEFINE t == [partition |-> p, offset |-> o,
                   assignment_epoch |-> assignment_epoch,
                   attempt |-> attempts[p][o] + 1,
                   expires_at |-> now + AckTimeout]
  <2>1. t \in Token
    BY OptionAssumption DEF TypeOK, Token
  <2>2. /\ inflight' \subseteq Token
        /\ batch' \subseteq Token
    BY <1>8, <2>1 DEF TypeOK, Deliver
  <2>3. attempts' \in [Partitions -> [Offsets -> Nat]]
    BY <1>8 DEF TypeOK, Deliver
  <2>4. /\ position' \in [Partitions -> Positions]
        /\ safe_next' \in [Partitions -> Positions \cup {NoOffset}]
        /\ paused' \in [Partitions -> Pause \cup {NoPause}]
        /\ delivered' \in [Partitions -> SUBSET Offsets]
    BY <1>8 DEF TypeOK, Deliver
  <2> QED
    BY <1>8, <2>2, <2>3, <2>4 DEF TypeOK, Deliver
<1>9. ASSUME NEW p \in Partitions, NEW o \in Offsets, HoldBack(p, o)
      PROVE  TypeOK'
  BY <1>9 DEF TypeOK, HoldBack
<1>10. ASSUME NEW p \in Partitions, NEW o \in Offsets, HoldBackFails(p, o) \/ Malformed(p, o)
       PROVE  TypeOK'
  <2>1. CASE HoldBackFails(p, o)
    <3>1. o + 1 \in Positions
      BY OffsetFacts
    <3>2. position' \in [Partitions -> Positions]
      BY <2>1, <3>1 DEF TypeOK, HoldBackFails
    <3>3. lock' = "free" /\ batch' = {}
      BY <2>1 DEF HoldBackFails
    <3> QED
      BY <2>1, <3>2, <3>3 DEF TypeOK, HoldBackFails
  <2>2. CASE Malformed(p, o)
    BY <2>2 DEF TypeOK, Malformed
  <2> QED
    BY <1>10, <2>1, <2>2
<1>11. CASE Revoked
  BY <1>11 DEF TypeOK, Revoked
<1>12. ASSUME NEW S \in SUBSET Partitions, Assigned(S)
       PROVE  TypeOK'
  <2>1. \A p \in Partitions : StartOffset(p) \in Positions
    BY LogAssumption DEF TypeOK, StartOffset, Positions
  <2>2. \A p \in Partitions : 0 .. high[p] - 1 \subseteq Offsets
    BY LogAssumption DEF TypeOK, Offsets, Positions
  <2> QED
    BY <1>12, <2>1, <2>2 DEF TypeOK, Assigned
<1>13. ASSUME NEW op \in {"ack", "nack"}, NEW t \in tokens, NEW retry \in Nat,
              CallBegin(op, t, retry)
       PROVE  TypeOK'
  <2>1. [operation |-> op, token |-> t, retry_after |-> retry] \in Call
    BY DEF TypeOK, Call
  <2>2. tokens' \subseteq tokens
    BY <1>13 DEF CallBegin
  <2> QED
    BY <1>13, <2>1, <2>2 DEF TypeOK, CallBegin
<1>14. ASSUME NEW c \in calls, CallRejected(c)
       PROVE  TypeOK'
  BY <1>14 DEF TypeOK, CallRejected
<1>15. ASSUME NEW c \in calls, AcknowledgeCall(c)
       PROVE  TypeOK'
  <2>1. c.token \in Token /\ Acknowledge(c.token)
    BY <1>15 DEF TypeOK, Call, AcknowledgeCall
  <2>2. resolved' \in [Partitions -> SUBSET Offsets]
    BY <1>15, <2>1 DEF TypeOK, AcknowledgeCall, Resolve, Token
  <2> QED
    BY <1>15, <2>1, <2>2, AcknowledgeType DEF TypeOK, AcknowledgeCall, Acknowledge
<1>16. ASSUME NEW c \in calls, Redeliver(c)
       PROVE  TypeOK'
  <2>1. /\ c.token.partition \in Partitions /\ c.token.offset \in Offsets
        /\ c.retry_after \in Nat
    BY DEF TypeOK, Call, Token
  <2>2. [offset |-> c.token.offset, resume_at |-> now + c.retry_after] \in Pause
    BY <2>1 DEF TypeOK, Pause
  <2>3. position' = position \/ position' = [position EXCEPT ![c.token.partition] = c.token.offset]
    BY <1>16 DEF Redeliver
  <2>4. position' \in [Partitions -> Positions]
    BY <2>1, <2>3 DEF TypeOK
  <2>5. muted' = muted \/ muted' = muted \cup {c.token.partition}
    BY <1>16 DEF Redeliver
  <2>6. \/ paused' = paused
        \/ paused' = [paused EXCEPT ![c.token.partition] =
                [offset |-> c.token.offset, resume_at |-> now + c.retry_after]]
    BY <1>16 DEF Redeliver
  <2>7. muted' \subseteq Partitions
    BY <2>1, <2>5 DEF TypeOK
  <2>8. paused' \in [Partitions -> Pause \cup {NoPause}]
    <3>1. paused \in [Partitions -> Pause \cup {NoPause}]
      BY DEF TypeOK
    <3>2. ASSUME NEW r \in Pause PROVE
              [paused EXCEPT ![c.token.partition] = r] \in [Partitions -> Pause \cup {NoPause}]
      BY <3>1
    <3> QED
      BY <2>2, <2>6, <3>1, <3>2
  <2> QED
    BY <1>16, <2>4, <2>7, <2>8 DEF TypeOK, Redeliver
<1>17. ASSUME NEW c \in calls, DeadLetterPublish(c)
       PROVE  TypeOK'
  <2>1. /\ c.token \in Token /\ c.token.partition \in Partitions
        /\ c.token.offset \in Offsets /\ c.token.attempt \in Nat
    BY DEF TypeOK, Call, Token
  <2> QED
    BY <1>17, <2>1 DEF TypeOK, DeadLetterPublish, Resolve
<1>18. ASSUME NEW c \in calls, DeadLetterPublishFails(c)
       PROVE  TypeOK'
  BY <1>18 DEF TypeOK, DeadLetterPublishFails
<1>19. ASSUME NEW t \in dead, DeadLetterAcknowledge(t)
       PROVE  TypeOK'
  <2>1. t \in Token /\ Acknowledge(t)
    BY <1>19 DEF TypeOK, DeadLetterAcknowledge
  <2> QED
    BY <1>19, <2>1, AcknowledgeType DEF TypeOK, DeadLetterAcknowledge, Acknowledge
<1>20. ASSUME NEW t \in dead, DeadLetterTimeout(t)
       PROVE  TypeOK'
  BY <1>20 DEF TypeOK, DeadLetterTimeout
<1>21. ASSUME NEW tgt \in [Partitions -> Positions], GroupPositionBegin(tgt)
       PROVE  TypeOK'
  <2>1. \A p \in Partitions : CommittedPosition(p) \in Positions
    BY LogAssumption DEF TypeOK, CommittedPosition, Positions
  <2> QED
    BY <1>21, <2>1 DEF TypeOK, GroupPositionBegin
<1>22. \A p \in Partitions, n \in Positions : 0 .. n - 1 \subseteq Offsets
  BY LogAssumption DEF Offsets, Positions
<1>23. CASE GroupPositionCommit
  <2>1. resolved' \in [Partitions -> SUBSET Offsets]
    BY <1>22, <1>23 DEF TypeOK, GroupPositionCommit
  <2>2. acknowledged' \in [Partitions -> SUBSET Offsets]
    BY <1>23 DEF GroupPositionCommit, NoneOf
  <2>3. /\ committed' \in [Partitions -> Positions \cup {NoOffset}]
        /\ safe_next' \in [Partitions -> Positions \cup {NoOffset}]
    BY <1>23 DEF TypeOK, GroupPositionCommit
  <2> QED
    BY <1>23, <2>1, <2>2, <2>3 DEF TypeOK, GroupPositionCommit
<1>24. CASE GroupPositionFails
  <2>1. \/ UNCHANGED <<committed, resolved>>
        \/ /\ committed' = target
           /\ resolved' = [p \in Partitions |-> resolved[p] \cup 0 .. target[p] - 1]
    BY <1>24 DEF GroupPositionFails
  <2>2. /\ committed' \in [Partitions -> Positions \cup {NoOffset}]
        /\ resolved' \in [Partitions -> SUBSET Offsets]
    <3>1. /\ target \in [Partitions -> Positions]
          /\ committed \in [Partitions -> Positions \cup {NoOffset}]
          /\ resolved \in [Partitions -> SUBSET Offsets]
      BY DEF TypeOK
    <3>2. [p \in Partitions |-> resolved[p] \cup 0 .. target[p] - 1]
              \in [Partitions -> SUBSET Offsets]
      BY <1>22, <3>1
    <3>3. target \in [Partitions -> Positions \cup {NoOffset}]
      BY <3>1
    <3> QED
      BY <2>1, <3>1, <3>2, <3>3
  <2> QED
    BY <1>24, <2>2 DEF TypeOK, GroupPositionFails
<1>25. DiscardState => /\ generation' = "joining"
                       /\ position' \in [Partitions -> Positions]
                       /\ muted' = {} /\ present' \in BOOLEAN
                       /\ assignment_epoch' \in Nat
                       /\ assigned' = {} /\ inflight' = {} /\ calls' = {}
                       /\ attempts' \in [Partitions -> [Offsets -> Nat]]
                       /\ acknowledged' \in [Partitions -> SUBSET Offsets]
                       /\ safe_next' \in [Partitions -> Positions \cup {NoOffset}]
                       /\ paused' \in [Partitions -> Pause \cup {NoPause}]
                       /\ before' = before /\ target' = target
  <2>1. /\ NoneOf(0) \in [Partitions -> Positions]
        /\ NoneOf(NoOffset) \in [Partitions -> Positions \cup {NoOffset}]
        /\ NoneOf({}) \in [Partitions -> SUBSET Offsets]
        /\ NoneOf(NoPause) \in [Partitions -> Pause \cup {NoPause}]
    BY DEF NoneOf
  <2>2. NoneOf([o \in Offsets |-> 0]) \in [Partitions -> [Offsets -> Nat]]
    BY DEF NoneOf
  <2>3. FALSE \in BOOLEAN /\ 0 \in Nat
    OBVIOUS
  <2> QED
    BY <2>1, <2>2, <2>3 DEF DiscardState
<1>26. CASE Recover
  BY <1>25, <1>26 DEF TypeOK, Recover
<1>27. CASE Close
  BY <1>25, <1>27 DEF TypeOK, Close
<1>28. CASE Restart
  <2>1. closed' \in BOOLEAN
    BY <1>28 DEF Restart
  <2> QED
    BY <1>25, <1>28, <2>1 DEF TypeOK, Restart
<1>29. CASE Tick
  BY <1>29 DEF TypeOK, Tick
<1>30. CASE Evict
  BY <1>30 DEF TypeOK, Evict
<1>31. ASSUME NEW p \in Partitions, Append(p)
       PROVE  TypeOK'
  BY <1>31, LogAssumption DEF TypeOK, Append, Positions
<1>32. ASSUME NEW p \in Partitions, NEW n \in Positions, OtherMemberCommits(p, n)
       PROVE  TypeOK'
  BY <1>22, <1>32 DEF TypeOK, OtherMemberCommits
<1>33. ASSUME NEW p \in Partitions, NEW n \in Positions, OtherGroupPosition(p, n)
       PROVE  TypeOK'
  BY <1>22, <1>33 DEF TypeOK, OtherGroupPosition
<1>34. CASE UNCHANGED vars
  BY <1>34 DEF TypeOK
<1>35. CASE PollStep
  BY <1>1, <1>2, <1>3, <1>4, <1>5, <1>6, <1>7, <1>8, <1>9, <1>10, <1>35 DEF PollStep
<1>36. CASE RebalanceStep
  BY <1>11, <1>12, <1>36 DEF RebalanceStep
<1>37. CASE CallStep
  <2>1. RetryAfter \subseteq Nat /\ 0 \in Nat
    BY OptionAssumption
  <2> QED
    BY <1>13, <1>14, <1>15, <1>16, <1>17, <1>18, <1>19, <1>20, <1>37, <2>1 DEF CallStep
<1>38. CASE AdminStep
  BY <1>21, <1>23, <1>24, <1>26, <1>27, <1>28, <1>38 DEF AdminStep
<1>39. CASE EnvironmentStep
  BY <1>29, <1>30, <1>31, <1>32, <1>33, <1>39 DEF EnvironmentStep
<1> QED
  BY <1>34, <1>35, <1>36, <1>37, <1>38, <1>39 DEF Next

\* The state of the consumer engine, its client and the broker stays well
\* typed: no operation of the engine leaves the domains of its fields.
THEOREM TypeCorrect == Spec => []TypeOK
<1> QED
  BY InitType, NextType, PTL DEF Spec

-----------------------------------------------------------------------------
(* At-least-once delivery.  The proof is by the invariant SafetyInv.       *)

\* A step that processes nothing and commits nothing keeps SafetyInv if it
\* forgets deliveries, acknowledgements and assignments only, and moves the
\* client only where safe_next is known.
LEMMA QuietStep ==
    ASSUME TypeOK, SafetyInv,
           UNCHANGED <<resolved, committed, safe_next>>,
           dead' \subseteq dead,
           lock' # "dead-letter" => dead' = {},
           assigned' \subseteq assigned,
           \A p \in Partitions : acknowledged'[p] \subseteq acknowledged[p],
           \A i \in inflight' : safe_next[i.partition] # NoOffset,
           \A p \in Partitions : paused'[p] # NoPause => safe_next[p] # NoOffset,
           \A p \in assigned' : safe_next[p] = NoOffset => position'[p] = position[p]
    PROVE  SafetyInv'
<1>1. NothingSkipped' /\ SafeNextCovered'
  BY DEF SafetyInv, NothingSkipped, SafeNextCovered, Covered
<1>2. AcknowledgedIsProcessed'
  BY DEF SafetyInv, AcknowledgedIsProcessed
<1>3. StartCovered'
  BY DEF SafetyInv, StartCovered, Covered
<1>4. SafeNextKnown' /\ DeadLettersPublished'
  BY DEF SafetyInv, SafeNextKnown, DeadLettersPublished
<1> QED
  BY <1>1, <1>2, <1>3, <1>4 DEF SafetyInv

\* A known token belongs to a partition whose safe offset is known.
LEMMA KnownToken ==
    ASSUME SafetyInv, NEW t \in Token, Known(t)
    PROVE  safe_next[t.partition] # NoOffset /\ Original(t) = safe_next[t.partition]
  BY DEF SafetyInv, SafeNextKnown, Known, Original

\* The locked part of acknowledge keeps SafetyInv once the delivery it resolves
\* counts as processed: the safe run consists of acknowledged offsets.
LEMMA AcknowledgeSafe ==
    ASSUME TypeOK, SafetyInv, NEW t \in Token, Acknowledge(t),
           \A p \in Partitions : resolved[p] \subseteq resolved'[p],
           t.offset \in resolved'[t.partition],
           dead' = {}
    PROVE  SafetyInv'
<1>1. t.partition \in Partitions /\ t.offset \in Offsets
  BY DEF Token
<1>2. /\ safe_next[t.partition] # NoOffset
      /\ Original(t) = safe_next[t.partition]
  BY KnownToken DEF Acknowledge, Acknowledgeable
<1>3. Acked(t) \subseteq resolved'[t.partition]
  BY <1>1 DEF SafetyInv, AcknowledgedIsProcessed, Acked
<1>4. \A safe \in Positions : SafeRun(t, safe) =>
          \A o \in Offsets : o < safe /\ Record[t.partition][o] = "event"
                                => o \in resolved'[t.partition]
  <2> SUFFICES ASSUME NEW safe \in Positions, SafeRun(t, safe),
                      NEW o \in Offsets, o < safe, Record[t.partition][o] = "event"
               PROVE  o \in resolved'[t.partition]
    OBVIOUS
  <2>1. safe_next[t.partition] \in Positions
    BY <1>1, <1>2 DEF TypeOK
  <2>2. o \in Nat /\ safe \in Nat /\ safe_next[t.partition] \in Nat
    BY <2>1, OffsetFacts
  <2>3. CASE o < safe_next[t.partition]
    BY <1>1, <2>3 DEF SafetyInv, SafeNextCovered, Covered
  <2>4. CASE ~(o < safe_next[t.partition])
    <3>1. o \in Original(t) .. safe - 1
      BY <1>2, <2>2, <2>4
    <3> QED
      BY <1>3, <3>1 DEF SafeRun
  <2> QED
    BY <2>3, <2>4
<1>5. \E safe \in Positions :
          /\ SafeRun(t, safe)
          /\ safe_next' \in {safe_next, [safe_next EXCEPT ![t.partition] = safe]}
          /\ committed' \in {committed, [committed EXCEPT ![t.partition] = safe]}
  <2>1. safe_next[t.partition] \in Positions
    BY <1>1, <1>2 DEF TypeOK
  <2>2. [safe_next EXCEPT ![t.partition] = Original(t)] = safe_next
    BY <1>1, <1>2 DEF TypeOK
  <2>3. CASE AckHeld(t)
    BY <1>2, <2>1, <2>2, <2>3 DEF AckHeld
  <2>4. CASE \E safe \in Positions : AckCommits(t, safe)
    BY <2>4 DEF AckCommits
  <2>5. CASE \E safe \in Positions : AckCommitFails(t, safe)
    BY <2>2, <2>5 DEF AckCommitFails
  <2> QED
    BY <2>3, <2>4, <2>5 DEF Acknowledge
<1>6. \E safe : TakeRun(t, safe)
  BY DEF Acknowledge, AckHeld, AckCommits, AckCommitFails
<1>7. inflight' \subseteq inflight
  BY DEF Acknowledge, AckHeld, AckCommits, AckCommitFails, ForgetDelivery
<1>8. NothingSkipped'
  BY <1>1, <1>4, <1>5 DEF TypeOK, SafetyInv, NothingSkipped, Covered
<1>9. SafeNextCovered'
  <2> PICK safe \in Positions :
          /\ SafeRun(t, safe)
          /\ safe_next' \in {safe_next, [safe_next EXCEPT ![t.partition] = safe]}
    BY <1>5
  <2>1. CASE safe_next' = safe_next
    BY <2>1 DEF SafetyInv, SafeNextCovered, Covered
  <2>2. CASE safe_next' = [safe_next EXCEPT ![t.partition] = safe]
    BY <1>1, <1>4, <2>2 DEF TypeOK, SafetyInv, SafeNextCovered, Covered
  <2> QED
    BY <2>1, <2>2
<1>10. AcknowledgedIsProcessed'
  BY <1>1, <1>3, <1>6 DEF TypeOK, SafetyInv, AcknowledgedIsProcessed, TakeRun
<1>11. \A p \in Partitions : safe_next[p] # NoOffset => safe_next'[p] # NoOffset
  BY <1>1, <1>5, OffsetFacts DEF TypeOK
<1>12. \A p \in Partitions : safe_next'[p] = NoOffset => safe_next[p] = NoOffset
  BY <1>11
<1>13. StartCovered'
  BY <1>12 DEF TypeOK, SafetyInv, StartCovered, Covered, Acknowledge
<1>14. SafeNextKnown'
  <2>1. \A i \in inflight : i.partition \in Partitions
    BY DEF TypeOK, Token
  <2>2. paused' = paused
    BY DEF Acknowledge
  <2> QED
    BY <1>7, <1>11, <2>1, <2>2 DEF SafetyInv, SafeNextKnown
<1>15. DeadLettersPublished'
  BY DEF DeadLettersPublished
<1> QED
  BY <1>8, <1>9, <1>10, <1>13, <1>14, <1>15 DEF SafetyInv

\* The initial state satisfies SafetyInv.
LEMMA InitSafe == Init => SafetyInv
<1> SUFFICES ASSUME Init PROVE SafetyInv
  OBVIOUS
<1>1. \A p \in Partitions : Covered(p, NoOffset)
  BY OffsetFacts DEF Covered, NoOffset
<1> QED
  BY <1>1 DEF Init, NoneOf, SafetyInv, NothingSkipped, SafeNextCovered,
              AcknowledgedIsProcessed, StartCovered, SafeNextKnown, DeadLettersPublished

\* Every step keeps SafetyInv, if the client starts at the earliest record of a
\* partition without a commit and no other member runs group_position.
LEMMA NextSafe ==
    ASSUME AutoOffsetReset = "earliest", "other-group-position" \notin Env
    PROVE  TypeOK /\ SafetyInv /\ [Next]_vars => SafetyInv'
<1> SUFFICES ASSUME TypeOK, SafetyInv, [Next]_vars PROVE SafetyInv'
  OBVIOUS
<1>a. /\ \A i \in inflight : i.partition \in Partitions /\ safe_next[i.partition] # NoOffset
      /\ \A p \in Partitions : paused[p] # NoPause => safe_next[p] # NoOffset
      /\ lock # "dead-letter" => dead = {}
  BY DEF TypeOK, Token, SafetyInv, SafeNextKnown, DeadLettersPublished
<1>b. \A E \in SUBSET ExpiredPartitions, D \in SUBSET DuePartitions,
         Q \in SUBSET DuePartitions :
        Scanned(E, D, Q) =>
          /\ \A p \in Partitions : acknowledged'[p] \subseteq acknowledged[p]
          /\ \A i \in inflight' : safe_next[i.partition] # NoOffset
          /\ \A p \in Partitions : paused'[p] # NoPause => safe_next[p] # NoOffset
          /\ \A p \in Partitions : safe_next[p] = NoOffset => position'[p] = position[p]
  <2> SUFFICES ASSUME NEW E \in SUBSET ExpiredPartitions, NEW D \in SUBSET DuePartitions,
                      NEW Q \in SUBSET DuePartitions, Scanned(E, D, Q)
               PROVE  /\ \A p \in Partitions : acknowledged'[p] \subseteq acknowledged[p]
                      /\ \A i \in inflight' : safe_next[i.partition] # NoOffset
                      /\ \A p \in Partitions : paused'[p] # NoPause => safe_next[p] # NoOffset
                      /\ \A p \in Partitions : safe_next[p] = NoOffset => position'[p] = position[p]
    OBVIOUS
  <2>1. \A p \in E : safe_next[p] # NoOffset
    BY <1>a DEF ExpiredPartitions, ExpiredOffsets
  <2>2. \A p \in D \cup Q : safe_next[p] # NoOffset
    BY <1>a DEF DuePartitions
  <2>3. \A p \in Partitions : safe_next[p] = NoOffset => position'[p] = position[p]
    BY <2>1, <2>2 DEF TypeOK, Scanned
  <2>4. \A p \in Partitions : acknowledged'[p] \subseteq acknowledged[p]
    BY DEF Scanned
  <2> QED
    BY <1>a, <2>3, <2>4 DEF Scanned
<1>1. CASE PollBegin
  BY <1>1, <1>a, QuietStep DEF TypeOK, PollBegin
<1>2. CASE PollScan
  <2>1. Scanned(ExpiredPartitions, DuePartitions, {})
    BY <1>2 DEF PollScan
  <2>2. ExpiredPartitions \in SUBSET ExpiredPartitions /\ DuePartitions \in SUBSET DuePartitions
    OBVIOUS
  <2>3. /\ \A p \in Partitions : acknowledged'[p] \subseteq acknowledged[p]
        /\ \A i \in inflight' : safe_next[i.partition] # NoOffset
        /\ \A p \in Partitions : paused'[p] # NoPause => safe_next[p] # NoOffset
        /\ \A p \in Partitions : safe_next[p] = NoOffset => position'[p] = position[p]
    BY <1>b, <2>1, <2>2
  <2> QED
    BY <1>2, <1>a, <2>3, QuietStep DEF TypeOK, PollScan
<1>3. CASE PollScanFails
  <2>1. \E E \in SUBSET ExpiredPartitions, D \in SUBSET DuePartitions,
           Q \in SUBSET DuePartitions : Scanned(E, D, Q)
    BY <1>3 DEF PollScanFails
  <2>2. /\ \A p \in Partitions : acknowledged'[p] \subseteq acknowledged[p]
        /\ \A i \in inflight' : safe_next[i.partition] # NoOffset
        /\ \A p \in Partitions : paused'[p] # NoPause => safe_next[p] # NoOffset
        /\ \A p \in Partitions : safe_next[p] = NoOffset => position'[p] = position[p]
    BY <1>b, <2>1
  <2> QED
    BY <1>3, <1>a, <2>2, QuietStep DEF TypeOK, PollScanFails
<1>4. CASE FetchNothing
  BY <1>4, <1>a, QuietStep DEF TypeOK, FetchNothing
<1>5. CASE PollFails
  BY <1>5, <1>a, QuietStep DEF TypeOK, PollFails
<1>6. CASE PollReturn
  BY <1>6, <1>a, QuietStep DEF TypeOK, PollReturn
<1>7. CASE Refused
  BY <1>7, <1>a, QuietStep DEF TypeOK, Refused
<1>8. ASSUME NEW p \in Partitions, NEW o \in Offsets, Fetchable(p, o),
             safe_next[p] = NoOffset
      PROVE  Covered(p, o)
  <2> SUFFICES ASSUME NEW x \in Offsets, x < o, Record[p][x] = "event"
               PROVE  x \in resolved[p]
    BY DEF Covered
  <2>1. x \in Nat /\ o \in Nat /\ position[p] \in Nat
    BY OffsetFacts DEF TypeOK
  <2>2. x < position[p]
    BY <1>8, <2>1 DEF Fetchable
  <2> QED
    BY <1>8, <2>2 DEF Fetchable, SafetyInv, StartCovered, Covered
<1>9. ASSUME NEW p \in Partitions, NEW o \in Offsets, Deliver(p, o)
      PROVE  SafetyInv'
  <2>1. safe_next[p] = NoOffset => Covered(p, o)
    BY <1>8, <1>9 DEF Deliver
  <2>2. /\ safe_next' = [safe_next EXCEPT ![p] = IF safe_next[p] = NoOffset THEN o
                                                 ELSE safe_next[p]]
        /\ UNCHANGED <<resolved, committed, acknowledged, assigned, dead>>
        /\ lock = "fetch"
    BY <1>9 DEF Deliver, Fetchable
  <2>3. NothingSkipped' /\ AcknowledgedIsProcessed'
    BY <2>2 DEF SafetyInv, NothingSkipped, AcknowledgedIsProcessed, Covered
  <2>4. SafeNextCovered'
    BY <2>1, <2>2 DEF TypeOK, SafetyInv, SafeNextCovered, Covered
  <2>5. /\ safe_next'[p] # NoOffset
        /\ \A q \in Partitions \ {p} : safe_next'[q] = safe_next[q]
    BY <2>2, OffsetFacts DEF TypeOK
  <2>6. StartCovered'
    <3>1. \A q \in Partitions \ {p} : position'[q] = position[q]
      BY <1>9 DEF TypeOK, Deliver
    <3> QED
      BY <2>2, <2>5, <3>1 DEF TypeOK, SafetyInv, StartCovered, Covered
  <2>7. SafeNextKnown'
    <3>1. \A i \in inflight' : i \in inflight \/ i.partition = p
      BY <1>9 DEF Deliver
    <3>2. \A q \in Partitions \ {p} : paused'[q] = paused[q]
      BY <1>9 DEF TypeOK, Deliver
    <3> QED
      BY <1>a, <2>5, <3>1, <3>2 DEF SafeNextKnown
  <2>8. DeadLettersPublished'
    BY <1>a, <2>2 DEF DeadLettersPublished
  <2> QED
    BY <2>3, <2>4, <2>6, <2>7, <2>8 DEF SafetyInv
<1>10. ASSUME NEW p \in Partitions, NEW o \in Offsets, HoldBack(p, o) \/ HoldBackFails(p, o)
       PROVE  SafetyInv'
  <2>1. paused[p] # NoPause
    BY <1>10, OffsetFacts DEF HoldBack, HoldBackFails, HeldBack, NoPause
  <2> QED
    BY <1>10, <1>a, <2>1, QuietStep DEF TypeOK, HoldBack, HoldBackFails, Fetchable
<1>11. ASSUME NEW p \in Partitions, NEW o \in Offsets, Malformed(p, o)
       PROVE  SafetyInv'
  <2>1. safe_next[p] = NoOffset => Covered(p, o)
    BY <1>8, <1>11 DEF Malformed
  <2>2. safe_next[p] = NoOffset => Covered(p, o + 1)
    <3>1. \A x \in Offsets : x < o + 1 => x < o \/ x = o
      BY OffsetFacts
    <3>2. Record[p][o] # "event"
      BY <1>11 DEF Malformed
    <3> QED
      BY <2>1, <3>1, <3>2 DEF Covered
  <2>3. /\ UNCHANGED <<resolved, committed, acknowledged, assigned, dead, safe_next,
                       inflight, paused>>
        /\ lock = "fetch"
        /\ position' = [position EXCEPT ![p] = o + 1]
    BY <1>11 DEF Malformed, Fetchable
  <2>4. StartCovered'
    BY <2>2, <2>3 DEF TypeOK, SafetyInv, StartCovered, Covered
  <2> QED
    BY <1>a, <2>3, <2>4 DEF SafetyInv, NothingSkipped, SafeNextCovered,
        AcknowledgedIsProcessed, SafeNextKnown, DeadLettersPublished, Covered
<1>12. CASE Revoked
  BY <1>12, <1>a, QuietStep DEF TypeOK, Revoked
<1>13. ASSUME NEW S \in SUBSET Partitions, Assigned(S)
       PROVE  SafetyInv'
  <2>1. \A p \in Partitions : Covered(p, StartOffset(p))
    <3> TAKE p \in Partitions
    <3>1. CASE committed[p] # NoOffset
      BY <3>1 DEF StartOffset, SafetyInv, NothingSkipped
    <3>2. CASE committed[p] = NoOffset
      <4>1. StartOffset(p) = 0
        BY <3>2 DEF StartOffset
      <4> QED
        BY <4>1, OffsetFacts DEF Covered
    <3> QED
      BY <3>1, <3>2
  <2>2. /\ UNCHANGED <<committed, acknowledged, dead, safe_next, inflight, paused, lock>>
        /\ \A p \in S : position'[p] = StartOffset(p)
        /\ assigned' = S
    BY <1>13 DEF Assigned
  <2>3. resolved' = resolved
    BY <1>13 DEF TypeOK, Assigned
  <2>4. StartCovered'
    BY <2>1, <2>2, <2>3 DEF StartCovered, Covered
  <2> QED
    BY <2>2, <2>3, <2>4 DEF SafetyInv, NothingSkipped, SafeNextCovered,
        AcknowledgedIsProcessed, SafeNextKnown, DeadLettersPublished, Covered
<1>14. ASSUME NEW op, NEW t, NEW retry, CallBegin(op, t, retry)
       PROVE  SafetyInv'
  BY <1>14, <1>a, QuietStep DEF TypeOK, CallBegin
<1>15. ASSUME NEW c \in calls, CallRejected(c)
       PROVE  SafetyInv'
  BY <1>15, <1>a, QuietStep DEF TypeOK, CallRejected
<1>16. ASSUME NEW c \in calls, AcknowledgeCall(c)
       PROVE  SafetyInv'
  <2>1. /\ c.token \in Token /\ c.token.partition \in Partitions
        /\ Acknowledge(c.token) /\ lock = "free" /\ dead' = dead
        /\ resolved' = [resolved EXCEPT ![c.token.partition] = @ \cup {c.token.offset}]
    BY <1>16 DEF TypeOK, Call, Token, AcknowledgeCall, Resolve
  <2>2. /\ \A p \in Partitions : resolved[p] \subseteq resolved'[p]
        /\ c.token.offset \in resolved'[c.token.partition]
    BY <2>1 DEF TypeOK
  <2> QED
    BY <1>a, <2>1, <2>2, AcknowledgeSafe
<1>17. ASSUME NEW c \in calls, Redeliver(c)
       PROVE  SafetyInv'
  <2>1. c.token \in Token /\ c.token.partition \in Partitions /\ Known(c.token)
    BY <1>17 DEF TypeOK, Call, Token, Redeliver
  <2>2. safe_next[c.token.partition] # NoOffset
    BY <2>1, KnownToken
  <2>3. \A p \in Partitions : safe_next[p] = NoOffset =>
            position'[p] = position[p] /\ paused'[p] = paused[p]
    BY <1>17, <2>1, <2>2 DEF TypeOK, Redeliver
  <2>4. \A p \in Partitions : paused'[p] # NoPause => safe_next[p] # NoOffset
    BY <1>a, <2>3
  <2>5. \A i \in inflight' : safe_next[i.partition] # NoOffset
    BY <1>17, <1>a DEF Redeliver
  <2>6. \A p \in assigned : p \in Partitions
    BY DEF TypeOK
  <2> QED
    BY <1>17, <1>a, <2>3, <2>4, <2>5, <2>6, QuietStep DEF Redeliver
<1>18. ASSUME NEW c \in calls, DeadLetterPublish(c)
       PROVE  SafetyInv'
  <2>1. /\ c.token.partition \in Partitions
        /\ resolved' = [resolved EXCEPT ![c.token.partition] = @ \cup {c.token.offset}]
        /\ UNCHANGED <<committed, acknowledged, safe_next, inflight, paused, assigned, position>>
        /\ dead' = {c.token} /\ lock' = "dead-letter"
    BY <1>18 DEF TypeOK, Call, Token, DeadLetterPublish, Resolve
  <2>2. /\ \A p \in Partitions : resolved[p] \subseteq resolved'[p]
        /\ c.token.offset \in resolved'[c.token.partition]
    BY <2>1 DEF TypeOK
  <2>3. NothingSkipped' /\ SafeNextCovered' /\ AcknowledgedIsProcessed'
    BY <2>1, <2>2 DEF SafetyInv, NothingSkipped, SafeNextCovered, AcknowledgedIsProcessed, Covered
  <2>4. StartCovered'
    BY <2>1, <2>2 DEF TypeOK, SafetyInv, StartCovered, Covered
  <2>5. SafeNextKnown' /\ DeadLettersPublished'
    BY <2>1, <2>2 DEF SafetyInv, SafeNextKnown, DeadLettersPublished
  <2> QED
    BY <2>3, <2>4, <2>5 DEF SafetyInv
<1>19. ASSUME NEW c \in calls, DeadLetterPublishFails(c)
       PROVE  SafetyInv'
  BY <1>19, <1>a, QuietStep DEF TypeOK, DeadLetterPublishFails
<1>20. ASSUME NEW t \in dead, DeadLetterAcknowledge(t)
       PROVE  SafetyInv'
  <2>1. t \in Token /\ Acknowledge(t) /\ resolved' = resolved /\ dead' = {}
    BY <1>20 DEF TypeOK, DeadLetterAcknowledge
  <2>2. t.offset \in resolved'[t.partition]
    BY <2>1 DEF SafetyInv, DeadLettersPublished
  <2> QED
    BY <2>1, <2>2, AcknowledgeSafe
<1>21. ASSUME NEW t \in dead, DeadLetterTimeout(t)
       PROVE  SafetyInv'
  BY <1>21, <1>a, QuietStep DEF TypeOK, DeadLetterTimeout
<1>22. ASSUME NEW tgt \in [Partitions -> Positions], GroupPositionBegin(tgt)
       PROVE  SafetyInv'
  BY <1>22, <1>a, QuietStep DEF TypeOK, GroupPositionBegin
<1>23. \A n \in Positions, o \in Offsets : o < n => o \in 0 .. n - 1
  BY OffsetFacts
<1>24. CASE GroupPositionCommit
  <2>1. \A p \in Partitions : resolved'[p] = 0 .. target[p] - 1 /\ target[p] \in Positions
    BY <1>24 DEF TypeOK, GroupPositionCommit
  <2>2. committed' = target /\ safe_next' = target
    BY <1>24 DEF GroupPositionCommit
  <2>3. NothingSkipped' /\ SafeNextCovered'
    BY <1>23, <2>1, <2>2 DEF NothingSkipped, SafeNextCovered, Covered
  <2>4. AcknowledgedIsProcessed'
    BY <1>24 DEF GroupPositionCommit, NoneOf, AcknowledgedIsProcessed
  <2>5. \A p \in Partitions : safe_next'[p] # NoOffset
    BY <2>1, <2>2, OffsetFacts
  <2>6. StartCovered'
    BY <1>24, <2>5 DEF TypeOK, GroupPositionCommit, StartCovered
  <2>7. SafeNextKnown'
    BY <1>24, <2>5 DEF GroupPositionCommit, SafeNextKnown
  <2>8. DeadLettersPublished'
    BY <1>24, <1>a DEF GroupPositionCommit, DeadLettersPublished
  <2> QED
    BY <2>3, <2>4, <2>6, <2>7, <2>8 DEF SafetyInv
<1>25. CASE GroupPositionFails
  <2>1. CASE UNCHANGED <<committed, resolved>>
    BY <1>25, <1>a, <2>1, QuietStep DEF TypeOK, GroupPositionFails
  <2>2. CASE /\ committed' = target
             /\ resolved' = [p \in Partitions |-> resolved[p] \cup 0 .. target[p] - 1]
    <3>1. \A p \in Partitions : /\ resolved[p] \subseteq resolved'[p]
                                /\ 0 .. target[p] - 1 \subseteq resolved'[p]
                                /\ target[p] \in Positions
      BY <2>2 DEF TypeOK
    <3>2. UNCHANGED <<acknowledged, safe_next, inflight, paused, assigned, position, dead>>
      BY <1>25 DEF GroupPositionFails
    <3>3. NothingSkipped'
      BY <1>23, <2>2, <3>1 DEF NothingSkipped, Covered
    <3>4. SafeNextCovered' /\ AcknowledgedIsProcessed'
      BY <3>1, <3>2 DEF SafetyInv, SafeNextCovered, AcknowledgedIsProcessed, Covered
    <3>5. StartCovered'
      BY <3>1, <3>2 DEF TypeOK, SafetyInv, StartCovered, Covered
    <3>6. SafeNextKnown' /\ DeadLettersPublished'
      BY <1>25, <1>a, <3>2 DEF GroupPositionFails, SafeNextKnown, DeadLettersPublished
    <3> QED
      BY <3>3, <3>4, <3>5, <3>6 DEF SafetyInv
  <2> QED
    BY <1>25, <2>1, <2>2 DEF GroupPositionFails
<1>26. ASSUME DiscardState, UNCHANGED <<resolved, committed>>, dead' = {}
       PROVE  SafetyInv'
  <2>1. \A p \in Partitions : safe_next'[p] = NoOffset /\ acknowledged'[p] = {}
                                  /\ paused'[p] = NoPause
    BY <1>26 DEF DiscardState, NoneOf
  <2>2. assigned' = {} /\ inflight' = {}
    BY <1>26 DEF DiscardState
  <2>3. NothingSkipped'
    BY <1>26 DEF SafetyInv, NothingSkipped, Covered
  <2>4. SafeNextCovered'
    BY <2>1, OffsetFacts DEF SafeNextCovered, Covered, NoOffset
  <2> QED
    BY <1>26, <2>1, <2>2, <2>3, <2>4 DEF SafetyInv, AcknowledgedIsProcessed,
        StartCovered, SafeNextKnown, DeadLettersPublished
<1>27. CASE Recover
  BY <1>26, <1>27, <1>a DEF Recover
<1>28. CASE Close
  BY <1>26, <1>28, <1>a DEF Close
<1>29. CASE Restart
  BY <1>26, <1>29 DEF Restart
<1>30. CASE Tick
  BY <1>30, <1>a, QuietStep DEF TypeOK, Tick
<1>31. CASE Evict
  BY <1>31, <1>a, QuietStep DEF TypeOK, Evict
<1>32. ASSUME NEW p \in Partitions, Append(p)
       PROVE  SafetyInv'
  BY <1>32, <1>a, QuietStep DEF TypeOK, Append
<1>33. ASSUME NEW p \in Partitions, NEW n \in Positions, OtherMemberCommits(p, n)
       PROVE  SafetyInv'
  <2>1. /\ \A q \in Partitions : resolved[q] \subseteq resolved'[q]
        /\ 0 .. n - 1 \subseteq resolved'[p]
    BY <1>33 DEF TypeOK, OtherMemberCommits
  <2>2. /\ UNCHANGED <<acknowledged, safe_next, inflight, paused, assigned, position, dead, lock>>
        /\ committed' = [committed EXCEPT ![p] = n]
    BY <1>33 DEF OtherMemberCommits
  <2>3. NothingSkipped'
    BY <1>23, <2>1, <2>2 DEF TypeOK, SafetyInv, NothingSkipped, Covered
  <2>4. SafeNextCovered' /\ AcknowledgedIsProcessed'
    BY <2>1, <2>2 DEF SafetyInv, SafeNextCovered, AcknowledgedIsProcessed, Covered
  <2>5. StartCovered'
    BY <2>1, <2>2 DEF TypeOK, SafetyInv, StartCovered, Covered
  <2>6. SafeNextKnown' /\ DeadLettersPublished'
    <3>1. \A t \in dead : t.partition \in Partitions
      BY DEF TypeOK, Token
    <3> QED
      BY <2>1, <2>2, <3>1 DEF SafetyInv, SafeNextKnown, DeadLettersPublished
  <2> QED
    BY <2>3, <2>4, <2>5, <2>6 DEF SafetyInv
<1>34. CASE UNCHANGED vars
  BY <1>34, <1>a, QuietStep DEF TypeOK
<1>35. CASE PollStep
  BY <1>1, <1>2, <1>3, <1>4, <1>5, <1>6, <1>7, <1>9, <1>10, <1>11, <1>35 DEF PollStep
<1>36. CASE RebalanceStep
  BY <1>12, <1>13, <1>36 DEF RebalanceStep
<1>37. CASE CallStep
  BY <1>14, <1>15, <1>16, <1>17, <1>18, <1>19, <1>20, <1>21, <1>37 DEF CallStep
<1>38. CASE AdminStep
  BY <1>22, <1>24, <1>25, <1>27, <1>28, <1>29, <1>38 DEF AdminStep
<1>39. CASE EnvironmentStep
  BY <1>30, <1>31, <1>32, <1>33, <1>39 DEF EnvironmentStep, OtherGroupPosition
<1> QED
  BY <1>34, <1>35, <1>36, <1>37, <1>38, <1>39 DEF Next

\* At-least-once delivery, for every number of partitions and records, every
\* interleaving of polls, calls, rebalances, evictions, crashes and failed or
\* ambiguous commits: the committed offset of the group never passes an Event
\* that nobody has processed.  It needs the reset policy "earliest" and that no
\* other process moves the group's position back.
THEOREM AtLeastOnce ==
    ASSUME AutoOffsetReset = "earliest", "other-group-position" \notin Env
    PROVE  Spec => []NothingSkipped
<1>1. Init => TypeOK /\ SafetyInv
  BY InitType, InitSafe
<1>2. TypeOK /\ SafetyInv /\ [Next]_vars => TypeOK' /\ SafetyInv'
  BY NextType, NextSafe
<1>3. SafetyInv => NothingSkipped
  BY DEF SafetyInv
<1> QED
  BY <1>1, <1>2, <1>3, PTL DEF Spec

-----------------------------------------------------------------------------
(* What the _GroupState remembers concerns the partitions it owns.         *)

\* A step that only forgets deliveries, acknowledgements and pauses.
LEMMA ForgettingStep ==
    ASSUME TypeOK, OwnedInv,
           inflight' \subseteq inflight,
           muted' \subseteq muted,
           \A p \in Partitions : acknowledged'[p] \subseteq acknowledged[p],
           \A p \in Partitions : paused'[p] \in {paused[p], NoPause},
           generation' = "joining" => generation = "joining",
           UNCHANGED <<attempts, assignment_epoch, assigned>>
    PROVE  OwnedInv'
<1>1. /\ \A i \in inflight : /\ i.partition \in assigned
                             /\ i.assignment_epoch = assignment_epoch
                             /\ i.attempt = attempts[i.partition][i.offset]
      /\ \A i, j \in inflight :
            i.partition = j.partition /\ i.offset = j.offset => i = j
      /\ \A p \in Partitions \ assigned :
            paused[p] = NoPause /\ acknowledged[p] = {} /\ p \notin muted
      /\ generation = "joining" => assigned = {}
  BY DEF OwnedInv, OnlyOwnedDeliveries
<1>2. \A p \in Partitions \ assigned :
            paused'[p] = NoPause /\ acknowledged'[p] = {} /\ p \notin muted'
  BY <1>1
<1> QED
  BY <1>1, <1>2 DEF OwnedInv, OnlyOwnedDeliveries

\* A step after which nothing is owned and nothing is remembered.
LEMMA EmptyStep ==
    ASSUME inflight' = {}, muted' = {},
           \A p \in Partitions : acknowledged'[p] = {} /\ paused'[p] = NoPause,
           assigned' = {}
    PROVE  OwnedInv'
  BY DEF OwnedInv, OnlyOwnedDeliveries

\* A delivery whose coordinates a token names is one of an owned partition.
LEMMA KnownIsOwned ==
    ASSUME OwnedInv, NEW t \in Token, Known(t)
    PROVE  t.partition \in assigned
  BY DEF Known, OwnedInv, OnlyOwnedDeliveries

\* The locked part of acknowledge touches owned partitions only, and forgets the
\* delivery together with its attempt count.
LEMMA AcknowledgeOwned ==
    ASSUME TypeOK, OwnedInv, NEW t \in Token, Acknowledge(t)
    PROVE  OwnedInv'
<1>1. /\ t.partition \in assigned /\ t.partition \in Partitions /\ t.offset \in Offsets
      /\ UNCHANGED <<assigned, assignment_epoch, muted, paused, generation>>
  BY KnownIsOwned DEF Acknowledge, Acknowledgeable, Token
<1>2. /\ \A i \in inflight : /\ i.partition \in assigned
                             /\ i.assignment_epoch = assignment_epoch
                             /\ i.attempt = attempts[i.partition][i.offset]
                             /\ i.partition \in Partitions /\ i.offset \in Offsets
      /\ \A i, j \in inflight :
            i.partition = j.partition /\ i.offset = j.offset => i = j
      /\ \A p \in Partitions \ assigned :
            paused[p] = NoPause /\ acknowledged[p] = {} /\ p \notin muted
      /\ generation = "joining" => assigned = {}
  BY DEF OwnedInv, OnlyOwnedDeliveries, TypeOK, Token
<1>3. \E safe : TakeRun(t, safe)
  BY DEF Acknowledge, AckHeld, AckCommits, AckCommitFails
<1>4. \A p \in Partitions \ {t.partition} : acknowledged'[p] = acknowledged[p]
  BY <1>1, <1>3 DEF TypeOK, TakeRun
<1>5. ForgetDelivery(t) \/ UNCHANGED <<inflight, attempts>>
  BY DEF Acknowledge, AckHeld, AckCommits, AckCommitFails
<1>6. \A i \in inflight' : i \in inflight /\ i.attempt = attempts'[i.partition][i.offset]
  <2>1. CASE UNCHANGED <<inflight, attempts>>
    BY <1>2, <2>1
  <2>2. CASE ForgetDelivery(t)
    <3> SUFFICES ASSUME NEW i \in inflight'
                 PROVE  i \in inflight /\ i.attempt = attempts'[i.partition][i.offset]
      OBVIOUS
    <3>1. i \in inflight /\ ~(i.partition = t.partition /\ i.offset = t.offset)
      BY <2>2 DEF ForgetDelivery
    <3>2. attempts'[i.partition][i.offset] = attempts[i.partition][i.offset]
      BY <1>1, <1>2, <2>2, <3>1 DEF TypeOK, ForgetDelivery
    <3> QED
      BY <1>2, <3>1, <3>2
  <2> QED
    BY <1>5, <2>1, <2>2
<1>7. \A p \in Partitions \ assigned : acknowledged'[p] = {}
  BY <1>1, <1>2, <1>4
<1> QED
  BY <1>1, <1>2, <1>6, <1>7 DEF OwnedInv, OnlyOwnedDeliveries

\* Initially nothing is owned.
LEMMA InitOwned == Init => OwnedInv
  BY DEF Init, OwnedInv, OnlyOwnedDeliveries, NoneOf

\* Every step keeps what is owned.
LEMMA NextOwned == TypeOK /\ OwnedInv /\ [Next]_vars => OwnedInv'
<1> SUFFICES ASSUME TypeOK, OwnedInv, [Next]_vars PROVE OwnedInv'
  OBVIOUS
<1>a. ASSUME UNCHANGED <<inflight, muted, acknowledged, paused, attempts,
                         assignment_epoch, assigned>>,
             generation' = "joining" => generation = "joining"
      PROVE  OwnedInv'
  BY <1>a, ForgettingStep
<1>b. ASSUME NEW E \in SUBSET ExpiredPartitions, NEW D \in SUBSET DuePartitions,
             NEW Q \in SUBSET DuePartitions, Scanned(E, D, Q),
             UNCHANGED <<generation, attempts, assignment_epoch, assigned>>
      PROVE  OwnedInv'
  <2>1. /\ inflight' \subseteq inflight /\ muted' \subseteq muted
        /\ \A p \in Partitions : acknowledged'[p] \subseteq acknowledged[p]
        /\ \A p \in Partitions : paused'[p] \in {paused[p], NoPause}
    BY <1>b DEF Scanned
  <2> QED
    BY <1>b, <2>1, ForgettingStep
<1>c. /\ \A i \in inflight : /\ i.partition \in assigned
                             /\ i.assignment_epoch = assignment_epoch
                             /\ i.attempt = attempts[i.partition][i.offset]
                             /\ i.partition \in Partitions /\ i.offset \in Offsets
      /\ \A i, j \in inflight :
            i.partition = j.partition /\ i.offset = j.offset => i = j
      /\ \A p \in Partitions \ assigned :
            paused[p] = NoPause /\ acknowledged[p] = {} /\ p \notin muted
      /\ generation = "joining" => assigned = {}
  BY DEF OwnedInv, OnlyOwnedDeliveries, TypeOK, Token
<1>1. CASE PollBegin
  BY <1>1, <1>a DEF PollBegin
<1>2. CASE PollScan
  <2>1. /\ ExpiredPartitions \in SUBSET ExpiredPartitions
        /\ DuePartitions \in SUBSET DuePartitions
        /\ {} \in SUBSET DuePartitions
    OBVIOUS
  <2> QED
    BY <1>2, <1>b, <2>1 DEF PollScan
<1>3. CASE PollScanFails
  <2>1. \E E \in SUBSET ExpiredPartitions, D \in SUBSET DuePartitions,
           Q \in SUBSET DuePartitions : Scanned(E, D, Q)
    BY <1>3 DEF PollScanFails
  <2> QED
    BY <1>3, <1>b, <2>1 DEF PollScanFails
<1>4. CASE FetchNothing \/ PollFails \/ PollReturn \/ Refused
  BY <1>4, <1>a DEF FetchNothing, PollFails, PollReturn, Refused
<1>5. ASSUME NEW p \in Partitions, NEW o \in Offsets, Deliver(p, o)
      PROVE  OwnedInv'
  <2> DEFINE t == [partition |-> p, offset |-> o,
                   assignment_epoch |-> assignment_epoch,
                   attempt |-> attempts[p][o] + 1,
                   expires_at |-> now + AckTimeout]
             kept == {i \in inflight : ~(i.partition = p /\ i.offset = o)}
  <2>1. /\ p \in assigned
        /\ inflight' = kept \cup {t}
        /\ attempts' = [attempts EXCEPT ![p][o] = @ + 1]
        /\ UNCHANGED <<generation, muted, acknowledged, assigned, assignment_epoch>>
        /\ \A q \in Partitions \ {p} : paused'[q] = paused[q]
    BY <1>5 DEF TypeOK, Deliver, Fetchable
  <2>2. attempts'[p][o] = attempts[p][o] + 1
    BY <2>1 DEF TypeOK
  <2>3. \A i \in kept : attempts'[i.partition][i.offset] = attempts[i.partition][i.offset]
    BY <1>c, <2>1 DEF TypeOK
  <2>4. /\ t.partition = p /\ t.offset = o /\ t.assignment_epoch = assignment_epoch
        /\ t.attempt = attempts'[p][o]
    BY <2>2
  <2>5. \A i \in kept : i \in inflight /\ ~(i.partition = p /\ i.offset = o)
    OBVIOUS
  <2> HIDE DEF t, kept
  <2>6. \A i \in inflight' : i \in kept \/ i = t
    BY <2>1
  <2>7. \A i \in inflight' : /\ i.partition \in assigned
                             /\ i.assignment_epoch = assignment_epoch
                             /\ i.attempt = attempts'[i.partition][i.offset]
    BY <1>c, <2>1, <2>3, <2>4, <2>5, <2>6
  <2>8. \A i, j \in inflight' :
            i.partition = j.partition /\ i.offset = j.offset => i = j
    BY <1>c, <2>4, <2>5, <2>6
  <2>9. \A q \in Partitions \ assigned :
            paused'[q] = NoPause /\ acknowledged[q] = {} /\ q \notin muted
    BY <1>c, <2>1
  <2> QED
    BY <1>c, <2>1, <2>7, <2>8, <2>9 DEF OwnedInv, OnlyOwnedDeliveries
<1>6. ASSUME NEW p \in Partitions, NEW o \in Offsets,
             HoldBack(p, o) \/ HoldBackFails(p, o) \/ Malformed(p, o)
      PROVE  OwnedInv'
  BY <1>6, <1>a DEF HoldBack, HoldBackFails, Malformed
<1>7. CASE Revoked
  <2>1. \A i \in inflight : i.partition \in assigned
    BY <1>c
  <2>2. inflight' = {} /\ muted' = {} /\ assigned' = {}
    BY <1>7, <2>1 DEF Revoked
  <2>3. \A p \in Partitions : acknowledged'[p] = {} /\ paused'[p] = NoPause
    BY <1>7, <1>c DEF Revoked
  <2> QED
    BY <2>2, <2>3, EmptyStep
<1>8. ASSUME NEW S \in SUBSET Partitions, Assigned(S)
      PROVE  OwnedInv'
  <2>1. generation = "joining" /\ generation' = "stable"
    BY <1>8 DEF Assigned
  <2>2. inflight = {} /\ muted = {}
    BY <1>c, <2>1 DEF TypeOK
  <2>3. \A p \in Partitions : acknowledged[p] = {} /\ paused[p] = NoPause
    BY <1>c, <2>1
  <2>4. UNCHANGED <<inflight, muted, acknowledged, paused>>
    BY <1>8 DEF Assigned
  <2> QED
    BY <2>1, <2>2, <2>3, <2>4 DEF OwnedInv, OnlyOwnedDeliveries
<1>9. ASSUME NEW op, NEW t, NEW retry, CallBegin(op, t, retry)
      PROVE  OwnedInv'
  BY <1>9, <1>a DEF CallBegin
<1>10. ASSUME NEW c \in calls, CallRejected(c) \/ DeadLetterPublish(c) \/ DeadLetterPublishFails(c)
       PROVE  OwnedInv'
  BY <1>10, <1>a DEF CallRejected, DeadLetterPublish, DeadLetterPublishFails
<1>11. ASSUME NEW c \in calls, AcknowledgeCall(c)
       PROVE  OwnedInv'
  BY <1>11, AcknowledgeOwned DEF TypeOK, Call, AcknowledgeCall
<1>12. ASSUME NEW c \in calls, Redeliver(c)
       PROVE  OwnedInv'
  <2> DEFINE q == c.token.partition
  <2>1. c.token \in Token /\ q \in Partitions
    BY DEF TypeOK, Call, Token
  <2>2. q \in assigned
    BY <1>12, <2>1, KnownIsOwned DEF Redeliver
  <2>3. \A p \in Partitions \ {q} : paused'[p] = paused[p] /\ (p \in muted' => p \in muted)
    BY <1>12, <2>1 DEF TypeOK, Redeliver
  <2>4. /\ inflight' \subseteq inflight
        /\ UNCHANGED <<generation, acknowledged, attempts, assigned, assignment_epoch>>
    BY <1>12 DEF Redeliver
  <2>5. \A p \in Partitions \ assigned :
            paused'[p] = NoPause /\ acknowledged[p] = {} /\ p \notin muted'
    BY <1>c, <2>2, <2>3
  <2> QED
    BY <1>c, <2>4, <2>5 DEF OwnedInv, OnlyOwnedDeliveries
<1>13. ASSUME NEW t \in dead, DeadLetterAcknowledge(t)
       PROVE  OwnedInv'
  BY <1>13, AcknowledgeOwned DEF TypeOK, DeadLetterAcknowledge
<1>14. ASSUME NEW t \in dead, DeadLetterTimeout(t)
       PROVE  OwnedInv'
  BY <1>14, <1>a DEF DeadLetterTimeout
<1>15. ASSUME NEW tgt, GroupPositionBegin(tgt)
       PROVE  OwnedInv'
  BY <1>15, <1>a DEF GroupPositionBegin
<1>16. CASE GroupPositionCommit
  <2>1. /\ inflight' = {} /\ UNCHANGED <<generation, muted, assigned, paused>>
        /\ \A p \in Partitions : acknowledged'[p] = {}
    BY <1>16 DEF GroupPositionCommit, NoneOf
  <2> QED
    BY <1>c, <2>1 DEF OwnedInv, OnlyOwnedDeliveries
<1>17. CASE GroupPositionFails
  BY <1>17, <1>a DEF GroupPositionFails
<1>18. CASE Recover \/ Close \/ Restart
  <2>1. DiscardState
    BY <1>18 DEF Recover, Close, Restart
  <2>2. /\ inflight' = {} /\ muted' = {} /\ assigned' = {}
        /\ \A p \in Partitions : acknowledged'[p] = {} /\ paused'[p] = NoPause
    BY <2>1 DEF DiscardState, NoneOf
  <2> QED
    BY <2>2, EmptyStep
<1>19. CASE Tick \/ Evict
  BY <1>19, <1>a DEF Tick, Evict
<1>20. ASSUME NEW p, NEW n, Append(p) \/ OtherMemberCommits(p, n) \/ OtherGroupPosition(p, n)
       PROVE  OwnedInv'
  BY <1>20, <1>a DEF Append, OtherMemberCommits, OtherGroupPosition
<1>21. CASE UNCHANGED vars
  BY <1>21, <1>a
<1>22. CASE PollStep
  BY <1>1, <1>2, <1>3, <1>4, <1>5, <1>6, <1>22 DEF PollStep
<1>23. CASE RebalanceStep
  BY <1>7, <1>8, <1>23 DEF RebalanceStep
<1>24. CASE CallStep
  BY <1>9, <1>10, <1>11, <1>12, <1>13, <1>14, <1>24 DEF CallStep
<1>25. CASE AdminStep
  BY <1>15, <1>16, <1>17, <1>18, <1>25 DEF AdminStep
<1>26. CASE EnvironmentStep
  BY <1>19, <1>20, <1>26 DEF EnvironmentStep
<1> QED
  BY <1>21, <1>22, <1>23, <1>24, <1>25, <1>26 DEF Next

\* Fencing of stale deliveries, for every instance and every environment: the
\* inflight entries a token is compared with belong to owned partitions and to the
\* current assignment epoch, one per record, and a partition the member has lost
\* leaves no pause and no acknowledged offset behind.
THEOREM DeliveriesAreOwned == Spec => []OnlyOwnedDeliveries
<1>1. Init => TypeOK /\ OwnedInv
  BY InitType, InitOwned
<1>2. TypeOK /\ OwnedInv /\ [Next]_vars => TypeOK' /\ OwnedInv'
  BY NextType, NextOwned
<1>3. OwnedInv => OnlyOwnedDeliveries
  BY DEF OwnedInv
<1> QED
  BY <1>1, <1>2, <1>3, PTL DEF Spec

-----------------------------------------------------------------------------
(* group_position against the other threads of this process.               *)

\* While group_position holds the lock nothing in this process commits.
LEMMA NextCompared ==
    ASSUME "competitor" \notin Env, "other-group-position" \notin Env,
           TypeOK, ComparedIsCurrent, [Next]_vars
    PROVE  ComparedIsCurrent'
<1>a. ASSUME lock' # "group-position" \/ UNCHANGED <<lock, committed, before>>
      PROVE  ComparedIsCurrent'
  BY <1>a DEF ComparedIsCurrent, CommittedPosition
<1>1. CASE PollStep
  BY <1>1, <1>a DEF PollStep, PollBegin, PollScan, PollScanFails, FetchNothing,
      PollFails, PollReturn, Refused, Deliver, HoldBack, HoldBackFails, Malformed
<1>2. CASE RebalanceStep
  BY <1>2, <1>a DEF RebalanceStep, Revoked, Assigned
<1>3. CASE CallStep
  <2>1. ASSUME NEW c \in calls, AcknowledgeCall(c)
        PROVE  lock' # "group-position"
    BY <2>1 DEF AcknowledgeCall
  <2>2. ASSUME NEW c \in calls, CallRejected(c) \/ Redeliver(c)
        PROVE  lock' # "group-position"
    BY <2>2 DEF CallRejected, Redeliver
  <2>3. ASSUME NEW c \in calls, DeadLetterPublish(c) \/ DeadLetterPublishFails(c)
        PROVE  lock' # "group-position"
    BY <2>3 DEF DeadLetterPublish, DeadLetterPublishFails
  <2>4. ASSUME NEW t \in dead, DeadLetterAcknowledge(t) \/ DeadLetterTimeout(t)
        PROVE  lock' # "group-position"
    BY <2>4 DEF DeadLetterAcknowledge, DeadLetterTimeout
  <2>5. ASSUME NEW op, NEW t, NEW retry, CallBegin(op, t, retry)
        PROVE  UNCHANGED <<lock, committed, before>>
    BY <2>5 DEF CallBegin
  <2> QED
    BY <1>3, <1>a, <2>1, <2>2, <2>3, <2>4, <2>5 DEF CallStep
<1>4. ASSUME NEW tgt, GroupPositionBegin(tgt)
      PROVE  ComparedIsCurrent'
  BY <1>4 DEF GroupPositionBegin, ComparedIsCurrent, CommittedPosition
<1>5. CASE GroupPositionCommit \/ GroupPositionFails \/ Recover \/ Close \/ Restart
  BY <1>5, <1>a DEF GroupPositionCommit, GroupPositionFails, Recover, Close, Restart
<1>6. CASE AdminStep
  BY <1>4, <1>5, <1>6 DEF AdminStep
<1>7. CASE EnvironmentStep
  BY <1>7, <1>a DEF EnvironmentStep, Tick, Evict, Append, OtherMemberCommits,
      OtherGroupPosition
<1>8. CASE UNCHANGED vars
  BY <1>8, <1>a
<1> QED
  BY <1>1, <1>2, <1>3, <1>6, <1>7, <1>8 DEF Next

\* group_position is a compare-and-set as far as this process goes: unless other
\* members commit, the offsets it replaces are those whose fingerprint it compared,
\* whatever polls, calls, rebalances and lost answers come in between.
THEOREM GroupPositionIsCompareAndSet ==
    ASSUME "competitor" \notin Env, "other-group-position" \notin Env
    PROVE  Spec => GroupPositionAtomic
<1>1. Init => TypeOK /\ ComparedIsCurrent
  BY InitType DEF Init, ComparedIsCurrent
<1>2. TypeOK /\ ComparedIsCurrent /\ [Next]_vars => TypeOK' /\ ComparedIsCurrent'
  BY NextType, NextCompared
<1>3. ComparedIsCurrent =>
        [GroupPositionCommit => \A p \in Partitions : CommittedPosition(p) = before[p]]_vars
  BY DEF ComparedIsCurrent, GroupPositionCommit
<1> QED
  BY <1>1, <1>2, <1>3, PTL DEF Spec, GroupPositionAtomic

-----------------------------------------------------------------------------
(* Pauses.                                                                 *)

\* Every step keeps a scheduled resumption for what is paused in the client.
LEMMA NextScheduled ==
    ASSUME "leak" \notin Env, TypeOK, PausedIsScheduled, [Next]_vars
    PROVE  PausedIsScheduled'
<1>a. ASSUME muted' \subseteq muted, \A p \in muted' : paused'[p] = paused[p]
      PROVE  PausedIsScheduled'
  BY <1>a DEF PausedIsScheduled
<1>b. ASSUME NEW E, NEW D, NEW Q, Scanned(E, D, Q)
      PROVE  PausedIsScheduled'
  BY <1>a, <1>b DEF Scanned, TypeOK
<1>1. CASE PollScan \/ PollScanFails
  BY <1>1, <1>b DEF PollScan, PollScanFails
<1>2. ASSUME NEW p \in Partitions, NEW o \in Offsets, Deliver(p, o)
      PROVE  PausedIsScheduled'
  <2>1. p \notin muted /\ muted' = muted
    BY <1>2 DEF Deliver, Fetchable
  <2>2. \A q \in Partitions \ {p} : paused'[q] = paused[q]
    BY <1>2 DEF Deliver, TypeOK
  <2> QED
    BY <1>a, <2>1, <2>2 DEF TypeOK
<1>3. CASE PollStep
  <2>1. ASSUME NEW p \in Partitions, NEW o \in Offsets,
               HoldBack(p, o) \/ HoldBackFails(p, o) \/ Malformed(p, o)
        PROVE  PausedIsScheduled'
    BY <2>1, <1>a DEF HoldBack, HoldBackFails, Malformed
  <2>2. CASE PollBegin \/ FetchNothing \/ PollFails \/ PollReturn \/ Refused
    BY <2>2, <1>a DEF PollBegin, FetchNothing, PollFails, PollReturn, Refused
  <2> QED
    BY <1>1, <1>2, <1>3, <2>1, <2>2 DEF PollStep
<1>4. CASE RebalanceStep
  BY <1>4, <1>a DEF RebalanceStep, Revoked, Assigned
<1>5. ASSUME NEW c \in calls, Redeliver(c)
      PROVE  PausedIsScheduled'
  <2> DEFINE t == c.token
             pause == [offset |-> t.offset, resume_at |-> now + c.retry_after]
  <2>1. t.partition \in Partitions /\ t.offset \in Offsets
    BY DEF TypeOK, Call, Token
  <2>2. CASE UNCHANGED <<muted, paused>>
    BY <2>2, <1>a
  <2>3. CASE /\ muted' = muted \cup {t.partition}
             /\ paused' = [paused EXCEPT ![t.partition] = pause]
    <3>1. pause # NoPause
      <4>1. pause.offset = t.offset /\ NoPause.offset = NoOffset
        BY DEF NoPause
      <4> QED
        BY <2>1, <4>1, OffsetFacts
    <3> HIDE DEF pause
    <3> QED
      BY <2>1, <2>3, <3>1 DEF PausedIsScheduled, TypeOK
  <2> QED
    BY <1>5, <2>2, <2>3 DEF Redeliver
<1>6. CASE CallStep
  <2>1. ASSUME NEW c \in calls, \/ CallRejected(c) \/ DeadLetterPublish(c)
                                \/ DeadLetterPublishFails(c) \/ AcknowledgeCall(c)
        PROVE  PausedIsScheduled'
    BY <2>1, <1>a DEF CallRejected, DeadLetterPublish, DeadLetterPublishFails,
        AcknowledgeCall, Acknowledge
  <2>2. ASSUME NEW t \in dead, DeadLetterAcknowledge(t) \/ DeadLetterTimeout(t)
        PROVE  PausedIsScheduled'
    BY <2>2, <1>a DEF DeadLetterAcknowledge, DeadLetterTimeout, Acknowledge
  <2>3. ASSUME NEW op, NEW t, NEW retry, CallBegin(op, t, retry)
        PROVE  PausedIsScheduled'
    BY <2>3, <1>a DEF CallBegin
  <2> QED
    BY <1>5, <1>6, <2>1, <2>2, <2>3 DEF CallStep
<1>7. CASE AdminStep
  BY <1>7, <1>a DEF AdminStep, GroupPositionBegin, GroupPositionCommit, GroupPositionFails,
      Recover, Close, Restart, DiscardState
<1>8. CASE EnvironmentStep
  BY <1>8, <1>a DEF EnvironmentStep, Tick, Evict, Append, OtherMemberCommits,
      OtherGroupPosition
<1>9. CASE UNCHANGED vars
  BY <1>9, <1>a
<1> QED
  BY <1>3, <1>4, <1>6, <1>7, <1>8, <1>9 DEF Next

\* A delayed negative acknowledgement never silences a partition for good: as long as
\* the client hands out nothing from a paused partition, whatever is paused in it has
\* an entry in paused that _resume_due will act on.
THEOREM PausesAreScheduled ==
    ASSUME "leak" \notin Env
    PROVE  Spec => []PausedIsScheduled
<1>1. Init => TypeOK /\ PausedIsScheduled
  BY InitType DEF Init, PausedIsScheduled
<1>2. TypeOK /\ PausedIsScheduled /\ [Next]_vars => TypeOK' /\ PausedIsScheduled'
  BY NextType, NextScheduled
<1> QED
  BY <1>1, <1>2, PTL DEF Spec

-----------------------------------------------------------------------------
(* Nothing is stranded.                                                    *)

\* Every step keeps each Event that the client has moved past processed or in flight.
LEMMA NextStranded ==
    ASSUME AutoOffsetReset = "earliest",
           "group-position" \notin Env, "other-group-position" \notin Env,
           RetryAfter = {} \/ (DeadLetter /\ MaxDeliveryAttempts = 1),
           TypeOK, OwnedInv, SafetyInv, StrandedInv, [Next]_vars
    PROVE  StrandedInv'
<1> USE OffsetFacts
<1> DEFINE Flies(p, o) == \E i \in inflight : i.partition = p /\ i.offset = o
<1>a. /\ \A p \in Partitions : paused[p] = NoPause
      /\ \A i \in inflight : i.attempt >= 1 /\ i.offset < position[i.partition]
      /\ \A c \in calls : c.operation = "nack" => RetryAfter # {}
      /\ lock # "group-position"
  BY DEF StrandedInv
<1>b. \A p \in assigned : \A o \in Offsets :
        o < position[p] /\ Record[p][o] = "event" => o \in resolved[p] \/ Flies(p, o)
  BY <1>a DEF StrandedInv, NoneStranded, TypeOK
<1>c. ASSUME UNCHANGED paused, lock' # "group-position",
             \A i \in inflight' : i.attempt >= 1 /\ i.offset < position'[i.partition],
             \A c \in calls' : c.operation = "nack" => RetryAfter # {},
             \A p \in assigned' : \A o \in Offsets :
                o < position'[p] /\ Record[p][o] = "event" => o \in resolved'[p] \/ Flies(p, o)'
      PROVE  StrandedInv'
  BY <1>a, <1>c DEF StrandedInv, NoneStranded
<1>d. ASSUME UNCHANGED <<paused, position, inflight>>, lock' # "group-position",
             assigned' \subseteq assigned,
             \A c \in calls' : c.operation = "nack" => RetryAfter # {},
             \A p \in Partitions : resolved[p] \subseteq resolved'[p]
      PROVE  StrandedInv'
  <2>1. \A p, o : Flies(p, o)' <=> Flies(p, o)
    BY <1>d
  <2> HIDE DEF Flies
  <2>2. \A p \in assigned' : \A o \in Offsets :
            o < position'[p] /\ Record[p][o] = "event" => o \in resolved'[p] \/ Flies(p, o)'
    BY <1>b, <1>d, <2>1 DEF TypeOK
  <2>3. \A i \in inflight' : i.attempt >= 1 /\ i.offset < position'[i.partition]
    BY <1>a, <1>d
  <2> QED
    BY <1>c, <1>d, <2>2, <2>3
<1>e. ASSUME inflight' = {}, assigned' = {}, calls' \subseteq calls, lock' # "group-position",
             \A p \in Partitions : paused'[p] = NoPause
      PROVE  StrandedInv'
  BY <1>a, <1>e DEF StrandedInv, NoneStranded
<1>f. DuePartitions = {}
  BY <1>a DEF DuePartitions
<1>g. ASSUME NEW E \in SUBSET ExpiredPartitions, Scanned(E, {}, {}),
             UNCHANGED <<assigned, calls, resolved>>, lock' # "group-position"
      PROVE  StrandedInv'
  <2>1. /\ \A p \in Partitions : position'[p] = IF p \in E THEN Rewind(p) ELSE position[p]
        /\ \A p \in Partitions : paused'[p] = paused[p]
        /\ inflight' = {t \in inflight : t.partition \in E => t.offset < Rewind(t.partition)}
    BY <1>g DEF Scanned
  <2>2. paused' = paused
    BY <1>g DEF Scanned, TypeOK
  <2>3. \A p \in E : /\ p \in Partitions /\ Rewind(p) \in Offsets
                     /\ Rewind(p) < position[p]
    <3> SUFFICES ASSUME NEW p \in E
                 PROVE  /\ p \in Partitions /\ Rewind(p) \in Offsets
                        /\ Rewind(p) < position[p]
      OBVIOUS
    <3>1. p \in Partitions /\ ExpiredOffsets(p) # {}
      BY <1>g DEF ExpiredPartitions
    <3>2. Rewind(p) \in ExpiredOffsets(p) /\ Rewind(p) \in Offsets
      BY <3>1, RewindIsExpired
    <3>3. PICK i \in inflight : i.partition = p /\ i.offset = Rewind(p)
      BY <3>2 DEF ExpiredOffsets
    <3> QED
      BY <1>a, <3>1, <3>2, <3>3
  <2>4. ASSUME NEW i \in inflight'
        PROVE  i.attempt >= 1 /\ i.offset < position'[i.partition]
    <3>1. i \in inflight /\ i.partition \in Partitions
      BY <2>1 DEF TypeOK, Token
    <3> QED
      BY <1>a, <2>1, <3>1
  <2>5. ASSUME NEW p \in assigned, NEW o \in Offsets, o < position'[p], Record[p][o] = "event",
               o \notin resolved[p]
        PROVE  Flies(p, o)'
    <3>1. p \in Partitions /\ position[p] \in Nat /\ o \in Nat
      BY DEF TypeOK
    <3>2. o < position[p] /\ (p \in E => o < Rewind(p))
      <4>1. CASE p \in E
        <5>1. Rewind(p) \in Nat /\ Rewind(p) < position[p] /\ o < Rewind(p)
          BY <2>1, <2>3, <2>5, <3>1, <4>1
        <5> QED
          BY <3>1, <5>1
      <4>2. CASE p \notin E
        BY <2>1, <2>5, <3>1, <4>2
      <4> QED
        BY <4>1, <4>2
    <3>3. PICK i \in inflight : i.partition = p /\ i.offset = o
      BY <1>b, <2>5, <3>2
    <3>4. i \in inflight'
      BY <2>1, <3>2, <3>3
    <3> QED
      BY <3>3, <3>4
  <2>6. \A p \in assigned' : \A o \in Offsets :
            o < position'[p] /\ Record[p][o] = "event" => o \in resolved'[p] \/ Flies(p, o)'
    BY <1>g, <2>5
  <2> HIDE DEF Flies
  <2> QED
    BY <1>a, <1>c, <1>g, <2>2, <2>4, <2>6
<1>h. ASSUME NEW t \in Token, Acknowledge(t), calls' \subseteq calls, lock' # "group-position",
             \A p \in Partitions : resolved[p] \subseteq resolved'[p],
             t.offset \in resolved'[t.partition]
      PROVE  StrandedInv'
  <2>1. UNCHANGED <<position, paused, assigned>>
    BY <1>h DEF Acknowledge
  <2>2. /\ inflight' \subseteq inflight
        /\ \A i \in inflight : \/ i.partition = t.partition /\ i.offset = t.offset
                               \/ i \in inflight'
    <3>1. ForgetDelivery(t) \/ UNCHANGED <<inflight, attempts>>
      BY <1>h DEF Acknowledge, AckHeld, AckCommits, AckCommitFails
    <3> QED
      BY <3>1 DEF ForgetDelivery
  <2>3. ASSUME NEW p \in assigned, NEW o \in Offsets, o < position[p], Record[p][o] = "event",
               o \notin resolved'[p]
        PROVE  Flies(p, o)'
    <3>1. PICK i \in inflight : i.partition = p /\ i.offset = o
      BY <1>b, <1>h, <2>3 DEF TypeOK
    <3>2. i \in inflight'
      BY <1>h, <2>2, <2>3, <3>1
    <3> QED
      BY <3>1, <3>2
  <2>4. \A p \in assigned' : \A o \in Offsets :
            o < position'[p] /\ Record[p][o] = "event" => o \in resolved'[p] \/ Flies(p, o)'
    <3>1. \A p \in assigned : \A o \in Offsets :
            o < position[p] /\ Record[p][o] = "event" => o \in resolved'[p] \/ Flies(p, o)'
      BY <2>3
    <3> HIDE DEF Flies
    <3>2. position' = position /\ assigned' = assigned
      BY <2>1
    <3> QED
      BY <3>1, <3>2
  <2>5. \A i \in inflight' : i.attempt >= 1 /\ i.offset < position'[i.partition]
    BY <1>a, <2>1, <2>2
  <2> HIDE DEF Flies
  <2> QED
    BY <1>a, <1>c, <1>h, <2>1, <2>4, <2>5
<1>1. CASE PollBegin
  BY <1>1, <1>a, <1>d DEF PollBegin
<1>2. CASE PollScan
  BY <1>2, <1>f, <1>g DEF PollScan
<1>3. CASE PollScanFails
  <2>1. \E E \in SUBSET ExpiredPartitions : Scanned(E, {}, {})
    BY <1>3, <1>f DEF PollScanFails
  <2> QED
    BY <1>3, <1>g, <2>1 DEF PollScanFails
<1>4. CASE FetchNothing \/ PollFails \/ PollReturn \/ Refused
  BY <1>4, <1>a, <1>d DEF FetchNothing, PollFails, PollReturn, Refused
<1>5. ASSUME NEW p \in Partitions, NEW o \in Offsets, Deliver(p, o)
      PROVE  StrandedInv'
  <2> DEFINE t == [partition |-> p, offset |-> o,
                   assignment_epoch |-> assignment_epoch,
                   attempt |-> attempts[p][o] + 1,
                   expires_at |-> now + AckTimeout]
  <2>1. /\ inflight' = {i \in inflight : ~(i.partition = p /\ i.offset = o)} \cup {t}
        /\ position' = [position EXCEPT ![p] = o + 1]
        /\ UNCHANGED <<assigned, calls, resolved>> /\ lock' = "scan"
        /\ position[p] <= o /\ \A g \in position[p] .. o - 1 : Record[p][g] = "gap"
    BY <1>5 DEF Deliver, Fetchable
  <2>2. UNCHANGED paused
    BY <1>a, <1>5 DEF Deliver, NoPause
  <2>3. t.partition = p /\ t.offset = o /\ t.attempt >= 1
    BY DEF TypeOK
  <2> HIDE DEF t
  <2>4. /\ position'[p] = o + 1 /\ \A q \in Partitions \ {p} : position'[q] = position[q]
        /\ position[p] \in Nat /\ o \in Nat
    BY <2>1 DEF TypeOK
  <2>5. ASSUME NEW i \in inflight'
        PROVE  i.attempt >= 1 /\ i.offset < position'[i.partition]
    <3>1. CASE i = t
      BY <2>3, <2>4, <3>1
    <3>2. CASE i # t
      <4>1. i \in inflight /\ i.partition \in Partitions /\ i.offset \in Nat
        BY <2>1, <3>2 DEF TypeOK, Token
      <4>2. i.attempt >= 1 /\ i.offset < position[i.partition]
        BY <1>a, <4>1
      <4>3. CASE i.partition = p
        BY <2>1, <2>4, <4>1, <4>2, <4>3
      <4>4. CASE i.partition # p
        BY <2>4, <4>1, <4>2, <4>4
      <4> QED
        BY <4>3, <4>4
    <3> QED
      BY <3>1, <3>2
  <2>6. ASSUME NEW q \in assigned, NEW x \in Offsets, x < position'[q], Record[q][x] = "event",
               x \notin resolved[q]
        PROVE  Flies(q, x)'
    <3>1. CASE q = p /\ x = o
      BY <2>1, <2>3, <3>1
    <3>2. CASE ~(q = p /\ x = o)
      <4>1. x < position[q]
        <5>1. CASE q # p
          BY <2>4, <2>6, <5>1 DEF TypeOK
        <5>2. CASE q = p /\ ~(x < position[p])
          <6>1. x \in position[p] .. o - 1
            BY <2>4, <2>6, <3>2, <5>2
          <6> QED
            BY <2>1, <2>6, <5>2, <6>1
        <5> QED
          BY <5>1, <5>2
      <4>2. PICK i \in inflight : i.partition = q /\ i.offset = x
        BY <1>b, <2>6, <4>1
      <4>3. i \in inflight'
        BY <2>1, <3>2, <4>2
      <4> QED
        BY <4>2, <4>3
    <3> QED
      BY <3>1, <3>2
  <2>7. \A q \in assigned' : \A x \in Offsets :
            x < position'[q] /\ Record[q][x] = "event" => x \in resolved'[q] \/ Flies(q, x)'
    BY <2>1, <2>6
  <2> HIDE DEF Flies
  <2> QED
    BY <1>a, <1>c, <2>1, <2>2, <2>5, <2>7
<1>6. ASSUME NEW p \in Partitions, NEW o \in Offsets, HoldBack(p, o) \/ HoldBackFails(p, o)
      PROVE  FALSE
  <2>1. paused[p].offset = NoOffset
    BY <1>a DEF NoPause
  <2>2. paused[p].offset = o
    BY <1>6 DEF HoldBack, HoldBackFails, HeldBack
  <2>3. o \in Nat /\ NoOffset = -1
    BY DEF NoOffset, Offsets
  <2> QED
    BY <2>1, <2>2, <2>3
<1>7. ASSUME NEW p \in Partitions, NEW o \in Offsets, Malformed(p, o)
      PROVE  StrandedInv'
  <2>1. /\ position' = [position EXCEPT ![p] = o + 1]
        /\ UNCHANGED <<assigned, calls, resolved, inflight, paused>> /\ lock' = "free"
        /\ position[p] <= o /\ \A g \in position[p] .. o - 1 : Record[p][g] = "gap"
        /\ Record[p][o] = "malformed"
    BY <1>7 DEF Malformed, Fetchable
  <2>2. /\ position'[p] = o + 1 /\ \A q \in Partitions \ {p} : position'[q] = position[q]
        /\ position[p] \in Nat /\ o \in Nat
    BY <2>1 DEF TypeOK
  <2>3. ASSUME NEW i \in inflight'
        PROVE  i.attempt >= 1 /\ i.offset < position'[i.partition]
    <3>1. /\ i.partition \in Partitions /\ i.offset \in Nat
          /\ i.attempt >= 1 /\ i.offset < position[i.partition]
      BY <1>a, <2>1 DEF TypeOK, Token
    <3>2. CASE i.partition = p
      BY <2>1, <2>2, <3>1, <3>2
    <3>3. CASE i.partition # p
      BY <2>2, <3>1, <3>3
    <3> QED
      BY <3>2, <3>3
  <2>4. ASSUME NEW q \in assigned, NEW x \in Offsets, x < position'[q], Record[q][x] = "event"
        PROVE  x < position[q]
    <3>1. CASE q # p
      BY <2>2, <2>4, <3>1 DEF TypeOK
    <3>2. CASE q = p /\ ~(x < position[p])
      <4>1. x \in position[p] .. o
        BY <2>2, <2>4, <3>2
      <4>2. x = o \/ x \in position[p] .. o - 1
        BY <2>2, <4>1
      <4> QED
        BY <2>1, <2>4, <3>2, <4>2
    <3> QED
      BY <3>1, <3>2
  <2>5. \A q, x : Flies(q, x)' <=> Flies(q, x)
    BY <2>1
  <2> HIDE DEF Flies
  <2>6. \A q \in assigned' : \A x \in Offsets :
            x < position'[q] /\ Record[q][x] = "event" => x \in resolved'[q] \/ Flies(q, x)'
    BY <1>b, <2>1, <2>4, <2>5
  <2> QED
    BY <1>a, <1>c, <2>1, <2>3, <2>6
<1>8. CASE Revoked
  <2>1. inflight' = {} /\ assigned' = {} /\ UNCHANGED <<calls, lock>>
    BY <1>8 DEF Revoked, OwnedInv, OnlyOwnedDeliveries
  <2>2. \A p \in Partitions : paused'[p] = NoPause
    BY <1>8, <1>a DEF Revoked
  <2> QED
    BY <1>a, <1>e, <2>1, <2>2
<1>9. ASSUME NEW S \in SUBSET Partitions, Assigned(S)
      PROVE  StrandedInv'
  <2>1. /\ inflight = {} /\ UNCHANGED <<inflight, paused, calls, lock>> /\ assigned' = S
        /\ \A p \in S : position'[p] = StartOffset(p)
    BY <1>9 DEF Assigned, OwnedInv, OnlyOwnedDeliveries
  <2>2. \A p \in Partitions : resolved'[p] = resolved[p]
    BY <1>9 DEF Assigned
  <2>3. ASSUME NEW p \in S, NEW o \in Offsets, o < position'[p], Record[p][o] = "event"
        PROVE  o \in resolved[p]
    <3>1. o < committed[p]
      BY <2>1, <2>3 DEF StartOffset
    <3> QED
      BY <2>3, <3>1 DEF SafetyInv, NothingSkipped, Covered
  <2> HIDE DEF Flies
  <2> QED
    BY <1>a, <1>c, <2>1, <2>2, <2>3
<1>10. CASE \E t \in tokens : CallBegin("ack", t, 0)
  <2>1. PICK t \in tokens : CallBegin("ack", t, 0)
    BY <1>10
  <2>2. \A c \in calls' : c \in calls \/ c.operation = "ack"
    BY <2>1 DEF CallBegin
  <2> QED
    BY <1>a, <1>d, <2>1, <2>2 DEF CallBegin
<1>11. CASE \E t \in tokens, retry \in RetryAfter : CallBegin("nack", t, retry)
  <2>1. PICK t \in tokens, retry \in RetryAfter : CallBegin("nack", t, retry)
    BY <1>11
  <2> QED
    BY <1>a, <1>d, <2>1 DEF CallBegin
<1>12. ASSUME NEW c \in calls, CallRejected(c) \/ DeadLetterPublishFails(c)
       PROVE  StrandedInv'
  BY <1>12, <1>a, <1>d DEF CallRejected, DeadLetterPublishFails
<1>13. ASSUME NEW c \in calls, DeadLetterPublish(c)
       PROVE  StrandedInv'
  <2>1. \A p \in Partitions : resolved[p] \subseteq resolved'[p]
    BY <1>13 DEF DeadLetterPublish, Resolve, TypeOK
  <2> QED
    BY <1>13, <1>a, <1>d, <2>1 DEF DeadLetterPublish
<1>14. ASSUME NEW c \in calls, AcknowledgeCall(c)
       PROVE  StrandedInv'
  <2>1. c.token \in Token /\ c.token.partition \in Partitions
    BY DEF TypeOK, Call, Token
  <2>2. /\ \A p \in Partitions : resolved[p] \subseteq resolved'[p]
        /\ c.token.offset \in resolved'[c.token.partition]
    BY <1>14, <2>1 DEF AcknowledgeCall, Resolve, TypeOK
  <2> QED
    BY <1>14, <1>a, <1>h, <2>1, <2>2 DEF AcknowledgeCall
<1>15. ASSUME NEW c \in calls, Redeliver(c)
       PROVE  FALSE
  <2>1. DeadLetter /\ MaxDeliveryAttempts = 1
    BY <1>15, <1>a DEF Redeliver
  <2>2. c.token.attempt >= 1
    BY <1>15, <1>a DEF Redeliver, Known
  <2> QED
    BY <1>15, <2>1, <2>2 DEF Redeliver, ToDeadLetter
<1>16. ASSUME NEW t \in dead, DeadLetterAcknowledge(t)
       PROVE  StrandedInv'
  <2>1. t \in Token /\ t.offset \in resolved[t.partition] /\ UNCHANGED <<resolved, calls>>
    BY <1>16 DEF TypeOK, SafetyInv, DeadLettersPublished, DeadLetterAcknowledge
  <2> QED
    BY <1>16, <1>h, <2>1 DEF DeadLetterAcknowledge
<1>17. ASSUME NEW t \in dead, DeadLetterTimeout(t)
       PROVE  StrandedInv'
  BY <1>17, <1>a, <1>d DEF DeadLetterTimeout
<1>18. CASE Recover \/ Close \/ Restart
  <2>1. DiscardState /\ lock' # "group-position"
    BY <1>18, <1>a DEF Recover, Close, Restart
  <2> QED
    BY <1>e, <2>1 DEF DiscardState, NoneOf
<1>19. CASE Tick \/ Evict
  BY <1>19, <1>a, <1>d DEF Tick, Evict
<1>20. ASSUME NEW p \in Partitions, NEW n, Append(p) \/ OtherMemberCommits(p, n)
       PROVE  StrandedInv'
  <2>1. \A q \in Partitions : resolved[q] \subseteq resolved'[q]
    BY <1>20 DEF Append, OtherMemberCommits, TypeOK
  <2> QED
    BY <1>20, <1>a, <1>d, <2>1 DEF Append, OtherMemberCommits
<1>21. CASE UNCHANGED vars
  BY <1>21, <1>a, <1>d
<1>22. CASE PollStep
  BY <1>1, <1>2, <1>3, <1>4, <1>5, <1>6, <1>7, <1>22 DEF PollStep
<1>23. CASE RebalanceStep
  BY <1>8, <1>9, <1>23 DEF RebalanceStep
<1>24. CASE CallStep
  BY <1>10, <1>11, <1>12, <1>13, <1>14, <1>15, <1>16, <1>17, <1>24 DEF CallStep
<1>25. CASE AdminStep
  BY <1>18, <1>25, <1>a DEF AdminStep, GroupPositionBegin, GroupPositionCommit,
      GroupPositionFails
<1>26. CASE EnvironmentStep
  BY <1>19, <1>20, <1>26 DEF EnvironmentStep, OtherGroupPosition
<1> QED
  BY <1>21, <1>22, <1>23, <1>24, <1>25, <1>26 DEF Next

\* Liveness of delivery rests on this: an Event that the client has moved past is
\* never forgotten by crashes, lost polls, failed seeks and commits, rebalances or
\* expired leases.  It holds where no negative acknowledgement asks for a redelivery
\* (a second seek of the same partition would pass over the first) and where the
\* group's position is not moved by hand (the client is not sought then).
THEOREM NothingIsStranded ==
    ASSUME AutoOffsetReset = "earliest",
           "group-position" \notin Env, "other-group-position" \notin Env,
           RetryAfter = {} \/ (DeadLetter /\ MaxDeliveryAttempts = 1)
    PROVE  Spec => []NoneStranded
<1> DEFINE Inv == TypeOK /\ OwnedInv /\ SafetyInv /\ StrandedInv
<1>1. Init => Inv
  <2>1. Init => StrandedInv
    BY DEF Init, StrandedInv, NoneStranded, NoneOf
  <2> QED
    BY <2>1, InitType, InitOwned, InitSafe
<1>2. Inv /\ [Next]_vars => Inv'
  BY NextType, NextOwned, NextSafe, NextStranded
<1>3. Inv => NoneStranded
  BY DEF StrandedInv
<1> QED
  BY <1>1, <1>2, <1>3, PTL DEF Spec

-----------------------------------------------------------------------------
(* The committed offset only advances.                                     *)

\* The offsets of a partition can be compared, NoOffset included.
LEMMA OffsetsAreIntegers ==
    ASSUME TypeOK, NEW p \in Partitions
    PROVE  safe_next[p] \in Int /\ committed[p] \in Int
<1>1. NoOffset \in Int
  BY DEF NoOffset
<1>2. \A x \in Positions : x \in Int
  BY OffsetFacts
<1>3. \A x \in Positions \cup {NoOffset} : x \in Int
  BY <1>1, <1>2
<1>4. /\ safe_next[p] \in Positions \cup {NoOffset}
      /\ committed[p] \in Positions \cup {NoOffset}
  BY DEF TypeOK
<1> QED
  BY <1>3, <1>4

\* The offset of a scheduled redelivery is an offset, NoOffset stands for none.
LEMMA PauseOffset == \A x \in Pause \cup {NoPause} : x.offset \in Nat \cup {NoOffset}
<1>1. ASSUME NEW x \in Pause
      PROVE  x.offset \in Nat
  <2>1. x.offset \in Offsets
    BY DEF Pause
  <2> QED
    BY <2>1, OffsetFacts
<1>2. NoPause.offset = NoOffset
  BY DEF NoPause
<1> QED
  BY <1>1, <1>2

\* Remembered offsets are natural numbers.
LEMMA RememberedType ==
    ASSUME TypeOK, NEW p \in Partitions
    PROVE  Remembered(p) \subseteq Nat
<1>1. position[p] \in Nat /\ acknowledged[p] \subseteq Nat
  BY OffsetFacts DEF TypeOK
<1>2. \A i \in inflight : i.offset \in Nat
  BY OffsetFacts DEF TypeOK, Token
<1>3. paused[p].offset \in Nat \cup {NoOffset}
  BY PauseOffset DEF TypeOK
<1> QED
  BY <1>1, <1>2, <1>3 DEF Remembered

\* A partition whose offsets stay, and which remembers nothing lower than before, is
\* not left behind.
LEMMA NotBehindKept ==
    ASSUME TypeOK, TypeOK', NEW p \in Partitions, NotBehind(p),
           safe_next'[p] = safe_next[p], committed'[p] = committed[p],
           \A y \in Remembered(p)' : \E x \in Remembered(p) : x <= y
    PROVE  NotBehind(p)'
<1>1. Remembered(p) \subseteq Nat /\ Remembered(p)' \subseteq Nat
  <2>1. Remembered(p) \subseteq Nat
    BY RememberedType
  <2>2. Remembered(p)' \subseteq Nat
    <3>1. position'[p] \in Nat /\ acknowledged'[p] \subseteq Nat
      BY OffsetFacts DEF TypeOK
    <3>2. \A i \in inflight' : i.offset \in Nat
      BY OffsetFacts DEF TypeOK, Token
    <3>3. paused'[p].offset \in Nat \cup {NoOffset}
      BY PauseOffset DEF TypeOK
    <3> QED
      BY <3>1, <3>2, <3>3 DEF Remembered
  <2> QED
    BY <2>1, <2>2
<1>2. safe_next[p] \in Int /\ committed[p] \in Int
  BY OffsetsAreIntegers
<1>3. CASE safe_next[p] # NoOffset /\ safe_next[p] >= committed[p]
  BY <1>3 DEF NotBehind
<1>4. CASE \A o \in Remembered(p) :
              IF safe_next[p] = NoOffset THEN o >= committed[p] ELSE o > safe_next[p]
  <2>1. ASSUME NEW y \in Remembered(p)'
        PROVE  IF safe_next[p] = NoOffset THEN y >= committed[p] ELSE y > safe_next[p]
    <3>1. PICK x \in Remembered(p) : x <= y
      OBVIOUS
    <3>2. x \in Int /\ y \in Int
      BY <1>1
    <3> QED
      BY <1>2, <1>4, <3>1, <3>2
  <2> QED
    BY <2>1 DEF NotBehind
<1> QED
  BY <1>3, <1>4 DEF NotBehind

\* A partition about which nothing but the clock, the lock or other partitions changes.
LEMMA RememberedSame ==
    ASSUME TypeOK, TypeOK', NEW p \in Partitions, NotBehind(p),
           safe_next'[p] = safe_next[p], committed'[p] = committed[p],
           position'[p] = position[p],
           acknowledged'[p] \subseteq acknowledged[p],
           \A i \in inflight' : i.partition = p => i \in inflight,
           paused'[p] = paused[p]
    PROVE  NotBehind(p)'
<1>1. Remembered(p)' \subseteq Remembered(p)
  BY DEF Remembered
<1>2. Remembered(p) \subseteq Nat
  BY RememberedType
<1>3. \A y \in Remembered(p)' : y \in Remembered(p) /\ y <= y
  BY <1>1, <1>2
<1> QED
  BY <1>3, NotBehindKept

\* Whoever may acknowledge t owns its partition, and t and what is acknowledged are
\* remembered.
LEMMA AckedRemembered ==
    ASSUME TypeOK, OwnedInv, NEW t \in Token, Known(t)
    PROVE  /\ t.partition \in assigned
           /\ generation # "joining"
           /\ Acked(t) \subseteq Remembered(t.partition)
<1>1. t.partition \in assigned
  BY KnownIsOwned
<1>2. \E i \in inflight : i.partition = t.partition /\ i.offset = t.offset
  BY DEF Known
<1> QED
  BY <1>1, <1>2 DEF OwnedInv, Acked, Remembered

\* A run of acknowledged offsets that is committed ends beyond the committed offset.
LEMMA RunAdvances ==
    ASSUME TypeOK, OwnedInv, SafeNextInv, NEW t \in Token, NEW safe \in Positions,
           Known(t), SafeRun(t, safe), safe > Original(t), CommitAccepted
    PROVE  safe > committed[t.partition]
<1> DEFINE p == t.partition
<1>1. p \in Partitions /\ t.offset \in Offsets
  BY DEF Token
<1>2. /\ p \in assigned /\ Acked(t) \subseteq Remembered(p) /\ generation = "stable"
  BY AckedRemembered DEF TypeOK, CommitAccepted
<1>3. NotBehind(p)
  BY <1>2 DEF SafeNextInv
<1>4. safe_next[p] \in Int /\ committed[p] \in Int /\ safe \in Int /\ t.offset \in Int
  <2>1. safe_next[p] \in Int /\ committed[p] \in Int
    BY <1>1, OffsetsAreIntegers
  <2>2. safe \in Nat /\ t.offset \in Nat
    BY <1>1, OffsetFacts
  <2> QED
    BY <2>1, <2>2
<1>5. Original(t) \in Int
  BY <1>4 DEF Original
<1>6. Original(t) \in Remembered(p)
  <2>1. Original(t) \in Original(t) .. safe - 1
    BY <1>4, <1>5
  <2> QED
    BY <1>2, <2>1 DEF SafeRun
<1>7. CASE safe_next[p] # NoOffset /\ safe_next[p] >= committed[p]
  BY <1>4, <1>7 DEF Original
<1>8. CASE \A o \in Remembered(p) :
              IF safe_next[p] = NoOffset THEN o >= committed[p] ELSE o > safe_next[p]
  <2>1. CASE safe_next[p] = NoOffset
    <3>1. Original(t) >= committed[p]
      BY <1>6, <1>8, <2>1
    <3> QED
      BY <1>4, <1>5, <3>1
  <2>2. CASE safe_next[p] # NoOffset
    <3>1. Original(t) > safe_next[p] /\ Original(t) = safe_next[p]
      BY <1>6, <1>8, <2>2 DEF Original
    <3> QED
      BY <1>4, <3>1
  <2> QED
    BY <2>1, <2>2
<1> QED
  BY <1>3, <1>7, <1>8 DEF NotBehind

\* The scan seeks a partition only to offsets that it remembers.
LEMMA ScannedNotBehind ==
    ASSUME TypeOK, TypeOK', NEW E \in SUBSET ExpiredPartitions,
           NEW D \in SUBSET DuePartitions, NEW Q \in SUBSET DuePartitions,
           Scanned(E, D, Q), UNCHANGED <<committed, safe_next>>,
           NEW p \in Partitions, NotBehind(p)
    PROVE  NotBehind(p)'
<1>1. Remembered(p) \subseteq Nat
  BY RememberedType
<1>2. position'[p] \in Remembered(p)
  <2>1. CASE p \in D \cup Q
    <3>1. position'[p] = paused[p].offset /\ paused[p] \in Pause
      BY <2>1 DEF Scanned, DuePartitions, TypeOK
    <3>2. paused[p].offset \in Offsets
      BY <3>1 DEF Pause
    <3> QED
      BY <3>1, <3>2, OffsetFacts DEF Remembered
  <2>2. CASE p \notin D \cup Q /\ p \in E
    <3>1. position'[p] = Rewind(p) /\ ExpiredOffsets(p) # {}
      BY <2>2 DEF Scanned, ExpiredPartitions
    <3>2. Rewind(p) \in ExpiredOffsets(p)
      BY <3>1, RewindIsExpired
    <3> QED
      BY <3>1, <3>2 DEF Remembered, ExpiredOffsets
  <2>3. CASE p \notin D \cup Q /\ p \notin E
    BY <2>3 DEF Scanned, Remembered
  <2> QED
    BY <2>1, <2>2, <2>3
<1>3. acknowledged'[p] \subseteq acknowledged[p] /\ inflight' \subseteq inflight
  BY DEF Scanned
<1>4. paused'[p].offset \in {paused[p].offset, NoOffset}
  BY DEF Scanned, NoPause
<1>5. Remembered(p)' \subseteq Remembered(p)
  BY <1>2, <1>3, <1>4 DEF Remembered
<1>6. \A y \in Remembered(p)' : y \in Remembered(p) /\ y <= y
  BY <1>1, <1>5
<1> QED
  BY <1>6, NotBehindKept

\* The locked part of acknowledge sets safe_next to an offset not behind the
\* committed one, or leaves it.
LEMMA AcknowledgeNotBehind ==
    ASSUME "commit-timeout" \notin Env, TypeOK, TypeOK', OwnedInv,
           NEW t \in Token, Acknowledge(t), NEW p \in Partitions, NotBehind(p)
    PROVE  NotBehind(p)'
<1>1. /\ t.partition \in Partitions /\ t.offset \in Offsets
      /\ UNCHANGED <<position, paused>>
      /\ inflight' \subseteq inflight
  BY DEF Acknowledge, AckHeld, AckCommits, AckCommitFails, ForgetDelivery, Token
<1>2. CASE p # t.partition
  <2>1. safe_next'[p] = safe_next[p] /\ committed'[p] = committed[p]
        /\ acknowledged'[p] = acknowledged[p]
    BY <1>1, <1>2 DEF Acknowledge, AckHeld, AckCommits, AckCommitFails, TakeRun, TypeOK
  <2> QED
    BY <1>1, <2>1, RememberedSame
<1>3. CASE p = t.partition
  <2>1. Acked(t) \subseteq Remembered(p)
    BY <1>3, AckedRemembered DEF Acknowledge, Acknowledgeable
  <2>2. acknowledged'[p] \subseteq Acked(t)
    BY <1>1, <1>3 DEF Acknowledge, AckHeld, AckCommits, AckCommitFails, TakeRun, TypeOK
  <2>3. Remembered(p)' \subseteq Remembered(p)
    BY <1>1, <2>1, <2>2 DEF Remembered
  <2>4. Remembered(p) \subseteq Nat
    BY RememberedType
  <2>5. \A y \in Remembered(p)' : y \in Remembered(p) /\ y <= y
    BY <2>3, <2>4
  <2>6. CASE \E safe \in Positions : AckCommits(t, safe)
    <3>1. PICK safe \in Positions : AckCommits(t, safe)
      BY <2>6
    <3>2. safe_next'[p] = safe /\ committed'[p] = safe
      BY <1>1, <1>3, <3>1 DEF AckCommits, TypeOK
    <3>3. safe \in Nat /\ safe # NoOffset
      BY OffsetFacts
    <3> QED
      BY <3>2, <3>3 DEF NotBehind
  <2>7. CASE AckHeld(t) \/ \E safe \in Positions : AckCommitFails(t, safe)
    <3>1. safe_next'[p] = Original(t) /\ committed'[p] = committed[p]
      BY <1>1, <1>3, <2>7 DEF AckHeld, AckCommitFails, TypeOK
    <3>2. CASE safe_next[p] # NoOffset
      BY <1>3, <2>5, <3>1, <3>2, NotBehindKept DEF Original
    <3>3. CASE safe_next[p] = NoOffset
      <4>1. safe_next'[p] = t.offset /\ t.offset # NoOffset
        BY <1>1, <1>3, <3>1, <3>3, OffsetFacts DEF Original
      <4>2. t.offset \in Remembered(p)
        BY <2>1 DEF Acked
      <4>3. t.offset >= committed[p]
        BY <3>3, <4>2 DEF NotBehind
      <4> QED
        BY <3>1, <4>1, <4>3 DEF NotBehind
    <3> QED
      BY <3>2, <3>3
  <2> QED
    BY <2>6, <2>7 DEF Acknowledge
<1> QED
  BY <1>2, <1>3

\* A partition is delivered from, or skipped over, only above what it remembers.
LEMMA FetchNotBehind ==
    ASSUME TypeOK, TypeOK', NEW p \in Partitions, NEW o \in Offsets,
           Deliver(p, o) \/ HoldBack(p, o) \/ HoldBackFails(p, o) \/ Malformed(p, o),
           NEW q \in Partitions, NotBehind(q)
    PROVE  NotBehind(q)'
<1>1. /\ UNCHANGED <<committed, acknowledged>>
      /\ position[p] <= o /\ position[p] \in Remembered(p)
      /\ \A i \in inflight' : i \in inflight \/ (i.partition = p /\ i.offset = o)
  BY DEF Deliver, HoldBack, HoldBackFails, Malformed, Fetchable, Remembered
<1>2. \A x \in Partitions \ {p} : /\ safe_next'[x] = safe_next[x]
                                  /\ position'[x] = position[x]
                                  /\ paused'[x] = paused[x]
  BY DEF Deliver, HoldBack, HoldBackFails, Malformed, TypeOK
<1>3. CASE q # p
  BY <1>1, <1>2, <1>3, RememberedSame
<1>4. CASE q = p
  <2>1. Remembered(p) \subseteq Nat /\ o \in Nat /\ position[p] \in Nat
    <3>1. Remembered(p) \subseteq Nat
      BY RememberedType
    <3> QED
      BY <3>1, OffsetFacts DEF TypeOK
  <2>2. position'[p] \in {o, o + 1}
    BY DEF Deliver, HoldBack, HoldBackFails, Malformed, TypeOK
  <2>3. paused'[p].offset \in {paused[p].offset, NoOffset}
    BY DEF Deliver, HoldBack, HoldBackFails, Malformed, NoPause, TypeOK
  <2>4. Remembered(p)' \subseteq Remembered(p) \cup {o, o + 1}
    BY <1>1, <2>2, <2>3 DEF Remembered
  <2>5. ASSUME NEW y \in Remembered(p)'
        PROVE  \E x \in Remembered(p) : x <= y
    <3>1. CASE y \in Remembered(p)
      <4>1. y <= y
        BY <2>1, <3>1
      <4> QED
        BY <3>1, <4>1
    <3>2. CASE y \in {o, o + 1}
      <4>1. position[p] <= y
        BY <1>1, <2>1, <3>2
      <4> QED
        BY <1>1, <4>1
    <3> QED
      BY <2>4, <3>1, <3>2
  <2>6. CASE safe_next'[p] = safe_next[p]
    BY <1>1, <1>4, <2>5, <2>6, NotBehindKept
  <2>7. CASE safe_next'[p] # safe_next[p]
    <3>1. safe_next[p] = NoOffset /\ safe_next'[p] = o
      BY <2>7 DEF Deliver, HoldBack, HoldBackFails, Malformed, TypeOK
    <3>2. position[p] >= committed[p] /\ committed[p] \in Int
      BY <1>1, <1>4, <3>1, OffsetsAreIntegers DEF NotBehind
    <3>3. o >= committed[p] /\ o # NoOffset
      BY <1>1, <2>1, <3>2, OffsetFacts
    <3> QED
      BY <1>1, <1>4, <3>1, <3>3 DEF NotBehind
  <2> QED
    BY <2>6, <2>7
<1> QED
  BY <1>3, <1>4

\* Every step keeps safe_next up with the committed offset, or out of reach.
LEMMA NextNotBehind ==
    ASSUME "commit-timeout" \notin Env, "other-group-position" \notin Env,
           TypeOK, TypeOK', OwnedInv, SafeNextInv, [Next]_vars
    PROVE  SafeNextInv'
<1>a. ASSUME generation' = "stable" => generation = "stable", assigned' \subseteq assigned,
             \A p \in assigned' : NotBehind(p) => NotBehind(p)'
      PROVE  SafeNextInv'
  BY <1>a DEF SafeNextInv
<1>b. ASSUME generation' = "stable" => generation = "stable", assigned' \subseteq assigned,
             \A p \in Partitions : safe_next'[p] = safe_next[p] /\ committed'[p] = committed[p],
             UNCHANGED <<position, acknowledged, inflight, paused>>
      PROVE  SafeNextInv'
  BY <1>a, <1>b, RememberedSame DEF TypeOK
<1>c. ASSUME assigned' = {}
      PROVE  SafeNextInv'
  BY <1>c DEF SafeNextInv
<1>1. CASE PollBegin \/ FetchNothing \/ PollFails \/ PollReturn \/ Refused
  BY <1>1, <1>b DEF PollBegin, FetchNothing, PollFails, PollReturn, Refused
<1>2. CASE PollScan
  <2>1. /\ Scanned(ExpiredPartitions, DuePartitions, {})
        /\ UNCHANGED <<committed, safe_next, generation, assigned>>
    BY <1>2 DEF PollScan
  <2>2. \A p \in Partitions : NotBehind(p) => NotBehind(p)'
    BY <2>1, ScannedNotBehind
  <2> QED
    BY <1>a, <2>1, <2>2 DEF TypeOK
<1>3. CASE PollScanFails
  <2>1. /\ \E E \in SUBSET ExpiredPartitions, D, Q \in SUBSET DuePartitions : Scanned(E, D, Q)
        /\ UNCHANGED <<committed, safe_next, generation, assigned>>
    BY <1>3 DEF PollScanFails
  <2>2. \A p \in Partitions : NotBehind(p) => NotBehind(p)'
    BY <2>1, ScannedNotBehind
  <2> QED
    BY <1>a, <2>1, <2>2 DEF TypeOK
<1>4. ASSUME NEW p \in Partitions, NEW o \in Offsets,
             Deliver(p, o) \/ HoldBack(p, o) \/ HoldBackFails(p, o) \/ Malformed(p, o)
      PROVE  SafeNextInv'
  <2>1. UNCHANGED <<generation, assigned>>
    BY <1>4 DEF Deliver, HoldBack, HoldBackFails, Malformed
  <2>2. \A q \in Partitions : NotBehind(q) => NotBehind(q)'
    BY <1>4, FetchNotBehind
  <2> QED
    BY <1>a, <2>1, <2>2 DEF TypeOK
<1>5. CASE Revoked
  BY <1>5, <1>c DEF Revoked
<1>6. ASSUME NEW S \in SUBSET Partitions, Assigned(S)
      PROVE  SafeNextInv'
  <2>1. /\ inflight' = {} /\ assigned' = S /\ UNCHANGED <<committed, safe_next>>
        /\ \A p \in Partitions : acknowledged'[p] = {} /\ paused'[p] = NoPause
        /\ \A p \in S : position'[p] = StartOffset(p)
    BY <1>6 DEF Assigned, OwnedInv, OnlyOwnedDeliveries
  <2>2. ASSUME NEW p \in S
        PROVE  NotBehind(p)'
    <3>1. Remembered(p)' = {StartOffset(p)}
      BY <2>1 DEF Remembered, NoPause
    <3>2. safe_next[p] \in Int /\ committed[p] \in Int
      BY OffsetsAreIntegers
    <3>3. CASE committed[p] = NoOffset
      <4>1. safe_next[p] >= committed[p] /\ StartOffset(p) >= committed[p]
        <5>1. \A x \in Positions \cup {NoOffset} : x >= NoOffset
          BY OffsetFacts DEF NoOffset
        <5>2. safe_next[p] \in Positions \cup {NoOffset} /\ StartOffset(p) \in Positions
          BY <3>3, OffsetFacts DEF TypeOK, StartOffset
        <5> QED
          BY <3>3, <5>1, <5>2
      <4> QED
        BY <2>1, <3>1, <4>1 DEF NotBehind
    <3>4. CASE committed[p] # NoOffset
      <4>1. StartOffset(p) = committed[p]
        BY <3>4 DEF StartOffset
      <4>2. CASE safe_next[p] # NoOffset /\ safe_next[p] >= committed[p]
        BY <2>1, <4>2 DEF NotBehind
      <4>3. CASE safe_next[p] = NoOffset
        <5>1. StartOffset(p) >= committed[p]
          BY <3>2, <4>1
        <5> QED
          BY <2>1, <3>1, <4>3, <5>1 DEF NotBehind
      <4>4. CASE safe_next[p] # NoOffset /\ ~(safe_next[p] >= committed[p])
        <5>1. StartOffset(p) > safe_next[p]
          BY <3>2, <4>1, <4>4
        <5> QED
          BY <2>1, <3>1, <4>4, <5>1 DEF NotBehind
      <4> QED
        BY <4>2, <4>3, <4>4
    <3> QED
      BY <3>3, <3>4
  <2> QED
    BY <2>1, <2>2 DEF SafeNextInv
<1>7. CASE \/ \E t \in tokens : CallBegin("ack", t, 0)
           \/ \E t \in tokens, retry \in RetryAfter : CallBegin("nack", t, retry)
           \/ \E c \in calls : CallRejected(c) \/ DeadLetterPublish(c)
                               \/ DeadLetterPublishFails(c)
           \/ \E t \in dead : DeadLetterTimeout(t)
  BY <1>7, <1>b DEF CallBegin, CallRejected, DeadLetterPublish, DeadLetterPublishFails,
      DeadLetterTimeout
<1>8. ASSUME NEW t \in Token, Acknowledge(t)
      PROVE  SafeNextInv'
  <2>1. UNCHANGED <<generation, assigned>>
    BY <1>8 DEF Acknowledge
  <2>2. \A p \in Partitions : NotBehind(p) => NotBehind(p)'
    BY <1>8, AcknowledgeNotBehind
  <2> QED
    BY <1>a, <2>1, <2>2 DEF TypeOK
<1>9. CASE \/ \E c \in calls : AcknowledgeCall(c)
           \/ \E t \in dead : DeadLetterAcknowledge(t)
  <2>1. \E t \in Token : Acknowledge(t)
    BY <1>9 DEF AcknowledgeCall, DeadLetterAcknowledge, TypeOK, Call
  <2> QED
    BY <1>8, <2>1
<1>10. ASSUME NEW c \in calls, Redeliver(c)
       PROVE  SafeNextInv'
  <2> DEFINE t == c.token
  <2>1. t \in Token /\ t.partition \in Partitions /\ t.offset \in Offsets
    BY DEF TypeOK, Call, Token
  <2>2. /\ Known(t) /\ UNCHANGED <<generation, assigned, acknowledged, safe_next, committed>>
        /\ inflight' \subseteq inflight
    BY <1>10 DEF Redeliver
  <2> HIDE DEF t
  <2>3. ASSUME NEW p \in Partitions, NotBehind(p)
        PROVE  NotBehind(p)'
    <3>1. CASE p # t.partition
      <4>1. position'[p] = position[p] /\ paused'[p] = paused[p]
        BY <1>10, <2>1, <3>1 DEF Redeliver, TypeOK, t
      <4> QED
        BY <2>2, <2>3, <4>1, RememberedSame
    <3>2. CASE p = t.partition
      <4>1. t.offset \in Remembered(p)
        BY <2>1, <2>2, <3>2, AckedRemembered DEF Acked
      <4>2. position'[p] \in {position[p], t.offset}
        BY <1>10, <2>1, <3>2 DEF Redeliver, TypeOK, t
      <4>3. paused'[p].offset \in {paused[p].offset, t.offset}
        BY <1>10, <2>1, <3>2 DEF Redeliver, TypeOK, t
      <4>4. Remembered(p)' \subseteq Remembered(p)
        BY <2>2, <4>1, <4>2, <4>3 DEF Remembered
      <4>5. Remembered(p) \subseteq Nat
        BY RememberedType
      <4>6. \A y \in Remembered(p)' : y \in Remembered(p) /\ y <= y
        BY <4>4, <4>5
      <4> QED
        BY <2>2, <2>3, <4>6, NotBehindKept
    <3> QED
      BY <3>1, <3>2
  <2> QED
    BY <1>a, <2>2, <2>3 DEF TypeOK
<1>11. CASE \E tgt \in [Partitions -> Positions] : GroupPositionBegin(tgt)
  BY <1>11, <1>b DEF GroupPositionBegin
<1>12. CASE GroupPositionCommit
  <2>1. committed' = target /\ safe_next' = target /\ UNCHANGED assigned
    BY <1>12 DEF GroupPositionCommit
  <2>2. ASSUME NEW p \in Partitions
        PROVE  NotBehind(p)'
    <3>1. target[p] \in Nat /\ target[p] # NoOffset
      BY OffsetFacts DEF TypeOK
    <3> QED
      BY <2>1, <3>1 DEF NotBehind
  <2> QED
    BY <2>1, <2>2 DEF SafeNextInv, TypeOK
<1>13. CASE GroupPositionFails
  BY <1>13, <1>b DEF GroupPositionFails
<1>14. CASE Recover \/ Close \/ Restart
  BY <1>14, <1>c DEF Recover, Close, Restart, DiscardState
<1>15. CASE Tick \/ Evict \/ \E p \in Partitions : Append(p)
  BY <1>15, <1>b DEF Tick, Evict, Append
<1>16. ASSUME NEW p \in Partitions, NEW n, OtherMemberCommits(p, n)
       PROVE  SafeNextInv'
  <2>1. /\ UNCHANGED <<generation, assigned, safe_next, position, acknowledged, inflight,
                       paused>>
        /\ \A q \in Partitions \ {p} : committed'[q] = committed[q]
        /\ p \notin assigned \/ generation = "fenced"
    BY <1>16 DEF OtherMemberCommits
  <2>2. CASE generation = "fenced"
    BY <2>1, <2>2 DEF SafeNextInv
  <2>3. CASE p \notin assigned
    <3>1. \A q \in assigned : NotBehind(q) => NotBehind(q)'
      BY <2>1, <2>3, RememberedSame DEF TypeOK
    <3> QED
      BY <1>a, <2>1, <3>1
  <2> QED
    BY <2>1, <2>2, <2>3
<1>17. CASE UNCHANGED vars
  BY <1>17, <1>b
<1>18. CASE PollStep
  BY <1>1, <1>2, <1>3, <1>4, <1>18 DEF PollStep
<1>19. CASE RebalanceStep
  BY <1>5, <1>6, <1>19 DEF RebalanceStep
<1>20. CASE CallStep
  BY <1>7, <1>9, <1>10, <1>20 DEF CallStep
<1>21. CASE AdminStep
  BY <1>11, <1>12, <1>13, <1>14, <1>21 DEF AdminStep
<1>22. CASE EnvironmentStep
  BY <1>15, <1>16, <1>22 DEF EnvironmentStep, OtherGroupPosition
<1> QED
  BY <1>17, <1>18, <1>19, <1>20, <1>21, <1>22 DEF Next

\* No step but one of group_position lowers a committed offset.
LEMMA StepAdvances ==
    ASSUME "commit-timeout" \notin Env, "other-group-position" \notin Env,
           TypeOK, OwnedInv, SafeNextInv, [Next]_vars
    PROVE  \A p \in Partitions : committed'[p] >= committed[p] \/ lock = "group-position"
<1> SUFFICES ASSUME lock # "group-position", NEW p \in Partitions
             PROVE  committed'[p] >= committed[p]
  OBVIOUS
<1>1. committed[p] \in Int
  BY OffsetsAreIntegers
<1>a. ASSUME committed' = committed
      PROVE  committed'[p] >= committed[p]
  BY <1>1, <1>a
<1>2. CASE PollStep
  BY <1>2, <1>a DEF PollStep, PollBegin, PollScan, PollScanFails, FetchNothing, PollFails,
      PollReturn, Refused, Deliver, HoldBack, HoldBackFails, Malformed
<1>3. CASE RebalanceStep
  BY <1>3, <1>a DEF RebalanceStep, Revoked, Assigned
<1>4. ASSUME NEW t \in Token, Acknowledge(t)
      PROVE  committed'[p] >= committed[p]
  <2>1. CASE committed' = committed
    BY <2>1, <1>a
  <2>2. CASE \E safe \in Positions : AckCommits(t, safe)
    <3>1. PICK safe \in Positions : AckCommits(t, safe)
      BY <2>2
    <3>2. safe > committed[t.partition]
      BY <1>4, <3>1, RunAdvances DEF AckCommits, Acknowledge, Acknowledgeable
    <3>3. committed' = [committed EXCEPT ![t.partition] = safe] /\ safe \in Nat
      BY <3>1, OffsetFacts DEF AckCommits
    <3>4. CASE p = t.partition
      <4>1. committed'[p] = safe
        BY <3>3, <3>4 DEF TypeOK
      <4> QED
        BY <1>1, <3>2, <3>3, <3>4, <4>1
    <3>5. CASE p # t.partition
      <4>1. committed'[p] = committed[p]
        BY <3>3, <3>5 DEF TypeOK
      <4> QED
        BY <1>1, <4>1
    <3> QED
      BY <3>4, <3>5
  <2> QED
    BY <1>4, <2>1, <2>2 DEF Acknowledge, AckHeld, AckCommitFails
<1>5. CASE CallStep
  <2>1. CASE \/ \E c \in calls : AcknowledgeCall(c)
             \/ \E t \in dead : DeadLetterAcknowledge(t)
    <3>1. \E t \in Token : Acknowledge(t)
      BY <2>1 DEF AcknowledgeCall, DeadLetterAcknowledge, TypeOK, Call
    <3> QED
      BY <1>4, <3>1
  <2>2. CASE ~(\/ \E c \in calls : AcknowledgeCall(c)
               \/ \E t \in dead : DeadLetterAcknowledge(t))
    <3>1. committed' = committed
      BY <1>5, <2>2 DEF CallStep, CallBegin, CallRejected, Redeliver, DeadLetterPublish,
          DeadLetterPublishFails, DeadLetterTimeout
    <3> QED
      BY <1>a, <3>1
  <2> QED
    BY <2>1, <2>2
<1>6. CASE AdminStep
  BY <1>6, <1>a DEF AdminStep, GroupPositionBegin, GroupPositionCommit, GroupPositionFails,
      Recover, Close, Restart
<1>7. CASE EnvironmentStep
  <2>1. CASE \E q \in Partitions, n \in Positions : OtherMemberCommits(q, n)
    <3>1. PICK q \in Partitions, n \in Positions : OtherMemberCommits(q, n)
      BY <2>1
    <3>2. committed' = [committed EXCEPT ![q] = n] /\ committed[q] < n /\ n \in Nat
      BY <3>1, OffsetFacts DEF OtherMemberCommits
    <3>3. CASE p = q
      <4>1. committed'[p] = n
        BY <3>2, <3>3 DEF TypeOK
      <4> QED
        BY <1>1, <3>2, <3>3, <4>1
    <3>4. CASE p # q
      <4>1. committed'[p] = committed[p]
        BY <3>2, <3>4 DEF TypeOK
      <4> QED
        BY <1>1, <4>1
    <3> QED
      BY <3>3, <3>4
  <2>2. CASE Tick \/ Evict \/ \E q \in Partitions : Append(q)
    BY <2>2, <1>a DEF Tick, Evict, Append
  <2> QED
    BY <1>7, <2>1, <2>2 DEF EnvironmentStep, OtherGroupPosition
<1>8. CASE UNCHANGED vars
  BY <1>8, <1>a
<1> QED
  BY <1>2, <1>3, <1>5, <1>6, <1>7, <1>8 DEF Next

\* The group never goes back: as long as the answer of a commit is not lost and no
\* other member moves the group by hand, only group_position lowers a committed
\* offset, although safe_next survives rebalances in which other members commit.
THEOREM CommitsOnlyAdvance ==
    ASSUME "commit-timeout" \notin Env, "other-group-position" \notin Env
    PROVE  Spec => CommittedMonotonic
<1> DEFINE Inv == TypeOK /\ OwnedInv /\ SafeNextInv
<1>1. Init => Inv
  <2>1. Init => SafeNextInv
    BY DEF Init, SafeNextInv
  <2> QED
    BY <2>1, InitType, InitOwned
<1>2. Inv /\ [Next]_vars => Inv'
  BY NextType, NextOwned, NextNotBehind
<1>3. Inv /\ [Next]_vars =>
        [\A p \in Partitions : committed'[p] >= committed[p] \/ lock = "group-position"]_vars
  BY StepAdvances
<1> QED
  BY <1>1, <1>2, <1>3, PTL DEF Spec, CommittedMonotonic
=============================================================================
