---------------------- MODULE GroupConsumerRefinement ----------------------
(***************************************************************************)
(* GroupConsumer implements AtLeastOnceGroup: the proof that every step of *)
(* the engine, its client, the broker and the other members is a step of   *)
(* the abstract group or leaves its four variables alone.                  *)
(***************************************************************************)
EXTENDS GroupConsumerProofs

USE DEF vars, broker, client, state, thread, other

-----------------------------------------------------------------------------
(* The inductive invariant.                                                *)

\* Why ImplementsGroup holds, beside SafetyInv: what the _GroupState remembers was
\* delivered, and neither deliveries nor the offsets that may be committed lie
\* beyond the log.
WithinLog ==
    /\ \A p \in Partitions : \A o \in delivered[p] : o < high[p]
    /\ \A i \in inflight : i.offset \in delivered[i.partition]
    /\ \A p \in Partitions : acknowledged[p] \subseteq delivered[p]
    /\ \A p \in Partitions : safe_next[p] <= high[p]
    /\ \A p \in Partitions : target[p] <= high[p]

-----------------------------------------------------------------------------
(* What is remembered was delivered, and lies within the log.              *)

\* A step that delivers nothing and moves no safe offset keeps WithinLog if it only
\* forgets deliveries and acknowledgements.
LEMMA ForgettingWithinLog ==
    ASSUME TypeOK, WithinLog,
           UNCHANGED <<high, delivered, safe_next, target>>,
           inflight' \subseteq inflight,
           \A p \in Partitions : acknowledged'[p] \subseteq acknowledged[p]
    PROVE  WithinLog'
  BY DEF WithinLog

\* A run of acknowledged offsets ends within the log.
LEMMA SafeRunWithinLog ==
    ASSUME TypeOK, WithinLog, NEW t \in Token, Known(t),
           NEW safe \in Positions, SafeRun(t, safe)
    PROVE  /\ safe <= high[t.partition]
           /\ Original(t) <= high[t.partition]
<1>1. /\ t.partition \in Partitions /\ t.offset \in Offsets
      /\ t.offset \in delivered[t.partition]
  BY DEF Token, Known, WithinLog
<1>2. \A o \in Acked(t) : o < high[t.partition]
  BY <1>1 DEF WithinLog, Acked
<1>3. /\ high[t.partition] \in Nat /\ safe \in Nat
      /\ Original(t) \in Nat /\ t.offset \in Nat
  BY <1>1, OffsetFacts DEF TypeOK, Original
<1>4. Original(t) <= high[t.partition]
  BY <1>1, <1>2, <1>3 DEF Original, WithinLog, Acked
<1>5. CASE safe = Original(t)
  BY <1>4, <1>5
<1>6. CASE safe # Original(t)
  <2>1. safe - 1 \in Original(t) .. safe - 1
    BY <1>3, <1>6 DEF SafeRun
  <2>2. safe - 1 < high[t.partition]
    BY <1>2, <2>1 DEF SafeRun
  <2> QED
    BY <1>3, <1>4, <2>2
<1> QED
  BY <1>4, <1>5, <1>6

\* acknowledge commits within the log and remembers delivered offsets only.
LEMMA AcknowledgeWithinLog ==
    ASSUME TypeOK, WithinLog, NEW t \in Token, Acknowledge(t)
    PROVE  /\ WithinLog'
           /\ t.offset \in delivered[t.partition]
           /\ \E safe \in Positions :
                /\ safe <= high[t.partition]
                /\ committed' \in {committed, [committed EXCEPT ![t.partition] = safe]}
<1>1. /\ Known(t) /\ UNCHANGED <<high, delivered, target>>
      /\ t.partition \in Partitions /\ t.offset \in Offsets
  BY DEF Acknowledge, Acknowledgeable, Token
<1>2. t.offset \in delivered[t.partition]
  BY <1>1 DEF Known, WithinLog
<1>3. Original(t) \in Positions
  BY <1>1, OffsetFacts DEF TypeOK, Original
<1>4. PICK safe \in Positions :
          /\ SafeRun(t, safe)
          /\ TakeRun(t, safe)
          /\ safe_next' \in {[safe_next EXCEPT ![t.partition] = Original(t)],
                             [safe_next EXCEPT ![t.partition] = safe]}
          /\ committed' \in {committed, [committed EXCEPT ![t.partition] = safe]}
          /\ inflight' \subseteq inflight
  <2>1. CASE AckHeld(t)
    BY <1>3, <2>1 DEF AckHeld, ForgetDelivery
  <2>2. CASE \E safe \in Positions : AckCommits(t, safe)
    BY <2>2 DEF AckCommits, ForgetDelivery
  <2>3. CASE \E safe \in Positions : AckCommitFails(t, safe)
    BY <2>3 DEF AckCommitFails
  <2> QED
    BY <2>1, <2>2, <2>3 DEF Acknowledge
<1>5. safe <= high[t.partition] /\ Original(t) <= high[t.partition]
  BY <1>1, <1>4, SafeRunWithinLog
<1>6. \A p \in Partitions : safe_next'[p] <= high[p]
  BY <1>1, <1>4, <1>5 DEF TypeOK, WithinLog
<1>7. \A p \in Partitions : acknowledged'[p] \subseteq delivered[p]
  <2>1. Acked(t) \subseteq delivered[t.partition]
    BY <1>1, <1>2 DEF WithinLog, Acked
  <2> QED
    BY <1>1, <1>4, <2>1 DEF TypeOK, WithinLog, TakeRun
<1> QED
  BY <1>1, <1>2, <1>4, <1>5, <1>6, <1>7 DEF WithinLog

\* Nothing is remembered at first.
LEMMA InitWithinLog == Init => WithinLog
  BY OffsetFacts, LogAssumption DEF Init, NoneOf, WithinLog, NoOffset, Positions

\* Every step keeps WithinLog.
LEMMA NextWithinLog == TypeOK /\ WithinLog /\ [Next]_vars => WithinLog'
<1> SUFFICES ASSUME TypeOK, WithinLog, [Next]_vars PROVE WithinLog'
  OBVIOUS
<1>a. ASSUME UNCHANGED <<high, delivered, safe_next, target, inflight, acknowledged>>
      PROVE  WithinLog'
  BY <1>a, ForgettingWithinLog
<1>b. ASSUME NEW E, NEW D, NEW Q, Scanned(E, D, Q),
             UNCHANGED <<high, delivered, safe_next, target>>
      PROVE  WithinLog'
  <2>1. /\ inflight' \subseteq inflight
        /\ \A p \in Partitions : acknowledged'[p] \subseteq acknowledged[p]
    BY <1>b DEF Scanned
  <2> QED
    BY <1>b, <2>1, ForgettingWithinLog
<1>1. CASE PollBegin \/ FetchNothing \/ PollFails \/ PollReturn \/ Refused
  BY <1>1, <1>a DEF PollBegin, FetchNothing, PollFails, PollReturn, Refused
<1>2. CASE PollScan \/ PollScanFails
  BY <1>2, <1>b DEF PollScan, PollScanFails
<1>3. ASSUME NEW p \in Partitions, NEW o \in Offsets, Deliver(p, o)
      PROVE  WithinLog'
  <2>1. /\ o < high[p] /\ UNCHANGED <<high, acknowledged, target>>
        /\ delivered' = [delivered EXCEPT ![p] = @ \cup {o}]
        /\ safe_next' = [safe_next EXCEPT ![p] = IF @ = NoOffset THEN o ELSE @]
        /\ \A i \in inflight' : i \in inflight \/ (i.partition = p /\ i.offset = o)
    BY <1>3 DEF Deliver, Fetchable
  <2>2. /\ delivered'[p] = delivered[p] \cup {o}
        /\ \A q \in Partitions \ {p} : delivered'[q] = delivered[q]
    BY <2>1 DEF TypeOK
  <2>3. \A i \in inflight : i.partition \in Partitions
    BY DEF TypeOK, Token
  <2>4. \A i \in inflight' : i.offset \in delivered'[i.partition]
    BY <2>1, <2>2, <2>3 DEF WithinLog
  <2>5. \A q \in Partitions : safe_next'[q] <= high[q]
    <3>1. o \in Nat /\ high[p] \in Nat
      BY OffsetFacts DEF TypeOK
    <3> QED
      BY <2>1, <3>1 DEF TypeOK, WithinLog
  <2>6. /\ \A q \in Partitions : \A x \in delivered'[q] : x < high[q]
        /\ \A q \in Partitions : acknowledged[q] \subseteq delivered'[q]
    BY <2>1, <2>2 DEF WithinLog
  <2> QED
    BY <2>1, <2>4, <2>5, <2>6 DEF WithinLog
<1>4. ASSUME NEW p, NEW o, HoldBack(p, o) \/ HoldBackFails(p, o) \/ Malformed(p, o)
      PROVE  WithinLog'
  BY <1>4, <1>a DEF HoldBack, HoldBackFails, Malformed
<1>5. CASE Revoked
  BY <1>5, ForgettingWithinLog DEF Revoked
<1>6. ASSUME NEW S, Assigned(S)
      PROVE  WithinLog'
  BY <1>6, <1>a DEF Assigned
<1>7. ASSUME NEW op, NEW t, NEW retry, CallBegin(op, t, retry)
      PROVE  WithinLog'
  BY <1>7, <1>a DEF CallBegin
<1>8. ASSUME NEW c \in calls,
             CallRejected(c) \/ DeadLetterPublish(c) \/ DeadLetterPublishFails(c)
      PROVE  WithinLog'
  BY <1>8, <1>a DEF CallRejected, DeadLetterPublish, DeadLetterPublishFails
<1>9. ASSUME NEW c \in calls, AcknowledgeCall(c)
      PROVE  WithinLog'
  BY <1>9, AcknowledgeWithinLog DEF TypeOK, Call, AcknowledgeCall
<1>10. ASSUME NEW c \in calls, Redeliver(c)
       PROVE  WithinLog'
  <2>1. /\ inflight' \subseteq inflight
        /\ UNCHANGED <<high, delivered, safe_next, target, acknowledged>>
    BY <1>10 DEF Redeliver
  <2> QED
    BY <2>1, ForgettingWithinLog
<1>11. ASSUME NEW t \in dead, DeadLetterAcknowledge(t)
       PROVE  WithinLog'
  BY <1>11, AcknowledgeWithinLog DEF TypeOK, DeadLetterAcknowledge
<1>12. ASSUME NEW t \in dead, DeadLetterTimeout(t)
       PROVE  WithinLog'
  BY <1>12, <1>a DEF DeadLetterTimeout
<1>13. ASSUME NEW tgt, GroupPositionBegin(tgt)
       PROVE  WithinLog'
  BY <1>13 DEF GroupPositionBegin, WithinLog
<1>14. CASE GroupPositionCommit
  BY <1>14 DEF GroupPositionCommit, NoneOf, WithinLog
<1>15. CASE GroupPositionFails
  BY <1>15, <1>a DEF GroupPositionFails
<1>16. CASE Recover \/ Close \/ Restart
  <2>1. /\ UNCHANGED <<high, delivered, target>>
        /\ inflight' = {}
        /\ \A p \in Partitions : acknowledged'[p] = {} /\ safe_next'[p] = -1
    BY <1>16 DEF Recover, Close, Restart, DiscardState, NoneOf, NoOffset
  <2>2. \A p \in Partitions : -1 <= high[p]
    <3>1. \A p \in Partitions : high[p] \in Nat
      BY OffsetFacts DEF TypeOK
    <3> QED
      BY <3>1
  <2> QED
    BY <2>1, <2>2 DEF WithinLog
<1>17. CASE Tick \/ Evict
  BY <1>17, <1>a DEF Tick, Evict
<1>18. ASSUME NEW p \in Partitions, Append(p)
       PROVE  WithinLog'
  <2>1. /\ high' = [high EXCEPT ![p] = @ + 1]
        /\ UNCHANGED <<delivered, safe_next, target, inflight, acknowledged>>
    BY <1>18 DEF Append
  <2>2. \A q \in Partitions : /\ high[q] \in Nat /\ high'[q] \in {high[q], high[q] + 1}
                              /\ target[q] \in Nat /\ safe_next[q] \in Int
                              /\ delivered[q] \subseteq Nat
    <3>1. \A q \in Partitions : high'[q] = IF q = p THEN high[p] + 1 ELSE high[q]
      BY <2>1 DEF TypeOK
    <3>2. \A q \in Partitions : high[q] \in Nat /\ target[q] \in Nat
      BY OffsetFacts DEF TypeOK
    <3>3. \A q \in Partitions : safe_next[q] \in Positions \cup {NoOffset}
      BY DEF TypeOK
    <3>4. Positions \cup {NoOffset} \subseteq Int
      BY LogAssumption DEF Positions, NoOffset
    <3>5. \A q \in Partitions : delivered[q] \subseteq Nat
      BY OffsetFacts DEF TypeOK
    <3> QED
      BY <3>1, <3>2, <3>3, <3>4, <3>5
  <2>3. \A n \in Int, q \in Partitions : /\ n <= high[q] => n <= high'[q]
                                         /\ n < high[q] => n < high'[q]
    BY <2>2
  <2> QED
    BY <2>1, <2>2, <2>3 DEF WithinLog
<1>19. ASSUME NEW p, NEW n, OtherMemberCommits(p, n) \/ OtherGroupPosition(p, n)
       PROVE  WithinLog'
  BY <1>19, <1>a DEF OtherMemberCommits, OtherGroupPosition
<1>20. CASE UNCHANGED vars
  BY <1>20, <1>a
<1>21. CASE PollStep
  BY <1>1, <1>2, <1>3, <1>4, <1>21 DEF PollStep
<1>22. CASE RebalanceStep
  BY <1>5, <1>6, <1>22 DEF RebalanceStep
<1>23. CASE CallStep
  BY <1>7, <1>8, <1>9, <1>10, <1>11, <1>12, <1>23 DEF CallStep
<1>24. CASE AdminStep
  BY <1>13, <1>14, <1>15, <1>16, <1>24 DEF AdminStep
<1>25. CASE EnvironmentStep
  BY <1>17, <1>18, <1>19, <1>25 DEF EnvironmentStep
<1> QED
  BY <1>20, <1>21, <1>22, <1>23, <1>24, <1>25 DEF Next

-----------------------------------------------------------------------------
(* Every step is one of the abstract group.                                *)

USE DEF Group!vars

\* acknowledge moves the group's offset only over processed Events, within the log.
LEMMA AcknowledgeMayCommit ==
    ASSUME TypeOK, WithinLog, NothingSkipped', NEW t \in Token, Acknowledge(t)
    PROVE  /\ UNCHANGED <<high, delivered>>
           /\ t.offset \in delivered[t.partition]
           /\ Group!MayCommit(t.partition)
<1>1. UNCHANGED <<high, delivered>> /\ t.partition \in Partitions
  BY DEF Acknowledge, Token
<1>2. PICK safe \in Positions :
        /\ safe <= high[t.partition]
        /\ committed' \in {committed, [committed EXCEPT ![t.partition] = safe]}
  BY AcknowledgeWithinLog
<1>3. t.offset \in delivered[t.partition]
  BY AcknowledgeWithinLog
<1>4. CASE committed' = committed
  BY <1>1, <1>3, <1>4 DEF Group!MayCommit
<1>5. CASE committed' = [committed EXCEPT ![t.partition] = safe]
  <2>1. committed'[t.partition] = safe
    BY <1>1, <1>5 DEF TypeOK
  <2>2. \A o \in Offsets : o < safe /\ Record[t.partition][o] = "event"
                              => o \in resolved'[t.partition]
    BY <1>1, <2>1 DEF NothingSkipped, Covered
  <2> QED
    BY <1>1, <1>2, <1>3, <1>5, <2>2 DEF Group!MayCommit, Group!Offsets, Offsets, Positions
<1> QED
  BY <1>2, <1>4, <1>5

\* The program starts where the group starts.
LEMMA InitImplementsGroup == Init => Group!Init
  BY DEF Init, NoneOf, NoOffset, Group!Init

\* A step of the program is a step of the group, or leaves it alone.
LEMMA NextImplementsGroup ==
    ASSUME AutoOffsetReset = "earliest", "other-group-position" \notin Env,
           TypeOK, SafetyInv, WithinLog, SafetyInv', [Next]_vars
    PROVE  [Group!Next]_Group!vars
<1> SUFFICES ASSUME ~UNCHANGED Group!vars PROVE Group!Next
  OBVIOUS
<1>a. NothingSkipped'
  BY DEF SafetyInv
<1>1. CASE \/ PollBegin \/ PollScan \/ PollScanFails \/ FetchNothing \/ PollFails
           \/ PollReturn \/ Refused \/ Revoked
  BY <1>1 DEF PollBegin, PollScan, PollScanFails, FetchNothing, PollFails,
              PollReturn, Refused, Revoked
<1>2. ASSUME NEW p \in Partitions, NEW o \in Offsets, Deliver(p, o)
      PROVE  Group!Next
  <2>1. Group!Deliver(p, o)
    BY <1>2 DEF Deliver, Fetchable, Group!Deliver
  <2> QED
    BY <2>1 DEF Group!Next, Group!Offsets, Offsets
<1>3. ASSUME NEW p, NEW o, HoldBack(p, o) \/ HoldBackFails(p, o) \/ Malformed(p, o)
      PROVE  FALSE
  BY <1>3 DEF HoldBack, HoldBackFails, Malformed
<1>4. ASSUME NEW S, Assigned(S)
      PROVE  FALSE
  <2>1. resolved' = [p \in Partitions |-> resolved[p]] /\ UNCHANGED <<broker, delivered>>
    BY <1>4 DEF Assigned
  <2> QED
    BY <2>1 DEF TypeOK
<1>5. ASSUME NEW op, NEW t, NEW retry, CallBegin(op, t, retry)
      PROVE  FALSE
  BY <1>5 DEF CallBegin
<1>6. ASSUME NEW c \in calls, CallRejected(c) \/ Redeliver(c) \/ DeadLetterPublishFails(c)
      PROVE  FALSE
  BY <1>6 DEF CallRejected, Redeliver, DeadLetterPublishFails
<1>7. ASSUME NEW c \in calls, AcknowledgeCall(c)
      PROVE  Group!Next
  <2>1. /\ c.token \in Token /\ Acknowledge(c.token) /\ Resolve(c.token)
        /\ c.token.partition \in Partitions /\ c.token.offset \in Offsets
    BY <1>7 DEF AcknowledgeCall, TypeOK, Call, Token
  <2>2. Group!Process(c.token.partition, c.token.offset)
    BY <1>a, <2>1, AcknowledgeMayCommit DEF Resolve, Group!Process
  <2> QED
    BY <2>1, <2>2 DEF Group!Next, Group!Offsets, Offsets
<1>8. ASSUME NEW c \in calls, DeadLetterPublish(c)
      PROVE  Group!Next
  <2>1. /\ c.token \in Token /\ Known(c.token) /\ Resolve(c.token)
        /\ c.token.partition \in Partitions /\ c.token.offset \in Offsets
        /\ UNCHANGED <<broker, delivered>>
    BY <1>8 DEF DeadLetterPublish, TypeOK, Call, Token
  <2>2. c.token.offset \in delivered[c.token.partition]
    BY <2>1 DEF Known, WithinLog
  <2>3. Group!Process(c.token.partition, c.token.offset)
    BY <2>1, <2>2 DEF Resolve, Group!Process, Group!MayCommit
  <2> QED
    BY <2>1, <2>3 DEF Group!Next, Group!Offsets, Offsets
<1>9. ASSUME NEW t \in dead, DeadLetterAcknowledge(t)
      PROVE  Group!Next
  <2>1. t \in Token /\ Acknowledge(t) /\ t.partition \in Partitions /\ UNCHANGED resolved
    BY <1>9 DEF DeadLetterAcknowledge, TypeOK, Token
  <2>2. Group!Commit(t.partition)
    BY <1>a, <2>1, AcknowledgeMayCommit DEF Group!Commit
  <2> QED
    BY <2>1, <2>2 DEF Group!Next
<1>10. ASSUME NEW t \in dead, DeadLetterTimeout(t)
       PROVE  FALSE
  BY <1>10 DEF DeadLetterTimeout
<1>11. ASSUME NEW tgt, GroupPositionBegin(tgt)
       PROVE  FALSE
  BY <1>11 DEF GroupPositionBegin
<1>12. CASE GroupPositionCommit \/ GroupPositionFails
  <2>1. /\ UNCHANGED <<high, delivered>>
        /\ committed' = target
        /\ \/ resolved' = [p \in Partitions |-> 0 .. target[p] - 1]
           \/ resolved' = [p \in Partitions |-> resolved[p] \cup 0 .. target[p] - 1]
    BY <1>12 DEF GroupPositionCommit, GroupPositionFails
  <2>2. target \in [Partitions -> 0 .. MaxOffset] /\ \A p \in Partitions : target[p] <= high[p]
    BY DEF TypeOK, Positions, WithinLog
  <2>3. committed' = [p \in Partitions |-> target[p]]
    BY <2>1, <2>2
  <2>4. Group!Reposition(Partitions, target)
    BY <2>1, <2>2, <2>3 DEF Group!Reposition
  <2> QED
    BY <2>2, <2>4 DEF Group!Next
<1>13. CASE Recover \/ Close \/ Restart \/ Tick \/ Evict \/ UNCHANGED vars
  BY <1>13 DEF Recover, Close, Restart, Tick, Evict
<1>14. ASSUME NEW p \in Partitions, Append(p)
       PROVE  Group!Next
  <2>1. Group!Append(p)
    BY <1>14 DEF Append, Group!Append
  <2> QED
    BY <2>1 DEF Group!Next
<1>15. ASSUME NEW p \in Partitions, NEW n \in Positions, OtherMemberCommits(p, n)
       PROVE  Group!Next
  <2>1. Group!OthersProcess(p, n)
    BY <1>15 DEF OtherMemberCommits, Group!OthersProcess
  <2> QED
    BY <2>1 DEF Group!Next, Positions
<1>16. ASSUME NEW p, NEW n, OtherGroupPosition(p, n)
       PROVE  FALSE
  BY <1>16 DEF OtherGroupPosition
<1>17. CASE PollStep
  BY <1>1, <1>2, <1>3, <1>17 DEF PollStep
<1>18. CASE RebalanceStep
  BY <1>1, <1>4, <1>18 DEF RebalanceStep
<1>19. CASE CallStep
  BY <1>5, <1>6, <1>7, <1>8, <1>9, <1>10, <1>19 DEF CallStep
<1>20. CASE AdminStep
  BY <1>11, <1>12, <1>13, <1>20 DEF AdminStep
<1>21. CASE EnvironmentStep
  BY <1>13, <1>14, <1>15, <1>16, <1>21 DEF EnvironmentStep
<1> QED
  BY <1>13, <1>17, <1>18, <1>19, <1>20, <1>21 DEF Next

\* The engine implements the abstract group, with any number of partitions, threads,
\* rebalances, failed or lost commits, expiries and crashes: for a group that starts
\* at the earliest Event and whose position only this member changes.
THEOREM ConsumerImplementsGroup ==
    ASSUME AutoOffsetReset = "earliest", "other-group-position" \notin Env
    PROVE  Spec => ImplementsGroup
<1>1. Init => TypeOK /\ SafetyInv /\ WithinLog /\ Group!Init
  BY InitType, InitSafe, InitWithinLog, InitImplementsGroup
<1>2. TypeOK /\ SafetyInv /\ WithinLog /\ [Next]_vars
        => TypeOK' /\ SafetyInv' /\ WithinLog'
  BY NextType, NextSafe, NextWithinLog
<1>3. TypeOK /\ SafetyInv /\ WithinLog /\ SafetyInv' /\ [Next]_vars
        => [Group!Next]_Group!vars
  BY NextImplementsGroup
<1> QED
  BY <1>1, <1>2, <1>3, PTL DEF Spec, ImplementsGroup, Group!Spec

=============================================================================
