--------------------------- MODULE GroupConsumer ---------------------------
(***************************************************************************)
(* The persistent consumer of one (Subscription, ConsumerGroup) pair:      *)
(* KafkaConsumerEngine of consumer/__init__.py and its _GroupState.        *)
(*                                                                         *)
(* The actors are the threads that call poll, acknowledge,                 *)
(* negative_acknowledge, group_position, recover and close; the client     *)
(* library, which runs the rebalance callbacks inside poll; the broker,    *)
(* which stores the group's committed offsets; the other members of the    *)
(* group; and the clock.  A call that takes state.lock is a single step,   *)
(* except where it waits for something while other actors move: poll       *)
(* (lock = "scan" at the top of its loop, "fetch" inside consumer.poll),   *)
(* the dead-letter publish and the compare-and-set of group_position.      *)
(* acknowledge and negative_acknowledge decode their token BEFORE they     *)
(* take the lock: between CallBegin and the locked part anything happens.  *)
(*                                                                         *)
(* An Event is its offset; Record says which offsets hold an Event, which  *)
(* a record that _decode_event refuses, and which are never handed out by  *)
(* the client library (transaction markers, aborted or compacted records). *)
(***************************************************************************)
EXTENDS Integers, FiniteSets, FiniteSetsExt

CONSTANTS
    Partitions,           \* partitions of the Stream's topic
    MaxOffset,            \* bound on the length of a partition's log
    Record,               \* kind of the record at each offset
    InitialHigh,          \* records in every log when the program starts
    AutoOffsetReset,      \* binding option autoOffsetReset
    AckTimeout,           \* acknowledgement_timeout_ms of the Subscription
    RetryAfter,           \* retry_after_ms values of negative acknowledgements
    MaxDeliveryAttempts,  \* max_delivery_attempts of the Subscription
    DeadLetter,           \* is a dead_letter_stream configured?
    PollLimit,            \* limit of a poll command
    MaxCalls,             \* bound on concurrent ack / nack calls
    MaxClock,             \* bound on the clock
    MaxEpoch,             \* bound on assignment_epoch
    MaxAttempts,          \* bound on deliveries of one record
    MaxIncarnation,       \* bound on the number of _GroupState objects
    Env                   \* behaviours of the environment a run admits

Offsets == 0 .. MaxOffset - 1
Positions == 0 .. MaxOffset
NoOffset == -1

Environment ==
    { "eviction",              \* the broker drops this member
      "competitor",            \* other members own partitions and commit
      "other-group-position",  \* another member runs group_position
      "commit-failure",        \* a commit may fail, nothing applied
      "commit-timeout",        \* a commit may fail after it was applied
      "client-failure",        \* poll, seek, pause, resume may raise
      "publish-failure",       \* the dead-letter publish may raise
      "leak",                  \* a paused partition may still return a record
      "hold-back-failure",     \* the seek back to such a record may raise
      "duplicate-call",        \* the application may reuse a token
      "group-position", "recover", "restart", "close" }

ASSUME LogAssumption ==
    /\ MaxOffset \in Nat
    /\ InitialHigh \in Positions
    /\ Record \in [Partitions -> [Offsets -> {"event", "malformed", "gap"}]]

ASSUME OptionAssumption ==
    /\ AutoOffsetReset \in {"earliest", "latest"}
    /\ AckTimeout \in Nat \ {0}
    /\ RetryAfter \subseteq Nat
    /\ MaxDeliveryAttempts \in Nat \ {0}
    /\ DeadLetter \in BOOLEAN
    /\ PollLimit \in Nat \ {0}

ASSUME BoundAssumption ==
    /\ MaxCalls \in Nat
    /\ MaxClock \in Nat
    /\ MaxEpoch \in Nat
    /\ MaxAttempts \in Nat
    /\ MaxIncarnation \in Nat
    /\ Env \subseteq Environment

VARIABLES
    \* The broker.
    high,              \* high watermark of each partition
    committed,         \* committed offset of the group, or NoOffset
    \* The client library's consumer.
    generation,        \* membership: "joining", "stable", or "fenced"
    position,          \* next offset the client will fetch
    muted,             \* partitions paused in the client
    \* _GroupState.
    present,           \* is there a _GroupState in self._states?
    closed,            \* self._closed
    assignment_epoch, assigned, inflight, attempts, acknowledged, safe_next,
    paused,
    \* The threads inside the engine.
    lock,              \* who holds state.lock, and where
    batch,             \* deliveries collected by the poll that holds it
    calls,             \* ack / nack calls past decode_delivery
    dead,              \* the delivery whose dead-letter publish has succeeded
    before, target,    \* locals of the group_position that holds the lock
    \* Time, the application, and the producer's idempotency cache.
    now,
    tokens,            \* delivery tokens the application can still use
    published,         \* dead-letter idempotency keys already used
    \* History.
    incarnation,       \* number of _GroupState objects discarded so far
    delivered,         \* offsets ever handed out as a Delivery
    resolved           \* offsets acknowledged by the application, published to
                       \* the dead-letter Stream, or answered for by another

broker == <<high, committed>>
client == <<generation, position, muted>>
state  == <<present, closed, assignment_epoch, assigned, inflight, attempts,
            acknowledged, safe_next, paused>>
thread == <<lock, batch, calls, dead, before, target>>
other  == <<now, tokens, published, incarnation, delivered, resolved>>
vars   == <<broker, client, state, thread, other>>

(***************************************************************************)
(* A delivery token names the delivery it was issued for; the entry of the *)
(* inflight dictionary for (partition, offset) holds the same fields.      *)
(***************************************************************************)
Token == [partition : Partitions, offset : Offsets, assignment_epoch : Nat,
          attempt : Nat, expires_at : Nat]

Call == [operation : {"ack", "nack"}, token : Token, retry_after : Nat]

Pause == [offset : Offsets, resume_at : Nat]

NoPause == [offset |-> NoOffset, resume_at |-> 0]

TypeOK ==
    /\ high \in [Partitions -> Positions]
    /\ committed \in [Partitions -> Positions \cup {NoOffset}]
    /\ generation \in {"joining", "stable", "fenced"}
    /\ position \in [Partitions -> Positions]
    /\ muted \subseteq Partitions
    /\ present \in BOOLEAN
    /\ closed \in BOOLEAN
    /\ assignment_epoch \in Nat
    /\ assigned \subseteq Partitions
    /\ inflight \subseteq Token
    /\ attempts \in [Partitions -> [Offsets -> Nat]]
    /\ acknowledged \in [Partitions -> SUBSET Offsets]
    /\ safe_next \in [Partitions -> Positions \cup {NoOffset}]
    /\ paused \in [Partitions -> Pause \cup {NoPause}]
    /\ lock \in {"free", "scan", "fetch", "dead-letter", "group-position"}
    /\ batch \subseteq Token
    /\ calls \subseteq Call
    /\ dead \subseteq Token
    /\ before \in [Partitions -> Positions]
    /\ target \in [Partitions -> Positions]
    /\ now \in Nat
    /\ tokens \subseteq Token
    /\ published \subseteq Partitions \X Offsets \X Nat
    /\ incarnation \in Nat
    /\ delivered \in [Partitions -> SUBSET Offsets]
    /\ resolved \in [Partitions -> SUBSET Offsets]

NoneOf(x) == [p \in Partitions |-> x]

Init ==
    /\ high = NoneOf(InitialHigh)
    /\ committed = NoneOf(NoOffset)
    /\ generation = "joining"
    /\ position = NoneOf(0)
    /\ muted = {}
    /\ present = FALSE
    /\ closed = FALSE
    /\ assignment_epoch = 0
    /\ assigned = {}
    /\ inflight = {}
    /\ attempts = NoneOf([o \in Offsets |-> 0])
    /\ acknowledged = NoneOf({})
    /\ safe_next = NoneOf(NoOffset)
    /\ paused = NoneOf(NoPause)
    /\ lock = "free"
    /\ batch = {}
    /\ calls = {}
    /\ dead = {}
    /\ before = NoneOf(0)
    /\ target = NoneOf(0)
    /\ now = 0
    /\ tokens = {}
    /\ published = {}
    /\ incarnation = 0
    /\ delivered = NoneOf({})
    /\ resolved = NoneOf({})

-----------------------------------------------------------------------------
(* Time, the log, and the rest of the group.                               *)

\* A publisher appends the next record of the partition's log.
Append(p) ==
    /\ high[p] < MaxOffset
    /\ high' = [high EXCEPT ![p] = @ + 1]
    /\ UNCHANGED <<committed, client, state, thread, other>>

\* A token past its expiry is refused by decode_delivery (DeliveryTimeout)
\* whatever else happens: the application's useless tokens are dropped here.
Tick ==
    /\ now < MaxClock
    /\ now' = now + 1
    /\ tokens' = {t \in tokens : t.expires_at > now + 1}
    /\ UNCHANGED <<broker, client, state, thread,
                   published, incarnation, delivered, resolved>>

\* The member that owns p instead of this one processes records and commits;
\* it answers for everything below its commit.
OtherMemberCommits(p, n) ==
    /\ "competitor" \in Env
    /\ p \notin assigned \/ generation = "fenced"
    /\ committed[p] < n /\ n <= high[p]
    /\ committed' = [committed EXCEPT ![p] = n]
    /\ resolved' = [resolved EXCEPT ![p] = @ \cup 0 .. n - 1]
    /\ UNCHANGED <<high, client, state, thread,
                   now, tokens, published, incarnation, delivered>>

\* Another member runs group_position: what lies at or above n must be
\* processed again.
OtherGroupPosition(p, n) ==
    /\ "other-group-position" \in Env
    /\ p \notin assigned
    /\ n # committed[p] /\ n <= high[p]
    /\ committed' = [committed EXCEPT ![p] = n]
    /\ resolved' = [resolved EXCEPT ![p] = 0 .. n - 1]
    /\ UNCHANGED <<high, client, state, thread,
                   now, tokens, published, incarnation, delivered>>

\* The broker gives up on this member (session or poll interval timeout).
\* The client learns of it in a later poll; until then it keeps consuming,
\* and its commits are refused.
Evict ==
    /\ "eviction" \in Env
    /\ generation = "stable"
    /\ assignment_epoch + 2 <= MaxEpoch
    /\ generation' = "fenced"
    /\ UNCHANGED <<broker, position, muted, state, thread, other>>

-----------------------------------------------------------------------------
(* poll: the loop of consumer.poll calls, under state.lock throughout.     *)

\* _state creates the _GroupState if there is none; poll takes the lock.
PollBegin ==
    /\ ~closed
    /\ lock = "free"
    /\ present' = TRUE
    /\ lock' = "scan"
    /\ UNCHANGED <<broker, client, closed, assignment_epoch, assigned, inflight,
                   attempts, acknowledged, safe_next, paused,
                   batch, calls, dead, before, target, other>>

\* A closed engine refuses poll and group_position.
Refused ==
    /\ closed
    /\ UNCHANGED vars

ExpiredOffsets(p) ==
    {t.offset : t \in {i \in inflight : i.partition = p /\ i.expires_at <= now}}

Rewind(p) == Min(ExpiredOffsets(p))

\* Partitions that _expire_inflight rewinds and _resume_due resumes.
ExpiredPartitions == {p \in Partitions : ExpiredOffsets(p) # {}}
DuePartitions == {p \in Partitions : paused[p] # NoPause /\ paused[p].resume_at <= now}

\* Mutant of Scanned: the expired deliveries are dropped, the client is not sought.
ScannedWithoutSeek(E, D, Q) ==
    /\ position' = [p \in Partitions |->
            IF p \in D \cup Q THEN paused[p].offset ELSE position[p]]
    /\ muted' = muted \ D
    /\ paused' = [p \in Partitions |-> IF p \in D THEN NoPause ELSE paused[p]]
    /\ inflight' = {t \in inflight :
            t.partition \in E => t.offset < Rewind(t.partition)}
    /\ acknowledged' = [p \in Partitions |->
            {o \in acknowledged[p] : p \in E => o < Rewind(p)}]

\* Mutant of Scanned: due pauses are dropped and the client is not resumed.
ScannedWithoutResume(E, D, Q) ==
    /\ position' = [p \in Partitions |->
            IF p \in D \cup Q THEN paused[p].offset
            ELSE IF p \in E THEN Rewind(p) ELSE position[p]]
    /\ paused' = [p \in Partitions |-> IF p \in D THEN NoPause ELSE paused[p]]
    /\ inflight' = {t \in inflight :
            t.partition \in E => t.offset < Rewind(t.partition)}
    /\ acknowledged' = [p \in Partitions |->
            {o \in acknowledged[p] : p \in E => o < Rewind(p)}]
    /\ UNCHANGED muted

\* _expire_inflight has treated the partitions of E, then _resume_due those of
\* D; for a partition of Q it has called seek and not resume.
Scanned(E, D, Q) ==
    /\ position' = [p \in Partitions |->
            IF p \in D \cup Q THEN paused[p].offset
            ELSE IF p \in E THEN Rewind(p) ELSE position[p]]
    /\ muted' = muted \ D
    /\ paused' = [p \in Partitions |-> IF p \in D THEN NoPause ELSE paused[p]]
    /\ inflight' = {t \in inflight :
            t.partition \in E => t.offset < Rewind(t.partition)}
    /\ acknowledged' = [p \in Partitions |->
            {o \in acknowledged[p] : p \in E => o < Rewind(p)}]

PollScan ==
    /\ lock = "scan"
    /\ Cardinality(batch) < PollLimit
    /\ Scanned(ExpiredPartitions, DuePartitions, {})
    /\ lock' = "fetch"
    /\ UNCHANGED <<broker, generation, present, closed, assignment_epoch, assigned,
                   attempts, safe_next, batch, calls, dead, before, target, other>>

\* A seek or a resume raises: poll leaves its loop and its deliveries are lost.
PollScanFails ==
    /\ "client-failure" \in Env
    /\ lock = "scan"
    /\ Cardinality(batch) < PollLimit
    /\ \/ \E E \in SUBSET ExpiredPartitions :
            E # ExpiredPartitions /\ Scanned(E, {}, {})
       \/ \E D \in SUBSET DuePartitions : \E q \in DuePartitions \ D :
            \E Q \in {{}, {q}} : Scanned(ExpiredPartitions, D, Q)
    /\ lock' = "free"
    /\ batch' = {}
    /\ UNCHANGED <<broker, generation, present, closed, assignment_epoch, assigned,
                   attempts, safe_next, calls, dead, before, target, other>>

\* Mutants of StartOffset: a missing commit is not told apart; the client resumes
\* where its previous assignment has stopped.
StartOffsetUnchecked(p) == committed[p]

StartOffsetResumes(p) == position[p]

\* Where the client starts to fetch a partition it is assigned.
StartOffset(p) ==
    IF committed[p] # NoOffset THEN committed[p]
    ELSE IF AutoOffsetReset = "earliest" THEN 0 ELSE high[p]

\* The assigned callback, run by the client inside poll.  The policy "latest"
\* gives up the records of a partition without a commit that were never
\* delivered, by configuration.
Assigned(S) ==
    /\ lock = "fetch"
    /\ generation = "joining"
    /\ assignment_epoch < MaxEpoch
    /\ "competitor" \in Env \/ S = Partitions
    /\ assignment_epoch' = assignment_epoch + 1
    /\ assigned' = S
    /\ generation' = "stable"
    /\ position' = [p \in Partitions |->
            IF p \in S THEN StartOffset(p) ELSE position[p]]
    /\ resolved' = [p \in Partitions |->
            IF p \in S /\ committed[p] = NoOffset /\ AutoOffsetReset = "latest"
            THEN resolved[p] \cup ((0 .. high[p] - 1) \ delivered[p])
            ELSE resolved[p]]
    /\ UNCHANGED <<broker, muted, present, closed, inflight, attempts,
                   acknowledged, safe_next, paused, thread,
                   now, tokens, published, incarnation, delivered>>

\* Mutant of Revoked: paused keeps its entries.
RevokedKeepingPaused ==
    /\ lock = "fetch"
    /\ generation # "joining"
    /\ assignment_epoch + 2 <= MaxEpoch
    /\ assignment_epoch' = assignment_epoch + 1
    /\ assigned' = {}
    /\ inflight' = {t \in inflight : t.partition \notin assigned}
    /\ attempts' = [p \in Partitions |->
            IF p \in assigned THEN [o \in Offsets |-> 0] ELSE attempts[p]]
    /\ acknowledged' = [p \in Partitions |->
            IF p \in assigned THEN {} ELSE acknowledged[p]]
    /\ generation' = "joining"
    /\ muted' = {}
    /\ UNCHANGED <<broker, position, present, closed, safe_next, paused, thread, other>>

\* The revoked callback.  The group uses the eager protocol (no assignment
\* strategy is configured): the callback gets every assigned partition.
\* safe_next keeps its entries.
Revoked ==
    /\ lock = "fetch"
    /\ generation # "joining"
    /\ assignment_epoch + 2 <= MaxEpoch
    /\ assignment_epoch' = assignment_epoch + 1
    /\ assigned' = {}
    /\ inflight' = {t \in inflight : t.partition \notin assigned}
    /\ attempts' = [p \in Partitions |->
            IF p \in assigned THEN [o \in Offsets |-> 0] ELSE attempts[p]]
    /\ acknowledged' = [p \in Partitions |->
            IF p \in assigned THEN {} ELSE acknowledged[p]]
    /\ paused' = [p \in Partitions |->
            IF p \in assigned THEN NoPause ELSE paused[p]]
    /\ generation' = "joining"
    /\ muted' = {}
    /\ UNCHANGED <<broker, position, present, closed, safe_next, thread, other>>

\* The next record the client can hand out: o of partition p.
Fetchable(p, o) ==
    /\ lock = "fetch"
    /\ p \in assigned
    /\ p \notin muted \/ "leak" \in Env
    /\ position[p] <= o /\ o < high[p]
    /\ Record[p][o] # "gap"
    /\ \A g \in position[p] .. o - 1 : Record[p][g] = "gap"

HeldBack(p, o) == paused[p].offset = o /\ paused[p].resume_at > now

\* _delivery for a record that may be delivered.  A due pause is dropped
\* without resuming the partition in the client.
Deliver(p, o) ==
    LET t == [partition |-> p, offset |-> o,
              assignment_epoch |-> assignment_epoch,
              attempt |-> attempts[p][o] + 1,
              expires_at |-> now + AckTimeout]
    IN  /\ Fetchable(p, o)
        /\ Record[p][o] = "event"
        /\ ~HeldBack(p, o)
        /\ attempts[p][o] < MaxAttempts
        /\ position' = [position EXCEPT ![p] = o + 1]
        /\ paused' = IF paused[p].offset = o
                     THEN [paused EXCEPT ![p] = NoPause] ELSE paused
        /\ attempts' = [attempts EXCEPT ![p][o] = @ + 1]
        /\ safe_next' = [safe_next EXCEPT ![p] = IF @ = NoOffset THEN o ELSE @]
        /\ inflight' = {i \in inflight : ~(i.partition = p /\ i.offset = o)} \cup {t}
        /\ batch' = batch \cup {t}
        /\ delivered' = [delivered EXCEPT ![p] = @ \cup {o}]
        /\ lock' = "scan"
        /\ UNCHANGED <<broker, generation, muted, present, closed, assignment_epoch,
                       assigned, acknowledged, calls, dead, before, target,
                       now, tokens, published, incarnation, resolved>>

\* _delivery for a record whose redelivery is not due: the client is sought
\* back to it.
HoldBack(p, o) ==
    /\ Fetchable(p, o)
    /\ HeldBack(p, o)
    /\ position' = [position EXCEPT ![p] = o]
    /\ lock' = "scan"
    /\ UNCHANGED <<broker, generation, muted, state,
                   batch, calls, dead, before, target, other>>

\* The same when the seek raises: poll fails, its deliveries are lost, and the
\* client stays past the record.
HoldBackFails(p, o) ==
    /\ "hold-back-failure" \in Env
    /\ Fetchable(p, o)
    /\ HeldBack(p, o)
    /\ position' = [position EXCEPT ![p] = o + 1]
    /\ lock' = "free"
    /\ batch' = {}
    /\ UNCHANGED <<broker, generation, muted, state,
                   calls, dead, before, target, other>>

\* _decode_event raises InvalidEvent: poll fails, its deliveries are lost, and
\* the client has moved past the record.
Malformed(p, o) ==
    /\ Fetchable(p, o)
    /\ Record[p][o] = "malformed"
    /\ position' = [position EXCEPT ![p] = o + 1]
    /\ lock' = "free"
    /\ batch' = {}
    /\ UNCHANGED <<broker, generation, muted, state,
                   calls, dead, before, target, other>>

\* consumer.poll returns None and the deadline has not passed.
FetchNothing ==
    /\ lock = "fetch"
    /\ lock' = "scan"
    /\ UNCHANGED <<broker, client, state, batch, calls, dead, before, target, other>>

\* consumer.poll raises, or the message it returns is an error.
PollFails ==
    /\ "client-failure" \in Env
    /\ lock = "fetch"
    /\ lock' = "free"
    /\ batch' = {}
    /\ UNCHANGED <<broker, client, state, calls, dead, before, target, other>>

\* The loop ends: limit reached, deadline passed, or no message and no wait.
PollReturn ==
    /\ lock = "fetch" \/ (lock = "scan" /\ Cardinality(batch) >= PollLimit)
    /\ lock' = "free"
    /\ batch' = {}
    /\ tokens' = tokens \cup batch
    /\ UNCHANGED <<broker, client, state, calls, dead, before, target,
                   now, published, incarnation, delivered, resolved>>

-----------------------------------------------------------------------------
(* acknowledge and negative_acknowledge.                                   *)

\* _existing_state and decode_delivery, before the lock is taken.  A token is
\* decoded when it is authentic and not expired.
CallBegin(op, t, retry) ==
    /\ present
    /\ t \in tokens
    /\ now < t.expires_at
    /\ Cardinality(calls) < MaxCalls
    /\ calls' = calls \cup {[operation |-> op, token |-> t, retry_after |-> retry]}
    /\ tokens' \in IF "duplicate-call" \in Env THEN {tokens, tokens \ {t}}
                   ELSE {tokens \ {t}}
    /\ UNCHANGED <<broker, client, state, lock, batch, dead, before, target,
                   now, published, incarnation, delivered, resolved>>

\* The checks made under the lock: the token's epoch is the current one and
\* the inflight entry of its coordinates has its attempt.  acknowledge also
\* compares the entry's own epoch.
Known(t) ==
    /\ t.assignment_epoch = assignment_epoch
    /\ \E i \in inflight : /\ i.partition = t.partition
                           /\ i.offset = t.offset
                           /\ i.attempt = t.attempt

Acknowledgeable(t) ==
    /\ Known(t)
    /\ \A i \in inflight : i.partition = t.partition /\ i.offset = t.offset
                              => i.assignment_epoch = assignment_epoch

\* RebalanceConflict or DeliveryRejected.
CallRejected(c) ==
    /\ lock = "free"
    /\ IF c.operation = "ack" THEN ~Acknowledgeable(c.token) ELSE ~Known(c.token)
    /\ calls' = calls \ {c}
    /\ UNCHANGED <<broker, client, state, lock, batch, dead, before, target, other>>

\* state.safe_next.setdefault(partition, offset)
Original(t) ==
    IF safe_next[t.partition] = NoOffset THEN t.offset ELSE safe_next[t.partition]

Acked(t) == acknowledged[t.partition] \cup {t.offset}

\* Mutant of SafeRun: the safe offset follows the highest acknowledged one.
SafeRunOverGaps(t, safe) ==
    /\ Original(t) <= safe
    /\ safe - 1 \in Acked(t)
    /\ safe \notin Acked(t)

\* safe is where the run of acknowledged offsets that starts at Original ends.
SafeRun(t, safe) ==
    /\ Original(t) <= safe
    /\ \A o \in Original(t) .. safe - 1 : o \in Acked(t)
    /\ safe \notin Acked(t)

\* The delivery and its attempt count are forgotten.
ForgetDelivery(t) ==
    /\ inflight' = {i \in inflight : ~(i.partition = t.partition /\ i.offset = t.offset)}
    /\ attempts' = [attempts EXCEPT ![t.partition][t.offset] = 0]

\* The run is removed from acknowledged before the commit is tried.
TakeRun(t, safe) ==
    acknowledged' = [acknowledged EXCEPT
                        ![t.partition] = Acked(t) \ (Original(t) .. safe - 1)]

\* The broker refuses the commits of a member it has dropped.
CommitAccepted == generation # "fenced"

CommitMayFail == generation = "fenced" \/ "commit-failure" \in Env

\* Mutant of AckHeld: the commit is made whether or not the offset advances.
AckHeldCommits(t) ==
    /\ SafeRun(t, Original(t))
    /\ TakeRun(t, Original(t))
    /\ safe_next' = [safe_next EXCEPT ![t.partition] = Original(t)]
    /\ ForgetDelivery(t)
    /\ committed' = [committed EXCEPT ![t.partition] = Original(t)]

\* An offset below this one is still unacknowledged: nothing to commit.
AckHeld(t) ==
    /\ SafeRun(t, Original(t))
    /\ TakeRun(t, Original(t))
    /\ safe_next' = [safe_next EXCEPT ![t.partition] = Original(t)]
    /\ ForgetDelivery(t)
    /\ UNCHANGED committed

\* Mutant of AckCommits: safe_next does not follow the commit.
AckCommitsKeepingSafeNext(t, safe) ==
    /\ SafeRun(t, safe) /\ safe > Original(t)
    /\ CommitAccepted
    /\ TakeRun(t, safe)
    /\ committed' = [committed EXCEPT ![t.partition] = safe]
    /\ safe_next' = [safe_next EXCEPT ![t.partition] = Original(t)]
    /\ ForgetDelivery(t)

\* The commit is applied and safe_next follows it.
AckCommits(t, safe) ==
    /\ SafeRun(t, safe) /\ safe > Original(t)
    /\ CommitAccepted
    /\ TakeRun(t, safe)
    /\ committed' = [committed EXCEPT ![t.partition] = safe]
    /\ safe_next' = [safe_next EXCEPT ![t.partition] = safe]
    /\ ForgetDelivery(t)

\* commit raises: the delivery stays in flight, the run is gone, safe_next has
\* not moved.  A commit whose answer is lost has been applied all the same.
AckCommitFails(t, safe) ==
    /\ SafeRun(t, safe) /\ safe > Original(t)
    /\ \/ CommitMayFail /\ UNCHANGED committed
       \/ /\ "commit-timeout" \in Env /\ CommitAccepted
          /\ committed' = [committed EXCEPT ![t.partition] = safe]
    /\ TakeRun(t, safe)
    /\ safe_next' = [safe_next EXCEPT ![t.partition] = Original(t)]
    /\ UNCHANGED <<inflight, attempts>>

\* The locked part of acknowledge.
Acknowledge(t) ==
    /\ Acknowledgeable(t)
    /\ \/ AckHeld(t)
       \/ \E safe \in Positions : AckCommits(t, safe) \/ AckCommitFails(t, safe)
    /\ UNCHANGED <<high, client, present, closed, assignment_epoch, assigned, paused,
                   batch, before, target,
                   now, tokens, published, incarnation, delivered>>

Resolve(t) == resolved' = [resolved EXCEPT ![t.partition] = @ \cup {t.offset}]

\* Mutant of AcknowledgeCall: it does not take the lock.
AcknowledgeUnlocked(c) ==
    /\ lock \in {"free", "group-position"}
    /\ c.operation = "ack"
    /\ Acknowledge(c.token)
    /\ Resolve(c.token)
    /\ calls' = calls \ {c}
    /\ UNCHANGED <<lock, dead>>

\* The application has processed the record, whatever becomes of the commit.
AcknowledgeCall(c) ==
    /\ lock = "free"
    /\ c.operation = "ack"
    /\ Acknowledge(c.token)
    /\ Resolve(c.token)
    /\ calls' = calls \ {c}
    /\ UNCHANGED <<lock, dead>>

ToDeadLetter(t) == DeadLetter /\ t.attempt >= MaxDeliveryAttempts

\* negative_acknowledge below the attempt limit: seek, and pause if the retry is
\* delayed.  seek or pause may raise, after the inflight entry is gone.
Redeliver(c) ==
    LET t == c.token
        sought == [position EXCEPT ![t.partition] = t.offset]
    IN  /\ lock = "free"
        /\ c.operation = "nack"
        /\ Known(t)
        /\ ~ToDeadLetter(t)
        /\ now + c.retry_after <= MaxClock
        /\ inflight' = {i \in inflight :
                            ~(i.partition = t.partition /\ i.offset = t.offset)}
        /\ \/ /\ position' = sought
              /\ c.retry_after = 0
              /\ UNCHANGED <<muted, paused>>
           \/ /\ position' = sought
              /\ c.retry_after > 0
              /\ muted' = muted \cup {t.partition}
              /\ paused' = [paused EXCEPT ![t.partition] =
                    [offset |-> t.offset, resume_at |-> now + c.retry_after]]
           \/ /\ "client-failure" \in Env
              /\ position' = position \/ (position' = sought /\ c.retry_after > 0)
              /\ UNCHANGED <<muted, paused>>
        /\ calls' = calls \ {c}
        /\ UNCHANGED <<broker, generation, present, closed, assignment_epoch, assigned,
                       attempts, acknowledged, safe_next,
                       lock, batch, dead, before, target, other>>

\* negative_acknowledge at the attempt limit: the dead-letter publish succeeds;
\* the thread keeps the lock and goes on to acknowledge the source.
DeadLetterPublish(c) ==
    LET t == c.token
        key == <<t.partition, t.offset, t.attempt>>
    IN  /\ lock = "free"
        /\ c.operation = "nack"
        /\ Known(t)
        /\ ToDeadLetter(t)
        /\ key \notin published
        /\ published' = published \cup {key}
        /\ Resolve(t)
        /\ dead' = {t}
        /\ lock' = "dead-letter"
        /\ calls' = calls \ {c}
        /\ UNCHANGED <<broker, client, state, batch, before, target,
                       now, tokens, incarnation, delivered>>

\* Mutant of DeadLetterPublishFails: the source is acknowledged all the same.
DeadLetterPublishIgnored(c) ==
    LET t == c.token
    IN  /\ lock = "free"
        /\ c.operation = "nack"
        /\ Known(t)
        /\ ToDeadLetter(t)
        /\ \/ "publish-failure" \in Env
           \/ <<t.partition, t.offset, t.attempt>> \in published
        /\ calls' = calls \ {c}
        /\ dead' = {t}
        /\ lock' = "dead-letter"
        /\ UNCHANGED <<broker, client, state, batch, before, target, other>>

\* The publish raises: the producer fails, or its idempotency cache already
\* holds the key, for an envelope that had another producedAt.
DeadLetterPublishFails(c) ==
    LET t == c.token
    IN  /\ lock = "free"
        /\ c.operation = "nack"
        /\ Known(t)
        /\ ToDeadLetter(t)
        /\ \/ "publish-failure" \in Env
           \/ <<t.partition, t.offset, t.attempt>> \in published
        /\ calls' = calls \ {c}
        /\ UNCHANGED <<broker, client, state, lock, batch, dead, before, target, other>>

\* acknowledge, called with the lock held, decodes the token once more.
DeadLetterAcknowledge(t) ==
    /\ lock = "dead-letter"
    /\ t \in dead
    /\ now < t.expires_at
    /\ Acknowledge(t)
    /\ lock' = "free"
    /\ dead' = {}
    /\ UNCHANGED <<calls, resolved>>

\* DeliveryTimeout: the publish took longer than the token had left.
DeadLetterTimeout(t) ==
    /\ lock = "dead-letter"
    /\ t \in dead
    /\ now >= t.expires_at
    /\ lock' = "free"
    /\ dead' = {}
    /\ UNCHANGED <<broker, client, state, batch, calls, before, target, other>>

-----------------------------------------------------------------------------
(* group_position, recover, close, and a crash of the process.             *)

\* _committed_positions: the low watermark stands for a missing commit.
CommittedPosition(p) == IF committed[p] = NoOffset THEN 0 ELSE committed[p]

\* Mutant of GroupPositionBegin: the target is not compared with the log.
GroupPositionAnywhere(tgt) ==
    /\ "group-position" \in Env
    /\ ~closed
    /\ lock = "free"
    /\ assignment_epoch + 2 <= MaxEpoch
    /\ present' = TRUE
    /\ lock' = "group-position"
    /\ before' = [p \in Partitions |-> CommittedPosition(p)]
    /\ target' = tgt
    /\ UNCHANGED <<broker, client, closed, assignment_epoch, assigned, inflight,
                   attempts, acknowledged, safe_next, paused,
                   batch, calls, dead, other>>

\* group_position reads the committed offsets and finds the fingerprint it was
\* given; its target lies within the log.
GroupPositionBegin(tgt) ==
    /\ "group-position" \in Env
    /\ ~closed
    /\ lock = "free"
    /\ assignment_epoch + 2 <= MaxEpoch
    /\ \A p \in Partitions : tgt[p] <= high[p]
    /\ present' = TRUE
    /\ lock' = "group-position"
    /\ before' = [p \in Partitions |-> CommittedPosition(p)]
    /\ target' = tgt
    /\ UNCHANGED <<broker, client, closed, assignment_epoch, assigned, inflight,
                   attempts, acknowledged, safe_next, paused,
                   batch, calls, dead, other>>

\* Mutant of GroupPositionCommit: the deliveries of the old position survive.
GroupPositionKeepsDeliveries ==
    /\ lock = "group-position"
    /\ CommitAccepted
    /\ committed' = target
    /\ safe_next' = target
    /\ resolved' = [p \in Partitions |-> 0 .. target[p] - 1]
    /\ lock' = "free"
    /\ UNCHANGED <<high, client, present, closed, assignment_epoch, assigned,
                   inflight, attempts, acknowledged, paused,
                   batch, calls, dead, before, target,
                   now, tokens, published, incarnation, delivered>>

\* The commit is applied.  The client's position, paused and attempts stay.
\* What lies at or above the target must be processed again.
GroupPositionCommit ==
    /\ lock = "group-position"
    /\ CommitAccepted
    /\ committed' = target
    /\ assignment_epoch' = assignment_epoch + 1
    /\ inflight' = {}
    /\ acknowledged' = NoneOf({})
    /\ safe_next' = target
    /\ resolved' = [p \in Partitions |-> 0 .. target[p] - 1]
    /\ lock' = "free"
    /\ UNCHANGED <<high, client, present, closed, assigned, attempts, paused,
                   batch, calls, dead, before, target,
                   now, tokens, published, incarnation, delivered>>

\* The commit raises, applied or not; nothing in the _GroupState changes.
GroupPositionFails ==
    /\ lock = "group-position"
    /\ \/ CommitMayFail /\ UNCHANGED <<committed, resolved>>
       \/ /\ "commit-timeout" \in Env /\ CommitAccepted
          /\ committed' = target
          /\ resolved' = [p \in Partitions |-> resolved[p] \cup 0 .. target[p] - 1]
    /\ lock' = "free"
    /\ UNCHANGED <<high, client, state, batch, calls, dead, before, target,
                   now, tokens, published, incarnation, delivered>>

\* The _GroupState and its consumer are gone: calls that still hold a reference
\* find a closed consumer.
DiscardState ==
    /\ generation' = "joining"
    /\ position' = NoneOf(0)
    /\ muted' = {}
    /\ present' = FALSE
    /\ assignment_epoch' = 0
    /\ assigned' = {}
    /\ inflight' = {}
    /\ attempts' = NoneOf([o \in Offsets |-> 0])
    /\ acknowledged' = NoneOf({})
    /\ safe_next' = NoneOf(NoOffset)
    /\ paused' = NoneOf(NoPause)
    /\ calls' = {}
    /\ UNCHANGED <<before, target>>

Recover ==
    /\ "recover" \in Env
    /\ present
    /\ lock = "free"
    /\ incarnation < MaxIncarnation
    /\ DiscardState
    /\ incarnation' = incarnation + 1
    /\ UNCHANGED <<broker, closed, lock, batch, dead,
                   now, tokens, published, delivered, resolved>>

Close ==
    /\ "close" \in Env
    /\ ~closed
    /\ lock = "free"
    /\ closed' = TRUE
    /\ DiscardState
    /\ UNCHANGED <<broker, lock, batch, dead, other>>

\* The process dies at any point and is started again.  The application may
\* hold tokens elsewhere; the producer's idempotency cache is gone.
Restart ==
    /\ "restart" \in Env
    /\ incarnation < MaxIncarnation
    /\ DiscardState
    /\ closed' = FALSE
    /\ lock' = "free"
    /\ batch' = {}
    /\ dead' = {}
    /\ published' = {}
    /\ incarnation' = incarnation + 1
    /\ UNCHANGED <<broker, now, tokens, delivered, resolved>>

-----------------------------------------------------------------------------
PollStep ==
    \/ PollBegin \/ PollScan \/ PollScanFails \/ FetchNothing \/ PollFails
    \/ PollReturn \/ Refused
    \/ \E p \in Partitions, o \in Offsets :
            Deliver(p, o) \/ HoldBack(p, o) \/ HoldBackFails(p, o) \/ Malformed(p, o)

RebalanceStep ==
    \/ Revoked
    \/ \E S \in SUBSET Partitions : Assigned(S)

CallStep ==
    \/ \E t \in tokens : CallBegin("ack", t, 0)
    \/ \E t \in tokens, retry \in RetryAfter : CallBegin("nack", t, retry)
    \/ \E c \in calls : \/ CallRejected(c) \/ AcknowledgeCall(c) \/ Redeliver(c)
                        \/ DeadLetterPublish(c) \/ DeadLetterPublishFails(c)
    \/ \E t \in dead : DeadLetterAcknowledge(t) \/ DeadLetterTimeout(t)

AdminStep ==
    \/ \E tgt \in [Partitions -> Positions] : GroupPositionBegin(tgt)
    \/ GroupPositionCommit \/ GroupPositionFails
    \/ Recover \/ Close \/ Restart

EnvironmentStep ==
    \/ Tick \/ Evict
    \/ \E p \in Partitions : Append(p)
    \/ \E p \in Partitions, n \in Positions :
            OtherMemberCommits(p, n) \/ OtherGroupPosition(p, n)

Next == PollStep \/ RebalanceStep \/ CallStep \/ AdminStep \/ EnvironmentStep

Spec == Init /\ [][Next]_vars

-----------------------------------------------------------------------------
(* Scheduling.  The application polls for ever and acknowledges what it    *)
(* gets; a poll ends, because its deadline is finite; the client joins its *)
(* group and hands out what it can fetch; a call gets the lock in the end; *)
(* time passes.                                                            *)

ApplicationAcks == \E t \in tokens : CallBegin("ack", t, 0)

CallCompletes ==
    \E c \in calls : CallRejected(c) \/ AcknowledgeCall(c) \/ Redeliver(c)

Join == \E S \in SUBSET Partitions : Assigned(S)

Fetch(p) == \E o \in Offsets : Deliver(p, o) \/ Malformed(p, o)

Fairness ==
    /\ WF_vars(Tick)
    /\ WF_vars(PollBegin \/ PollScan)
    /\ SF_vars(PollReturn)
    /\ SF_vars(Join)
    /\ SF_vars(generation = "fenced" /\ Revoked)
    /\ \A p \in Partitions : SF_vars(Fetch(p))
    /\ SF_vars(ApplicationAcks)
    /\ SF_vars(CallCompletes)

FairSpec == Spec /\ Fairness

-----------------------------------------------------------------------------
(* Properties.                                                             *)

\* Every Event of p below n has been processed.
Covered(p, n) ==
    \A o \in Offsets : o < n /\ Record[p][o] = "event" => o \in resolved[p]

\* At-least-once delivery: the group's committed offset never passes an Event
\* that no consumer has acknowledged and that is not on the dead-letter Stream.
NothingSkipped == \A p \in Partitions : Covered(p, committed[p])

\* What the _GroupState remembers concerns the partitions it owns, in the
\* current assignment, and the last delivery of each record: a rebalance or a
\* group-position change leaves nothing behind that a stale token could match.
OnlyOwnedDeliveries ==
    /\ \A i \in inflight : /\ i.partition \in assigned
                           /\ i.assignment_epoch = assignment_epoch
                           /\ i.attempt = attempts[i.partition][i.offset]
    /\ \A i, j \in inflight :
            i.partition = j.partition /\ i.offset = j.offset => i = j
    /\ \A p \in Partitions \ assigned :
            paused[p] = NoPause /\ acknowledged[p] = {} /\ p \notin muted

\* A partition paused in the client has a scheduled resumption.
PausedIsScheduled == \A p \in muted : paused[p] # NoPause

\* An Event the client has moved past is processed, waits for its
\* acknowledgement (and expires), or will be sought again.
NoneStranded ==
    \A p \in assigned : \A o \in Offsets :
        o < position[p] /\ Record[p][o] = "event" =>
            \/ o \in resolved[p]
            \/ \E i \in inflight : i.partition = p /\ i.offset = o
            \/ paused[p] # NoPause /\ paused[p].offset <= o

\* Acknowledgements and commits of other members never move the committed
\* offset back; only a group-position change may.
CommittedMonotonic ==
    [][\A p \in Partitions : committed'[p] >= committed[p] \/ lock = "group-position"]_vars

\* group_position is a compare-and-set: the committed offsets it replaces are
\* the ones whose fingerprint it has compared.
GroupPositionAtomic ==
    [][GroupPositionCommit => \A p \in Partitions : CommittedPosition(p) = before[p]]_vars

\* With all its tokens, leases, rebalances, failures and restarts the engine does
\* to the group's offset only what AtLeastOnceGroup allows.
Group == INSTANCE AtLeastOnceGroup WITH processed <- resolved

ImplementsGroup == Group!Spec

\* The committed offset passes every Event in the end.
EventuallyCommitted ==
    \A p \in Partitions, o \in Offsets :
        (o < high[p] /\ Record[p][o] = "event") ~> o < committed[p]

=============================================================================
