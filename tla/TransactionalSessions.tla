----------------------- MODULE TransactionalSessions -----------------------
(***************************************************************************)
(* KafkaAdapterRuntime and KafkaAdapterSession of runtime.py over          *)
(* KafkaTransactionBridge of transactions/__init__.py: sessions that       *)
(* consume Events and publish one output for each, inside Kafka            *)
(* transactions, while the runtime is opened, closed, rotated or crashes.  *)
(*                                                                         *)
(* A session runs in a thread of its own.  It may use a Core transaction   *)
(* (begin, execute, commit, rollback) or the operation                     *)
(* transactional-consume-publish, which owns its transaction.  A call of   *)
(* the bridge is a step, and so is the part of acknowledge under           *)
(* state.lock; between them the other sessions, the thread that rotates    *)
(* the credentials and close() run.                                        *)
(*                                                                         *)
(* An output is the offset of the Event it was computed from.  The group   *)
(* consumer is GroupConsumer with one partition and without rebalances,    *)
(* expiry and negative acknowledgement.  Generation g of the clients is    *)
(* what the g-th open() of a runtime created: the runtime's own, or a      *)
(* replacement's in rotate_credentials.                                    *)
(***************************************************************************)
EXTENDS Integers, FiniteSets, FiniteSetsExt

CONSTANTS
    Sessions,
    NoSession,         \* the lease is free, no transaction is open
    MaxOffset,         \* Events in the consumed partition
    MaxGeneration,     \* bound on the number of open() calls
    MaxMember,         \* bound on the number of _GroupState objects
    Env                \* behaviours a run admits

Offsets == 0 .. MaxOffset - 1
Positions == 0 .. MaxOffset
Generations == 1 .. MaxGeneration

Environment ==
    { "core",             \* the application uses Core transactions
      "operation",        \* ... transactional-consume-publish
      "plain-ack",        \* ... acknowledge without a transaction
      "out-of-order",     \* ... and takes its deliveries in any order
      "publish-failure",  \* a publish may raise
      "commit-failure",   \* send_offsets or commit_transaction may raise
      "commit-timeout",   \* ... after the transaction was committed
      "abort-failure",    \* abort_transaction may raise
      "rotation", "probe-failure", "close", "crash" }

ASSUME SessionAssumption ==
    /\ NoSession \notin Sessions
    /\ MaxOffset \in Nat
    /\ MaxGeneration \in Nat
    /\ MaxMember \in Nat
    /\ Env \subseteq Environment

VARIABLES
    \* Kafka: the group's committed offset and the outputs readers can see.
    committed, visible,
    \* The runtime, and the rotation in progress.
    phase,             \* "new", "open" or "closed"
    current,           \* generation of its clients, 0 when it has none
    generation,        \* generations opened so far
    rotation,
    \* Bridges, by generation, and sessions.
    bridge, session,
    \* The group consumer: the engine that holds it and its _GroupState.
    holder, member, position, inflight, acknowledged, safe_next,
    \* History: Events acknowledged without a transaction; outputs committed twice.
    plain, twice

kafka    == <<committed, visible, plain, twice>>
runtime  == <<phase, current, generation, rotation>>
consumer == <<holder, member, position, inflight, acknowledged, safe_next>>
vars     == <<kafka, runtime, bridge, session, consumer>>

Holder == Sessions \cup {NoSession}

\* lease is the session that took the lock; the code's Lock does not know it.
\* txn is the session whose transaction is open at the broker.
Bridge ==
    [producer : {"none", "ready", "fenced"}, active : BOOLEAN, lease : Holder,
     txn : Holder, outputs : SUBSET Offsets, staged : Positions, member : Nat]

\* bridge is the local variable of a call in progress; on the bridge of the
\* session's transaction.
Session ==
    [status : {"new", "open", "closed"}, transactional : BOOLEAN, active : BOOLEAN,
     pc : {"idle", "begin", "op-begin", "op-publish", "op-ack", "op-commit",
           "op-except", "recover"},
     bridge : 0 .. MaxGeneration, on : 0 .. MaxGeneration, owns : BOOLEAN,
     delivery : Positions, touched : BOOLEAN,
     deliveries : SUBSET Offsets, sent : SUBSET Offsets, failed : BOOLEAN]

TypeOK ==
    /\ committed \in Positions
    /\ visible \subseteq Offsets
    /\ phase \in {"new", "open", "closed"}
    /\ current \in 0 .. MaxGeneration
    /\ generation \in 0 .. MaxGeneration
    /\ rotation \in [step : {"none", "probing", "closing"}, client : 0 .. MaxGeneration]
    /\ bridge \in [Generations -> Bridge]
    /\ session \in [Sessions -> Session]
    /\ holder \in 0 .. MaxGeneration
    /\ member \in Nat
    /\ position \in Positions
    /\ inflight \subseteq Offsets
    /\ acknowledged \subseteq Offsets
    /\ safe_next \in Positions
    /\ plain \subseteq Offsets
    /\ twice \subseteq Offsets

NewBridge(p) ==
    [producer |-> p, active |-> FALSE, lease |-> NoSession, txn |-> NoSession,
     outputs |-> {}, staged |-> 0, member |-> 0]

NewSession ==
    [status |-> "new", transactional |-> FALSE, active |-> FALSE, pc |-> "idle",
     bridge |-> 0, on |-> 0, owns |-> FALSE, delivery |-> 0, touched |-> FALSE,
     deliveries |-> {}, sent |-> {}, failed |-> FALSE]

NoRotation == [step |-> "none", client |-> 0]

Init ==
    /\ committed = 0
    /\ visible = {}
    /\ phase = "new"
    /\ current = 0
    /\ generation = 0
    /\ rotation = NoRotation
    /\ bridge = [g \in Generations |-> NewBridge("none")]
    /\ session = [s \in Sessions |-> NewSession]
    /\ holder = 0
    /\ member = 0
    /\ position = 0
    /\ inflight = {}
    /\ acknowledged = {}
    /\ safe_next = 0
    /\ plain = {}
    /\ twice = {}

-----------------------------------------------------------------------------
(* The bridge.  Each operator is the bridge a call leaves behind.          *)

\* Mutants of Finish: the lease is not released; the staged offset becomes the
\* client library's invalid one.
FinishKeepingLease(b) == [b EXCEPT !.active = FALSE, !.staged = 0, !.member = 0]

FinishToInvalid(b) ==
    [b EXCEPT !.active = FALSE, !.staged = -1, !.member = 0, !.lease = NoSession]

\* _finish
Finish(b) ==
    [b EXCEPT !.active = FALSE, !.staged = 0, !.member = 0, !.lease = NoSession]

\* The transaction has ended at the broker.
Ended(b) == [b EXCEPT !.txn = NoSession, !.outputs = {}]

\* abort_transaction, then _finish; when it raises, the transaction stays open.
Aborts(b) ==
    {Finish(Ended(b))} \cup IF "abort-failure" \in Env THEN {Finish(b)} ELSE {}

\* abort: nothing to do on an inactive bridge.
AbortOf(b) == IF b.active THEN Aborts(b) ELSE {b}

\* init_transactions of generation g fences the producers that use the same
\* transactional.id, and the broker aborts their transactions.
Initialized(g) ==
    [h \in Generations |->
        IF h = g THEN NewBridge("ready")
        ELSE IF bridge[h].producer = "ready"
             THEN [Ended(bridge[h]) EXCEPT !.producer = "fenced"]
             ELSE bridge[h]]

\* begin_transaction raises on a fenced producer and on an open transaction.
CanBegin(b) == b.producer = "ready" /\ b.txn = NoSession

\* begin: the lease is taken, the transaction open, what was staged is cleared.
Began(b, s) ==
    [b EXCEPT !.active = TRUE, !.lease = s, !.txn = s, !.outputs = {},
              !.staged = 0, !.member = 0]

\* send_offsets_to_transaction and commit_transaction succeed at the broker: the
\* member that staged the offset still belongs to the group.
CanCommit(b) ==
    /\ b.active
    /\ b.producer = "ready"
    /\ b.txn # NoSession
    /\ b.staged > 0 => b.member = member

\* Outputs and staged offset take effect together.
Applied(b) ==
    /\ committed' = IF b.staged > 0 THEN b.staged ELSE committed
    /\ visible' = visible \cup b.outputs
    /\ twice' = twice \cup (visible \cap b.outputs)
    /\ UNCHANGED plain

CommitSucceeds(g) ==
    /\ CanCommit(bridge[g])
    /\ Applied(bridge[g])
    /\ bridge' = [bridge EXCEPT ![g] = Finish(Ended(@))]

\* commit raises: the bridge is not active; a request fails and the transaction
\* is aborted; or the answer to a commit that took place is lost.
CommitRaises(g) ==
    \/ /\ ~bridge[g].active
       /\ UNCHANGED <<kafka, bridge>>
    \/ /\ bridge[g].active
       /\ ~CanCommit(bridge[g]) \/ "commit-failure" \in Env
       /\ \E b \in Aborts(bridge[g]) : bridge' = [bridge EXCEPT ![g] = b]
       /\ UNCHANGED kafka
    \/ /\ "commit-timeout" \in Env
       /\ CanCommit(bridge[g])
       /\ Applied(bridge[g])
       /\ bridge' = [bridge EXCEPT ![g] = Finish(Ended(@))]

\* A publish with the bridge's producer; flush has delivered the output.
CanPublish(b) == b.active /\ b.producer = "ready" /\ b.txn # NoSession

-----------------------------------------------------------------------------
(* The group consumer, seen through the engine of the current generation.  *)

\* close, recover: the _GroupState is dropped and its member leaves the group.
Discard ==
    /\ holder' = 0
    /\ position' = 0
    /\ inflight' = {}
    /\ acknowledged' = {}
    /\ safe_next' = 0
    /\ UNCHANGED member

DiscardOf(g) == IF holder = g THEN Discard ELSE UNCHANGED consumer

Known(o) == holder = current /\ o \in inflight

\* safe is where the run of acknowledged offsets from safe_next ends.
SafeRun(o, safe) ==
    /\ safe_next <= safe
    /\ \A x \in safe_next .. safe - 1 : x \in acknowledged \cup {o}
    /\ safe \notin acknowledged \cup {o}

TakeRun(o, safe) ==
    acknowledged' = (acknowledged \cup {o}) \ (safe_next .. safe - 1)

\* stage_offset
Stage(g, safe) ==
    bridge' = [bridge EXCEPT ![g].staged = Max({@, safe}), ![g].member = member]

\* acknowledge with the bridge of generation g: the offset is staged, and
\* safe_next moves at once.
Acknowledge(g, o) ==
    /\ Known(o)
    /\ \E safe \in Positions :
        /\ SafeRun(o, safe)
        /\ TakeRun(o, safe)
        /\ safe_next' = safe
        /\ IF safe > safe_next THEN bridge[g].active /\ Stage(g, safe)
           ELSE UNCHANGED bridge
    /\ inflight' = inflight \ {o}
    /\ UNCHANGED <<holder, member, position>>

\* acknowledge raises: the delivery is unknown, or the bridge is not active, after
\* the run was removed.
AcknowledgeRaises(g, o) ==
    \/ ~Known(o) /\ UNCHANGED consumer
    \/ /\ Known(o)
       /\ ~bridge[g].active
       /\ \E safe \in Positions :
            safe > safe_next /\ SafeRun(o, safe) /\ TakeRun(o, safe)
       /\ UNCHANGED <<holder, member, position, inflight, safe_next>>

-----------------------------------------------------------------------------
(* The runtime.                                                            *)

\* open.  An open that fails closes what it created and leaves the runtime new.
Open ==
    /\ phase = "new"
    /\ generation < MaxGeneration
    /\ phase' = "open"
    /\ generation' = generation + 1
    /\ current' = generation + 1
    /\ bridge' = Initialized(generation + 1)
    /\ UNCHANGED <<kafka, rotation, session, consumer>>

\* close: consumer, then bridge, then producer.
Close ==
    /\ "close" \in Env
    /\ phase = "open"
    /\ phase' = "closed"
    /\ current' = 0
    /\ DiscardOf(current)
    /\ \E b \in AbortOf(bridge[current]) : bridge' = [bridge EXCEPT ![current] = b]
    /\ UNCHANGED <<kafka, generation, rotation, session>>

\* rotate_credentials: replacement.open() has succeeded.
RotateOpen ==
    /\ "rotation" \in Env
    /\ phase = "open"
    /\ rotation.step = "none"
    /\ generation < MaxGeneration
    /\ generation' = generation + 1
    /\ bridge' = Initialized(generation + 1)
    /\ rotation' = [step |-> "probing", client |-> generation + 1]
    /\ UNCHANGED <<kafka, phase, current, session, consumer>>

\* replacement.probe() raises and the replacement is closed; or this runtime was
\* closed in the meantime, and the replacement is left open.
RotateFails ==
    /\ rotation.step = "probing"
    /\ "probe-failure" \in Env \/ phase # "open"
    /\ rotation' = NoRotation
    /\ UNCHANGED <<kafka, phase, current, generation, bridge, session, consumer>>

RotateSwap ==
    /\ rotation.step = "probing"
    /\ phase = "open"
    /\ current' = rotation.client
    /\ rotation' = [step |-> "closing", client |-> current]
    /\ UNCHANGED <<kafka, phase, generation, bridge, session, consumer>>

\* The old consumer, bridge and producer are closed, outside the lock.
RotateClose ==
    /\ rotation.step = "closing"
    /\ DiscardOf(rotation.client)
    /\ \E b \in AbortOf(bridge[rotation.client]) :
            bridge' = [bridge EXCEPT ![rotation.client] = b]
    /\ rotation' = NoRotation
    /\ UNCHANGED <<kafka, phase, current, generation, session>>

\* The process dies; a transaction it left open never commits.
Crash ==
    /\ "crash" \in Env
    /\ phase' = "new"
    /\ current' = 0
    /\ rotation' = NoRotation
    /\ bridge' = [g \in Generations |-> NewBridge("none")]
    /\ session' = [s \in Sessions |-> NewSession]
    /\ Discard
    /\ UNCHANGED <<kafka, generation>>

-----------------------------------------------------------------------------
(* Sessions.                                                               *)

\* _ensure_open
MayCall(s) == session[s].status = "open" /\ phase = "open" /\ session[s].pc = "idle"

\* execute: a transactional session must have begun.
MayExecute(s) == MayCall(s) /\ (session[s].transactional => session[s].active)

\* The application processes its deliveries one after the other.
Takes(s, o) ==
    /\ o \in session[s].deliveries
    /\ "out-of-order" \in Env \/ o = Min(session[s].deliveries)

OpenSession(s, t) ==
    /\ phase = "open"
    /\ session[s].status = "new"
    /\ t => "core" \in Env
    /\ session' = [session EXCEPT ![s].status = "open", ![s].transactional = t]
    /\ UNCHANGED <<kafka, runtime, bridge, consumer>>

\* close; a session with an active transaction calls rollback first.
CloseSession(s) ==
    /\ "close" \in Env
    /\ session[s].status = "open"
    /\ session[s].pc = "idle"
    /\ ~session[s].active
    /\ session' = [session EXCEPT ![s].status = "closed"]
    /\ UNCHANGED <<kafka, runtime, bridge, consumer>>

\* begin: the bridge is looked up, its lease is waited for.
BeginCall(s) ==
    /\ MayCall(s)
    /\ session[s].transactional
    /\ ~session[s].active
    /\ session' = [session EXCEPT ![s].pc = "begin", ![s].bridge = current]
    /\ UNCHANGED <<kafka, runtime, bridge, consumer>>

\* Bridge.begin has the lease, and begin_transaction succeeds.
LeaseAcquired(s) ==
    LET g == session[s].bridge
    IN  /\ session[s].pc \in {"begin", "op-begin"}
        /\ bridge[g].lease = NoSession
        /\ CanBegin(bridge[g])
        /\ bridge' = [bridge EXCEPT ![g] = Began(@, s)]
        /\ session' = IF session[s].pc = "begin"
                      THEN [session EXCEPT ![s].pc = "idle", ![s].active = TRUE,
                                           ![s].on = g, ![s].sent = {},
                                           ![s].failed = FALSE]
                      ELSE [session EXCEPT ![s].pc = "op-publish", ![s].on = g,
                                           ![s].touched = TRUE]
        /\ UNCHANGED <<kafka, runtime, consumer>>

\* The lease times out, or begin_transaction raises and the lease is released.
BeginRaises(s) ==
    LET b == bridge[session[s].bridge]
    IN  /\ session[s].pc \in {"begin", "op-begin"}
        /\ b.lease # NoSession \/ ~CanBegin(b)
        /\ session' = [session EXCEPT ![s].pc = "idle", ![s].owns = FALSE]
        /\ UNCHANGED <<kafka, runtime, bridge, consumer>>

\* poll: one Event.  The first poll of an engine creates the _GroupState and joins
\* the group, as soon as the member of the old engine has left it.
Poll(s) ==
    /\ MayExecute(s)
    /\ holder \in {0, current}
    /\ holder = 0 => member < MaxMember
    /\ LET first == IF holder = 0 THEN committed ELSE position
       IN  /\ first < MaxOffset
           /\ position' = first + 1
           /\ inflight' = inflight \cup {first}
           /\ session' = [session EXCEPT ![s].deliveries = @ \cup {first}]
    /\ holder' = current
    /\ member' = IF holder = 0 THEN member + 1 ELSE member
    /\ safe_next' = IF holder = 0 THEN committed ELSE safe_next
    /\ UNCHANGED <<kafka, runtime, bridge, acknowledged>>

\* acknowledge outside a transaction: the commit is made at once.
PlainAcknowledge(s, o) ==
    /\ "plain-ack" \in Env
    /\ MayExecute(s)
    /\ ~session[s].transactional
    /\ Takes(s, o)
    /\ session' = [session EXCEPT ![s].deliveries = @ \ {o}]
    /\ \/ /\ Known(o)
          /\ \E safe \in Positions :
                /\ SafeRun(o, safe)
                /\ TakeRun(o, safe)
                /\ safe_next' = safe
                /\ committed' = IF safe > safe_next THEN safe ELSE committed
          /\ inflight' = inflight \ {o}
          /\ plain' = plain \cup {o}
          /\ UNCHANGED <<visible, twice, holder, member, position>>
       \/ ~Known(o) /\ UNCHANGED <<kafka, consumer>>
    /\ UNCHANGED <<runtime, bridge>>

\* publish in a Core transaction, with the producer of the current bridge.
CorePublish(s, o) ==
    /\ MayExecute(s)
    /\ session[s].active
    /\ Takes(s, o)
    /\ o \notin session[s].sent
    /\ CanPublish(bridge[current])
    /\ bridge' = [bridge EXCEPT ![current].outputs = @ \cup {o}]
    /\ session' = [session EXCEPT ![s].sent = @ \cup {o}]
    /\ UNCHANGED <<kafka, runtime, consumer>>

\* acknowledge in a Core transaction, after the output was published.
CoreAcknowledge(s, o) ==
    /\ MayExecute(s)
    /\ session[s].active
    /\ Takes(s, o)
    /\ o \in session[s].sent
    /\ \/ /\ Acknowledge(current, o)
          /\ session' = [session EXCEPT ![s].touched = TRUE, ![s].deliveries = @ \ {o}]
       \/ /\ AcknowledgeRaises(current, o)
          /\ session' = [session EXCEPT ![s].touched = TRUE, ![s].deliveries = @ \ {o},
                                        ![s].failed = TRUE]
          /\ UNCHANGED bridge
    /\ UNCHANGED <<kafka, runtime>>

\* commit.  The application commits when it has acknowledged what it published
\* and no call of the transaction has raised; it rolls back otherwise.
CoreCommit(s) ==
    /\ MayCall(s)
    /\ session[s].active
    /\ ~session[s].failed
    /\ session[s].sent \cap session[s].deliveries = {}
    /\ \/ /\ CommitSucceeds(current)
          /\ session' = [session EXCEPT ![s].active = FALSE, ![s].touched = FALSE]
       \/ /\ CommitRaises(current)
          /\ session' = [session EXCEPT ![s].active = FALSE, ![s].pc = "recover"]
    /\ UNCHANGED <<runtime, consumer>>

CoreRollback(s) ==
    /\ MayCall(s)
    /\ session[s].active
    /\ \E b \in AbortOf(bridge[current]) : bridge' = [bridge EXCEPT ![current] = b]
    /\ session' = [session EXCEPT ![s].active = FALSE, ![s].pc = "recover"]
    /\ UNCHANGED <<kafka, runtime, consumer>>

\* Mutant of Recover: the group keeps its state.
RecoverNothing(s) ==
    /\ session[s].pc = "recover"
    /\ session' = [session EXCEPT ![s].pc = "idle", ![s].touched = FALSE]
    /\ UNCHANGED <<kafka, runtime, bridge, consumer>>

\* _recover_touched_groups, in the engine the runtime has now.
Recover(s) ==
    /\ session[s].pc = "recover"
    /\ session' = [session EXCEPT ![s].pc = "idle", ![s].touched = FALSE]
    /\ IF session[s].touched /\ current # 0 THEN DiscardOf(current)
       ELSE UNCHANGED consumer
    /\ UNCHANGED <<kafka, runtime, bridge>>

\* transactional-consume-publish: inside the session's transaction, or its own.
OperationCall(s, o) ==
    /\ "operation" \in Env
    /\ MayExecute(s)
    /\ Takes(s, o)
    /\ session' = [session EXCEPT
            ![s].deliveries = @ \ {o}, ![s].delivery = o, ![s].bridge = current,
            ![s].owns = ~session[s].active,
            ![s].touched = session[s].touched \/ session[s].active,
            ![s].pc = IF session[s].active THEN "op-publish" ELSE "op-begin"]
    /\ UNCHANGED <<kafka, runtime, bridge, consumer>>

OperationPublish(s) ==
    LET g == session[s].bridge
    IN  /\ session[s].pc = "op-publish"
        /\ \/ /\ CanPublish(bridge[g])
              /\ bridge' = [bridge EXCEPT ![g].outputs = @ \cup {session[s].delivery}]
              /\ session' = [session EXCEPT ![s].pc = "op-ack"]
           \/ /\ ~CanPublish(bridge[g]) \/ "publish-failure" \in Env
              /\ session' = [session EXCEPT ![s].pc = "op-except"]
              /\ UNCHANGED bridge
        /\ UNCHANGED <<kafka, runtime, consumer>>

OperationAcknowledge(s) ==
    LET g == session[s].bridge
        o == session[s].delivery
    IN  /\ session[s].pc = "op-ack"
        /\ \/ /\ Acknowledge(g, o)
              /\ session' = [session EXCEPT
                    ![s].pc = IF session[s].owns THEN "op-commit" ELSE "idle"]
           \/ /\ AcknowledgeRaises(g, o)
              /\ session' = [session EXCEPT ![s].pc = "op-except"]
              /\ UNCHANGED bridge
        /\ UNCHANGED <<kafka, runtime>>

OperationCommit(s) ==
    LET g == session[s].bridge
    IN  /\ session[s].pc = "op-commit"
        /\ \/ /\ CommitSucceeds(g)
              /\ session' = [session EXCEPT ![s].pc = "idle", ![s].owns = FALSE,
                                            ![s].touched = FALSE]
           \/ /\ CommitRaises(g)
              /\ session' = [session EXCEPT ![s].pc = "op-except"]
        /\ UNCHANGED <<runtime, consumer>>

\* The except clause: a bridge that is active is aborted, and the touched groups
\* are recovered, unless the abort raises.
OperationExcept(s) ==
    LET g == session[s].bridge
        aborts == session[s].owns /\ bridge[g].active
        left(pc) == session' = [session EXCEPT ![s].owns = FALSE, ![s].failed = TRUE,
                                               ![s].pc = pc]
    IN  /\ session[s].pc = "op-except"
        /\ \/ /\ ~aborts
              /\ left("recover")
              /\ UNCHANGED bridge
           \/ /\ aborts
              /\ bridge[g].producer = "ready"
              /\ bridge' = [bridge EXCEPT ![g] = Finish(Ended(@))]
              /\ left("recover")
           \/ /\ aborts
              /\ bridge[g].producer = "fenced" \/ "abort-failure" \in Env
              /\ bridge' = [bridge EXCEPT ![g] = Finish(@)]
              /\ left("idle")
        /\ UNCHANGED <<kafka, runtime, consumer>>

-----------------------------------------------------------------------------
RuntimeStep ==
    \/ Open \/ Close \/ Crash
    \/ RotateOpen \/ RotateFails \/ RotateSwap \/ RotateClose

SessionStep(s) ==
    \/ \E t \in BOOLEAN : OpenSession(s, t)
    \/ CloseSession(s)
    \/ BeginCall(s) \/ LeaseAcquired(s) \/ BeginRaises(s)
    \/ Poll(s)
    \/ \E o \in Offsets : PlainAcknowledge(s, o) \/ OperationCall(s, o)
    \/ \E o \in Offsets : CorePublish(s, o) \/ CoreAcknowledge(s, o)
    \/ CoreCommit(s) \/ CoreRollback(s) \/ Recover(s)
    \/ OperationPublish(s) \/ OperationAcknowledge(s) \/ OperationCommit(s)
    \/ OperationExcept(s)

Next == RuntimeStep \/ \E s \in Sessions : SessionStep(s)

Spec == Init /\ [][Next]_vars

-----------------------------------------------------------------------------
(* Properties.                                                             *)

\* Consuming an Event and publishing its output happen together, once: an output
\* is visible exactly when the group's committed offset has passed its Event.
ExactlyOnce ==
    /\ \A o \in Offsets : o < committed <=> o \in visible
    /\ twice = {}

\* The committed offset passes an Event only when its output is visible or the
\* application has acknowledged it without a transaction.
NothingLost == \A o \in Offsets : o < committed => o \in visible \cup plain

\* A session is inside a transaction it has begun.
InTransaction(s) ==
    \/ session[s].active
    \/ session[s].owns /\ session[s].pc \in {"op-publish", "op-ack", "op-commit"}

\* Use of the transactional producer is serialized: a session in a transaction
\* has the lease and the open transaction of its bridge, so what it publishes,
\* stages, commits or aborts is its own; and no lease outlives its session's
\* transaction.
Serialized ==
    /\ \A s \in Sessions : InTransaction(s) =>
            /\ bridge[session[s].on].active
            /\ bridge[session[s].on].lease = s
            /\ bridge[session[s].on].txn = s
    /\ \A g \in Generations : bridge[g].lease # NoSession =>
            \E s \in Sessions : /\ bridge[g].lease = s
                                /\ session[s].on = g
                                /\ InTransaction(s) \/ session[s].pc = "op-except"
=============================================================================
