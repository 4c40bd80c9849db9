-------------------- MODULE TransactionalSessionsProofs --------------------
(***************************************************************************)
(* Proofs about TransactionalSessions, for every log and every value of    *)
(* the bounds.                                                             *)
(***************************************************************************)
EXTENDS TransactionalSessions, WellFoundedInduction, TLAPS

USE DEF vars, kafka, runtime, consumer

-----------------------------------------------------------------------------
(* Why Serialized holds for Core transactions, without rotation and close: *)
(* a session's transaction stays on the bridge the runtime has, and there  *)
(* is no transaction without a lease.                                      *)

OnlyCore ==
    /\ rotation.step = "none"
    /\ \A s \in Sessions :
        /\ session[s].pc \in {"idle", "begin", "recover"}
        /\ session[s].pc = "begin" => session[s].bridge = current /\ ~session[s].active
        /\ ~session[s].owns

LeasesHeld ==
    /\ \A g \in Generations :
        bridge[g].lease # NoSession =>
            \E s \in Sessions : session[s].active /\ session[s].on = g /\ bridge[g].lease = s
    /\ \A s \in Sessions : session[s].active =>
        /\ current # 0
        /\ session[s].on = current
        /\ bridge[current].active
        /\ bridge[current].lease = s
        /\ bridge[current].txn = s

SerializedInv == OnlyCore /\ LeasesHeld

-----------------------------------------------------------------------------
(* Why ExactlyOnce holds: an invariant, for an application with one        *)
(* session that takes its deliveries in order.                             *)

Calling == {"begin", "op-begin", "op-publish", "op-ack", "op-commit", "op-except"}

\* Generations only grow, and the one being replaced, replacing or called is none
\* that a later open() made; an operation in progress has taken an Event.
RuntimeShape ==
    /\ (phase = "open") = (current # 0)
    /\ current <= generation
    /\ holder <= generation
    /\ rotation.step # "none" =>
        /\ phase # "new"
        /\ rotation.client # 0 /\ rotation.client <= generation
        /\ rotation.client # current
    /\ rotation.step = "probing" => rotation.client = generation /\ rotation.client # holder
    /\ \A s \in Sessions :
        /\ phase = "new" => session[s] = NewSession
        /\ session[s].on <= generation
        /\ session[s].pc \in Calling =>
            /\ session[s].bridge # 0 /\ session[s].bridge <= generation
            /\ rotation.step = "probing" => session[s].bridge # rotation.client
        /\ session[s].pc \in Calling \ {"begin"} => session[s].delivery \in Offsets

\* Which calls session s can be in.
SessionShape(s) ==
    LET x == session[s]
        executing == {"op-publish", "op-ack", "op-commit", "op-except"}
    IN  /\ x.owns => x.pc \in executing \cup {"op-begin"} /\ ~x.active
        /\ x.pc \in {"op-begin", "op-commit"} => x.owns
        /\ x.pc \in {"begin", "op-begin", "op-commit"} => ~x.active
        /\ x.pc \in {"op-publish", "op-ack"} => x.owns \/ x.active
        /\ x.pc \in executing => x.touched /\ (x.owns => x.on = x.bridge)
        /\ x.pc = "recover" /\ x.active => x.failed

\* A producer that can still commit has an open transaction.
Live(g) == bridge[g].active /\ bridge[g].producer = "ready"

\* One producer is not fenced; a transaction that can commit is the session's, on the
\* bridge the runtime has, and is the one a call in progress uses.
BridgeShape(s) ==
    /\ \A g \in Generations :
        /\ bridge[g].producer = "ready" => g = generation
        /\ bridge[g].active <=> bridge[g].lease # NoSession
        /\ Live(g) =>
            /\ bridge[g].txn # NoSession
            /\ phase = "open" => g = current
            /\ session[s].on = g
            /\ session[s].active \/ (session[s].owns /\ session[s].pc # "op-begin")
            /\ session[s].pc \in Calling => session[s].bridge = g
    /\ session[s].pc \in Calling /\ phase = "open" =>
        /\ bridge[session[s].bridge].producer = "ready" => session[s].bridge = current
        /\ session[s].bridge # current => holder # current

\* A call of the Core transaction has raised: the session will roll it back.
Failed(s) == session[s].active /\ session[s].failed

\* Session s has a transaction that can commit and will not be rolled back.
Committable(s) ==
    /\ session[s].on # 0
    /\ Live(session[s].on)
    /\ ~Failed(s)
    /\ session[s].pc # "op-except"

\* The position that transaction will commit.
Staged(s) ==
    IF bridge[session[s].on].staged > 0 THEN bridge[session[s].on].staged ELSE committed

\* The delivery transactional-consume-publish has taken.
Taken(s) ==
    IF session[s].pc \in {"op-begin", "op-publish", "op-ack"} THEN {session[s].delivery}
    ELSE {}

\* Outputs published and not yet acknowledged.
Unsettled(s) ==
    {o \in Offsets :
        \/ /\ session[s].active
           /\ o \in session[s].sent
           /\ o \in session[s].deliveries \/ (session[s].pc = "op-publish" /\ o \in Taken(s))
        \/ session[s].pc = "op-ack" /\ o \in Taken(s)}

\* A transaction that will be committed holds the outputs of the Events between the
\* committed offset and the one it has staged, and those not yet acknowledged.
TransactionShape(s) ==
    Committable(s) =>
        /\ committed <= Staged(s)
        /\ bridge[session[s].on].outputs = (committed .. Staged(s) - 1) \cup Unsettled(s)
        /\ session[s].active => session[s].sent \subseteq bridge[session[s].on].outputs
        /\ bridge[session[s].on].staged > 0 =>
                holder = session[s].on /\ session[s].touched
        /\ \A o \in session[s].deliveries : Staged(s) <= o

\* The group consumer will be discarded before the session commits again.
Suspended(s) ==
    /\ session[s].touched
    /\ (session[s].pc \in {"recover", "op-except"} \/ Failed(s))

\* A transaction can be begun on the runtime's bridge, or is open.
Usable ==
    /\ bridge[current].producer = "ready"
    /\ bridge[current].active \/ bridge[current].txn = NoSession

\* Where the consumer's safe offset is to be.
Expected(s) == IF bridge[current].active /\ ~Failed(s) THEN Staged(s) ELSE committed

\* The consumer has exactly the Events from there to its position in flight, and the
\* session has a delivery of each.
ConsumerShape(s) ==
    /\ holder = 0 => inflight = {} /\ acknowledged = {}
    /\ phase = "open" /\ holder = current =>
        /\ committed <= position
        /\ Usable /\ ~Suspended(s) =>
            /\ acknowledged = {}
            /\ safe_next = Expected(s)
            /\ safe_next <= position
            /\ inflight = safe_next .. position - 1
            /\ inflight \subseteq session[s].deliveries \cup Taken(s)

\* Deliveries are of uncommitted Events, and taken in order.
DeliveryShape(s) ==
    /\ \A o \in session[s].deliveries \cup Taken(s) : committed <= o
    /\ \A d \in Taken(s) : \A o \in session[s].deliveries : d < o

ExactlyOnceInv ==
    /\ \A s \in Sessions :
        /\ SessionShape(s)
        /\ BridgeShape(s)
        /\ TransactionShape(s)
        /\ ConsumerShape(s)
        /\ DeliveryShape(s)
    /\ ExactlyOnce

\* Offsets, positions and generations are natural numbers.
LEMMA NumberFacts ==
    /\ Offsets \subseteq Positions /\ Positions \subseteq Nat
    /\ 0 \in Positions
    /\ \A o \in Offsets : o + 1 \in Positions
    /\ \A n \in Positions : n < MaxOffset => n \in Offsets /\ n + 1 \in Positions
    /\ MaxGeneration \in Nat
    /\ Generations \subseteq 0 .. MaxGeneration
    /\ \A g \in 0 .. MaxGeneration : g \in Nat /\ (g # 0 => g \in Generations)
  BY SessionAssumption DEF Offsets, Positions, Generations

\* What a call of the bridge leaves behind is a bridge.
LEMMA BridgeTypes ==
    ASSUME NEW b \in Bridge
    PROVE  /\ Finish(b) \in Bridge /\ Ended(b) \in Bridge
           /\ Finish(Ended(b)) \in Bridge
           /\ Aborts(b) \subseteq Bridge /\ AbortOf(b) \subseteq Bridge
           /\ \A s \in Sessions : Began(b, s) \in Bridge
           /\ [Ended(b) EXCEPT !.producer = "fenced"] \in Bridge
           /\ \A o \in Offsets : [b EXCEPT !.outputs = @ \cup {o}] \in Bridge
           /\ \A n \in Positions, m \in Nat :
                [b EXCEPT !.staged = n, !.member = m] \in Bridge
<1>1. NoSession \in Holder /\ Sessions \subseteq Holder /\ 0 \in Positions
  BY NumberFacts DEF Holder
<1>2. \A c \in Bridge : Finish(c) \in Bridge /\ Ended(c) \in Bridge
  BY <1>1 DEF Bridge, Finish, Ended
<1>3. Finish(b) \in Bridge /\ Ended(b) \in Bridge /\ Finish(Ended(b)) \in Bridge
  BY <1>2
<1>4. Aborts(b) \subseteq Bridge /\ AbortOf(b) \subseteq Bridge
  BY <1>3 DEF Aborts, AbortOf
<1>5. \A s \in Sessions : Began(b, s) \in Bridge
  BY <1>1 DEF Bridge, Began
<1>6. [Ended(b) EXCEPT !.producer = "fenced"] \in Bridge
  BY <1>1 DEF Bridge, Ended
<1>7. \A o \in Offsets : [b EXCEPT !.outputs = @ \cup {o}] \in Bridge
  BY DEF Bridge
<1>8. \A n \in Positions, m \in Nat :
          [b EXCEPT !.staged = n, !.member = m] \in Bridge
  BY DEF Bridge
<1> QED
  BY <1>3, <1>4, <1>5, <1>6, <1>7, <1>8

\* A new bridge and a new session are a bridge and a session.
LEMMA NewTypes ==
    /\ NewBridge("none") \in Bridge /\ NewBridge("ready") \in Bridge
    /\ NewSession \in Session
  BY NumberFacts DEF NewBridge, Bridge, NewSession, Session, Holder

\* The greater of two numbers.
LEMMA MaxFacts ==
    ASSUME NEW a \in Int, NEW b \in Int
    PROVE  Max({a, b}) = IF a <= b THEN b ELSE a
<1>1. CASE a <= b
  <2>1. \A y \in {a, b} : b >= y
    BY <1>1
  <2>2. \A x \in {a, b} : (\A y \in {a, b} : x >= y) => x = b
    BY <1>1
  <2> QED
    BY <1>1, <2>1, <2>2 DEF Max
<1>2. CASE ~(a <= b)
  <2>1. \A y \in {a, b} : a >= y
    BY <1>2
  <2>2. \A x \in {a, b} : (\A y \in {a, b} : x >= y) => x = a
    BY <1>2
  <2> QED
    BY <1>2, <2>1, <2>2 DEF Max
<1> QED
  BY <1>1, <1>2

-----------------------------------------------------------------------------
(* Types, and the runtime's part of the invariant, for any set of sessions. *)

TypeInv == TypeOK /\ RuntimeShape

\* The initial state is well typed.
LEMMA InitType == Init => TypeInv
<1> SUFFICES ASSUME Init PROVE TypeInv
  OBVIOUS
<1>1. TypeOK
  <2>1. bridge \in [Generations -> Bridge] /\ session \in [Sessions -> Session]
    BY NewTypes DEF Init
  <2>2. rotation \in [step : {"none", "probing", "closing"}, client : 0 .. MaxGeneration]
    BY NumberFacts DEF Init, NoRotation
  <2> QED
    BY <2>1, <2>2, NumberFacts DEF Init, TypeOK
<1>2. RuntimeShape
  BY DEF Init, RuntimeShape, NoRotation, NewSession, Calling
<1> QED
  BY <1>1, <1>2 DEF TypeInv

\* Opening a generation leaves bridges behind.
LEMMA InitializedType ==
    ASSUME TypeOK, NEW g \in Generations
    PROVE  Initialized(g) \in [Generations -> Bridge]
<1>1. \A h \in Generations : bridge[h] \in Bridge
  BY DEF TypeOK
<1>2. \A h \in Generations : [Ended(bridge[h]) EXCEPT !.producer = "fenced"] \in Bridge
  BY <1>1, BridgeTypes
<1> QED
  BY <1>1, <1>2, NewTypes DEF Initialized

\* So does a rollback, a close or a failed commit.
LEMMA AbortType ==
    ASSUME TypeOK, NEW g \in Generations, NEW b \in AbortOf(bridge[g]) \cup Aborts(bridge[g]),
           bridge' = [bridge EXCEPT ![g] = b]
    PROVE  bridge' \in [Generations -> Bridge]
<1>1. bridge \in [Generations -> Bridge] /\ bridge[g] \in Bridge
  BY DEF TypeOK
<1>2. b \in Bridge
  BY <1>1, BridgeTypes
<1> QED
  BY <1>1, <1>2

\* A commit, whatever it answers, leaves Kafka and the bridges well typed.
LEMMA CommitType ==
    ASSUME TypeOK, NEW g \in Generations, CommitSucceeds(g) \/ CommitRaises(g)
    PROVE  /\ committed' \in Positions
           /\ visible' \subseteq Offsets /\ twice' \subseteq Offsets
           /\ plain' \subseteq Offsets
           /\ bridge' \in [Generations -> Bridge]
<1>1. bridge \in [Generations -> Bridge] /\ bridge[g] \in Bridge
  BY DEF TypeOK
<1>2. bridge[g].staged \in Positions /\ bridge[g].outputs \subseteq Offsets
  BY <1>1 DEF Bridge
<1>3. ASSUME Applied(bridge[g]), bridge' = [bridge EXCEPT ![g] = Finish(Ended(@))]
      PROVE  /\ committed' \in Positions
             /\ visible' \subseteq Offsets /\ twice' \subseteq Offsets
             /\ plain' \subseteq Offsets
             /\ bridge' \in [Generations -> Bridge]
  <2>1. committed' \in Positions
    BY <1>2, <1>3 DEF Applied, TypeOK
  <2>2. visible' \subseteq Offsets /\ twice' \subseteq Offsets /\ plain' \subseteq Offsets
    BY <1>2, <1>3 DEF Applied, TypeOK
  <2>3. Finish(Ended(bridge[g])) \in Bridge
    BY <1>1, BridgeTypes
  <2> QED
    BY <1>1, <1>3, <2>1, <2>2, <2>3
<1>4. CASE UNCHANGED <<kafka, bridge>>
  BY <1>4 DEF TypeOK
<1>5. ASSUME NEW b \in Aborts(bridge[g]), bridge' = [bridge EXCEPT ![g] = b],
             UNCHANGED kafka
      PROVE  /\ committed' \in Positions
             /\ visible' \subseteq Offsets /\ twice' \subseteq Offsets
             /\ plain' \subseteq Offsets
             /\ bridge' \in [Generations -> Bridge]
  BY <1>5, AbortType DEF TypeOK
<1> QED
  BY <1>3, <1>4, <1>5 DEF CommitSucceeds, CommitRaises

\* Acknowledging leaves the consumer and the bridges well typed.
LEMMA AcknowledgeType ==
    ASSUME TypeOK, NEW g \in Generations, NEW o \in Offsets,
           Acknowledge(g, o) \/ (AcknowledgeRaises(g, o) /\ UNCHANGED bridge)
    PROVE  /\ holder' \in 0 .. MaxGeneration /\ member' \in Nat
           /\ position' \in Positions /\ inflight' \subseteq Offsets
           /\ acknowledged' \subseteq Offsets /\ safe_next' \in Positions
           /\ bridge' \in [Generations -> Bridge]
           /\ UNCHANGED holder
<1>1. CASE Acknowledge(g, o)
  <2>1. PICK safe \in Positions :
            /\ TakeRun(o, safe)
            /\ safe_next' = safe
            /\ IF safe > safe_next THEN bridge[g].active /\ Stage(g, safe)
               ELSE UNCHANGED bridge
    BY <1>1 DEF Acknowledge
  <2>2. bridge[g] \in Bridge /\ bridge[g].staged \in Positions /\ member \in Nat
    BY DEF TypeOK, Bridge
  <2>3. Max({bridge[g].staged, safe}) \in Positions
    BY <2>2, MaxFacts, NumberFacts
  <2>4. CASE Stage(g, safe)
    <3>1. bridge' = [bridge EXCEPT ![g] =
                [bridge[g] EXCEPT !.staged = Max({bridge[g].staged, safe}),
                                  !.member = member]]
      BY <2>4, Zenon DEF Stage, TypeOK
    <3>2. [bridge[g] EXCEPT !.staged = Max({bridge[g].staged, safe}),
                            !.member = member] \in Bridge
      BY <2>2, <2>3, BridgeTypes
    <3> QED
      BY <1>1, <2>1, <3>1, <3>2 DEF Acknowledge, TypeOK, TakeRun
  <2>5. CASE UNCHANGED bridge
    BY <1>1, <2>1, <2>5 DEF Acknowledge, TypeOK, TakeRun
  <2> QED
    BY <2>1, <2>4, <2>5
<1>2. CASE AcknowledgeRaises(g, o) /\ UNCHANGED bridge
  BY <1>2 DEF AcknowledgeRaises, TakeRun, TypeOK
<1> QED
  BY <1>1, <1>2

\* A consumer that is discarded, or not, stays well typed.
LEMMA DiscardType ==
    ASSUME TypeOK, NEW g, DiscardOf(g) \/ Discard
    PROVE  /\ holder' \in 0 .. MaxGeneration /\ member' \in Nat
           /\ position' \in Positions /\ inflight' \subseteq Offsets
           /\ acknowledged' \subseteq Offsets /\ safe_next' \in Positions
           /\ holder' \in {0, holder}
<1>1. 0 \in 0 .. MaxGeneration /\ 0 \in Positions
  BY NumberFacts
<1>2. CASE Discard
  BY <1>1, <1>2 DEF TypeOK, Discard
<1>3. CASE UNCHANGED consumer
  BY <1>3 DEF TypeOK
<1> QED
  BY <1>2, <1>3 DEF DiscardOf

\* The steps of the runtime preserve the types.
LEMMA RuntimeType == TypeInv /\ RuntimeStep => TypeInv'
<1> SUFFICES ASSUME TypeInv, RuntimeStep PROVE TypeInv'
  OBVIOUS
<1>0. TypeOK /\ RuntimeShape
  BY DEF TypeInv
<1>1. /\ current \in 0 .. MaxGeneration /\ generation \in 0 .. MaxGeneration
      /\ generation \in Nat /\ holder \in Nat /\ current \in Nat
      /\ rotation.client \in 0 .. MaxGeneration /\ rotation.client \in Nat
      /\ rotation \in [step : {"none", "probing", "closing"}, client : 0 .. MaxGeneration]
      /\ \A s \in Sessions : /\ session[s] \in Session
                             /\ session[s].on \in Nat /\ session[s].bridge \in Nat
  BY <1>0, NumberFacts DEF TypeOK, Session
<1>2. generation < MaxGeneration =>
          /\ generation + 1 \in Generations
          /\ generation + 1 \in 0 .. MaxGeneration
  BY <1>1, NumberFacts DEF Generations
<1>3. phase = "open" => current \in Generations
  BY <1>0, <1>1, NumberFacts DEF RuntimeShape
<1>4. rotation.step # "none" => rotation.client \in Generations
  BY <1>0, <1>1, NumberFacts DEF RuntimeShape
<1>5. CASE Open
  <2>1. TypeOK'
    BY <1>0, <1>2, <1>5, InitializedType DEF TypeOK, Open
  <2>2. RuntimeShape'
    BY <1>0, <1>1, <1>5 DEF RuntimeShape, Open, NewSession, Calling
  <2> QED
    BY <2>1, <2>2 DEF TypeInv
<1>6. CASE Close
  <2>1. PICK b \in AbortOf(bridge[current]) : bridge' = [bridge EXCEPT ![current] = b]
    BY <1>6 DEF Close
  <2>2. bridge' \in [Generations -> Bridge]
    BY <1>0, <1>3, <1>6, <2>1, AbortType DEF Close
  <2>3. TypeOK'
    BY <1>0, <1>6, <2>2, DiscardType, NumberFacts DEF TypeOK, Close
  <2>4. holder' \in {0, holder}
    BY <1>0, <1>6, DiscardType DEF Close
  <2>5. RuntimeShape'
    BY <1>0, <1>1, <1>6, <2>4 DEF RuntimeShape, Close
  <2> QED
    BY <2>3, <2>5 DEF TypeInv
<1>7. CASE Crash
  <2>1. NoRotation \in [step : {"none", "probing", "closing"}, client : 0 .. MaxGeneration]
    BY NumberFacts DEF NoRotation
  <2>2. /\ bridge' \in [Generations -> Bridge]
        /\ session' \in [Sessions -> Session]
    BY <1>7, NewTypes DEF Crash
  <2>3. TypeOK'
    BY <1>0, <1>7, <2>1, <2>2, DiscardType, NumberFacts DEF TypeOK, Crash
  <2>4. RuntimeShape'
    BY <1>1, <1>7 DEF RuntimeShape, Crash, NoRotation, Discard, NewSession, Calling
  <2> QED
    BY <2>3, <2>4 DEF TypeInv
<1>8. CASE RotateOpen
  <2>1. rotation' \in [step : {"none", "probing", "closing"}, client : 0 .. MaxGeneration]
    BY <1>2, <1>8 DEF RotateOpen
  <2>2. TypeOK'
    BY <1>0, <1>2, <1>8, <2>1, InitializedType DEF TypeOK, RotateOpen
  <2>3. rotation'.step = "probing" /\ rotation'.client = generation + 1
    BY <1>8 DEF RotateOpen
  <2>4. RuntimeShape'
    BY <1>0, <1>1, <1>8, <2>3 DEF RuntimeShape, RotateOpen
  <2> QED
    BY <2>2, <2>4 DEF TypeInv
<1>9. CASE RotateFails
  <2>1. NoRotation \in [step : {"none", "probing", "closing"}, client : 0 .. MaxGeneration]
    BY NumberFacts DEF NoRotation
  <2>2. TypeOK'
    BY <1>0, <1>9, <2>1 DEF TypeOK, RotateFails
  <2>3. RuntimeShape'
    BY <1>0, <1>1, <1>9 DEF RuntimeShape, RotateFails, NoRotation
  <2> QED
    BY <2>2, <2>3 DEF TypeInv
<1>10. CASE RotateSwap
  <2>1. rotation' \in [step : {"none", "probing", "closing"}, client : 0 .. MaxGeneration]
    BY <1>1, <1>10 DEF RotateSwap
  <2>2. TypeOK'
    BY <1>0, <1>1, <1>10, <2>1 DEF TypeOK, RotateSwap
  <2>3. rotation'.step = "closing" /\ rotation'.client = current
    BY <1>10 DEF RotateSwap
  <2>4. RuntimeShape'
    BY <1>0, <1>1, <1>10, <2>3 DEF RuntimeShape, RotateSwap
  <2> QED
    BY <2>2, <2>4 DEF TypeInv
<1>11. CASE RotateClose
  <2>1. NoRotation \in [step : {"none", "probing", "closing"}, client : 0 .. MaxGeneration]
    BY NumberFacts DEF NoRotation
  <2>2. PICK b \in AbortOf(bridge[rotation.client]) :
            bridge' = [bridge EXCEPT ![rotation.client] = b]
    BY <1>11 DEF RotateClose
  <2>3. bridge' \in [Generations -> Bridge]
    BY <1>0, <1>4, <1>11, <2>2, AbortType DEF RotateClose
  <2>4. TypeOK'
    BY <1>0, <1>11, <2>1, <2>3, DiscardType DEF TypeOK, RotateClose
  <2>5. holder' \in {0, holder}
    BY <1>0, <1>11, DiscardType DEF RotateClose
  <2>6. RuntimeShape'
    BY <1>0, <1>1, <1>11, <2>5 DEF RuntimeShape, RotateClose, NoRotation
  <2> QED
    BY <2>4, <2>6 DEF TypeInv
<1> QED
  BY <1>5, <1>6, <1>7, <1>8, <1>9, <1>10, <1>11 DEF RuntimeStep

\* A step of session s that leaves the runtime alone keeps the runtime's shape when
\* the session stays on a bridge it was on, or takes the current one.
LEMMA SessionRuntimeShape ==
    ASSUME TypeInv, NEW s \in Sessions, phase # "new", UNCHANGED runtime,
           session' \in [Sessions -> Session],
           \A t \in Sessions \ {s} : session'[t] = session[t],
           session'[s].on <= generation,
           session'[s].pc \in Calling =>
              \/ phase = "open" /\ session'[s].bridge = current
              \/ session[s].pc \in Calling /\ session'[s].bridge = session[s].bridge,
           session'[s].pc \in Calling \ {"begin"} => session'[s].delivery \in Offsets,
           holder' \in {0, holder} \/ (phase = "open" /\ holder' = current)
    PROVE  RuntimeShape'
<1>1. /\ current \in Nat /\ generation \in Nat /\ holder \in Nat
      /\ rotation.client \in Nat
  BY NumberFacts DEF TypeInv, TypeOK
<1> QED
  BY <1>1 DEF TypeInv, RuntimeShape

\* The steps of a session preserve the types.
LEMMA SessionType ==
    ASSUME TypeInv, NEW s \in Sessions, SessionStep(s)
    PROVE  TypeInv'
<1>0. TypeOK /\ RuntimeShape
  BY DEF TypeInv
<1>1. /\ session \in [Sessions -> Session] /\ session[s] \in Session
      /\ bridge \in [Generations -> Bridge]
      /\ current \in 0 .. MaxGeneration /\ 0 \in 0 .. MaxGeneration
      /\ session[s].bridge \in 0 .. MaxGeneration /\ session[s].bridge \in Nat
      /\ session[s].on \in 0 .. MaxGeneration /\ session[s].on \in Nat
      /\ session[s].delivery \in Positions /\ session[s].deliveries \subseteq Offsets
      /\ current \in Nat /\ generation \in Nat
  BY <1>0, NumberFacts DEF TypeOK, Session
<1>2. phase = "open" => current \in Generations
  BY <1>0, <1>1, NumberFacts DEF RuntimeShape
<1>3. session[s].pc \in Calling => session[s].bridge \in Generations
  BY <1>0, <1>1, NumberFacts DEF RuntimeShape
<1>4. session[s].status # "new" \/ session[s].pc # "idle" => phase # "new"
  BY <1>0 DEF RuntimeShape, NewSession
<1>5. /\ session[s].on <= generation
      /\ session[s].pc \in Calling \ {"begin"} => session[s].delivery \in Offsets
  BY <1>0 DEF RuntimeShape
<1>6. CASE \E t \in BOOLEAN : OpenSession(s, t)
  <2>1. PICK t \in BOOLEAN : OpenSession(s, t)
    BY <1>6
  <2>2. session' \in [Sessions -> Session]
    BY <1>1, <2>1 DEF OpenSession, Session
  <2>3. TypeOK'
    BY <1>0, <2>1, <2>2 DEF OpenSession, TypeOK
  <2>4. /\ session'[s].on = session[s].on /\ session'[s].bridge = session[s].bridge
        /\ session'[s].pc = session[s].pc /\ session'[s].delivery = session[s].delivery
        /\ \A u \in Sessions \ {s} : session'[u] = session[u]
    BY <1>1, <2>1 DEF OpenSession, Session
  <2>5. RuntimeShape'
    BY <1>5, <2>1, <2>2, <2>4, SessionRuntimeShape DEF OpenSession
  <2> QED
    BY <2>3, <2>5 DEF TypeInv
<1>7. CASE CloseSession(s)
  <2>2. session' \in [Sessions -> Session]
    BY <1>1, <1>7 DEF CloseSession, Session
  <2>3. TypeOK'
    BY <1>0, <1>7, <2>2 DEF CloseSession, TypeOK
  <2>4. /\ session'[s].on = session[s].on /\ session'[s].bridge = session[s].bridge
        /\ session'[s].pc = session[s].pc /\ session'[s].delivery = session[s].delivery
        /\ \A u \in Sessions \ {s} : session'[u] = session[u]
    BY <1>1, <1>7 DEF CloseSession, Session
  <2>5. RuntimeShape'
    BY <1>4, <1>5, <1>7, <2>2, <2>4, SessionRuntimeShape DEF CloseSession
  <2> QED
    BY <2>3, <2>5 DEF TypeInv
<1>8. CASE BeginCall(s)
  <2>2. session' \in [Sessions -> Session]
    BY <1>1, <1>8 DEF BeginCall, Session
  <2>3. TypeOK'
    BY <1>0, <1>8, <2>2 DEF BeginCall, TypeOK
  <2>4. /\ session'[s].on = session[s].on /\ session'[s].bridge = current
        /\ session'[s].pc = "begin"
        /\ \A u \in Sessions \ {s} : session'[u] = session[u]
    BY <1>1, <1>8 DEF BeginCall, Session
  <2>5. RuntimeShape'
    BY <1>5, <1>8, <2>2, <2>4, SessionRuntimeShape DEF BeginCall, MayCall
  <2> QED
    BY <2>3, <2>5 DEF TypeInv
<1>9. CASE LeaseAcquired(s)
  <2> DEFINE g == session[s].bridge
  <2>1. g \in Generations /\ g <= generation
    BY <1>0, <1>3, <1>9 DEF LeaseAcquired, Calling, RuntimeShape
  <2>2. session' \in [Sessions -> Session]
    <3>1. CASE session[s].pc = "begin"
      BY <1>1, <1>9, <3>1 DEF LeaseAcquired, Session
    <3>2. CASE session[s].pc # "begin"
      BY <1>1, <1>9, <3>2 DEF LeaseAcquired, Session
    <3> QED
      BY <3>1, <3>2
  <2>3. bridge' \in [Generations -> Bridge]
    <3>1. Began(bridge[g], s) \in Bridge
      BY <1>1, <2>1, BridgeTypes
    <3> QED
      BY <1>1, <1>9, <3>1 DEF LeaseAcquired
  <2>4. TypeOK'
    BY <1>0, <1>9, <2>2, <2>3 DEF LeaseAcquired, TypeOK
  <2>5. /\ session'[s].on = g /\ session'[s].bridge = g
        /\ session'[s].delivery = session[s].delivery
        /\ session'[s].pc # "idle" => session[s].pc = "op-begin"
        /\ \A u \in Sessions \ {s} : session'[u] = session[u]
    BY <1>1, <1>9 DEF LeaseAcquired, Session
  <2>6. session[s].pc \in Calling /\ session[s].pc # "idle"
    BY <1>9 DEF LeaseAcquired, Calling
  <2>7. RuntimeShape'
    BY <1>4, <1>5, <1>9, <2>1, <2>2, <2>5, <2>6, SessionRuntimeShape
    DEF LeaseAcquired, Calling
  <2> QED
    BY <2>4, <2>7 DEF TypeInv
<1>10. CASE BeginRaises(s)
  <2>2. session' \in [Sessions -> Session]
    BY <1>1, <1>10 DEF BeginRaises, Session
  <2>3. TypeOK'
    BY <1>0, <1>10, <2>2 DEF BeginRaises, TypeOK
  <2>4. /\ session'[s].on = session[s].on /\ session'[s].pc = "idle"
        /\ \A u \in Sessions \ {s} : session'[u] = session[u]
    BY <1>1, <1>10 DEF BeginRaises, Session
  <2>5. session'[s].pc \notin Calling /\ session[s].pc # "idle"
    BY <1>10, <2>4 DEF BeginRaises, Calling
  <2>6. RuntimeShape'
    BY <1>4, <1>5, <1>10, <2>2, <2>4, <2>5, SessionRuntimeShape DEF BeginRaises
  <2> QED
    BY <2>3, <2>6 DEF TypeInv
<1>11. CASE Poll(s)
  <2> DEFINE first == IF holder = 0 THEN committed ELSE position
  <2>1. /\ first \in Offsets /\ first + 1 \in Positions
        /\ session' = [session EXCEPT ![s].deliveries = @ \cup {first}]
        /\ inflight' = inflight \cup {first} /\ position' = first + 1
    BY <1>0, <1>11, NumberFacts DEF Poll, TypeOK
  <2> HIDE DEF first
  <2>2. session' \in [Sessions -> Session]
    BY <1>1, <2>1 DEF Session
  <2>3. member' \in Nat /\ safe_next' \in Positions
    BY <1>0, <1>11 DEF Poll, TypeOK
  <2>4. TypeOK'
    BY <1>0, <1>11, <2>1, <2>2, <2>3 DEF Poll, TypeOK
  <2>5. /\ session'[s].on = session[s].on /\ session'[s].bridge = session[s].bridge
        /\ session'[s].pc = session[s].pc /\ session'[s].delivery = session[s].delivery
        /\ \A u \in Sessions \ {s} : session'[u] = session[u]
    BY <1>1, <2>1 DEF Session
  <2>6. RuntimeShape'
    BY <1>5, <1>11, <2>2, <2>5, SessionRuntimeShape DEF Poll, MayExecute, MayCall
  <2> QED
    BY <2>4, <2>6 DEF TypeInv
<1>12. ASSUME NEW o \in Offsets, PlainAcknowledge(s, o) PROVE TypeInv'
  <2>1. session' \in [Sessions -> Session]
    BY <1>1, <1>12 DEF PlainAcknowledge, Session
  <2>2. TypeOK'
    <3>1. CASE Known(o) /\ UNCHANGED <<visible, twice, holder, member, position>>
               /\ inflight' = inflight \ {o} /\ plain' = plain \cup {o}
               /\ \E safe \in Positions :
                    /\ TakeRun(o, safe)
                    /\ safe_next' = safe
                    /\ committed' = IF safe > safe_next THEN safe ELSE committed
      BY <1>0, <1>12, <2>1, <3>1 DEF PlainAcknowledge, TakeRun, TypeOK
    <3>2. CASE UNCHANGED <<kafka, consumer>>
      BY <1>0, <1>12, <2>1, <3>2 DEF PlainAcknowledge, TypeOK
    <3> QED
      BY <1>12, <3>1, <3>2 DEF PlainAcknowledge
  <2>3. /\ session'[s].on = session[s].on /\ session'[s].bridge = session[s].bridge
        /\ session'[s].pc = session[s].pc /\ session'[s].delivery = session[s].delivery
        /\ \A u \in Sessions \ {s} : session'[u] = session[u]
    BY <1>1, <1>12 DEF PlainAcknowledge, Session
  <2>4. holder' = holder
    BY <1>12 DEF PlainAcknowledge
  <2>5. RuntimeShape'
    BY <1>5, <1>12, <2>1, <2>3, <2>4, SessionRuntimeShape
    DEF PlainAcknowledge, MayExecute, MayCall
  <2> QED
    BY <2>2, <2>5 DEF TypeInv
<1>13. ASSUME NEW o \in Offsets, OperationCall(s, o) PROVE TypeInv'
  <2>1. session' \in [Sessions -> Session]
    <3>1. o \in Positions /\ session[s].active \in BOOLEAN /\ session[s].touched \in BOOLEAN
      BY <1>1, NumberFacts DEF Session
    <3>2. CASE session[s].active
      <4> DEFINE x == [session[s] EXCEPT
                !.deliveries = @ \ {o}, !.delivery = o, !.bridge = current,
                !.owns = FALSE, !.touched = TRUE, !.pc = "op-publish"]
      <4>1. x \in Session
        BY <1>1, <3>1 DEF Session
      <4>2. session' = [session EXCEPT ![s] = x]
        BY <1>13, <3>2 DEF OperationCall
      <4> HIDE DEF x
      <4> QED
        BY <1>1, <4>1, <4>2
    <3>3. CASE ~session[s].active
      <4> DEFINE x == [session[s] EXCEPT
                !.deliveries = @ \ {o}, !.delivery = o, !.bridge = current,
                !.owns = TRUE, !.touched = session[s].touched, !.pc = "op-begin"]
      <4>1. x \in Session
        BY <1>1, <3>1 DEF Session
      <4>2. session' = [session EXCEPT ![s] = x]
        BY <1>13, <3>1, <3>3 DEF OperationCall
      <4> HIDE DEF x
      <4> QED
        BY <1>1, <4>1, <4>2
    <3> QED
      BY <3>2, <3>3
  <2>2. TypeOK'
    BY <1>0, <1>13, <2>1 DEF OperationCall, TypeOK
  <2>3. /\ session'[s].on = session[s].on /\ session'[s].bridge = current
        /\ session'[s].delivery = o
        /\ \A u \in Sessions \ {s} : session'[u] = session[u]
    BY <1>1, <1>13 DEF OperationCall, Session
  <2>4. phase = "open" /\ UNCHANGED runtime /\ UNCHANGED holder
    BY <1>13 DEF OperationCall, MayExecute, MayCall
  <2>5. RuntimeShape'
    BY <1>5, <2>1, <2>3, <2>4, SessionRuntimeShape
  <2> QED
    BY <2>2, <2>5 DEF TypeInv
<1>14. ASSUME NEW o \in Offsets, CorePublish(s, o) PROVE TypeInv'
  <2>1. session' \in [Sessions -> Session]
    BY <1>1, <1>14 DEF CorePublish, Session
  <2>2. bridge' \in [Generations -> Bridge]
    BY <1>1, <1>2, <1>14 DEF CorePublish, MayExecute, MayCall, Bridge
  <2>3. TypeOK'
    BY <1>0, <1>14, <2>1, <2>2 DEF CorePublish, TypeOK
  <2>4. /\ session'[s].on = session[s].on /\ session'[s].bridge = session[s].bridge
        /\ session'[s].pc = session[s].pc /\ session'[s].delivery = session[s].delivery
        /\ \A u \in Sessions \ {s} : session'[u] = session[u]
    BY <1>1, <1>14 DEF CorePublish, Session
  <2>5. RuntimeShape'
    BY <1>5, <1>14, <2>1, <2>4, SessionRuntimeShape DEF CorePublish, MayExecute, MayCall
  <2> QED
    BY <2>3, <2>5 DEF TypeInv
<1>15. ASSUME NEW o \in Offsets, CoreAcknowledge(s, o) PROVE TypeInv'
  <2>1. session' \in [Sessions -> Session]
    <3>1. CASE session' = [session EXCEPT ![s].touched = TRUE, ![s].deliveries = @ \ {o}]
      BY <1>1, <3>1 DEF Session
    <3>2. CASE session' = [session EXCEPT ![s].touched = TRUE, ![s].deliveries = @ \ {o},
                                          ![s].failed = TRUE]
      BY <1>1, <3>2 DEF Session
    <3> QED
      BY <1>15, <3>1, <3>2 DEF CoreAcknowledge
  <2>2. current \in Generations /\ phase = "open"
    BY <1>2, <1>15 DEF CoreAcknowledge, MayExecute, MayCall
  <2>3. Acknowledge(current, o) \/ (AcknowledgeRaises(current, o) /\ UNCHANGED bridge)
    BY <1>15 DEF CoreAcknowledge
  <2>4. TypeOK' /\ holder' = holder
    BY <1>0, <1>15, <2>1, <2>2, <2>3, AcknowledgeType DEF CoreAcknowledge, TypeOK
  <2>5. /\ session'[s].on = session[s].on /\ session'[s].bridge = session[s].bridge
        /\ session'[s].pc = session[s].pc /\ session'[s].delivery = session[s].delivery
        /\ \A u \in Sessions \ {s} : session'[u] = session[u]
    BY <1>1, <1>15 DEF CoreAcknowledge, Session
  <2>6. RuntimeShape'
    BY <1>5, <1>15, <2>1, <2>2, <2>4, <2>5, SessionRuntimeShape DEF CoreAcknowledge
  <2> QED
    BY <2>4, <2>6 DEF TypeInv
<1>16. CASE CoreCommit(s)
  <2>1. session' \in [Sessions -> Session]
    <3>1. CASE session' = [session EXCEPT ![s].active = FALSE, ![s].touched = FALSE]
      BY <1>1, <3>1 DEF Session
    <3>2. CASE session' = [session EXCEPT ![s].active = FALSE, ![s].pc = "recover"]
      BY <1>1, <3>2 DEF Session
    <3> QED
      BY <1>16, <3>1, <3>2 DEF CoreCommit
  <2>2. current \in Generations /\ phase = "open"
    BY <1>2, <1>16 DEF CoreCommit, MayCall
  <2>3. CommitSucceeds(current) \/ CommitRaises(current)
    BY <1>16 DEF CoreCommit
  <2>4. TypeOK'
    BY <1>0, <1>16, <2>1, <2>2, <2>3, CommitType DEF CoreCommit, TypeOK
  <2>5. /\ session'[s].on = session[s].on /\ session'[s].pc \in {"idle", "recover"}
        /\ \A u \in Sessions \ {s} : session'[u] = session[u]
    BY <1>1, <1>16 DEF CoreCommit, Session, MayCall
  <2>6. RuntimeShape'
    BY <1>5, <1>16, <2>1, <2>2, <2>5, SessionRuntimeShape DEF CoreCommit, Calling
  <2> QED
    BY <2>4, <2>6 DEF TypeInv
<1>17. CASE CoreRollback(s)
  <2>1. session' \in [Sessions -> Session]
    BY <1>1, <1>17 DEF CoreRollback, Session
  <2>2. current \in Generations /\ phase = "open"
    BY <1>2, <1>17 DEF CoreRollback, MayCall
  <2>3. bridge' \in [Generations -> Bridge]
    BY <1>0, <1>17, <2>2, AbortType DEF CoreRollback
  <2>4. TypeOK'
    BY <1>0, <1>17, <2>1, <2>3 DEF CoreRollback, TypeOK
  <2>5. /\ session'[s].on = session[s].on /\ session'[s].pc = "recover"
        /\ \A u \in Sessions \ {s} : session'[u] = session[u]
    BY <1>1, <1>17 DEF CoreRollback, Session
  <2>6. RuntimeShape'
    BY <1>5, <1>17, <2>1, <2>2, <2>5, SessionRuntimeShape DEF CoreRollback, Calling
  <2> QED
    BY <2>4, <2>6 DEF TypeInv
<1>18. CASE Recover(s)
  <2>1. session' \in [Sessions -> Session]
    BY <1>1, <1>18 DEF Recover, Session
  <2>2. DiscardOf(current) \/ UNCHANGED consumer
    BY <1>18 DEF Recover
  <2>3. TypeOK' /\ holder' \in {0, holder}
    <3>1. CASE DiscardOf(current)
      BY <1>0, <1>18, <2>1, <3>1, DiscardType DEF Recover, TypeOK
    <3>2. CASE UNCHANGED consumer
      BY <1>0, <1>18, <2>1, <3>2 DEF Recover, TypeOK
    <3> QED
      BY <2>2, <3>1, <3>2
  <2>4. /\ session'[s].on = session[s].on /\ session'[s].pc = "idle"
        /\ \A u \in Sessions \ {s} : session'[u] = session[u]
    BY <1>1, <1>18 DEF Recover, Session
  <2>5. phase # "new"
    BY <1>4, <1>18 DEF Recover
  <2>6. RuntimeShape'
    BY <1>5, <1>18, <2>1, <2>3, <2>4, <2>5, SessionRuntimeShape DEF Recover, Calling
  <2> QED
    BY <2>3, <2>6 DEF TypeInv
<1>19. CASE OperationPublish(s)
  <2> DEFINE g == session[s].bridge
             o == session[s].delivery
  <2>1. /\ session[s].pc = "op-publish" /\ session[s].pc \in Calling
        /\ g \in Generations /\ o \in Offsets
    BY <1>3, <1>5, <1>19 DEF OperationPublish, Calling
  <2>2. session' \in [Sessions -> Session]
    BY <1>1, <1>19 DEF OperationPublish, Session
  <2>3. bridge' \in [Generations -> Bridge]
    BY <1>1, <1>19, <2>1 DEF OperationPublish, Bridge
  <2>4. TypeOK'
    BY <1>0, <1>19, <2>2, <2>3 DEF OperationPublish, TypeOK
  <2>5. /\ session'[s].on = session[s].on /\ session'[s].bridge = g
        /\ session'[s].delivery = o
        /\ \A u \in Sessions \ {s} : session'[u] = session[u]
    BY <1>1, <1>19 DEF OperationPublish, Session
  <2>6. RuntimeShape'
    BY <1>4, <1>5, <1>19, <2>1, <2>2, <2>5, SessionRuntimeShape DEF OperationPublish
  <2> QED
    BY <2>4, <2>6 DEF TypeInv
<1>20. CASE OperationAcknowledge(s)
  <2> DEFINE g == session[s].bridge
             o == session[s].delivery
  <2>1. /\ session[s].pc = "op-ack" /\ session[s].pc \in Calling
        /\ g \in Generations /\ o \in Offsets
    BY <1>3, <1>5, <1>20 DEF OperationAcknowledge, Calling
  <2>2. PICK p \in {"op-commit", "idle", "op-except"} :
            session' = [session EXCEPT ![s].pc = p]
    BY <1>20 DEF OperationAcknowledge
  <2>3. session' \in [Sessions -> Session]
    BY <1>1, <2>2 DEF Session
  <2>4. Acknowledge(g, o) \/ (AcknowledgeRaises(g, o) /\ UNCHANGED bridge)
    BY <1>20 DEF OperationAcknowledge
  <2>5. TypeOK' /\ holder' = holder
    BY <1>0, <1>20, <2>1, <2>3, <2>4, AcknowledgeType DEF OperationAcknowledge, TypeOK
  <2>6. /\ session'[s].on = session[s].on /\ session'[s].bridge = g
        /\ session'[s].delivery = o
        /\ \A u \in Sessions \ {s} : session'[u] = session[u]
    BY <1>1, <2>2 DEF Session
  <2>7. RuntimeShape'
    BY <1>4, <1>5, <1>20, <2>1, <2>3, <2>5, <2>6, SessionRuntimeShape
    DEF OperationAcknowledge
  <2> QED
    BY <2>5, <2>7 DEF TypeInv
<1>21. CASE OperationCommit(s)
  <2> DEFINE g == session[s].bridge
  <2>1. /\ session[s].pc = "op-commit" /\ session[s].pc \in Calling /\ g \in Generations
        /\ session[s].pc # "begin"
    BY <1>3, <1>21 DEF OperationCommit, Calling
  <2>2. session' \in [Sessions -> Session]
    <3>1. CASE session' = [session EXCEPT ![s].pc = "idle", ![s].owns = FALSE,
                                          ![s].touched = FALSE]
      BY <1>1, <3>1 DEF Session
    <3>2. CASE session' = [session EXCEPT ![s].pc = "op-except"]
      BY <1>1, <3>2 DEF Session
    <3> QED
      BY <1>21, <3>1, <3>2 DEF OperationCommit
  <2>3. CommitSucceeds(g) \/ CommitRaises(g)
    BY <1>21 DEF OperationCommit
  <2>4. TypeOK'
    BY <1>0, <1>21, <2>1, <2>2, <2>3, CommitType DEF OperationCommit, TypeOK
  <2>5. /\ session'[s].on = session[s].on /\ session'[s].bridge = g
        /\ session'[s].delivery = session[s].delivery
        /\ \A u \in Sessions \ {s} : session'[u] = session[u]
    BY <1>1, <1>21 DEF OperationCommit, Session
  <2>6. RuntimeShape'
    BY <1>4, <1>5, <1>21, <2>1, <2>2, <2>5, SessionRuntimeShape DEF OperationCommit
  <2> QED
    BY <2>4, <2>6 DEF TypeInv
<1>22. CASE OperationExcept(s)
  <2> DEFINE g == session[s].bridge
  <2>1. session[s].pc = "op-except" /\ session[s].pc \in Calling /\ g \in Generations
    BY <1>3, <1>22 DEF OperationExcept, Calling
  <2>2. PICK p \in {"recover", "idle"} :
            session' = [session EXCEPT ![s].owns = FALSE, ![s].failed = TRUE, ![s].pc = p]
    BY <1>22 DEF OperationExcept
  <2>3. session' \in [Sessions -> Session]
    BY <1>1, <2>2 DEF Session
  <2>4. bridge' \in [Generations -> Bridge]
    <3>1. /\ bridge[g] \in Bridge /\ Finish(bridge[g]) \in Bridge
          /\ Finish(Ended(bridge[g])) \in Bridge
      BY <1>1, <2>1, BridgeTypes
    <3> QED
      BY <1>1, <1>22, <2>1, <3>1 DEF OperationExcept
  <2>5. TypeOK'
    BY <1>0, <1>22, <2>3, <2>4 DEF OperationExcept, TypeOK
  <2>6. /\ session'[s].on = session[s].on /\ session'[s].pc \in {"recover", "idle"}
        /\ \A u \in Sessions \ {s} : session'[u] = session[u]
    BY <1>1, <2>2 DEF Session
  <2>7. RuntimeShape'
    BY <1>4, <1>5, <1>22, <2>1, <2>3, <2>6, SessionRuntimeShape
    DEF OperationExcept, Calling
  <2> QED
    BY <2>5, <2>7 DEF TypeInv
<1> QED
  BY <1>6, <1>7, <1>8, <1>9, <1>10, <1>11, <1>12, <1>13, <1>14, <1>15, <1>16, <1>17,
     <1>18, <1>19, <1>20, <1>21, <1>22 DEF SessionStep

\* Every step preserves the types.
LEMMA NextType == TypeInv /\ [Next]_vars => TypeInv'
<1>1. ASSUME TypeInv, UNCHANGED vars PROVE TypeInv'
  BY <1>1 DEF TypeInv, TypeOK, RuntimeShape
<1> QED
  BY <1>1, RuntimeType, SessionType DEF Next

\* TypeOK holds in every reachable state: whatever is committed, staged, fenced or
\* recovered, Kafka, the bridges, the sessions and the consumer have their types.
THEOREM TypeCorrect == Spec => []TypeOK
<1>1. Init => TypeInv
  BY InitType
<1>2. TypeInv /\ [Next]_vars => TypeInv'
  BY NextType
<1>3. TypeInv => TypeOK
  BY DEF TypeInv
<1> QED
  BY <1>1, <1>2, <1>3, PTL DEF Spec

-----------------------------------------------------------------------------
(* Serialized, for Core transactions on a runtime that is not rotated or   *)
(* closed.                                                                 *)

\* A step that changes neither who holds the leases and the open transactions nor
\* where the sessions are.
LEMMA SameLeases ==
    ASSUME SerializedInv, UNCHANGED runtime,
           \A g \in Generations : /\ bridge'[g].lease = bridge[g].lease
                                  /\ bridge'[g].active = bridge[g].active
                                  /\ bridge'[g].txn = bridge[g].txn,
           \A s \in Sessions : /\ session'[s].active = session[s].active
                               /\ session'[s].on = session[s].on
                               /\ session'[s].pc = session[s].pc
                               /\ session'[s].bridge = session[s].bridge
                               /\ session'[s].owns = session[s].owns,
           current # 0 => current \in Generations
    PROVE  SerializedInv'
<1>1. OnlyCore'
  BY DEF SerializedInv, OnlyCore
<1>2. LeasesHeld'
  BY DEF SerializedInv, LeasesHeld
<1> QED
  BY <1>1, <1>2 DEF SerializedInv

\* A session that leaves its transaction releases the lease.
LEMMA LeaseReleased ==
    ASSUME TypeInv, SerializedInv, UNCHANGED runtime, NEW s \in Sessions,
           session[s].active, phase = "open",
           NEW b \in {Finish(bridge[current]), Finish(Ended(bridge[current]))},
           bridge' = [bridge EXCEPT ![current] = b],
           \A t \in Sessions \ {s} : session'[t] = session[t],
           /\ ~session'[s].active /\ ~session'[s].owns
           /\ session'[s].pc \in {"idle", "recover"}
    PROVE  SerializedInv'
<1>1. /\ current \in Generations /\ bridge \in [Generations -> Bridge]
      /\ bridge[current] \in Bridge
  BY NumberFacts DEF TypeInv, TypeOK, RuntimeShape
<1>2. b.lease = NoSession
  BY <1>1 DEF Finish, Ended, Bridge
<1>3. /\ bridge'[current].lease = NoSession
      /\ \A g \in Generations \ {current} : bridge'[g] = bridge[g]
  BY <1>1, <1>2
<1>4. \A t \in Sessions : session[t].active => t = s
  BY DEF SerializedInv, LeasesHeld
<1>5. OnlyCore'
  BY DEF SerializedInv, OnlyCore
<1>6. LeasesHeld'
  <2>1. \A t \in Sessions : ~session'[t].active
    BY <1>4
  <2>2. \A g \in Generations \ {current} : bridge[g].lease = NoSession
    BY <1>4 DEF SerializedInv, LeasesHeld
  <2> QED
    BY <1>1, <1>3, <2>1, <2>2 DEF LeasesHeld
<1> QED
  BY <1>5, <1>6 DEF SerializedInv

\* Every step preserves the invariant.
LEMMA NextSerialized ==
    ASSUME "operation" \notin Env, "rotation" \notin Env, "close" \notin Env,
           TypeInv, SerializedInv, [Next]_vars
    PROVE  SerializedInv'
<1>0. TypeOK /\ RuntimeShape /\ OnlyCore /\ LeasesHeld
  BY DEF TypeInv, SerializedInv
<1>1. /\ current \in 0 .. MaxGeneration /\ current \in Nat /\ generation \in Nat
      /\ current # 0 => current \in Generations
      /\ phase = "open" => current # 0
      /\ bridge \in [Generations -> Bridge] /\ session \in [Sessions -> Session]
      /\ \A g \in Generations : bridge[g] \in Bridge
      /\ \A s \in Sessions : session[s] \in Session
  BY <1>0, NumberFacts DEF TypeOK, RuntimeShape
<1>2. CASE UNCHANGED vars
  BY <1>1, <1>2, SameLeases
<1>3. CASE Open
  <2>1. \A s \in Sessions : ~session[s].active /\ session'[s] = session[s]
                            /\ session[s].pc = "idle"
    BY <1>0, <1>3 DEF RuntimeShape, NewSession, Open
  <2>2. \A g \in Generations : bridge[g].lease = NoSession
    BY <1>0, <2>1 DEF LeasesHeld
  <2>3. \A g \in Generations : bridge'[g].lease = NoSession
    BY <1>1, <1>3, <2>2 DEF Open, Initialized, NewBridge, Ended, Bridge
  <2>4. OnlyCore'
    BY <1>0, <1>3, <2>1 DEF OnlyCore, Open
  <2>5. LeasesHeld'
    BY <2>1, <2>3 DEF LeasesHeld
  <2> QED
    BY <2>4, <2>5 DEF SerializedInv
<1>4. CASE Crash
  <2>1. /\ \A s \in Sessions : ~session'[s].active /\ session'[s].pc = "idle"
                               /\ ~session'[s].owns
        /\ \A g \in Generations : bridge'[g].lease = NoSession
        /\ rotation'.step = "none"
    BY <1>4 DEF Crash, NewSession, NewBridge, NoRotation
  <2> QED
    BY <2>1 DEF SerializedInv, OnlyCore, LeasesHeld
<1>5. CASE Close \/ RotateOpen \/ RotateFails \/ RotateSwap \/ RotateClose
  BY <1>0, <1>5 DEF Close, RotateOpen, RotateFails, RotateSwap, RotateClose, OnlyCore
<1>6. ASSUME NEW s \in Sessions, SessionStep(s) PROVE SerializedInv'
  <2>1. CASE \E t \in BOOLEAN : OpenSession(s, t)
    BY <1>1, <2>1, SameLeases DEF OpenSession, Session
  <2>2. CASE CloseSession(s)
    BY <2>2 DEF CloseSession
  <2>3. CASE BeginCall(s)
    <3>1. OnlyCore'
      BY <1>0, <1>1, <2>3 DEF BeginCall, OnlyCore, Session
    <3>2. \A t \in Sessions : session'[t].active = session[t].active
                              /\ session'[t].on = session[t].on
      BY <1>1, <2>3 DEF BeginCall, Session
    <3>3. LeasesHeld'
      <4>1. UNCHANGED <<bridge, current>>
        BY <2>3 DEF BeginCall
      <4> QED
        BY <1>0, <3>2, <4>1 DEF LeasesHeld
    <3> QED
      BY <3>1, <3>3 DEF SerializedInv
  <2>4. CASE LeaseAcquired(s)
    <3>1. /\ session[s].pc = "begin" /\ session[s].bridge = current
          /\ bridge[current].lease = NoSession
      BY <1>0, <2>4 DEF LeaseAcquired, OnlyCore
    <3>2. /\ current \in Generations /\ bridge' = [bridge EXCEPT ![current] = Began(@, s)]
          /\ session' = [session EXCEPT ![s].pc = "idle", ![s].active = TRUE,
                                        ![s].on = current, ![s].sent = {},
                                        ![s].failed = FALSE]
      BY <1>0, <1>1, <2>4, <3>1 DEF LeaseAcquired, RuntimeShape, Calling
    <3>3. /\ session'[s].active /\ session'[s].on = current /\ session'[s].pc = "idle"
          /\ session'[s].owns = session[s].owns
          /\ \A t \in Sessions \ {s} : session'[t] = session[t]
      BY <1>1, <3>2 DEF Session
    <3>4. /\ bridge'[current].active /\ bridge'[current].lease = s
          /\ bridge'[current].txn = s
          /\ \A g \in Generations \ {current} : bridge'[g] = bridge[g]
      BY <1>1, <3>2 DEF Began, Bridge
    <3>5. \A t \in Sessions : ~session[t].active
      BY <1>0, <3>1, SessionAssumption DEF LeasesHeld
    <3>6. OnlyCore'
      BY <1>0, <2>4, <3>3 DEF OnlyCore, LeaseAcquired
    <3>7. LeasesHeld'
      <4>1. UNCHANGED current /\ current \in Generations
        BY <2>4, <3>2 DEF LeaseAcquired
      <4>2. \A g \in Generations \ {current} : bridge[g].lease = NoSession
        BY <1>0, <3>5 DEF LeasesHeld
      <4>3. current # 0
        BY <4>1 DEF Generations
      <4> QED
        BY <3>3, <3>4, <3>5, <4>1, <4>2, <4>3 DEF LeasesHeld
    <3> QED
      BY <3>6, <3>7 DEF SerializedInv
  <2>5. CASE BeginRaises(s)
    <3>1. \A t \in Sessions : /\ session'[t].active = session[t].active
                              /\ session'[t].on = session[t].on
                              /\ session'[t].bridge = session[t].bridge
                              /\ session'[t].pc \in {"idle", session[t].pc}
                              /\ session[t].owns = FALSE => session'[t].owns = FALSE
      BY <1>1, <2>5 DEF BeginRaises, Session
    <3>2. OnlyCore'
      BY <1>0, <1>1, <2>5, <3>1 DEF BeginRaises, OnlyCore, Session
    <3>3. LeasesHeld'
      <4>1. UNCHANGED <<bridge, current>>
        BY <2>5 DEF BeginRaises
      <4> QED
        BY <1>0, <3>1, <4>1 DEF LeasesHeld
    <3> QED
      BY <3>2, <3>3 DEF SerializedInv
  <2>6. CASE Poll(s)
    BY <1>1, <2>6, SameLeases DEF Poll, Session
  <2>7. ASSUME NEW o \in Offsets, PlainAcknowledge(s, o) PROVE SerializedInv'
    BY <1>1, <2>7, SameLeases DEF PlainAcknowledge, Session
  <2>8. ASSUME NEW o \in Offsets, OperationCall(s, o) PROVE FALSE
    BY <2>8 DEF OperationCall
  <2>9. ASSUME NEW o \in Offsets, CorePublish(s, o) PROVE SerializedInv'
    <3>1. \A g \in Generations : /\ bridge'[g].lease = bridge[g].lease
                                 /\ bridge'[g].active = bridge[g].active
                                 /\ bridge'[g].txn = bridge[g].txn
      BY <1>1, <2>9 DEF CorePublish, Bridge
    <3> QED
      BY <1>1, <2>9, <3>1, SameLeases DEF CorePublish, Session
  <2>10. ASSUME NEW o \in Offsets, CoreAcknowledge(s, o) PROVE SerializedInv'
    <3>1. \A g \in Generations : /\ bridge'[g].lease = bridge[g].lease
                                 /\ bridge'[g].active = bridge[g].active
                                 /\ bridge'[g].txn = bridge[g].txn
      <4>1. UNCHANGED bridge \/ \E safe \in Positions : Stage(current, safe)
        BY <2>10 DEF CoreAcknowledge, Acknowledge
      <4>2. ASSUME NEW safe \in Positions, Stage(current, safe), NEW g \in Generations
            PROVE  /\ bridge'[g].lease = bridge[g].lease
                   /\ bridge'[g].active = bridge[g].active
                   /\ bridge'[g].txn = bridge[g].txn
        BY <1>1, <4>2 DEF Stage, Bridge
      <4> QED
        BY <4>1, <4>2
    <3>2. \A t \in Sessions : /\ session'[t].active = session[t].active
                              /\ session'[t].on = session[t].on
                              /\ session'[t].pc = session[t].pc
                              /\ session'[t].bridge = session[t].bridge
                              /\ session'[t].owns = session[t].owns
      BY <1>1, <2>10 DEF CoreAcknowledge, Session
    <3> QED
      BY <1>1, <2>10, <3>1, <3>2, SameLeases DEF CoreAcknowledge
  <2>11. CASE CoreCommit(s)
    <3>1. phase = "open" /\ session[s].active /\ UNCHANGED runtime
      BY <2>11 DEF CoreCommit, MayCall
    <3>2. bridge[current].active
      BY <1>0, <3>1 DEF LeasesHeld
    <3>3. PICK b \in {Finish(bridge[current]), Finish(Ended(bridge[current]))} :
              bridge' = [bridge EXCEPT ![current] = b]
      BY <2>11, <3>2 DEF CoreCommit, CommitSucceeds, CommitRaises, Aborts
    <3>4. /\ ~session'[s].active /\ session'[s].owns = session[s].owns
          /\ session'[s].pc \in {"idle", "recover"}
          /\ \A t \in Sessions \ {s} : session'[t] = session[t]
      BY <1>1, <2>11 DEF CoreCommit, MayCall, Session
    <3> QED
      BY <1>0, <3>1, <3>3, <3>4, LeaseReleased DEF OnlyCore
  <2>12. CASE CoreRollback(s)
    <3>1. phase = "open" /\ session[s].active /\ UNCHANGED runtime
      BY <2>12 DEF CoreRollback, MayCall
    <3>2. bridge[current].active
      BY <1>0, <3>1 DEF LeasesHeld
    <3>3. PICK b \in {Finish(bridge[current]), Finish(Ended(bridge[current]))} :
              bridge' = [bridge EXCEPT ![current] = b]
      BY <2>12, <3>2 DEF CoreRollback, AbortOf, Aborts
    <3>4. /\ ~session'[s].active /\ session'[s].owns = session[s].owns
          /\ session'[s].pc \in {"idle", "recover"}
          /\ \A t \in Sessions \ {s} : session'[t] = session[t]
      BY <1>1, <2>12 DEF CoreRollback, MayCall, Session
    <3> QED
      BY <1>0, <3>1, <3>3, <3>4, LeaseReleased DEF OnlyCore
  <2>13. CASE Recover(s)
    <3>1. \A t \in Sessions : /\ session'[t].active = session[t].active
                              /\ session'[t].on = session[t].on
                              /\ session'[t].bridge = session[t].bridge
                              /\ session'[t].pc \in {"idle", session[t].pc}
                              /\ session'[t].owns = session[t].owns
      BY <1>1, <2>13 DEF Recover, Session
    <3>2. OnlyCore'
      BY <1>0, <1>1, <2>13, <3>1 DEF Recover, OnlyCore
    <3>3. LeasesHeld'
      <4>1. UNCHANGED <<bridge, current>>
        BY <2>13 DEF Recover
      <4> QED
        BY <1>0, <3>1, <4>1 DEF LeasesHeld
    <3> QED
      BY <3>2, <3>3 DEF SerializedInv
  <2>14. CASE OperationPublish(s) \/ OperationAcknowledge(s) \/ OperationCommit(s)
              \/ OperationExcept(s)
    BY <1>0, <2>14
    DEF OperationPublish, OperationAcknowledge, OperationCommit, OperationExcept, OnlyCore
  <2> QED
    BY <1>6, <2>1, <2>2, <2>3, <2>4, <2>5, <2>6, <2>7, <2>8, <2>9, <2>10, <2>11, <2>12,
       <2>13, <2>14 DEF SessionStep
<1> QED
  BY <1>2, <1>3, <1>4, <1>5, <1>6 DEF Next, RuntimeStep

\* Use of the transactional producer is serialized by the bridge's lease: for any
\* number of sessions with Core transactions, whichever publish, commit or abort
\* raises and whenever the process crashes, a session in a transaction has the lease
\* and the broker's open transaction, and every lease belongs to a transaction.
THEOREM CoreSerialized ==
    ASSUME "operation" \notin Env, "rotation" \notin Env, "close" \notin Env
    PROVE  Spec => []Serialized
<1>1. Init => TypeInv /\ SerializedInv
  BY InitType DEF Init, SerializedInv, OnlyCore, LeasesHeld, NewSession, NewBridge, NoRotation
<1>2. TypeInv /\ SerializedInv /\ [Next]_vars => (TypeInv /\ SerializedInv)'
  BY NextType, NextSerialized
<1>3. TypeInv /\ SerializedInv => Serialized
  BY DEF SerializedInv, OnlyCore, LeasesHeld, Serialized, InTransaction
<1> QED
  BY <1>1, <1>2, <1>3, PTL DEF Spec
=============================================================================
