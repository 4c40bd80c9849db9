-------------------------- MODULE ExactlyOnceProofs --------------------------
(***************************************************************************)
(* ExactlyOnce, for an application with one session that takes its         *)
(* deliveries in order: for every log, any number of rotations, crashes    *)
(* and restarts, and every failure of a publish, a commit or an abort.     *)
(***************************************************************************)
EXTENDS TransactionalSessionsProofs

USE DEF vars, kafka, runtime, consumer

\* What the steps of session s and of the runtime may be in such an application.
OneSession(s) ==
    /\ s \in Sessions
    /\ \A t \in Sessions : t = s
    /\ "plain-ack" \notin Env
    /\ "out-of-order" \notin Env

\* The types a step is reasoned about with.
LEMMA TypeFacts ==
    ASSUME TypeInv, NEW s \in Sessions
    PROVE  /\ bridge \in [Generations -> Bridge] /\ session \in [Sessions -> Session]
           /\ session[s] \in Session /\ \A g \in Generations : bridge[g] \in Bridge
           /\ current \in Nat /\ generation \in Nat /\ holder \in Nat
           /\ session[s].bridge \in Nat /\ session[s].on \in Nat
           /\ phase = "open" => current \in Generations
           /\ current \in Generations => phase = "open"
           /\ current # 0 => current \in Generations
           /\ session[s].pc \in Calling => session[s].bridge \in Generations
           /\ session[s].on # 0 => session[s].on \in Generations
           /\ rotation.step # "none" => rotation.client \in Generations
           /\ rotation.client \in Nat
           /\ 0 \notin Generations
<1>1. TypeOK /\ RuntimeShape
  BY DEF TypeInv
<1>2. /\ bridge \in [Generations -> Bridge] /\ session \in [Sessions -> Session]
      /\ current \in 0 .. MaxGeneration /\ generation \in 0 .. MaxGeneration
      /\ holder \in 0 .. MaxGeneration /\ rotation.client \in 0 .. MaxGeneration
  BY <1>1 DEF TypeOK
<1>3. /\ session[s] \in Session /\ session[s].bridge \in 0 .. MaxGeneration
      /\ session[s].on \in 0 .. MaxGeneration
  BY <1>2 DEF Session
<1>4. 0 \notin Generations
  BY DEF Generations
<1> QED
  BY <1>1, <1>2, <1>3, <1>4, NumberFacts DEF RuntimeShape

-----------------------------------------------------------------------------
\* The calls a session can be in.
LEMMA NextSessionShape ==
    ASSUME NEW s, OneSession(s), TypeInv, SessionShape(s), [Next]_vars
    PROVE  SessionShape(s)'
<1>1. s \in Sessions /\ session \in [Sessions -> Session] /\ session[s] \in Session
  BY TypeFacts DEF OneSession
<1>2. CASE UNCHANGED session
  BY <1>2 DEF SessionShape
<1>3. CASE session' = [t \in Sessions |-> NewSession]
  BY <1>1, <1>3 DEF SessionShape, NewSession
<1>4. CASE RuntimeStep
  BY <1>2, <1>3, <1>4
  DEF RuntimeStep, Open, Close, Crash, RotateOpen, RotateFails, RotateSwap, RotateClose
<1>5. CASE \E t \in BOOLEAN : OpenSession(s, t)
  BY <1>1, <1>5 DEF OpenSession, Session, SessionShape
<1>6. CASE CloseSession(s)
  BY <1>1, <1>6 DEF CloseSession, Session, SessionShape
<1>7. CASE BeginCall(s)
  BY <1>1, <1>7 DEF BeginCall, MayCall, Session, SessionShape
<1>8. CASE LeaseAcquired(s)
  BY <1>1, <1>8 DEF LeaseAcquired, Session, SessionShape
<1>9. CASE BeginRaises(s)
  BY <1>1, <1>9 DEF BeginRaises, Session, SessionShape
<1>10. CASE Poll(s)
  BY <1>1, <1>10 DEF Poll, Session, SessionShape
<1>11. ASSUME NEW o, CorePublish(s, o) PROVE SessionShape(s)'
  BY <1>1, <1>11 DEF CorePublish, Session, SessionShape
<1>12. ASSUME NEW o, CoreAcknowledge(s, o) PROVE SessionShape(s)'
  BY <1>1, <1>12 DEF CoreAcknowledge, MayExecute, MayCall, Session, SessionShape
<1>13. CASE CoreCommit(s)
  BY <1>1, <1>13 DEF CoreCommit, MayCall, Session, SessionShape
<1>14. CASE CoreRollback(s)
  BY <1>1, <1>14 DEF CoreRollback, MayCall, Session, SessionShape
<1>15. CASE Recover(s)
  BY <1>1, <1>15 DEF Recover, Session, SessionShape
<1>16. ASSUME NEW o, OperationCall(s, o) PROVE SessionShape(s)'
  BY <1>1, <1>16 DEF OperationCall, MayExecute, MayCall, Session, SessionShape
<1>17. CASE OperationPublish(s)
  BY <1>1, <1>17 DEF OperationPublish, Session, SessionShape
<1>18. CASE OperationAcknowledge(s)
  BY <1>1, <1>18 DEF OperationAcknowledge, Session, SessionShape
<1>19. CASE OperationCommit(s)
  BY <1>1, <1>19 DEF OperationCommit, Session, SessionShape
<1>20. CASE OperationExcept(s)
  BY <1>1, <1>20 DEF OperationExcept, Session, SessionShape
<1>21. ASSUME NEW o, PlainAcknowledge(s, o) PROVE FALSE
  BY <1>21 DEF PlainAcknowledge, OneSession
<1>22. CASE SessionStep(s)
  BY <1>5, <1>6, <1>7, <1>8, <1>9, <1>10, <1>11, <1>12, <1>13, <1>14, <1>15, <1>16,
     <1>17, <1>18, <1>19, <1>20, <1>21, <1>22 DEF SessionStep
<1> QED
  BY <1>2, <1>4, <1>22 DEF Next, OneSession

-----------------------------------------------------------------------------
\* What _finish leaves behind, after the broker ended the transaction or not.
LEMMA FinishFields ==
    ASSUME NEW b \in Bridge
    PROVE  /\ \A c \in {Finish(b), Finish(Ended(b))} :
                /\ c.producer = b.producer /\ ~c.active /\ c.lease = NoSession
                /\ c.staged = 0 /\ c.member = 0
           /\ Finish(b).txn = b.txn
           /\ Finish(Ended(b)).txn = NoSession
<1>1. \A c \in Bridge : /\ Finish(c).producer = c.producer /\ ~Finish(c).active
                        /\ Finish(c).lease = NoSession /\ Finish(c).txn = c.txn
                        /\ Finish(c).staged = 0 /\ Finish(c).member = 0
  BY DEF Finish, Bridge
<1>2. Ended(b) \in Bridge /\ Ended(b).producer = b.producer /\ Ended(b).txn = NoSession
  BY BridgeTypes DEF Ended, Bridge
<1> QED
  BY <1>1, <1>2

\* At most one producer is ready, and a transaction that can commit is on it.
LEMMA LiveFacts ==
    ASSUME NEW s, OneSession(s), TypeInv, SessionShape(s), BridgeShape(s),
           NEW g \in Generations, Live(g)
    PROVE  /\ session[s].on = g /\ g # 0 /\ g = generation
           /\ phase = "open" => g = current
           /\ session[s].pc \in Calling => session[s].bridge = g
           /\ session[s].pc \in {"idle", "recover"} => session[s].active
           /\ session[s].pc \notin {"begin", "op-begin"}
           /\ \A h \in Generations : Live(h) => h = g
  BY DEF BridgeShape, SessionShape, Live, Generations

\* A step that only moves the session, between calls of the same bridge.
LEMMA BridgeShapeMoves ==
    ASSUME NEW s, BridgeShape(s), UNCHANGED <<generation, phase, current>>,
           \A g \in Generations : /\ bridge'[g].producer = bridge[g].producer
                                  /\ bridge'[g].active = bridge[g].active
                                  /\ bridge'[g].lease = bridge[g].lease
                                  /\ bridge'[g].txn = bridge[g].txn,
           session'[s].pc \in Calling =>
              /\ session'[s].bridge \in Generations
              /\ \/ session'[s].bridge = session[s].bridge /\ session[s].pc \in Calling
                 \/ session'[s].bridge = current,
           session'[s].on = session[s].on,
           \A g \in Generations : Live(g) =>
              /\ session'[s].active \/ (session'[s].owns /\ session'[s].pc # "op-begin")
              /\ session'[s].pc \in Calling => session'[s].bridge = g,
           phase = "open" => holder' \in {0, holder, current},
           session'[s].pc \in Calling => holder' = holder
    PROVE  BridgeShape(s)'
<1>1. \A g \in Generations : Live(g)' = Live(g)
  BY DEF Live
<1> QED
  BY <1>1 DEF BridgeShape

\* A step that ends the transaction on generation h.
LEMMA BridgeShapeEnds ==
    ASSUME NEW s, OneSession(s), TypeInv, SessionShape(s), BridgeShape(s),
           NEW h \in Generations, UNCHANGED <<generation, phase, current>>,
           NEW b \in {Finish(bridge[h]), Finish(Ended(bridge[h]))},
           bridge' = [bridge EXCEPT ![h] = b],
           session'[s].on = session[s].on,
           session'[s].bridge = session[s].bridge,
           session'[s].pc \in Calling => session[s].pc \in Calling,
           \A g \in Generations \ {h} : ~Live(g),
           UNCHANGED holder
    PROVE  BridgeShape(s)'
<1>1. /\ bridge \in [Generations -> Bridge] /\ bridge[h] \in Bridge
      /\ session[s].pc \in Calling => session[s].bridge \in Generations
  BY TypeFacts DEF OneSession
<1>2. /\ bridge'[h].producer = bridge[h].producer /\ ~bridge'[h].active
      /\ bridge'[h].lease = NoSession
      /\ \A g \in Generations \ {h} : bridge'[g] = bridge[g]
  BY <1>1, FinishFields
<1>3. \A g \in Generations : ~Live(g)'
  BY <1>2 DEF Live
<1>4. \A g \in Generations : /\ bridge'[g].producer = bridge[g].producer
                             /\ (bridge'[g].active <=> bridge'[g].lease # NoSession)
  BY <1>2 DEF BridgeShape
<1> QED
  BY <1>1, <1>3, <1>4 DEF BridgeShape

\* The bridges and the call in progress: preserved by the runtime.
LEMMA RuntimeBridgeShape ==
    ASSUME NEW s, OneSession(s), TypeInv, SessionShape(s), BridgeShape(s), RuntimeStep
    PROVE  BridgeShape(s)'
<1>0. s \in Sessions /\ RuntimeShape
  BY DEF OneSession, TypeInv
<1>1. /\ bridge \in [Generations -> Bridge] /\ \A g \in Generations : bridge[g] \in Bridge
      /\ generation \in Nat /\ current \in Nat /\ session[s].bridge \in Nat
      /\ session[s].pc \in Calling => session[s].bridge \in Generations
      /\ phase = "open" => current \in Generations
      /\ rotation.step # "none" => rotation.client \in Generations
      /\ 0 \notin Generations
  BY <1>0, TypeFacts
<1>2. ASSUME NEW g, g = generation + 1, bridge' = Initialized(g), UNCHANGED session,
             generation' = g, UNCHANGED holder,
             session[s].pc \in Calling => phase' = phase /\ current' = current
      PROVE  BridgeShape(s)'
  <2>1. /\ \A h \in Generations : bridge'[h].producer = "ready" => h = g
        /\ \A h \in Generations : ~Live(h)'
        /\ \A h \in Generations : (bridge'[h].active <=> bridge'[h].lease # NoSession)
    BY <1>1, <1>2 DEF Initialized, NewBridge, Ended, Bridge, Live, BridgeShape
  <2>2. session[s].pc \in Calling => session[s].bridge <= generation
    BY <1>0 DEF RuntimeShape
  <2>3. session[s].pc \in Calling => bridge'[session[s].bridge].producer # "ready"
    BY <1>1, <1>2, <2>1, <2>2
  <2> QED
    BY <1>2, <2>1, <2>3 DEF BridgeShape
<1>3. CASE Open
  <2>1. session[s].pc \notin Calling
    BY <1>0, <1>3 DEF Open, RuntimeShape, NewSession, Calling
  <2> QED
    BY <1>2, <1>3, <2>1 DEF Open
<1>4. CASE RotateOpen
  BY <1>2, <1>4 DEF RotateOpen
<1>5. ASSUME NEW h \in Generations, NEW b \in AbortOf(bridge[h]),
             bridge' = [bridge EXCEPT ![h] = b], UNCHANGED <<session, generation>>,
             phase' # "open" \/ (UNCHANGED <<phase, current>> /\ holder' \in {0, holder})
      PROVE  BridgeShape(s)'
  <2>1. /\ \A g \in Generations \ {h} : bridge'[g] = bridge[g]
        /\ bridge'[h] = b
    BY <1>1, <1>5
  <2>2. /\ b.producer = bridge[h].producer
        /\ (b.active <=> b.lease # NoSession)
        /\ b.active => b = bridge[h]
    <3>1. bridge[h] \in Bridge
          /\ b \in {Finish(bridge[h]), Finish(Ended(bridge[h])), bridge[h]}
      BY <1>1, <1>5 DEF AbortOf, Aborts
    <3>2. bridge[h].active <=> bridge[h].lease # NoSession
      BY DEF BridgeShape
    <3> QED
      BY <3>1, <3>2, FinishFields
  <2>3. \A g \in Generations : Live(g)' => Live(g) /\ bridge'[g] = bridge[g]
    BY <2>1, <2>2 DEF Live
  <2>4. \A g \in Generations : /\ bridge'[g].producer = bridge[g].producer
                               /\ (bridge'[g].active <=> bridge'[g].lease # NoSession)
    BY <2>1, <2>2 DEF BridgeShape
  <2> QED
    <3>1. \A g \in Generations :
            /\ bridge'[g].producer = "ready" => g = generation'
            /\ bridge'[g].active <=> bridge'[g].lease # NoSession
            /\ Live(g)' =>
                /\ bridge'[g].txn # NoSession
                /\ phase' = "open" => g = current'
                /\ session'[s].on = g
                /\ session'[s].active \/ (session'[s].owns /\ session'[s].pc # "op-begin")
                /\ session'[s].pc \in Calling => session'[s].bridge = g
      BY <1>5, <2>3, <2>4 DEF BridgeShape
    <3>2. session'[s].pc \in Calling /\ phase' = "open" =>
            /\ bridge'[session'[s].bridge].producer = "ready"
                    => session'[s].bridge = current'
            /\ session'[s].bridge # current' => holder' # current'
      BY <1>1, <1>5, <2>4 DEF BridgeShape
    <3> QED
      BY <3>1, <3>2 DEF BridgeShape
<1>6. CASE Close
  BY <1>1, <1>5, <1>6 DEF Close
<1>7. CASE RotateClose
  <2>1. holder' \in {0, holder}
    BY <1>7, DiscardType DEF RotateClose, TypeInv
  <2> QED
    BY <1>1, <1>5, <1>7, <2>1 DEF RotateClose
<1>8. CASE RotateFails
  BY <1>8 DEF RotateFails, BridgeShape, Live
<1>9. CASE RotateSwap
  <2>1. /\ rotation.client = generation /\ rotation.client # current
        /\ rotation.client # holder
        /\ session[s].pc \in Calling => session[s].bridge # rotation.client
    BY <1>0, <1>9 DEF RotateSwap, RuntimeShape
  <2>2. \A g \in Generations : ~Live(g)
    BY <1>1, <1>9, <2>1 DEF RotateSwap, BridgeShape, Live
  <2>3. \A g \in Generations : ~Live(g)'
    BY <1>9, <2>2 DEF RotateSwap, Live
  <2>4. session[s].pc \in Calling => bridge[session[s].bridge].producer # "ready"
    BY <1>1, <2>1 DEF BridgeShape
  <2> QED
    BY <1>9, <2>1, <2>3, <2>4 DEF RotateSwap, BridgeShape
<1>10. CASE Crash
  <2>1. /\ session'[s].pc = "idle"
        /\ \A g \in Generations : /\ bridge'[g].producer = "none"
                                  /\ ~bridge'[g].active
                                  /\ bridge'[g].lease = NoSession
    BY <1>0, <1>10 DEF Crash, NewSession, NewBridge
  <2>2. \A g \in Generations : ~Live(g)'
    BY <2>1 DEF Live
  <2> QED
    BY <2>1, <2>2 DEF BridgeShape, Calling
<1> QED
  BY <1>3, <1>4, <1>6, <1>7, <1>8, <1>9, <1>10 DEF RuntimeStep

\* The bridges and the call in progress: preserved by the session.
LEMMA SessionBridgeShape ==
    ASSUME NEW s, OneSession(s), TypeInv, SessionShape(s), BridgeShape(s), SessionStep(s)
    PROVE  BridgeShape(s)'
<1>0. s \in Sessions /\ RuntimeShape
  BY DEF OneSession, TypeInv
<1>1. /\ bridge \in [Generations -> Bridge] /\ \A g \in Generations : bridge[g] \in Bridge
      /\ session \in [Sessions -> Session] /\ session[s] \in Session
      /\ session[s].pc \in Calling => session[s].bridge \in Generations
      /\ phase = "open" => current \in Generations
  BY <1>0, TypeFacts
<1>2. \A g \in Generations : Live(g) =>
          /\ session[s].on = g
          /\ phase = "open" => g = current
          /\ session[s].pc \in Calling => session[s].bridge = g
          /\ session[s].pc \in {"idle", "recover"} => session[s].active
          /\ session[s].pc \notin {"begin", "op-begin"}
          /\ session[s].active \/ (session[s].owns /\ session[s].pc # "op-begin")
  <2> SUFFICES ASSUME NEW g \in Generations, Live(g)
               PROVE  /\ session[s].on = g
                      /\ phase = "open" => g = current
                      /\ session[s].pc \in Calling => session[s].bridge = g
                      /\ session[s].pc \in {"idle", "recover"} => session[s].active
                      /\ session[s].pc \notin {"begin", "op-begin"}
                      /\ session[s].active \/ (session[s].owns /\ session[s].pc # "op-begin")
    OBVIOUS
  <2> QED
    BY LiveFacts DEF BridgeShape
<1>3. CASE \E t \in BOOLEAN : OpenSession(s, t)
  <2>1. /\ UNCHANGED <<generation, phase, current, bridge, holder>>
        /\ session'[s].on = session[s].on /\ session'[s].pc = session[s].pc
        /\ session'[s].bridge = session[s].bridge
        /\ session'[s].active = session[s].active /\ session'[s].owns = session[s].owns
    BY <1>0, <1>1, <1>3 DEF OpenSession, Session
  <2> QED
    BY <1>1, <1>2, <2>1, BridgeShapeMoves
<1>4. CASE CloseSession(s)
  <2>1. /\ UNCHANGED <<generation, phase, current, bridge, holder>>
        /\ session'[s].on = session[s].on /\ session'[s].pc = session[s].pc
        /\ session'[s].bridge = session[s].bridge
        /\ session'[s].active = session[s].active /\ session'[s].owns = session[s].owns
    BY <1>0, <1>1, <1>4 DEF CloseSession, Session
  <2> QED
    BY <1>1, <1>2, <2>1, BridgeShapeMoves
<1>5. CASE BeginCall(s)
  <2>1. /\ UNCHANGED <<generation, phase, current, bridge, holder>>
        /\ session'[s].on = session[s].on /\ session'[s].bridge = current
        /\ phase = "open" /\ session[s].pc = "idle" /\ ~session[s].active
    BY <1>0, <1>1, <1>5 DEF BeginCall, MayCall, Session
  <2> QED
    BY <1>1, <1>2, <2>1, BridgeShapeMoves
<1>6. CASE LeaseAcquired(s)
  <2> DEFINE g == session[s].bridge
  <2>1. /\ UNCHANGED <<generation, phase, current, holder>>
        /\ bridge[g].producer = "ready" /\ g \in Generations
        /\ bridge' = [bridge EXCEPT ![g] = Began(@, s)]
        /\ session[s].pc \in {"begin", "op-begin"} /\ session[s].pc \in Calling
    BY <1>1, <1>6 DEF LeaseAcquired, CanBegin, Calling
  <2>2. /\ session'[s].on = g /\ session'[s].bridge = g
        /\ session'[s].active \/ (session'[s].owns /\ session'[s].pc # "op-begin")
    BY <1>0, <1>1, <1>6 DEF LeaseAcquired, Session, SessionShape
  <2>3. /\ bridge'[g].producer = "ready" /\ bridge'[g].active /\ bridge'[g].lease = s
        /\ bridge'[g].txn = s
        /\ \A h \in Generations \ {g} : bridge'[h] = bridge[h]
    BY <1>1, <2>1 DEF Began, Bridge
  <2>4. s # NoSession
    BY <1>0, SessionAssumption
  <2>5. g = generation /\ (phase = "open" => g = current)
    BY <2>1 DEF BridgeShape
  <2>6. \A h \in Generations : Live(h)' => h = g
    BY <1>2, <2>1, <2>3 DEF Live
  <2> HIDE DEF g
  <2>7. \A h \in Generations :
            /\ bridge'[h].producer = "ready" => h = generation'
            /\ bridge'[h].active <=> bridge'[h].lease # NoSession
    BY <2>1, <2>3, <2>4, <2>5 DEF BridgeShape
  <2>8. \A h \in Generations : Live(h)' =>
            /\ bridge'[h].txn # NoSession
            /\ phase' = "open" => h = current'
            /\ session'[s].on = h
            /\ session'[s].active \/ (session'[s].owns /\ session'[s].pc # "op-begin")
            /\ session'[s].pc \in Calling => session'[s].bridge = h
    BY <2>1, <2>2, <2>3, <2>4, <2>5, <2>6
  <2>9. phase' = "open" => session'[s].bridge = current'
    BY <2>1, <2>2, <2>5
  <2> QED
    BY <2>7, <2>8, <2>9 DEF BridgeShape
<1>7. CASE BeginRaises(s)
  <2>1. /\ UNCHANGED <<generation, phase, current, bridge, holder>>
        /\ session'[s].on = session[s].on /\ session'[s].pc = "idle"
        /\ session[s].pc \in {"begin", "op-begin"}
    BY <1>0, <1>1, <1>7 DEF BeginRaises, Session
  <2>2. session'[s].pc \notin Calling /\ \A g \in Generations : ~Live(g)
    BY <1>2, <2>1 DEF Calling
  <2> QED
    BY <1>1, <2>1, <2>2, BridgeShapeMoves
<1>8. CASE Poll(s)
  <2>1. /\ UNCHANGED <<generation, phase, current, bridge>> /\ holder' = current
        /\ session'[s].on = session[s].on /\ session'[s].pc = "idle"
        /\ session[s].pc = "idle"
        /\ session'[s].active = session[s].active
    BY <1>0, <1>1, <1>8 DEF Poll, MayExecute, MayCall, Session
  <2>2. session'[s].pc \notin Calling
    BY <2>1 DEF Calling
  <2> QED
    BY <1>1, <1>2, <2>1, <2>2, BridgeShapeMoves
<1>9. ASSUME NEW o, CorePublish(s, o) PROVE BridgeShape(s)'
  <2>1. /\ UNCHANGED <<generation, phase, current, holder>>
        /\ session'[s].on = session[s].on /\ session'[s].pc = "idle"
        /\ session'[s].active
    BY <1>0, <1>1, <1>9 DEF CorePublish, MayExecute, MayCall, Session
  <2>2. \A g \in Generations : /\ bridge'[g].producer = bridge[g].producer
                               /\ bridge'[g].active = bridge[g].active
                               /\ bridge'[g].lease = bridge[g].lease
                               /\ bridge'[g].txn = bridge[g].txn
    BY <1>1, <1>9 DEF CorePublish, Bridge
  <2>3. session'[s].pc \notin Calling
    BY <2>1 DEF Calling
  <2> QED
    BY <1>1, <2>1, <2>2, <2>3, BridgeShapeMoves
<1>10. ASSUME NEW g, NEW o, Acknowledge(g, o) \/ (AcknowledgeRaises(g, o) /\ UNCHANGED bridge)
       PROVE  /\ UNCHANGED holder
              /\ \A h \in Generations : /\ bridge'[h].producer = bridge[h].producer
                                        /\ bridge'[h].active = bridge[h].active
                                        /\ bridge'[h].lease = bridge[h].lease
                                        /\ bridge'[h].txn = bridge[h].txn
  <2>1. UNCHANGED bridge \/ \E safe \in Positions : Stage(g, safe)
    BY <1>10 DEF Acknowledge
  <2>2. ASSUME NEW safe \in Positions, Stage(g, safe), NEW h \in Generations
        PROVE  /\ bridge'[h].producer = bridge[h].producer
               /\ bridge'[h].active = bridge[h].active
               /\ bridge'[h].lease = bridge[h].lease
               /\ bridge'[h].txn = bridge[h].txn
    BY <1>1, <2>2 DEF Stage, Bridge
  <2>3. UNCHANGED holder
    BY <1>10 DEF Acknowledge, AcknowledgeRaises
  <2> QED
    BY <2>1, <2>2, <2>3
<1>11. ASSUME NEW o, CoreAcknowledge(s, o) PROVE BridgeShape(s)'
  <2>1. /\ UNCHANGED <<generation, phase, current>>
        /\ session'[s].on = session[s].on /\ session'[s].pc = "idle"
        /\ session'[s].active
    BY <1>0, <1>1, <1>11 DEF CoreAcknowledge, MayExecute, MayCall, Session
  <2>2. Acknowledge(current, o) \/ (AcknowledgeRaises(current, o) /\ UNCHANGED bridge)
    BY <1>11 DEF CoreAcknowledge
  <2>3. session'[s].pc \notin Calling
    BY <2>1 DEF Calling
  <2> QED
    BY <1>1, <1>10, <2>1, <2>2, <2>3, BridgeShapeMoves
<1>12. CASE CoreCommit(s) \/ CoreRollback(s)
  <2>1. /\ UNCHANGED <<generation, phase, current, holder>>
        /\ phase = "open" /\ current \in Generations
        /\ session[s].pc = "idle" /\ session[s].active
    BY <1>1, <1>12 DEF CoreCommit, CoreRollback, MayCall
  <2>2. /\ session'[s].on = session[s].on /\ session'[s].pc \in {"idle", "recover"}
        /\ session'[s].bridge = session[s].bridge
    <3>1. CASE CoreCommit(s)
      BY <1>0, <1>1, <3>1 DEF CoreCommit, MayCall, Session
    <3>2. CASE CoreRollback(s)
      BY <1>0, <1>1, <3>2 DEF CoreRollback, MayCall, Session
    <3> QED
      BY <1>12, <3>1, <3>2
  <2>3. session'[s].pc \notin Calling
    BY <2>2 DEF Calling
  <2>4. \/ ~bridge[current].active /\ UNCHANGED bridge
        \/ \E b \in {Finish(bridge[current]), Finish(Ended(bridge[current]))} :
                bridge' = [bridge EXCEPT ![current] = b]
    <3>1. CASE CoreCommit(s)
      BY <3>1 DEF CoreCommit, CommitSucceeds, CommitRaises, Aborts
    <3>2. CASE CoreRollback(s)
      <4>1. PICK b \in AbortOf(bridge[current]) : bridge' = [bridge EXCEPT ![current] = b]
        BY <3>2 DEF CoreRollback
      <4>2. CASE ~bridge[current].active
        BY <1>1, <2>1, <4>1, <4>2 DEF AbortOf
      <4>3. CASE bridge[current].active
        BY <4>1, <4>3 DEF AbortOf, Aborts
      <4> QED
        BY <4>2, <4>3
    <3> QED
      BY <1>12, <3>1, <3>2
  <2>5. \A g \in Generations \ {current} : ~Live(g)
    BY <1>2, <2>1
  <2>6. CASE ~bridge[current].active /\ UNCHANGED bridge
    BY <1>1, <2>1, <2>2, <2>3, <2>5, <2>6, BridgeShapeMoves DEF Live
  <2>7. ASSUME NEW b \in {Finish(bridge[current]), Finish(Ended(bridge[current]))},
               bridge' = [bridge EXCEPT ![current] = b]
        PROVE  BridgeShape(s)'
    BY <2>1, <2>2, <2>3, <2>5, <2>7, BridgeShapeEnds
  <2> QED
    BY <2>4, <2>6, <2>7
<1>13. CASE Recover(s)
  <2>1. /\ UNCHANGED <<generation, phase, current, bridge>>
        /\ session'[s].on = session[s].on /\ session'[s].pc = "idle"
        /\ session[s].pc = "recover" /\ session'[s].active = session[s].active
        /\ holder' \in {0, holder}
    BY <1>0, <1>1, <1>13 DEF Recover, Session, DiscardOf, Discard
  <2>2. session'[s].pc \notin Calling
    BY <2>1 DEF Calling
  <2> QED
    BY <1>1, <1>2, <2>1, <2>2, BridgeShapeMoves
<1>14. ASSUME NEW o, OperationCall(s, o) PROVE BridgeShape(s)'
  <2>1. /\ UNCHANGED <<generation, phase, current, bridge, holder>>
        /\ phase = "open" /\ session[s].pc = "idle"
    BY <1>14 DEF OperationCall, MayExecute, MayCall
  <2>2. /\ session'[s].on = session[s].on /\ session'[s].bridge = current
        /\ session'[s].active = session[s].active
    BY <1>0, <1>1, <1>14 DEF OperationCall, Session
  <2> QED
    BY <1>1, <1>2, <2>1, <2>2, BridgeShapeMoves
<1>15. CASE OperationPublish(s)
  <2>1. /\ UNCHANGED <<generation, phase, current, holder>>
        /\ session[s].pc = "op-publish" /\ session[s].pc \in Calling
    BY <1>15 DEF OperationPublish, Calling
  <2>2. /\ session'[s].on = session[s].on /\ session'[s].bridge = session[s].bridge
        /\ session'[s].active = session[s].active /\ session'[s].owns = session[s].owns
        /\ session'[s].pc \in {"op-ack", "op-except"}
    BY <1>0, <1>1, <1>15 DEF OperationPublish, Session
  <2>3. \A g \in Generations : /\ bridge'[g].producer = bridge[g].producer
                               /\ bridge'[g].active = bridge[g].active
                               /\ bridge'[g].lease = bridge[g].lease
                               /\ bridge'[g].txn = bridge[g].txn
    BY <1>1, <1>15 DEF OperationPublish, Bridge
  <2> QED
    BY <1>1, <1>2, <2>1, <2>2, <2>3, BridgeShapeMoves
<1>16. CASE OperationAcknowledge(s)
  <2>1. /\ UNCHANGED <<generation, phase, current>>
        /\ session[s].pc = "op-ack" /\ session[s].pc \in Calling
    BY <1>16 DEF OperationAcknowledge, Calling
  <2>2. /\ session'[s].on = session[s].on /\ session'[s].bridge = session[s].bridge
        /\ session'[s].active = session[s].active /\ session'[s].owns = session[s].owns
        /\ session'[s].pc # "op-begin"
    BY <1>0, <1>1, <1>16 DEF OperationAcknowledge, Session
  <2>3. \/ Acknowledge(session[s].bridge, session[s].delivery)
        \/ AcknowledgeRaises(session[s].bridge, session[s].delivery) /\ UNCHANGED bridge
    BY <1>16 DEF OperationAcknowledge
  <2> QED
    BY <1>1, <1>2, <1>10, <2>1, <2>2, <2>3, BridgeShapeMoves
<1>17. CASE OperationCommit(s)
  <2> DEFINE g == session[s].bridge
  <2>1. /\ UNCHANGED <<generation, phase, current, holder>>
        /\ session[s].pc = "op-commit" /\ session[s].pc \in Calling /\ g \in Generations
    BY <1>1, <1>17 DEF OperationCommit, Calling
  <2>2. /\ session'[s].on = session[s].on /\ session'[s].bridge = session[s].bridge
    BY <1>0, <1>1, <1>17 DEF OperationCommit, Session
  <2>3. \/ ~bridge[g].active /\ UNCHANGED bridge /\ CommitRaises(g)
        \/ \E b \in {Finish(bridge[g]), Finish(Ended(bridge[g]))} :
                bridge' = [bridge EXCEPT ![g] = b]
    BY <1>17 DEF OperationCommit, CommitSucceeds, CommitRaises, Aborts, CanCommit
  <2>4. \A h \in Generations \ {g} : ~Live(h)
    BY <1>2, <2>1
  <2>5. CASE ~bridge[g].active /\ UNCHANGED bridge /\ CommitRaises(g)
    <3>1. \A h \in Generations : ~Live(h)
      BY <2>4, <2>5 DEF Live
    <3> QED
      BY <1>1, <2>1, <2>2, <2>5, <3>1, BridgeShapeMoves
  <2>6. ASSUME NEW b \in {Finish(bridge[g]), Finish(Ended(bridge[g]))},
               bridge' = [bridge EXCEPT ![g] = b]
        PROVE  BridgeShape(s)'
    BY <2>1, <2>2, <2>4, <2>6, BridgeShapeEnds
  <2> QED
    BY <2>3, <2>5, <2>6
<1>18. CASE OperationExcept(s)
  <2> DEFINE g == session[s].bridge
  <2>1. /\ UNCHANGED <<generation, phase, current, holder>>
        /\ session[s].pc = "op-except" /\ session[s].pc \in Calling /\ g \in Generations
    BY <1>1, <1>18 DEF OperationExcept, Calling
  <2>2. /\ session'[s].on = session[s].on /\ session'[s].bridge = session[s].bridge
        /\ session'[s].active = session[s].active
        /\ session'[s].pc \in {"recover", "idle"}
    BY <1>0, <1>1, <1>18 DEF OperationExcept, Session
  <2>3. \/ (~session[s].owns \/ ~bridge[g].active) /\ UNCHANGED bridge
        \/ \E b \in {Finish(bridge[g]), Finish(Ended(bridge[g]))} :
                bridge' = [bridge EXCEPT ![g] = b]
    BY <1>18 DEF OperationExcept
  <2>4. \A h \in Generations \ {g} : ~Live(h)
    BY <1>2, <2>1
  <2>5. session'[s].pc \notin Calling
    BY <2>2 DEF Calling
  <2>6. CASE (~session[s].owns \/ ~bridge[g].active) /\ UNCHANGED bridge
    <3>1. \A h \in Generations : Live(h) => session[s].active
      BY <1>2, <2>4, <2>6 DEF Live
    <3> QED
      BY <1>1, <2>1, <2>2, <2>5, <2>6, <3>1, BridgeShapeMoves
  <2>7. ASSUME NEW b \in {Finish(bridge[g]), Finish(Ended(bridge[g]))},
               bridge' = [bridge EXCEPT ![g] = b]
        PROVE  BridgeShape(s)'
    BY <2>1, <2>2, <2>4, <2>5, <2>7, BridgeShapeEnds
  <2> QED
    BY <2>3, <2>6, <2>7
<1>19. ASSUME NEW o, PlainAcknowledge(s, o) PROVE FALSE
  BY <1>19 DEF PlainAcknowledge, OneSession
<1> QED
  BY <1>3, <1>4, <1>5, <1>6, <1>7, <1>8, <1>9, <1>11, <1>12, <1>13, <1>14, <1>15,
     <1>16, <1>17, <1>18, <1>19 DEF SessionStep

-----------------------------------------------------------------------------
(* Transaction, consumer and deliveries.                                   *)

DataShape(s) ==
    /\ TransactionShape(s)
    /\ ConsumerShape(s)
    /\ DeliveryShape(s)
    /\ ExactlyOnce

Base(s) ==
    /\ OneSession(s)
    /\ TypeInv
    /\ SessionShape(s)
    /\ BridgeShape(s)
    /\ DataShape(s)

\* The types of the data.
LEMMA DataTypes ==
    ASSUME NEW s, Base(s)
    PROVE  /\ s \in Sessions /\ committed \in Nat /\ committed \in Positions
           /\ position \in Nat /\ position \in Positions
           /\ safe_next \in Nat /\ safe_next \in Positions
           /\ inflight \subseteq Offsets /\ acknowledged \subseteq Offsets
           /\ visible \subseteq Offsets
           /\ session[s].deliveries \subseteq Offsets /\ session[s].sent \subseteq Offsets
           /\ session[s].pc \in Calling \ {"begin"} => session[s].delivery \in Offsets
           /\ \A g \in Generations : /\ bridge[g].staged \in Positions
                                     /\ bridge[g].staged \in Nat
                                     /\ bridge[g].outputs \subseteq Offsets
           /\ Offsets \subseteq Nat
<1>1. s \in Sessions /\ TypeOK /\ RuntimeShape
  BY DEF Base, OneSession, TypeInv
<1>2. session[s] \in Session /\ \A g \in Generations : bridge[g] \in Bridge
  BY <1>1 DEF TypeOK
<1>3. /\ session[s].deliveries \subseteq Offsets /\ session[s].sent \subseteq Offsets
      /\ \A g \in Generations : /\ bridge[g].staged \in Positions
                                /\ bridge[g].outputs \subseteq Offsets
  BY <1>2 DEF Session, Bridge
<1>4. session[s].pc \in Calling \ {"begin"} => session[s].delivery \in Offsets
  BY <1>1 DEF RuntimeShape
<1> QED
  BY <1>1, <1>3, <1>4, NumberFacts DEF TypeOK

\* The delivery a session takes is its least one: a non-empty set of offsets has a
\* least element.
LEMMA LeastDelivery ==
    ASSUME NEW s, Base(s), NEW o, Takes(s, o)
    PROVE  /\ o \in Offsets /\ o \in session[s].deliveries
           /\ \A d \in session[s].deliveries : o <= d
<1> DEFINE D == session[s].deliveries
<1>1. D \subseteq Nat /\ D \subseteq Offsets
  BY DataTypes
<1>2. o \in D /\ o = Min(D)
  BY DEF Takes, Base, OneSession
<1> HIDE DEF D
<1>3. PICK m \in D : \A d \in D : <<d, m>> \notin OpToRel(<, Nat)
  BY <1>1, <1>2, NatLessThanWellFounded, WFMin
<1>4. \A d, n \in Nat : d < n => <<d, n>> \in OpToRel(<, Nat)
  BY Zenon DEF OpToRel
<1>5. \A d \in D : d \in Nat
  BY <1>1
<1>6. \A d \in D : ~(d < m)
  BY <1>3, <1>4, <1>5, Zenon
<1>7. \A d \in D : m <= d
  BY <1>5, <1>6
<1>8. \A d \in D : Min(D) <= d
  BY <1>7 DEF Min
<1> QED
  BY <1>1, <1>2, <1>8 DEF D

\* With nothing acknowledged ahead, the run after the safe offset is that offset.
LEMMA OneRun ==
    ASSUME NEW o \in Nat, NEW safe \in Nat, acknowledged = {}, safe_next = o,
           SafeRun(o, safe), TakeRun(o, safe)
    PROVE  safe = o + 1 /\ acknowledged' = {}
<1>1. safe >= o /\ safe # o
  BY DEF SafeRun
<1>2. safe < o + 2
  <2>1. SUFFICES ASSUME safe >= o + 2 PROVE FALSE
    BY DEF SafeRun
  <2>2. o + 1 \in safe_next .. safe - 1
    BY <2>1
  <2>3. o + 1 \in {o}
    BY <2>2, Zenon DEF SafeRun
  <2> QED
    BY <2>3
<1>3. safe = o + 1
  BY <1>1, <1>2
<1>4. acknowledged' = {o} \ (o .. o)
  BY <1>3 DEF TakeRun
<1> QED
  BY <1>3, <1>4

\* A transaction that will be committed is on the runtime's bridge, while the runtime
\* is open; and the bridge is usable.
LEMMA CommittableFacts ==
    ASSUME NEW s, Base(s), session[s].on # 0, Live(session[s].on)
    PROVE  /\ session[s].on \in Generations
           /\ phase = "open" => session[s].on = current /\ Usable /\ bridge[current].active
           /\ session[s].pc \in Calling => session[s].bridge = session[s].on
<1>1. session[s].on \in Generations
  BY TypeFacts DEF Base, OneSession
<1> QED
  BY <1>1, LiveFacts DEF Base, Usable, Live

\* The runtime's bridge carries no transaction but the session's.
LEMMA CurrentFacts ==
    ASSUME NEW s, Base(s), phase = "open", Live(current)
    PROVE  session[s].on = current /\ session[s].on # 0
  BY LiveFacts, TypeFacts DEF Base, OneSession

\* A consumer that a step does not touch.
LEMMA ConsumerKept ==
    ASSUME NEW s, ConsumerShape(s), UNCHANGED <<committed, phase, current, consumer>>,
           phase = "open" /\ holder = current /\ Usable' /\ ~Suspended(s)' =>
              /\ Usable /\ ~Suspended(s)
              /\ Expected(s)' = Expected(s)
              /\ session[s].deliveries \cup Taken(s)
                    \subseteq session'[s].deliveries \cup Taken(s)'
    PROVE  ConsumerShape(s)'
  BY DEF ConsumerShape

\* A consumer that is to be discarded, or that no transaction can use.
LEMMA ConsumerDropped ==
    ASSUME NEW s, ConsumerShape(s),
           UNCHANGED <<committed, phase, current, holder, position>>,
           holder = 0 => UNCHANGED <<inflight, acknowledged>>,
           phase = "open" /\ holder = current => ~Usable' \/ Suspended(s)'
    PROVE  ConsumerShape(s)'
  BY DEF ConsumerShape

\* Deliveries, when Kafka does not change.
LEMMA DeliveriesKept ==
    ASSUME NEW s, DeliveryShape(s), UNCHANGED committed,
           session'[s].deliveries \subseteq session[s].deliveries,
           Taken(s)' \subseteq Taken(s)
    PROVE  DeliveryShape(s)'
  BY DEF DeliveryShape

\* Rotations, restarts and close keep them.
LEMMA RuntimeData ==
    ASSUME NEW s, Base(s), RuntimeStep
    PROVE  DataShape(s)'
<1>0. /\ s \in Sessions /\ RuntimeShape /\ DataShape(s) /\ TypeInv
      /\ TransactionShape(s) /\ ConsumerShape(s) /\ DeliveryShape(s) /\ ExactlyOnce
  BY DEF Base, OneSession, TypeInv, DataShape
<1>1. /\ bridge \in [Generations -> Bridge] /\ \A g \in Generations : bridge[g] \in Bridge
      /\ generation \in Nat /\ current \in Nat /\ holder \in Nat
      /\ phase = "open" => current \in Generations
      /\ rotation.step # "none" => rotation.client \in Generations
      /\ session[s].on # 0 => session[s].on \in Generations
      /\ 0 \notin Generations
  BY <1>0, TypeFacts
<1>2. ExactlyOnce'
  BY <1>0 DEF RuntimeStep, Open, Close, Crash, RotateOpen, RotateFails, RotateSwap,
              RotateClose, ExactlyOnce
<1>3. CASE Crash
  <2>1. session'[s] = NewSession /\ holder' = 0 /\ inflight' = {} /\ acknowledged' = {}
        /\ phase' # "open"
    BY <1>0, <1>3 DEF Crash, Discard
  <2>2. TransactionShape(s)' /\ DeliveryShape(s)'
    BY <2>1 DEF TransactionShape, DeliveryShape, Committable, NewSession, Taken
  <2>3. ConsumerShape(s)'
    BY <2>1 DEF ConsumerShape
  <2> QED
    BY <1>2, <2>2, <2>3 DEF DataShape
<1>4. ASSUME UNCHANGED <<session, committed>> PROVE DeliveryShape(s)'
  BY <1>0, <1>4 DEF DeliveryShape, Taken
<1>5. CASE Open \/ RotateOpen
  <2>1. /\ UNCHANGED <<kafka, session, consumer>> /\ bridge' = Initialized(generation + 1)
    BY <1>5 DEF Open, RotateOpen
  <2>2. \A g \in Generations : ~Live(g)' /\ (g # generation + 1 => bridge'[g].producer # "ready")
    BY <1>1, <2>1 DEF Initialized, NewBridge, Ended, Bridge, Live
  <2>3. TransactionShape(s)'
    BY <1>1, <2>1, <2>2 DEF TransactionShape, Committable
  <2>4. ConsumerShape(s)'
    <3>1. CASE Open
      <4>1. current' = generation + 1 /\ holder' = holder /\ holder <= generation
        BY <1>0, <3>1 DEF Open, RuntimeShape
      <4>2. holder' # current'
        BY <1>1, <4>1
      <4> QED
        BY <1>0, <2>1, <4>2 DEF ConsumerShape
    <3>2. CASE RotateOpen
      <4>1. UNCHANGED <<current, phase>> /\ phase = "open" /\ current <= generation
        BY <1>0, <3>2 DEF RotateOpen, RuntimeShape
      <4>2. ~Usable'
        BY <1>1, <2>2, <4>1 DEF Usable
      <4> QED
        BY <1>0, <2>1, <4>1, <4>2, ConsumerDropped
    <3> QED
      BY <1>5, <3>1, <3>2
  <2> QED
    BY <1>2, <1>4, <2>1, <2>3, <2>4 DEF DataShape
<1>6. CASE RotateFails
  <2>1. UNCHANGED <<kafka, phase, current, bridge, session, consumer>>
    BY <1>6 DEF RotateFails
  <2>2. TransactionShape(s)'
    BY <1>0, <2>1 DEF TransactionShape, Committable, Live, Failed, Staged, Taken, Unsettled
  <2>3. ConsumerShape(s)'
    BY <1>0, <2>1 DEF ConsumerShape, Usable, Suspended, Failed, Expected, Staged, Taken
  <2> QED
    BY <1>2, <1>4, <2>1, <2>2, <2>3 DEF DataShape
<1>7. CASE RotateSwap
  <2>1. /\ UNCHANGED <<kafka, phase, bridge, session, consumer>>
        /\ current' = rotation.client /\ phase = "open"
        /\ rotation.client = generation
        /\ rotation.client # current /\ rotation.client # holder
    BY <1>0, <1>7 DEF RotateSwap, RuntimeShape
  <2>2. ~Committable(s)'
    <3>1. SUFFICES ASSUME session[s].on # 0, Live(session[s].on) PROVE FALSE
      BY <2>1 DEF Committable, Live
    <3>2. session[s].on = current /\ session[s].on \in Generations
      BY <2>1, <3>1, CommittableFacts
    <3>3. session[s].on = generation
      BY <3>1, <3>2 DEF Base, BridgeShape, Live
    <3> QED
      BY <2>1, <3>2, <3>3
  <2>3. TransactionShape(s)'
    BY <2>2 DEF TransactionShape
  <2>4. ConsumerShape(s)'
    BY <1>0, <2>1 DEF ConsumerShape
  <2> QED
    BY <1>2, <1>4, <2>1, <2>3, <2>4 DEF DataShape
<1>8. ASSUME NEW h \in Generations, NEW b \in AbortOf(bridge[h]),
             bridge' = [bridge EXCEPT ![h] = b], UNCHANGED <<kafka, session>>,
             DiscardOf(h),
             \/ phase' # "open"
             \/ UNCHANGED <<phase, current>> /\ (phase = "open" => h # current)
      PROVE  DataShape(s)'
  <2>1. /\ \A g \in Generations \ {h} : bridge'[g] = bridge[g]
        /\ bridge'[h] = b
    BY <1>1, <1>8
  <2>2. ~b.active
    <3>1. bridge[h] \in Bridge
          /\ b \in {Finish(bridge[h]), Finish(Ended(bridge[h])), bridge[h]}
          /\ (bridge[h].active => b # bridge[h] \/ ~b.active)
      BY <1>1, <1>8, FinishFields DEF AbortOf, Aborts
    <3> QED
      BY <3>1, FinishFields
  <2>3. TransactionShape(s)'
    <3>1. SUFFICES ASSUME Committable(s)' PROVE TransactionShape(s)'
      BY DEF TransactionShape
    <3>2. session[s].on \in Generations /\ session[s].on # h
      BY <1>1, <1>8, <2>1, <2>2, <3>1 DEF Committable, Live
    <3>3. Committable(s) /\ bridge'[session[s].on] = bridge[session[s].on]
      BY <1>8, <2>1, <3>1, <3>2 DEF Committable, Live, Failed
    <3>4. Staged(s)' = Staged(s) /\ Unsettled(s)' = Unsettled(s)
      BY <1>8, <3>3 DEF Staged, Unsettled, Taken
    <3>5. holder = session[s].on => holder' = holder
      BY <1>8, <3>2 DEF DiscardOf
    <3> QED
      BY <1>0, <1>8, <3>3, <3>4, <3>5 DEF TransactionShape
  <2>4. ConsumerShape(s)'
    <3>1. holder' = 0 => inflight' = {} /\ acknowledged' = {}
      BY <1>0, <1>8 DEF ConsumerShape, DiscardOf, Discard
    <3>2. CASE phase' # "open"
      BY <3>1, <3>2 DEF ConsumerShape
    <3>3. CASE phase = "open" /\ UNCHANGED <<phase, current>> /\ h # current
      <4>1. CASE holder = h
        <5>1. holder' = 0 /\ current' # 0
          BY <1>1, <1>8, <3>3, <4>1 DEF DiscardOf, Discard
        <5> QED
          BY <3>1, <5>1 DEF ConsumerShape
      <4>2. CASE holder # h
        <5>1. UNCHANGED <<consumer, committed>> /\ bridge'[current] = bridge[current]
          BY <1>1, <1>8, <2>1, <3>3, <4>2 DEF DiscardOf
        <5>2. Usable' = Usable /\ Suspended(s)' = Suspended(s) /\ Taken(s)' = Taken(s)
              /\ Failed(s)' = Failed(s)
          BY <1>8, <3>3, <5>1 DEF Usable, Suspended, Failed, Taken
        <5>3. Usable => Expected(s)' = Expected(s)
          <6>1. CASE bridge[current].active /\ Usable
            <7>1. session[s].on = current
              BY <3>3, <6>1, CurrentFacts DEF Usable, Live
            <7> QED
              BY <1>8, <3>3, <5>1, <5>2, <7>1 DEF Expected, Staged
          <6>2. CASE ~bridge[current].active
            BY <1>8, <3>3, <5>1, <5>2, <6>2 DEF Expected
          <6> QED
            BY <6>1, <6>2
        <5> QED
          BY <1>0, <1>8, <3>3, <5>1, <5>2, <5>3, ConsumerKept
      <4> QED
        BY <4>1, <4>2
    <3> QED
      BY <1>8, <3>2, <3>3
  <2> QED
    BY <1>2, <1>4, <1>8, <2>3, <2>4 DEF DataShape
<1>9. CASE Close
  BY <1>1, <1>8, <1>9 DEF Close
<1>10. CASE RotateClose
  <2>1. rotation.client # current
    BY <1>0, <1>10 DEF RotateClose, RuntimeShape
  <2> QED
    BY <1>1, <1>8, <1>10, <2>1 DEF RotateClose
<1> QED
  BY <1>3, <1>5, <1>6, <1>7, <1>9, <1>10 DEF RuntimeStep

\* The transaction, when the session does not use it.
LEMMA TransactionKept ==
    ASSUME NEW s, TransactionShape(s),
           UNCHANGED <<committed, bridge>>, UNCHANGED holder,
           session'[s].on = session[s].on,
           Committable(s)' =>
              /\ Committable(s)
              /\ Unsettled(s)' = Unsettled(s)
              /\ session'[s].active = session[s].active
              /\ session'[s].sent = session[s].sent
              /\ session[s].touched => session'[s].touched
              /\ session'[s].deliveries \subseteq session[s].deliveries
    PROVE  TransactionShape(s)'
<1>1. Staged(s)' = Staged(s)
  BY DEF Staged
<1> QED
  BY <1>1 DEF TransactionShape

\* Opening and closing the session, and the start of a call.
LEMMA QuietData ==
    ASSUME NEW s, Base(s),
           \/ \E t \in BOOLEAN : OpenSession(s, t)
           \/ CloseSession(s)
           \/ BeginCall(s)
    PROVE  DataShape(s)'
<1>0. /\ s \in Sessions /\ TypeInv
      /\ TransactionShape(s) /\ ConsumerShape(s) /\ DeliveryShape(s) /\ ExactlyOnce
  BY DEF Base, OneSession, DataShape
<1>1. session \in [Sessions -> Session] /\ session[s] \in Session
  BY <1>0, TypeFacts
<1>2. /\ UNCHANGED <<kafka, runtime, bridge, consumer>>
      /\ session'[s].pc = session[s].pc \/ (session[s].pc = "idle" /\ session'[s].pc = "begin")
      /\ session'[s].on = session[s].on /\ session'[s].owns = session[s].owns
      /\ session'[s].active = session[s].active
      /\ session'[s].sent = session[s].sent /\ session'[s].touched = session[s].touched
      /\ session'[s].failed = session[s].failed
      /\ session'[s].delivery = session[s].delivery
      /\ session'[s].deliveries = session[s].deliveries
  BY <1>0, <1>1 DEF OpenSession, CloseSession, BeginCall, MayCall, Session
<1>3. /\ Taken(s)' = Taken(s) /\ (Failed(s)' <=> Failed(s))
      /\ (Committable(s)' <=> Committable(s))
      /\ (Suspended(s)' <=> Suspended(s)) /\ (Usable' <=> Usable)
  BY <1>2 DEF Taken, Failed, Committable, Live, Suspended, Usable
<1>4. Unsettled(s)' = Unsettled(s) /\ Staged(s)' = Staged(s)
  BY <1>2, <1>3 DEF Unsettled, Staged
<1>5. Expected(s)' = Expected(s)
  BY <1>2, <1>3, <1>4 DEF Expected
<1>6. TransactionShape(s)'
  BY <1>0, <1>2, <1>3, <1>4, TransactionKept
<1>7. ConsumerShape(s)'
  BY <1>0, <1>2, <1>3, <1>5, ConsumerKept
<1>8. DeliveryShape(s)'
  BY <1>0, <1>2, <1>3, DeliveriesKept
<1>9. ExactlyOnce'
  BY <1>0, <1>2 DEF ExactlyOnce
<1> QED
  BY <1>6, <1>7, <1>8, <1>9 DEF DataShape

\* begin succeeds: the transaction is empty, and the consumer is where the group's
\* committed offset is.
LEMMA LeaseData ==
    ASSUME NEW s, Base(s), LeaseAcquired(s)
    PROVE  DataShape(s)'
<1> DEFINE g == session[s].bridge
<1>0. /\ s \in Sessions /\ TypeInv /\ SessionShape(s) /\ BridgeShape(s)
      /\ TransactionShape(s) /\ ConsumerShape(s) /\ DeliveryShape(s) /\ ExactlyOnce
  BY DEF Base, OneSession, DataShape
<1>1. /\ session \in [Sessions -> Session] /\ session[s] \in Session
      /\ bridge \in [Generations -> Bridge]
      /\ session[s].pc \in {"begin", "op-begin"} /\ session[s].pc \in Calling
      /\ g \in Generations /\ bridge[g] \in Bridge /\ 0 \notin Generations
      /\ committed \in Nat /\ session[s].deliveries \subseteq Offsets /\ Offsets \subseteq Nat
  BY <1>0, TypeFacts, DataTypes DEF LeaseAcquired, Calling
<1>2. /\ UNCHANGED <<kafka, runtime, consumer>>
      /\ bridge[g].producer = "ready" /\ bridge[g].txn = NoSession
      /\ bridge[g].lease = NoSession
      /\ bridge' = [bridge EXCEPT ![g] = Began(@, s)]
  BY DEF LeaseAcquired, CanBegin
<1>3. /\ session'[s].on = g /\ session'[s].deliveries = session[s].deliveries
      /\ session'[s].delivery = session[s].delivery /\ ~session[s].active
      /\ \/ /\ session[s].pc = "begin" /\ session'[s].pc = "idle"
            /\ session'[s].sent = {} /\ ~session'[s].failed
         \/ /\ session[s].pc = "op-begin" /\ session'[s].pc = "op-publish"
            /\ ~session'[s].active
  BY <1>0, <1>1 DEF LeaseAcquired, Session, SessionShape
<1>4. /\ bridge'[g].outputs = {} /\ bridge'[g].staged = 0
      /\ bridge'[g].active /\ bridge'[g].producer = "ready"
  BY <1>1, <1>2 DEF Began, Bridge
<1>5. Taken(s)' = Taken(s) /\ ~Failed(s)' /\ ~Suspended(s)' /\ ~Suspended(s) /\ ~Failed(s)
  BY <1>1, <1>3 DEF Taken, Failed, Suspended
<1>6. Staged(s)' = committed /\ Unsettled(s)' = {}
  <2>1. Staged(s)' = committed
    BY <1>2, <1>3, <1>4 DEF Staged
  <2>2. Unsettled(s)' = {}
    BY <1>3 DEF Unsettled
  <2> QED
    BY <2>1, <2>2
<1>7. TransactionShape(s)'
  <2>1. \A o \in session[s].deliveries : committed <= o
    BY <1>0 DEF DeliveryShape
  <2>2. session'[s].active => session'[s].sent = {}
    BY <1>3
  <2>3. committed .. committed - 1 = {}
    BY <1>1
  <2>4. committed' = committed
    BY <1>2
  <2>5. /\ committed' <= Staged(s)'
        /\ bridge'[session'[s].on].outputs = (committed' .. Staged(s)' - 1) \cup Unsettled(s)'
        /\ ~(bridge'[session'[s].on].staged > 0)
    BY <1>1, <1>3, <1>4, <1>6, <2>3, <2>4
  <2>6. \A o \in session'[s].deliveries : Staged(s)' <= o
    BY <1>3, <1>6, <2>1
  <2> QED
    BY <2>2, <2>5, <2>6 DEF TransactionShape
<1>8. ConsumerShape(s)'
  <2>1. phase = "open" =>
            g = current /\ Usable /\ Expected(s) = committed /\ Expected(s)' = committed
    <3>1. phase = "open" => g = current /\ current' = current
      BY <1>0, <1>1, <1>2 DEF BridgeShape
    <3>2. ~bridge[g].active
      BY <1>0, <1>1, <1>2 DEF BridgeShape
    <3> QED
      BY <1>2, <1>4, <1>5, <1>6, <3>1, <3>2 DEF Usable, Expected
  <2> QED
    BY <1>0, <1>2, <1>3, <1>5, <2>1, ConsumerKept
<1>9. DeliveryShape(s)'
  BY <1>0, <1>2, <1>3, <1>5, DeliveriesKept
<1>10. ExactlyOnce'
  BY <1>0, <1>2 DEF ExactlyOnce
<1> QED
  BY <1>7, <1>8, <1>9, <1>10 DEF DataShape

\* begin raises: the bridge is fenced, or a transaction was left open on it, and no
\* later transaction will use the consumer, whose delivery was taken.
LEMMA BeginRaisesData ==
    ASSUME NEW s, Base(s), BeginRaises(s)
    PROVE  DataShape(s)'
<1> DEFINE g == session[s].bridge
<1>0. /\ s \in Sessions /\ TypeInv /\ SessionShape(s) /\ BridgeShape(s)
      /\ TransactionShape(s) /\ ConsumerShape(s) /\ DeliveryShape(s) /\ ExactlyOnce
  BY DEF Base, OneSession, DataShape
<1>1. /\ session \in [Sessions -> Session] /\ session[s] \in Session
      /\ session[s].pc \in {"begin", "op-begin"} /\ session[s].pc \in Calling
      /\ g \in Generations
  BY <1>0, TypeFacts DEF BeginRaises, Calling
<1>2. /\ UNCHANGED <<kafka, runtime, bridge, consumer>>
      /\ bridge[g].lease # NoSession \/ bridge[g].producer # "ready"
         \/ bridge[g].txn # NoSession
      /\ session'[s].pc = "idle" /\ session'[s].on = session[s].on
      /\ session'[s].deliveries = session[s].deliveries
  BY <1>0, <1>1 DEF BeginRaises, CanBegin, Session
<1>3. \A h \in Generations : ~Live(h)
  BY <1>0, <1>1, LiveFacts DEF Base
<1>4. TransactionShape(s)'
  <2>1. ~Committable(s)'
    BY <1>0, <1>2, <1>3, TypeFacts DEF Committable, Live
  <2> QED
    BY <2>1 DEF TransactionShape
<1>5. ConsumerShape(s)'
  <2>1. phase = "open" /\ holder = current => g = current
    BY <1>0, <1>1 DEF BridgeShape
  <2>2. phase = "open" /\ holder = current => ~Usable
    BY <1>0, <1>1, <1>2, <1>3, <2>1 DEF Usable, Live, BridgeShape
  <2>3. Usable' <=> Usable
    BY <1>2 DEF Usable
  <2> QED
    BY <1>0, <1>2, <2>2, <2>3, ConsumerDropped
<1>6. Taken(s)' = {}
  BY <1>2 DEF Taken
<1>7. DeliveryShape(s)'
  BY <1>0, <1>2, <1>6, DeliveriesKept
<1>8. ExactlyOnce'
  BY <1>0, <1>2 DEF ExactlyOnce
<1> QED
  BY <1>4, <1>5, <1>7, <1>8 DEF DataShape

\* poll: the Event delivered is at or after what the transaction has staged.
LEMMA PollData ==
    ASSUME NEW s, Base(s), Poll(s)
    PROVE  DataShape(s)'
<1> DEFINE first == IF holder = 0 THEN committed ELSE position
<1>0. /\ s \in Sessions /\ TypeInv /\ SessionShape(s) /\ BridgeShape(s)
      /\ TransactionShape(s) /\ ConsumerShape(s) /\ DeliveryShape(s) /\ ExactlyOnce
  BY DEF Base, OneSession, DataShape
<1>1. /\ session \in [Sessions -> Session] /\ session[s] \in Session
      /\ phase = "open" /\ session[s].pc = "idle" /\ current \in Generations
      /\ current # 0
      /\ committed \in Nat /\ position \in Nat /\ safe_next \in Nat
      /\ session[s].deliveries \subseteq Offsets /\ Offsets \subseteq Nat
      /\ session[s].sent \subseteq Offsets
      /\ \A g \in Generations : bridge[g].staged \in Nat
  BY <1>0, TypeFacts, DataTypes DEF Poll, MayExecute, MayCall
<1>2. /\ UNCHANGED <<kafka, runtime, bridge, acknowledged>>
      /\ holder \in {0, current} /\ holder' = current
      /\ first \in Nat /\ position' = first + 1 /\ inflight' = inflight \cup {first}
      /\ session' = [session EXCEPT ![s].deliveries = @ \cup {first}]
      /\ safe_next' = IF holder = 0 THEN committed ELSE safe_next
  BY <1>1 DEF Poll
<1>3. /\ session'[s].deliveries = session[s].deliveries \cup {first}
      /\ session'[s].pc = "idle" /\ session'[s].on = session[s].on
      /\ session'[s].active = session[s].active /\ session'[s].sent = session[s].sent
      /\ session'[s].touched = session[s].touched /\ session'[s].failed = session[s].failed
  BY <1>0, <1>1, <1>2 DEF Session
<1>4. /\ Taken(s) = {} /\ Taken(s)' = {} /\ (Failed(s)' <=> Failed(s))
      /\ (Committable(s)' <=> Committable(s)) /\ Staged(s)' = Staged(s)
      /\ (Suspended(s)' <=> Suspended(s)) /\ (Usable' <=> Usable)
  BY <1>1, <1>2, <1>3 DEF Taken, Failed, Committable, Live, Staged, Suspended, Usable
<1>5. Expected(s)' = Expected(s)
  BY <1>2, <1>4 DEF Expected
<1>6. committed <= first
  BY <1>0, <1>1, <1>2 DEF ConsumerShape
<1>7. Committable(s) => Staged(s) <= first /\ session[s].on = current
  <2>1. SUFFICES ASSUME Committable(s) PROVE Staged(s) <= first /\ session[s].on = current
    OBVIOUS
  <2>2. session[s].on = current /\ Usable /\ bridge[current].active
    BY <1>1, <2>1, CommittableFacts DEF Committable
  <2>3. CASE holder = 0
    <3>1. ~(bridge[current].staged > 0)
      BY <1>0, <1>1, <2>1, <2>2, <2>3 DEF TransactionShape
    <3>2. Staged(s) = committed
      BY <2>2, <3>1 DEF Staged
    <3> QED
      BY <1>1, <2>2, <2>3, <3>2
  <2>4. CASE holder # 0
    <3>1. ~Suspended(s) /\ Expected(s) = Staged(s)
      BY <1>1, <2>1, <2>2 DEF Suspended, Committable, Expected
    <3>2. Staged(s) <= position
      BY <1>0, <1>1, <1>2, <2>2, <2>4, <3>1 DEF ConsumerShape
    <3> QED
      BY <2>2, <2>4, <3>2
  <2> QED
    BY <2>3, <2>4
<1>8. TransactionShape(s)'
  <2>1. SUFFICES ASSUME Committable(s) PROVE TransactionShape(s)'
    BY <1>4 DEF TransactionShape
  <2>2. /\ committed <= Staged(s)
        /\ bridge[current].outputs = (committed .. Staged(s) - 1) \cup Unsettled(s)
        /\ session[s].active => session[s].sent \subseteq bridge[current].outputs
        /\ bridge[current].staged > 0 => session[s].touched
        /\ \A o \in session[s].deliveries : Staged(s) <= o
    BY <1>0, <1>7, <2>1 DEF TransactionShape
  <2>3. Staged(s) \in Nat
    BY <1>1, <1>7, <2>1 DEF Staged
  <2>4. Unsettled(s)' = Unsettled(s)
    <3>1. session[s].active /\ first \in session[s].sent => first \in session[s].deliveries
      <4>1. SUFFICES ASSUME session[s].active, first \in session[s].sent
                     PROVE  first \in session[s].deliveries
        OBVIOUS
      <4>2. first \in (committed .. Staged(s) - 1) \cup Unsettled(s)
        BY <2>2, <4>1
      <4>3. first \notin committed .. Staged(s) - 1
        BY <1>2, <1>7, <2>1, <2>3
      <4> QED
        BY <1>1, <1>4, <4>2, <4>3 DEF Unsettled
    <3> HIDE DEF first
    <3> QED
      BY <1>1, <1>3, <1>4, <3>1 DEF Unsettled
  <2> HIDE DEF first
  <2> QED
    BY <1>2, <1>3, <1>4, <1>7, <2>1, <2>2, <2>4 DEF TransactionShape
<1>9. ConsumerShape(s)'
  <2>1. committed' <= position'
    BY <1>1, <1>2, <1>6
  <2>2. ASSUME Usable, ~Suspended(s)
        PROVE  /\ acknowledged' = {} /\ safe_next' = Expected(s)'
               /\ safe_next' <= position'
               /\ inflight' = safe_next' .. position' - 1
               /\ inflight' \subseteq session'[s].deliveries \cup Taken(s)'
    <3>1. CASE holder = 0
      <4>1. inflight = {} /\ acknowledged = {} /\ first = committed /\ safe_next' = committed
        BY <1>0, <1>2, <3>1 DEF ConsumerShape
      <4>2. Expected(s) = committed
        <5>1. CASE bridge[current].active /\ ~Failed(s)
          <6>1. session[s].on = current
            BY <1>1, <2>2, <5>1, CurrentFacts DEF Usable, Live
          <6>2. Committable(s)
            BY <1>1, <2>2, <5>1, <6>1 DEF Committable, Live, Usable
          <6>3. ~(bridge[current].staged > 0)
            BY <1>0, <1>1, <3>1, <6>1, <6>2 DEF TransactionShape
          <6> QED
            BY <5>1, <6>1, <6>3 DEF Expected, Staged
        <5>2. CASE ~(bridge[current].active /\ ~Failed(s))
          BY <5>2 DEF Expected
        <5> QED
          BY <5>1, <5>2
      <4>3. {committed} = committed .. committed
        BY <1>1
      <4>4. inflight' = {committed} /\ position' = committed + 1
        BY <1>2, <4>1
      <4>5. committed + 1 - 1 = committed
        BY <1>1
      <4> QED
        BY <1>1, <1>2, <1>3, <1>4, <1>5, <4>1, <4>2, <4>3, <4>4, <4>5
    <3>2. CASE holder = current
      <4>1. /\ acknowledged = {} /\ safe_next = Expected(s) /\ safe_next <= position
            /\ inflight = safe_next .. position - 1
            /\ inflight \subseteq session[s].deliveries
            /\ first = position /\ safe_next' = safe_next
        BY <1>0, <1>1, <1>2, <1>4, <2>2, <3>2 DEF ConsumerShape
      <4>2. (safe_next .. position - 1) \cup {position} = safe_next .. position + 1 - 1
        BY <1>1, <4>1
      <4>3. inflight' = safe_next .. position + 1 - 1 /\ position' = position + 1
        BY <1>2, <4>1, <4>2
      <4> QED
        BY <1>1, <1>2, <1>3, <1>4, <1>5, <4>1, <4>3
    <3> QED
      BY <1>2, <3>1, <3>2
  <2> QED
    BY <1>1, <1>2, <1>4, <2>1, <2>2 DEF ConsumerShape
<1>10. DeliveryShape(s)'
  <2>1. \A o \in session'[s].deliveries \cup Taken(s)' : committed' <= o
    <3> HIDE DEF first
    <3> QED
      BY <1>0, <1>2, <1>3, <1>4, <1>6 DEF DeliveryShape
  <2> QED
    BY <1>4, <2>1 DEF DeliveryShape
<1>11. ExactlyOnce'
  BY <1>0, <1>2 DEF ExactlyOnce
<1> QED
  BY <1>8, <1>9, <1>10, <1>11 DEF DataShape

\* publish in a Core transaction: one more output awaits its acknowledgement.
LEMMA CorePublishData ==
    ASSUME NEW s, Base(s), NEW o, CorePublish(s, o)
    PROVE  DataShape(s)'
<1>0. /\ s \in Sessions /\ TypeInv /\ SessionShape(s) /\ BridgeShape(s)
      /\ TransactionShape(s) /\ ConsumerShape(s) /\ DeliveryShape(s) /\ ExactlyOnce
  BY DEF Base, OneSession, DataShape
<1>1. /\ session \in [Sessions -> Session] /\ session[s] \in Session
      /\ bridge \in [Generations -> Bridge] /\ bridge[current] \in Bridge
      /\ phase = "open" /\ session[s].pc = "idle" /\ current \in Generations
      /\ session[s].active
  BY <1>0, TypeFacts DEF CorePublish, MayExecute, MayCall
<1>2. /\ UNCHANGED <<kafka, runtime, consumer>>
      /\ o \in session[s].deliveries /\ o \in Offsets
      /\ Live(current)
      /\ bridge' = [bridge EXCEPT ![current].outputs = @ \cup {o}]
      /\ session' = [session EXCEPT ![s].sent = @ \cup {o}]
  BY LeastDelivery DEF CorePublish, CanPublish, Live
<1>3. /\ session'[s].sent = session[s].sent \cup {o}
      /\ session'[s].deliveries = session[s].deliveries
      /\ session'[s].pc = "idle" /\ session'[s].on = session[s].on
      /\ session'[s].active /\ session'[s].touched = session[s].touched
      /\ session'[s].failed = session[s].failed
  BY <1>0, <1>1, <1>2 DEF Session
<1>4. /\ bridge'[current].outputs = bridge[current].outputs \cup {o}
      /\ bridge'[current].staged = bridge[current].staged
      /\ bridge'[current].active = bridge[current].active
      /\ bridge'[current].txn = bridge[current].txn
      /\ bridge'[current].producer = bridge[current].producer
  BY <1>1, <1>2 DEF Bridge
<1>5. session[s].on = current /\ session[s].on # 0
  BY <1>1, <1>2, CurrentFacts
<1>6. /\ Taken(s) = {} /\ Taken(s)' = {} /\ (Failed(s)' <=> Failed(s))
      /\ Staged(s)' = Staged(s)
      /\ (Suspended(s)' <=> Suspended(s)) /\ (Usable' <=> Usable)
  BY <1>1, <1>2, <1>3, <1>4, <1>5 DEF Taken, Failed, Staged, Suspended, Usable
<1>7. Expected(s)' = Expected(s)
  BY <1>2, <1>4, <1>6 DEF Expected
<1>8. TransactionShape(s)'
  <2>1. SUFFICES ASSUME Committable(s)' PROVE TransactionShape(s)'
    BY DEF TransactionShape
  <2>2. Committable(s)
    BY <1>1, <1>2, <1>5, <1>6, <2>1 DEF Committable
  <2>3. Unsettled(s)' = Unsettled(s) \cup {o}
    BY <1>1, <1>2, <1>3, <1>6 DEF Unsettled
  <2> QED
    BY <1>0, <1>2, <1>3, <1>4, <1>5, <1>6, <2>2, <2>3 DEF TransactionShape
<1>9. ConsumerShape(s)'
  BY <1>0, <1>2, <1>3, <1>6, <1>7, ConsumerKept
<1>10. DeliveryShape(s)'
  BY <1>0, <1>2, <1>3, <1>6, DeliveriesKept
<1>11. ExactlyOnce'
  BY <1>0, <1>2 DEF ExactlyOnce
<1> QED
  BY <1>8, <1>9, <1>10, <1>11 DEF DataShape

\* transactional-consume-publish takes the session's least delivery.
LEMMA OperationCallData ==
    ASSUME NEW s, Base(s), NEW o, OperationCall(s, o)
    PROVE  DataShape(s)'
<1>0. /\ s \in Sessions /\ TypeInv /\ SessionShape(s) /\ BridgeShape(s)
      /\ TransactionShape(s) /\ ConsumerShape(s) /\ DeliveryShape(s) /\ ExactlyOnce
  BY DEF Base, OneSession, DataShape
<1>1. /\ session \in [Sessions -> Session] /\ session[s] \in Session
      /\ phase = "open" /\ session[s].pc = "idle" /\ current \in Generations
      /\ committed \in Nat
      /\ session[s].deliveries \subseteq Offsets /\ Offsets \subseteq Nat
      /\ UNCHANGED <<kafka, runtime, bridge, consumer>>
  BY <1>0, TypeFacts, DataTypes DEF OperationCall, MayExecute, MayCall
<1>2. /\ o \in session[s].deliveries /\ o \in Offsets
      /\ \A d \in session[s].deliveries : o <= d
  BY LeastDelivery DEF OperationCall
<1>3. /\ session'[s].deliveries = session[s].deliveries \ {o}
      /\ session'[s].delivery = o
      /\ session'[s].on = session[s].on
      /\ session'[s].active = session[s].active
      /\ session'[s].failed = session[s].failed
      /\ session'[s].sent = session[s].sent
  BY <1>0, <1>1 DEF OperationCall, Session
<1>4. /\ session[s].active => session'[s].pc = "op-publish"
      /\ ~session[s].active => session'[s].pc = "op-begin"
  BY <1>0, <1>1 DEF OperationCall, Session
<1>5. /\ session[s].active => session'[s].touched
      /\ session[s].touched => session'[s].touched
  BY <1>0, <1>1 DEF OperationCall, Session
<1>6. /\ Taken(s) = {} /\ Taken(s)' = {o} /\ (Failed(s)' <=> Failed(s))
      /\ Staged(s)' = Staged(s) /\ (Usable' <=> Usable)
  BY <1>1, <1>3, <1>4 DEF Taken, Failed, Staged, Usable
<1>7. ~Suspended(s)' => ~Suspended(s)
  BY <1>1, <1>5, <1>6 DEF Suspended
<1>8. Expected(s)' = Expected(s)
  BY <1>1, <1>6 DEF Expected
<1>9. TransactionShape(s)'
  <2>1. Committable(s)' => Committable(s)
    BY <1>1, <1>3, <1>6 DEF Committable, Live
  <2>2. Committable(s) => session[s].active
    <3>1. SUFFICES ASSUME Committable(s) PROVE session[s].active
      OBVIOUS
    <3>2. session[s].on \in Generations
      BY <3>1, CommittableFacts DEF Committable
    <3> QED
      BY <1>1, <3>1, <3>2, LiveFacts DEF Base, Committable
  <2>3. session[s].active => Unsettled(s)' = Unsettled(s)
    BY <1>1, <1>2, <1>3, <1>4, <1>6 DEF Unsettled
  <2> QED
    BY <1>0, <1>1, <1>3, <1>5, <2>1, <2>2, <2>3, TransactionKept
<1>10. ConsumerShape(s)'
  BY <1>0, <1>1, <1>3, <1>6, <1>7, <1>8, ConsumerKept
<1>11. DeliveryShape(s)'
  <2>1. \A d \in session'[s].deliveries \cup Taken(s)' : committed' <= d
    BY <1>0, <1>1, <1>2, <1>3, <1>6 DEF DeliveryShape
  <2>2. \A d \in session'[s].deliveries : o < d
    <3> SUFFICES ASSUME NEW d \in session'[s].deliveries PROVE o < d
      OBVIOUS
    <3>1. d \in session[s].deliveries /\ d # o
      BY <1>3
    <3>2. d \in Nat /\ o \in Nat /\ o <= d
      BY <1>1, <1>2, <3>1
    <3> QED
      BY <3>1, <3>2
  <2> QED
    BY <1>6, <2>1, <2>2 DEF DeliveryShape
<1>12. ExactlyOnce'
  BY <1>0, <1>1 DEF ExactlyOnce
<1> QED
  BY <1>9, <1>10, <1>11, <1>12 DEF DataShape

\* ... publishes its output, or raises,
LEMMA OperationPublishData ==
    ASSUME NEW s, Base(s), OperationPublish(s)
    PROVE  DataShape(s)'
<1> DEFINE g == session[s].bridge
           o == session[s].delivery
<1>0. /\ s \in Sessions /\ TypeInv /\ SessionShape(s) /\ BridgeShape(s)
      /\ TransactionShape(s) /\ ConsumerShape(s) /\ DeliveryShape(s) /\ ExactlyOnce
  BY DEF Base, OneSession, DataShape
<1>1. /\ session[s].pc = "op-publish" /\ session[s].pc \in Calling
      /\ UNCHANGED <<kafka, runtime, consumer>>
  BY DEF OperationPublish, Calling
<1>2. /\ session \in [Sessions -> Session] /\ session[s] \in Session
      /\ bridge \in [Generations -> Bridge] /\ g \in Generations /\ bridge[g] \in Bridge
      /\ o \in Offsets /\ session[s].touched
  BY <1>0, <1>1, TypeFacts, DataTypes DEF SessionShape
<1>3. /\ session'[s].deliveries = session[s].deliveries
      /\ session'[s].delivery = o
      /\ session'[s].on = session[s].on
      /\ session'[s].active = session[s].active
      /\ session'[s].failed = session[s].failed
      /\ session'[s].sent = session[s].sent
      /\ session'[s].touched
  BY <1>0, <1>2 DEF OperationPublish, Session
<1>4. ExactlyOnce'
  BY <1>0, <1>1 DEF ExactlyOnce
<1>5. CASE CanPublish(bridge[g]) /\ session' = [session EXCEPT ![s].pc = "op-ack"]
           /\ bridge' = [bridge EXCEPT ![g].outputs = @ \cup {o}]
  <2>1. /\ session'[s].pc = "op-ack" /\ Live(g)
        /\ bridge'[g].outputs = bridge[g].outputs \cup {o}
        /\ bridge'[g].staged = bridge[g].staged /\ bridge'[g].active = bridge[g].active
        /\ bridge'[g].txn = bridge[g].txn /\ bridge'[g].producer = bridge[g].producer
        /\ \A h \in Generations \ {g} : bridge'[h] = bridge[h]
    BY <1>0, <1>2, <1>5 DEF Session, Bridge, CanPublish, Live
  <2>2. /\ session[s].on = g /\ g # 0 /\ (phase = "open" => g = current)
        /\ current # 0 => current \in Generations
        /\ phase = "open" => current # 0
    BY <1>0, <1>2, <2>1, LiveFacts, TypeFacts DEF Base
  <2>3. /\ Taken(s) = {o} /\ Taken(s)' = {o} /\ (Failed(s)' <=> Failed(s))
        /\ Staged(s)' = Staged(s)
        /\ (Suspended(s)' <=> Suspended(s))
    BY <1>1, <1>2, <1>3, <2>1, <2>2 DEF Taken, Failed, Staged, Suspended
  <2>4. phase = "open" => (Usable' <=> Usable) /\ Expected(s)' = Expected(s)
    BY <1>1, <2>1, <2>2, <2>3 DEF Usable, Expected
  <2>5. TransactionShape(s)'
    <3>1. SUFFICES ASSUME Committable(s)' PROVE TransactionShape(s)'
      BY DEF TransactionShape
    <3>2. Committable(s)
      BY <1>1, <2>1, <2>2, <2>3, <3>1 DEF Committable
    <3>3. /\ Unsettled(s)' \subseteq Unsettled(s) \cup {o}
          /\ Unsettled(s) \subseteq Unsettled(s)'
          /\ o \in Unsettled(s)'
      BY <1>1, <1>2, <1>3, <2>1, <2>3 DEF Unsettled
    <3> QED
      BY <1>0, <1>1, <1>3, <2>1, <2>2, <2>3, <3>2, <3>3 DEF TransactionShape
  <2>6. ConsumerShape(s)'
    BY <1>0, <1>1, <1>3, <2>3, <2>4, ConsumerKept
  <2>7. DeliveryShape(s)'
    BY <1>0, <1>1, <1>3, <2>3, DeliveriesKept
  <2> QED
    BY <1>4, <2>5, <2>6, <2>7 DEF DataShape
<1>6. CASE session' = [session EXCEPT ![s].pc = "op-except"] /\ UNCHANGED bridge
  <2>1. session'[s].pc = "op-except"
    BY <1>0, <1>2, <1>6 DEF Session
  <2>2. Taken(s)' = {} /\ Suspended(s)' /\ ~Committable(s)'
    BY <1>3, <2>1 DEF Taken, Suspended, Committable
  <2>3. TransactionShape(s)'
    BY <2>2 DEF TransactionShape
  <2>4. ConsumerShape(s)'
    BY <1>0, <1>1, <2>2, ConsumerDropped
  <2>5. DeliveryShape(s)'
    BY <1>0, <1>1, <1>3, <2>2, DeliveriesKept
  <2> QED
    BY <1>4, <2>3, <2>4, <2>5 DEF DataShape
<1> QED
  BY <1>5, <1>6 DEF OperationPublish

\* ... and after an exception aborts, leaving a consumer that is to be discarded or
\* that no transaction can use.
LEMMA OperationExceptData ==
    ASSUME NEW s, Base(s), OperationExcept(s)
    PROVE  DataShape(s)'
<1> DEFINE g == session[s].bridge
<1>0. /\ s \in Sessions /\ TypeInv /\ SessionShape(s) /\ BridgeShape(s)
      /\ TransactionShape(s) /\ ConsumerShape(s) /\ DeliveryShape(s) /\ ExactlyOnce
  BY DEF Base, OneSession, DataShape
<1>1. /\ session[s].pc = "op-except" /\ session[s].pc \in Calling
      /\ UNCHANGED <<kafka, runtime, consumer>>
  BY DEF OperationExcept, Calling
<1>2. /\ session \in [Sessions -> Session] /\ session[s] \in Session
      /\ bridge \in [Generations -> Bridge] /\ g \in Generations /\ bridge[g] \in Bridge
      /\ session[s].touched
      /\ session[s].on # 0 => session[s].on \in Generations
      /\ phase = "open" => current \in Generations
  BY <1>0, <1>1, TypeFacts DEF SessionShape
<1>3. /\ session'[s].deliveries = session[s].deliveries
      /\ session'[s].on = session[s].on
      /\ session'[s].active = session[s].active
      /\ session'[s].failed /\ session'[s].touched
      /\ session'[s].pc \in {"recover", "idle"}
  BY <1>0, <1>2 DEF OperationExcept, Session
<1>4. ExactlyOnce'
  BY <1>0, <1>1 DEF ExactlyOnce
<1>5. Taken(s)' = {}
  BY <1>3 DEF Taken
<1>6. DeliveryShape(s)'
  BY <1>0, <1>1, <1>3, <1>5, DeliveriesKept
<1>7. /\ \A h \in Generations \ {g} : ~Live(h) /\ bridge'[h] = bridge[h]
      /\ bridge'[g].active /\ bridge'[g].producer = "ready" => Live(g) /\ ~session[s].owns
  <2>1. \A h \in Generations \ {g} : ~Live(h)
    BY <1>0, <1>1, <1>2, LiveFacts DEF Base
  <2>2. CASE (~session[s].owns \/ ~bridge[g].active) /\ UNCHANGED bridge
    BY <2>1, <2>2 DEF Live
  <2>3. ASSUME NEW b \in {Finish(bridge[g]), Finish(Ended(bridge[g]))},
               bridge' = [bridge EXCEPT ![g] = b]
        PROVE  ~bridge'[g].active /\ \A h \in Generations \ {g} : bridge'[h] = bridge[h]
    BY <1>2, <2>3, FinishFields
  <2> QED
    BY <2>1, <2>2, <2>3 DEF OperationExcept
<1>8. TransactionShape(s)'
  <2>1. SUFFICES ASSUME Committable(s)' PROVE FALSE
    BY DEF TransactionShape
  <2>2. /\ session[s].on # 0 /\ session[s].on \in Generations /\ ~session[s].active
        /\ bridge'[session[s].on].active /\ bridge'[session[s].on].producer = "ready"
    BY <1>2, <1>3, <2>1 DEF Committable, Live, Failed
  <2>3. session[s].on = g
    BY <1>7, <2>2 DEF Live
  <2>4. Live(g) /\ ~session[s].owns
    BY <1>7, <2>2, <2>3
  <2> QED
    BY <1>0, <1>2, <2>2, <2>4 DEF BridgeShape
<1>9. ConsumerShape(s)'
  <2>1. CASE session'[s].pc = "recover"
    BY <1>0, <1>1, <1>3, <2>1, ConsumerDropped DEF Suspended
  <2>2. CASE session'[s].pc = "idle"
    <3>1. /\ bridge[g].active /\ bridge' = [bridge EXCEPT ![g] = Finish(@)]
      BY <1>0, <1>2, <2>2 DEF OperationExcept, Session
    <3>2. /\ bridge'[g].producer = bridge[g].producer /\ ~bridge'[g].active
          /\ bridge'[g].txn = bridge[g].txn
      BY <1>2, <3>1, FinishFields
    <3>3. bridge[g].producer = "ready" => bridge[g].txn # NoSession
      BY <1>0, <1>2, <3>1 DEF BridgeShape, Live
    <3>4. phase = "open" /\ holder = current => g = current
      BY <1>0, <1>1 DEF BridgeShape
    <3>5. phase = "open" /\ holder = current => ~Usable'
      BY <1>1, <3>2, <3>3, <3>4 DEF Usable
    <3> QED
      BY <1>0, <1>1, <3>5, ConsumerDropped
  <2> QED
    BY <1>3, <2>1, <2>2
<1> QED
  BY <1>4, <1>6, <1>8, <1>9 DEF DataShape

\* _recover_touched_groups discards the consumer of a transaction that failed.
LEMMA RecoverData ==
    ASSUME NEW s, Base(s), Recover(s)
    PROVE  DataShape(s)'
<1>0. /\ s \in Sessions /\ TypeInv /\ SessionShape(s) /\ BridgeShape(s)
      /\ TransactionShape(s) /\ ConsumerShape(s) /\ DeliveryShape(s) /\ ExactlyOnce
  BY DEF Base, OneSession, DataShape
<1>1. /\ session[s].pc = "recover"
      /\ UNCHANGED <<kafka, runtime, bridge>>
      /\ session \in [Sessions -> Session] /\ session[s] \in Session
      /\ session[s].on # 0 => session[s].on \in Generations
      /\ phase = "open" => current \in Generations
      /\ 0 \notin Generations
  BY <1>0, TypeFacts DEF Recover
<1>2. /\ session'[s].deliveries = session[s].deliveries
      /\ session'[s].on = session[s].on
      /\ session'[s].active = session[s].active
      /\ session'[s].failed = session[s].failed
      /\ session'[s].pc = "idle" /\ ~session'[s].touched
  BY <1>0, <1>1 DEF Recover, Session
<1>3. ExactlyOnce'
  BY <1>0, <1>1 DEF ExactlyOnce
<1>4. Taken(s) = {} /\ Taken(s)' = {} /\ (Failed(s)' <=> Failed(s))
  BY <1>1, <1>2 DEF Taken, Failed
<1>5. DeliveryShape(s)'
  BY <1>0, <1>1, <1>2, <1>4, DeliveriesKept
<1>6. TransactionShape(s)'
  <2>1. SUFFICES ASSUME Committable(s)' PROVE FALSE
    BY DEF TransactionShape
  <2>2. session[s].on \in Generations /\ Live(session[s].on) /\ ~Failed(s)
    BY <1>1, <1>2, <1>4, <2>1 DEF Committable, Live
  <2>3. session[s].active
    BY <1>1, <2>2, LiveFacts DEF Base
  <2> QED
    BY <1>0, <1>1, <2>2, <2>3 DEF SessionShape, Failed
<1>7. ConsumerShape(s)'
  <2>1. CASE session[s].touched /\ current # 0 /\ holder = current
    <3>1. holder' = 0 /\ inflight' = {} /\ acknowledged' = {} /\ current' # 0
      BY <1>1, <2>1 DEF Recover, DiscardOf, Discard
    <3> QED
      BY <3>1 DEF ConsumerShape
  <2>2. CASE ~(session[s].touched /\ current # 0 /\ holder = current)
    <3>1. UNCHANGED consumer
      BY <1>1, <2>2 DEF Recover, DiscardOf
    <3>2. phase = "open" /\ holder = current => ~session[s].touched
      BY <1>1, <2>2
    <3>3. Staged(s)' = Staged(s) /\ (Usable' <=> Usable)
      BY <1>1, <1>2 DEF Staged, Usable
    <3>4. Expected(s)' = Expected(s)
      BY <1>1, <1>4, <3>3 DEF Expected
    <3> QED
      BY <1>0, <1>1, <1>2, <1>4, <3>1, <3>2, <3>3, <3>4, ConsumerKept DEF Suspended
  <2> QED
    BY <2>1, <2>2
<1> QED
  BY <1>3, <1>5, <1>6, <1>7 DEF DataShape

-----------------------------------------------------------------------------
(* Acknowledgement in a transaction.                                       *)

\* A call that raises, or one in a transaction that has failed, leaves a consumer to be
\* discarded.
LEMMA SuspendedData ==
    ASSUME NEW s, Base(s), UNCHANGED <<committed, visible, twice, phase, current>>,
           UNCHANGED <<holder, position>>,
           holder = 0 => UNCHANGED <<inflight, acknowledged>>,
           Suspended(s)', ~Committable(s)',
           session'[s].deliveries \subseteq session[s].deliveries,
           Taken(s)' \subseteq Taken(s)
    PROVE  DataShape(s)'
<1>0. ConsumerShape(s) /\ DeliveryShape(s) /\ ExactlyOnce
  BY DEF Base, DataShape
<1>1. TransactionShape(s)'
  BY DEF TransactionShape
<1>2. ConsumerShape(s)'
  BY <1>0, ConsumerDropped
<1>3. DeliveryShape(s)'
  BY <1>0, DeliveriesKept
<1>4. ExactlyOnce'
  BY <1>0 DEF ExactlyOnce
<1> QED
  BY <1>1, <1>2, <1>3, <1>4 DEF DataShape

\* Of a consumer that may be used, the least delivery is the Event at the safe offset.
LEMMA NextDue ==
    ASSUME NEW s, Base(s), NEW o, phase = "open", Known(o), Usable, ~Suspended(s),
           \A d \in session[s].deliveries \cup Taken(s) : o <= d
    PROVE  /\ o = safe_next /\ o = Expected(s) /\ o < position
           /\ inflight = o .. position - 1
           /\ acknowledged = {}
           /\ inflight \subseteq session[s].deliveries \cup Taken(s)
<1>1. holder = current /\ o \in inflight
  BY DEF Known
<1>2. /\ acknowledged = {} /\ safe_next = Expected(s) /\ safe_next <= position
      /\ inflight = safe_next .. position - 1
      /\ inflight \subseteq session[s].deliveries \cup Taken(s)
  BY <1>1 DEF Base, DataShape, ConsumerShape
<1>3. safe_next \in Nat /\ position \in Nat /\ o \in Nat
  BY <1>1, DataTypes
<1>4. safe_next <= o /\ o <= position - 1
  BY <1>1, <1>2, <1>3
<1>5. safe_next \in inflight
  BY <1>2, <1>3, <1>4
<1>6. o <= safe_next
  BY <1>2, <1>5
<1> QED
  BY <1>2, <1>3, <1>4, <1>6

\* Acknowledging it stages the next position, on a bridge that is active.
LEMMA DueAcknowledged ==
    ASSUME NEW s, Base(s), NEW o, NEW g, phase = "open", Known(o), Usable, ~Suspended(s),
           \A d \in session[s].deliveries \cup Taken(s) : o <= d,
           Acknowledge(g, o)
    PROVE  /\ bridge[g].active /\ Stage(g, o + 1)
           /\ safe_next' = o + 1 /\ acknowledged' = {}
           /\ inflight' = o + 1 .. position - 1
<1>1. /\ o = safe_next /\ o < position
      /\ inflight = o .. position - 1
      /\ acknowledged = {}
  BY NextDue
<1>2. o \in Nat /\ position \in Nat /\ Positions \subseteq Nat
  BY <1>1, DataTypes, NumberFacts
<1>3. PICK safe \in Positions :
        /\ SafeRun(o, safe)
        /\ TakeRun(o, safe)
        /\ safe_next' = safe
        /\ IF safe > safe_next THEN bridge[g].active /\ Stage(g, safe)
           ELSE UNCHANGED bridge
  BY DEF Acknowledge
<1>4. safe = o + 1 /\ acknowledged' = {}
  BY <1>1, <1>2, <1>3, OneRun
<1>5. bridge[g].active /\ Stage(g, o + 1)
  BY <1>1, <1>2, <1>3, <1>4
<1>6. inflight' = (o .. position - 1) \ {o}
  BY <1>1 DEF Acknowledge
<1>7. inflight' = o + 1 .. position - 1
  BY <1>2, <1>6
<1> QED
  BY <1>3, <1>4, <1>5, <1>7

\* An acknowledgement that succeeds moves the Event from those the transaction has
\* published to those it has staged.
LEMMA AcknowledgedData ==
    ASSUME NEW s, Base(s), NEW o, phase = "open", Known(o), ~Suspended(s), ~Failed(s),
           session[s].pc \in {"idle", "op-ack"},
           \A d \in session[s].deliveries \cup Taken(s) : o <= d,
           o \in Unsettled(s),
           session[s].pc = "op-ack" => o \notin session[s].deliveries /\ Taken(s) = {o},
           Acknowledge(current, o), UNCHANGED <<kafka, runtime>>,
           /\ session'[s].on = session[s].on /\ session'[s].active = session[s].active
           /\ session'[s].failed = session[s].failed /\ session'[s].sent = session[s].sent
           /\ session'[s].touched
           /\ session'[s].deliveries = session[s].deliveries \ {o}
           /\ session'[s].pc \in {"idle", "op-commit"}
    PROVE  DataShape(s)'
<1>0. /\ s \in Sessions /\ TypeInv /\ SessionShape(s) /\ BridgeShape(s)
      /\ TransactionShape(s) /\ ConsumerShape(s) /\ DeliveryShape(s) /\ ExactlyOnce
  BY DEF Base, OneSession, DataShape
<1>1. /\ bridge \in [Generations -> Bridge] /\ current \in Generations
      /\ bridge[current] \in Bridge /\ 0 \notin Generations
      /\ o \in Nat /\ o \in Offsets /\ committed \in Nat /\ position \in Nat
      /\ bridge[current].staged \in Nat /\ holder = current
      /\ session[s].deliveries \subseteq Offsets /\ Offsets \subseteq Nat
  BY <1>0, TypeFacts, DataTypes DEF Known
<1>2. /\ Taken(s)' = {} /\ ~Failed(s)' /\ ~Suspended(s)'
  BY DEF Taken, Failed, Suspended
<1>3. /\ UNCHANGED <<holder, member, position, phase, current, committed>>
      /\ UNCHANGED bridge \/ \E safe \in Positions : Stage(current, safe)
  BY DEF Acknowledge
<1>4. /\ bridge'[current].producer = bridge[current].producer
      /\ bridge'[current].active = bridge[current].active
      /\ bridge'[current].txn = bridge[current].txn
      /\ bridge'[current].outputs = bridge[current].outputs
      /\ \A h \in Generations \ {current} : bridge'[h] = bridge[h]
  <2>1. ASSUME NEW safe \in Positions, Stage(current, safe)
        PROVE  /\ bridge'[current].producer = bridge[current].producer
               /\ bridge'[current].active = bridge[current].active
               /\ bridge'[current].txn = bridge[current].txn
               /\ bridge'[current].outputs = bridge[current].outputs
               /\ \A h \in Generations \ {current} : bridge'[h] = bridge[h]
    BY <1>1, <2>1 DEF Stage, Bridge
  <2> QED
    BY <1>3, <2>1
<1>5. Usable' <=> Usable
  BY <1>3, <1>4 DEF Usable
<1>6. DeliveryShape(s)'
  BY <1>0, <1>2, <1>3, DeliveriesKept
<1>7. ExactlyOnce'
  BY <1>0 DEF ExactlyOnce
<1>8. CASE ~Usable
  <2>1. ConsumerShape(s)'
    BY <1>0, <1>1, <1>3, <1>5, <1>8, ConsumerDropped
  <2>2. ~Committable(s)'
    <3>1. SUFFICES ASSUME Committable(s)' PROVE FALSE
      OBVIOUS
    <3>2. session[s].on # 0 /\ session[s].on \in Generations
      BY <1>0, <3>1, TypeFacts DEF Committable
    <3>3. Live(session[s].on)
      <4>1. CASE session[s].on = current
        BY <1>4, <3>1, <4>1 DEF Committable, Live
      <4>2. CASE session[s].on # current
        BY <1>4, <3>1, <3>2, <4>2 DEF Committable, Live
      <4> QED
        BY <4>1, <4>2
    <3> QED
      BY <1>8, <3>2, <3>3, CommittableFacts
  <2>3. TransactionShape(s)'
    BY <2>2 DEF TransactionShape
  <2> QED
    BY <1>6, <1>7, <2>1, <2>3 DEF DataShape
<1>9. CASE Usable
  <2>1. /\ o = Expected(s) /\ o < position
        /\ inflight = o .. position - 1
        /\ inflight \subseteq session[s].deliveries \cup Taken(s)
    BY <1>9, NextDue
  <2>2. /\ bridge[current].active /\ Stage(current, o + 1)
        /\ safe_next' = o + 1 /\ acknowledged' = {}
        /\ inflight' = o + 1 .. position - 1
    BY <1>9, DueAcknowledged
  <2>3. session[s].on = current /\ Committable(s) /\ Expected(s) = Staged(s)
    <3>1. session[s].on = current /\ session[s].on # 0 /\ Live(current)
      BY <1>9, <2>2, CurrentFacts DEF Usable, Live
    <3> QED
      BY <2>2, <3>1 DEF Committable, Expected
  <2>4. bridge'[current].staged = o + 1 /\ o + 1 > 0
    <3>1. bridge[current].staged > 0 => bridge[current].staged = o
      BY <2>1, <2>3 DEF Staged
    <3>2. bridge[current].staged <= o + 1
      BY <1>1, <3>1
    <3>3. Max({bridge[current].staged, o + 1}) = o + 1
      BY <1>1, <3>2, MaxFacts
    <3>4. bridge'[current].staged = Max({bridge[current].staged, o + 1})
      BY <1>1, <2>2 DEF Stage, Bridge
    <3> QED
      BY <1>1, <3>3, <3>4
  <2>5. Staged(s)' = o + 1
    BY <2>3, <2>4 DEF Staged
  <2>6. Expected(s)' = o + 1
    BY <1>2, <1>3, <1>4, <2>2, <2>5 DEF Expected
  <2>7. Unsettled(s)' = Unsettled(s) \ {o}
    BY <1>2 DEF Unsettled
  <2>8. TransactionShape(s)'
    <3>1. /\ committed <= o
          /\ bridge[current].outputs = (committed .. o - 1) \cup Unsettled(s)
          /\ session[s].active => session[s].sent \subseteq bridge[current].outputs
      BY <1>0, <2>1, <2>3 DEF TransactionShape
    <3>2. (committed .. o - 1) \cup Unsettled(s)
            = (committed .. o + 1 - 1) \cup (Unsettled(s) \ {o})
      BY <1>1, <3>1
    <3>3. committed <= o + 1
      BY <1>1, <3>1
    <3>4. \A d \in session'[s].deliveries : o + 1 <= d
      <4> SUFFICES ASSUME NEW d \in session'[s].deliveries PROVE o + 1 <= d
        OBVIOUS
      <4>1. d \in session[s].deliveries /\ d # o /\ d \in Nat /\ o <= d
        BY <1>1
      <4> QED
        BY <1>1, <4>1
    <3> QED
      BY <1>1, <1>3, <1>4, <2>3, <2>5, <2>7, <3>1, <3>2, <3>3, <3>4 DEF TransactionShape
  <2>9. ConsumerShape(s)'
    <3>1. o + 1 <= position /\ committed' <= position'
      BY <1>0, <1>1, <1>3, <2>1 DEF ConsumerShape
    <3>2. inflight' \subseteq session'[s].deliveries
      <4>1. inflight' \subseteq inflight \ {o}
        BY <1>1, <2>1, <2>2
      <4> QED
        BY <2>1, <4>1 DEF Taken
    <3> QED
      BY <1>1, <1>2, <1>3, <2>2, <2>6, <3>1, <3>2 DEF ConsumerShape
  <2> QED
    BY <1>6, <1>7, <2>8, <2>9 DEF DataShape
<1> QED
  BY <1>8, <1>9

\* acknowledge in a Core transaction.
LEMMA CoreAcknowledgeData ==
    ASSUME NEW s, Base(s), NEW o, CoreAcknowledge(s, o)
    PROVE  DataShape(s)'
<1>0. /\ s \in Sessions /\ TypeInv
  BY DEF Base, OneSession
<1>1. /\ session \in [Sessions -> Session] /\ session[s] \in Session
      /\ phase = "open" /\ session[s].pc = "idle" /\ current # 0
      /\ session[s].active /\ o \in session[s].sent
      /\ UNCHANGED <<kafka, runtime>>
  BY <1>0, TypeFacts DEF CoreAcknowledge, MayExecute, MayCall
<1>2. /\ o \in session[s].deliveries /\ o \in Offsets
      /\ \A d \in session[s].deliveries : o <= d
  BY LeastDelivery DEF CoreAcknowledge
<1>3. /\ session'[s].on = session[s].on /\ session'[s].active
      /\ session'[s].sent = session[s].sent
      /\ session'[s].touched /\ session'[s].pc = "idle"
      /\ session'[s].deliveries = session[s].deliveries \ {o}
  BY <1>0, <1>1 DEF CoreAcknowledge, Session
<1>4. Taken(s) = {} /\ Taken(s)' = {}
  BY <1>1, <1>3 DEF Taken
<1>5. UNCHANGED <<holder, position>> /\ (holder = 0 => UNCHANGED <<inflight, acknowledged>>)
  BY <1>1 DEF CoreAcknowledge, Acknowledge, AcknowledgeRaises, Known
<1>6. CASE session'[s].failed
  BY <1>1, <1>3, <1>4, <1>5, <1>6, SuspendedData DEF Suspended, Failed, Committable
<1>7. CASE ~session'[s].failed
  <2>1. Acknowledge(current, o) /\ session'[s].failed = session[s].failed
    BY <1>0, <1>1, <1>7 DEF CoreAcknowledge, Session
  <2>2. Known(o) /\ ~Failed(s) /\ ~Suspended(s) /\ o \in Unsettled(s)
    BY <1>1, <1>2, <1>7, <2>1 DEF Acknowledge, Failed, Suspended, Unsettled
  <2> QED
    BY <1>1, <1>2, <1>3, <1>4, <2>1, <2>2, AcknowledgedData
<1> QED
  BY <1>6, <1>7

\* acknowledge in transactional-consume-publish.
LEMMA OperationAcknowledgeData ==
    ASSUME NEW s, Base(s), OperationAcknowledge(s)
    PROVE  DataShape(s)'
<1>0. /\ s \in Sessions /\ TypeInv /\ SessionShape(s) /\ BridgeShape(s)
      /\ ConsumerShape(s) /\ DeliveryShape(s) /\ RuntimeShape
  BY DEF Base, OneSession, DataShape, TypeInv
<1>1. PICK o : o = session[s].delivery
  OBVIOUS
<1>2. /\ session[s].pc = "op-ack" /\ session[s].pc \in Calling
      /\ UNCHANGED <<kafka, runtime>>
  BY DEF OperationAcknowledge, Calling
<1>3. /\ session \in [Sessions -> Session] /\ session[s] \in Session
      /\ o \in Offsets /\ session[s].touched /\ Offsets \subseteq Nat
      /\ session[s].deliveries \subseteq Offsets
  BY <1>0, <1>1, <1>2, TypeFacts, DataTypes DEF SessionShape
<1>4. /\ session'[s].on = session[s].on /\ session'[s].active = session[s].active
      /\ session'[s].failed = session[s].failed /\ session'[s].sent = session[s].sent
      /\ session'[s].touched
      /\ session'[s].deliveries = session[s].deliveries
      /\ session'[s].pc \in {"idle", "op-commit", "op-except"}
  BY <1>0, <1>3 DEF OperationAcknowledge, Session
<1>5. Taken(s) = {o} /\ Taken(s)' = {}
  BY <1>1, <1>2, <1>4 DEF Taken
<1>6. Known(o) => phase = "open" /\ session[s].bridge = current
  <2>1. SUFFICES ASSUME Known(o) PROVE phase = "open" /\ session[s].bridge = current
    OBVIOUS
  <2>2. holder = current /\ o \in inflight /\ current # 0
    BY <1>0, <2>1 DEF Known, ConsumerShape
  <2>3. phase = "open"
    BY <1>0, <2>2 DEF RuntimeShape
  <2> QED
    BY <1>0, <1>2, <2>2, <2>3 DEF BridgeShape
<1>7. \/ Acknowledge(session[s].bridge, o) /\ session'[s].pc # "op-except"
      \/ AcknowledgeRaises(session[s].bridge, o) /\ session'[s].pc = "op-except"
  BY <1>0, <1>1, <1>3 DEF OperationAcknowledge, Session
<1>8. /\ UNCHANGED <<holder, position>>
      /\ holder = 0 => UNCHANGED <<inflight, acknowledged>>
  <2>1. Known(o) => holder # 0
    BY <1>0 DEF Known, ConsumerShape
  <2> QED
    BY <1>7, <2>1 DEF Acknowledge, AcknowledgeRaises
<1>9. CASE session'[s].pc = "op-except" \/ Failed(s)
  <2>1. Suspended(s)' /\ ~Committable(s)'
    BY <1>4, <1>9 DEF Suspended, Committable, Failed
  <2> QED
    BY <1>2, <1>4, <1>5, <1>8, <2>1, SuspendedData
<1>10. CASE session'[s].pc # "op-except" /\ ~Failed(s)
  <2>1. Acknowledge(current, o) /\ Known(o) /\ phase = "open"
    BY <1>6, <1>7, <1>10 DEF Acknowledge
  <2>2. ~Suspended(s) /\ o \in Unsettled(s)
    BY <1>2, <1>3, <1>5, <1>10 DEF Suspended, Unsettled
  <2>3. \A d \in session[s].deliveries : o < d
    BY <1>0, <1>5 DEF DeliveryShape
  <2>4. o \notin session[s].deliveries /\ \A d \in session[s].deliveries \cup Taken(s) : o <= d
    <3>1. o \in Nat /\ \A d \in session[s].deliveries : d \in Nat
      BY <1>3
    <3>2. o \notin session[s].deliveries
      BY <2>3, <3>1
    <3>3. \A d \in session[s].deliveries : o <= d
      BY <2>3, <3>1
    <3>4. o <= o
      BY <3>1
    <3> QED
      BY <1>5, <3>2, <3>3, <3>4
  <2>5. session'[s].deliveries = session[s].deliveries \ {o}
    BY <1>4, <2>4
  <2> QED
    BY <1>2, <1>4, <1>5, <1>10, <2>1, <2>2, <2>4, <2>5, AcknowledgedData
<1> QED
  BY <1>9, <1>10

-----------------------------------------------------------------------------
(* Commit and rollback.                                                    *)

\* A commit that takes place makes the staged offset and the outputs of exactly the
\* Events before it visible, once; the consumer is already there.
LEMMA AppliedData ==
    ASSUME NEW s, Base(s), Committable(s), session[s].pc \in {"idle", "op-commit"},
           Unsettled(s) = {}, NEW g, g = session[s].on, Applied(bridge[g]),
           bridge' = [bridge EXCEPT ![g] = Finish(Ended(@))],
           UNCHANGED <<runtime, consumer>>,
           /\ session'[s].on = session[s].on /\ ~session'[s].active
           /\ session'[s].deliveries = session[s].deliveries
           /\ session'[s].pc \in {"idle", "recover", "op-except"}
    PROVE  DataShape(s)'
<1>0. /\ s \in Sessions /\ TypeInv /\ SessionShape(s) /\ BridgeShape(s)
      /\ TransactionShape(s) /\ ConsumerShape(s) /\ DeliveryShape(s) /\ ExactlyOnce
  BY DEF Base, OneSession, DataShape
<1>1. /\ g \in Generations /\ bridge \in [Generations -> Bridge] /\ bridge[g] \in Bridge
      /\ committed \in Nat /\ position \in Nat /\ bridge[g].staged \in Nat
      /\ committed \in Positions /\ bridge[g].staged \in Positions
      /\ visible \subseteq Offsets /\ Offsets \subseteq Nat
  BY <1>0, CommittableFacts, TypeFacts, DataTypes DEF Committable
<1>2. /\ committed <= Staged(s)
      /\ bridge[g].outputs = committed .. Staged(s) - 1
      /\ \A o \in session[s].deliveries : Staged(s) <= o
  BY <1>0 DEF TransactionShape
<1>3. /\ committed' = Staged(s) /\ Staged(s) \in Nat /\ Staged(s) \in Positions
      /\ visible' = visible \cup bridge[g].outputs
      /\ twice' = twice \cup (visible \cap bridge[g].outputs)
  BY <1>1 DEF Applied, Staged
<1>4. ~bridge'[g].active /\ bridge'[g].txn = NoSession
      /\ bridge'[g].producer = bridge[g].producer
  BY <1>1, FinishFields
<1>5. TransactionShape(s)'
  BY <1>4 DEF TransactionShape, Committable, Live
<1>6. Taken(s) = {} /\ Taken(s)' = {} /\ ~Failed(s) /\ ~Suspended(s)
  BY DEF Taken, Committable, Suspended
<1>7. DeliveryShape(s)'
  BY <1>2, <1>3, <1>6 DEF DeliveryShape
<1>8. ConsumerShape(s)'
  <2>1. CASE phase = "open" /\ holder = current
    <3>1. g = current /\ Usable /\ bridge[current].active
      BY <2>1, CommittableFacts DEF Committable
    <3>2. /\ acknowledged = {} /\ safe_next = Expected(s) /\ safe_next <= position
          /\ inflight = safe_next .. position - 1
          /\ inflight \subseteq session[s].deliveries
      BY <1>0, <1>6, <2>1, <3>1 DEF ConsumerShape
    <3>3. Expected(s) = Staged(s)
      BY <1>6, <3>1 DEF Expected
    <3>4. Expected(s)' = committed'
      BY <1>4, <3>1 DEF Expected
    <3>5. holder # 0
      BY <1>0, <1>1, <2>1, <3>1, TypeFacts
    <3> QED
      BY <1>3, <1>6, <3>2, <3>3, <3>4, <3>5 DEF ConsumerShape
  <2>2. CASE ~(phase = "open" /\ holder = current)
    BY <1>0, <2>2 DEF ConsumerShape
  <2> QED
    BY <2>1, <2>2
<1>9. ExactlyOnce'
  <2>1. \A o \in Offsets : o < committed <=> o \in visible
    BY <1>0 DEF ExactlyOnce
  <2>2. \A o \in Offsets : o \in bridge[g].outputs <=> committed <= o /\ o < Staged(s)
    <3> SUFFICES ASSUME NEW o \in Offsets
                 PROVE  o \in bridge[g].outputs <=> committed <= o /\ o < Staged(s)
      OBVIOUS
    <3>1. o \in Nat
      BY <1>1
    <3> QED
      BY <1>1, <1>2, <1>3, <3>1
  <2>3. \A o \in Offsets : o < committed' <=> o \in visible'
    <3> SUFFICES ASSUME NEW o \in Offsets PROVE o < committed' <=> o \in visible'
      OBVIOUS
    <3>1. o \in Nat
      BY <1>1
    <3>2. o \in visible' <=> o < committed \/ (committed <= o /\ o < Staged(s))
      BY <1>3, <2>1, <2>2
    <3> QED
      BY <1>1, <1>2, <1>3, <3>1, <3>2
  <2>4. visible \cap bridge[g].outputs = {}
    <3> SUFFICES ASSUME NEW o \in visible, o \in bridge[g].outputs PROVE FALSE
      OBVIOUS
    <3>1. o \in Offsets /\ o \in Nat
      BY <1>1
    <3> QED
      BY <1>1, <2>1, <2>2, <3>1
  <2>5. twice' = {}
    BY <1>0, <1>3, <2>4 DEF ExactlyOnce
  <2> QED
    BY <2>3, <2>5 DEF ExactlyOnce
<1> QED
  BY <1>5, <1>7, <1>8, <1>9 DEF DataShape

\* A Core transaction that is rolled back, or whose commit raises without effect.
LEMMA AbortedData ==
    ASSUME NEW s, Base(s), phase = "open", session[s].pc = "idle", session[s].active,
           \/ ~bridge[current].active /\ UNCHANGED bridge
           \/ /\ bridge[current].active
              /\ \E b \in {Finish(bridge[current]), Finish(Ended(bridge[current]))} :
                    bridge' = [bridge EXCEPT ![current] = b],
           UNCHANGED <<kafka, runtime, consumer>>,
           /\ session'[s].on = session[s].on /\ ~session'[s].active
           /\ session'[s].deliveries = session[s].deliveries
           /\ session'[s].touched = session[s].touched
           /\ session'[s].pc = "recover"
    PROVE  DataShape(s)'
<1>0. /\ s \in Sessions /\ TypeInv /\ SessionShape(s) /\ BridgeShape(s)
      /\ TransactionShape(s) /\ ConsumerShape(s) /\ DeliveryShape(s) /\ ExactlyOnce
  BY DEF Base, OneSession, DataShape
<1>1. /\ bridge \in [Generations -> Bridge] /\ current \in Generations
      /\ bridge[current] \in Bridge /\ current # 0
  BY <1>0, TypeFacts
<1>2. Taken(s) = {} /\ Taken(s)' = {}
  BY DEF Taken
<1>3. DeliveryShape(s)'
  BY <1>0, <1>2, DeliveriesKept
<1>4. ExactlyOnce'
  BY <1>0 DEF ExactlyOnce
<1>5. /\ ~bridge'[current].active
      /\ bridge'[current].producer = bridge[current].producer
      /\ \A h \in Generations \ {current} : bridge'[h] = bridge[h]
      /\ bridge[current].active \/ bridge'[current] = bridge[current]
  BY <1>1, FinishFields
<1>6. TransactionShape(s)'
  <2>1. SUFFICES ASSUME Committable(s)' PROVE FALSE
    BY DEF TransactionShape
  <2>2. session[s].on # 0 /\ session[s].on \in Generations /\ session[s].on # current
    BY <1>0, <1>5, <2>1, TypeFacts DEF Committable, Live
  <2>3. Live(session[s].on)
    BY <1>5, <2>1, <2>2 DEF Committable, Live
  <2> QED
    BY <2>2, <2>3, CommittableFacts
<1>7. ConsumerShape(s)'
  <2>1. CASE session[s].touched
    BY <1>0, <2>1, ConsumerDropped DEF Suspended
  <2>2. CASE ~session[s].touched
    <3>1. Usable' => Usable
      BY <1>5 DEF Usable
    <3>2. Expected(s)' = committed
      BY <1>5 DEF Expected
    <3>3. Usable => Expected(s) = committed
      <4>1. CASE bridge[current].active /\ ~Failed(s) /\ Usable
        <5>1. session[s].on = current /\ Live(current)
          BY <4>1, CurrentFacts DEF Usable, Live
        <5>2. Committable(s)
          BY <1>1, <4>1, <5>1 DEF Committable
        <5>3. ~(bridge[current].staged > 0)
          BY <1>0, <2>2, <5>1, <5>2 DEF TransactionShape
        <5> QED
          BY <4>1, <5>1, <5>3 DEF Expected, Staged
      <4>2. CASE ~(bridge[current].active /\ ~Failed(s))
        BY <4>2 DEF Expected
      <4> QED
        BY <4>1, <4>2
    <3>4. ~Suspended(s)
      BY <2>2 DEF Suspended
    <3> QED
      BY <1>0, <1>2, <3>1, <3>2, <3>3, <3>4, ConsumerKept
  <2> QED
    BY <2>1, <2>2
<1> QED
  BY <1>3, <1>4, <1>6, <1>7 DEF DataShape

\* commit of a Core transaction.
LEMMA CoreCommitData ==
    ASSUME NEW s, Base(s), CoreCommit(s)
    PROVE  DataShape(s)'
<1>0. /\ s \in Sessions /\ TypeInv
  BY DEF Base, OneSession
<1>1. /\ session \in [Sessions -> Session] /\ session[s] \in Session
      /\ phase = "open" /\ session[s].pc = "idle" /\ current # 0
      /\ session[s].active /\ ~session[s].failed
      /\ session[s].sent \cap session[s].deliveries = {}
      /\ UNCHANGED <<runtime, consumer>>
  BY <1>0, TypeFacts DEF CoreCommit, MayCall
<1>2. /\ session'[s].on = session[s].on /\ ~session'[s].active
      /\ session'[s].deliveries = session[s].deliveries
      /\ session'[s].pc \in {"idle", "recover"}
  BY <1>0, <1>1 DEF CoreCommit, Session
<1>3. CASE Applied(bridge[current]) /\ bridge[current].active
           /\ bridge[current].producer = "ready"
           /\ bridge' = [bridge EXCEPT ![current] = Finish(Ended(@))]
  <2>1. session[s].on = current /\ Live(current)
    BY <1>1, <1>3, CurrentFacts DEF Live
  <2>2. Committable(s)
    BY <1>1, <2>1 DEF Committable, Failed
  <2>3. Unsettled(s) = {}
    BY <1>1 DEF Unsettled, Taken
  <2> QED
    BY <1>1, <1>2, <1>3, <2>1, <2>2, <2>3, AppliedData
<1>4. CASE session' = [session EXCEPT ![s].active = FALSE, ![s].pc = "recover"]
           /\ UNCHANGED kafka
           /\ \/ ~bridge[current].active /\ UNCHANGED bridge
              \/ /\ bridge[current].active
                 /\ \E b \in {Finish(bridge[current]), Finish(Ended(bridge[current]))} :
                        bridge' = [bridge EXCEPT ![current] = b]
  <2>1. session'[s].pc = "recover" /\ session'[s].touched = session[s].touched
    BY <1>0, <1>1, <1>4 DEF Session
  <2> QED
    BY <1>1, <1>2, <1>4, <2>1, AbortedData
<1> QED
  BY <1>3, <1>4 DEF CoreCommit, CommitSucceeds, CommitRaises, CanCommit, Aborts

\* rollback of a Core transaction.
LEMMA CoreRollbackData ==
    ASSUME NEW s, Base(s), CoreRollback(s)
    PROVE  DataShape(s)'
<1>0. /\ s \in Sessions /\ TypeInv
  BY DEF Base, OneSession
<1>1. /\ session \in [Sessions -> Session] /\ session[s] \in Session
      /\ bridge \in [Generations -> Bridge] /\ current \in Generations
      /\ phase = "open" /\ session[s].pc = "idle"
      /\ session[s].active
      /\ UNCHANGED <<kafka, runtime, consumer>>
  BY <1>0, TypeFacts DEF CoreRollback, MayCall
<1>2. /\ session'[s].on = session[s].on /\ ~session'[s].active
      /\ session'[s].deliveries = session[s].deliveries
      /\ session'[s].pc = "recover" /\ session'[s].touched = session[s].touched
  BY <1>0, <1>1 DEF CoreRollback, Session
<1>3. PICK b \in AbortOf(bridge[current]) : bridge' = [bridge EXCEPT ![current] = b]
  BY DEF CoreRollback
<1>4. CASE bridge[current].active
  <2>1. b \in {Finish(bridge[current]), Finish(Ended(bridge[current]))}
    BY <1>3, <1>4 DEF AbortOf, Aborts
  <2> QED
    BY <1>1, <1>2, <1>3, <1>4, <2>1, AbortedData
<1>5. CASE ~bridge[current].active
  <2>1. UNCHANGED bridge
    BY <1>1, <1>3, <1>5 DEF AbortOf
  <2> QED
    BY <1>1, <1>2, <1>5, <2>1, AbortedData
<1> QED
  BY <1>4, <1>5

\* commit of transactional-consume-publish.
LEMMA OperationCommitData ==
    ASSUME NEW s, Base(s), OperationCommit(s)
    PROVE  DataShape(s)'
<1>0. /\ s \in Sessions /\ TypeInv /\ SessionShape(s)
  BY DEF Base, OneSession
<1>1. PICK g : g = session[s].bridge
  OBVIOUS
<1>2. /\ session[s].pc = "op-commit" /\ session[s].pc \in Calling
      /\ UNCHANGED <<runtime, consumer>>
  BY DEF OperationCommit, Calling
<1>3. /\ session \in [Sessions -> Session] /\ session[s] \in Session
      /\ g \in Generations /\ g # 0
      /\ session[s].on = g /\ ~session[s].active /\ session[s].touched
  BY <1>0, <1>1, <1>2, TypeFacts DEF SessionShape
<1>4. /\ session'[s].on = session[s].on /\ ~session'[s].active
      /\ session'[s].deliveries = session[s].deliveries
      /\ session'[s].pc \in {"idle", "op-except"}
  BY <1>0, <1>3 DEF OperationCommit, Session
<1>5. CASE Applied(bridge[g]) /\ bridge[g].active /\ bridge[g].producer = "ready"
           /\ bridge' = [bridge EXCEPT ![g] = Finish(Ended(@))]
  <2>1. Committable(s) /\ Unsettled(s) = {}
    BY <1>2, <1>3, <1>5 DEF Committable, Live, Failed, Unsettled
  <2> QED
    BY <1>2, <1>3, <1>4, <1>5, <2>1, AppliedData
<1>6. CASE session' = [session EXCEPT ![s].pc = "op-except"] /\ UNCHANGED kafka
  <2>1. session'[s].pc = "op-except" /\ session'[s].touched
    BY <1>0, <1>3, <1>6 DEF Session
  <2>2. Suspended(s)' /\ ~Committable(s)' /\ Taken(s)' = {}
    BY <2>1 DEF Suspended, Committable, Taken
  <2> QED
    BY <1>2, <1>4, <1>6, <2>2, SuspendedData
<1> QED
  BY <1>1, <1>5, <1>6 DEF OperationCommit, CommitSucceeds, CommitRaises, CanCommit

-----------------------------------------------------------------------------
\* Every step preserves the invariant.
LEMMA NextBase ==
    ASSUME NEW s, Base(s), [Next]_vars
    PROVE  Base(s)'
<1>0. OneSession(s) /\ TypeInv /\ SessionShape(s) /\ BridgeShape(s) /\ DataShape(s)
  BY DEF Base
<1>1. CASE UNCHANGED vars
  <2>1. BridgeShape(s)'
    BY <1>0, <1>1 DEF BridgeShape, Live
  <2>2. DataShape(s)'
    <3>1. TransactionShape(s)'
      BY <1>0, <1>1 DEF DataShape, TransactionShape, Committable, Live, Failed, Staged,
                        Taken, Unsettled
    <3>2. ConsumerShape(s)' /\ DeliveryShape(s)'
      BY <1>0, <1>1 DEF DataShape, ConsumerShape, DeliveryShape, Usable, Suspended, Failed,
                        Expected, Staged, Taken
    <3> QED
      BY <1>0, <1>1, <3>1, <3>2 DEF DataShape, ExactlyOnce
  <2> QED
    BY <1>0, <1>1, <2>1, <2>2, NextType, NextSessionShape DEF Base, OneSession
<1>2. CASE RuntimeStep
  BY <1>0, <1>2, NextType, NextSessionShape, RuntimeBridgeShape, RuntimeData
  DEF Base, OneSession, Next
<1>3. CASE SessionStep(s)
  <2>1. DataShape(s)'
    <3>1. ASSUME NEW o, PlainAcknowledge(s, o) PROVE FALSE
      BY <1>0, <3>1 DEF PlainAcknowledge, OneSession
    <3> QED
      BY <1>3, <3>1, QuietData, LeaseData, BeginRaisesData, PollData, CorePublishData,
         CoreAcknowledgeData, CoreCommitData, CoreRollbackData, RecoverData,
         OperationCallData, OperationPublishData, OperationAcknowledgeData,
         OperationCommitData, OperationExceptData DEF SessionStep
  <2> QED
    BY <1>0, <1>3, <2>1, NextType, NextSessionShape, SessionBridgeShape
    DEF Base, OneSession, Next
<1> QED
  BY <1>0, <1>1, <1>2, <1>3 DEF Next, OneSession

\* The initial state satisfies the invariant.
LEMMA InitBase ==
    ASSUME NEW s, OneSession(s), Init
    PROVE  Base(s)
<1>1. s \in Sessions /\ session[s] = NewSession /\ TypeInv
  BY InitType DEF OneSession, Init
<1>2. SessionShape(s)
  BY <1>1 DEF SessionShape, NewSession
<1>3. BridgeShape(s)
  BY <1>1 DEF BridgeShape, Init, NewSession, NewBridge, Live, Calling
<1>4. TransactionShape(s) /\ DeliveryShape(s)
  BY <1>1 DEF TransactionShape, DeliveryShape, Committable, Taken, NewSession
<1>5. ConsumerShape(s)
  BY DEF ConsumerShape, Init
<1>6. ExactlyOnce
  BY NumberFacts DEF ExactlyOnce, Init
<1> QED
  BY <1>1, <1>2, <1>3, <1>4, <1>5, <1>6 DEF Base, DataShape

\* Consume-transform-produce is exactly once: with one session that takes its
\* deliveries in order, in Core transactions or with transactional-consume-publish, an
\* output is visible exactly when the group's committed offset has passed its Event, and
\* none is made visible twice, through rotations, crashes, a close, and every failure of
\* a publish, a commit (with or without effect) or an abort.
THEOREM TransactionsExactlyOnce ==
    ASSUME NEW s, Sessions = {s}, "plain-ack" \notin Env, "out-of-order" \notin Env
    PROVE  Spec => []ExactlyOnce
<1>0. OneSession(s)
  BY DEF OneSession
<1>1. Init => Base(s)
  BY <1>0, InitBase
<1>2. Base(s) /\ [Next]_vars => Base(s)'
  BY NextBase
<1>3. Base(s) => ExactlyOnce
  BY DEF Base, DataShape
<1> QED
  BY <1>1, <1>2, <1>3, PTL DEF Spec
=============================================================================
