-------------------------- MODULE RuntimeLifecycle --------------------------
(***************************************************************************)
(* KafkaAdapterRuntime of runtime.py: which clients exist, who refers to   *)
(* them and who closes them, while threads open, rotate and close the      *)
(* runtime and sessions execute publishes on it.                           *)
(*                                                                         *)
(* The g-th open() of a runtime, the runtime's own or a replacement's,     *)
(* makes the clients of generation g: the engines around a consumer and a  *)
(* producer, and the bridge when transactions are enabled.  open, close    *)
(* and the swap of a rotation hold self._lock; a session reads the fields  *)
(* without it, one after the other.  A session outside a transaction       *)
(* publishes under an idempotency key of its own and repeats the call      *)
(* while it raises; no key is evicted from the cache here (see             *)
(* ProducerEngine).  Clients a failed open has not yet stored in a field   *)
(* are garbage and are left out, as are the settings and the compiler,     *)
(* which a rotation may not change.                                        *)
(***************************************************************************)
EXTENDS Integers, Sequences, FiniteSets, SequencesExt

CONSTANTS
    Admins,              \* threads that call open, close, rotate_credentials
    Sessions,            \* sessions, and the keys they publish under
    NoAdmin,             \* self._lock is free
    TransactionEnabled,  \* settings.transaction_enabled
    MaxGeneration,       \* bound on open() calls
    MaxAttempts,         \* bound on calls of execute per session
    Env                  \* behaviours a run admits

Generations == 1 .. MaxGeneration

Environment ==
    { "open-failure",    \* a probe or init_transactions inside open raises
      "probe-failure",   \* a later probe raises
      "close-failure",   \* a close of a client raises
      "publish-failure", \* a publish raises
      "rotation", "close" }

ASSUME LifecycleAssumption ==
    /\ NoAdmin \notin Admins
    /\ TransactionEnabled \in BOOLEAN
    /\ MaxGeneration \in Nat
    /\ MaxAttempts \in Nat
    /\ Env \subseteq Environment

Kinds == {"consumer", "bridge", "producer"}

\* A field of the runtime holds a generation, or 0 for None.
Fields == {"probe"} \cup Kinds

VARIABLES
    \* The runtime.
    opened, closed, lock,
    field,
    \* Clients: state by kind and generation, and the bridges whose producer a
    \* later init_transactions has fenced.
    client, fenced,
    generation,        \* open() calls so far
    \* The threads.
    call, op,
    \* The idempotency cache of each generation's producer engine.
    cache,
    \* History: the writes of a session's Event, in order; clients nobody will
    \* close; rotations that overlapped or did not end in a swap.
    written, abandoned, disturbed

runtime == <<opened, closed, lock, field>>
clients == <<client, fenced, generation>>
history == <<abandoned, disturbed>>
publishing == <<op, cache, written>>
vars == <<runtime, clients, call, publishing, history>>

\* target is the generation a call opens or swaps in, todo the clients it still
\* has to close, next the fields it has still to assign.
Call ==
    [operation : {"none", "open", "rotate", "close"},
     pc : {"idle", "probing", "initialising", "reprobing", "swapping", "assigning",
           "closing"},
     target : 0 .. MaxGeneration, todo : Seq(Kinds \X Generations),
     next : Seq(Fields)]

Idle == [operation |-> "none", pc |-> "idle", target |-> 0, todo |-> <<>>, next |-> <<>>]

Operation ==
    [pc : {"idle", "dispatch", "answered"},
     producer : 0 .. MaxGeneration, attempts : 0 .. MaxAttempts]
        \cup [pc : {"effect", "probe"}, producer : Generations, attempts : 0 .. MaxAttempts]

\* A write of an Event: whose producer wrote it, and whether the publish that had
\* queued it raised.
Write == [generation : Generations, raised : BOOLEAN]

TypeOK ==
    /\ opened \in BOOLEAN
    /\ closed \in BOOLEAN
    /\ lock \in Admins \cup {NoAdmin}
    /\ field \in [Fields -> 0 .. MaxGeneration]
    /\ client \in [Kinds \X Generations -> {"none", "open", "closed"}]
    /\ fenced \subseteq Generations
    /\ generation \in 0 .. MaxGeneration
    /\ call \in [Admins -> Call]
    /\ op \in [Sessions -> Operation]
    /\ cache \in [Generations -> SUBSET Sessions]
    /\ written \in [Sessions -> Seq(Write)]
    /\ abandoned \subseteq Kinds \X Generations
    /\ disturbed \in BOOLEAN

NoFields == [f \in Fields |-> 0]

Init ==
    /\ opened = FALSE
    /\ closed = FALSE
    /\ lock = NoAdmin
    /\ field = NoFields
    /\ client = [c \in Kinds \X Generations |-> "none"]
    /\ fenced = {}
    /\ generation = 0
    /\ call = [a \in Admins |-> Idle]
    /\ op = [s \in Sessions |-> [pc |-> "idle", producer |-> 0, attempts |-> 0]]
    /\ cache = [g \in Generations |-> {}]
    /\ written = [s \in Sessions |-> <<>>]
    /\ abandoned = {}
    /\ disturbed = FALSE

-----------------------------------------------------------------------------
(* Closing.  consumer, then bridge, then producer.                         *)

\* Mutant of CloseOrder: the bridge is forgotten.
CloseOrderWithoutBridge(of) ==
    LET one(k) == IF of[k] = 0 THEN <<>> ELSE << <<k, of[k]>> >>
    IN  one("consumer") \o one("producer")

\* The clients a runtime with the fields of refers to, in the order they are closed.
CloseOrder(of) ==
    LET one(k) == IF of[k] = 0 THEN <<>> ELSE << <<k, of[k]>> >>
    IN  one("consumer") \o one("bridge") \o one("producer")

\* The fields of the replacement that opened generation g.
Replacement(g) == [k \in Kinds |-> IF client[<<k, g>>] = "none" THEN 0 ELSE g]

\* The call of a goes on to close the clients of generation g.
Closes(a, g) ==
    call' = [call EXCEPT ![a].pc = "closing", ![a].todo = CloseOrder(Replacement(g))]

CloseOne(a) ==
    /\ call[a].pc = "closing"
    /\ call[a].todo # <<>>
    /\ client' = [client EXCEPT ![Head(call[a].todo)] = "closed"]
    /\ call' = [call EXCEPT ![a].todo = Tail(@)]
    /\ UNCHANGED <<runtime, fenced, generation, publishing, history>>

\* The call of a ends, and releases the lock if it has it.
Returns(a) ==
    /\ call' = [call EXCEPT ![a] = Idle]
    /\ lock' = IF lock = a THEN NoAdmin ELSE lock

CloseReturns(a) ==
    /\ call[a].pc = "closing"
    /\ call[a].todo = <<>>
    /\ Returns(a)
    /\ UNCHANGED <<opened, closed, field, clients, publishing, history>>

\* A close raises: what comes after it in the order is never closed.
CloseRaises(a) ==
    /\ "close-failure" \in Env
    /\ call[a].pc = "closing"
    /\ call[a].todo # <<>>
    /\ abandoned' = abandoned \cup Range(call[a].todo)
    /\ Returns(a)
    /\ UNCHANGED <<opened, closed, field, clients, publishing, disturbed>>

-----------------------------------------------------------------------------
(* open, of the runtime or of a replacement.                               *)

\* The clients of the next generation; the bridge comes after the probe.
Creates(g) ==
    /\ generation < MaxGeneration
    /\ g = generation + 1
    /\ generation' = g
    /\ client' = [client EXCEPT ![<<"consumer", g>>] = "open",
                                ![<<"producer", g>>] = "open"]

OpenBegin(a, g) ==
    /\ call[a].pc = "idle"
    /\ lock = NoAdmin
    /\ ~opened /\ ~closed
    /\ Creates(g)
    /\ lock' = a
    /\ field' = [f \in Fields |-> IF f = "bridge" THEN 0 ELSE g]
    /\ call' = [call EXCEPT ![a] =
            [Idle EXCEPT !.operation = "open", !.pc = "probing", !.target = g]]
    /\ UNCHANGED <<opened, closed, fenced, publishing, history>>

\* b has begun a rotation.
InProgress(b) == call[b].operation = "rotate"

\* rotate_credentials does not look at the runtime before it opens a replacement:
\* a closed one is refused at the swap.  One that was never opened is left out.
RotateBegin(a, g) ==
    /\ "rotation" \in Env
    /\ call[a].pc = "idle"
    /\ opened
    /\ Creates(g)
    /\ call' = [call EXCEPT ![a] =
            [Idle EXCEPT !.operation = "rotate", !.pc = "probing", !.target = g]]
    /\ disturbed' = (disturbed \/ \E b \in Admins : InProgress(b))
    /\ UNCHANGED <<runtime, fenced, publishing, abandoned>>

\* The probe inside open; then the bridge is created and stored in its field.
OpenProbe(a) ==
    LET g == call[a].target
    IN  /\ call[a].pc = "probing"
        /\ IF TransactionEnabled
           THEN /\ client' = [client EXCEPT ![<<"bridge", g>>] = "open"]
                /\ field' = IF call[a].operation = "open"
                            THEN [field EXCEPT !["bridge"] = g] ELSE field
           ELSE UNCHANGED <<client, field>>
        /\ call' = [call EXCEPT ![a].pc = "initialising"]
        /\ UNCHANGED <<opened, closed, lock, fenced, generation, publishing, history>>

\* init_transactions fences the producers that used the transactional id before.
Fenced(g) == fenced \cup {h \in Generations : h # g /\ client[<<"bridge", h>>] # "none"}

\* The bridge is initialised and open returns.
OpenReturns(a) ==
    /\ call[a].pc = "initialising"
    /\ fenced' = IF TransactionEnabled THEN Fenced(call[a].target) ELSE fenced
    /\ \/ /\ call[a].operation = "open"
          /\ opened' = TRUE
          /\ Returns(a)
       \/ /\ call[a].operation = "rotate"
          /\ call' = [call EXCEPT ![a].pc = "reprobing"]
          /\ UNCHANGED <<opened, lock>>
    /\ UNCHANGED <<closed, field, client, generation, publishing, history>>

\* The probe or init_transactions raises: _close_components, and open may be called
\* again.  An init_transactions that raises may have fenced all the same.
OpenRaises(a) ==
    /\ "open-failure" \in Env
    /\ \/ call[a].pc = "probing" /\ UNCHANGED fenced
       \/ /\ TransactionEnabled
          /\ call[a].pc = "initialising"
          /\ fenced' \in {fenced, Fenced(call[a].target)}
    /\ field' = IF call[a].operation = "open" THEN NoFields ELSE field
    /\ Closes(a, call[a].target)
    /\ disturbed' = (disturbed \/ call[a].operation = "rotate")
    /\ UNCHANGED <<opened, closed, lock, client, generation, publishing, abandoned>>

-----------------------------------------------------------------------------
(* The rest of rotate_credentials, and close.                              *)

IsOpen == opened /\ ~closed

RotateProbe(a) ==
    /\ call[a].pc = "reprobing"
    /\ call' = [call EXCEPT ![a].pc = "swapping"]
    /\ UNCHANGED <<runtime, clients, publishing, history>>

\* replacement.probe() raises: replacement.close().
RotateProbeRaises(a) ==
    /\ "probe-failure" \in Env
    /\ call[a].pc = "reprobing"
    /\ Closes(a, call[a].target)
    /\ disturbed' = TRUE
    /\ UNCHANGED <<runtime, clients, publishing, abandoned>>

\* _require_open raises: the replacement is not closed by anyone.
RotateRefused(a) ==
    /\ call[a].pc = "swapping"
    /\ lock = NoAdmin
    /\ ~IsOpen
    /\ abandoned' = abandoned \cup Range(CloseOrder(Replacement(call[a].target)))
    /\ disturbed' = TRUE
    /\ Returns(a)
    /\ UNCHANGED <<opened, closed, field, clients, publishing>>

\* Mutant of RotateSwap: the bridge is not replaced.
RotateSwapKeepsBridge(a) ==
    /\ call[a].pc = "swapping"
    /\ lock = NoAdmin
    /\ IsOpen
    /\ lock' = a
    /\ call' = [call EXCEPT ![a].pc = "assigning",
                            ![a].todo = CloseOrder(field),
                            ![a].next = <<"probe", "producer", "consumer">>]
    /\ UNCHANGED <<opened, closed, field, clients, publishing, history>>

\* The lock is taken and the old clients are remembered.
RotateSwap(a) ==
    /\ call[a].pc = "swapping"
    /\ lock = NoAdmin
    /\ IsOpen
    /\ lock' = a
    /\ call' = [call EXCEPT ![a].pc = "assigning",
                            ![a].todo = CloseOrder(field),
                            ![a].next = <<"probe", "producer", "consumer", "bridge">>]
    /\ UNCHANGED <<opened, closed, field, clients, publishing, history>>

\* Mutant of RotateAssign: the field is cleared before the old clients are closed.
RotateAssignNone(a) ==
    /\ call[a].pc = "assigning"
    /\ call[a].next # <<>>
    /\ field' = [field EXCEPT ![Head(call[a].next)] = IF @ = 0 THEN call[a].target ELSE 0]
    /\ call' = [call EXCEPT ![a].next =
                    IF field[Head(@)] = 0 THEN Tail(@) ELSE @]
    /\ UNCHANGED <<opened, closed, lock, clients, publishing, history>>

\* One field of the runtime is replaced: sessions may see it at once.
RotateAssign(a) ==
    /\ call[a].pc = "assigning"
    /\ call[a].next # <<>>
    /\ field' = [field EXCEPT ![Head(call[a].next)] =
            IF Head(call[a].next) = "bridge" /\ ~TransactionEnabled THEN 0
            ELSE call[a].target]
    /\ call' = [call EXCEPT ![a].next = Tail(@)]
    /\ UNCHANGED <<opened, closed, lock, clients, publishing, history>>

\* The lock is released; the old clients are closed after that.
RotateRelease(a) ==
    /\ call[a].pc = "assigning"
    /\ call[a].next = <<>>
    /\ lock' = NoAdmin
    /\ call' = [call EXCEPT ![a].pc = "closing", ![a].target = 0]
    /\ UNCHANGED <<opened, closed, field, clients, publishing, history>>

\* Mutant of CloseBegin: the runtime is marked closed, its components stay.
CloseBeginMarks(a) ==
    /\ "close" \in Env
    /\ call[a].pc = "idle"
    /\ lock = NoAdmin
    /\ ~closed
    /\ closed' = TRUE
    /\ UNCHANGED <<opened, lock, field, clients, call, publishing, history>>

\* close: the fields are cleared, then the clients are closed under the lock.
CloseBegin(a) ==
    /\ "close" \in Env
    /\ call[a].pc = "idle"
    /\ lock = NoAdmin
    /\ ~closed
    /\ closed' = TRUE
    /\ lock' = a
    /\ field' = NoFields
    /\ call' = [call EXCEPT ![a] = [Idle EXCEPT
            !.operation = "close", !.pc = "closing",
            !.todo = CloseOrder(field)]]
    /\ UNCHANGED <<opened, clients, publishing, history>>

-----------------------------------------------------------------------------
(* execute of a session outside a transaction: a publish.                  *)

\* The call raises; the application may repeat it.
Raises(s) == op' = [op EXCEPT ![s].pc = "idle", ![s].producer = 0]

\* _ensure_open, and compile.
ExecuteBegin(s) ==
    /\ op[s].pc = "idle"
    /\ op[s].attempts < MaxAttempts
    /\ IsOpen
    /\ op' = [op EXCEPT ![s].attempts = @ + 1, ![s].pc = "dispatch"]
    /\ UNCHANGED <<runtime, clients, call, cache, written, history>>

\* Mutant of Dispatch: the look-ups do not test for None.
DispatchUnchecked(s) ==
    /\ op[s].pc = "dispatch"
    /\ op' = [op EXCEPT ![s].pc = "effect", ![s].producer = field["producer"]]
    /\ UNCHANGED <<runtime, clients, call, cache, written, history>>

\* self._producer() and self._consumer() of _dispatch: an engine that is None
\* raises, also the consumer, which a publish does not use.
Dispatch(s) ==
    /\ op[s].pc = "dispatch"
    /\ IF field["producer"] = 0 \/ field["consumer"] = 0 THEN Raises(s)
       ELSE op' = [op EXCEPT ![s].pc = "effect", ![s].producer = field["producer"]]
    /\ UNCHANGED <<runtime, clients, call, cache, written, history>>

\* Mutant of Publish: the key is not remembered.
PublishForgetting(s) ==
    LET g == op[s].producer
    IN  /\ op[s].pc = "effect"
        /\ op' = [op EXCEPT ![s].pc = "probe"]
        /\ written' = [written EXCEPT ![s] =
                IF s \in cache[g] THEN @ ELSE Append(@, [generation |-> g, raised |-> FALSE])]
        /\ UNCHANGED <<runtime, clients, call, cache, history>>

\* publish on the engine that was read, closed or not: close only flushes it.
Publish(s) ==
    LET g == op[s].producer
    IN  /\ op[s].pc = "effect"
        /\ op' = [op EXCEPT ![s].pc = "probe"]
        /\ written' = [written EXCEPT ![s] =
                IF s \in cache[g] THEN @ ELSE Append(@, [generation |-> g, raised |-> FALSE])]
        /\ cache' = [cache EXCEPT ![g] = @ \cup {s}]
        /\ UNCHANGED <<runtime, clients, call, history>>

\* publish raises: the queue is full, flush leaves Events in it, or the delivery
\* report is an error or does not come.  The key is not remembered, and the Event
\* may be written all the same, then or once its producer gets through: before
\* anything the same producer writes later, and a later flush waits for it.  A
\* replay from the cache does not raise.
PublishRaises(s) ==
    LET g == op[s].producer
    IN  /\ "publish-failure" \in Env
        /\ op[s].pc = "effect"
        /\ s \notin cache[g]
        /\ Raises(s)
        /\ \/ written' = [written EXCEPT ![s] =
                    Append(@, [generation |-> g, raised |-> TRUE])]
           \/ UNCHANGED written
        /\ UNCHANGED <<runtime, clients, call, cache, history>>

\* The probe for the provenance: it raises when the runtime has been closed, and
\* when the brokers do not answer, although the publish has taken effect.
Answer(s) ==
    /\ op[s].pc = "probe"
    /\ \/ IsOpen /\ op' = [op EXCEPT ![s].pc = "answered", ![s].producer = 0]
       \/ (~IsOpen \/ "probe-failure" \in Env) /\ Raises(s)
    /\ UNCHANGED <<runtime, clients, call, cache, written, history>>

-----------------------------------------------------------------------------
AdminStep(a) ==
    \/ \E g \in Generations : OpenBegin(a, g) \/ RotateBegin(a, g)
    \/ OpenProbe(a) \/ OpenReturns(a) \/ OpenRaises(a)
    \/ RotateProbe(a) \/ RotateProbeRaises(a) \/ RotateRefused(a)
    \/ RotateSwap(a) \/ RotateAssign(a) \/ RotateRelease(a)
    \/ CloseBegin(a) \/ CloseOne(a) \/ CloseReturns(a) \/ CloseRaises(a)

SessionStep(s) ==
    ExecuteBegin(s) \/ Dispatch(s) \/ Publish(s) \/ PublishRaises(s) \/ Answer(s)

Next == (\E a \in Admins : AdminStep(a)) \/ (\E s \in Sessions : SessionStep(s))

Spec == Init /\ [][Next]_vars

\* A call that has begun goes on: client calls have timeouts, and the lock is held
\* only by calls that go on.  Nobody has to call anything.
Proceeds(a) == call[a].pc # "idle" /\ AdminStep(a)

FairSpec == Spec /\ \A a \in Admins : WF_vars(Proceeds(a))

-----------------------------------------------------------------------------
(* Properties.                                                             *)

\* A client that is open is in a field of the runtime, belongs to a call in
\* progress, or was abandoned: by a close that raised before it, or by a rotation
\* that found the runtime closed.  There is no other way to leak a client.
ClientsAccountedFor ==
    \A k \in Kinds, g \in Generations : client[<<k, g>>] = "open" =>
        \/ field[k] = g
        \/ \E a \in Admins : call[a].target = g \/ <<k, g>> \in Range(call[a].todo)
        \/ <<k, g>> \in abandoned

\* While the runtime is open every field holds a client that is not closed, also
\* in the middle of a swap; between swaps they are of one generation.
OpenIsWhole ==
    IsOpen =>
        /\ \A k \in {"consumer", "producer"} :
                field[k] # 0 /\ client[<<k, field[k]>>] = "open"
        /\ TransactionEnabled => /\ field["bridge"] # 0
                                 /\ client[<<"bridge", field["bridge"]>>] = "open"
        /\ lock = NoAdmin => \A f \in Fields :
                field[f] = field["probe"] \/ (f = "bridge" /\ ~TransactionEnabled)

\* Rotations that do not overlap and do not fail leave the runtime with the bridge
\* whose producer owns the transactional id.
RotationHandsOver ==
    (/\ IsOpen /\ TransactionEnabled /\ ~disturbed
     /\ \A a \in Admins :
            InProgress(a) => call[a].pc \in {"probing", "initialising", "closing"})
        => field["bridge"] \notin fenced

\* A publish that returned is not written again by the generation that wrote it,
\* however often the session repeats it because of an error that came after it (the
\* probe for the provenance, a close) and whatever is rotated in between: a
\* generation writes an Event after a write of its own only if the publish of that
\* one raised.  And an answer means that a publish returned, which has written.
RetriesWriteOnce ==
    \A s \in Sessions :
        /\ \A i, j \in DOMAIN written[s] :
                i < j /\ written[s][i].generation = written[s][j].generation
                    => written[s][i].raised
        /\ op[s].pc = "answered" => \E i \in DOMAIN written[s] : ~written[s][i].raised

\* After close, every client that was ever created is closed in the end, except
\* the abandoned ones.
EventuallyReleased ==
    <>[](closed => \A c \in Kinds \X Generations :
            client[c] = "open" => c \in abandoned)
=============================================================================
