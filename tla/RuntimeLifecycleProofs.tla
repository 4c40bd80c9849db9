----------------------- MODULE RuntimeLifecycleProofs -----------------------
(***************************************************************************)
(* Proofs about RuntimeLifecycle: its types, that clients are closed or    *)
(* accounted for, that an open runtime is whole, that a rotation hands the *)
(* transactional id over, and that a publish that returned writes once.    *)
(***************************************************************************)
EXTENDS RuntimeLifecycle, SequenceTheorems, TLAPS

USE LifecycleAssumption

-----------------------------------------------------------------------------
(* Why ClientsAccountedFor, OpenIsWhole and RotationHandsOver hold.        *)

\* Which calls hold the lock, and what a call remembers: a generation of its own,
\* and clients to close that are older than the generations yet to come.
CallShape(a) ==
    /\ call[a].operation = "none" <=> call[a].pc = "idle"
    /\ call[a].operation = "open" => call[a].pc \in {"probing", "initialising", "closing"}
    /\ call[a].operation = "close" => call[a].pc = "closing"
    /\ lock = a <=> call[a].operation \in {"open", "close"} \/ call[a].pc = "assigning"
    /\ call[a].target <= generation
    /\ call[a].operation \in {"none", "close"} => call[a].target = 0
    /\ call[a].pc \notin {"idle", "closing"} => call[a].target # 0
    /\ call[a].pc \notin {"assigning", "closing"} => call[a].todo = <<>>
    /\ \A c \in Range(call[a].todo) : c[2] <= generation
    /\ call[a].operation = "open" => ~opened /\ ~closed
    /\ call[a].operation = "rotate" => opened
    /\ call[a].pc = "assigning" => ~closed

\* What a opens is its own: b does not open it, nor has it to close.
Exclusive(a, b) ==
    call[a].target # 0 =>
        /\ call[b].target # call[a].target
        /\ \A c \in Range(call[b].todo) : c[2] # call[a].target

\* The runtime refers to what a rotation opens once the call assigns it, and then
\* the call has other clients to close.
Unshared(a) ==
    call[a].target # 0 =>
        /\ call[a].pc = "assigning" =>
                \A c \in Range(call[a].todo) : c[2] # call[a].target
        /\ call[a].operation = "rotate" /\ call[a].pc # "assigning" =>
                \A f \in Fields : field[f] # call[a].target

\* Until it fails, what a call has opened is open; once it has failed, what is
\* still open is what it has to close.
TargetIsOpen(a) ==
    /\ call[a].pc \notin {"idle", "closing"} =>
            /\ client[<<"consumer", call[a].target>>] = "open"
            /\ client[<<"producer", call[a].target>>] = "open"
            /\ TransactionEnabled /\ call[a].pc # "probing" =>
                    client[<<"bridge", call[a].target>>] = "open"
    /\ call[a].pc = "closing" /\ call[a].target # 0 =>
            \A k \in Kinds : client[<<k, call[a].target>>] = "open" =>
                <<k, call[a].target>> \in Range(call[a].todo)

\* The runtime does not refer to a client that is being closed.
ClosingIsUnused(a) ==
    call[a].pc = "closing" => \A c \in Range(call[a].todo) : field[c[1]] # c[2]

\* The fields a swap has still to assign.
Unassigned ==
    { <<"probe", "producer", "consumer", "bridge">>, <<"producer", "consumer", "bridge">>,
      <<"consumer", "bridge">>, <<"bridge">>, <<>> }

\* What the field f holds once open or a swap has assigned generation g.
Holds(f, g) == IF f = "bridge" /\ ~TransactionEnabled THEN 0 ELSE g

\* The fields while open runs and after it has failed.
OpenShape(a) ==
    /\ call[a].operation = "open" /\ call[a].pc = "probing" =>
            \A f \in Fields : field[f] = IF f = "bridge" THEN 0 ELSE call[a].target
    /\ call[a].operation = "open" /\ call[a].pc = "initialising" =>
            \A f \in Fields : field[f] = Holds(f, call[a].target)
    /\ call[a].operation \in {"open", "close"} /\ call[a].pc = "closing" =>
            field = NoFields

\* The fields during a swap: those still to assign hold a client the call has to
\* close.
SwapShape(a) ==
    call[a].pc = "assigning" =>
        /\ call[a].next \in Unassigned
        /\ \A f \in Fields \ Range(call[a].next) : field[f] = Holds(f, call[a].target)
        /\ \A k \in Kinds \cap Range(call[a].next) :
                field[k] # 0 => <<k, field[k]>> \in Range(call[a].todo)

\* Nobody else fences what a call has opened, unless rotations overlap.
Unfenced(a) ==
    \/ call[a].operation = "open" /\ call[a].pc # "closing"
    \/ ~disturbed /\ InProgress(a) /\ call[a].pc # "closing"
    => call[a].target \notin fenced

\* Without an open in progress an unopened runtime has no clients; those of a
\* generation to come do not exist and are not referred to, and without transactions
\* no bridge is open; what is fenced exists; undisturbed rotations do not overlap.
RuntimeShape ==
    /\ lock = NoAdmin /\ ~opened => field = NoFields
    /\ \A f \in Fields : field[f] <= generation
    /\ \A k \in Kinds, g \in Generations : g > generation => client[<<k, g>>] = "none"
    /\ ~TransactionEnabled => \A g \in Generations : client[<<"bridge", g>>] # "open"
    /\ \A h \in fenced : h <= generation
    /\ ~disturbed => \A a, b \in Admins : InProgress(a) /\ InProgress(b) => a = b

AdminInv(a) ==
    /\ CallShape(a) /\ Unshared(a) /\ TargetIsOpen(a) /\ ClosingIsUnused(a)
    /\ OpenShape(a) /\ SwapShape(a) /\ Unfenced(a)

LifecycleInv ==
    /\ \A a \in Admins : AdminInv(a)
    /\ \A a, b \in Admins : a # b => Exclusive(a, b)
    /\ RuntimeShape
    /\ ClientsAccountedFor
    /\ OpenIsWhole
    /\ RotationHandsOver

\* A publish of s has returned and has written its Event.
HasReturned(s) == \E i \in DOMAIN written[s] : ~written[s][i].raised

\* A generation writes again only what it wrote for a publish that raised.
NoRewrite(s) ==
    \A i, j \in DOMAIN written[s] :
        i < j /\ written[s][i].generation = written[s][j].generation => written[s][i].raised

\* Why RetriesWriteOnce holds: the engine of a generation remembers the key once a
\* publish has returned, remembers no other, and one has returned before the probe.
WriteInv ==
    \A s \in Sessions :
        /\ NoRewrite(s)
        /\ \A i \in DOMAIN written[s] :
                ~written[s][i].raised => s \in cache[written[s][i].generation]
        /\ \A g \in Generations : s \in cache[g] => HasReturned(s)
        /\ op[s].pc \in {"probe", "answered"} => HasReturned(s)

Clients == Kinds \X Generations

-----------------------------------------------------------------------------
(* The operators.                                                          *)

\* The clients CloseOrder names are those the fields refer to.
LEMMA CloseOrderNames ==
    ASSUME NEW of, \A k \in Kinds : of[k] \in 0 .. MaxGeneration
    PROVE  /\ CloseOrder(of) \in Seq(Clients)
           /\ \A c : c \in Range(CloseOrder(of))
                        <=> \E k \in Kinds : of[k] # 0 /\ c = <<k, of[k]>>
<1> DEFINE one(k) == IF of[k] = 0 THEN <<>> ELSE << <<k, of[k]>> >>
<1>1. ASSUME NEW k \in Kinds
      PROVE  /\ one(k) \in Seq(Clients)
             /\ \A c : c \in Range(one(k)) <=> of[k] # 0 /\ c = <<k, of[k]>>
  <2>1. CASE of[k] = 0
    BY <2>1 DEF Range
  <2>2. CASE of[k] # 0
    <3>1. <<k, of[k]>> \in Clients
      BY <2>2 DEF Clients, Generations
    <3>2. one(k) = << <<k, of[k]>> >>
      BY <2>2
    <3>3. one(k) \in Seq(Clients)
      BY <3>1, <3>2
    <3>4. \A c : c \in Range(one(k)) <=> c = <<k, of[k]>>
      BY <3>2 DEF Range
    <3> QED BY <2>2, <3>3, <3>4
  <2> QED BY <2>1, <2>2
<1>2. CloseOrder(of) = one("consumer") \o one("bridge") \o one("producer")
  BY DEF CloseOrder
<1> HIDE DEF one
<1>3. {"consumer", "bridge", "producer"} = Kinds
  BY DEF Kinds
<1> DEFINE two == one("consumer") \o one("bridge")
<1>4. two \in Seq(Clients)
  BY <1>1, <1>3, ConcatProperties
<1>5. CloseOrder(of) \in Seq(Clients)
  BY <1>1, <1>2, <1>3, <1>4, ConcatProperties
<1>6. Range(two) = Range(one("consumer")) \cup Range(one("bridge"))
  BY <1>1, <1>3, RangeConcatenation
<1>9. CloseOrder(of) = two \o one("producer")
  BY <1>2
<1> HIDE DEF two
<1>7. Range(CloseOrder(of)) =
        Range(one("consumer")) \cup Range(one("bridge")) \cup Range(one("producer"))
  <2>1. one("producer") \in Seq(Clients)
    BY <1>1, <1>3
  <2>2. Range(two \o one("producer")) = Range(two) \cup Range(one("producer"))
    BY <1>4, <2>1, RangeConcatenation
  <2> QED BY <1>6, <1>9, <2>2
<1>8. ASSUME NEW c
      PROVE  c \in Range(CloseOrder(of)) <=> \E k \in Kinds : of[k] # 0 /\ c = <<k, of[k]>>
  BY <1>1, <1>3, <1>7
<1> QED BY <1>5, <1>8

\* What is left to close after one client, and which one that was.
LEMMA RestOfTodo ==
    ASSUME NEW S, NEW s \in Seq(S), s # <<>>
    PROVE  /\ Head(s) \in S
           /\ Tail(s) \in Seq(S)
           /\ Head(s) \in Range(s)
           /\ \A c : c \in Range(s) <=> c = Head(s) \/ c \in Range(Tail(s))
<1>1. /\ Head(s) \in S
      /\ Tail(s) \in Seq(S)
      /\ Len(Tail(s)) = Len(s) - 1
      /\ \A i \in 1 .. Len(Tail(s)) : Tail(s)[i] = s[i + 1]
  BY HeadTailProperties
<1>2. Len(s) \in Nat \ {0} /\ Head(s) = s[1]
  BY EmptySeq
<1>3. Range(s) = {s[i] : i \in 1 .. Len(s)}
  BY RangeEquality
<1>4. Range(Tail(s)) = {Tail(s)[i] : i \in 1 .. Len(Tail(s))}
  BY <1>1, RangeEquality
<1>5. ASSUME NEW c \in Range(s), c # Head(s)
      PROVE  c \in Range(Tail(s))
  <2>1. PICK i \in 1 .. Len(s) : c = s[i]
    BY <1>3, <1>5
  <2>2. i # 1
    BY <1>2, <1>5, <2>1
  <2>3. i - 1 \in 1 .. Len(Tail(s)) /\ Tail(s)[i - 1] = s[i]
    BY <1>1, <1>2, <2>1, <2>2
  <2> QED BY <1>4, <2>1, <2>3
<1>6. ASSUME NEW c \in Range(Tail(s))
      PROVE  c \in Range(s)
  <2>1. PICK i \in 1 .. Len(Tail(s)) : c = Tail(s)[i]
    BY <1>4
  <2>2. i + 1 \in 1 .. Len(s) /\ c = s[i + 1]
    BY <1>1, <1>2, <2>1
  <2> QED BY <1>3, <2>2
<1>7. Head(s) \in Range(s)
  BY <1>2, <1>3
<1> QED BY <1>1, <1>5, <1>6, <1>7

\* What a write appended to a session's leaves of those before it.
LEMMA AppendWrite ==
    ASSUME NEW S, NEW s \in Seq(S), NEW e \in S
    PROVE  /\ Append(s, e) \in Seq(S)
           /\ Len(s) \in Nat
           /\ DOMAIN s = 1 .. Len(s)
           /\ DOMAIN Append(s, e) = 1 .. Len(s) + 1
           /\ \A i \in 1 .. Len(s) : Append(s, e)[i] = s[i]
           /\ Append(s, e)[Len(s) + 1] = e
<1>1. /\ Append(s, e) \in Seq(S)
      /\ Len(Append(s, e)) = Len(s) + 1
      /\ \A i \in 1 .. Len(s) : Append(s, e)[i] = s[i]
      /\ Append(s, e)[Len(s) + 1] = e
  BY AppendProperties
<1>2. Len(s) \in Nat /\ DOMAIN s = 1 .. Len(s)
  BY LenProperties
<1>3. DOMAIN Append(s, e) = 1 .. Len(s) + 1
  BY <1>1, LenProperties
<1> QED BY <1>1, <1>2, <1>3

-----------------------------------------------------------------------------
(* Types.                                                                  *)

\* The initial state is of the right type.
LEMMA InitType == Init => TypeOK
<1> SUFFICES ASSUME Init PROVE TypeOK
  OBVIOUS
<1>1. <<>> \in Seq(Clients) /\ <<>> \in Seq(Fields) /\ <<>> \in Seq(Write)
  OBVIOUS
<1>2. Idle \in Call
  BY <1>1 DEF Idle, Call, Clients
<1>3. [pc |-> "idle", producer |-> 0, attempts |-> 0] \in Operation
  BY DEF Operation
<1>4. field \in [Fields -> 0 .. MaxGeneration]
  BY DEF Init, NoFields
<1>5. client \in [Kinds \X Generations -> {"none", "open", "closed"}]
  BY DEF Init
<1>6. /\ call \in [Admins -> Call] /\ op \in [Sessions -> Operation]
      /\ cache \in [Generations -> SUBSET Sessions]
      /\ written \in [Sessions -> Seq(Write)]
  BY <1>1, <1>2, <1>3 DEF Init
<1>7. generation \in 0 .. MaxGeneration
  BY DEF Init
<1>8. /\ opened \in BOOLEAN /\ closed \in BOOLEAN /\ disturbed \in BOOLEAN
      /\ lock \in Admins \cup {NoAdmin}
      /\ fenced \subseteq Generations /\ abandoned \subseteq Kinds \X Generations
  BY DEF Init
<1> QED BY <1>4, <1>5, <1>6, <1>7, <1>8 DEF TypeOK

\* Replacing some of the components of a call gives a call.
LEMMA CallUpdates ==
    ASSUME NEW r \in Call, NEW t \in Seq(Clients), NEW n \in Seq(Fields),
           NEW p \in {"idle", "probing", "initialising", "reprobing", "swapping",
                      "assigning", "closing"},
           NEW g \in 0 .. MaxGeneration, NEW o \in {"none", "open", "rotate", "close"}
    PROVE  /\ [r EXCEPT !.pc = p] \in Call
           /\ [r EXCEPT !.pc = p, !.todo = t] \in Call
           /\ [r EXCEPT !.pc = p, !.todo = t, !.next = n] \in Call
           /\ [r EXCEPT !.todo = t] \in Call
           /\ [r EXCEPT !.next = n] \in Call
           /\ [r EXCEPT !.pc = p, !.target = g] \in Call
           /\ [r EXCEPT !.operation = o, !.pc = p, !.target = g] \in Call
           /\ [r EXCEPT !.operation = o, !.pc = p, !.todo = t] \in Call
BY DEF Call, Clients

\* A thread without a call has the record of one.
LEMMA IdleIsCall == Idle \in Call
<1>1. <<>> \in Seq(Clients) /\ <<>> \in Seq(Fields)
  OBVIOUS
<1> QED BY <1>1 DEF Idle, Call, Clients

\* A replacement's clients are closed in the order of a runtime's.
LEMMA ReplacementType ==
    ASSUME NEW g \in 0 .. MaxGeneration
    PROVE  CloseOrder(Replacement(g)) \in Seq(Clients)
<1>1. 0 \in 0 .. MaxGeneration
  OBVIOUS
<1>2. \A k \in Kinds : Replacement(g)[k] = 0 \/ Replacement(g)[k] = g
  BY DEF Replacement
<1> QED BY <1>1, <1>2, CloseOrderNames

\* The clients a replacement refers to are those its open has made.
LEMMA ReplacementNames ==
    ASSUME NEW g \in Generations
    PROVE  \A c : c \in Range(CloseOrder(Replacement(g)))
                     <=> \E k \in Kinds : client[<<k, g>>] # "none" /\ c = <<k, g>>
<1>1. \A k \in Kinds : Replacement(g)[k] = IF client[<<k, g>>] = "none" THEN 0 ELSE g
  BY DEF Replacement
<1>2. g \in 0 .. MaxGeneration /\ 0 \in 0 .. MaxGeneration /\ g # 0
  BY DEF Generations
<1>3. \A k \in Kinds : Replacement(g)[k] \in 0 .. MaxGeneration
  BY <1>1, <1>2, Zenon
<1>4. \A c : c \in Range(CloseOrder(Replacement(g)))
                <=> \E k \in Kinds : Replacement(g)[k] # 0 /\ c = <<k, Replacement(g)[k]>>
  BY <1>3, CloseOrderNames
<1>6. \A k \in Kinds : Replacement(g)[k] # 0 <=> client[<<k, g>>] # "none"
  BY <1>1, <1>2, Zenon
<1>7. \A k \in Kinds : Replacement(g)[k] # 0 => Replacement(g)[k] = g
  BY <1>1, Zenon
<1> QED BY <1>4, <1>6, <1>7

\* Every step keeps the types.
LEMMA NextType == TypeOK /\ [Next]_vars => TypeOK'
<1> SUFFICES ASSUME TypeOK, [Next]_vars PROVE TypeOK'
  OBVIOUS
<1> USE DEF TypeOK, runtime, clients, history, publishing
<1>0. /\ Idle \in Call
      /\ \A a \in Admins : call[a] \in Call
      /\ \A a \in Admins : /\ call[a].target \in 0 .. MaxGeneration
                           /\ call[a].todo \in Seq(Clients)
                           /\ call[a].next \in Seq(Fields)
  BY IdleIsCall DEF Call, Clients
<1>1. ASSUME NEW a \in Admins, AdminStep(a) PROVE TypeOK'
  <2>1. ASSUME NEW g \in Generations, OpenBegin(a, g) PROVE TypeOK'
    <3>1. g \in 0 .. MaxGeneration /\ 0 \in 0 .. MaxGeneration
      BY DEF Generations
    <3>2. [Idle EXCEPT !.operation = "open", !.pc = "probing", !.target = g] \in Call
      BY <1>0, <3>1, CallUpdates
    <3>3. call' \in [Admins -> Call]
      BY <2>1, <3>2 DEF OpenBegin
    <3>4. field' \in [Fields -> 0 .. MaxGeneration]
      BY <2>1, <3>1 DEF OpenBegin
    <3>5. generation' \in 0 .. MaxGeneration
      BY <2>1, <3>1 DEF OpenBegin, Creates
    <3>6. client' \in [Kinds \X Generations -> {"none", "open", "closed"}]
      BY <2>1 DEF OpenBegin, Creates
    <3> QED BY <2>1, <3>3, <3>4, <3>5, <3>6 DEF OpenBegin
  <2>2. ASSUME NEW g \in Generations, RotateBegin(a, g) PROVE TypeOK'
    <3>1. g \in 0 .. MaxGeneration
      BY DEF Generations
    <3>2. [Idle EXCEPT !.operation = "rotate", !.pc = "probing", !.target = g] \in Call
      BY <1>0, <3>1, CallUpdates
    <3>3. call' \in [Admins -> Call]
      BY <2>2, <3>2 DEF RotateBegin
    <3>5. generation' \in 0 .. MaxGeneration
      BY <2>2, <3>1 DEF RotateBegin, Creates
    <3>6. client' \in [Kinds \X Generations -> {"none", "open", "closed"}]
      BY <2>2 DEF RotateBegin, Creates
    <3>7. disturbed' \in BOOLEAN
      BY <2>2 DEF RotateBegin
    <3> QED BY <2>2, <3>3, <3>5, <3>6, <3>7 DEF RotateBegin
  <2>3. ASSUME OpenProbe(a) PROVE TypeOK'
    <3>1. call' \in [Admins -> Call]
      BY <2>3, <1>0, CallUpdates DEF OpenProbe
    <3>2. client' \in [Kinds \X Generations -> {"none", "open", "closed"}]
      BY <2>3 DEF OpenProbe
    <3>3. field' \in [Fields -> 0 .. MaxGeneration]
      <4>1. CASE field' = [field EXCEPT !["bridge"] = call[a].target]
        BY <4>1, <1>0
      <4>2. CASE field' = field
        BY <4>2
      <4> QED BY <2>3, <4>1, <4>2 DEF OpenProbe
    <3> QED BY <2>3, <3>1, <3>2, <3>3 DEF OpenProbe
  <2>4. ASSUME OpenReturns(a) PROVE TypeOK'
    <3>1. call' \in [Admins -> Call]
      <4>1. [call[a] EXCEPT !.pc = "reprobing"] \in Call
        BY <1>0, CallUpdates
      <4>2. \/ call' = [call EXCEPT ![a] = Idle]
            \/ call' = [call EXCEPT ![a].pc = "reprobing"]
        BY <2>4 DEF OpenReturns, Returns
      <4> QED BY <1>0, <4>1, <4>2
    <3>2. lock' \in Admins \cup {NoAdmin} /\ opened' \in BOOLEAN
      BY <2>4 DEF OpenReturns, Returns
    <3>3. fenced' \subseteq Generations
      BY <2>4 DEF OpenReturns, Fenced
    <3> QED BY <2>4, <3>1, <3>2, <3>3 DEF OpenReturns
  <2>5. ASSUME OpenRaises(a) PROVE TypeOK'
    <3>1. CloseOrder(Replacement(call[a].target)) \in Seq(Clients)
      BY <1>0, ReplacementType
    <3>2. call' \in [Admins -> Call]
      BY <2>5, <1>0, <3>1, CallUpdates DEF OpenRaises, Closes
    <3>3. fenced' \subseteq Generations
      BY <2>5 DEF OpenRaises, Fenced
    <3>4. NoFields \in [Fields -> 0 .. MaxGeneration]
      BY DEF NoFields
    <3>5. field' \in [Fields -> 0 .. MaxGeneration] /\ disturbed' \in BOOLEAN
      BY <2>5, <3>4 DEF OpenRaises
    <3> QED BY <2>5, <3>2, <3>3, <3>5 DEF OpenRaises
  <2>6. ASSUME RotateProbe(a) PROVE TypeOK'
    BY <2>6, <1>0, CallUpdates DEF RotateProbe
  <2>7. ASSUME RotateProbeRaises(a) PROVE TypeOK'
    <3>1. CloseOrder(Replacement(call[a].target)) \in Seq(Clients)
      BY <1>0, ReplacementType
    <3>2. call' \in [Admins -> Call]
      BY <2>7, <1>0, <3>1, CallUpdates DEF RotateProbeRaises, Closes
    <3> QED BY <2>7, <3>2 DEF RotateProbeRaises
  <2>8. ASSUME RotateRefused(a) PROVE TypeOK'
    <3>1. Range(CloseOrder(Replacement(call[a].target))) \subseteq Clients
      BY <1>0, ReplacementType, RangeOfSeq
    <3>2. call' \in [Admins -> Call] /\ lock' \in Admins \cup {NoAdmin}
      BY <2>8, <1>0 DEF RotateRefused, Returns
    <3> QED BY <2>8, <3>1, <3>2 DEF RotateRefused, Clients
  <2>9. ASSUME RotateSwap(a) PROVE TypeOK'
    <3>1. CloseOrder(field) \in Seq(Clients)
      BY CloseOrderNames DEF Fields
    <3>2. <<"probe", "producer", "consumer", "bridge">> \in Seq(Fields)
      BY DEF Fields, Kinds
    <3>3. call' \in [Admins -> Call]
      BY <2>9, <1>0, <3>1, <3>2, CallUpdates DEF RotateSwap
    <3> QED BY <2>9, <3>3 DEF RotateSwap
  <2>10. ASSUME RotateAssign(a) PROVE TypeOK'
    <3>1. Tail(call[a].next) \in Seq(Fields)
      BY <2>10, <1>0, HeadTailProperties DEF RotateAssign
    <3>2. call' \in [Admins -> Call]
      BY <2>10, <1>0, <3>1, CallUpdates DEF RotateAssign
    <3>3. 0 \in 0 .. MaxGeneration
      OBVIOUS
    <3>4. field' \in [Fields -> 0 .. MaxGeneration]
      BY <2>10, <1>0, <3>3 DEF RotateAssign
    <3> QED BY <2>10, <3>2, <3>4 DEF RotateAssign
  <2>11. ASSUME RotateRelease(a) PROVE TypeOK'
    <3>1. 0 \in 0 .. MaxGeneration
      OBVIOUS
    <3>2. call' \in [Admins -> Call]
      BY <2>11, <1>0, <3>1, CallUpdates DEF RotateRelease
    <3> QED BY <2>11, <3>2 DEF RotateRelease
  <2>12. ASSUME CloseBegin(a) PROVE TypeOK'
    <3>1. CloseOrder(field) \in Seq(Clients)
      BY CloseOrderNames DEF Fields
    <3>2. [Idle EXCEPT !.operation = "close", !.pc = "closing", !.todo = CloseOrder(field)]
            \in Call
      BY <1>0, <3>1, CallUpdates
    <3>3. call' \in [Admins -> Call]
      BY <2>12, <3>2 DEF CloseBegin
    <3>4. field' \in [Fields -> 0 .. MaxGeneration]
      BY <2>12 DEF CloseBegin, NoFields
    <3> QED BY <2>12, <3>3, <3>4 DEF CloseBegin
  <2>13. ASSUME CloseOne(a) PROVE TypeOK'
    <3>1. Tail(call[a].todo) \in Seq(Clients)
      BY <2>13, <1>0, RestOfTodo DEF CloseOne
    <3>2. call' \in [Admins -> Call]
      BY <2>13, <1>0, <3>1, CallUpdates DEF CloseOne
    <3>3. client' \in [Kinds \X Generations -> {"none", "open", "closed"}]
      BY <2>13 DEF CloseOne
    <3> QED BY <2>13, <3>2, <3>3 DEF CloseOne
  <2>14. ASSUME CloseReturns(a) PROVE TypeOK'
    BY <2>14, <1>0 DEF CloseReturns, Returns
  <2>15. ASSUME CloseRaises(a) PROVE TypeOK'
    <3>1. Range(call[a].todo) \subseteq Clients
      BY <1>0, RangeOfSeq
    <3> QED BY <2>15, <1>0, <3>1 DEF CloseRaises, Returns, Clients
  <2> QED BY <1>1, <2>1, <2>2, <2>3, <2>4, <2>5, <2>6, <2>7, <2>8, <2>9, <2>10, <2>11,
             <2>12, <2>13, <2>14, <2>15 DEF AdminStep
<1>2. ASSUME NEW s \in Sessions, SessionStep(s) PROVE TypeOK'
  <2>0. op[s] \in Operation /\ op \in [Sessions -> Operation]
    OBVIOUS
  <2>1. CASE ExecuteBegin(s)
    <3>1. op'[s] \in Operation
      BY <2>0, <2>1 DEF ExecuteBegin, Operation
    <3>2. op' \in [Sessions -> Operation]
      BY <2>0, <2>1, <3>1 DEF ExecuteBegin
    <3> QED BY <2>1, <3>2 DEF ExecuteBegin
  <2>2. CASE Dispatch(s)
    <3>1. op'[s] \in Operation
      <4>1. CASE field["producer"] = 0 \/ field["consumer"] = 0
        <5>1. op'[s] = [op[s] EXCEPT !.pc = "idle", !.producer = 0]
          BY <2>0, <2>2, <4>1 DEF Dispatch, Raises
        <5>2. 0 \in 0 .. MaxGeneration
          OBVIOUS
        <5> QED BY <2>0, <5>1, <5>2 DEF Operation
      <4>2. CASE ~(field["producer"] = 0 \/ field["consumer"] = 0)
        <5>1. field["producer"] \in Generations
          BY <4>2 DEF Fields, Kinds, Generations
        <5>2. op'[s] = [op[s] EXCEPT !.pc = "effect", !.producer = field["producer"]]
          BY <2>0, <2>2, <4>2 DEF Dispatch
        <5> QED BY <2>0, <5>1, <5>2 DEF Operation
      <4> QED BY <4>1, <4>2
    <3>2. op' \in [Sessions -> Operation]
      BY <2>0, <2>2, <3>1 DEF Dispatch, Raises
    <3> QED BY <2>2, <3>2 DEF Dispatch
  <2>3. CASE Publish(s)
    <3>1. op[s].producer \in Generations
      BY <2>0, <2>3 DEF Publish, Operation
    <3>2. op'[s] \in Operation
      BY <2>0, <2>3, <3>1 DEF Publish, Operation
    <3>3. op' \in [Sessions -> Operation]
      BY <2>0, <2>3, <3>2 DEF Publish
    <3>4. [generation |-> op[s].producer, raised |-> FALSE] \in Write
      BY <3>1 DEF Write
    <3>7. Append(written[s], [generation |-> op[s].producer, raised |-> FALSE]) \in Seq(Write)
      BY <3>4
    <3>5. written' \in [Sessions -> Seq(Write)]
      BY <2>3, <3>7 DEF Publish
    <3>6. cache' \in [Generations -> SUBSET Sessions]
      BY <2>3 DEF Publish
    <3> QED BY <2>3, <3>3, <3>5, <3>6 DEF Publish
  <2>4. CASE Answer(s)
    <3>1. op'[s] \in Operation
      BY <2>0, <2>4 DEF Answer, Raises, Operation, Generations
    <3>2. op' \in [Sessions -> Operation]
      BY <2>0, <2>4, <3>1 DEF Answer, Raises
    <3> QED BY <2>4, <3>2 DEF Answer
  <2>5. CASE PublishRaises(s)
    <3>1. op[s].producer \in Generations
      BY <2>0, <2>5 DEF PublishRaises, Operation
    <3>2. op'[s] \in Operation
      BY <2>0, <2>5 DEF PublishRaises, Raises, Operation, Generations
    <3>3. op' \in [Sessions -> Operation]
      BY <2>0, <2>5, <3>2 DEF PublishRaises, Raises
    <3>4. [generation |-> op[s].producer, raised |-> TRUE] \in Write
      BY <3>1 DEF Write
    <3>5. Append(written[s], [generation |-> op[s].producer, raised |-> TRUE]) \in Seq(Write)
      BY <3>4
    <3>6. written' \in [Sessions -> Seq(Write)]
      BY <2>5, <3>5 DEF PublishRaises
    <3> QED BY <2>5, <3>3, <3>6 DEF PublishRaises
  <2> QED BY <1>2, <2>1, <2>2, <2>3, <2>4, <2>5 DEF SessionStep
<1>3. CASE UNCHANGED vars
  BY <1>3 DEF vars
<1> QED BY <1>1, <1>2, <1>3 DEF Next

\* The types of RuntimeLifecycle hold, for any number of threads, sessions and
\* generations.
THEOREM TypeCorrect == Spec => []TypeOK
BY InitType, NextType, PTL DEF Spec

-----------------------------------------------------------------------------
(* A publish that returned is not written again.                           *)

\* Every step keeps WriteInv: an engine writes when it does not remember the key,
\* and remembers it when the publish returns.
LEMMA NextWrite == TypeOK /\ WriteInv /\ [Next]_vars => WriteInv'
<1> SUFFICES ASSUME TypeOK, WriteInv, [Next]_vars PROVE WriteInv'
  OBVIOUS
<1> DEFINE Remembers(z) == \A i \in DOMAIN written[z] :
                ~written[z][i].raised => z \in cache[written[z][i].generation]
           Returned(z) == \A g \in Generations : z \in cache[g] => HasReturned(z)
           Before(z) == op[z].pc \in {"probe", "answered"} => HasReturned(z)
           W(z) == NoRewrite(z) /\ Remembers(z) /\ Returned(z) /\ Before(z)
<1>0. \A z \in Sessions : W(z)
  BY DEF WriteInv
<1>1. CASE UNCHANGED publishing
  BY <1>1 DEF WriteInv, NoRewrite, HasReturned, publishing
<1>2. ASSUME NEW s \in Sessions, SessionStep(s) PROVE WriteInv'
  <2> DEFINE e == op[s].producer
  <2>0. op \in [Sessions -> Operation] /\ op[s] \in Operation
    BY DEF TypeOK
  <2>5. SUFFICES ASSUME NEW z \in Sessions PROVE W(z)'
    BY DEF WriteInv
  <2>6. \A n \in DOMAIN written[z] : written[z][n].generation \in Generations
    <3>1. written[z] \in Seq(Write)
      BY DEF TypeOK
    <3>2. \A n \in DOMAIN written[z] : written[z][n] \in Write
      BY <3>1
    <3> QED BY <3>2 DEF Write
  <2>1. CASE /\ op'[z].pc \in {"probe", "answered"} => op[z].pc \in {"probe", "answered"}
             /\ UNCHANGED <<cache, written>>
    BY <1>0, <2>1 DEF NoRewrite, HasReturned
  <2>2. CASE ExecuteBegin(s) \/ Dispatch(s) \/ Answer(s)
    <3>1. UNCHANGED <<cache, written>>
      BY <2>2 DEF ExecuteBegin, Dispatch, Answer
    <3>2. op'[z].pc \in {"probe", "answered"} => op[z].pc \in {"probe", "answered"}
      <4>1. z # s => op'[z] = op[z]
        BY <2>0, <2>2 DEF ExecuteBegin, Dispatch, Answer, Raises
      <4>2. op'[s].pc = "answered" => op[s].pc = "probe"
        BY <2>0, <2>2 DEF ExecuteBegin, Dispatch, Answer, Raises, Operation
      <4>3. op'[s].pc # "probe"
        BY <2>0, <2>2 DEF ExecuteBegin, Dispatch, Answer, Raises, Operation
      <4> QED BY <4>1, <4>2, <4>3
    <3> QED BY <2>1, <3>1, <3>2
  <2>3. CASE Publish(s)
    <3>1. e \in Generations
      BY <2>0, <2>3 DEF Publish, Operation
    <3>2. /\ z # s => op'[z] = op[z] /\ written'[z] = written[z]
          /\ \A g \in Generations : z # s \/ g # e => (z \in cache'[g] <=> z \in cache[g])
          /\ \A g \in Generations : z \in cache[g] => z \in cache'[g]
          /\ s \in cache'[e]
      BY <2>0, <2>3, <3>1 DEF Publish, TypeOK
    <3>3. CASE z # s
      BY <1>0, <2>6, <3>1, <3>2, <3>3 DEF NoRewrite, HasReturned
    <3>4. CASE z = s /\ s \in cache[e]
      <4>1. written'[z] = written[z]
        BY <2>3, <3>4 DEF Publish, TypeOK
      <4>2. HasReturned(z)
        BY <1>0, <3>1, <3>4
      <4> QED BY <1>0, <2>6, <3>1, <3>2, <3>4, <4>1, <4>2 DEF NoRewrite, HasReturned
    <3>5. CASE z = s /\ s \notin cache[e]
      <4> DEFINE w == [generation |-> e, raised |-> FALSE]
                 m == Len(written[z])
      <4>1. written'[z] = Append(written[z], w)
        BY <2>3, <3>5 DEF Publish, TypeOK
      <4>2. w \in Write /\ written[z] \in Seq(Write) /\ w.generation = e /\ ~w.raised
        BY <3>1 DEF Write, TypeOK
      <4>9. s \in cache'[e] /\ z = s
        BY <3>2, <3>5
      <4>10. \A i \in DOMAIN written[z] : written[z][i].generation = e => written[z][i].raised
        BY <1>0, <3>5
      <4> HIDE DEF e, w
      <4>3. /\ m \in Nat
            /\ DOMAIN written[z] = 1 .. m
            /\ DOMAIN written'[z] = 1 .. m + 1
            /\ \A i \in 1 .. m : written'[z][i] = written[z][i]
            /\ written'[z][m + 1] = w
        BY <4>1, <4>2, AppendWrite
      <4> HIDE DEF m
      <4>4. HasReturned(z)'
        BY <4>2, <4>3 DEF HasReturned
      <4>5. Remembers(z)'
        <5> SUFFICES ASSUME NEW i \in 1 .. m + 1, ~written'[z][i].raised
                     PROVE  z \in cache'[written'[z][i].generation]
          BY <4>3
        <5>1. CASE i = m + 1
          BY <4>2, <4>3, <4>9, <5>1
        <5>2. CASE i \in 1 .. m
          BY <1>0, <2>6, <3>2, <4>3, <5>2
        <5> QED BY <4>3, <5>1, <5>2
      <4>6. NoRewrite(z)'
        <5> SUFFICES ASSUME NEW i \in 1 .. m + 1, NEW j \in 1 .. m + 1, i < j,
                            written'[z][i].generation = written'[z][j].generation
                     PROVE  written'[z][i].raised
          BY <4>3 DEF NoRewrite
        <5>1. i \in 1 .. m
          BY <4>3
        <5>2. CASE j = m + 1
          BY <4>2, <4>3, <4>10, <5>1, <5>2
        <5>3. CASE j \in 1 .. m
          BY <1>0, <4>3, <5>1, <5>3 DEF NoRewrite
        <5> QED BY <4>3, <5>2, <5>3
      <4> QED BY <4>4, <4>5, <4>6
    <3> QED BY <3>3, <3>4, <3>5
  <2>4. CASE PublishRaises(s)
    <3>1. /\ op'[s].pc = "idle" /\ UNCHANGED cache /\ s \notin cache[e] /\ e \in Generations
          /\ z # s => op'[z] = op[z] /\ written'[z] = written[z]
      BY <2>0, <2>4 DEF PublishRaises, Raises, Operation, TypeOK
    <3>2. CASE written'[z] = written[z]
      <4>1. NoRewrite(z)' /\ Remembers(z)' /\ Returned(z)'
        BY <1>0, <3>1, <3>2 DEF NoRewrite, HasReturned
      <4>2. Before(z)'
        BY <1>0, <3>1, <3>2 DEF HasReturned
      <4> QED BY <4>1, <4>2
    <3>3. CASE z = s /\ written'[z] # written[z]
      <4> DEFINE w == [generation |-> e, raised |-> TRUE]
                 m == Len(written[z])
      <4>1. written'[z] = Append(written[z], w)
        BY <2>4, <3>3 DEF PublishRaises, TypeOK
      <4>2. w \in Write /\ written[z] \in Seq(Write) /\ w.generation = e /\ w.raised
        BY <3>1 DEF Write, TypeOK
      <4>10. \A i \in DOMAIN written[z] : written[z][i].generation = e => written[z][i].raised
        BY <1>0, <3>1, <3>3
      <4> HIDE DEF e, w
      <4>3. /\ m \in Nat
            /\ DOMAIN written[z] = 1 .. m
            /\ DOMAIN written'[z] = 1 .. m + 1
            /\ \A i \in 1 .. m : written'[z][i] = written[z][i]
            /\ written'[z][m + 1] = w
        BY <4>1, <4>2, AppendWrite
      <4> HIDE DEF m
      <4>4. HasReturned(z) => HasReturned(z)'
        BY <4>3 DEF HasReturned
      <4>5. Remembers(z)'
        BY <1>0, <3>1, <4>2, <4>3
      <4>6. NoRewrite(z)'
        <5> SUFFICES ASSUME NEW i \in 1 .. m + 1, NEW j \in 1 .. m + 1, i < j,
                            written'[z][i].generation = written'[z][j].generation
                     PROVE  written'[z][i].raised
          BY <4>3 DEF NoRewrite
        <5>1. i \in 1 .. m
          BY <4>3
        <5>2. CASE j = m + 1
          BY <4>2, <4>3, <4>10, <5>1, <5>2
        <5>3. CASE j \in 1 .. m
          BY <1>0, <4>3, <5>1, <5>3 DEF NoRewrite
        <5> QED BY <4>3, <5>2, <5>3
      <4>7. Returned(z)' /\ Before(z)'
        BY <1>0, <3>1, <3>3, <4>4
      <4> QED BY <4>5, <4>6, <4>7
    <3> QED BY <3>1, <3>2, <3>3
  <2> QED BY <1>2, <2>2, <2>3, <2>4 DEF SessionStep
<1>3. ASSUME NEW a \in Admins, AdminStep(a) PROVE UNCHANGED publishing
  BY <1>3 DEF AdminStep, OpenBegin, RotateBegin, OpenProbe, OpenReturns, OpenRaises,
              RotateProbe, RotateProbeRaises, RotateRefused, RotateSwap, RotateAssign,
              RotateRelease, CloseBegin, CloseOne, CloseReturns, CloseRaises, publishing
<1> QED BY <1>1, <1>2, <1>3 DEF Next, vars

\* A publish may raise with its Event written, and is then written again when it is
\* repeated.  One that returned is not: whatever error comes after it, however often
\* the session repeats it and through whatever rotations, closes and failures, its
\* generation of clients does not write the Event again.  And an answer means that a
\* publish returned.
THEOREM RepeatsWriteOnce == Spec => []RetriesWriteOnce
<1>1. Init => WriteInv
  <2> SUFFICES ASSUME Init PROVE WriteInv
    OBVIOUS
  <2>1. DOMAIN <<>> = {}
    OBVIOUS
  <2> QED BY <2>1 DEF Init, WriteInv, NoRewrite, HasReturned
<1>2. WriteInv => RetriesWriteOnce
  BY DEF WriteInv, RetriesWriteOnce, NoRewrite, HasReturned
<1> QED BY <1>1, <1>2, NextWrite, TypeCorrect, PTL DEF Spec

-----------------------------------------------------------------------------
(* What the calls, the clients and the fields have to do with each other.  *)


\* A swap assigns every field once.
LEMMA UnassignedSteps ==
    /\ <<"probe", "producer", "consumer", "bridge">> \in Unassigned
    /\ Range(<<"probe", "producer", "consumer", "bridge">>) = Fields
    /\ Range(<<>>) = {}
    /\ \A n \in Unassigned : n # <<>> =>
            /\ Head(n) \in Fields
            /\ Tail(n) \in Unassigned
            /\ Head(n) \notin Range(Tail(n))
            /\ Range(n) = {Head(n)} \cup Range(Tail(n))
<1>1. /\ Range(<<"probe", "producer", "consumer", "bridge">>)
            = {"probe", "producer", "consumer", "bridge"}
      /\ Range(<<"producer", "consumer", "bridge">>) = {"producer", "consumer", "bridge"}
      /\ Range(<<"consumer", "bridge">>) = {"consumer", "bridge"}
      /\ Range(<<"bridge">>) = {"bridge"}
      /\ Range(<<>>) = {}
  BY DEF Range
<1>2. /\ Tail(<<"probe", "producer", "consumer", "bridge">>)
            = <<"producer", "consumer", "bridge">>
      /\ Tail(<<"producer", "consumer", "bridge">>) = <<"consumer", "bridge">>
      /\ Tail(<<"consumer", "bridge">>) = <<"bridge">>
      /\ Tail(<<"bridge">>) = <<>>
      /\ Head(<<"probe", "producer", "consumer", "bridge">>) = "probe"
      /\ Head(<<"producer", "consumer", "bridge">>) = "producer"
      /\ Head(<<"consumer", "bridge">>) = "consumer"
      /\ Head(<<"bridge">>) = "bridge"
  OBVIOUS
<1>3. Fields = {"probe", "producer", "consumer", "bridge"}
  BY DEF Fields, Kinds
<1>4. ASSUME NEW n \in Unassigned, n # <<>>
      PROVE  /\ Head(n) \in Fields
             /\ Tail(n) \in Unassigned
             /\ Head(n) \notin Range(Tail(n))
             /\ Range(n) = {Head(n)} \cup Range(Tail(n))
  <2>1. CASE n = <<"probe", "producer", "consumer", "bridge">>
    BY <1>1, <1>2, <1>3, <2>1 DEF Unassigned
  <2>2. CASE n = <<"producer", "consumer", "bridge">>
    BY <1>1, <1>2, <1>3, <2>2 DEF Unassigned
  <2>3. CASE n = <<"consumer", "bridge">>
    BY <1>1, <1>2, <1>3, <2>3 DEF Unassigned
  <2>4. CASE n = <<"bridge">>
    BY <1>1, <1>2, <1>3, <2>4 DEF Unassigned
  <2> QED BY <1>4, <2>1, <2>2, <2>3, <2>4 DEF Unassigned
<1> QED BY <1>1, <1>3, <1>4 DEF Unassigned

\* The components of the state, typed one by one.
LEMMA Components ==
    ASSUME TypeOK
    PROVE  /\ generation \in Int /\ generation \in 0 .. MaxGeneration
           /\ call \in [Admins -> Call]
           /\ \A b \in Admins : /\ call[b] \in Call
                                /\ call[b].target \in Int
                                /\ call[b].target \in 0 .. MaxGeneration
                                /\ call[b].todo \in Seq(Clients)
                                /\ \A c \in Range(call[b].todo) : c \in Clients
                                /\ call[b].target # 0 => call[b].target \in Generations
           /\ \A f \in Fields : field[f] \in Int /\ field[f] \in 0 .. MaxGeneration
           /\ \A c \in Clients : c[1] \in Kinds /\ c[2] \in Generations /\ c[2] \in Int
                                 /\ c[2] >= 1 /\ c = <<c[1], c[2]>>
           /\ \A k \in Kinds : k \in Fields
<1>1. generation \in Int /\ generation \in 0 .. MaxGeneration
  BY DEF TypeOK
<1>2. /\ call \in [Admins -> Call]
      /\ \A b \in Admins : /\ call[b] \in Call
                           /\ call[b].target \in 0 .. MaxGeneration
                           /\ call[b].todo \in Seq(Clients)
  BY DEF TypeOK, Call, Clients
<1>3. \A b \in Admins : \A c \in Range(call[b].todo) : c \in Clients
  BY <1>2, RangeOfSeq
<1>4. \A b \in Admins : /\ call[b].target \in Int
                        /\ call[b].target # 0 => call[b].target \in Generations
  BY <1>2 DEF Generations
<1>5. \A f \in Fields : field[f] \in Int /\ field[f] \in 0 .. MaxGeneration
  BY DEF TypeOK
<1>6. \A c \in Clients : c[1] \in Kinds /\ c[2] \in Generations /\ c = <<c[1], c[2]>>
  BY DEF Clients
<1>7. \A c \in Clients : c[2] \in Int /\ c[2] >= 1
  BY <1>6 DEF Generations
<1> QED BY <1>1, <1>2, <1>3, <1>4, <1>5, <1>6, <1>7 DEF Fields


\* The client of kind k and generation h is referred to, or was abandoned.
Accounted(k, h) ==
    \/ field[k] = h
    \/ \E e \in Admins : call[e].target = h \/ <<k, h>> \in Range(call[e].todo)
    \/ <<k, h>> \in abandoned

\* The state of one call, typed component by component.
LEMMA CallComponents ==
    ASSUME TypeOK, NEW b \in Admins
    PROVE  /\ call[b].operation \in {"none", "open", "rotate", "close"}
           /\ call[b].target \in Int /\ call[b].target \in 0 .. MaxGeneration
           /\ call[b].todo \in Seq(Clients)
           /\ \A c \in Range(call[b].todo) : c \in Clients
           /\ call[b].target # 0 => call[b].target \in Generations
<1>1. call[b].operation \in {"none", "open", "rotate", "close"}
  BY DEF TypeOK, Call
<1> QED BY <1>1, Components

\* What holds of a thread's call is left alone by a step of another that changes
\* neither the fields nor the clients, and does not take the lock from it.
LEMMA OthersStand ==
    ASSUME NEW b \in Admins, AdminInv(b), call'[b] = call[b], lock' = b <=> lock = b,
           UNCHANGED <<opened, closed, field, client, fenced, generation>>,
           disturbed => disturbed'
    PROVE  AdminInv(b)'
<1>1. CallShape(b)'
  BY DEF AdminInv, CallShape
<1>2. Unshared(b)' /\ TargetIsOpen(b)' /\ ClosingIsUnused(b)'
  BY DEF AdminInv, Unshared, TargetIsOpen, ClosingIsUnused
<1>3. OpenShape(b)' /\ SwapShape(b)'
  BY DEF AdminInv, OpenShape, SwapShape, Holds
<1>4. Unfenced(b)'
  BY DEF AdminInv, Unfenced, InProgress
<1> QED BY <1>1, <1>2, <1>3, <1>4 DEF AdminInv

\* The invariant holds after a step of a if it holds of a, of every other thread, of
\* the two together, and of the runtime: the others have not moved.
LEMMA Assembled ==
    ASSUME LifecycleInv, NEW a \in Admins,
           \A b \in Admins : b # a => call'[b] = call[b],
           AdminInv(a)',
           \A b \in Admins : b # a => AdminInv(b)' /\ Exclusive(a, b)' /\ Exclusive(b, a)',
           RuntimeShape', ClientsAccountedFor', OpenIsWhole', RotationHandsOver'
    PROVE  LifecycleInv'
<1>1. \A b \in Admins : AdminInv(b)'
  OBVIOUS
<1>2. ASSUME NEW b \in Admins, NEW d \in Admins, b # d PROVE Exclusive(b, d)'
  <2>1. CASE b = a \/ d = a
    BY <1>2, <2>1
  <2>2. CASE b # a /\ d # a
    <3>1. Exclusive(b, d) /\ call'[b] = call[b] /\ call'[d] = call[d]
      BY <1>2, <2>2 DEF LifecycleInv
    <3> QED BY <3>1 DEF Exclusive
  <2> QED BY <2>1, <2>2
<1> QED BY <1>1, <1>2 DEF LifecycleInv


\* OpenBegin keeps the invariant.
LEMMA OpenBeginKeeps ==
    ASSUME TypeOK, LifecycleInv, NEW a \in Admins, NEW g \in Generations, OpenBegin(a, g)
    PROVE  LifecycleInv'
<1>1. /\ call[a].pc = "idle"
      /\ call'[a].operation = "open"
      /\ call'[a].pc = "probing"
      /\ call'[a].target = g
      /\ call'[a].todo = <<>>
      /\ call'[a].next = <<>>
  BY Components DEF OpenBegin, Creates, Idle
<1>2. \A b \in Admins : b # a => call'[b] = call[b]
  BY Components DEF OpenBegin
<1>3. /\ lock = NoAdmin /\ lock' = a
      /\ ~opened /\ ~closed
      /\ g = generation + 1
      /\ generation' = g
      /\ \A k \in Kinds, h \in Generations :
            client'[<<k, h>>] = IF k # "bridge" /\ h = g THEN "open" ELSE client[<<k, h>>]
      /\ \A f \in Fields : field'[f] = IF f = "bridge" THEN 0 ELSE g
      /\ UNCHANGED <<opened, closed, fenced, abandoned, disturbed>>
  BY Components DEF OpenBegin, TypeOK, Call, Creates, Idle, runtime, clients, history, publishing,
      Clients, Kinds
<1>4. AdminInv(a) /\ RuntimeShape /\ ClientsAccountedFor /\ OpenIsWhole /\ RotationHandsOver
  BY DEF LifecycleInv
<1>5. /\ CallShape(a) /\ Unshared(a) /\ TargetIsOpen(a) /\ ClosingIsUnused(a)
      /\ OpenShape(a) /\ SwapShape(a) /\ Unfenced(a)
  BY <1>4 DEF AdminInv
<1>6. ASSUME NEW b \in Admins, b # a PROVE AdminInv(b)' /\ Exclusive(a, b)' /\ Exclusive(b, a)'
  <2>1. call'[b] = call[b]
    BY <1>2, <1>6
  <2>2. AdminInv(b) /\ Exclusive(a, b) /\ Exclusive(b, a)
    BY <1>6 DEF LifecycleInv
  <2>3. /\ CallShape(b) /\ Unshared(b) /\ TargetIsOpen(b) /\ ClosingIsUnused(b)
        /\ OpenShape(b) /\ SwapShape(b) /\ Unfenced(b)
    BY <2>2 DEF AdminInv
  <2>4. CallShape(b)'
    BY <1>6, <2>1, <2>2, <2>3, Components, <1>1, <1>3, <1>4, <1>5, CallComponents DEF CallShape
  <2>5. Unshared(b)'
    BY <1>6, <2>1, <2>2, <2>3, Components, <1>1, <1>3, <1>4, <1>5, CallComponents DEF Unshared,
        CallShape, Exclusive, Holds, NoFields
  <2>6. TargetIsOpen(b)'
    BY <1>6, <2>1, <2>2, <2>3, Components, <1>1, <1>3, <1>4, <1>5, CallComponents
        DEF TargetIsOpen, CallShape, Exclusive, Kinds
  <2>7. ClosingIsUnused(b)'
    BY <1>6, <2>1, <2>2, <2>3, Components, <1>1, <1>3, <1>4, <1>5, CallComponents
        DEF ClosingIsUnused, CallShape, Exclusive, Holds, NoFields
  <2>8. OpenShape(b)'
    BY <1>6, <2>1, <2>2, <2>3, Components, <1>1, <1>3, <1>4, <1>5, CallComponents DEF OpenShape,
        CallShape
  <2>9. SwapShape(b)'
    BY <1>6, <2>1, <2>2, <2>3, Components, <1>1, <1>3, <1>4, <1>5, CallComponents DEF SwapShape,
        CallShape
  <2>10. Unfenced(b)'
    BY <1>6, <2>1, <2>2, <2>3, Components, <1>1, <1>3, <1>4, <1>5, CallComponents DEF Unfenced,
        CallShape, InProgress, RuntimeShape
  <2>11. Exclusive(a, b)'
    BY <1>6, <2>1, <2>2, <2>3, Components, <1>1, <1>3, <1>4, <1>5, CallComponents DEF Exclusive,
        CallShape, Unshared
  <2>12. Exclusive(b, a)'
    BY <1>6, <2>1, <2>2, <2>3, Components, <1>1, <1>3, <1>4, <1>5, CallComponents DEF Exclusive,
        CallShape, Unshared
  <2> QED BY <2>4, <2>5, <2>6, <2>7, <2>8, <2>9, <2>10, <2>11, <2>12 DEF AdminInv
<1>7. AdminInv(a)'
  <2>1. CallShape(a)'
    BY <1>1, <1>3, <1>4, <1>5, CallComponents, Components DEF CallShape, RuntimeShape
  <2>2. Unshared(a)'
    BY <1>1, <1>3, <1>4 DEF Unshared, CallShape
  <2>3. TargetIsOpen(a)'
    BY <1>1, <1>3, <1>4 DEF TargetIsOpen, CallShape, Kinds
  <2>4. ClosingIsUnused(a)'
    BY <1>1, <1>3, <1>4, <1>5, CallComponents, Components DEF ClosingIsUnused, CallShape
  <2>5. OpenShape(a)'
    BY <1>1, <1>3, <1>4, <1>5, CallComponents, Components DEF OpenShape, CallShape
  <2>6. SwapShape(a)'
    BY <1>1, <1>3, <1>4, <1>5, CallComponents, Components DEF SwapShape, CallShape
  <2>7. Unfenced(a)'
    BY <1>1, <1>3, <1>4, <1>5, CallComponents, Components DEF Unfenced, CallShape, InProgress,
        RuntimeShape
  <2> QED BY <2>1, <2>2, <2>3, <2>4, <2>5, <2>6, <2>7 DEF AdminInv
<1>8. RuntimeShape'
  <2>1. (lock = NoAdmin /\ ~opened => field = NoFields)'
    BY <1>1, <1>3, <1>4
  <2>2. (\A k \in Kinds, h \in Generations : h > generation => client[<<k, h>>] = "none")'
    BY <1>3, <1>4, <1>5, CallComponents, Components DEF RuntimeShape, CallShape, Generations
  <2>5. (~TransactionEnabled => \A h \in Generations : client[<<"bridge", h>>] # "open")'
    BY <1>1, <1>3, <1>4 DEF RuntimeShape, Kinds
  <2>6. (\A f \in Fields : field[f] <= generation)'
    BY <1>3, <1>4, <1>5, CallComponents, Components DEF RuntimeShape, CallShape
  <2>3. (\A h \in fenced : h <= generation)'
    <3>0. generation \in 0 .. MaxGeneration /\ fenced \subseteq 1 .. MaxGeneration
      BY Zenon DEF TypeOK, Generations
    <3>1. generation \in Nat /\ \A h \in fenced : h \in Nat /\ h <= generation
      BY <1>4, <3>0 DEF RuntimeShape
    <3>2. generation' = generation + 1 /\ fenced' = fenced
      BY <1>3
    <3> QED BY <3>1, <3>2
  <2>4. (~disturbed => \A b, e \in Admins : InProgress(b) /\ InProgress(e) => b = e)'
    BY <1>1, <1>3, <1>4, <1>5, CallComponents, <1>2 DEF RuntimeShape, InProgress, CallShape
  <2> QED BY <2>1, <2>2, <2>3, <2>4, <2>5, <2>6 DEF RuntimeShape
<1>9. ClientsAccountedFor'
  <2> SUFFICES ASSUME NEW k \in Kinds, NEW h \in Generations, client'[<<k, h>>] = "open"
               PROVE  Accounted(k, h)'
    BY DEF ClientsAccountedFor, Accounted
  <2>1. client[<<k, h>>] = "open" => Accounted(k, h)
    BY <1>4 DEF ClientsAccountedFor, Accounted
  <2>2. ASSUME NEW e \in Admins, e # a, call[e].target = h \/ <<k, h>> \in Range(call[e].todo)
        PROVE  Accounted(k, h)'
    BY <1>2, <2>2 DEF Accounted
  <2>3. client[<<k, h>>] = "open" \/ call'[a].target = h
    BY <1>1, <1>3
  <2>4. call'[a].target = h => Accounted(k, h)'
    BY DEF Accounted
  <2>5. field[k] = h => Accounted(k, h)'
    BY <1>1, <1>3, <1>4, <1>5, CallComponents, <2>2, Components DEF Generations, Accounted,
        CallShape, OpenShape, SwapShape, TargetIsOpen, RuntimeShape, Holds, NoFields, Kinds,
        Fields
  <2>6. call[a].target = h => Accounted(k, h)'
    BY <1>1, <1>3, <1>4, <1>5, CallComponents, <2>3, Components DEF Generations, Accounted,
        CallShape, OpenShape, SwapShape
  <2>7. <<k, h>> \in Range(call[a].todo) => Accounted(k, h)'
    BY <1>1, <1>3, <1>4, <1>5, CallComponents, UnassignedSteps, Components DEF Generations,
        Accounted, CallShape, OpenShape, SwapShape
  <2>8. <<k, h>> \in abandoned => Accounted(k, h)'
    BY <1>3 DEF Accounted
  <2>9. Accounted(k, h) => Accounted(k, h)'
    BY <2>2, <2>5, <2>6, <2>7, <2>8 DEF Accounted
  <2> QED BY <2>1, <2>3, <2>4, <2>9
<1>10. OpenIsWhole'
  <2>1. (IsOpen => \A k \in {"consumer", "producer"} :
                        field[k] # 0 /\ client[<<k, field[k]>>] = "open")'
    BY <1>1, <1>3, <1>4, <1>5, CallComponents, Components DEF Kinds, Generations
  <2>2. (IsOpen /\ TransactionEnabled => /\ field["bridge"] # 0
                                          /\ client[<<"bridge", field["bridge"]>>] = "open")'
    BY <1>1, <1>3, <1>4, <1>5, CallComponents, Components DEF IsOpen, Holds, NoFields, Fields
  <2>3. (IsOpen /\ lock = NoAdmin => \A f \in Fields :
                field[f] = field["probe"] \/ (f = "bridge" /\ ~TransactionEnabled))'
    BY <1>1, <1>3, <1>4, <1>5, CallComponents, Components
  <2> QED BY <2>1, <2>2, <2>3 DEF OpenIsWhole
<1>11. RotationHandsOver'
  BY <1>1, <1>3, <1>4, <1>5, CallComponents, <1>2, Components DEF RotationHandsOver, Unfenced,
      SwapShape, OpenShape, CallShape, InProgress, IsOpen, Holds, Fields, Kinds
<1> QED BY <1>2, <1>6, <1>7, <1>8, <1>9, <1>10, <1>11, Assembled


\* RotateBegin keeps the invariant.
LEMMA RotateBeginKeeps ==
    ASSUME TypeOK, LifecycleInv, NEW a \in Admins, NEW g \in Generations, RotateBegin(a, g)
    PROVE  LifecycleInv'
<1>1. /\ call[a].pc = "idle"
      /\ call'[a].operation = "rotate"
      /\ call'[a].pc = "probing"
      /\ call'[a].target = g
      /\ call'[a].todo = <<>>
      /\ call'[a].next = <<>>
  BY Components DEF RotateBegin, Creates, Idle
<1>2. \A b \in Admins : b # a => call'[b] = call[b]
  BY Components DEF RotateBegin
<1>3. /\ opened
      /\ g = generation + 1
      /\ generation' = g
      /\ \A k \in Kinds, h \in Generations :
            client'[<<k, h>>] = IF k # "bridge" /\ h = g THEN "open" ELSE client[<<k, h>>]
      /\ disturbed' <=> disturbed \/ \E b \in Admins : InProgress(b)
      /\ UNCHANGED <<opened, closed, lock, field, fenced, abandoned>>
  BY Components DEF RotateBegin, TypeOK, Call, Creates, Idle, runtime, clients, history,
      publishing, InProgress, Clients, Kinds
<1>4. AdminInv(a) /\ RuntimeShape /\ ClientsAccountedFor /\ OpenIsWhole /\ RotationHandsOver
  BY DEF LifecycleInv
<1>5. /\ CallShape(a) /\ Unshared(a) /\ TargetIsOpen(a) /\ ClosingIsUnused(a)
      /\ OpenShape(a) /\ SwapShape(a) /\ Unfenced(a)
  BY <1>4 DEF AdminInv
<1>6. ASSUME NEW b \in Admins, b # a PROVE AdminInv(b)' /\ Exclusive(a, b)' /\ Exclusive(b, a)'
  <2>1. call'[b] = call[b]
    BY <1>2, <1>6
  <2>2. AdminInv(b) /\ Exclusive(a, b) /\ Exclusive(b, a)
    BY <1>6 DEF LifecycleInv
  <2>3. /\ CallShape(b) /\ Unshared(b) /\ TargetIsOpen(b) /\ ClosingIsUnused(b)
        /\ OpenShape(b) /\ SwapShape(b) /\ Unfenced(b)
    BY <2>2 DEF AdminInv
  <2>4. CallShape(b)'
    BY <1>6, <2>1, <2>2, <2>3, Components, <1>1, <1>3, <1>4, <1>5, CallComponents DEF CallShape
  <2>5. Unshared(b)'
    BY <1>6, <2>1, <2>2, <2>3, Components, <1>1, <1>3, <1>4, <1>5, CallComponents DEF Unshared,
        CallShape, Exclusive, Holds, NoFields
  <2>6. TargetIsOpen(b)'
    BY <1>6, <2>1, <2>2, <2>3, Components, <1>1, <1>3, <1>4, <1>5, CallComponents
        DEF TargetIsOpen, CallShape, Exclusive, Kinds
  <2>7. ClosingIsUnused(b)'
    BY <1>6, <2>1, <2>2, <2>3, Components, <1>1, <1>3, <1>4, <1>5, CallComponents
        DEF ClosingIsUnused, CallShape, Exclusive, Holds, NoFields
  <2>8. OpenShape(b)'
    BY <1>6, <2>1, <2>2, <2>3, Components, <1>1, <1>3, <1>4, <1>5, CallComponents DEF OpenShape,
        CallShape
  <2>9. SwapShape(b)'
    BY <1>6, <2>1, <2>2, <2>3, Components, <1>1, <1>3, <1>4, <1>5, CallComponents DEF SwapShape,
        CallShape
  <2>10. Unfenced(b)'
    BY <1>6, <2>1, <2>2, <2>3, Components, <1>1, <1>3, <1>4, <1>5, CallComponents DEF Unfenced,
        CallShape, InProgress, RuntimeShape
  <2>11. Exclusive(a, b)'
    BY <1>6, <2>1, <2>2, <2>3, Components, <1>1, <1>3, <1>4, <1>5, CallComponents DEF Exclusive,
        CallShape, Unshared
  <2>12. Exclusive(b, a)'
    BY <1>6, <2>1, <2>2, <2>3, Components, <1>1, <1>3, <1>4, <1>5, CallComponents DEF Exclusive,
        CallShape, Unshared
  <2> QED BY <2>4, <2>5, <2>6, <2>7, <2>8, <2>9, <2>10, <2>11, <2>12 DEF AdminInv
<1>7. AdminInv(a)'
  <2>1. CallShape(a)'
    BY <1>1, <1>3, <1>4, <1>5, CallComponents, Components DEF CallShape, RuntimeShape
  <2>2. Unshared(a)'
    BY <1>1, <1>3, <1>4, <1>5, CallComponents, Components DEF Unshared, CallShape, RuntimeShape
  <2>3. TargetIsOpen(a)'
    BY <1>1, <1>3, <1>4 DEF TargetIsOpen, CallShape, Kinds
  <2>4. ClosingIsUnused(a)'
    BY <1>1, <1>3, <1>4, <1>5, CallComponents, Components DEF ClosingIsUnused, CallShape
  <2>5. OpenShape(a)'
    BY <1>1, <1>3, <1>4, <1>5, CallComponents, Components DEF OpenShape, CallShape
  <2>6. SwapShape(a)'
    BY <1>1, <1>3, <1>4, <1>5, CallComponents, Components DEF SwapShape, CallShape
  <2>7. Unfenced(a)'
    BY <1>1, <1>3, <1>4, <1>5, CallComponents, Components DEF Unfenced, CallShape, InProgress,
        RuntimeShape
  <2> QED BY <2>1, <2>2, <2>3, <2>4, <2>5, <2>6, <2>7 DEF AdminInv
<1>8. RuntimeShape'
  <2>1. (lock = NoAdmin /\ ~opened => field = NoFields)'
    BY <1>1, <1>3, <1>4
  <2>2. (\A k \in Kinds, h \in Generations : h > generation => client[<<k, h>>] = "none")'
    BY <1>1, <1>3, <1>4, <1>5, CallComponents, Components DEF RuntimeShape, CallShape, Generations
  <2>5. (~TransactionEnabled => \A h \in Generations : client[<<"bridge", h>>] # "open")'
    BY <1>1, <1>3, <1>4 DEF RuntimeShape, Kinds
  <2>6. (\A f \in Fields : field[f] <= generation)'
    BY <1>3, <1>4, <1>5, CallComponents, Components DEF RuntimeShape, CallShape
  <2>3. (\A h \in fenced : h <= generation)'
    BY <1>1, <1>3, <1>4 DEF RuntimeShape, TypeOK
  <2>4. (~disturbed => \A b, e \in Admins : InProgress(b) /\ InProgress(e) => b = e)'
    BY <1>3, <1>4, <1>5, CallComponents, <1>2 DEF RuntimeShape, InProgress, CallShape
  <2> QED BY <2>1, <2>2, <2>3, <2>4, <2>5, <2>6 DEF RuntimeShape
<1>9. ClientsAccountedFor'
  <2> SUFFICES ASSUME NEW k \in Kinds, NEW h \in Generations, client'[<<k, h>>] = "open"
               PROVE  Accounted(k, h)'
    BY DEF ClientsAccountedFor, Accounted
  <2>1. client[<<k, h>>] = "open" => Accounted(k, h)
    BY <1>4 DEF ClientsAccountedFor, Accounted
  <2>2. ASSUME NEW e \in Admins, e # a, call[e].target = h \/ <<k, h>> \in Range(call[e].todo)
        PROVE  Accounted(k, h)'
    BY <1>2, <2>2 DEF Accounted
  <2>3. client[<<k, h>>] = "open" \/ call'[a].target = h
    BY <1>1, <1>3
  <2>4. call'[a].target = h => Accounted(k, h)'
    BY DEF Accounted
  <2>5. field[k] = h => Accounted(k, h)'
    BY <1>1, <1>3, <1>4, <1>5, CallComponents, <2>2, Components DEF Generations, Accounted,
        CallShape, OpenShape, SwapShape
  <2>6. call[a].target = h => Accounted(k, h)'
    BY <1>1, <1>3, <1>4, <1>5, CallComponents, <2>3, Components DEF Generations, Accounted,
        CallShape, OpenShape, SwapShape
  <2>7. <<k, h>> \in Range(call[a].todo) => Accounted(k, h)'
    BY <1>1, <1>3, <1>4, <1>5, CallComponents, UnassignedSteps, Components DEF Generations,
        Accounted, CallShape, OpenShape, SwapShape
  <2>8. <<k, h>> \in abandoned => Accounted(k, h)'
    BY <1>3 DEF Accounted
  <2>9. Accounted(k, h) => Accounted(k, h)'
    BY <2>2, <2>5, <2>6, <2>7, <2>8 DEF Accounted
  <2> QED BY <2>1, <2>3, <2>4, <2>9
<1>10. OpenIsWhole'
  <2>1. (IsOpen => \A k \in {"consumer", "producer"} :
                        field[k] # 0 /\ client[<<k, field[k]>>] = "open")'
    BY <1>1, <1>3, <1>4, <1>5, CallComponents, Components DEF OpenIsWhole, ClosingIsUnused,
        TargetIsOpen, OpenShape, SwapShape, CallShape, IsOpen, Holds, NoFields, Fields, Kinds,
        Generations
  <2>2. (IsOpen /\ TransactionEnabled => /\ field["bridge"] # 0
                                          /\ client[<<"bridge", field["bridge"]>>] = "open")'
    BY <1>1, <1>3, <1>4, <1>5, CallComponents, Components DEF OpenIsWhole, ClosingIsUnused,
        TargetIsOpen, OpenShape, SwapShape, CallShape, IsOpen, Holds, NoFields, Fields, Kinds,
        Generations
  <2>3. (IsOpen /\ lock = NoAdmin => \A f \in Fields :
                field[f] = field["probe"] \/ (f = "bridge" /\ ~TransactionEnabled))'
    BY <1>1, <1>3, <1>4, <1>5, CallComponents, Components DEF OpenIsWhole, ClosingIsUnused,
        TargetIsOpen, OpenShape, SwapShape, CallShape, IsOpen, Holds, NoFields, Fields, Kinds,
        Generations
  <2> QED BY <2>1, <2>2, <2>3 DEF OpenIsWhole
<1>11. RotationHandsOver'
  BY <1>1, <1>3, <1>4, <1>5, CallComponents, <1>2, Components DEF RotationHandsOver, Unfenced,
      SwapShape, OpenShape, CallShape, InProgress, IsOpen, Holds, Fields, Kinds
<1> QED BY <1>2, <1>6, <1>7, <1>8, <1>9, <1>10, <1>11, Assembled


\* OpenProbe keeps the invariant.
LEMMA OpenProbeKeeps ==
    ASSUME TypeOK, LifecycleInv, NEW a \in Admins, OpenProbe(a)
    PROVE  LifecycleInv'
<1>1. /\ call[a].pc = "probing"
      /\ call'[a].operation = call[a].operation
      /\ call'[a].pc = "initialising"
      /\ call'[a].target = call[a].target
      /\ call'[a].todo = call[a].todo
      /\ call'[a].next = call[a].next
      /\ call[a].operation # "open" => field' = field
  BY Components DEF OpenProbe, TypeOK, Call
<1>2. \A b \in Admins : b # a => call'[b] = call[b]
  BY Components DEF OpenProbe, TypeOK, Call
<1>3. /\ \A k \in Kinds, h \in Generations :
            client'[<<k, h>>] = IF TransactionEnabled /\ k = "bridge" /\ h = call[a].target
                               THEN "open" ELSE client[<<k, h>>]
      /\ \A f \in Fields : field'[f] =
            IF f = "bridge" /\ TransactionEnabled /\ call[a].operation = "open"
            THEN call[a].target ELSE field[f]
      /\ UNCHANGED <<opened, closed, lock, fenced, generation, abandoned, disturbed>>
  <2>1. UNCHANGED <<opened, closed, lock, fenced, generation, abandoned, disturbed>>
    BY DEF OpenProbe, history
  <2>2. CASE TransactionEnabled
    <3>1. /\ client' = [client EXCEPT ![<<"bridge", call[a].target>>] = "open"]
          /\ field' = IF call[a].operation = "open"
                      THEN [field EXCEPT !["bridge"] = call[a].target] ELSE field
      BY <2>2 DEF OpenProbe
    <3> QED BY <2>1, <2>2, <3>1 DEF TypeOK
  <2>3. CASE ~TransactionEnabled
    BY <2>1, <2>3 DEF OpenProbe
  <2> QED BY <2>2, <2>3
<1>4. AdminInv(a) /\ RuntimeShape /\ ClientsAccountedFor /\ OpenIsWhole /\ RotationHandsOver
  BY DEF LifecycleInv
<1>5. /\ CallShape(a) /\ Unshared(a) /\ TargetIsOpen(a) /\ ClosingIsUnused(a)
      /\ OpenShape(a) /\ SwapShape(a) /\ Unfenced(a)
  BY <1>4 DEF AdminInv
<1>6. ASSUME NEW b \in Admins, b # a PROVE AdminInv(b)' /\ Exclusive(a, b)' /\ Exclusive(b, a)'
  <2>1. call'[b] = call[b]
    BY <1>2, <1>6
  <2>2. AdminInv(b) /\ Exclusive(a, b) /\ Exclusive(b, a)
    BY <1>6 DEF LifecycleInv
  <2>3. /\ CallShape(b) /\ Unshared(b) /\ TargetIsOpen(b) /\ ClosingIsUnused(b)
        /\ OpenShape(b) /\ SwapShape(b) /\ Unfenced(b)
    BY <2>2 DEF AdminInv
  <2>4. CallShape(b)'
    BY <1>6, <2>1, <2>2, <2>3, Components, <1>1, <1>3, <1>4, <1>5, CallComponents DEF CallShape
  <2>5. Unshared(b)'
    BY <1>6, <2>1, <2>2, <2>3, Components, <1>1, <1>3, <1>4, <1>5, CallComponents DEF Unshared,
        CallShape, Exclusive, Holds, NoFields
  <2>6. TargetIsOpen(b)'
    BY <1>6, <2>1, <2>2, <2>3, Components, <1>1, <1>3, <1>4, <1>5, CallComponents
        DEF TargetIsOpen, CallShape, Exclusive, Kinds
  <2>7. ClosingIsUnused(b)'
    BY <1>6, <2>1, <2>2, <2>3, Components, <1>1, <1>3, <1>4, <1>5, CallComponents
        DEF ClosingIsUnused, CallShape, Exclusive, Holds, NoFields
  <2>8. OpenShape(b)'
    BY <1>6, <2>1, <2>2, <2>3, Components, <1>1, <1>3, <1>4, <1>5, CallComponents DEF OpenShape,
        CallShape
  <2>9. SwapShape(b)'
    BY <1>6, <2>1, <2>2, <2>3, Components, <1>1, <1>3, <1>4, <1>5, CallComponents DEF SwapShape,
        CallShape
  <2>10. Unfenced(b)'
    BY <1>6, <2>1, <2>2, <2>3, Components, <1>1, <1>3, <1>4, <1>5, CallComponents DEF Unfenced,
        CallShape, InProgress, RuntimeShape
  <2>11. Exclusive(a, b)'
    BY <1>6, <2>1, <2>2, <2>3, Components, <1>1, <1>3, <1>4, <1>5, CallComponents DEF Exclusive,
        CallShape, Unshared
  <2>12. Exclusive(b, a)'
    BY <1>6, <2>1, <2>2, <2>3, Components, <1>1, <1>3, <1>4, <1>5, CallComponents DEF Exclusive,
        CallShape, Unshared
  <2> QED BY <2>4, <2>5, <2>6, <2>7, <2>8, <2>9, <2>10, <2>11, <2>12 DEF AdminInv
<1>7. AdminInv(a)'
  <2>1. CallShape(a)'
    BY <1>1, <1>3, <1>4, <1>5, CallComponents, Components DEF CallShape, RuntimeShape
  <2>2. Unshared(a)'
    BY <1>1, <1>3, <1>4, <1>5, CallComponents, Components DEF Unshared, CallShape, RuntimeShape
  <2>3. TargetIsOpen(a)'
    BY <1>1, <1>3, <1>4, <1>5, CallComponents, Components DEF TargetIsOpen, CallShape, Kinds
  <2>4. ClosingIsUnused(a)'
    BY <1>1, <1>3, <1>4, <1>5, CallComponents, Components DEF ClosingIsUnused, CallShape
  <2>5. OpenShape(a)'
    BY <1>1, <1>3, <1>4, <1>5, CallComponents, Components DEF OpenShape, CallShape, Holds,
        NoFields
  <2>6. SwapShape(a)'
    BY <1>1, <1>3, <1>4, <1>5, CallComponents, Components DEF SwapShape, CallShape
  <2>7. Unfenced(a)'
    BY <1>1, <1>3, <1>4, <1>5, CallComponents, Components DEF Unfenced, CallShape, InProgress,
        RuntimeShape
  <2> QED BY <2>1, <2>2, <2>3, <2>4, <2>5, <2>6, <2>7 DEF AdminInv
<1>8. RuntimeShape'
  <2>1. (lock = NoAdmin /\ ~opened => field = NoFields)'
    BY <1>1, <1>3, <1>4, <1>5, CallComponents DEF RuntimeShape, OpenShape, CallShape
  <2>2. (\A k \in Kinds, h \in Generations : h > generation => client[<<k, h>>] = "none")'
    BY <1>3, <1>4, <1>5, CallComponents, Components DEF RuntimeShape, CallShape, Generations
  <2>5. (~TransactionEnabled => \A h \in Generations : client[<<"bridge", h>>] # "open")'
    BY <1>1, <1>3, <1>4 DEF RuntimeShape, Kinds
  <2>6. (\A f \in Fields : field[f] <= generation)'
    BY <1>3, <1>4, <1>5, CallComponents, Components DEF RuntimeShape, CallShape
  <2>3. (\A h \in fenced : h <= generation)'
    BY <1>1, <1>3, <1>4 DEF RuntimeShape, TypeOK
  <2>4. (~disturbed => \A b, e \in Admins : InProgress(b) /\ InProgress(e) => b = e)'
    BY <1>1, <1>3, <1>4, <1>5, CallComponents, <1>2 DEF RuntimeShape, InProgress, CallShape
  <2> QED BY <2>1, <2>2, <2>3, <2>4, <2>5, <2>6 DEF RuntimeShape
<1>9. ClientsAccountedFor'
  <2> SUFFICES ASSUME NEW k \in Kinds, NEW h \in Generations, client'[<<k, h>>] = "open"
               PROVE  Accounted(k, h)'
    BY DEF ClientsAccountedFor, Accounted
  <2>1. client[<<k, h>>] = "open" => Accounted(k, h)
    BY <1>4 DEF ClientsAccountedFor, Accounted
  <2>2. ASSUME NEW e \in Admins, e # a, call[e].target = h \/ <<k, h>> \in Range(call[e].todo)
        PROVE  Accounted(k, h)'
    BY <1>2, <2>2 DEF Accounted
  <2>3. client[<<k, h>>] = "open" \/ call'[a].target = h
    BY <1>1, <1>3
  <2>4. call'[a].target = h => Accounted(k, h)'
    BY DEF Accounted
  <2>5. field[k] = h => Accounted(k, h)'
    BY <1>1, <1>3, <1>4, <1>5, CallComponents, <2>2, Components DEF Generations, Accounted,
        CallShape, OpenShape, SwapShape
  <2>6. call[a].target = h => Accounted(k, h)'
    BY <1>1, <1>3, <1>4, <1>5, CallComponents, <2>3, Components DEF Generations, Accounted,
        CallShape, OpenShape, SwapShape
  <2>7. <<k, h>> \in Range(call[a].todo) => Accounted(k, h)'
    BY <1>1, <1>3, <1>4, <1>5, CallComponents, UnassignedSteps, Components DEF Generations,
        Accounted, CallShape, OpenShape, SwapShape
  <2>8. <<k, h>> \in abandoned => Accounted(k, h)'
    BY <1>3 DEF Accounted
  <2>9. Accounted(k, h) => Accounted(k, h)'
    BY <2>2, <2>5, <2>6, <2>7, <2>8 DEF Accounted
  <2> QED BY <2>1, <2>3, <2>4, <2>9
<1>10. OpenIsWhole'
  <2>1. (IsOpen => \A k \in {"consumer", "producer"} :
                        field[k] # 0 /\ client[<<k, field[k]>>] = "open")'
    BY <1>1, <1>3, <1>4, <1>5, CallComponents, Components DEF OpenIsWhole, ClosingIsUnused,
        TargetIsOpen, OpenShape, SwapShape, CallShape, IsOpen, Holds, NoFields, Fields, Kinds,
        Generations
  <2>2. (IsOpen /\ TransactionEnabled => /\ field["bridge"] # 0
                                          /\ client[<<"bridge", field["bridge"]>>] = "open")'
    <3>1. CASE call[a].operation = "open"
      BY <1>3, <1>5, <3>1 DEF CallShape, IsOpen
    <3>2. CASE call[a].operation # "open" /\ IsOpen /\ TransactionEnabled
      <4>1. field["bridge"] # 0 /\ client[<<"bridge", field["bridge"]>>] = "open" /\ field' = field
        <5>1. field["bridge"] # 0 /\ client[<<"bridge", field["bridge"]>>] = "open"
          BY <1>4, <3>2 DEF OpenIsWhole
        <5>2. field' = field
          BY <3>2 DEF OpenProbe
        <5> QED BY <5>1, <5>2
      <4>2. field["bridge"] \in Generations
        BY <4>1, Components DEF Generations, Kinds
      <4>3. client'[<<"bridge", field["bridge"]>>] = "open"
        BY <1>3, <4>1, <4>2 DEF Kinds
      <4> QED BY <4>1, <4>3
    <3> QED BY <1>3, <3>1, <3>2 DEF IsOpen
  <2>3. (IsOpen /\ lock = NoAdmin => \A f \in Fields :
                field[f] = field["probe"] \/ (f = "bridge" /\ ~TransactionEnabled))'
    BY <1>1, <1>3, <1>4, <1>5, CallComponents, Components DEF OpenIsWhole, ClosingIsUnused,
        TargetIsOpen, OpenShape, SwapShape, CallShape, IsOpen, Holds, NoFields, Fields, Kinds,
        Generations
  <2> QED BY <2>1, <2>2, <2>3 DEF OpenIsWhole
<1>11. RotationHandsOver'
  BY <1>1, <1>3, <1>4, <1>5, CallComponents, <1>2, Components DEF RotationHandsOver, Unfenced,
      SwapShape, OpenShape, CallShape, InProgress, IsOpen, Holds, Fields, Kinds
<1> QED BY <1>2, <1>6, <1>7, <1>8, <1>9, <1>10, <1>11, Assembled


\* OpenReturnsOpen keeps the invariant.
LEMMA OpenReturnsOpenKeeps ==
    ASSUME TypeOK, LifecycleInv, NEW a \in Admins, call[a].operation = "open", OpenReturns(a)
    PROVE  LifecycleInv'
<1>1. /\ call[a].pc = "initialising"
      /\ call[a].operation = "open"
      /\ call'[a].operation = "none"
      /\ call'[a].pc = "idle"
      /\ call'[a].target = 0
      /\ call'[a].todo = <<>>
      /\ call'[a].next = <<>>
  BY Components DEF OpenReturns, Returns, Idle
<1>2. \A b \in Admins : b # a => call'[b] = call[b]
  BY Components DEF OpenReturns, Returns, Idle
<1>3. /\ opened'
      /\ lock' = IF lock = a THEN NoAdmin ELSE lock
      /\ UNCHANGED <<closed, field, client, generation, abandoned, disturbed>>
  BY Components DEF OpenReturns, TypeOK, Call, Returns, Idle, runtime, clients, history,
      publishing
<1>4. AdminInv(a) /\ RuntimeShape /\ ClientsAccountedFor /\ OpenIsWhole /\ RotationHandsOver
  BY DEF LifecycleInv
<1>5. /\ CallShape(a) /\ Unshared(a) /\ TargetIsOpen(a) /\ ClosingIsUnused(a)
      /\ OpenShape(a) /\ SwapShape(a) /\ Unfenced(a)
  BY <1>4 DEF AdminInv
<1>6. \A h \in fenced' : h \in fenced \/ (h # call[a].target /\ h <= generation)
  <2>1. fenced' = fenced \/ fenced' = Fenced(call[a].target)
    BY DEF OpenReturns
  <2>2. \A h \in Fenced(call[a].target) : h \in fenced \/ (h # call[a].target /\ h <= generation)
    BY <1>4, Components DEF Fenced, RuntimeShape, Kinds, Generations
  <2> QED BY <2>1, <2>2
<1>7. ASSUME NEW b \in Admins, b # a PROVE AdminInv(b)' /\ Exclusive(a, b)' /\ Exclusive(b, a)'
  <2>1. call'[b] = call[b]
    BY <1>2, <1>7
  <2>2. AdminInv(b) /\ Exclusive(a, b) /\ Exclusive(b, a)
    BY <1>7 DEF LifecycleInv
  <2>3. /\ CallShape(b) /\ Unshared(b) /\ TargetIsOpen(b) /\ ClosingIsUnused(b)
        /\ OpenShape(b) /\ SwapShape(b) /\ Unfenced(b)
    BY <2>2 DEF AdminInv
  <2>4. CallShape(b)'
    BY <1>7, <2>1, <2>2, <2>3, Components, <1>1, <1>3, <1>4, <1>5, CallComponents,
        UnassignedSteps, <1>6 DEF CallShape
  <2>5. Unshared(b)'
    BY <1>7, <2>1, <2>2, <2>3, Components, <1>1, <1>3, <1>4, <1>5, CallComponents,
        UnassignedSteps, <1>6 DEF Unshared, CallShape, Exclusive, Holds, NoFields
  <2>6. TargetIsOpen(b)'
    BY <1>7, <2>1, <2>2, <2>3, Components, <1>1, <1>3, <1>4, <1>5, CallComponents,
        UnassignedSteps, <1>6 DEF TargetIsOpen, CallShape, Exclusive, Kinds
  <2>7. ClosingIsUnused(b)'
    BY <1>7, <2>1, <2>2, <2>3, Components, <1>1, <1>3, <1>4, <1>5, CallComponents,
        UnassignedSteps, <1>6 DEF ClosingIsUnused, CallShape, Exclusive, Holds, NoFields
  <2>8. OpenShape(b)'
    BY <1>7, <2>1, <2>2, <2>3, Components, <1>1, <1>3, <1>4, <1>5, CallComponents,
        UnassignedSteps, <1>6 DEF OpenShape, CallShape
  <2>9. SwapShape(b)'
    BY <1>7, <2>1, <2>2, <2>3, Components, <1>1, <1>3, <1>4, <1>5, CallComponents,
        UnassignedSteps, <1>6 DEF SwapShape, CallShape
  <2>10. Unfenced(b)'
    BY <1>7, <2>1, <2>2, <2>3, Components, <1>1, <1>3, <1>4, <1>5, CallComponents,
        UnassignedSteps, <1>6 DEF Unfenced, CallShape, InProgress, RuntimeShape
  <2>11. Exclusive(a, b)'
    BY <1>1, <1>3, <1>4, <1>5, CallComponents, UnassignedSteps, <1>6 DEF Exclusive
  <2>12. Exclusive(b, a)'
    BY <1>1, <1>3, <1>4, <1>5, CallComponents, UnassignedSteps, <1>6 DEF Exclusive
  <2> QED BY <2>4, <2>5, <2>6, <2>7, <2>8, <2>9, <2>10, <2>11, <2>12 DEF AdminInv
<1>8. AdminInv(a)'
  <2>1. CallShape(a)'
    BY <1>1, <1>3, <1>4, <1>5, CallComponents, UnassignedSteps, <1>6, Components DEF CallShape,
        RuntimeShape
  <2>2. Unshared(a)'
    BY <1>1, <1>3, <1>4, <1>5 DEF Unshared, CallShape, RuntimeShape
  <2>3. TargetIsOpen(a)'
    BY <1>1, <1>3, <1>4, <1>5 DEF TargetIsOpen, CallShape, Kinds
  <2>4. ClosingIsUnused(a)'
    BY <1>1, <1>3, <1>4, <1>5, CallComponents, UnassignedSteps, <1>6, Components
        DEF ClosingIsUnused, CallShape
  <2>5. OpenShape(a)'
    BY <1>1, <1>3, <1>4, <1>5 DEF OpenShape, CallShape, Holds
  <2>6. SwapShape(a)'
    BY <1>1, <1>3, <1>4, <1>5 DEF SwapShape, CallShape, Unshared
  <2>7. Unfenced(a)'
    BY <1>1, <1>3, <1>4, <1>5 DEF Unfenced, CallShape, InProgress
  <2> QED BY <2>1, <2>2, <2>3, <2>4, <2>5, <2>6, <2>7 DEF AdminInv
<1>9. RuntimeShape'
  <2>1. (lock = NoAdmin /\ ~opened => field = NoFields)'
    BY <1>3, <1>4, <1>5
  <2>2. (\A k \in Kinds, h \in Generations : h > generation => client[<<k, h>>] = "none")'
    BY <1>3, <1>4, <1>5 DEF RuntimeShape, CallShape, Generations
  <2>5. (~TransactionEnabled => \A h \in Generations : client[<<"bridge", h>>] # "open")'
    BY <1>1, <1>3, <1>4 DEF RuntimeShape, Kinds
  <2>6. (\A f \in Fields : field[f] <= generation)'
    BY <1>1, <1>3, <1>4, <1>5 DEF RuntimeShape, CallShape, NoFields
  <2>3. (\A h \in fenced : h <= generation)'
    BY <1>1, <1>3, <1>4, <1>5, CallComponents, UnassignedSteps, <1>6, Components DEF RuntimeShape,
        TypeOK, Generations
  <2>4. (~disturbed => \A b, e \in Admins : InProgress(b) /\ InProgress(e) => b = e)'
    BY <1>1, <1>3, <1>4, <1>5, CallComponents, UnassignedSteps, <1>6, <1>2 DEF RuntimeShape,
        InProgress, CallShape
  <2> QED BY <2>1, <2>2, <2>3, <2>4, <2>5, <2>6 DEF RuntimeShape
<1>10. ClientsAccountedFor'
  <2> SUFFICES ASSUME NEW k \in Kinds, NEW h \in Generations, client'[<<k, h>>] = "open"
               PROVE  Accounted(k, h)'
    BY DEF ClientsAccountedFor, Accounted
  <2>1. client[<<k, h>>] = "open" => Accounted(k, h)
    BY <1>4 DEF ClientsAccountedFor, Accounted
  <2>2. ASSUME NEW e \in Admins, e # a, call[e].target = h \/ <<k, h>> \in Range(call[e].todo)
        PROVE  Accounted(k, h)'
    BY <1>2, <2>2 DEF Accounted
  <2>3. client[<<k, h>>] = "open"
    BY <1>1, <1>3
  <2>4. <<k, h>> \in abandoned => Accounted(k, h)'
    BY <1>3 DEF Accounted
  <2>5. field[k] = h => Accounted(k, h)'
    BY <1>1, <1>3, <1>4, <1>5, CallComponents, UnassignedSteps, <1>6, <2>2, Components
        DEF Generations, Accounted, CallShape, OpenShape, SwapShape
  <2>6. call[a].target = h => Accounted(k, h)'
    BY <1>1, <1>3, <1>4, <1>5, CallComponents, UnassignedSteps, <1>6, <2>3, Components
        DEF Generations, Accounted, CallShape, OpenShape, SwapShape, TargetIsOpen, RuntimeShape,
        Holds, NoFields, Kinds, Fields
  <2>7. <<k, h>> \in Range(call[a].todo) => Accounted(k, h)'
    BY <1>1, <1>3, <1>4, <1>5, CallComponents, UnassignedSteps, <1>6, UnassignedSteps, Components
        DEF Generations, Accounted, CallShape, OpenShape, SwapShape
  <2>8. <<k, h>> \in abandoned => Accounted(k, h)'
    BY <1>3 DEF Accounted
  <2>9. Accounted(k, h) => Accounted(k, h)'
    BY <2>2, <2>5, <2>6, <2>7, <2>8 DEF Accounted
  <2> QED BY <2>1, <2>3, <2>4, <2>9
<1>11. OpenIsWhole'
  <2>1. (IsOpen => \A k \in {"consumer", "producer"} :
                        field[k] # 0 /\ client[<<k, field[k]>>] = "open")'
    <3>1. \A k \in {"consumer", "producer"} : field[k] = call[a].target
      BY <1>1, <1>5 DEF OpenShape, Holds, Fields, Kinds
    <3>2. call[a].target # 0
      BY <1>1, <1>5 DEF CallShape
    <3>3. \A k \in {"consumer", "producer"} : client[<<k, call[a].target>>] = "open"
      BY <1>1, <1>5 DEF TargetIsOpen
    <3> QED BY <1>3, <3>1, <3>2, <3>3
  <2>2. (IsOpen /\ TransactionEnabled => /\ field["bridge"] # 0
                                          /\ client[<<"bridge", field["bridge"]>>] = "open")'
    BY <1>1, <1>3, <1>4, <1>5, CallComponents, UnassignedSteps, <1>6, Components DEF OpenIsWhole,
        ClosingIsUnused, TargetIsOpen, OpenShape, SwapShape, CallShape, IsOpen, Holds, NoFields,
        Fields, Kinds, Generations
  <2>3. (IsOpen /\ lock = NoAdmin => \A f \in Fields :
                field[f] = field["probe"] \/ (f = "bridge" /\ ~TransactionEnabled))'
    BY <1>1, <1>3, <1>4, <1>5, CallComponents, UnassignedSteps, <1>6, Components DEF OpenIsWhole,
        ClosingIsUnused, TargetIsOpen, OpenShape, SwapShape, CallShape, IsOpen, Holds, NoFields,
        Fields, Kinds, Generations
  <2> QED BY <2>1, <2>2, <2>3 DEF OpenIsWhole
<1>12. RotationHandsOver'
  BY <1>1, <1>3, <1>4, <1>5, CallComponents, UnassignedSteps, <1>6, <1>2, Components
      DEF RotationHandsOver, Unfenced, SwapShape, OpenShape, CallShape, InProgress, IsOpen, Holds,
      Fields, Kinds
<1> QED BY <1>2, <1>7, <1>8, <1>9, <1>10, <1>11, <1>12, Assembled


\* OpenReturnsRotate keeps the invariant.
LEMMA OpenReturnsRotateKeeps ==
    ASSUME TypeOK, LifecycleInv, NEW a \in Admins, call[a].operation = "rotate", OpenReturns(a)
    PROVE  LifecycleInv'
<1>1. /\ call[a].pc = "initialising"
      /\ call[a].operation = "rotate"
      /\ call'[a].operation = call[a].operation
      /\ call'[a].pc = "reprobing"
      /\ call'[a].target = call[a].target
      /\ call'[a].todo = call[a].todo
      /\ call'[a].next = call[a].next
  BY Components DEF OpenReturns, TypeOK, Call
<1>2. \A b \in Admins : b # a => call'[b] = call[b]
  BY Components DEF OpenReturns, TypeOK, Call
<1>3. /\ UNCHANGED <<opened, lock, closed, field, client, generation, abandoned, disturbed>>
  BY DEF OpenReturns, TypeOK, history, publishing
<1>4. AdminInv(a) /\ RuntimeShape /\ ClientsAccountedFor /\ OpenIsWhole /\ RotationHandsOver
  BY DEF LifecycleInv
<1>5. /\ CallShape(a) /\ Unshared(a) /\ TargetIsOpen(a) /\ ClosingIsUnused(a)
      /\ OpenShape(a) /\ SwapShape(a) /\ Unfenced(a)
  BY <1>4 DEF AdminInv
<1>6. \A h \in fenced' : h \in fenced \/ (h # call[a].target /\ h <= generation)
  <2>1. fenced' = fenced \/ fenced' = Fenced(call[a].target)
    BY DEF OpenReturns
  <2>2. \A h \in Fenced(call[a].target) : h \in fenced \/ (h # call[a].target /\ h <= generation)
    BY <1>4, Components DEF Fenced, RuntimeShape, Kinds, Generations
  <2> QED BY <2>1, <2>2
<1>7. ASSUME NEW b \in Admins, b # a PROVE AdminInv(b)' /\ Exclusive(a, b)' /\ Exclusive(b, a)'
  <2>1. call'[b] = call[b]
    BY <1>2, <1>7
  <2>2. AdminInv(b) /\ Exclusive(a, b) /\ Exclusive(b, a)
    BY <1>7 DEF LifecycleInv
  <2>3. /\ CallShape(b) /\ Unshared(b) /\ TargetIsOpen(b) /\ ClosingIsUnused(b)
        /\ OpenShape(b) /\ SwapShape(b) /\ Unfenced(b)
    BY <2>2 DEF AdminInv
  <2>4. CallShape(b)'
    BY <1>7, <2>1, <2>2, <2>3, Components, <1>1, <1>3, <1>4, <1>5, CallComponents, <1>6
        DEF CallShape
  <2>5. Unshared(b)'
    BY <1>7, <2>1, <2>2, <2>3, Components, <1>1, <1>3, <1>4, <1>5, CallComponents, <1>6
        DEF Unshared
  <2>6. TargetIsOpen(b)'
    BY <1>7, <2>1, <2>2, <2>3, Components, <1>1, <1>3, <1>4, <1>5, CallComponents, <1>6
        DEF TargetIsOpen, CallShape, Exclusive, Kinds
  <2>7. ClosingIsUnused(b)'
    BY <1>7, <2>1, <2>2, <2>3, Components, <1>1, <1>3, <1>4, <1>5, CallComponents, <1>6
        DEF ClosingIsUnused
  <2>8. OpenShape(b)'
    BY <1>7, <2>1, <2>2, <2>3, Components, <1>1, <1>3, <1>4, <1>5, CallComponents, <1>6
        DEF OpenShape, CallShape
  <2>9. SwapShape(b)'
    BY <1>7, <2>1, <2>2, <2>3, Components, <1>1, <1>3, <1>4, <1>5, CallComponents, <1>6
        DEF SwapShape, CallShape
  <2>10. Unfenced(b)'
    BY <1>7, <2>1, <2>2, <2>3, Components, <1>1, <1>3, <1>4, <1>5, CallComponents, <1>6
        DEF Unfenced, CallShape, InProgress, RuntimeShape
  <2>11. Exclusive(a, b)'
    BY <1>7, <2>1, <2>2, <2>3, Components, <1>1, <1>3, <1>4, <1>5, CallComponents, <1>6
        DEF Exclusive, CallShape, Unshared
  <2>12. Exclusive(b, a)'
    BY <1>7, <2>1, <2>2, <2>3, Components, <1>1, <1>3, <1>4, <1>5, CallComponents, <1>6
        DEF Exclusive, CallShape, Unshared
  <2> QED BY <2>4, <2>5, <2>6, <2>7, <2>8, <2>9, <2>10, <2>11, <2>12 DEF AdminInv
<1>8. AdminInv(a)'
  <2>1. CallShape(a)'
    BY <1>1, <1>3, <1>4, <1>5, CallComponents, <1>6, Components DEF CallShape, RuntimeShape
  <2>2. Unshared(a)'
    BY <1>1, <1>3, <1>4, <1>5, CallComponents, <1>6, Components DEF Unshared
  <2>3. TargetIsOpen(a)'
    BY <1>1, <1>3, <1>4, <1>5, CallComponents, <1>6, Components DEF TargetIsOpen
  <2>4. ClosingIsUnused(a)'
    BY <1>1, <1>3, <1>4, <1>5, CallComponents, <1>6, Components DEF ClosingIsUnused, CallShape,
        Unshared
  <2>5. OpenShape(a)'
    BY <1>1, <1>3, <1>4, <1>5, CallComponents, <1>6, Components DEF OpenShape
  <2>6. SwapShape(a)'
    BY <1>1, <1>3, <1>4, <1>5, CallComponents, <1>6, Components DEF SwapShape
  <2>7. Unfenced(a)'
    BY <1>1, <1>3, <1>4, <1>5, CallComponents, <1>6, Components DEF Unfenced, CallShape,
        InProgress, RuntimeShape
  <2> QED BY <2>1, <2>2, <2>3, <2>4, <2>5, <2>6, <2>7 DEF AdminInv
<1>9. RuntimeShape'
  <2>1. (lock = NoAdmin /\ ~opened => field = NoFields)'
    BY <1>1, <1>3, <1>4 DEF RuntimeShape, OpenShape
  <2>2. (\A k \in Kinds, h \in Generations : h > generation => client[<<k, h>>] = "none")'
    BY <1>3, <1>4, <1>5, CallComponents, <1>6, Components DEF RuntimeShape
  <2>5. (~TransactionEnabled => \A h \in Generations : client[<<"bridge", h>>] # "open")'
    BY <1>1, <1>3, <1>4 DEF RuntimeShape, Kinds
  <2>6. (\A f \in Fields : field[f] <= generation)'
    BY <1>3, <1>4, <1>5, CallComponents, <1>6, Components DEF RuntimeShape
  <2>3. (\A h \in fenced : h <= generation)'
    BY <1>3, <1>4, <1>5, CallComponents, <1>6, Components DEF RuntimeShape
  <2>4. (~disturbed => \A b, e \in Admins : InProgress(b) /\ InProgress(e) => b = e)'
    BY <1>1, <1>3, <1>4, <1>5, CallComponents, <1>6, <1>2 DEF RuntimeShape, InProgress, CallShape
  <2> QED BY <2>1, <2>2, <2>3, <2>4, <2>5, <2>6 DEF RuntimeShape
<1>10. ClientsAccountedFor'
  <2> SUFFICES ASSUME NEW k \in Kinds, NEW h \in Generations, client'[<<k, h>>] = "open"
               PROVE  Accounted(k, h)'
    BY DEF ClientsAccountedFor, Accounted
  <2>1. client[<<k, h>>] = "open" => Accounted(k, h)
    BY <1>4 DEF ClientsAccountedFor, Accounted
  <2>2. ASSUME NEW e \in Admins, e # a, call[e].target = h \/ <<k, h>> \in Range(call[e].todo)
        PROVE  Accounted(k, h)'
    BY <1>2, <2>2 DEF Accounted
  <2>3. client[<<k, h>>] = "open"
    BY <1>1, <1>3
  <2>4. <<k, h>> \in abandoned => Accounted(k, h)'
    BY <1>3 DEF Accounted
  <2>5. field[k] = h => Accounted(k, h)'
    BY <1>1, <1>3, <1>4, <1>5, CallComponents, <1>6, <2>2, Components DEF Generations, Accounted,
        CallShape, OpenShape, SwapShape, TargetIsOpen
  <2>6. call[a].target = h => Accounted(k, h)'
    BY <1>1, <1>3, <1>4, <1>5, CallComponents, <1>6, <2>3, Components DEF Generations, Accounted,
        CallShape, OpenShape, SwapShape, TargetIsOpen
  <2>7. <<k, h>> \in Range(call[a].todo) => Accounted(k, h)'
    BY <1>1, <1>3, <1>4, <1>5, CallComponents, <1>6, UnassignedSteps, Components DEF Generations,
        Accounted, CallShape, OpenShape, SwapShape, TargetIsOpen
  <2>8. <<k, h>> \in abandoned => Accounted(k, h)'
    BY <1>3 DEF Accounted
  <2>9. Accounted(k, h) => Accounted(k, h)'
    BY <2>2, <2>5, <2>6, <2>7, <2>8 DEF Accounted
  <2> QED BY <2>1, <2>3, <2>4, <2>9
<1>11. OpenIsWhole'
  <2>1. (IsOpen => \A k \in {"consumer", "producer"} :
                        field[k] # 0 /\ client[<<k, field[k]>>] = "open")'
    BY <1>1, <1>3, <1>4, <1>5, CallComponents, <1>6, Components DEF OpenIsWhole, ClosingIsUnused,
        TargetIsOpen, OpenShape, SwapShape, CallShape, IsOpen
  <2>2. (IsOpen /\ TransactionEnabled => /\ field["bridge"] # 0
                                          /\ client[<<"bridge", field["bridge"]>>] = "open")'
    BY <1>1, <1>3, <1>4, <1>5, CallComponents, <1>6, Components DEF OpenIsWhole, ClosingIsUnused,
        TargetIsOpen, OpenShape, SwapShape, CallShape, IsOpen
  <2>3. (IsOpen /\ lock = NoAdmin => \A f \in Fields :
                field[f] = field["probe"] \/ (f = "bridge" /\ ~TransactionEnabled))'
    BY <1>1, <1>3, <1>4, <1>5, CallComponents, <1>6, Components DEF OpenIsWhole, ClosingIsUnused,
        TargetIsOpen, OpenShape, SwapShape, CallShape, IsOpen
  <2> QED BY <2>1, <2>2, <2>3 DEF OpenIsWhole
<1>12. RotationHandsOver'
  BY <1>1, <1>3, <1>4, <1>5, CallComponents, <1>6, <1>2, Components DEF RotationHandsOver,
      Unfenced, SwapShape, OpenShape, CallShape, InProgress, IsOpen, Holds, Fields, Kinds
<1> QED BY <1>2, <1>7, <1>8, <1>9, <1>10, <1>11, <1>12, Assembled


\* OpenRaisesOpen keeps the invariant.
LEMMA OpenRaisesOpenKeeps ==
    ASSUME TypeOK, LifecycleInv, NEW a \in Admins, call[a].operation = "open", OpenRaises(a)
    PROVE  LifecycleInv'
<1>1. /\ call[a].pc \in {"probing", "initialising"}
      /\ call[a].operation = "open"
      /\ call'[a].operation = call[a].operation
      /\ call'[a].pc = "closing"
      /\ call'[a].target = call[a].target
      /\ call'[a].todo = CloseOrder(Replacement(call[a].target))
      /\ call'[a].next = call[a].next
  BY Components DEF OpenRaises, TypeOK, Call, Closes
<1>2. \A b \in Admins : b # a => call'[b] = call[b]
  BY Components DEF OpenRaises, TypeOK, Call, Closes
<1>3. /\ field' = NoFields
      /\ disturbed' <=> disturbed
      /\ UNCHANGED <<opened, closed, lock, client, generation, abandoned>>
  BY Components DEF OpenRaises, TypeOK
<1>4. AdminInv(a) /\ RuntimeShape /\ ClientsAccountedFor /\ OpenIsWhole /\ RotationHandsOver
  BY DEF LifecycleInv
<1>5. /\ CallShape(a) /\ Unshared(a) /\ TargetIsOpen(a) /\ ClosingIsUnused(a)
      /\ OpenShape(a) /\ SwapShape(a) /\ Unfenced(a)
  BY <1>4 DEF AdminInv
<1>6. call[a].target \in Generations
  BY <1>1, <1>5, CallComponents DEF CallShape
<1>7. /\ \A c \in Range(CloseOrder(Replacement(call[a].target))) :
                c[1] \in Kinds /\ c[2] = call[a].target
      /\ \A k \in Kinds : client[<<k, call[a].target>>] # "none" =>
                <<k, call[a].target>> \in Range(CloseOrder(Replacement(call[a].target)))
  <2>1. \A c : c \in Range(CloseOrder(Replacement(call[a].target)))
            <=> \E k \in Kinds : client[<<k, call[a].target>>] # "none" /\ c = <<k, call[a].target>>
    BY <1>6, ReplacementNames
  <2>2. ASSUME NEW c \in Range(CloseOrder(Replacement(call[a].target)))
        PROVE  c[1] \in Kinds /\ c[2] = call[a].target
    <3>1. PICK k \in Kinds : c = <<k, call[a].target>>
      BY <2>1
    <3> QED BY <3>1
  <2>3. \A k \in Kinds : client[<<k, call[a].target>>] # "none" =>
            <<k, call[a].target>> \in Range(CloseOrder(Replacement(call[a].target)))
    BY <2>1
  <2> QED BY <2>2, <2>3
<1>8. \A h \in fenced' : h \in fenced \/ (h # call[a].target /\ h <= generation)
  <2>1. fenced' = fenced \/ fenced' = Fenced(call[a].target)
    BY DEF OpenRaises
  <2>2. \A h \in Fenced(call[a].target) : h \in fenced \/ (h # call[a].target /\ h <= generation)
    BY <1>4, Components DEF Fenced, RuntimeShape, Kinds, Generations
  <2> QED BY <2>1, <2>2
<1>9. ASSUME NEW b \in Admins, b # a PROVE AdminInv(b)' /\ Exclusive(a, b)' /\ Exclusive(b, a)'
  <2>1. call'[b] = call[b]
    BY <1>2, <1>9
  <2>2. AdminInv(b) /\ Exclusive(a, b) /\ Exclusive(b, a)
    BY <1>9 DEF LifecycleInv
  <2>3. /\ CallShape(b) /\ Unshared(b) /\ TargetIsOpen(b) /\ ClosingIsUnused(b)
        /\ OpenShape(b) /\ SwapShape(b) /\ Unfenced(b)
    BY <2>2 DEF AdminInv
  <2>4. CallShape(b)'
    BY <1>9, <2>1, <2>2, <2>3, Components, <1>1, <1>3, <1>4, <1>5, CallComponents, <1>6, <1>7,
        <1>8 DEF CallShape
  <2>5. Unshared(b)'
    BY <1>9, <2>1, <2>2, <2>3, Components, <1>1, <1>3, <1>4, <1>5, CallComponents, <1>6, <1>7,
        <1>8 DEF Unshared, CallShape, Exclusive, Holds, NoFields
  <2>6. TargetIsOpen(b)'
    BY <1>9, <2>1, <2>2, <2>3, Components, <1>1, <1>3, <1>4, <1>5, CallComponents, <1>6, <1>7,
        <1>8 DEF TargetIsOpen, CallShape, Exclusive, Kinds
  <2>7. ClosingIsUnused(b)'
    BY <1>9, <2>1, <2>2, <2>3, Components, <1>1, <1>3, <1>4, <1>5, CallComponents, <1>6, <1>7,
        <1>8 DEF ClosingIsUnused, CallShape, Exclusive, Holds, NoFields
  <2>8. OpenShape(b)'
    BY <1>9, <2>1, <2>2, <2>3, Components, <1>1, <1>3, <1>4, <1>5, CallComponents, <1>6, <1>7,
        <1>8 DEF OpenShape, CallShape
  <2>9. SwapShape(b)'
    BY <1>9, <2>1, <2>2, <2>3, Components, <1>1, <1>3, <1>4, <1>5, CallComponents, <1>6, <1>7,
        <1>8 DEF SwapShape, CallShape
  <2>10. Unfenced(b)'
    BY <1>9, <2>1, <2>2, <2>3, Components, <1>1, <1>3, <1>4, <1>5, CallComponents, <1>6, <1>7,
        <1>8 DEF Unfenced, CallShape, InProgress, RuntimeShape
  <2>11. Exclusive(a, b)'
    BY <1>9, <2>1, <2>2, <2>3, Components, <1>1, <1>8 DEF Exclusive, CallShape, Unshared
  <2>12. Exclusive(b, a)'
    BY <1>9, <2>1, <2>2, <2>3, Components, <1>1, <1>3, <1>4, <1>5, CallComponents, <1>6, <1>7,
        <1>8 DEF Exclusive, CallShape, Unshared
  <2> QED BY <2>4, <2>5, <2>6, <2>7, <2>8, <2>9, <2>10, <2>11, <2>12 DEF AdminInv
<1>10. AdminInv(a)'
  <2>1. CallShape(a)'
    BY <1>1, <1>3, <1>4, <1>5, CallComponents, <1>6, <1>7, <1>8, Components DEF CallShape,
        RuntimeShape
  <2>2. Unshared(a)'
    BY <1>1, <1>3, <1>4, <1>5, Components DEF Unshared, CallShape
  <2>3. TargetIsOpen(a)'
    BY <1>1, <1>3, <1>4, <1>5, CallComponents, <1>6, <1>7, <1>8, Components DEF TargetIsOpen,
        CallShape, Kinds
  <2>4. ClosingIsUnused(a)'
    BY <1>1, <1>3, <1>4, <1>5, CallComponents, <1>6, <1>7, <1>8, Components DEF ClosingIsUnused,
        CallShape, Unshared, SwapShape, Holds, NoFields
  <2>5. OpenShape(a)'
    BY <1>1, <1>3, <1>4, <1>5, CallComponents, <1>6, <1>7, <1>8, Components DEF OpenShape
  <2>6. SwapShape(a)'
    BY <1>1, <1>3, <1>4, <1>5, CallComponents, <1>6, <1>7, <1>8, Components DEF SwapShape
  <2>7. Unfenced(a)'
    BY <1>1, <1>3, <1>4, <1>5, CallComponents, <1>6, <1>7, <1>8, Components DEF Unfenced
  <2> QED BY <2>1, <2>2, <2>3, <2>4, <2>5, <2>6, <2>7 DEF AdminInv
<1>11. RuntimeShape'
  <2>1. (lock = NoAdmin /\ ~opened => field = NoFields)'
    BY <1>3, <1>4, <1>5
  <2>2. (\A k \in Kinds, h \in Generations : h > generation => client[<<k, h>>] = "none")'
    BY <1>1, <1>3, <1>4, <1>5, Components DEF RuntimeShape, CallShape
  <2>5. (~TransactionEnabled => \A h \in Generations : client[<<"bridge", h>>] # "open")'
    BY <1>1, <1>3, <1>4 DEF RuntimeShape, Kinds
  <2>6. (\A f \in Fields : field[f] <= generation)'
    BY <1>1, <1>3, <1>4, <1>5, CallComponents, <1>6, <1>7, <1>8, Components DEF RuntimeShape,
        CallShape, NoFields, Holds
  <2>3. (\A h \in fenced : h <= generation)'
    BY <1>1, <1>3, <1>4, <1>5, CallComponents, <1>6, <1>7, <1>8, Components DEF RuntimeShape,
        TypeOK, Generations
  <2>4. (~disturbed => \A b, e \in Admins : InProgress(b) /\ InProgress(e) => b = e)'
    BY <1>1, <1>3, <1>4, <1>5, <1>2 DEF RuntimeShape, InProgress
  <2> QED BY <2>1, <2>2, <2>3, <2>4, <2>5, <2>6 DEF RuntimeShape
<1>12. ClientsAccountedFor'
  <2> SUFFICES ASSUME NEW k \in Kinds, NEW h \in Generations, client'[<<k, h>>] = "open"
               PROVE  Accounted(k, h)'
    BY DEF ClientsAccountedFor, Accounted
  <2>1. client[<<k, h>>] = "open" => Accounted(k, h)
    BY <1>4 DEF ClientsAccountedFor, Accounted
  <2>2. ASSUME NEW e \in Admins, e # a, call[e].target = h \/ <<k, h>> \in Range(call[e].todo)
        PROVE  Accounted(k, h)'
    BY <1>2, <2>2 DEF Accounted
  <2>3. client[<<k, h>>] = "open"
    BY <1>1, <1>3
  <2>4. <<k, h>> \in abandoned => Accounted(k, h)'
    BY <1>3 DEF Accounted
  <2>5. field[k] = h => Accounted(k, h)'
    BY <1>1, <1>3, <1>4, <1>5, CallComponents, <1>6, <1>7, <1>8, <2>2, Components DEF Generations,
        Accounted, CallShape, OpenShape, SwapShape, TargetIsOpen, RuntimeShape, Holds, NoFields,
        Kinds, Fields
  <2>6. call[a].target = h => Accounted(k, h)'
    BY <1>1, <1>3, <1>4, <1>5, CallComponents, <1>6, <1>7, <1>8, <2>3, Components DEF Generations,
        Accounted, CallShape, OpenShape
  <2>7. <<k, h>> \in Range(call[a].todo) => Accounted(k, h)'
    BY <1>1, <1>3, <1>4, <1>5, CallComponents, <1>6, <1>7, <1>8, UnassignedSteps, Components
        DEF Generations, Accounted, CallShape, OpenShape
  <2>8. <<k, h>> \in abandoned => Accounted(k, h)'
    BY <1>3 DEF Accounted
  <2>9. Accounted(k, h) => Accounted(k, h)'
    BY <2>2, <2>5, <2>6, <2>7, <2>8 DEF Accounted
  <2> QED BY <2>1, <2>3, <2>4, <2>9
<1>13. OpenIsWhole'
  <2>1. (IsOpen => \A k \in {"consumer", "producer"} :
                        field[k] # 0 /\ client[<<k, field[k]>>] = "open")'
    BY <1>1, <1>3, <1>4, <1>5, CallComponents, <1>6, <1>7 DEF CallShape, IsOpen, Holds, NoFields,
        Fields
  <2>2. (IsOpen /\ TransactionEnabled => /\ field["bridge"] # 0
                                          /\ client[<<"bridge", field["bridge"]>>] = "open")'
    BY <1>1, <1>3, <1>4, <1>5, CallComponents, <1>6, <1>7 DEF CallShape, IsOpen, Holds, NoFields,
        Fields
  <2>3. (IsOpen /\ lock = NoAdmin => \A f \in Fields :
                field[f] = field["probe"] \/ (f = "bridge" /\ ~TransactionEnabled))'
    BY <1>1, <1>3, <1>4, <1>5, CallComponents, <1>6, <1>7 DEF CallShape, IsOpen, Holds, NoFields,
        Fields
  <2> QED BY <2>1, <2>2, <2>3 DEF OpenIsWhole
<1>14. RotationHandsOver'
  BY <1>1, <1>3, <1>4, <1>5, CallComponents, <1>6, <1>7, <1>8, <1>2, Components
      DEF RotationHandsOver, Unfenced, SwapShape, OpenShape, CallShape, InProgress, IsOpen, Holds,
      Fields, Kinds
<1> QED BY <1>2, <1>9, <1>10, <1>11, <1>12, <1>13, <1>14, Assembled


\* OpenRaisesRotate keeps the invariant.
LEMMA OpenRaisesRotateKeeps ==
    ASSUME TypeOK, LifecycleInv, NEW a \in Admins, call[a].operation = "rotate", OpenRaises(a)
    PROVE  LifecycleInv'
<1>1. /\ call[a].pc \in {"probing", "initialising"}
      /\ call[a].operation = "rotate"
      /\ call'[a].operation = call[a].operation
      /\ call'[a].pc = "closing"
      /\ call'[a].target = call[a].target
      /\ call'[a].todo = CloseOrder(Replacement(call[a].target))
      /\ call'[a].next = call[a].next
  BY Components DEF OpenRaises, TypeOK, Call, Closes
<1>2. \A b \in Admins : b # a => call'[b] = call[b]
  BY Components DEF OpenRaises, TypeOK, Call, Closes
<1>3. /\ disturbed'
      /\ UNCHANGED <<field, opened, closed, lock, client, generation, abandoned>>
  BY Components DEF OpenRaises, TypeOK
<1>4. AdminInv(a) /\ RuntimeShape /\ ClientsAccountedFor /\ OpenIsWhole /\ RotationHandsOver
  BY DEF LifecycleInv
<1>5. /\ CallShape(a) /\ Unshared(a) /\ TargetIsOpen(a) /\ ClosingIsUnused(a)
      /\ OpenShape(a) /\ SwapShape(a) /\ Unfenced(a)
  BY <1>4 DEF AdminInv
<1>6. call[a].target \in Generations
  BY <1>1, <1>5, CallComponents DEF CallShape
<1>7. /\ \A c \in Range(CloseOrder(Replacement(call[a].target))) :
                c[1] \in Kinds /\ c[2] = call[a].target
      /\ \A k \in Kinds : client[<<k, call[a].target>>] # "none" =>
                <<k, call[a].target>> \in Range(CloseOrder(Replacement(call[a].target)))
  <2>1. \A c : c \in Range(CloseOrder(Replacement(call[a].target)))
            <=> \E k \in Kinds : client[<<k, call[a].target>>] # "none" /\ c = <<k, call[a].target>>
    BY <1>6, ReplacementNames
  <2>2. ASSUME NEW c \in Range(CloseOrder(Replacement(call[a].target)))
        PROVE  c[1] \in Kinds /\ c[2] = call[a].target
    <3>1. PICK k \in Kinds : c = <<k, call[a].target>>
      BY <2>1
    <3> QED BY <3>1
  <2>3. \A k \in Kinds : client[<<k, call[a].target>>] # "none" =>
            <<k, call[a].target>> \in Range(CloseOrder(Replacement(call[a].target)))
    BY <2>1
  <2> QED BY <2>2, <2>3
<1>8. \A h \in fenced' : h \in fenced \/ (h # call[a].target /\ h <= generation)
  <2>1. fenced' = fenced \/ fenced' = Fenced(call[a].target)
    BY DEF OpenRaises
  <2>2. \A h \in Fenced(call[a].target) : h \in fenced \/ (h # call[a].target /\ h <= generation)
    BY <1>4, Components DEF Fenced, RuntimeShape, Kinds, Generations
  <2> QED BY <2>1, <2>2
<1>9. ASSUME NEW b \in Admins, b # a PROVE AdminInv(b)' /\ Exclusive(a, b)' /\ Exclusive(b, a)'
  <2>1. call'[b] = call[b]
    BY <1>2, <1>9
  <2>2. AdminInv(b) /\ Exclusive(a, b) /\ Exclusive(b, a)
    BY <1>9 DEF LifecycleInv
  <2>3. /\ CallShape(b) /\ Unshared(b) /\ TargetIsOpen(b) /\ ClosingIsUnused(b)
        /\ OpenShape(b) /\ SwapShape(b) /\ Unfenced(b)
    BY <2>2 DEF AdminInv
  <2>4. CallShape(b)'
    BY <1>9, <2>1, <2>2, <2>3, Components, <1>1, <1>3, <1>4, <1>5, CallComponents, <1>6, <1>7,
        <1>8 DEF CallShape
  <2>5. Unshared(b)'
    BY <1>9, <2>1, <2>2, <2>3, Components, <1>1, <1>3, <1>4, <1>5, CallComponents, <1>6, <1>7,
        <1>8 DEF Unshared, CallShape, Exclusive, Holds, NoFields
  <2>6. TargetIsOpen(b)'
    BY <1>9, <2>1, <2>2, <2>3, Components, <1>1, <1>3, <1>4, <1>5, CallComponents, <1>6, <1>7,
        <1>8 DEF TargetIsOpen, CallShape, Exclusive, Kinds
  <2>7. ClosingIsUnused(b)'
    BY <1>9, <2>1, <2>2, <2>3, Components, <1>1, <1>3, <1>4, <1>5, CallComponents, <1>6, <1>7,
        <1>8 DEF ClosingIsUnused, CallShape, Exclusive, Holds, NoFields
  <2>8. OpenShape(b)'
    BY <1>9, <2>1, <2>2, <2>3, Components, <1>1, <1>3, <1>4, <1>5, CallComponents, <1>6, <1>7,
        <1>8 DEF OpenShape, CallShape
  <2>9. SwapShape(b)'
    BY <1>9, <2>1, <2>2, <2>3, Components, <1>1, <1>3, <1>4, <1>5, CallComponents, <1>6, <1>7,
        <1>8 DEF SwapShape, CallShape
  <2>10. Unfenced(b)'
    BY <1>9, <2>1, <2>2, <2>3, Components, <1>1, <1>3, <1>4, <1>5, CallComponents, <1>6, <1>7,
        <1>8 DEF Unfenced, CallShape, InProgress, RuntimeShape
  <2>11. Exclusive(a, b)'
    BY <1>9, <2>1, <2>2, <2>3, Components, <1>1, <1>8 DEF Exclusive, CallShape, Unshared
  <2>12. Exclusive(b, a)'
    BY <1>9, <2>1, <2>2, <2>3, Components, <1>1, <1>3, <1>4, <1>5, CallComponents, <1>6, <1>7,
        <1>8 DEF Exclusive, CallShape, Unshared
  <2> QED BY <2>4, <2>5, <2>6, <2>7, <2>8, <2>9, <2>10, <2>11, <2>12 DEF AdminInv
<1>10. AdminInv(a)'
  <2>1. CallShape(a)'
    BY <1>1, <1>3, <1>4, <1>5, CallComponents, <1>6, <1>7, <1>8, Components DEF CallShape,
        RuntimeShape
  <2>2. Unshared(a)'
    BY <1>1, <1>3, <1>4, <1>5, Components DEF Unshared, CallShape
  <2>3. TargetIsOpen(a)'
    BY <1>1, <1>3, <1>4, <1>5, CallComponents, <1>6, <1>7, <1>8, Components DEF TargetIsOpen,
        CallShape, Kinds
  <2>4. ClosingIsUnused(a)'
    BY <1>1, <1>3, <1>4, <1>5, CallComponents, <1>6, <1>7, <1>8, Components DEF ClosingIsUnused,
        CallShape, Unshared, SwapShape, Holds, NoFields
  <2>5. OpenShape(a)'
    BY <1>1, <1>3, <1>4, <1>5, CallComponents, <1>6, <1>7, <1>8, Components DEF OpenShape
  <2>6. SwapShape(a)'
    BY <1>1, <1>3, <1>4, <1>5, CallComponents, <1>6, <1>7, <1>8, Components DEF SwapShape
  <2>7. Unfenced(a)'
    BY <1>1, <1>3, <1>4, <1>5, CallComponents, <1>6, <1>7, <1>8, Components DEF Unfenced
  <2> QED BY <2>1, <2>2, <2>3, <2>4, <2>5, <2>6, <2>7 DEF AdminInv
<1>11. RuntimeShape'
  <2>1. (lock = NoAdmin /\ ~opened => field = NoFields)'
    BY <1>3, <1>4, <1>5 DEF RuntimeShape, OpenShape, CallShape
  <2>2. (\A k \in Kinds, h \in Generations : h > generation => client[<<k, h>>] = "none")'
    BY <1>1, <1>3, <1>4, <1>5, Components DEF RuntimeShape, CallShape
  <2>5. (~TransactionEnabled => \A h \in Generations : client[<<"bridge", h>>] # "open")'
    BY <1>1, <1>3, <1>4 DEF RuntimeShape, Kinds
  <2>6. (\A f \in Fields : field[f] <= generation)'
    BY <1>1, <1>3, <1>4, <1>5, CallComponents, <1>6, <1>7, <1>8, Components DEF RuntimeShape
  <2>3. (\A h \in fenced : h <= generation)'
    BY <1>1, <1>3, <1>4, <1>5, CallComponents, <1>6, <1>7, <1>8, Components DEF RuntimeShape,
        TypeOK, Generations
  <2>4. (~disturbed => \A b, e \in Admins : InProgress(b) /\ InProgress(e) => b = e)'
    BY <1>1, <1>3, <1>4, <1>5
  <2> QED BY <2>1, <2>2, <2>3, <2>4, <2>5, <2>6 DEF RuntimeShape
<1>12. ClientsAccountedFor'
  <2> SUFFICES ASSUME NEW k \in Kinds, NEW h \in Generations, client'[<<k, h>>] = "open"
               PROVE  Accounted(k, h)'
    BY DEF ClientsAccountedFor, Accounted
  <2>1. client[<<k, h>>] = "open" => Accounted(k, h)
    BY <1>4 DEF ClientsAccountedFor, Accounted
  <2>2. ASSUME NEW e \in Admins, e # a, call[e].target = h \/ <<k, h>> \in Range(call[e].todo)
        PROVE  Accounted(k, h)'
    BY <1>2, <2>2 DEF Accounted
  <2>3. client[<<k, h>>] = "open"
    BY <1>1, <1>3
  <2>4. <<k, h>> \in abandoned => Accounted(k, h)'
    BY <1>3 DEF Accounted
  <2>5. field[k] = h => Accounted(k, h)'
    BY <1>1, <1>3, <1>4, <1>5, CallComponents, <1>6, <1>7, <1>8, <2>2, Components DEF Generations,
        Accounted, CallShape, OpenShape
  <2>6. call[a].target = h => Accounted(k, h)'
    BY <1>1, <1>3, <1>4, <1>5, CallComponents, <1>6, <1>7, <1>8, <2>3, Components DEF Generations,
        Accounted, CallShape, OpenShape
  <2>7. <<k, h>> \in Range(call[a].todo) => Accounted(k, h)'
    BY <1>1, <1>3, <1>4, <1>5, CallComponents, <1>6, <1>7, <1>8, UnassignedSteps, Components
        DEF Generations, Accounted, CallShape, OpenShape
  <2>8. <<k, h>> \in abandoned => Accounted(k, h)'
    BY <1>3 DEF Accounted
  <2>9. Accounted(k, h) => Accounted(k, h)'
    BY <2>2, <2>5, <2>6, <2>7, <2>8 DEF Accounted
  <2> QED BY <2>1, <2>3, <2>4, <2>9
<1>13. OpenIsWhole'
  <2>1. (IsOpen => \A k \in {"consumer", "producer"} :
                        field[k] # 0 /\ client[<<k, field[k]>>] = "open")'
    BY <1>1, <1>3, <1>4, <1>5, CallComponents, <1>6, <1>7, <1>8, Components DEF OpenIsWhole,
        ClosingIsUnused, TargetIsOpen, OpenShape, SwapShape, CallShape, IsOpen, Holds, NoFields,
        Fields, Kinds, Generations
  <2>2. (IsOpen /\ TransactionEnabled => /\ field["bridge"] # 0
                                          /\ client[<<"bridge", field["bridge"]>>] = "open")'
    BY <1>1, <1>3, <1>4, <1>5, CallComponents, <1>6, <1>7, <1>8, Components DEF OpenIsWhole,
        ClosingIsUnused, TargetIsOpen, OpenShape, SwapShape, CallShape, IsOpen, Holds, NoFields,
        Fields, Kinds, Generations
  <2>3. (IsOpen /\ lock = NoAdmin => \A f \in Fields :
                field[f] = field["probe"] \/ (f = "bridge" /\ ~TransactionEnabled))'
    BY <1>1, <1>3, <1>4, <1>5, CallComponents, <1>6, <1>7, <1>8, Components DEF OpenIsWhole,
        ClosingIsUnused, TargetIsOpen, OpenShape, SwapShape, CallShape, IsOpen, Holds, NoFields,
        Fields, Kinds, Generations
  <2> QED BY <2>1, <2>2, <2>3 DEF OpenIsWhole
<1>14. RotationHandsOver'
  BY <1>1, <1>3, <1>4, <1>5, CallComponents, <1>6, <1>7, <1>8, <1>2, Components
      DEF RotationHandsOver, Unfenced, SwapShape, OpenShape
<1> QED BY <1>2, <1>9, <1>10, <1>11, <1>12, <1>13, <1>14, Assembled


\* RotateProbe keeps the invariant.
LEMMA RotateProbeKeeps ==
    ASSUME TypeOK, LifecycleInv, NEW a \in Admins, RotateProbe(a)
    PROVE  LifecycleInv'
<1>1. /\ call[a].pc = "reprobing"
      /\ call'[a].operation = call[a].operation
      /\ call'[a].pc = "swapping"
      /\ call'[a].target = call[a].target
      /\ call'[a].todo = call[a].todo
      /\ call'[a].next = call[a].next
  BY Components DEF RotateProbe, TypeOK, Call
<1>2. \A b \in Admins : b # a => call'[b] = call[b]
  BY Components DEF RotateProbe, TypeOK, Call
<1>3. /\ UNCHANGED <<opened, closed, lock, field, client, fenced, generation, abandoned, disturbed>>
  BY DEF RotateProbe, TypeOK, Call, runtime, clients, history, publishing
<1>4. AdminInv(a) /\ RuntimeShape /\ ClientsAccountedFor /\ OpenIsWhole /\ RotationHandsOver
  BY DEF LifecycleInv
<1>5. /\ CallShape(a) /\ Unshared(a) /\ TargetIsOpen(a) /\ ClosingIsUnused(a)
      /\ OpenShape(a) /\ SwapShape(a) /\ Unfenced(a)
  BY <1>4 DEF AdminInv
<1>6. ASSUME NEW b \in Admins, b # a PROVE AdminInv(b)' /\ Exclusive(a, b)' /\ Exclusive(b, a)'
  <2>1. call'[b] = call[b]
    BY <1>2, <1>6
  <2>2. AdminInv(b) /\ Exclusive(a, b) /\ Exclusive(b, a)
    BY <1>6 DEF LifecycleInv
  <2>3. /\ CallShape(b) /\ Unshared(b) /\ TargetIsOpen(b) /\ ClosingIsUnused(b)
        /\ OpenShape(b) /\ SwapShape(b) /\ Unfenced(b)
    BY <2>2 DEF AdminInv
  <2>4. lock' = b <=> lock = b
    BY <1>1, <1>3
  <2>5. AdminInv(b)'
    BY <1>3, <2>1, <2>2, <2>4, OthersStand
  <2>6. Exclusive(a, b)'
    BY <1>6, <2>1, <2>2, <2>3, Components, <1>1, <1>3, <1>4, <1>5, CallComponents DEF Exclusive,
        CallShape, Unshared
  <2>7. Exclusive(b, a)'
    BY <1>6, <2>1, <2>2, <2>3, Components, <1>1, <1>3, <1>4, <1>5, CallComponents DEF Exclusive,
        CallShape, Unshared
  <2> QED BY <2>4, <2>5, <2>6, <2>7 DEF AdminInv
<1>7. AdminInv(a)'
  <2>1. CallShape(a)'
    BY <1>1, <1>3, <1>4, <1>5, CallComponents, Components DEF CallShape, RuntimeShape
  <2>2. Unshared(a)'
    BY <1>1, <1>3, <1>4, <1>5, CallComponents, Components DEF Unshared, CallShape, RuntimeShape
  <2>3. TargetIsOpen(a)'
    BY <1>1, <1>3, <1>4, <1>5, CallComponents, Components DEF TargetIsOpen, CallShape, Kinds
  <2>4. ClosingIsUnused(a)'
    BY <1>1, <1>3, <1>4, <1>5, CallComponents, Components DEF ClosingIsUnused, CallShape
  <2>5. OpenShape(a)'
    BY <1>1, <1>3, <1>4, <1>5, CallComponents, Components DEF OpenShape, CallShape
  <2>6. SwapShape(a)'
    BY <1>1, <1>3, <1>4, <1>5, CallComponents, Components DEF SwapShape, CallShape
  <2>7. Unfenced(a)'
    BY <1>1, <1>3, <1>4, <1>5, CallComponents, Components DEF Unfenced, CallShape, InProgress,
        RuntimeShape
  <2> QED BY <2>1, <2>2, <2>3, <2>4, <2>5, <2>6, <2>7 DEF AdminInv
<1>8. RuntimeShape'
  <2>1. (lock = NoAdmin /\ ~opened => field = NoFields)'
    BY <1>3, <1>4, <1>5, CallComponents DEF RuntimeShape
  <2>2. (\A k \in Kinds, h \in Generations : h > generation => client[<<k, h>>] = "none")'
    BY <1>1, <1>3, <1>4 DEF RuntimeShape, CallShape
  <2>5. (~TransactionEnabled => \A h \in Generations : client[<<"bridge", h>>] # "open")'
    BY <1>1, <1>3, <1>4 DEF RuntimeShape, Kinds
  <2>6. (\A f \in Fields : field[f] <= generation)'
    BY <1>3, <1>4, <1>5, CallComponents, Components DEF RuntimeShape, CallShape
  <2>3. (\A h \in fenced : h <= generation)'
    BY <1>1, <1>3, <1>4 DEF RuntimeShape, TypeOK
  <2>4. (~disturbed => \A b, e \in Admins : InProgress(b) /\ InProgress(e) => b = e)'
    BY <1>1, <1>3, <1>4, <1>5, CallComponents, <1>2 DEF RuntimeShape, InProgress, CallShape
  <2> QED BY <2>1, <2>2, <2>3, <2>4, <2>5, <2>6 DEF RuntimeShape
<1>9. ClientsAccountedFor'
  <2> SUFFICES ASSUME NEW k \in Kinds, NEW h \in Generations, client'[<<k, h>>] = "open"
               PROVE  Accounted(k, h)'
    BY DEF ClientsAccountedFor, Accounted
  <2>1. client[<<k, h>>] = "open" => Accounted(k, h)
    BY <1>4 DEF ClientsAccountedFor, Accounted
  <2>2. ASSUME NEW e \in Admins, e # a, call[e].target = h \/ <<k, h>> \in Range(call[e].todo)
        PROVE  Accounted(k, h)'
    BY <1>2, <2>2 DEF Accounted
  <2>3. client[<<k, h>>] = "open"
    BY <1>1, <1>3
  <2>4. <<k, h>> \in abandoned => Accounted(k, h)'
    BY <1>3 DEF Accounted
  <2>5. field[k] = h => Accounted(k, h)'
    BY <1>1, <1>3, <1>4, <1>5, CallComponents, <2>2, Components DEF Generations, Accounted,
        CallShape, OpenShape, SwapShape
  <2>6. call[a].target = h => Accounted(k, h)'
    BY <1>1, <1>3, <1>4, <1>5, CallComponents, <2>3, Components DEF Generations, Accounted,
        CallShape, OpenShape, SwapShape
  <2>7. <<k, h>> \in Range(call[a].todo) => Accounted(k, h)'
    BY <1>1, <1>3, <1>4, <1>5, CallComponents, UnassignedSteps, Components DEF Generations,
        Accounted, CallShape, OpenShape, SwapShape
  <2>8. <<k, h>> \in abandoned => Accounted(k, h)'
    BY <1>3 DEF Accounted
  <2>9. Accounted(k, h) => Accounted(k, h)'
    BY <2>2, <2>5, <2>6, <2>7, <2>8 DEF Accounted
  <2> QED BY <2>1, <2>3, <2>4, <2>9
<1>10. OpenIsWhole'
  <2>1. (IsOpen => \A k \in {"consumer", "producer"} :
                        field[k] # 0 /\ client[<<k, field[k]>>] = "open")'
    BY <1>1, <1>3, <1>4, <1>5, CallComponents, Components DEF OpenIsWhole, ClosingIsUnused,
        TargetIsOpen, OpenShape, SwapShape, CallShape, IsOpen, Holds, NoFields, Fields, Kinds,
        Generations
  <2>2. (IsOpen /\ TransactionEnabled => /\ field["bridge"] # 0
                                          /\ client[<<"bridge", field["bridge"]>>] = "open")'
    BY <1>1, <1>3, <1>4, <1>5, CallComponents, Components DEF OpenIsWhole, ClosingIsUnused,
        TargetIsOpen, OpenShape, SwapShape, CallShape, IsOpen, Holds, NoFields, Fields, Kinds,
        Generations
  <2>3. (IsOpen /\ lock = NoAdmin => \A f \in Fields :
                field[f] = field["probe"] \/ (f = "bridge" /\ ~TransactionEnabled))'
    BY <1>1, <1>3, <1>4, <1>5, CallComponents, Components DEF OpenIsWhole, ClosingIsUnused,
        TargetIsOpen, OpenShape, SwapShape, CallShape, IsOpen, Holds, NoFields, Fields, Kinds,
        Generations
  <2> QED BY <2>1, <2>2, <2>3 DEF OpenIsWhole
<1>11. RotationHandsOver'
  BY <1>1, <1>3, <1>4, <1>5, CallComponents, <1>2, Components DEF RotationHandsOver, Unfenced,
      SwapShape, OpenShape, CallShape, InProgress, IsOpen, Holds, Fields, Kinds
<1> QED BY <1>2, <1>6, <1>7, <1>8, <1>9, <1>10, <1>11, Assembled


\* RotateProbeRaises keeps the invariant.
LEMMA RotateProbeRaisesKeeps ==
    ASSUME TypeOK, LifecycleInv, NEW a \in Admins, RotateProbeRaises(a)
    PROVE  LifecycleInv'
<1>1. /\ call[a].pc = "reprobing"
      /\ call'[a].operation = call[a].operation
      /\ call'[a].pc = "closing"
      /\ call'[a].target = call[a].target
      /\ call'[a].todo = CloseOrder(Replacement(call[a].target))
      /\ call'[a].next = call[a].next
  BY Components DEF RotateProbeRaises, TypeOK, Call, Closes
<1>2. \A b \in Admins : b # a => call'[b] = call[b]
  BY Components DEF RotateProbeRaises, TypeOK, Call, Closes
<1>3. /\ disturbed'
      /\ UNCHANGED <<opened, closed, lock, field, client, fenced, generation, abandoned>>
  BY DEF RotateProbeRaises, TypeOK, Call, Closes, runtime, clients, history, publishing
<1>4. AdminInv(a) /\ RuntimeShape /\ ClientsAccountedFor /\ OpenIsWhole /\ RotationHandsOver
  BY DEF LifecycleInv
<1>5. /\ CallShape(a) /\ Unshared(a) /\ TargetIsOpen(a) /\ ClosingIsUnused(a)
      /\ OpenShape(a) /\ SwapShape(a) /\ Unfenced(a)
  BY <1>4 DEF AdminInv
<1>6. call[a].target \in Generations
  BY <1>1, <1>5, CallComponents DEF CallShape
<1>7. /\ \A c \in Range(CloseOrder(Replacement(call[a].target))) :
                c[1] \in Kinds /\ c[2] = call[a].target
      /\ \A k \in Kinds : client[<<k, call[a].target>>] # "none" =>
                <<k, call[a].target>> \in Range(CloseOrder(Replacement(call[a].target)))
  <2>1. \A c : c \in Range(CloseOrder(Replacement(call[a].target)))
            <=> \E k \in Kinds : client[<<k, call[a].target>>] # "none" /\ c = <<k, call[a].target>>
    BY <1>6, ReplacementNames
  <2>2. ASSUME NEW c \in Range(CloseOrder(Replacement(call[a].target)))
        PROVE  c[1] \in Kinds /\ c[2] = call[a].target
    <3>1. PICK k \in Kinds : c = <<k, call[a].target>>
      BY <2>1
    <3> QED BY <3>1
  <2>3. \A k \in Kinds : client[<<k, call[a].target>>] # "none" =>
            <<k, call[a].target>> \in Range(CloseOrder(Replacement(call[a].target)))
    BY <2>1
  <2> QED BY <2>2, <2>3
<1>8. ASSUME NEW b \in Admins, b # a PROVE AdminInv(b)' /\ Exclusive(a, b)' /\ Exclusive(b, a)'
  <2>1. call'[b] = call[b]
    BY <1>2, <1>8
  <2>2. AdminInv(b) /\ Exclusive(a, b) /\ Exclusive(b, a)
    BY <1>8 DEF LifecycleInv
  <2>3. /\ CallShape(b) /\ Unshared(b) /\ TargetIsOpen(b) /\ ClosingIsUnused(b)
        /\ OpenShape(b) /\ SwapShape(b) /\ Unfenced(b)
    BY <2>2 DEF AdminInv
  <2>4. lock' = b <=> lock = b
    BY <1>1, <1>3
  <2>5. AdminInv(b)'
    BY <1>3, <2>1, <2>2, <2>4, OthersStand
  <2>6. Exclusive(a, b)'
    BY <1>8, <2>1, <2>2, <2>3, Components, <1>1, <1>3, <1>4, <1>5, CallComponents, <1>6, <1>7
        DEF Exclusive, CallShape, Unshared
  <2>7. Exclusive(b, a)'
    BY <1>8, <2>1, <2>2, <2>3, Components, <1>1, <1>3, <1>4, <1>5, CallComponents, <1>6, <1>7
        DEF Exclusive, CallShape, Unshared
  <2> QED BY <2>4, <2>5, <2>6, <2>7 DEF AdminInv
<1>9. AdminInv(a)'
  <2>1. CallShape(a)'
    BY <1>1, <1>3, <1>4, <1>5, CallComponents, <1>6, <1>7, Components DEF CallShape, RuntimeShape
  <2>2. Unshared(a)'
    BY <1>1, <1>3, <1>4, <1>5 DEF Unshared, CallShape, RuntimeShape
  <2>3. TargetIsOpen(a)'
    BY <1>1, <1>3, <1>4, <1>5, CallComponents, <1>6, <1>7, Components DEF TargetIsOpen, CallShape,
        Kinds
  <2>4. ClosingIsUnused(a)'
    BY <1>1, <1>3, <1>4, <1>5, CallComponents, <1>6, <1>7, Components DEF ClosingIsUnused,
        CallShape, Unshared, SwapShape, Holds, NoFields
  <2>5. OpenShape(a)'
    BY <1>1, <1>3, <1>4, <1>5 DEF OpenShape, CallShape, Holds
  <2>6. SwapShape(a)'
    BY <1>1, <1>3, <1>4, <1>5 DEF SwapShape, CallShape, Unshared
  <2>7. Unfenced(a)'
    BY <1>1, <1>3, <1>4, <1>5 DEF Unfenced, CallShape, InProgress
  <2> QED BY <2>1, <2>2, <2>3, <2>4, <2>5, <2>6, <2>7 DEF AdminInv
<1>10. RuntimeShape'
  <2>1. (lock = NoAdmin /\ ~opened => field = NoFields)'
    BY <1>3, <1>4, <1>5, CallComponents, <1>6, <1>7 DEF RuntimeShape
  <2>2. (\A k \in Kinds, h \in Generations : h > generation => client[<<k, h>>] = "none")'
    BY <1>3, <1>4, <1>5 DEF RuntimeShape, CallShape, Generations
  <2>5. (~TransactionEnabled => \A h \in Generations : client[<<"bridge", h>>] # "open")'
    BY <1>1, <1>3, <1>4 DEF RuntimeShape, Kinds
  <2>6. (\A f \in Fields : field[f] <= generation)'
    BY <1>1, <1>3, <1>4, <1>5 DEF RuntimeShape, CallShape, NoFields
  <2>3. (\A h \in fenced : h <= generation)'
    BY <1>3, <1>4, <1>5 DEF RuntimeShape, TypeOK, Generations
  <2>4. (~disturbed => \A b, e \in Admins : InProgress(b) /\ InProgress(e) => b = e)'
    BY <1>3, <1>4, <1>5
  <2> QED BY <2>1, <2>2, <2>3, <2>4, <2>5, <2>6 DEF RuntimeShape
<1>11. ClientsAccountedFor'
  <2> SUFFICES ASSUME NEW k \in Kinds, NEW h \in Generations, client'[<<k, h>>] = "open"
               PROVE  Accounted(k, h)'
    BY DEF ClientsAccountedFor, Accounted
  <2>1. client[<<k, h>>] = "open" => Accounted(k, h)
    BY <1>4 DEF ClientsAccountedFor, Accounted
  <2>2. ASSUME NEW e \in Admins, e # a, call[e].target = h \/ <<k, h>> \in Range(call[e].todo)
        PROVE  Accounted(k, h)'
    BY <1>2, <2>2 DEF Accounted
  <2>3. client[<<k, h>>] = "open"
    BY <1>1, <1>3
  <2>4. <<k, h>> \in abandoned => Accounted(k, h)'
    BY <1>3 DEF Accounted
  <2>5. field[k] = h => Accounted(k, h)'
    BY <1>1, <1>3, <1>4, <1>5, CallComponents, <1>6, <1>7, <2>2, Components DEF Generations,
        Accounted, CallShape, OpenShape, SwapShape
  <2>6. call[a].target = h => Accounted(k, h)'
    BY <1>1, <1>3, <1>4, <1>5, CallComponents, <1>6, <1>7, <2>3, Components DEF Generations,
        Accounted, CallShape, OpenShape, SwapShape
  <2>7. <<k, h>> \in Range(call[a].todo) => Accounted(k, h)'
    BY <1>1, <1>3, <1>4, <1>5, CallComponents, <1>6, <1>7, UnassignedSteps, Components
        DEF Generations, Accounted, CallShape, OpenShape, SwapShape
  <2>8. <<k, h>> \in abandoned => Accounted(k, h)'
    BY <1>3 DEF Accounted
  <2>9. Accounted(k, h) => Accounted(k, h)'
    BY <2>2, <2>5, <2>6, <2>7, <2>8 DEF Accounted
  <2> QED BY <2>1, <2>3, <2>4, <2>9
<1>12. OpenIsWhole'
  <2>1. (IsOpen => \A k \in {"consumer", "producer"} :
                        field[k] # 0 /\ client[<<k, field[k]>>] = "open")'
    BY <1>1, <1>3, <1>4, <1>5, CallComponents, <1>6, <1>7, Components DEF OpenIsWhole,
        ClosingIsUnused, TargetIsOpen, OpenShape, SwapShape, CallShape, IsOpen, Holds, NoFields,
        Fields, Kinds, Generations
  <2>2. (IsOpen /\ TransactionEnabled => /\ field["bridge"] # 0
                                          /\ client[<<"bridge", field["bridge"]>>] = "open")'
    BY <1>1, <1>3, <1>4, <1>5, CallComponents, <1>6, <1>7, Components DEF OpenIsWhole,
        ClosingIsUnused, TargetIsOpen, OpenShape, SwapShape, CallShape, IsOpen, Holds, NoFields,
        Fields, Kinds, Generations
  <2>3. (IsOpen /\ lock = NoAdmin => \A f \in Fields :
                field[f] = field["probe"] \/ (f = "bridge" /\ ~TransactionEnabled))'
    BY <1>1, <1>3, <1>4, <1>5, CallComponents, <1>6, <1>7, Components DEF OpenIsWhole,
        ClosingIsUnused, TargetIsOpen, OpenShape, SwapShape, CallShape, IsOpen, Holds, NoFields,
        Fields, Kinds, Generations
  <2> QED BY <2>1, <2>2, <2>3 DEF OpenIsWhole
<1>13. RotationHandsOver'
  BY <1>1, <1>3, <1>4, <1>5, CallComponents, <1>6, <1>7, <1>2, Components DEF RotationHandsOver,
      Unfenced, SwapShape, OpenShape, CallShape
<1> QED BY <1>2, <1>8, <1>9, <1>10, <1>11, <1>12, <1>13, Assembled


\* RotateRefused keeps the invariant.
LEMMA RotateRefusedKeeps ==
    ASSUME TypeOK, LifecycleInv, NEW a \in Admins, RotateRefused(a)
    PROVE  LifecycleInv'
<1>1. /\ call[a].pc = "swapping"
      /\ call'[a].operation = "none"
      /\ call'[a].pc = "idle"
      /\ call'[a].target = 0
      /\ call'[a].todo = <<>>
      /\ call'[a].next = <<>>
  BY Components DEF RotateRefused, Returns, Idle
<1>2. \A b \in Admins : b # a => call'[b] = call[b]
  BY DEF RotateRefused, Returns, Idle
<1>3. /\ lock = NoAdmin
      /\ disturbed'
      /\ abandoned' = abandoned \cup Range(CloseOrder(Replacement(call[a].target)))
      /\ UNCHANGED <<opened, closed, lock, field, client, fenced, generation>>
  BY DEF RotateRefused, TypeOK, Call, Returns, Idle, runtime, clients
<1>4. AdminInv(a) /\ RuntimeShape /\ ClientsAccountedFor /\ OpenIsWhole /\ RotationHandsOver
  BY DEF LifecycleInv
<1>5. /\ CallShape(a) /\ Unshared(a) /\ TargetIsOpen(a) /\ ClosingIsUnused(a)
      /\ OpenShape(a) /\ SwapShape(a) /\ Unfenced(a)
  BY <1>4 DEF AdminInv
<1>6. call[a].target \in Generations
  BY <1>1, <1>5, CallComponents DEF CallShape
<1>7. /\ \A c \in Range(CloseOrder(Replacement(call[a].target))) :
                c[1] \in Kinds /\ c[2] = call[a].target
      /\ \A k \in Kinds : client[<<k, call[a].target>>] # "none" =>
                <<k, call[a].target>> \in Range(CloseOrder(Replacement(call[a].target)))
  <2>1. \A c : c \in Range(CloseOrder(Replacement(call[a].target)))
            <=> \E k \in Kinds : client[<<k, call[a].target>>] # "none" /\ c = <<k, call[a].target>>
    BY <1>6, ReplacementNames
  <2>2. ASSUME NEW c \in Range(CloseOrder(Replacement(call[a].target)))
        PROVE  c[1] \in Kinds /\ c[2] = call[a].target
    <3>1. PICK k \in Kinds : c = <<k, call[a].target>>
      BY <2>1
    <3> QED BY <3>1
  <2>3. \A k \in Kinds : client[<<k, call[a].target>>] # "none" =>
            <<k, call[a].target>> \in Range(CloseOrder(Replacement(call[a].target)))
    BY <2>1
  <2> QED BY <2>2, <2>3
<1>8. ASSUME NEW b \in Admins, b # a PROVE AdminInv(b)' /\ Exclusive(a, b)' /\ Exclusive(b, a)'
  <2>1. call'[b] = call[b]
    BY <1>2, <1>8
  <2>2. AdminInv(b) /\ Exclusive(a, b) /\ Exclusive(b, a)
    BY <1>8 DEF LifecycleInv
  <2>3. /\ CallShape(b) /\ Unshared(b) /\ TargetIsOpen(b) /\ ClosingIsUnused(b)
        /\ OpenShape(b) /\ SwapShape(b) /\ Unfenced(b)
    BY <2>2 DEF AdminInv
  <2>4. lock' = b <=> lock = b
    BY <1>1, <1>3
  <2>5. AdminInv(b)'
    BY <1>3, <2>1, <2>2, <2>4, OthersStand
  <2>6. Exclusive(a, b)'
    BY <1>1, <1>3, <1>4, <1>5, CallComponents, <1>6, <1>7 DEF Exclusive
  <2>7. Exclusive(b, a)'
    BY <1>8, <2>1, <2>2, <2>3, Components, <1>1, <1>3, <1>4, <1>5, CallComponents, <1>6, <1>7
        DEF Exclusive, CallShape, Unshared
  <2> QED BY <2>4, <2>5, <2>6, <2>7 DEF AdminInv
<1>9. AdminInv(a)'
  <2>1. CallShape(a)'
    BY <1>1, <1>3, <1>4, <1>5, CallComponents, <1>6, <1>7, Components DEF CallShape, RuntimeShape
  <2>2. Unshared(a)'
    BY <1>1, <1>3, <1>4, <1>5 DEF Unshared, CallShape, RuntimeShape
  <2>3. TargetIsOpen(a)'
    BY <1>1, <1>3, <1>4, <1>5 DEF TargetIsOpen, CallShape, Kinds
  <2>4. ClosingIsUnused(a)'
    BY <1>1, <1>3, <1>4, <1>5, CallComponents, <1>6, <1>7, Components DEF ClosingIsUnused,
        CallShape
  <2>5. OpenShape(a)'
    BY <1>1, <1>3, <1>4, <1>5 DEF OpenShape, CallShape, Holds
  <2>6. SwapShape(a)'
    BY <1>1, <1>3, <1>4, <1>5 DEF SwapShape, CallShape, Unshared
  <2>7. Unfenced(a)'
    BY <1>1, <1>3, <1>4, <1>5 DEF Unfenced, CallShape, InProgress
  <2> QED BY <2>1, <2>2, <2>3, <2>4, <2>5, <2>6, <2>7 DEF AdminInv
<1>10. RuntimeShape'
  <2>1. (lock = NoAdmin /\ ~opened => field = NoFields)'
    BY <1>3, <1>4, <1>5, CallComponents, <1>6, <1>7 DEF RuntimeShape
  <2>2. (\A k \in Kinds, h \in Generations : h > generation => client[<<k, h>>] = "none")'
    BY <1>3, <1>4, <1>5 DEF RuntimeShape, CallShape, Generations
  <2>5. (~TransactionEnabled => \A h \in Generations : client[<<"bridge", h>>] # "open")'
    BY <1>1, <1>3, <1>4 DEF RuntimeShape, Kinds
  <2>6. (\A f \in Fields : field[f] <= generation)'
    BY <1>1, <1>3, <1>4, <1>5 DEF RuntimeShape, CallShape, NoFields
  <2>3. (\A h \in fenced : h <= generation)'
    BY <1>3, <1>4, <1>5 DEF RuntimeShape, TypeOK, Generations
  <2>4. (~disturbed => \A b, e \in Admins : InProgress(b) /\ InProgress(e) => b = e)'
    BY <1>3, <1>4, <1>5
  <2> QED BY <2>1, <2>2, <2>3, <2>4, <2>5, <2>6 DEF RuntimeShape
<1>11. ClientsAccountedFor'
  <2> SUFFICES ASSUME NEW k \in Kinds, NEW h \in Generations, client'[<<k, h>>] = "open"
               PROVE  Accounted(k, h)'
    BY DEF ClientsAccountedFor, Accounted
  <2>1. client[<<k, h>>] = "open" => Accounted(k, h)
    BY <1>4 DEF ClientsAccountedFor, Accounted
  <2>2. ASSUME NEW e \in Admins, e # a, call[e].target = h \/ <<k, h>> \in Range(call[e].todo)
        PROVE  Accounted(k, h)'
    BY <1>2, <2>2 DEF Accounted
  <2>3. client[<<k, h>>] = "open"
    BY <1>1, <1>3
  <2>4. <<k, h>> \in abandoned => Accounted(k, h)'
    BY <1>3 DEF Accounted
  <2>5. field[k] = h => Accounted(k, h)'
    BY <1>1, <1>3, <1>4, <1>5, CallComponents, <1>6, <1>7, <2>2, Components DEF Generations,
        Accounted, CallShape, OpenShape, SwapShape
  <2>6. call[a].target = h => Accounted(k, h)'
    BY <1>1, <1>3, <1>4, <1>5, CallComponents, <1>6, <1>7, <2>3, Components DEF Generations,
        Accounted, CallShape, OpenShape, SwapShape
  <2>7. <<k, h>> \in Range(call[a].todo) => Accounted(k, h)'
    BY <1>1, <1>3, <1>4, <1>5, CallComponents, <1>6, <1>7, UnassignedSteps, Components
        DEF Generations, Accounted, CallShape, OpenShape, SwapShape
  <2>8. <<k, h>> \in abandoned => Accounted(k, h)'
    BY <1>3 DEF Accounted
  <2>9. Accounted(k, h) => Accounted(k, h)'
    BY <2>2, <2>5, <2>6, <2>7, <2>8 DEF Accounted
  <2> QED BY <2>1, <2>3, <2>4, <2>9
<1>12. OpenIsWhole'
  <2>1. (IsOpen => \A k \in {"consumer", "producer"} :
                        field[k] # 0 /\ client[<<k, field[k]>>] = "open")'
    BY <1>1, <1>3, <1>4, <1>5, CallComponents, <1>6, <1>7, Components DEF OpenIsWhole,
        ClosingIsUnused, TargetIsOpen, OpenShape, SwapShape, CallShape, IsOpen, Holds, NoFields,
        Fields, Kinds, Generations
  <2>2. (IsOpen /\ TransactionEnabled => /\ field["bridge"] # 0
                                          /\ client[<<"bridge", field["bridge"]>>] = "open")'
    BY <1>1, <1>3, <1>4, <1>5, CallComponents, <1>6, <1>7, Components DEF OpenIsWhole,
        ClosingIsUnused, TargetIsOpen, OpenShape, SwapShape, CallShape, IsOpen, Holds, NoFields,
        Fields, Kinds, Generations
  <2>3. (IsOpen /\ lock = NoAdmin => \A f \in Fields :
                field[f] = field["probe"] \/ (f = "bridge" /\ ~TransactionEnabled))'
    BY <1>1, <1>3, <1>4, <1>5, CallComponents, <1>6, <1>7, Components DEF OpenIsWhole,
        ClosingIsUnused, TargetIsOpen, OpenShape, SwapShape, CallShape, IsOpen, Holds, NoFields,
        Fields, Kinds, Generations
  <2> QED BY <2>1, <2>2, <2>3 DEF OpenIsWhole
<1>13. RotationHandsOver'
  BY <1>1, <1>3, <1>4, <1>5, CallComponents, <1>6, <1>7, <1>2, Components DEF RotationHandsOver,
      Unfenced, SwapShape, OpenShape, CallShape
<1> QED BY <1>2, <1>8, <1>9, <1>10, <1>11, <1>12, <1>13, Assembled


\* RotateSwap keeps the invariant.
LEMMA RotateSwapKeeps ==
    ASSUME TypeOK, LifecycleInv, NEW a \in Admins, RotateSwap(a)
    PROVE  LifecycleInv'
<1>1. /\ call[a].pc = "swapping"
      /\ call'[a].operation = call[a].operation
      /\ call'[a].pc = "assigning"
      /\ call'[a].target = call[a].target
      /\ call'[a].todo = CloseOrder(field)
      /\ call'[a].next = <<"probe", "producer", "consumer", "bridge">>
  BY Components DEF RotateSwap, TypeOK, Call, IsOpen
<1>2. \A b \in Admins : b # a => call'[b] = call[b]
  BY Components DEF RotateSwap, TypeOK, Call, IsOpen
<1>3. /\ lock = NoAdmin /\ lock' = a
      /\ opened /\ ~closed
      /\ UNCHANGED <<opened, closed, field, client, fenced, generation, abandoned, disturbed>>
  BY DEF RotateSwap, TypeOK, Call, IsOpen, runtime, clients, history, publishing
<1>4. AdminInv(a) /\ RuntimeShape /\ ClientsAccountedFor /\ OpenIsWhole /\ RotationHandsOver
  BY DEF LifecycleInv
<1>5. /\ CallShape(a) /\ Unshared(a) /\ TargetIsOpen(a) /\ ClosingIsUnused(a)
      /\ OpenShape(a) /\ SwapShape(a) /\ Unfenced(a)
  BY <1>4 DEF AdminInv
<1>6. /\ \A c \in Range(CloseOrder(field)) :
                c[1] \in Kinds /\ c[2] # 0 /\ c[2] = field[c[1]]
      /\ \A k \in Kinds : field[k] # 0 => <<k, field[k]>> \in Range(CloseOrder(field))
  <2>1. \A c : c \in Range(CloseOrder(field))
            <=> \E k \in Kinds : field[k] # 0 /\ c = <<k, field[k]>>
    BY Components, CloseOrderNames
  <2>2. \A c \in Range(CloseOrder(field)) : c[1] \in Kinds /\ c[2] # 0 /\ c[2] = field[c[1]]
    BY <2>1
  <2>3. \A k \in Kinds : field[k] # 0 => <<k, field[k]>> \in Range(CloseOrder(field))
    BY <2>1
  <2> QED BY <2>2, <2>3
<1>7. ASSUME NEW b \in Admins, b # a PROVE AdminInv(b)' /\ Exclusive(a, b)' /\ Exclusive(b, a)'
  <2>1. call'[b] = call[b]
    BY <1>2, <1>7
  <2>2. AdminInv(b) /\ Exclusive(a, b) /\ Exclusive(b, a)
    BY <1>7 DEF LifecycleInv
  <2>3. /\ CallShape(b) /\ Unshared(b) /\ TargetIsOpen(b) /\ ClosingIsUnused(b)
        /\ OpenShape(b) /\ SwapShape(b) /\ Unfenced(b)
    BY <2>2 DEF AdminInv
  <2>4. lock' = b <=> lock = b
    BY <1>3, <1>7 DEF CallShape
  <2>5. AdminInv(b)'
    BY <1>3, <2>1, <2>2, <2>4, OthersStand
  <2>6. Exclusive(a, b)'
    BY <1>7, <2>1, <2>2, <2>3, Components, <1>1, <1>3, <1>4, <1>5, CallComponents, <1>6,
        UnassignedSteps DEF Exclusive, CallShape, Unshared
  <2>7. Exclusive(b, a)'
    <3>1. ASSUME call[b].target # 0, NEW c \in Range(CloseOrder(field)) PROVE c[2] # call[b].target
      <4>1. call[b].operation = "rotate" /\ call[b].pc # "assigning"
        BY <1>3, <1>7, <2>3, <3>1, CallComponents DEF CallShape
      <4>2. \A f \in Fields : field[f] # call[b].target
        BY <2>3, <3>1, <4>1 DEF Unshared
      <4> QED BY <1>6, <3>1, <4>2, Components
    <3> QED BY <1>1, <2>1, <2>2, <3>1 DEF Exclusive
  <2> QED BY <2>4, <2>5, <2>6, <2>7 DEF AdminInv
<1>8. AdminInv(a)'
  <2>1. CallShape(a)'
    BY <1>1, <1>3, <1>4, <1>5, CallComponents, <1>6, UnassignedSteps, Components DEF CallShape,
        RuntimeShape
  <2>2. Unshared(a)'
    BY <1>1, <1>3, <1>4, <1>5, CallComponents, <1>6, UnassignedSteps, Components DEF Unshared,
        CallShape, RuntimeShape
  <2>3. TargetIsOpen(a)'
    BY <1>1, <1>3, <1>4, <1>5 DEF TargetIsOpen, CallShape, Kinds
  <2>4. ClosingIsUnused(a)'
    BY <1>1, <1>3, <1>4, <1>5, CallComponents, <1>6, UnassignedSteps, Components
        DEF ClosingIsUnused, CallShape
  <2>5. OpenShape(a)'
    BY <1>1, <1>3, <1>4, <1>5 DEF OpenShape, CallShape, Holds
  <2>6. SwapShape(a)'
    BY <1>1, <1>3, <1>4, <1>5, CallComponents, <1>6, UnassignedSteps, Components DEF SwapShape,
        CallShape, Unshared, Holds
  <2>7. Unfenced(a)'
    BY <1>1, <1>3, <1>4, <1>5 DEF Unfenced, CallShape, InProgress
  <2> QED BY <2>1, <2>2, <2>3, <2>4, <2>5, <2>6, <2>7 DEF AdminInv
<1>9. RuntimeShape'
  <2>1. (lock = NoAdmin /\ ~opened => field = NoFields)'
    BY <1>3, <1>4, <1>5
  <2>2. (\A k \in Kinds, h \in Generations : h > generation => client[<<k, h>>] = "none")'
    BY <1>3, <1>4, <1>5 DEF RuntimeShape, CallShape, Generations
  <2>5. (~TransactionEnabled => \A h \in Generations : client[<<"bridge", h>>] # "open")'
    BY <1>1, <1>3, <1>4 DEF RuntimeShape, Kinds
  <2>6. (\A f \in Fields : field[f] <= generation)'
    BY <1>1, <1>3, <1>4, <1>5 DEF RuntimeShape, CallShape, NoFields
  <2>3. (\A h \in fenced : h <= generation)'
    BY <1>3, <1>4, <1>5 DEF RuntimeShape, TypeOK, Generations
  <2>4. (~disturbed => \A b, e \in Admins : InProgress(b) /\ InProgress(e) => b = e)'
    BY <1>1, <1>3, <1>4, <1>5, CallComponents, <1>6, UnassignedSteps, <1>2 DEF RuntimeShape,
        InProgress, CallShape
  <2> QED BY <2>1, <2>2, <2>3, <2>4, <2>5, <2>6 DEF RuntimeShape
<1>10. ClientsAccountedFor'
  <2> SUFFICES ASSUME NEW k \in Kinds, NEW h \in Generations, client'[<<k, h>>] = "open"
               PROVE  Accounted(k, h)'
    BY DEF ClientsAccountedFor, Accounted
  <2>1. client[<<k, h>>] = "open" => Accounted(k, h)
    BY <1>4 DEF ClientsAccountedFor, Accounted
  <2>2. ASSUME NEW e \in Admins, e # a, call[e].target = h \/ <<k, h>> \in Range(call[e].todo)
        PROVE  Accounted(k, h)'
    BY <1>2, <2>2 DEF Accounted
  <2>3. client[<<k, h>>] = "open"
    BY <1>1, <1>3
  <2>4. <<k, h>> \in abandoned => Accounted(k, h)'
    BY <1>3 DEF Accounted
  <2>5. field[k] = h => Accounted(k, h)'
    BY <1>1, <1>3, <1>4, <1>5, CallComponents, <1>6, UnassignedSteps, <2>2, Components
        DEF Generations, Accounted, CallShape, OpenShape, SwapShape
  <2>6. call[a].target = h => Accounted(k, h)'
    BY <1>1, <1>3, <1>4, <1>5, CallComponents, <1>6, UnassignedSteps, <2>3, Components
        DEF Generations, Accounted, CallShape, OpenShape, SwapShape
  <2>7. <<k, h>> \in Range(call[a].todo) => Accounted(k, h)'
    BY <1>1, <1>3, <1>4, <1>5, CallComponents, <1>6, UnassignedSteps, UnassignedSteps, Components
        DEF Generations, Accounted, CallShape, OpenShape, SwapShape
  <2>8. <<k, h>> \in abandoned => Accounted(k, h)'
    BY <1>3 DEF Accounted
  <2>9. Accounted(k, h) => Accounted(k, h)'
    BY <2>2, <2>5, <2>6, <2>7, <2>8 DEF Accounted
  <2> QED BY <2>1, <2>3, <2>4, <2>9
<1>11. OpenIsWhole'
  <2>1. (IsOpen => \A k \in {"consumer", "producer"} :
                        field[k] # 0 /\ client[<<k, field[k]>>] = "open")'
    BY <1>1, <1>3, <1>4, <1>5, CallComponents, <1>6, UnassignedSteps, Components DEF OpenIsWhole,
        ClosingIsUnused, TargetIsOpen, OpenShape, SwapShape, CallShape, IsOpen, Holds, NoFields,
        Fields, Kinds, Generations
  <2>2. (IsOpen /\ TransactionEnabled => /\ field["bridge"] # 0
                                          /\ client[<<"bridge", field["bridge"]>>] = "open")'
    BY <1>1, <1>3, <1>4, <1>5, CallComponents, <1>6, UnassignedSteps, Components DEF OpenIsWhole,
        ClosingIsUnused, TargetIsOpen, OpenShape, SwapShape, CallShape, IsOpen, Holds, NoFields,
        Fields, Kinds, Generations
  <2>3. (IsOpen /\ lock = NoAdmin => \A f \in Fields :
                field[f] = field["probe"] \/ (f = "bridge" /\ ~TransactionEnabled))'
    BY <1>1, <1>3, <1>4, <1>5, CallComponents, <1>6, UnassignedSteps
  <2> QED BY <2>1, <2>2, <2>3 DEF OpenIsWhole
<1>12. RotationHandsOver'
  BY <1>1, <1>3, <1>4, <1>5, CallComponents, <1>6, UnassignedSteps, <1>2, Components
      DEF RotationHandsOver, Unfenced, SwapShape, OpenShape, CallShape, InProgress, IsOpen, Holds,
      Fields, Kinds
<1> QED BY <1>2, <1>7, <1>8, <1>9, <1>10, <1>11, <1>12, Assembled


\* RotateAssign keeps the invariant.
LEMMA RotateAssignKeeps ==
    ASSUME TypeOK, LifecycleInv, NEW a \in Admins, RotateAssign(a)
    PROVE  LifecycleInv'
<1>1. /\ call[a].pc = "assigning"
      /\ call[a].next # <<>>
      /\ call'[a].operation = call[a].operation
      /\ call'[a].pc = call[a].pc
      /\ call'[a].target = call[a].target
      /\ call'[a].todo = call[a].todo
      /\ call'[a].next = Tail(call[a].next)
  BY Components DEF RotateAssign, TypeOK, Call, Holds
<1>2. \A b \in Admins : b # a => call'[b] = call[b]
  BY Components DEF RotateAssign, TypeOK, Call, Holds
<1>3. /\ \A f \in Fields : field'[f] =
            IF f = Head(call[a].next) THEN Holds(f, call[a].target) ELSE field[f]
      /\ UNCHANGED <<opened, closed, lock, client, fenced, generation, abandoned, disturbed>>
  BY DEF RotateAssign, TypeOK, Call, Holds, runtime, clients, history, publishing
<1>4. AdminInv(a) /\ RuntimeShape /\ ClientsAccountedFor /\ OpenIsWhole /\ RotationHandsOver
  BY DEF LifecycleInv
<1>5. /\ CallShape(a) /\ Unshared(a) /\ TargetIsOpen(a) /\ ClosingIsUnused(a)
      /\ OpenShape(a) /\ SwapShape(a) /\ Unfenced(a)
  BY <1>4 DEF AdminInv
<1>6. call[a].next \in Unassigned
  BY <1>1, <1>5 DEF SwapShape
<1>7. ASSUME NEW b \in Admins, b # a PROVE AdminInv(b)' /\ Exclusive(a, b)' /\ Exclusive(b, a)'
  <2>1. call'[b] = call[b]
    BY <1>2, <1>7
  <2>2. AdminInv(b) /\ Exclusive(a, b) /\ Exclusive(b, a)
    BY <1>7 DEF LifecycleInv
  <2>3. /\ CallShape(b) /\ Unshared(b) /\ TargetIsOpen(b) /\ ClosingIsUnused(b)
        /\ OpenShape(b) /\ SwapShape(b) /\ Unfenced(b)
    BY <2>2 DEF AdminInv
  <2>4. CallShape(b)'
    BY <1>7, <2>1, <2>2, <2>3, Components, <1>1, <1>3, <1>4, <1>5, CallComponents,
        UnassignedSteps, <1>6 DEF CallShape
  <2>5. Unshared(b)'
    BY <1>7, <2>1, <2>2, <2>3, Components, <1>1, <1>3, <1>4, <1>5, CallComponents,
        UnassignedSteps, <1>6 DEF Unshared, CallShape, Exclusive, Holds, NoFields
  <2>6. TargetIsOpen(b)'
    BY <1>7, <2>1, <2>2, <2>3, Components, <1>1, <1>3, <1>4, <1>5, CallComponents,
        UnassignedSteps, <1>6 DEF TargetIsOpen, CallShape, Exclusive, Kinds
  <2>7. ClosingIsUnused(b)'
    <3>1. ASSUME call[b].pc = "closing", NEW c \in Range(call[b].todo) PROVE field'[c[1]] # c[2]
      <4>1. c[1] \in Fields /\ c[2] \in Generations /\ c[2] # 0
        BY <1>7, Components
      <4>2. field[c[1]] # c[2]
        BY <2>3, <3>1 DEF ClosingIsUnused
      <4>3. call[a].target # 0
        BY <1>1, <1>5 DEF CallShape
      <4>4. c[2] # call[a].target
        BY <2>2, <3>1, <4>3 DEF Exclusive
      <4> QED BY <1>3, <4>1, <4>2, <4>4 DEF Holds
    <3> QED BY <2>1, <3>1 DEF ClosingIsUnused
  <2>8. OpenShape(b)'
    BY <1>7, <2>1, <2>2, <2>3, Components, <1>1, <1>3, <1>4, <1>5, CallComponents,
        UnassignedSteps, <1>6 DEF OpenShape, CallShape
  <2>9. SwapShape(b)'
    BY <1>7, <2>1, <2>2, <2>3, Components, <1>1, <1>3, <1>4, <1>5, CallComponents,
        UnassignedSteps, <1>6 DEF SwapShape, CallShape
  <2>10. Unfenced(b)'
    BY <1>7, <2>1, <2>2, <2>3, Components, <1>1, <1>3, <1>4, <1>5, CallComponents,
        UnassignedSteps, <1>6 DEF Unfenced, CallShape, InProgress, RuntimeShape
  <2>11. Exclusive(a, b)'
    BY <1>7, <2>1, <2>2, <2>3, Components, <1>1, <1>3, <1>4, <1>5, CallComponents,
        UnassignedSteps, <1>6 DEF Exclusive, CallShape, Unshared
  <2>12. Exclusive(b, a)'
    BY <1>7, <2>1, <2>2, <2>3, Components, <1>1, <1>3, <1>4, <1>5, CallComponents,
        UnassignedSteps, <1>6 DEF Exclusive, CallShape, Unshared
  <2> QED BY <2>4, <2>5, <2>6, <2>7, <2>8, <2>9, <2>10, <2>11, <2>12 DEF AdminInv
<1>8. AdminInv(a)'
  <2>1. CallShape(a)'
    BY <1>1, <1>3, <1>4, <1>5 DEF CallShape, RuntimeShape
  <2>2. Unshared(a)'
    BY <1>1, <1>3, <1>4, <1>5 DEF Unshared, CallShape, RuntimeShape
  <2>3. TargetIsOpen(a)'
    BY <1>1, <1>3, <1>4, <1>5 DEF TargetIsOpen, CallShape, Kinds
  <2>4. ClosingIsUnused(a)'
    BY <1>1, <1>3, <1>4, <1>5, CallComponents, UnassignedSteps, <1>6, Components
        DEF ClosingIsUnused, CallShape
  <2>5. OpenShape(a)'
    BY <1>1, <1>3, <1>4, <1>5 DEF OpenShape, CallShape, Holds
  <2>6. SwapShape(a)'
    <3>1. /\ Tail(call[a].next) \in Unassigned
          /\ Head(call[a].next) \notin Range(Tail(call[a].next))
          /\ Range(call[a].next) = {Head(call[a].next)} \cup Range(Tail(call[a].next))
      BY <1>1, <1>6, UnassignedSteps
    <3>2. \A f \in Fields \ Range(Tail(call[a].next)) : field'[f] = Holds(f, call[a].target)
      BY <1>1, <1>3, <1>5, <3>1 DEF SwapShape
    <3>3. \A k \in Kinds \cap Range(Tail(call[a].next)) :
                field'[k] # 0 => <<k, field'[k]>> \in Range(call[a].todo)
      BY <1>1, <1>3, <1>5, <3>1, Components DEF SwapShape
    <3> QED BY <1>1, <3>1, <3>2, <3>3 DEF SwapShape, Holds
  <2>7. Unfenced(a)'
    BY <1>1, <1>3, <1>4, <1>5 DEF Unfenced, CallShape, InProgress
  <2> QED BY <2>1, <2>2, <2>3, <2>4, <2>5, <2>6, <2>7 DEF AdminInv
<1>9. RuntimeShape'
  <2>1. (lock = NoAdmin /\ ~opened => field = NoFields)'
    BY <1>1, <1>3, <1>4, <1>5 DEF OpenShape, CallShape
  <2>2. (\A k \in Kinds, h \in Generations : h > generation => client[<<k, h>>] = "none")'
    BY <1>3, <1>4, <1>5 DEF RuntimeShape, CallShape, Generations
  <2>5. (~TransactionEnabled => \A h \in Generations : client[<<"bridge", h>>] # "open")'
    BY <1>1, <1>3, <1>4 DEF RuntimeShape, Kinds
  <2>6. (\A f \in Fields : field[f] <= generation)'
    BY <1>1, <1>3, <1>4, <1>5, CallComponents, UnassignedSteps, <1>6, Components DEF RuntimeShape,
        CallShape, NoFields, Holds
  <2>3. (\A h \in fenced : h <= generation)'
    BY <1>3, <1>4, <1>5 DEF RuntimeShape, TypeOK, Generations
  <2>4. (~disturbed => \A b, e \in Admins : InProgress(b) /\ InProgress(e) => b = e)'
    BY <1>1, <1>3, <1>4, <1>5, CallComponents, UnassignedSteps, <1>6, <1>2 DEF RuntimeShape,
        InProgress, CallShape
  <2> QED BY <2>1, <2>2, <2>3, <2>4, <2>5, <2>6 DEF RuntimeShape
<1>10. ClientsAccountedFor'
  <2> SUFFICES ASSUME NEW k \in Kinds, NEW h \in Generations, client'[<<k, h>>] = "open"
               PROVE  Accounted(k, h)'
    BY DEF ClientsAccountedFor, Accounted
  <2>1. client[<<k, h>>] = "open" => Accounted(k, h)
    BY <1>4 DEF ClientsAccountedFor, Accounted
  <2>2. ASSUME NEW e \in Admins, e # a, call[e].target = h \/ <<k, h>> \in Range(call[e].todo)
        PROVE  Accounted(k, h)'
    BY <1>2, <2>2 DEF Accounted
  <2>3. client[<<k, h>>] = "open"
    BY <1>1, <1>3
  <2>4. <<k, h>> \in abandoned => Accounted(k, h)'
    BY <1>3 DEF Accounted
  <2>5. field[k] = h => Accounted(k, h)'
    <3>1. CASE k = Head(call[a].next) /\ field[k] = h
      <4>1. k \in Range(call[a].next)
        BY <1>1, <1>6, <3>1, UnassignedSteps
      <4>2. h # 0
        BY DEF Generations
      <4>3. <<k, h>> \in Range(call[a].todo)
        BY <1>1, <1>5, <3>1, <4>1, <4>2 DEF SwapShape
      <4> QED BY <1>1, <4>3 DEF Accounted
    <3>2. CASE k # Head(call[a].next)
      BY <1>3, <3>2, Components DEF Accounted
    <3> QED BY <3>1, <3>2
  <2>6. call[a].target = h => Accounted(k, h)'
    BY <1>1, <1>3, <1>4, <1>5, CallComponents, UnassignedSteps, <1>6, <2>3, Components
        DEF Generations, Accounted, CallShape, OpenShape, SwapShape
  <2>7. <<k, h>> \in Range(call[a].todo) => Accounted(k, h)'
    BY <1>1, <1>3, <1>4, <1>5, CallComponents, UnassignedSteps, <1>6, UnassignedSteps, Components
        DEF Generations, Accounted, CallShape, OpenShape, SwapShape
  <2>8. <<k, h>> \in abandoned => Accounted(k, h)'
    BY <1>3 DEF Accounted
  <2>9. Accounted(k, h) => Accounted(k, h)'
    BY <2>2, <2>5, <2>6, <2>7, <2>8 DEF Accounted
  <2> QED BY <2>1, <2>3, <2>4, <2>9
<1>11. OpenIsWhole'
  <2>1. (IsOpen => \A k \in {"consumer", "producer"} :
                        field[k] # 0 /\ client[<<k, field[k]>>] = "open")'
    <3>1. /\ call[a].target # 0
          /\ client[<<"consumer", call[a].target>>] = "open"
          /\ client[<<"producer", call[a].target>>] = "open"
      BY <1>1, <1>5 DEF CallShape, TargetIsOpen
    <3>2. ASSUME NEW k \in {"consumer", "producer"}, IsOpen
          PROVE  field'[k] # 0 /\ client'[<<k, field'[k]>>] = "open"
      <4>1. field'[k] = field[k] \/ field'[k] = call[a].target
        BY <1>3 DEF Holds, Fields, Kinds
      <4> QED BY <1>3, <1>4, <3>1, <3>2, <4>1 DEF OpenIsWhole
    <3> QED BY <1>3, <3>2 DEF IsOpen
  <2>2. (IsOpen /\ TransactionEnabled => /\ field["bridge"] # 0
                                          /\ client[<<"bridge", field["bridge"]>>] = "open")'
    BY <1>1, <1>3, <1>4, <1>5, CallComponents, UnassignedSteps, <1>6, Components DEF OpenIsWhole,
        ClosingIsUnused, TargetIsOpen, OpenShape, SwapShape, CallShape, IsOpen, Holds, NoFields,
        Fields, Kinds, Generations
  <2>3. (IsOpen /\ lock = NoAdmin => \A f \in Fields :
                field[f] = field["probe"] \/ (f = "bridge" /\ ~TransactionEnabled))'
    BY <1>1, <1>3, <1>4, <1>5, CallComponents, UnassignedSteps, <1>6, Components DEF OpenIsWhole,
        ClosingIsUnused, TargetIsOpen, OpenShape, SwapShape, CallShape
  <2> QED BY <2>1, <2>2, <2>3 DEF OpenIsWhole
<1>12. RotationHandsOver'
  BY <1>1, <1>3, <1>4, <1>5, CallComponents, UnassignedSteps, <1>6, <1>2, Components
      DEF RotationHandsOver, Unfenced, SwapShape, OpenShape, CallShape, InProgress, IsOpen, Holds,
      Fields, Kinds
<1> QED BY <1>2, <1>7, <1>8, <1>9, <1>10, <1>11, <1>12, Assembled


\* RotateRelease keeps the invariant.
LEMMA RotateReleaseKeeps ==
    ASSUME TypeOK, LifecycleInv, NEW a \in Admins, RotateRelease(a)
    PROVE  LifecycleInv'
<1>1. /\ call[a].pc = "assigning"
      /\ call[a].next = <<>>
      /\ call'[a].operation = call[a].operation
      /\ call'[a].pc = "closing"
      /\ call'[a].target = 0
      /\ call'[a].todo = call[a].todo
      /\ call'[a].next = call[a].next
  BY Components DEF RotateRelease, TypeOK, Call
<1>2. \A b \in Admins : b # a => call'[b] = call[b]
  BY Components DEF RotateRelease, TypeOK, Call
<1>3. /\ lock' = NoAdmin
      /\ UNCHANGED <<opened, closed, field, client, fenced, generation, abandoned, disturbed>>
  BY DEF RotateRelease, TypeOK, Call, runtime, clients, history, publishing
<1>4. AdminInv(a) /\ RuntimeShape /\ ClientsAccountedFor /\ OpenIsWhole /\ RotationHandsOver
  BY DEF LifecycleInv
<1>5. /\ CallShape(a) /\ Unshared(a) /\ TargetIsOpen(a) /\ ClosingIsUnused(a)
      /\ OpenShape(a) /\ SwapShape(a) /\ Unfenced(a)
  BY <1>4 DEF AdminInv
<1>6. ASSUME NEW b \in Admins, b # a PROVE AdminInv(b)' /\ Exclusive(a, b)' /\ Exclusive(b, a)'
  <2>1. call'[b] = call[b]
    BY <1>2, <1>6
  <2>2. AdminInv(b) /\ Exclusive(a, b) /\ Exclusive(b, a)
    BY <1>6 DEF LifecycleInv
  <2>3. /\ CallShape(b) /\ Unshared(b) /\ TargetIsOpen(b) /\ ClosingIsUnused(b)
        /\ OpenShape(b) /\ SwapShape(b) /\ Unfenced(b)
    BY <2>2 DEF AdminInv
  <2>4. lock' = b <=> lock = b
    BY <1>1, <1>3, <1>5, <2>3, <1>6 DEF CallShape
  <2>5. AdminInv(b)'
    BY <1>3, <2>1, <2>2, <2>4, OthersStand
  <2>6. Exclusive(a, b)'
    BY <1>1, <1>3, <1>4 DEF Exclusive, CallShape, Unshared
  <2>7. Exclusive(b, a)'
    BY <1>6, <2>1, <2>2, <2>3, Components, <1>1, <1>3, <1>4, <1>5, CallComponents, UnassignedSteps
        DEF Exclusive, CallShape, Unshared
  <2> QED BY <2>4, <2>5, <2>6, <2>7 DEF AdminInv
<1>7. AdminInv(a)'
  <2>1. CallShape(a)'
    BY <1>1, <1>3, <1>4, <1>5, CallComponents, UnassignedSteps, Components DEF CallShape,
        RuntimeShape
  <2>2. Unshared(a)'
    BY <1>1, <1>3, <1>4, <1>5, CallComponents, UnassignedSteps, Components DEF Unshared
  <2>3. TargetIsOpen(a)'
    BY <1>1, <1>3, <1>4, <1>5, CallComponents, UnassignedSteps, Components DEF TargetIsOpen
  <2>4. ClosingIsUnused(a)'
    BY <1>1, <1>3, <1>4, <1>5, CallComponents, UnassignedSteps, Components DEF ClosingIsUnused,
        CallShape, Unshared, SwapShape, Holds, NoFields
  <2>5. OpenShape(a)'
    BY <1>1, <1>3, <1>4, <1>5, CallComponents, UnassignedSteps, Components DEF OpenShape,
        CallShape, Holds, NoFields
  <2>6. SwapShape(a)'
    BY <1>1, <1>3, <1>4, <1>5, CallComponents, UnassignedSteps, Components DEF SwapShape
  <2>7. Unfenced(a)'
    BY <1>1, <1>3, <1>4, <1>5, CallComponents, UnassignedSteps, Components DEF Unfenced
  <2> QED BY <2>1, <2>2, <2>3, <2>4, <2>5, <2>6, <2>7 DEF AdminInv
<1>8. RuntimeShape'
  <2>1. (lock = NoAdmin /\ ~opened => field = NoFields)'
    BY <1>1, <1>3, <1>4, <1>5, CallComponents, UnassignedSteps DEF RuntimeShape, OpenShape,
        CallShape
  <2>2. (\A k \in Kinds, h \in Generations : h > generation => client[<<k, h>>] = "none")'
    BY <1>3, <1>4, <1>5, CallComponents, UnassignedSteps, Components DEF RuntimeShape
  <2>5. (~TransactionEnabled => \A h \in Generations : client[<<"bridge", h>>] # "open")'
    BY <1>1, <1>3, <1>4 DEF RuntimeShape, Kinds
  <2>6. (\A f \in Fields : field[f] <= generation)'
    BY <1>3, <1>4, <1>5, CallComponents, UnassignedSteps, Components DEF RuntimeShape
  <2>3. (\A h \in fenced : h <= generation)'
    BY <1>3, <1>4, <1>5, CallComponents, UnassignedSteps, Components DEF RuntimeShape
  <2>4. (~disturbed => \A b, e \in Admins : InProgress(b) /\ InProgress(e) => b = e)'
    BY <1>1, <1>3, <1>4, <1>5, CallComponents, UnassignedSteps, <1>2 DEF RuntimeShape, InProgress,
        CallShape
  <2> QED BY <2>1, <2>2, <2>3, <2>4, <2>5, <2>6 DEF RuntimeShape
<1>9. ClientsAccountedFor'
  <2> SUFFICES ASSUME NEW k \in Kinds, NEW h \in Generations, client'[<<k, h>>] = "open"
               PROVE  Accounted(k, h)'
    BY DEF ClientsAccountedFor, Accounted
  <2>1. client[<<k, h>>] = "open" => Accounted(k, h)
    BY <1>4 DEF ClientsAccountedFor, Accounted
  <2>2. ASSUME NEW e \in Admins, e # a, call[e].target = h \/ <<k, h>> \in Range(call[e].todo)
        PROVE  Accounted(k, h)'
    BY <1>2, <2>2 DEF Accounted
  <2>3. client[<<k, h>>] = "open"
    BY <1>1, <1>3
  <2>4. <<k, h>> \in abandoned => Accounted(k, h)'
    BY <1>3 DEF Accounted
  <2>5. field[k] = h => Accounted(k, h)'
    BY <1>1, <1>3, <1>4, <1>5, CallComponents, UnassignedSteps, <2>2, Components DEF Generations,
        Accounted, CallShape, OpenShape, SwapShape, TargetIsOpen
  <2>6. call[a].target = h => Accounted(k, h)'
    <3>1. \A f \in Fields : field[f] = Holds(f, call[a].target)
      BY <1>1, <1>5, UnassignedSteps DEF SwapShape
    <3>2. k = "bridge" => TransactionEnabled
      BY <1>4, <2>3 DEF RuntimeShape
    <3>3. field[k] = call[a].target
      BY <3>1, <3>2 DEF Holds, Fields
    <3> QED BY <1>3, <3>3 DEF Accounted
  <2>7. <<k, h>> \in Range(call[a].todo) => Accounted(k, h)'
    BY <1>1, <1>3, <1>4, <1>5, CallComponents, UnassignedSteps, UnassignedSteps, Components
        DEF Generations, Accounted, CallShape, OpenShape, SwapShape, TargetIsOpen
  <2>8. <<k, h>> \in abandoned => Accounted(k, h)'
    BY <1>3 DEF Accounted
  <2>9. Accounted(k, h) => Accounted(k, h)'
    BY <2>2, <2>5, <2>6, <2>7, <2>8 DEF Accounted
  <2> QED BY <2>1, <2>3, <2>4, <2>9
<1>10. OpenIsWhole'
  <2>1. (IsOpen => \A k \in {"consumer", "producer"} :
                        field[k] # 0 /\ client[<<k, field[k]>>] = "open")'
    BY <1>1, <1>3, <1>4, <1>5, CallComponents, UnassignedSteps, Components DEF OpenIsWhole,
        ClosingIsUnused, TargetIsOpen, OpenShape, SwapShape, CallShape, IsOpen
  <2>2. (IsOpen /\ TransactionEnabled => /\ field["bridge"] # 0
                                          /\ client[<<"bridge", field["bridge"]>>] = "open")'
    BY <1>1, <1>3, <1>4, <1>5, CallComponents, UnassignedSteps, Components DEF OpenIsWhole,
        ClosingIsUnused, TargetIsOpen, OpenShape, SwapShape, CallShape, IsOpen
  <2>3. (IsOpen /\ lock = NoAdmin => \A f \in Fields :
                field[f] = field["probe"] \/ (f = "bridge" /\ ~TransactionEnabled))'
    <3>1. \A f \in Fields : field[f] = Holds(f, call[a].target)
      BY <1>1, <1>5, UnassignedSteps DEF SwapShape
    <3> QED BY <1>3, <3>1 DEF Holds, Fields
  <2> QED BY <2>1, <2>2, <2>3 DEF OpenIsWhole
<1>11. RotationHandsOver'
  BY <1>1, <1>3, <1>4, <1>5, CallComponents, UnassignedSteps, <1>2, Components
      DEF RotationHandsOver, Unfenced, SwapShape, OpenShape, CallShape, InProgress, IsOpen, Holds,
      Fields, Kinds
<1> QED BY <1>2, <1>6, <1>7, <1>8, <1>9, <1>10, <1>11, Assembled


\* CloseBegin keeps the invariant.
LEMMA CloseBeginKeeps ==
    ASSUME TypeOK, LifecycleInv, NEW a \in Admins, CloseBegin(a)
    PROVE  LifecycleInv'
<1>1. /\ call[a].pc = "idle"
      /\ call'[a].operation = "close"
      /\ call'[a].pc = "closing"
      /\ call'[a].target = 0
      /\ call'[a].todo = CloseOrder(field)
      /\ call'[a].next = <<>>
  BY Components DEF CloseBegin, TypeOK, Call, Idle
<1>2. \A b \in Admins : b # a => call'[b] = call[b]
  BY Components DEF CloseBegin, TypeOK, Call, Idle
<1>3. /\ lock = NoAdmin /\ lock' = a
      /\ ~closed /\ closed'
      /\ field' = NoFields
      /\ UNCHANGED <<opened, client, fenced, generation, abandoned, disturbed>>
  BY Components DEF CloseBegin, TypeOK, clients, history
<1>4. AdminInv(a) /\ RuntimeShape /\ ClientsAccountedFor /\ OpenIsWhole /\ RotationHandsOver
  BY DEF LifecycleInv
<1>5. /\ CallShape(a) /\ Unshared(a) /\ TargetIsOpen(a) /\ ClosingIsUnused(a)
      /\ OpenShape(a) /\ SwapShape(a) /\ Unfenced(a)
  BY <1>4 DEF AdminInv
<1>6. /\ \A c \in Range(CloseOrder(field)) :
                c[1] \in Kinds /\ c[2] # 0 /\ c[2] = field[c[1]]
      /\ \A k \in Kinds : field[k] # 0 => <<k, field[k]>> \in Range(CloseOrder(field))
  <2>1. \A c : c \in Range(CloseOrder(field))
            <=> \E k \in Kinds : field[k] # 0 /\ c = <<k, field[k]>>
    BY Components, CloseOrderNames
  <2>2. \A c \in Range(CloseOrder(field)) : c[1] \in Kinds /\ c[2] # 0 /\ c[2] = field[c[1]]
    BY <2>1
  <2>3. \A k \in Kinds : field[k] # 0 => <<k, field[k]>> \in Range(CloseOrder(field))
    BY <2>1
  <2> QED BY <2>2, <2>3
<1>7. ASSUME NEW b \in Admins, b # a PROVE AdminInv(b)' /\ Exclusive(a, b)' /\ Exclusive(b, a)'
  <2>1. call'[b] = call[b]
    BY <1>2, <1>7
  <2>2. AdminInv(b) /\ Exclusive(a, b) /\ Exclusive(b, a)
    BY <1>7 DEF LifecycleInv
  <2>3. /\ CallShape(b) /\ Unshared(b) /\ TargetIsOpen(b) /\ ClosingIsUnused(b)
        /\ OpenShape(b) /\ SwapShape(b) /\ Unfenced(b)
    BY <2>2 DEF AdminInv
  <2>4. CallShape(b)'
    BY <1>7, <2>1, <2>2, <2>3, Components, <1>1, <1>3, <1>4, <1>5, CallComponents, <1>6
        DEF CallShape
  <2>5. Unshared(b)'
    BY <1>7, <2>1, <2>2, <2>3, Components, <1>1, <1>3, <1>4, <1>5, CallComponents, <1>6
        DEF Unshared, CallShape, Exclusive, Holds, NoFields
  <2>6. TargetIsOpen(b)'
    BY <1>7, <2>1, <2>2, <2>3, Components, <1>1, <1>3, <1>4, <1>5, CallComponents, <1>6
        DEF TargetIsOpen, CallShape, Exclusive, Kinds
  <2>7. ClosingIsUnused(b)'
    BY <1>7, <2>1, <2>2, <2>3, Components, <1>1, <1>3, <1>4, <1>5, CallComponents, <1>6
        DEF ClosingIsUnused, CallShape, Exclusive, Holds, NoFields
  <2>8. OpenShape(b)'
    BY <1>7, <2>1, <2>2, <2>3, Components, <1>1, <1>3, <1>4, <1>5, CallComponents, <1>6
        DEF OpenShape, CallShape
  <2>9. SwapShape(b)'
    BY <1>7, <2>1, <2>2, <2>3, Components, <1>1, <1>3, <1>4, <1>5, CallComponents, <1>6
        DEF SwapShape, CallShape
  <2>10. Unfenced(b)'
    BY <1>7, <2>1, <2>2, <2>3, Components, <1>1, <1>3, <1>4, <1>5, CallComponents, <1>6
        DEF Unfenced, CallShape, InProgress, RuntimeShape
  <2>11. Exclusive(a, b)'
    BY <1>1, <1>3, <1>4 DEF Exclusive, CallShape, Unshared
  <2>12. Exclusive(b, a)'
    BY <1>7, <2>1, <2>2, <2>3, Components, <1>1, <1>3, <1>4, <1>5, CallComponents, <1>6
        DEF Exclusive, CallShape, Unshared
  <2> QED BY <2>4, <2>5, <2>6, <2>7, <2>8, <2>9, <2>10, <2>11, <2>12 DEF AdminInv
<1>8. AdminInv(a)'
  <2>1. CallShape(a)'
    BY <1>1, <1>3, <1>4, <1>5, CallComponents, <1>6, Components DEF CallShape, RuntimeShape
  <2>2. Unshared(a)'
    BY <1>1, <1>3, <1>4, <1>5, CallComponents, <1>6, Components DEF Unshared
  <2>3. TargetIsOpen(a)'
    BY <1>1, <1>3, <1>4, <1>5, CallComponents, <1>6, Components DEF TargetIsOpen
  <2>4. ClosingIsUnused(a)'
    BY <1>1, <1>3, <1>4, <1>5, CallComponents, <1>6, Components DEF ClosingIsUnused, CallShape,
        Unshared, SwapShape, Holds, NoFields
  <2>5. OpenShape(a)'
    BY <1>1, <1>3, <1>4, <1>5, CallComponents, <1>6, Components DEF OpenShape
  <2>6. SwapShape(a)'
    BY <1>1, <1>3, <1>4, <1>5, CallComponents, <1>6, Components DEF SwapShape
  <2>7. Unfenced(a)'
    BY <1>1, <1>3, <1>4, <1>5, CallComponents, <1>6, Components DEF Unfenced
  <2> QED BY <2>1, <2>2, <2>3, <2>4, <2>5, <2>6, <2>7 DEF AdminInv
<1>9. RuntimeShape'
  <2>1. (lock = NoAdmin /\ ~opened => field = NoFields)'
    BY <1>1, <1>3, <1>4
  <2>2. (\A k \in Kinds, h \in Generations : h > generation => client[<<k, h>>] = "none")'
    BY <1>3, <1>4, <1>5, CallComponents, <1>6, Components DEF RuntimeShape
  <2>5. (~TransactionEnabled => \A h \in Generations : client[<<"bridge", h>>] # "open")'
    BY <1>1, <1>3, <1>4 DEF RuntimeShape, Kinds
  <2>6. (\A f \in Fields : field[f] <= generation)'
    BY <1>1, <1>3, <1>4, <1>5 DEF CallShape, NoFields, Holds
  <2>3. (\A h \in fenced : h <= generation)'
    BY <1>3, <1>4, <1>5, CallComponents, <1>6, Components DEF RuntimeShape
  <2>4. (~disturbed => \A b, e \in Admins : InProgress(b) /\ InProgress(e) => b = e)'
    BY <1>1, <1>3, <1>4, <1>5, CallComponents, <1>6, <1>2 DEF RuntimeShape, InProgress, CallShape
  <2> QED BY <2>1, <2>2, <2>3, <2>4, <2>5, <2>6 DEF RuntimeShape
<1>10. ClientsAccountedFor'
  <2> SUFFICES ASSUME NEW k \in Kinds, NEW h \in Generations, client'[<<k, h>>] = "open"
               PROVE  Accounted(k, h)'
    BY DEF ClientsAccountedFor, Accounted
  <2>1. client[<<k, h>>] = "open" => Accounted(k, h)
    BY <1>4 DEF ClientsAccountedFor, Accounted
  <2>2. ASSUME NEW e \in Admins, e # a, call[e].target = h \/ <<k, h>> \in Range(call[e].todo)
        PROVE  Accounted(k, h)'
    BY <1>2, <2>2 DEF Accounted
  <2>3. client[<<k, h>>] = "open"
    BY <1>1, <1>3
  <2>4. <<k, h>> \in abandoned => Accounted(k, h)'
    BY <1>3 DEF Accounted
  <2>5. field[k] = h => Accounted(k, h)'
    BY <1>1, <1>3, <1>4, <1>5, CallComponents, <1>6, <2>2, Components DEF Generations, Accounted,
        CallShape, OpenShape, SwapShape, TargetIsOpen
  <2>6. call[a].target = h => Accounted(k, h)'
    BY <1>1, <1>3, <1>4, <1>5, CallComponents, <1>6, <2>3, Components DEF Generations, Accounted,
        CallShape, OpenShape, SwapShape, TargetIsOpen
  <2>7. <<k, h>> \in Range(call[a].todo) => Accounted(k, h)'
    BY <1>1, <1>3, <1>4, <1>5, CallComponents, <1>6, UnassignedSteps, Components DEF Generations,
        Accounted, CallShape, OpenShape, SwapShape, TargetIsOpen
  <2>8. <<k, h>> \in abandoned => Accounted(k, h)'
    BY <1>3 DEF Accounted
  <2>9. Accounted(k, h) => Accounted(k, h)'
    BY <2>2, <2>5, <2>6, <2>7, <2>8 DEF Accounted
  <2> QED BY <2>1, <2>3, <2>4, <2>9
<1>11. OpenIsWhole'
  <2>1. (IsOpen => \A k \in {"consumer", "producer"} :
                        field[k] # 0 /\ client[<<k, field[k]>>] = "open")'
    BY <1>1, <1>3, <1>4, <1>5, CallComponents, <1>6, Components DEF OpenIsWhole, ClosingIsUnused,
        TargetIsOpen, OpenShape, SwapShape, CallShape, IsOpen
  <2>2. (IsOpen /\ TransactionEnabled => /\ field["bridge"] # 0
                                          /\ client[<<"bridge", field["bridge"]>>] = "open")'
    BY <1>1, <1>3, <1>4, <1>5, CallComponents, <1>6, Components DEF OpenIsWhole, ClosingIsUnused,
        TargetIsOpen, OpenShape, SwapShape, CallShape, IsOpen
  <2>3. (IsOpen /\ lock = NoAdmin => \A f \in Fields :
                field[f] = field["probe"] \/ (f = "bridge" /\ ~TransactionEnabled))'
    BY <1>1, <1>3, <1>4, <1>5, CallComponents, <1>6, Components
  <2> QED BY <2>1, <2>2, <2>3 DEF OpenIsWhole
<1>12. RotationHandsOver'
  BY <1>1, <1>3, <1>4, <1>5, CallComponents, <1>6, <1>2, Components DEF RotationHandsOver,
      Unfenced, SwapShape, OpenShape, CallShape, InProgress, IsOpen, Holds, Fields, Kinds
<1> QED BY <1>2, <1>7, <1>8, <1>9, <1>10, <1>11, <1>12, Assembled


\* CloseOne keeps the invariant.
LEMMA CloseOneKeeps ==
    ASSUME TypeOK, LifecycleInv, NEW a \in Admins, CloseOne(a)
    PROVE  LifecycleInv'
<1>1. /\ call[a].pc = "closing"
      /\ call[a].todo # <<>>
      /\ call'[a].operation = call[a].operation
      /\ call'[a].pc = call[a].pc
      /\ call'[a].target = call[a].target
      /\ call'[a].todo = Tail(call[a].todo)
      /\ call'[a].next = call[a].next
  BY Components DEF CloseOne, TypeOK, Call
<1>2. \A b \in Admins : b # a => call'[b] = call[b]
  BY Components DEF CloseOne, TypeOK, Call
<1>3. /\ \A k \in Kinds, h \in Generations :
            client'[<<k, h>>] = IF <<k, h>> = Head(call[a].todo) THEN "closed" ELSE client[<<k, h>>]
      /\ UNCHANGED <<opened, closed, lock, field, fenced, generation, abandoned, disturbed>>
  BY DEF CloseOne, TypeOK, Call, runtime, clients, history, publishing
<1>4. AdminInv(a) /\ RuntimeShape /\ ClientsAccountedFor /\ OpenIsWhole /\ RotationHandsOver
  BY DEF LifecycleInv
<1>5. /\ CallShape(a) /\ Unshared(a) /\ TargetIsOpen(a) /\ ClosingIsUnused(a)
      /\ OpenShape(a) /\ SwapShape(a) /\ Unfenced(a)
  BY <1>4 DEF AdminInv
<1>6. /\ Head(call[a].todo) \in Clients
      /\ Head(call[a].todo) \in Range(call[a].todo)
      /\ \A c : c \in Range(call[a].todo)
                <=> c = Head(call[a].todo) \/ c \in Range(Tail(call[a].todo))
  BY <1>1, CallComponents, RestOfTodo
<1>7. \A k \in Kinds, h \in Generations :
        <<k, h>> = Head(call[a].todo) <=> k = Head(call[a].todo)[1] /\ h = Head(call[a].todo)[2]
  BY <1>6 DEF Clients
<1>8. \A c \in Range(Tail(call[a].todo)) : c \in Range(call[a].todo)
  BY <1>6
<1>9. ASSUME NEW b \in Admins, b # a PROVE AdminInv(b)' /\ Exclusive(a, b)' /\ Exclusive(b, a)'
  <2>1. call'[b] = call[b]
    BY <1>2, <1>9
  <2>2. AdminInv(b) /\ Exclusive(a, b) /\ Exclusive(b, a)
    BY <1>9 DEF LifecycleInv
  <2>3. /\ CallShape(b) /\ Unshared(b) /\ TargetIsOpen(b) /\ ClosingIsUnused(b)
        /\ OpenShape(b) /\ SwapShape(b) /\ Unfenced(b)
    BY <2>2 DEF AdminInv
  <2>4. CallShape(b)'
    BY <1>9, <2>1, <2>2, <2>3, Components, <1>1, <1>3, <1>4, <1>5, CallComponents, <1>6, <1>7,
        <1>8 DEF CallShape
  <2>5. Unshared(b)'
    BY <1>9, <2>1, <2>2, <2>3, Components, <1>1, <1>3, <1>4, <1>5, CallComponents, <1>6, <1>7,
        <1>8 DEF Unshared, CallShape, Exclusive, Holds, NoFields
  <2>6. TargetIsOpen(b)'
    BY <1>9, <2>1, <2>2, <2>3, Components, <1>1, <1>3, <1>4, <1>5, CallComponents, <1>6, <1>7,
        <1>8 DEF TargetIsOpen, CallShape, Exclusive, Kinds
  <2>7. ClosingIsUnused(b)'
    BY <1>9, <2>1, <2>2, <2>3, Components, <1>1, <1>3, <1>4, <1>5, CallComponents, <1>6, <1>7,
        <1>8 DEF ClosingIsUnused, CallShape, Exclusive, Holds, NoFields
  <2>8. OpenShape(b)'
    BY <1>9, <2>1, <2>2, <2>3, Components, <1>1, <1>3, <1>4, <1>5, CallComponents, <1>6, <1>7,
        <1>8 DEF OpenShape, CallShape
  <2>9. SwapShape(b)'
    BY <1>9, <2>1, <2>2, <2>3, Components, <1>1, <1>3, <1>4, <1>5, CallComponents, <1>6, <1>7,
        <1>8 DEF SwapShape, CallShape
  <2>10. Unfenced(b)'
    BY <1>9, <2>1, <2>2, <2>3, Components, <1>1, <1>3, <1>4, <1>5, CallComponents, <1>6, <1>7,
        <1>8 DEF Unfenced, CallShape, InProgress, RuntimeShape
  <2>11. Exclusive(a, b)'
    BY <1>9, <2>1, <2>2, <2>3, Components, <1>1, <1>8 DEF Exclusive, CallShape, Unshared
  <2>12. Exclusive(b, a)'
    BY <1>9, <2>1, <2>2, <2>3, Components, <1>1, <1>8 DEF Exclusive, CallShape, Unshared
  <2> QED BY <2>4, <2>5, <2>6, <2>7, <2>8, <2>9, <2>10, <2>11, <2>12 DEF AdminInv
<1>10. AdminInv(a)'
  <2>1. CallShape(a)'
    BY <1>1, <1>3, <1>4, <1>5, CallComponents, <1>6, <1>7, <1>8, Components DEF CallShape,
        RuntimeShape
  <2>2. Unshared(a)'
    BY <1>1, <1>3, <1>4, <1>5, Components DEF Unshared, CallShape
  <2>3. TargetIsOpen(a)'
    BY <1>1, <1>3, <1>4, <1>5, CallComponents, <1>6, <1>7, <1>8, Components DEF TargetIsOpen,
        CallShape, Kinds
  <2>4. ClosingIsUnused(a)'
    BY <1>1, <1>3, <1>4, <1>5, CallComponents, <1>6, <1>7, <1>8, Components DEF ClosingIsUnused
  <2>5. OpenShape(a)'
    BY <1>1, <1>3, <1>4, <1>5, CallComponents, <1>6, <1>7, <1>8, Components DEF OpenShape
  <2>6. SwapShape(a)'
    BY <1>1, <1>3, <1>4, <1>5, CallComponents, <1>6, <1>7, <1>8, Components DEF SwapShape
  <2>7. Unfenced(a)'
    BY <1>1, <1>3, <1>4, <1>5, CallComponents, <1>6, <1>7, <1>8, Components DEF Unfenced
  <2> QED BY <2>1, <2>2, <2>3, <2>4, <2>5, <2>6, <2>7 DEF AdminInv
<1>11. RuntimeShape'
  <2>1. (lock = NoAdmin /\ ~opened => field = NoFields)'
    BY <1>3, <1>4, <1>5 DEF RuntimeShape, OpenShape, CallShape
  <2>2. (\A k \in Kinds, h \in Generations : h > generation => client[<<k, h>>] = "none")'
    BY <1>1, <1>3, <1>4, <1>5, CallComponents, <1>6, <1>7, <1>8, Components DEF RuntimeShape,
        CallShape, Generations
  <2>5. (~TransactionEnabled => \A h \in Generations : client[<<"bridge", h>>] # "open")'
    BY <1>1, <1>3, <1>4 DEF RuntimeShape, Kinds
  <2>6. (\A f \in Fields : field[f] <= generation)'
    BY <1>1, <1>3, <1>4, <1>5, CallComponents, <1>6, <1>7, <1>8, Components DEF RuntimeShape
  <2>3. (\A h \in fenced : h <= generation)'
    BY <1>1, <1>3, <1>4, <1>5, Components DEF RuntimeShape, TypeOK
  <2>4. (~disturbed => \A b, e \in Admins : InProgress(b) /\ InProgress(e) => b = e)'
    BY <1>1, <1>3, <1>4, <1>5, <1>2 DEF RuntimeShape, InProgress
  <2> QED BY <2>1, <2>2, <2>3, <2>4, <2>5, <2>6 DEF RuntimeShape
<1>12. ClientsAccountedFor'
  <2> SUFFICES ASSUME NEW k \in Kinds, NEW h \in Generations, client'[<<k, h>>] = "open"
               PROVE  Accounted(k, h)'
    BY DEF ClientsAccountedFor, Accounted
  <2>1. client[<<k, h>>] = "open" => Accounted(k, h)
    BY <1>4 DEF ClientsAccountedFor, Accounted
  <2>2. ASSUME NEW e \in Admins, e # a, call[e].target = h \/ <<k, h>> \in Range(call[e].todo)
        PROVE  Accounted(k, h)'
    BY <1>2, <2>2 DEF Accounted
  <2>3. client[<<k, h>>] = "open"
    BY <1>1, <1>3
  <2>4. <<k, h>> \in abandoned => Accounted(k, h)'
    BY <1>3 DEF Accounted
  <2>5. field[k] = h => Accounted(k, h)'
    BY <1>1, <1>3, <1>4, <1>5, CallComponents, <1>6, <1>7, <1>8, <2>2, Components DEF Generations,
        Accounted, CallShape, OpenShape
  <2>6. call[a].target = h => Accounted(k, h)'
    BY <1>1, <1>3, <1>4, <1>5, CallComponents, <1>6, <1>7, <1>8, <2>3, Components DEF Generations,
        Accounted, CallShape, OpenShape
  <2>7. <<k, h>> \in Range(call[a].todo) => Accounted(k, h)'
    BY <1>1, <1>3, <1>4, <1>5, CallComponents, <1>6, <1>7, <1>8, UnassignedSteps, Components
        DEF Generations, Accounted, CallShape, OpenShape
  <2>8. <<k, h>> \in abandoned => Accounted(k, h)'
    BY <1>3 DEF Accounted
  <2>9. Accounted(k, h) => Accounted(k, h)'
    BY <2>2, <2>5, <2>6, <2>7, <2>8 DEF Accounted
  <2> QED BY <2>1, <2>3, <2>4, <2>9
<1>13. OpenIsWhole'
  <2>1. (IsOpen => \A k \in {"consumer", "producer"} :
                        field[k] # 0 /\ client[<<k, field[k]>>] = "open")'
    <3>1. ASSUME NEW k \in {"consumer", "producer"}, IsOpen
          PROVE  field[k] # 0 /\ client'[<<k, field[k]>>] = "open"
      <4>1. field[k] # 0 /\ client[<<k, field[k]>>] = "open"
        BY <1>4, <3>1 DEF OpenIsWhole
      <4>2. k \in Kinds /\ field[k] \in Generations
        BY <4>1, Components DEF Kinds, Generations
      <4>3. <<k, field[k]>> # Head(call[a].todo)
        BY <1>1, <1>5, <1>6, <1>7, <4>2 DEF ClosingIsUnused
      <4> QED BY <1>3, <4>1, <4>2, <4>3
    <3> QED BY <1>3, <3>1 DEF IsOpen
  <2>2. (IsOpen /\ TransactionEnabled => /\ field["bridge"] # 0
                                          /\ client[<<"bridge", field["bridge"]>>] = "open")'
    BY <1>1, <1>3, <1>4, <1>5, CallComponents, <1>6, <1>7, <1>8, Components DEF OpenIsWhole,
        ClosingIsUnused, TargetIsOpen, OpenShape, SwapShape, CallShape, IsOpen, Holds, NoFields,
        Fields, Kinds, Generations
  <2>3. (IsOpen /\ lock = NoAdmin => \A f \in Fields :
                field[f] = field["probe"] \/ (f = "bridge" /\ ~TransactionEnabled))'
    BY <1>1, <1>3, <1>4, <1>5, CallComponents, <1>6, <1>7, <1>8, Components DEF OpenIsWhole,
        ClosingIsUnused, TargetIsOpen, OpenShape, SwapShape, CallShape, IsOpen, Holds, NoFields,
        Fields, Kinds, Generations
  <2> QED BY <2>1, <2>2, <2>3 DEF OpenIsWhole
<1>14. RotationHandsOver'
  BY <1>1, <1>3, <1>4, <1>5, CallComponents, <1>6, <1>7, <1>8, <1>2, Components
      DEF RotationHandsOver, Unfenced, SwapShape, OpenShape, CallShape, InProgress, IsOpen, Holds,
      Fields, Kinds
<1> QED BY <1>2, <1>9, <1>10, <1>11, <1>12, <1>13, <1>14, Assembled


\* CloseReturns keeps the invariant.
LEMMA CloseReturnsKeeps ==
    ASSUME TypeOK, LifecycleInv, NEW a \in Admins, CloseReturns(a)
    PROVE  LifecycleInv'
<1>1. /\ call[a].pc = "closing"
      /\ call[a].todo = <<>>
      /\ call'[a].operation = "none"
      /\ call'[a].pc = "idle"
      /\ call'[a].target = 0
      /\ call'[a].todo = <<>>
      /\ call'[a].next = <<>>
  BY Components DEF CloseReturns, Returns, Idle
<1>2. \A b \in Admins : b # a => call'[b] = call[b]
  BY DEF CloseReturns, Returns, Idle
<1>3. /\ lock' = IF lock = a THEN NoAdmin ELSE lock
      /\ UNCHANGED <<opened, closed, field, client, fenced, generation, abandoned, disturbed>>
  BY Components DEF CloseReturns, TypeOK, Call, Returns, Idle, runtime, clients, history,
      publishing
<1>4. AdminInv(a) /\ RuntimeShape /\ ClientsAccountedFor /\ OpenIsWhole /\ RotationHandsOver
  BY DEF LifecycleInv
<1>5. /\ CallShape(a) /\ Unshared(a) /\ TargetIsOpen(a) /\ ClosingIsUnused(a)
      /\ OpenShape(a) /\ SwapShape(a) /\ Unfenced(a)
  BY <1>4 DEF AdminInv
<1>6. ASSUME NEW b \in Admins, b # a PROVE AdminInv(b)' /\ Exclusive(a, b)' /\ Exclusive(b, a)'
  <2>1. call'[b] = call[b]
    BY <1>2, <1>6
  <2>2. AdminInv(b) /\ Exclusive(a, b) /\ Exclusive(b, a)
    BY <1>6 DEF LifecycleInv
  <2>3. /\ CallShape(b) /\ Unshared(b) /\ TargetIsOpen(b) /\ ClosingIsUnused(b)
        /\ OpenShape(b) /\ SwapShape(b) /\ Unfenced(b)
    BY <2>2 DEF AdminInv
  <2>4. lock' = b <=> lock = b
    BY <1>3, <1>6 DEF CallShape
  <2>5. AdminInv(b)'
    BY <1>3, <2>1, <2>2, <2>4, OthersStand
  <2>6. Exclusive(a, b)'
    BY <1>1, <1>3, <1>4 DEF Exclusive, CallShape, Unshared
  <2>7. Exclusive(b, a)'
    BY <1>1, <1>3, <1>4, <1>5, CallComponents, UnassignedSteps DEF Exclusive, CallShape, Unshared
  <2> QED BY <2>4, <2>5, <2>6, <2>7 DEF AdminInv
<1>7. AdminInv(a)'
  <2>1. CallShape(a)'
    BY <1>1, <1>3, <1>4, <1>5, CallComponents, UnassignedSteps, Components DEF CallShape,
        RuntimeShape
  <2>2. Unshared(a)'
    BY <1>1, <1>3, <1>4, <1>5, CallComponents, UnassignedSteps, Components DEF Unshared
  <2>3. TargetIsOpen(a)'
    BY <1>1, <1>3, <1>4, <1>5, CallComponents, UnassignedSteps, Components DEF TargetIsOpen
  <2>4. ClosingIsUnused(a)'
    BY <1>1, <1>3, <1>4, <1>5, CallComponents, UnassignedSteps, Components DEF ClosingIsUnused,
        CallShape, Unshared
  <2>5. OpenShape(a)'
    BY <1>1, <1>3, <1>4, <1>5, CallComponents, UnassignedSteps, Components DEF OpenShape
  <2>6. SwapShape(a)'
    BY <1>1, <1>3, <1>4, <1>5, CallComponents, UnassignedSteps, Components DEF SwapShape
  <2>7. Unfenced(a)'
    BY <1>1, <1>3, <1>4, <1>5, CallComponents, UnassignedSteps, Components DEF Unfenced,
        CallShape, InProgress, RuntimeShape
  <2> QED BY <2>1, <2>2, <2>3, <2>4, <2>5, <2>6, <2>7 DEF AdminInv
<1>8. RuntimeShape'
  <2>1. (lock = NoAdmin /\ ~opened => field = NoFields)'
    BY <1>1, <1>3, <1>4, <1>5, CallComponents, UnassignedSteps DEF RuntimeShape, OpenShape,
        CallShape
  <2>2. (\A k \in Kinds, h \in Generations : h > generation => client[<<k, h>>] = "none")'
    BY <1>3, <1>4, <1>5, CallComponents, UnassignedSteps, Components DEF RuntimeShape
  <2>5. (~TransactionEnabled => \A h \in Generations : client[<<"bridge", h>>] # "open")'
    BY <1>1, <1>3, <1>4 DEF RuntimeShape, Kinds
  <2>6. (\A f \in Fields : field[f] <= generation)'
    BY <1>3, <1>4, <1>5, CallComponents, UnassignedSteps, Components DEF RuntimeShape
  <2>3. (\A h \in fenced : h <= generation)'
    BY <1>3, <1>4, <1>5, CallComponents, UnassignedSteps, Components DEF RuntimeShape
  <2>4. (~disturbed => \A b, e \in Admins : InProgress(b) /\ InProgress(e) => b = e)'
    BY <1>1, <1>3, <1>4, <1>5, CallComponents, UnassignedSteps, <1>2 DEF RuntimeShape, InProgress,
        CallShape
  <2> QED BY <2>1, <2>2, <2>3, <2>4, <2>5, <2>6 DEF RuntimeShape
<1>9. ClientsAccountedFor'
  <2> SUFFICES ASSUME NEW k \in Kinds, NEW h \in Generations, client'[<<k, h>>] = "open"
               PROVE  Accounted(k, h)'
    BY DEF ClientsAccountedFor, Accounted
  <2>1. client[<<k, h>>] = "open" => Accounted(k, h)
    BY <1>4 DEF ClientsAccountedFor, Accounted
  <2>2. ASSUME NEW e \in Admins, e # a, call[e].target = h \/ <<k, h>> \in Range(call[e].todo)
        PROVE  Accounted(k, h)'
    BY <1>2, <2>2 DEF Accounted
  <2>3. client[<<k, h>>] = "open"
    BY <1>1, <1>3
  <2>4. <<k, h>> \in abandoned => Accounted(k, h)'
    BY <1>3 DEF Accounted
  <2>5. field[k] = h => Accounted(k, h)'
    BY <1>1, <1>3, <1>4, <1>5, CallComponents, UnassignedSteps, <2>2, Components DEF Generations,
        Accounted, CallShape, OpenShape, SwapShape, TargetIsOpen
  <2>6. call[a].target = h => Accounted(k, h)'
    <3>1. ASSUME call[a].target = h PROVE Accounted(k, h)'
      <4>1. <<k, h>> \in Range(call[a].todo)
        BY <1>1, <1>5, <2>3, <3>1, Components DEF TargetIsOpen, Generations
      <4> QED BY <1>1, <4>1, UnassignedSteps
    <3> QED BY <3>1
  <2>7. <<k, h>> \in Range(call[a].todo) => Accounted(k, h)'
    BY <1>1, <1>3, <1>4, <1>5, CallComponents, UnassignedSteps, UnassignedSteps
  <2>8. <<k, h>> \in abandoned => Accounted(k, h)'
    BY <1>3 DEF Accounted
  <2>9. Accounted(k, h) => Accounted(k, h)'
    BY <2>2, <2>5, <2>6, <2>7, <2>8 DEF Accounted
  <2> QED BY <2>1, <2>3, <2>4, <2>9
<1>10. OpenIsWhole'
  <2>1. (IsOpen => \A k \in {"consumer", "producer"} :
                        field[k] # 0 /\ client[<<k, field[k]>>] = "open")'
    BY <1>1, <1>3, <1>4, <1>5, CallComponents, UnassignedSteps, Components DEF OpenIsWhole,
        ClosingIsUnused, TargetIsOpen, OpenShape, SwapShape, CallShape, IsOpen
  <2>2. (IsOpen /\ TransactionEnabled => /\ field["bridge"] # 0
                                          /\ client[<<"bridge", field["bridge"]>>] = "open")'
    BY <1>1, <1>3, <1>4, <1>5, CallComponents, UnassignedSteps, Components DEF OpenIsWhole,
        ClosingIsUnused, TargetIsOpen, OpenShape, SwapShape, CallShape, IsOpen
  <2>3. (IsOpen /\ lock = NoAdmin => \A f \in Fields :
                field[f] = field["probe"] \/ (f = "bridge" /\ ~TransactionEnabled))'
    BY <1>1, <1>3, <1>4, <1>5, CallComponents, UnassignedSteps, Components DEF OpenIsWhole,
        ClosingIsUnused, TargetIsOpen, OpenShape, SwapShape, CallShape, IsOpen, Holds, NoFields,
        Fields, Kinds, Generations
  <2> QED BY <2>1, <2>2, <2>3 DEF OpenIsWhole
<1>11. RotationHandsOver'
  BY <1>1, <1>3, <1>4, <1>5, CallComponents, UnassignedSteps, <1>2, Components
      DEF RotationHandsOver, Unfenced, SwapShape, OpenShape, CallShape, InProgress, IsOpen, Holds,
      Fields, Kinds
<1> QED BY <1>2, <1>6, <1>7, <1>8, <1>9, <1>10, <1>11, Assembled


\* CloseRaises keeps the invariant.
LEMMA CloseRaisesKeeps ==
    ASSUME TypeOK, LifecycleInv, NEW a \in Admins, CloseRaises(a)
    PROVE  LifecycleInv'
<1>1. /\ call[a].pc = "closing"
      /\ call'[a].operation = "none"
      /\ call'[a].pc = "idle"
      /\ call'[a].target = 0
      /\ call'[a].todo = <<>>
      /\ call'[a].next = <<>>
  BY Components DEF CloseRaises, Returns, Idle
<1>2. \A b \in Admins : b # a => call'[b] = call[b]
  BY DEF CloseRaises, Returns, Idle
<1>3. /\ abandoned' = abandoned \cup Range(call[a].todo)
      /\ lock' = IF lock = a THEN NoAdmin ELSE lock
      /\ UNCHANGED <<opened, closed, field, client, fenced, generation, disturbed>>
  BY DEF CloseRaises, TypeOK, Call, Returns, Idle, runtime, clients
<1>4. AdminInv(a) /\ RuntimeShape /\ ClientsAccountedFor /\ OpenIsWhole /\ RotationHandsOver
  BY DEF LifecycleInv
<1>5. /\ CallShape(a) /\ Unshared(a) /\ TargetIsOpen(a) /\ ClosingIsUnused(a)
      /\ OpenShape(a) /\ SwapShape(a) /\ Unfenced(a)
  BY <1>4 DEF AdminInv
<1>6. ASSUME NEW b \in Admins, b # a PROVE AdminInv(b)' /\ Exclusive(a, b)' /\ Exclusive(b, a)'
  <2>1. call'[b] = call[b]
    BY <1>2, <1>6
  <2>2. AdminInv(b) /\ Exclusive(a, b) /\ Exclusive(b, a)
    BY <1>6 DEF LifecycleInv
  <2>3. /\ CallShape(b) /\ Unshared(b) /\ TargetIsOpen(b) /\ ClosingIsUnused(b)
        /\ OpenShape(b) /\ SwapShape(b) /\ Unfenced(b)
    BY <2>2 DEF AdminInv
  <2>4. lock' = b <=> lock = b
    BY <1>3, <1>6 DEF CallShape
  <2>5. AdminInv(b)'
    BY <1>3, <2>1, <2>2, <2>4, OthersStand
  <2>6. Exclusive(a, b)'
    BY <1>1, <1>3, <1>4 DEF Exclusive, CallShape, Unshared
  <2>7. Exclusive(b, a)'
    BY <1>1, <1>3, <1>4, <1>5, CallComponents, UnassignedSteps DEF Exclusive, CallShape, Unshared
  <2> QED BY <2>4, <2>5, <2>6, <2>7 DEF AdminInv
<1>7. AdminInv(a)'
  <2>1. CallShape(a)'
    BY <1>1, <1>3, <1>4, <1>5, CallComponents, UnassignedSteps, Components DEF CallShape,
        RuntimeShape
  <2>2. Unshared(a)'
    BY <1>1, <1>3, <1>4, <1>5, CallComponents, UnassignedSteps, Components DEF Unshared
  <2>3. TargetIsOpen(a)'
    BY <1>1, <1>3, <1>4, <1>5, CallComponents, UnassignedSteps, Components DEF TargetIsOpen
  <2>4. ClosingIsUnused(a)'
    BY <1>1, <1>3, <1>4, <1>5, CallComponents, UnassignedSteps, Components DEF ClosingIsUnused,
        CallShape, Unshared
  <2>5. OpenShape(a)'
    BY <1>1, <1>3, <1>4, <1>5, CallComponents, UnassignedSteps, Components DEF OpenShape
  <2>6. SwapShape(a)'
    BY <1>1, <1>3, <1>4, <1>5, CallComponents, UnassignedSteps, Components DEF SwapShape
  <2>7. Unfenced(a)'
    BY <1>1, <1>3, <1>4, <1>5, CallComponents, UnassignedSteps, Components DEF Unfenced,
        CallShape, InProgress, RuntimeShape
  <2> QED BY <2>1, <2>2, <2>3, <2>4, <2>5, <2>6, <2>7 DEF AdminInv
<1>8. RuntimeShape'
  <2>1. (lock = NoAdmin /\ ~opened => field = NoFields)'
    BY <1>1, <1>3, <1>4, <1>5, CallComponents, UnassignedSteps DEF RuntimeShape, OpenShape,
        CallShape
  <2>2. (\A k \in Kinds, h \in Generations : h > generation => client[<<k, h>>] = "none")'
    BY <1>3, <1>4, <1>5, CallComponents, UnassignedSteps, Components DEF RuntimeShape
  <2>5. (~TransactionEnabled => \A h \in Generations : client[<<"bridge", h>>] # "open")'
    BY <1>1, <1>3, <1>4 DEF RuntimeShape, Kinds
  <2>6. (\A f \in Fields : field[f] <= generation)'
    BY <1>3, <1>4, <1>5, CallComponents, UnassignedSteps, Components DEF RuntimeShape
  <2>3. (\A h \in fenced : h <= generation)'
    BY <1>3, <1>4, <1>5, CallComponents, UnassignedSteps, Components DEF RuntimeShape
  <2>4. (~disturbed => \A b, e \in Admins : InProgress(b) /\ InProgress(e) => b = e)'
    BY <1>1, <1>3, <1>4, <1>5, CallComponents, UnassignedSteps, <1>2 DEF RuntimeShape, InProgress,
        CallShape
  <2> QED BY <2>1, <2>2, <2>3, <2>4, <2>5, <2>6 DEF RuntimeShape
<1>9. ClientsAccountedFor'
  <2> SUFFICES ASSUME NEW k \in Kinds, NEW h \in Generations, client'[<<k, h>>] = "open"
               PROVE  Accounted(k, h)'
    BY DEF ClientsAccountedFor, Accounted
  <2>1. client[<<k, h>>] = "open" => Accounted(k, h)
    BY <1>4 DEF ClientsAccountedFor, Accounted
  <2>2. ASSUME NEW e \in Admins, e # a, call[e].target = h \/ <<k, h>> \in Range(call[e].todo)
        PROVE  Accounted(k, h)'
    BY <1>2, <2>2 DEF Accounted
  <2>3. client[<<k, h>>] = "open"
    BY <1>1, <1>3
  <2>4. <<k, h>> \in abandoned => Accounted(k, h)'
    BY <1>3 DEF Accounted
  <2>5. field[k] = h => Accounted(k, h)'
    BY <1>1, <1>3, <1>4, <1>5, CallComponents, UnassignedSteps, <2>2, Components DEF Generations,
        Accounted, CallShape, OpenShape, SwapShape, TargetIsOpen
  <2>6. call[a].target = h => Accounted(k, h)'
    <3>1. ASSUME call[a].target = h PROVE Accounted(k, h)'
      <4>1. <<k, h>> \in Range(call[a].todo)
        BY <1>1, <1>5, <2>3, <3>1, Components DEF TargetIsOpen, Generations
      <4> QED BY <1>3, <4>1 DEF Accounted
    <3> QED BY <3>1
  <2>7. <<k, h>> \in Range(call[a].todo) => Accounted(k, h)'
    BY <1>1, <1>3, <1>4, <1>5, CallComponents, UnassignedSteps, UnassignedSteps, Components
        DEF Generations, Accounted, CallShape, OpenShape, SwapShape, TargetIsOpen
  <2>8. <<k, h>> \in abandoned => Accounted(k, h)'
    BY <1>3 DEF Accounted
  <2>9. Accounted(k, h) => Accounted(k, h)'
    BY <2>2, <2>5, <2>6, <2>7, <2>8 DEF Accounted
  <2> QED BY <2>1, <2>3, <2>4, <2>9
<1>10. OpenIsWhole'
  <2>1. (IsOpen => \A k \in {"consumer", "producer"} :
                        field[k] # 0 /\ client[<<k, field[k]>>] = "open")'
    BY <1>1, <1>3, <1>4, <1>5, CallComponents, UnassignedSteps, Components DEF OpenIsWhole,
        ClosingIsUnused, TargetIsOpen, OpenShape, SwapShape, CallShape, IsOpen
  <2>2. (IsOpen /\ TransactionEnabled => /\ field["bridge"] # 0
                                          /\ client[<<"bridge", field["bridge"]>>] = "open")'
    BY <1>1, <1>3, <1>4, <1>5, CallComponents, UnassignedSteps, Components DEF OpenIsWhole,
        ClosingIsUnused, TargetIsOpen, OpenShape, SwapShape, CallShape, IsOpen
  <2>3. (IsOpen /\ lock = NoAdmin => \A f \in Fields :
                field[f] = field["probe"] \/ (f = "bridge" /\ ~TransactionEnabled))'
    BY <1>1, <1>3, <1>4, <1>5, CallComponents, UnassignedSteps, Components DEF OpenIsWhole,
        ClosingIsUnused, TargetIsOpen, OpenShape, SwapShape, CallShape, IsOpen, Holds, NoFields,
        Fields, Kinds, Generations
  <2> QED BY <2>1, <2>2, <2>3 DEF OpenIsWhole
<1>11. RotationHandsOver'
  BY <1>1, <1>3, <1>4, <1>5, CallComponents, UnassignedSteps, <1>2, Components
      DEF RotationHandsOver, Unfenced, SwapShape, OpenShape, CallShape, InProgress, IsOpen, Holds,
      Fields, Kinds
<1> QED BY <1>2, <1>6, <1>7, <1>8, <1>9, <1>10, <1>11, Assembled

-----------------------------------------------------------------------------
(* The theorems.                                                           *)

\* The invariant holds before the first call.
LEMMA InitLifecycle == Init => LifecycleInv
<1> SUFFICES ASSUME Init PROVE LifecycleInv
  OBVIOUS
<1>1. \A a \in Admins : /\ call[a].operation = "none" /\ call[a].pc = "idle"
                        /\ call[a].target = 0 /\ call[a].todo = <<>> /\ call[a].next = <<>>
  BY DEF Init, Idle
<1>2. Range(<<>>) = {}
  BY UnassignedSteps
<1>3. /\ ~opened /\ ~closed /\ lock = NoAdmin /\ generation = 0 /\ fenced = {}
      /\ field = NoFields /\ \A f \in Fields : field[f] = 0
      /\ \A k \in Kinds, g \in Generations : client[<<k, g>>] = "none"
  BY DEF Init, NoFields
<1>4. \A a \in Admins : AdminInv(a)
  BY <1>1, <1>2, <1>3 DEF AdminInv, CallShape, Unshared, TargetIsOpen, ClosingIsUnused,
                          OpenShape, SwapShape, Unfenced, InProgress
<1>5. \A a, b \in Admins : Exclusive(a, b)
  BY <1>1 DEF Exclusive
<1>6. RuntimeShape
  BY <1>1, <1>3 DEF RuntimeShape, InProgress, Kinds
<1>7. ClientsAccountedFor
  BY <1>3 DEF ClientsAccountedFor
<1>8. OpenIsWhole /\ RotationHandsOver
  BY <1>3 DEF OpenIsWhole, RotationHandsOver, IsOpen
<1> QED BY <1>4, <1>5, <1>6, <1>7, <1>8 DEF LifecycleInv

\* Every step keeps the invariant; the steps of a session do not touch what it is
\* about.
LEMMA NextLifecycle == TypeOK /\ LifecycleInv /\ [Next]_vars => LifecycleInv'
<1> SUFFICES ASSUME TypeOK, LifecycleInv, [Next]_vars PROVE LifecycleInv'
  OBVIOUS
<1>1. ASSUME NEW a \in Admins, AdminStep(a) PROVE LifecycleInv'
  <2>1. CASE OpenReturns(a)
    BY <2>1, OpenReturnsOpenKeeps, OpenReturnsRotateKeeps DEF OpenReturns
  <2>2. CASE OpenRaises(a)
    <3>1. call[a].operation \in {"open", "rotate"}
      <4>1. CallShape(a)
        BY DEF LifecycleInv, AdminInv
      <4>2. call[a].pc \in {"probing", "initialising"}
        BY <2>2 DEF OpenRaises
      <4> QED BY <4>1, <4>2, CallComponents DEF CallShape
    <3> QED BY <2>2, <3>1, OpenRaisesOpenKeeps, OpenRaisesRotateKeeps
  <2> QED BY <1>1, <2>1, <2>2, OpenBeginKeeps, RotateBeginKeeps, OpenProbeKeeps,
             RotateProbeKeeps, RotateProbeRaisesKeeps, RotateRefusedKeeps, RotateSwapKeeps,
             RotateAssignKeeps, RotateReleaseKeeps, CloseBeginKeeps, CloseOneKeeps,
             CloseReturnsKeeps, CloseRaisesKeeps DEF AdminStep
<1>2. CASE UNCHANGED <<runtime, clients, call, history>>
  BY <1>2 DEF LifecycleInv, AdminInv, CallShape, Unshared, TargetIsOpen, ClosingIsUnused,
              OpenShape, SwapShape, Unfenced, Exclusive, RuntimeShape, ClientsAccountedFor,
              OpenIsWhole, RotationHandsOver, InProgress, IsOpen, Holds,
              runtime, clients, history
<1>3. ASSUME NEW s \in Sessions, SessionStep(s) PROVE UNCHANGED <<runtime, clients, call, history>>
  BY <1>3 DEF SessionStep, ExecuteBegin, Dispatch, Publish, PublishRaises, Answer
<1> QED BY <1>1, <1>2, <1>3 DEF Next, vars

\* The invariant holds throughout.
LEMMA Lifecycle == Spec => []LifecycleInv
BY TypeCorrect, InitLifecycle, NextLifecycle, PTL DEF Spec

\* Whatever fails, and however calls of open, rotate_credentials and close overlap,
\* an open client is in a field, belongs to a call in progress or was abandoned by a
\* close that raised or a rotation that was refused: no other way leaks one.
THEOREM NoClientLost == Spec => []ClientsAccountedFor
<1>1. LifecycleInv => ClientsAccountedFor
  BY DEF LifecycleInv
<1> QED BY <1>1, Lifecycle, PTL

\* An open runtime refers to clients that are open, also in the middle of a swap and
\* while the clients of an earlier rotation are closed outside the lock; with the
\* lock free they are of one generation.
THEOREM OpenRuntimeIsWhole == Spec => []OpenIsWhole
<1>1. LifecycleInv => OpenIsWhole
  BY DEF LifecycleInv
<1> QED BY <1>1, Lifecycle, PTL

\* Rotations that do not overlap and end in a swap hand the transactional id over:
\* the bridge in the field is the one nobody has fenced.
THEOREM RotationsHandOver == Spec => []RotationHandsOver
<1>1. LifecycleInv => RotationHandsOver
  BY DEF LifecycleInv
<1> QED BY <1>1, Lifecycle, PTL

=============================================================================
