------------------------ MODULE ProducerEngineProofs ------------------------
(***************************************************************************)
(* Proofs about ProducerEngine: its types, that a receipt names the Event  *)
(* it was given for, and that a key whose publishes neither failed nor     *)
(* overlapped, and that the cache can still know, is produced once.        *)
(***************************************************************************)
EXTENDS ProducerEngine, SequenceTheorems, TLAPS

USE ProducerAssumption

-----------------------------------------------------------------------------
(* Why ReceiptsNameTheirEvents holds.                                      *)

\* The record at offset o is the Event e; one produced outside a transaction is
\* visible to readers.
Names(o, e, w) ==
    /\ o \in 1 .. Len(log)
    /\ log[o].event = e
    /\ w = "plain" => log[o].state = "committed"

CacheNames ==
    \A i \in 1 .. Len(cache) :
        /\ Len(cache[i].result) = Len(cache[i].data)
        /\ \A n \in 1 .. Len(cache[i].data) : Names(cache[i].result[n], cache[i].data[n], "plain")

\* A publish has a number of its own, its deliveries name its Events in their order,
\* and it is stored with all of them reported.
CallShape(c) ==
    call[c].pc # "idle" =>
        /\ call[c].data \in Batches
        /\ call[c].number <= number
        /\ \A e \in Callers : call[e].pc # "idle" /\ call[e].number = call[c].number => e = c
        /\ IF call[c].pc = "produce" THEN Len(call[c].deliveries) < Len(call[c].data)
           ELSE Len(call[c].deliveries) = Len(call[c].data)
        /\ \A i \in 1 .. Len(call[c].deliveries) : call[c].deliveries[i] > 0 =>
                Names(call[c].deliveries[i], call[c].data[i], call[c].via)
        /\ call[c].pc = "store" => UsesCache(call[c].key, call[c].via) /\ Delivered(c)

\* A message in the queue of w belongs to a publish that has raised, or to one in
\* progress, which waits for its report.
MessageShape(w, m) ==
    /\ m.number <= number
    /\ m.offset # 0 => Names(m.offset, m.event, w)
    /\ \A c \in Callers : call[c].pc # "idle" /\ call[c].number = m.number =>
            /\ call[c].via = w
            /\ call[c].pc # "store"
            /\ m.index \in 1 .. Len(call[c].deliveries)
            /\ call[c].data[m.index] = m.event

QueueShape == \A w \in Producers : \A i \in 1 .. Len(queue[w]) : MessageShape(w, queue[w][i])

NamesInv ==
    /\ CacheNames
    /\ \A c \in Callers : CallShape(c)
    /\ QueueShape
    /\ ReceiptsNameTheirEvents

-----------------------------------------------------------------------------
(* Why PublishedOnce holds.                                                *)

\* The cache holds the keys used last, in the order of their use.
Horizon ==
    /\ IsInjective(used)
    /\ Len(cache) = IF Len(used) < MaxEntries THEN Len(used) ELSE MaxEntries
    /\ \A i \in 1 .. Len(cache) : cache[i].key = used[Len(used) - Len(cache) + i]

\* c publishes under k outside a transaction.
Publishes(c, k) == call[c].pc # "idle" /\ call[c].key = k /\ call[c].via = "plain"

\* A record of the log, or a message that is not yet one, under k.
Logged(i, k) == log[i].key = k /\ log[i].via = "plain"
Waiting(i, k) == queue["plain"][i].key = k /\ queue["plain"][i].offset = 0

\* The Event e has been produced under k.
Produced(e, k) ==
    \/ \E i \in 1 .. Len(log) : Logged(i, k) /\ log[i].event = e
    \/ \E i \in 1 .. Len(queue["plain"]) : Waiting(i, k) /\ queue["plain"][i].event = e

\* A key without an excuse has had one publish: it is in progress and has produced
\* what it has deliveries for, or it has been stored.
OnePublish(k) ==
    /\ \A c, e \in Callers : Publishes(c, k) /\ Publishes(e, k) => c = e
    /\ \A c \in Callers : Publishes(c, k) => k \notin Range(used)
    /\ \A e \in Events : Produced(e, k) =>
            \/ k \in Range(used)
            \/ \E c \in Callers : /\ Publishes(c, k)
                                  /\ \E i \in 1 .. Len(call[c].deliveries) : call[c].data[i] = e

\* And no Event of it is in the log and the queue twice.
OneRecord(k) ==
    /\ \A i, j \in 1 .. Len(log) :
            Logged(i, k) /\ Logged(j, k) /\ log[i].event = log[j].event => i = j
    /\ \A i, j \in 1 .. Len(queue["plain"]) :
            Waiting(i, k) /\ Waiting(j, k) /\ queue["plain"][i].event = queue["plain"][j].event
                => i = j
    /\ \A i \in 1 .. Len(log), j \in 1 .. Len(queue["plain"]) :
            Logged(i, k) /\ Waiting(j, k) => log[i].event # queue["plain"][j].event

OnceInv == Horizon /\ \A k \in Keys \ excused : OnePublish(k) /\ OneRecord(k)

LogRecords ==
    [event : Events, key : Keys \cup {NoKey}, via : Producers,
     state : {"open", "committed", "aborted"}]

CacheEntries == [key : Keys, data : Batches, result : Seq(Nat)]

Receipts == [event : Events, offset : Nat, via : Producers]

-----------------------------------------------------------------------------
(* The operators.                                                          *)

\* Without takes one element out, if there is a position to take it from.
LEMMA WithoutProperties ==
    ASSUME NEW T, NEW s \in Seq(T), NEW S, S \subseteq 1 .. Len(s)
    PROVE  /\ Without(s, S) \in Seq(T)
           /\ S = {} => Without(s, S) = s
           /\ \A p : p = (CHOOSE i \in S : TRUE) /\ S # {} =>
                /\ p \in S /\ p \in 1 .. Len(s)
                /\ Len(Without(s, S)) = Len(s) - 1
                /\ \A i \in 1 .. Len(s) - 1 :
                        Without(s, S)[i] = IF i < p THEN s[i] ELSE s[i + 1]
<1>1. Len(s) \in Nat /\ \A i \in 1 .. Len(s) : s[i] \in T
  BY LenProperties, ElementOfSeq
<1>2. CASE S = {}
  BY <1>2 DEF Without
<1>3. CASE S # {}
  <2> DEFINE p == CHOOSE i \in S : TRUE
             u == SubSeq(s, 1, p - 1)
             v == SubSeq(s, p + 1, Len(s))
  <2>1. p \in S /\ p \in 1 .. Len(s)
    BY <1>3
  <2>2. p \in Int /\ p - 1 \in Int /\ p + 1 \in Int /\ 1 <= p /\ p <= Len(s)
    BY <1>1, <2>1
  <2>3. Without(s, S) = u \o v
    BY <1>3 DEF Without, RemoveAt
  <2> HIDE DEF p
  <2>4. /\ u \in Seq(T)
        /\ Len(u) = p - 1
        /\ \A i \in 1 .. p - 1 : u[i] = s[i]
    <3>1. \A i \in 1 .. p - 1 : s[i] \in T
      BY <1>1, <2>2
    <3>2. /\ SubSeq(s, 1, p - 1) \in Seq(T)
          /\ Len(SubSeq(s, 1, p - 1)) = IF 1 <= p - 1 THEN (p - 1) - 1 + 1 ELSE 0
          /\ \A i \in 1 .. (p - 1) - 1 + 1 : SubSeq(s, 1, p - 1)[i] = s[1 + i - 1]
      BY <2>2, <3>1, SubSeqProperties
    <3> QED BY <2>2, <3>2
  <2>5. /\ v \in Seq(T)
        /\ Len(v) = Len(s) - p
        /\ \A i \in 1 .. Len(s) - p : v[i] = s[p + i]
    <3>1. \A i \in p + 1 .. Len(s) : s[i] \in T
      BY <1>1, <2>2
    <3>2. /\ SubSeq(s, p + 1, Len(s)) \in Seq(T)
          /\ Len(SubSeq(s, p + 1, Len(s))) = IF p + 1 <= Len(s) THEN Len(s) - (p + 1) + 1 ELSE 0
          /\ \A i \in 1 .. Len(s) - (p + 1) + 1 : SubSeq(s, p + 1, Len(s))[i] = s[p + 1 + i - 1]
      BY <1>1, <2>2, <3>1, SubSeqProperties
    <3> QED BY <1>1, <2>2, <3>2
  <2> HIDE DEF u, v
  <2>6. /\ u \o v \in Seq(T)
        /\ Len(u \o v) = Len(u) + Len(v)
        /\ \A i \in 1 .. Len(u) + Len(v) : (u \o v)[i] = IF i <= Len(u) THEN u[i] ELSE v[i - Len(u)]
    BY <2>4, <2>5, ConcatProperties
  <2>7. ASSUME NEW i \in 1 .. Len(s) - 1
        PROVE  (u \o v)[i] = IF i < p THEN s[i] ELSE s[i + 1]
    <3>1. CASE i < p
      BY <1>1, <2>2, <2>4, <2>5, <2>6, <3>1
    <3>2. CASE ~(i < p)
      <4>1. i \in 1 .. Len(u) + Len(v) /\ ~(i <= Len(u)) /\ i - Len(u) \in 1 .. Len(s) - p
        BY <1>1, <2>2, <2>4, <2>5, <3>2
      <4>2. (u \o v)[i] = v[i - Len(u)] /\ v[i - Len(u)] = s[p + (i - Len(u))]
        BY <2>5, <2>6, <4>1
      <4>3. p + (i - Len(u)) = i + 1
        BY <2>2, <2>4
      <4> QED BY <3>2, <4>2, <4>3
    <3> QED BY <3>1, <3>2
  <2>8. Len(u \o v) = Len(s) - 1
    BY <1>1, <2>2, <2>4, <2>5, <2>6
  <2> QED BY <1>3, <2>1, <2>3, <2>6, <2>7, <2>8 DEF p
<1> QED BY <1>2, <1>3

\* Nothing of Without is new.
LEMMA WithoutElements ==
    ASSUME NEW T, NEW s \in Seq(T), NEW S, S \subseteq 1 .. Len(s)
    PROVE  /\ Len(Without(s, S)) \in Nat /\ Len(Without(s, S)) <= Len(s)
           /\ \A i \in 1 .. Len(Without(s, S)) :
                \E j \in 1 .. Len(s) : Without(s, S)[i] = s[j]
<1>1. Len(s) \in Nat
  BY LenProperties
<1>2. CASE S = {}
  BY <1>1, <1>2, WithoutProperties
<1>3. CASE S # {}
  <2> DEFINE q == CHOOSE i \in S : TRUE
  <2>1. \A p : p = q /\ S # {} =>
                /\ p \in S /\ p \in 1 .. Len(s)
                /\ Len(Without(s, S)) = Len(s) - 1
                /\ \A i \in 1 .. Len(s) - 1 :
                        Without(s, S)[i] = IF i < p THEN s[i] ELSE s[i + 1]
    BY WithoutProperties
  <2> HIDE DEF q
  <2> DEFINE p == q
  <2>2. /\ p \in 1 .. Len(s)
        /\ Len(Without(s, S)) = Len(s) - 1
        /\ \A i \in 1 .. Len(s) - 1 : Without(s, S)[i] = IF i < p THEN s[i] ELSE s[i + 1]
    BY <1>3, <2>1
  <2>3. ASSUME NEW i \in 1 .. Len(Without(s, S))
        PROVE  \E j \in 1 .. Len(s) : Without(s, S)[i] = s[j]
    <3>1. i \in 1 .. Len(s) /\ i + 1 \in 1 .. Len(s) /\ i \in 1 .. Len(s) - 1
      BY <1>1, <2>2
    <3> QED BY <2>2, <3>1
  <2> QED BY <1>1, <2>2, <2>3
<1> QED BY <1>2, <1>3

\* The cache after Stored: the new entry and entries it had.
LEMMA StoredProperties ==
    ASSUME cache \in Seq(CacheEntries), NEW e \in CacheEntries
    PROVE  /\ Stored(e) \in Seq(CacheEntries)
           /\ Len(Stored(e)) <= MaxEntries
           /\ \A i \in 1 .. Len(Stored(e)) :
                Stored(e)[i] = e \/ \E j \in 1 .. Len(cache) : Stored(e)[i] = cache[j]
<1> DEFINE r == Without(cache, Entries(e.key))
           s == Append(r, e)
           f == (IF Len(s) > MaxEntries THEN Len(s) - MaxEntries ELSE 0) + 1
<1>1. Entries(e.key) \subseteq 1 .. Len(cache)
  BY DEF Entries
<1>2. /\ r \in Seq(CacheEntries)
      /\ Len(r) \in Nat
      /\ \A i \in 1 .. Len(r) : \E j \in 1 .. Len(cache) : r[i] = cache[j]
  BY <1>1, WithoutProperties, WithoutElements
<1> HIDE DEF r
<1>3. /\ s \in Seq(CacheEntries)
      /\ Len(s) = Len(r) + 1
      /\ \A i \in 1 .. Len(r) : s[i] = r[i]
      /\ s[Len(r) + 1] = e
  BY <1>2, AppendProperties
<1>4. Stored(e) = SubSeq(s, f, Len(s))
  BY DEF Stored, r
<1> HIDE DEF s
<1>5. /\ f \in Int /\ Len(s) \in Int /\ 1 <= f /\ f <= Len(s)
      /\ Len(s) - f + 1 <= MaxEntries
  BY <1>2, <1>3
<1> HIDE DEF f
<1>6. \A i \in f .. Len(s) : s[i] \in CacheEntries
  BY <1>3, <1>5, ElementOfSeq
<1>7. /\ SubSeq(s, f, Len(s)) \in Seq(CacheEntries)
      /\ Len(SubSeq(s, f, Len(s))) = IF f <= Len(s) THEN Len(s) - f + 1 ELSE 0
      /\ \A i \in 1 .. Len(s) - f + 1 : SubSeq(s, f, Len(s))[i] = s[f + i - 1]
  BY <1>5, <1>6, SubSeqProperties
<1>8. ASSUME NEW i \in 1 .. Len(Stored(e))
      PROVE  Stored(e)[i] = e \/ \E j \in 1 .. Len(cache) : Stored(e)[i] = cache[j]
  <2>1. f + i - 1 \in 1 .. Len(s) /\ Stored(e)[i] = s[f + i - 1]
    BY <1>4, <1>5, <1>7
  <2>2. CASE f + i - 1 = Len(s)
    BY <1>2, <1>3, <2>1, <2>2
  <2>3. CASE f + i - 1 # Len(s)
    <3>1. f + i - 1 \in 1 .. Len(r)
      BY <1>2, <1>3, <1>5, <2>1, <2>3
    <3> QED BY <1>2, <1>3, <2>1, <3>1
  <2> QED BY <2>2, <2>3
<1> QED BY <1>4, <1>5, <1>7, <1>8

\* move_to_end keeps the entries.
LEMMA MoveToEndProperties ==
    ASSUME cache \in Seq(CacheEntries), NEW k, Entries(k) # {}
    PROVE  /\ MoveToEnd(k) \in Seq(CacheEntries)
           /\ Len(MoveToEnd(k)) = Len(cache)
           /\ \A i \in 1 .. Len(MoveToEnd(k)) :
                \E j \in 1 .. Len(cache) : MoveToEnd(k)[i] = cache[j]
<1>1. PICK p : p = CHOOSE i \in Entries(k) : TRUE
  OBVIOUS
<1>2. Entries(k) \subseteq 1 .. Len(cache) /\ Len(cache) \in Nat
  BY LenProperties DEF Entries
<1> DEFINE r == Without(cache, Entries(k))
<1>3. /\ r \in Seq(CacheEntries)
      /\ p \in 1 .. Len(cache)
      /\ Len(r) = Len(cache) - 1
      /\ \A i \in 1 .. Len(r) : \E j \in 1 .. Len(cache) : r[i] = cache[j]
  BY <1>1, <1>2, WithoutProperties, WithoutElements
<1>4. MoveToEnd(k) = Append(r, cache[p])
  BY <1>1 DEF MoveToEnd
<1>5. cache[p] \in CacheEntries
  BY <1>3, ElementOfSeq
<1> HIDE DEF r
<1>6. /\ Append(r, cache[p]) \in Seq(CacheEntries)
      /\ Len(Append(r, cache[p])) = Len(r) + 1
      /\ \A i \in 1 .. Len(r) : Append(r, cache[p])[i] = r[i]
      /\ Append(r, cache[p])[Len(r) + 1] = cache[p]
  BY <1>3, <1>5, AppendProperties
<1>7. ASSUME NEW i \in 1 .. Len(MoveToEnd(k))
      PROVE  \E j \in 1 .. Len(cache) : MoveToEnd(k)[i] = cache[j]
  <2>1. i = Len(r) + 1 \/ i \in 1 .. Len(r)
    BY <1>2, <1>3, <1>4, <1>6
  <2> QED BY <1>3, <1>4, <1>6, <2>1
<1>8. Len(MoveToEnd(k)) = Len(cache)
  BY <1>2, <1>3, <1>4, <1>6
<1> QED BY <1>4, <1>6, <1>7, <1>8

\* The keys used, with k moved to the end.
LEMMA UseProperties ==
    ASSUME used \in Seq(Keys), NEW k \in Keys
    PROVE  Use(k) \in Seq(Keys)
<1> DEFINE S == {i \in 1 .. Len(used) : used[i] = k}
<1>1. Without(used, S) \in Seq(Keys)
  BY WithoutProperties
<1> QED BY <1>1, AppendProperties DEF Use

-----------------------------------------------------------------------------
(* Types.                                                                  *)

\* The components of the state, typed one by one.
LEMMA Components ==
    ASSUME TypeOK
    PROVE  /\ log \in Seq(LogRecords) /\ Len(log) \in Nat
           /\ queue \in [Producers -> Seq(Message)]
           /\ \A w \in Producers : /\ queue[w] \in Seq(Message) /\ Len(queue[w]) \in Nat
                                   /\ Len(queue[w]) <= QueueLimit
           /\ cache \in Seq(CacheEntries) /\ Len(cache) \in Nat /\ Len(cache) <= MaxEntries
           /\ call \in [Callers -> Call] /\ number \in Nat
           /\ \A c \in Callers : call[c] \in Call
           /\ used \in Seq(Keys) /\ excused \subseteq Keys /\ receipts \subseteq Receipts
<1>1. \A w \in Producers : Len(queue[w]) \in Nat
  BY LenProperties DEF TypeOK
<1>2. Len(log) \in Nat /\ Len(cache) \in Nat
  BY LenProperties DEF TypeOK
<1> QED BY <1>1, <1>2 DEF TypeOK, LogRecords, CacheEntries, Receipts

\* The initial state is of the right type.
LEMMA InitType == Init => TypeOK
<1> SUFFICES ASSUME Init PROVE TypeOK
  OBVIOUS
<1>1. \A T : <<>> \in Seq(T) /\ Len(<<>>) = 0
  OBVIOUS
<1>2. Idle \in Call
  BY <1>1 DEF Idle, Call, Producers
<1>3. \A w \in Producers : queue[w] = <<>>
  BY DEF Init
<1>4. \A w \in Producers : Len(queue[w]) <= QueueLimit
  BY <1>1, <1>3
<1>5. Len(cache) <= MaxEntries
  BY <1>1 DEF Init
<1>6. queue \in [Producers -> Seq(Message)] /\ call \in [Callers -> Call]
  BY <1>1, <1>2 DEF Init
<1> QED BY <1>1, <1>4, <1>5, <1>6 DEF Init, TypeOK

\* What a publish that is to be stored, or has ended, has: all offsets.
LEMMA DeliveredOffsets ==
    ASSUME TypeOK, NEW c \in Callers, CallShape(c), call[c].pc \in {"flush", "store"},
           Delivered(c)
    PROVE  /\ call[c].data \in Batches /\ call[c].data \in Seq(Events)
           /\ call[c].deliveries \in Seq(Nat)
           /\ Len(call[c].deliveries) = Len(call[c].data)
           /\ Result(c) \subseteq Receipts
<1>1. call[c] \in Call /\ call[c].deliveries \in Seq(Int)
  BY Components DEF Call
<1>2. /\ call[c].data \in Batches
      /\ Len(call[c].deliveries) = Len(call[c].data)
  BY DEF CallShape
<1>3. call[c].data \in Seq(Events)
  BY <1>2
<1>4. \A i \in 1 .. Len(call[c].deliveries) : call[c].deliveries[i] \in Nat
  <2> TAKE i \in 1 .. Len(call[c].deliveries)
  <2>1. call[c].deliveries[i] \in Int
    BY <1>1, ElementOfSeq
  <2> QED BY <2>1 DEF Delivered
<1>5. call[c].deliveries \in Seq(Nat)
  <2>1. /\ Len(call[c].deliveries) \in Nat
        /\ call[c].deliveries \in [1 .. Len(call[c].deliveries) -> Int]
        /\ DOMAIN call[c].deliveries = 1 .. Len(call[c].deliveries)
    BY <1>1, LenProperties
  <2>2. call[c].deliveries \in [1 .. Len(call[c].deliveries) -> Nat]
    BY <1>4, <2>1
  <2> QED BY <2>1, <2>2, SeqDef
<1>6. Result(c) \subseteq Receipts
  <2> SUFFICES ASSUME NEW i \in 1 .. Len(call[c].data)
               PROVE  [event |-> call[c].data[i], offset |-> call[c].deliveries[i],
                       via |-> call[c].via] \in Receipts
    BY DEF Result
  <2>1. call[c].data[i] \in Events
    BY <1>3, ElementOfSeq
  <2>2. call[c].deliveries[i] \in Nat
    BY <1>2, <1>4
  <2> QED BY <1>1, <2>1, <2>2 DEF Call, Receipts
<1> QED BY <1>2, <1>3, <1>5, <1>6

\* Every step keeps the types.
LEMMA NextType == TypeOK /\ NamesInv /\ [Next]_vars => TypeOK'
<1> SUFFICES ASSUME TypeOK, NamesInv, [Next]_vars PROVE TypeOK'
  OBVIOUS
<1> USE Components
<1>0. Idle \in Call
  <2>1. <<>> \in Seq(Int)
    OBVIOUS
  <2> QED BY <2>1 DEF Idle, Call, Producers
<1>1. ASSUME NEW c \in Callers, PublishCached(c) PROVE TypeOK'
  <2>1. PICK k \in Keys, d \in Batches, w \in Producers :
            \E i \in Entries(k) :
                \/ /\ cache[i].data = d
                   /\ cache' = MoveToEnd(k)
                   /\ used' = Use(k)
                   /\ receipts' = receipts \cup
                         {[event |-> d[n], offset |-> cache[i].result[n], via |-> w] :
                             n \in 1 .. Len(d)}
                \/ /\ cache[i].data # d
                   /\ UNCHANGED <<cache, used, receipts>>
    BY <1>1 DEF PublishCached
  <2>2. PICK i \in Entries(k) :
                \/ /\ cache[i].data = d
                   /\ cache' = MoveToEnd(k)
                   /\ used' = Use(k)
                   /\ receipts' = receipts \cup
                         {[event |-> d[n], offset |-> cache[i].result[n], via |-> w] :
                             n \in 1 .. Len(d)}
                \/ /\ cache[i].data # d
                   /\ UNCHANGED <<cache, used, receipts>>
    BY <2>1
  <2>3. UNCHANGED <<log, queue, call, number, excused>>
    BY <1>1 DEF PublishCached
  <2>4. CASE UNCHANGED <<cache, used, receipts>>
    BY <2>3, <2>4 DEF TypeOK
  <2>5. CASE /\ cache[i].data = d
             /\ cache' = MoveToEnd(k)
             /\ used' = Use(k)
             /\ receipts' = receipts \cup
                   {[event |-> d[n], offset |-> cache[i].result[n], via |-> w] :
                       n \in 1 .. Len(d)}
    <3>1. cache' \in Seq(CacheEntries) /\ Len(cache') = Len(cache)
      BY <2>2, <2>5, MoveToEndProperties
    <3>2. used' \in Seq(Keys)
      BY <2>5, UseProperties
    <3>3. i \in 1 .. Len(cache) /\ cache[i] \in CacheEntries
      BY ElementOfSeq DEF Entries
    <3>4. Len(cache[i].result) = Len(d) /\ cache[i].result \in Seq(Nat) /\ d \in Seq(Events)
      BY <2>5, <3>3 DEF NamesInv, CacheNames, CacheEntries
    <3>5. \A n \in 1 .. Len(d) : d[n] \in Events /\ cache[i].result[n] \in Nat
      BY <3>4, ElementOfSeq
    <3>6. receipts' \subseteq Receipts
      BY <2>5, <3>5 DEF Receipts
    <3>7. Len(cache') <= MaxEntries
      BY <3>1
    <3> QED BY <2>3, <3>1, <3>2, <3>6, <3>7 DEF TypeOK, CacheEntries, Receipts
  <2> QED BY <2>2, <2>4, <2>5
<1>2. ASSUME NEW c \in Callers, PublishBegin(c) PROVE TypeOK'
  <2>1. PICK k \in Keys \cup {NoKey}, d \in Batches, w \in Producers :
            /\ call' = [call EXCEPT ![c] =
                  [pc |-> "produce", key |-> k, data |-> d, via |-> w, number |-> number + 1,
                   deliveries |-> <<>>]]
            /\ excused' = IF k \in Past \/ Busy(k) THEN excused \cup ({k} \ {NoKey})
                          ELSE excused
    BY <1>2 DEF PublishBegin
  <2>2. <<>> \in Seq(Int) /\ number + 1 \in Nat
    OBVIOUS
  <2>3. [pc |-> "produce", key |-> k, data |-> d, via |-> w, number |-> number + 1,
         deliveries |-> <<>>] \in Call
    BY <2>2 DEF Call
  <2>4. call' \in [Callers -> Call] /\ excused' \subseteq Keys
    BY <2>1, <2>3
  <2>5. number' \in Nat /\ UNCHANGED <<log, queue, cache, used, receipts>>
    BY <1>2, <2>2 DEF PublishBegin
  <2> QED BY <2>4, <2>5 DEF TypeOK
<1>3. ASSUME NEW c \in Callers, Raise(c), UNCHANGED queue PROVE TypeOK'
  <2>1. call' \in [Callers -> Call]
    BY <1>0, <1>3 DEF Raise
  <2>2. excused' \subseteq Keys
    BY <1>3 DEF Raise, Call
  <2> QED BY <1>3, <2>1, <2>2 DEF Raise, TypeOK
<1>4. ASSUME NEW c \in Callers, ProduceOne(c) PROVE TypeOK'
  <2> DEFINE w == call[c].via
             i == Len(call[c].deliveries) + 1
             m == [event |-> NextEvent(c), key |-> call[c].key, number |-> call[c].number,
                   index |-> i, offset |-> 0]
  <2>1. /\ call[c].pc = "produce" /\ Len(queue[w]) < QueueLimit
        /\ queue' = [queue EXCEPT ![w] = Append(@, m)]
        /\ call' = [call EXCEPT
              ![c].deliveries = Append(@, 0),
              ![c].pc = IF i = Len(call[c].data) THEN "flush" ELSE "produce"]
        /\ UNCHANGED <<log, cache, number, used, excused, receipts>>
    BY <1>4 DEF ProduceOne
  <2>2. /\ call[c].deliveries \in Seq(Int) /\ w \in Producers
        /\ call[c].key \in Keys \cup {NoKey} /\ call[c].number \in Nat
    BY DEF Call
  <2>3. Len(call[c].deliveries) \in Nat /\ Append(call[c].deliveries, 0) \in Seq(Int)
    BY <2>2, LenProperties, AppendProperties
  <2>4. call[c].data \in Seq(Events) /\ i \in 1 .. Len(call[c].data)
    <3>1. call[c].data \in Batches /\ Len(call[c].deliveries) < Len(call[c].data)
      BY <2>1 DEF NamesInv, CallShape
    <3>2. call[c].data \in Seq(Events)
      BY <3>1
    <3>3. Len(call[c].data) \in Nat
      BY <3>2, LenProperties
    <3> QED BY <2>3, <3>1, <3>2, <3>3
  <2>5. m \in Message
    BY <2>2, <2>3, <2>4, ElementOfSeq DEF Message, NextEvent
  <2> HIDE DEF m, w
  <2>6. Append(queue[w], m) \in Seq(Message) /\ Len(Append(queue[w], m)) <= QueueLimit
    <3>1. /\ Append(queue[w], m) \in Seq(Message)
          /\ Len(Append(queue[w], m)) = Len(queue[w]) + 1
      BY <2>2, <2>5, AppendProperties
    <3>2. Len(queue[w]) \in Nat
      BY <2>2
    <3> QED BY <2>1, <3>1, <3>2
  <2>7. queue' \in [Producers -> Seq(Message)] /\ \A v \in Producers : Len(queue'[v]) <= QueueLimit
    <3>1. queue' = [v \in Producers |-> IF v = w THEN Append(queue[w], m) ELSE queue[v]]
      BY <2>1, <2>2
    <3>2. ASSUME NEW v \in Producers
          PROVE  queue'[v] \in Seq(Message) /\ Len(queue'[v]) <= QueueLimit
      <4>1. CASE v = w
        BY <2>6, <3>1, <4>1
      <4>2. CASE v # w
        BY <3>1, <4>2
      <4> QED BY <4>1, <4>2
    <3> QED BY <3>1, <3>2
  <2>8. call' \in [Callers -> Call]
    <3>1. [call[c] EXCEPT !.deliveries = Append(@, 0),
                          !.pc = IF i = Len(call[c].data) THEN "flush" ELSE "produce"] \in Call
      BY <2>3 DEF Call
    <3>2. call' = [call EXCEPT ![c] = [call[c] EXCEPT
              !.deliveries = Append(@, 0),
              !.pc = IF i = Len(call[c].data) THEN "flush" ELSE "produce"]]
      BY <2>1
    <3> QED BY <3>1, <3>2
  <2> QED BY <2>1, <2>7, <2>8 DEF TypeOK
<1>5. ASSUME NEW c \in Callers, FlushReturns(c) PROVE TypeOK'
  <2>1. Result(c) \subseteq Receipts
    BY <1>5, DeliveredOffsets DEF FlushReturns, NamesInv
  <2>2. call' \in [Callers -> Call] /\ receipts' \subseteq Receipts
    <3>1. [call[c] EXCEPT !.pc = "store"] \in Call
      BY DEF Call
    <3> QED BY <1>0, <1>5, <2>1, <3>1 DEF FlushReturns
  <2> QED BY <1>5, <2>2 DEF FlushReturns, TypeOK, Receipts
<1>6. ASSUME NEW c \in Callers, StoreReceipts(c) PROVE TypeOK'
  <2> DEFINE e == [key |-> call[c].key, data |-> call[c].data, result |-> call[c].deliveries]
  <2>1. call[c].pc = "store" /\ UsesCache(call[c].key, call[c].via) /\ Delivered(c)
    BY <1>6 DEF StoreReceipts, NamesInv, CallShape
  <2>2. /\ call[c].data \in Batches /\ call[c].deliveries \in Seq(Nat)
        /\ Result(c) \subseteq Receipts
    BY <2>1, DeliveredOffsets DEF NamesInv
  <2>3. call[c].key \in Keys
    BY <2>1 DEF UsesCache, Call
  <2>4. e \in CacheEntries
    BY <2>2, <2>3 DEF CacheEntries
  <2>5. cache' = Stored(e) /\ used' = Use(call[c].key)
    BY <1>6 DEF StoreReceipts
  <2> HIDE DEF e
  <2>6. cache' \in Seq(CacheEntries) /\ Len(cache') <= MaxEntries
    BY <2>4, <2>5, StoredProperties
  <2>7. used' \in Seq(Keys)
    BY <2>3, <2>5, UseProperties
  <2>8. call' \in [Callers -> Call] /\ receipts' \subseteq Receipts
    BY <1>0, <1>6, <2>2 DEF StoreReceipts
  <2> QED BY <1>6, <2>6, <2>7, <2>8 DEF StoreReceipts, TypeOK, CacheEntries, Receipts
<1>7. ASSUME NEW w \in Producers, Store(w) PROVE TypeOK'
  <2>1. PICK i \in 1 .. Len(queue[w]) :
            /\ log' = Append(log,
                  [event |-> queue[w][i].event, key |-> queue[w][i].key, via |-> w,
                   state |-> IF w = "plain" THEN "committed" ELSE "open"])
            /\ queue' = [queue EXCEPT ![w][i].offset = Len(log) + 1]
            /\ UNCHANGED <<cache, call, number, used, excused, receipts>>
    BY <1>7 DEF Store
  <2>2. queue[w][i] \in Message
    BY ElementOfSeq
  <2> DEFINE r == [event |-> queue[w][i].event, key |-> queue[w][i].key, via |-> w,
                   state |-> IF w = "plain" THEN "committed" ELSE "open"]
  <2>3. r \in LogRecords /\ log' = Append(log, r)
    BY <2>1, <2>2 DEF Message, LogRecords
  <2> HIDE DEF r
  <2>4. log' \in Seq(LogRecords)
    BY <2>3, AppendProperties
  <2>5. [queue[w][i] EXCEPT !.offset = Len(log) + 1] \in Message
    <3>1. Len(log) + 1 \in Nat
      OBVIOUS
    <3> QED BY ONLY <2>2, <3>1 DEF Message
  <2>6. /\ [queue[w] EXCEPT ![i] = [queue[w][i] EXCEPT !.offset = Len(log) + 1]] \in Seq(Message)
        /\ Len([queue[w] EXCEPT ![i] = [queue[w][i] EXCEPT !.offset = Len(log) + 1]])
                = Len(queue[w])
    BY <2>5, ExceptSeq
  <2>7. queue' \in [Producers -> Seq(Message)] /\ \A v \in Producers : Len(queue'[v]) <= QueueLimit
    BY <2>1, <2>6
  <2> QED BY <2>1, <2>4, <2>7 DEF TypeOK, LogRecords
<1>8. ASSUME NEW w \in Producers, Report(w) PROVE TypeOK'
  <2>1. queue[w] # <<>> /\ queue' = [queue EXCEPT ![w] = Tail(@)]
        /\ UNCHANGED <<log, cache, number, used, excused, receipts>>
    BY <1>8 DEF Report
  <2>2. Tail(queue[w]) \in Seq(Message) /\ Len(Tail(queue[w])) = Len(queue[w]) - 1
        /\ Head(queue[w]) \in Message
    BY <2>1, HeadTailProperties
  <2>3. queue' \in [Producers -> Seq(Message)] /\ \A v \in Producers : Len(queue'[v]) <= QueueLimit
    <3>1. Len(Tail(queue[w])) <= QueueLimit
      BY <2>2
    <3> QED BY <2>1, <2>2, <3>1
  <2>4. PICK outcome \in {Head(queue[w]).offset} \cup {-1} :
            call' = [c \in Callers |->
                IF call[c].pc # "idle" /\ call[c].number = Head(queue[w]).number
                THEN [call[c] EXCEPT !.deliveries[Head(queue[w]).index] = outcome]
                ELSE call[c]]
    BY <1>8 DEF Report
  <2>5. outcome \in Int
    BY <2>2 DEF Message
  <2>6. ASSUME NEW c \in Callers PROVE call'[c] \in Call
    <3>1. call[c].deliveries \in Seq(Int)
      BY DEF Call
    <3>2. [call[c].deliveries EXCEPT ![Head(queue[w]).index] = outcome] \in Seq(Int)
      <4>1. Len(call[c].deliveries) \in Nat
            /\ call[c].deliveries \in [1 .. Len(call[c].deliveries) -> Int]
        BY <3>1, LenProperties
      <4> DEFINE f == call[c].deliveries
                 n == Len(call[c].deliveries)
                 j == Head(queue[w]).index
      <4>2. [f EXCEPT ![j] = outcome] \in [1 .. n -> Int]
        <5> HIDE DEF f, n, j
        <5>1. f \in [1 .. n -> Int]
          BY <4>1 DEF f, n
        <5>2. CASE j \in 1 .. n
          BY <2>5, <5>1, <5>2
        <5>3. CASE j \notin 1 .. n
          <6>1. [f EXCEPT ![j] = outcome] = f
            BY <5>1, <5>3
          <6> QED BY <5>1, <6>1
        <5> QED BY <5>2, <5>3
      <4>3. [f EXCEPT ![j] = outcome] \in Seq(Int)
        <5> DEFINE g == [f EXCEPT ![j] = outcome]
        <5>1. n \in Nat /\ g \in [1 .. n -> Int]
          BY <4>1, <4>2
        <5> HIDE DEF f, n, j, g
        <5>2. g \in Seq(Int)
          BY <5>1, SeqDef
        <5> QED BY <5>2 DEF g
      <4> QED BY <4>3
    <3>3. [call[c] EXCEPT !.deliveries =
              [call[c].deliveries EXCEPT ![Head(queue[w]).index] = outcome]] \in Call
      BY <3>2 DEF Call
    <3> QED BY <2>4, <3>3
  <2>7. call' \in [Callers -> Call]
    BY <2>4, <2>6
  <2> QED BY <2>1, <2>3, <2>7 DEF TypeOK
<1>9. ASSUME TransactionEnds PROVE TypeOK'
  <2>1. PICK outcome \in {"committed", "aborted"} :
            log' = [i \in 1 .. Len(log) |->
                IF log[i].state = "open" THEN [log[i] EXCEPT !.state = outcome] ELSE log[i]]
    BY <1>9 DEF TransactionEnds
  <2>2. ASSUME NEW i \in 1 .. Len(log)
        PROVE  (IF log[i].state = "open" THEN [log[i] EXCEPT !.state = outcome] ELSE log[i])
                    \in LogRecords
    <3>1. log[i] \in LogRecords
      BY ElementOfSeq
    <3> QED BY <3>1 DEF LogRecords
  <2>3. log' \in [1 .. Len(log) -> LogRecords]
    BY <2>1, <2>2
  <2>4. log' \in Seq(LogRecords)
    BY <2>3, SeqDef
  <2>5. queue' = [queue EXCEPT !["transaction"] = <<>>]
        /\ UNCHANGED <<cache, call, number, used, excused, receipts>>
    BY <1>9 DEF TransactionEnds
  <2>6. <<>> \in Seq(Message) /\ Len(<<>>) = 0
    OBVIOUS
  <2>7. queue' \in [Producers -> Seq(Message)] /\ \A v \in Producers : Len(queue'[v]) <= QueueLimit
    <3>1. queue' = [v \in Producers |-> IF v = "transaction" THEN <<>> ELSE queue[v]]
      BY <2>5
    <3>2. ASSUME NEW v \in Producers
          PROVE  queue'[v] \in Seq(Message) /\ Len(queue'[v]) <= QueueLimit
      <4>1. CASE v = "transaction"
        BY <2>6, <3>1, <4>1
      <4>2. CASE v # "transaction"
        BY <3>1, <4>2
      <4> QED BY <4>1, <4>2
    <3> QED BY <3>1, <3>2
  <2> QED BY <2>4, <2>5, <2>7 DEF TypeOK, LogRecords
<1>10. CASE UNCHANGED vars
  BY <1>10 DEF vars, TypeOK
<1> QED BY <1>1, <1>2, <1>3, <1>4, <1>5, <1>6, <1>7, <1>8, <1>9, <1>10
        DEF Next, ProduceRaises, FlushRaises

-----------------------------------------------------------------------------
(* ReceiptsNameTheirEvents.                                                *)

\* What Names says of the next state's log.
StillNames(o, e, w) ==
    /\ o \in 1 .. Len(log')
    /\ log'[o].event = e
    /\ w = "plain" => log'[o].state = "committed"

Stable == \A o, e, w : Names(o, e, w) => StillNames(o, e, w)

\* The broker appends to its log and changes the state of open records only.
LEMMA LogOnlyGrows ==
    ASSUME TypeOK, [Next]_vars
    PROVE  Stable
<1>1. CASE UNCHANGED log
  BY <1>1 DEF Stable, Names, StillNames
<1>2. ASSUME NEW w \in Producers, Store(w) PROVE Stable
  <2>1. PICK r : log' = Append(log, r)
    BY <1>2 DEF Store
  <2>2. /\ log \in Seq(LogRecords) /\ Len(log) \in Nat
        /\ Len(log') = Len(log) + 1
        /\ \A i \in 1 .. Len(log) : log'[i] = log[i]
    <3>1. log \in Seq(LogRecords) /\ Len(log) \in Nat
      BY Components
    <3> QED BY ONLY <2>1, <3>1, AppendProperties
  <2> QED BY <2>2 DEF Stable, Names, StillNames
<1>3. ASSUME TransactionEnds PROVE Stable
  <2>1. PICK outcome \in {"committed", "aborted"} :
            log' = [i \in 1 .. Len(log) |->
                IF log[i].state = "open" THEN [log[i] EXCEPT !.state = outcome] ELSE log[i]]
    BY <1>3 DEF TransactionEnds
  <2>2. Len(log) \in Nat /\ \A i \in 1 .. Len(log) : log[i] \in LogRecords
    BY Components, ElementOfSeq
  <2>3. Len(log') = Len(log)
    BY <2>1, <2>2
  <2>4. ASSUME NEW i \in 1 .. Len(log)
        PROVE  log'[i].event = log[i].event /\ (log[i].state # "open" => log'[i] = log[i])
    BY <2>1, <2>2 DEF LogRecords
  <2> QED BY <2>3, <2>4 DEF Stable, Names, StillNames
<1>4. Next => UNCHANGED log \/ (\E w \in Producers : Store(w)) \/ TransactionEnds
  BY DEF Next, PublishCached, PublishBegin, ProduceOne, ProduceRaises, Raise, FlushReturns,
         FlushRaises, StoreReceipts, Report
<1> QED BY <1>1, <1>2, <1>3, <1>4 DEF vars

\* A publish that a step leaves alone keeps its shape.
LEMMA SameCall ==
    ASSUME NEW e \in Callers, CallShape(e), Stable, call'[e] = call[e], number <= number',
           number \in Nat, number' \in Nat, call[e] \in Call,
           \A c \in Callers : call'[c].pc # "idle" /\ call'[c].number = call[e].number => c = e
    PROVE  CallShape(e)'
<1> SUFFICES ASSUME call'[e].pc # "idle" PROVE CallShape(e)'
  BY DEF CallShape
<1>1. /\ call[e].data \in Batches
      /\ call[e].number <= number
      /\ IF call[e].pc = "produce" THEN Len(call[e].deliveries) < Len(call[e].data)
         ELSE Len(call[e].deliveries) = Len(call[e].data)
      /\ \A i \in 1 .. Len(call[e].deliveries) : call[e].deliveries[i] > 0 =>
              Names(call[e].deliveries[i], call[e].data[i], call[e].via)
      /\ call[e].pc = "store" => UsesCache(call[e].key, call[e].via) /\ Delivered(e)
  BY DEF CallShape
<1>2. call[e].number \in Nat
  BY DEF Call
<1>3. call'[e].number <= number'
  BY <1>1, <1>2
<1>4. \A i \in 1 .. Len(call'[e].deliveries) : call'[e].deliveries[i] > 0 =>
              Names(call[e].deliveries[i], call[e].data[i], call[e].via)'
  <2> SUFFICES ASSUME NEW i \in 1 .. Len(call'[e].deliveries), call'[e].deliveries[i] > 0
               PROVE  Names(call[e].deliveries[i], call[e].data[i], call[e].via)'
    OBVIOUS
  <2>1. Names(call[e].deliveries[i], call[e].data[i], call[e].via)
    BY <1>1
  <2>2. StillNames(call[e].deliveries[i], call[e].data[i], call[e].via)
    BY <2>1 DEF Stable
  <2> QED BY <2>2 DEF StillNames, Names
<1>5. call'[e].pc = "store" => UsesCache(call[e].key, call[e].via)' /\ Delivered(e)'
  BY <1>1 DEF UsesCache, Delivered
<1> QED BY <1>1, <1>3, <1>4, <1>5 DEF CallShape

\* A publish in progress is new, or was in progress; it may have produced more, and it
\* does not come to be stored while its producer has messages.
Continues(c) ==
    call'[c].pc # "idle" =>
        \/ call'[c].number > number
        \/ /\ call[c].pc # "idle"
           /\ call'[c].number = call[c].number
           /\ call'[c].via = call[c].via
           /\ call'[c].data = call[c].data
           /\ Len(call[c].deliveries) <= Len(call'[c].deliveries)
           /\ call'[c].pc = "store" => call[c].pc = "store" \/ queue[call[c].via] = <<>>

\* A message of the queue keeps its shape when the publishes continue.
LEMMA OldMessage ==
    ASSUME TypeOK, TypeOK', Stable, number <= number', \A c \in Callers : Continues(c),
           NEW w \in Producers, NEW j \in 1 .. Len(queue[w]), NEW m, m = queue[w][j],
           MessageShape(w, m)
    PROVE  MessageShape(w, m)'
<1>1. m \in Message /\ m.number \in Nat /\ queue[w] # <<>>
  <2>1. queue[w] \in Seq(Message)
    BY Components
  <2>2. m \in Message /\ queue[w] # <<>>
    BY <2>1, ElementOfSeq
  <2> QED BY <2>2 DEF Message
<1>2. m.number <= number /\ (m.offset # 0 => StillNames(m.offset, m.event, w))
  BY DEF MessageShape, Stable
<1>3. m.number <= number'
  BY <1>1, <1>2 DEF TypeOK
<1>4. ASSUME NEW c \in Callers, call'[c].pc # "idle", call'[c].number = m.number
      PROVE  /\ call'[c].via = w
             /\ call'[c].pc # "store"
             /\ m.index \in 1 .. Len(call'[c].deliveries)
             /\ call'[c].data[m.index] = m.event
  <2>1. /\ call[c].pc # "idle"
        /\ call'[c].number = call[c].number
        /\ call'[c].via = call[c].via
        /\ call'[c].data = call[c].data
        /\ Len(call[c].deliveries) <= Len(call'[c].deliveries)
        /\ call'[c].pc = "store" => call[c].pc = "store" \/ queue[call[c].via] = <<>>
    BY <1>1, <1>2, <1>4 DEF Continues, TypeOK
  <2>2. /\ call[c].via = w /\ call[c].pc # "store"
        /\ m.index \in 1 .. Len(call[c].deliveries) /\ call[c].data[m.index] = m.event
    BY <1>4, <2>1 DEF MessageShape
  <2>3. Len(call[c].deliveries) \in Nat /\ Len(call'[c].deliveries) \in Nat
    BY LenProperties DEF TypeOK, Call
  <2> QED BY <1>1, <2>1, <2>2, <2>3
<1> QED BY <1>2, <1>3, <1>4 DEF MessageShape, StillNames, Names

\* And so does the queue when nothing is added to it.
LEMMA SameQueue ==
    ASSUME TypeOK, TypeOK', Stable, QueueShape, number <= number',
           \A c \in Callers : Continues(c),
           \A w \in Producers : \A i \in 1 .. Len(queue'[w]) :
                \E j \in 1 .. Len(queue[w]) : queue'[w][i] = queue[w][j]
    PROVE  QueueShape'
<1> SUFFICES ASSUME NEW w \in Producers, NEW i \in 1 .. Len(queue'[w])
             PROVE  MessageShape(w, queue[w][i])'
  BY DEF QueueShape
<1>1. PICK j \in 1 .. Len(queue[w]) : queue'[w][i] = queue[w][j]
  OBVIOUS
<1>2. PICK m : m = queue[w][j]
  OBVIOUS
<1>3. MessageShape(w, m)
  BY <1>2 DEF QueueShape
<1>4. MessageShape(w, m)'
  BY <1>2, <1>3, OldMessage
<1> QED BY <1>1, <1>2, <1>4

\* The entries of the cache name the records of their Events, when the new ones do.
EntryNames(e) ==
    /\ Len(e.result) = Len(e.data)
    /\ \A n \in 1 .. Len(e.data) : Names(e.result[n], e.data[n], "plain")

\* A cache of old entries and of entries that name their Events is right.
LEMMA SameEntries ==
    ASSUME CacheNames, Stable,
           \A i \in 1 .. Len(cache') :
                \/ \E j \in 1 .. Len(cache) : cache'[i] = cache[j]
                \/ \E e : cache'[i] = e /\ EntryNames(e)
    PROVE  CacheNames'
<1> SUFFICES ASSUME NEW i \in 1 .. Len(cache')
             PROVE  /\ Len(cache'[i].result) = Len(cache'[i].data)
                    /\ \A n \in 1 .. Len(cache'[i].data) :
                            Names(cache[i].result[n], cache[i].data[n], "plain")'
  BY DEF CacheNames
<1>1. PICK e : e = cache'[i] /\ EntryNames(e)
  BY DEF CacheNames, EntryNames
<1>2. Len(e.result) = Len(e.data)
  BY <1>1 DEF EntryNames
<1>3. ASSUME NEW n \in 1 .. Len(e.data) PROVE Names(e.result[n], e.data[n], "plain")'
  <2>1. StillNames(e.result[n], e.data[n], "plain")
    BY <1>1 DEF EntryNames, Stable
  <2> QED BY <2>1 DEF StillNames, Names
<1> QED BY <1>1, <1>2, <1>3 DEF Names

\* Receipts name the records of their Events, when the new ones do.
LEMMA SameReceipts ==
    ASSUME ReceiptsNameTheirEvents, Stable,
           \A r \in receipts' : r \in receipts \/ Names(r.offset, r.event, r.via)
    PROVE  ReceiptsNameTheirEvents'
<1> SUFFICES ASSUME NEW r \in receipts' PROVE StillNames(r.offset, r.event, r.via)
  BY DEF ReceiptsNameTheirEvents, StillNames
<1> QED BY DEF ReceiptsNameTheirEvents, Names, Stable

\* Initially there is nothing to name.
LEMMA InitNames == Init => NamesInv
<1> SUFFICES ASSUME Init PROVE NamesInv
  OBVIOUS
<1>1. Len(<<>>) = 0
  OBVIOUS
<1>2. CacheNames /\ ReceiptsNameTheirEvents
  BY <1>1 DEF Init, CacheNames, ReceiptsNameTheirEvents
<1>3. \A c \in Callers : CallShape(c)
  BY DEF Init, Idle, CallShape
<1>4. QueueShape
  BY <1>1 DEF Init, QueueShape
<1> QED BY <1>2, <1>3, <1>4 DEF NamesInv

\* Every step keeps what is named.
LEMMA NextNames == TypeOK /\ TypeOK' /\ NamesInv /\ [Next]_vars => NamesInv'
<1> SUFFICES ASSUME TypeOK, TypeOK', NamesInv, [Next]_vars PROVE NamesInv'
  OBVIOUS
<1>0. /\ Stable /\ CacheNames /\ QueueShape /\ ReceiptsNameTheirEvents
      /\ \A c \in Callers : CallShape(c)
      /\ number \in Nat /\ number' \in Nat
      /\ \A c \in Callers : call[c] \in Call /\ call'[c] \in Call
      /\ \A c \in Callers : call[c].pc # "idle" =>
            call[c].number \in Nat /\ call[c].number <= number
      /\ \A c, e \in Callers : call[c].pc # "idle" /\ call[e].pc # "idle"
                                 /\ call[c].number = call[e].number => c = e
      /\ \A c \in Callers : call[c].deliveries \in Seq(Int) /\ Len(call[c].deliveries) \in Nat
  <2>1. \A c \in Callers : call[c] \in Call /\ call'[c] \in Call
    BY DEF TypeOK
  <2>2. \A c \in Callers : call[c].deliveries \in Seq(Int) /\ Len(call[c].deliveries) \in Nat
    BY <2>1, LenProperties DEF Call
  <2> QED BY <2>1, <2>2, LogOnlyGrows DEF NamesInv, CallShape, TypeOK, Call
<1>1. ASSUME NEW c \in Callers, PublishCached(c) PROVE NamesInv'
  <2>1. PICK k \in Keys, d \in Batches, w \in Producers :
            /\ UsesCache(k, w)
            /\ \E i \in Entries(k) :
                \/ /\ cache[i].data = d
                   /\ cache' = MoveToEnd(k)
                   /\ receipts' = receipts \cup
                         {[event |-> d[n], offset |-> cache[i].result[n], via |-> w] :
                             n \in 1 .. Len(d)}
                \/ UNCHANGED <<cache, receipts>>
    BY <1>1 DEF PublishCached
  <2>2. PICK i \in Entries(k) :
                \/ /\ cache[i].data = d
                   /\ cache' = MoveToEnd(k)
                   /\ receipts' = receipts \cup
                         {[event |-> d[n], offset |-> cache[i].result[n], via |-> w] :
                             n \in 1 .. Len(d)}
                \/ UNCHANGED <<cache, receipts>>
    BY <2>1
  <2>3. UNCHANGED <<log, queue, call, number>>
    BY <1>1 DEF PublishCached
  <2>4. \A j \in 1 .. Len(cache') : \E n \in 1 .. Len(cache) : cache'[j] = cache[n]
    <3>1. CASE cache' = MoveToEnd(k)
      BY <2>2, <3>1, Components, MoveToEndProperties
    <3>2. CASE UNCHANGED cache
      BY <3>2
    <3> QED BY <2>2, <3>1, <3>2
  <2>5. CacheNames'
    BY <1>0, <2>4, SameEntries
  <2>6. \A r \in receipts' : r \in receipts \/ Names(r.offset, r.event, r.via)
    <3> SUFFICES ASSUME NEW r \in receipts', r \notin receipts
                 PROVE  Names(r.offset, r.event, r.via)
      OBVIOUS
    <3>1. /\ cache[i].data = d
          /\ \E n \in 1 .. Len(d) :
                r = [event |-> d[n], offset |-> cache[i].result[n], via |-> w]
      BY <2>2
    <3>2. PICK n \in 1 .. Len(d) :
                r = [event |-> d[n], offset |-> cache[i].result[n], via |-> w]
      BY <3>1
    <3>3. w = "plain" /\ i \in 1 .. Len(cache)
      BY <2>1 DEF UsesCache, Entries
    <3>4. Names(cache[i].result[n], d[n], "plain")
      BY <1>0, <3>1, <3>3 DEF CacheNames
    <3> QED BY <3>2, <3>3, <3>4
  <2>7. ReceiptsNameTheirEvents'
    BY <1>0, <2>6, SameReceipts
  <2>8. (\A e \in Callers : CallShape(e)') /\ QueueShape'
    BY <1>0, <2>3 DEF CallShape, QueueShape, MessageShape, Names, UsesCache, Delivered
  <2> QED BY <2>5, <2>7, <2>8 DEF NamesInv
<1>2. ASSUME NEW c \in Callers, PublishBegin(c) PROVE NamesInv'
  <2>1. PICK k \in Keys \cup {NoKey}, d \in Batches, w \in Producers :
            call' = [call EXCEPT ![c] =
                  [pc |-> "produce", key |-> k, data |-> d, via |-> w, number |-> number + 1,
                   deliveries |-> <<>>]]
    BY <1>2 DEF PublishBegin
  <2>2. number' = number + 1 /\ UNCHANGED <<log, queue, cache, receipts>>
    BY <1>2 DEF PublishBegin
  <2>3. /\ call'[c] = [pc |-> "produce", key |-> k, data |-> d, via |-> w, number |-> number + 1,
                       deliveries |-> <<>>]
        /\ \A e \in Callers \ {c} : call'[e] = call[e]
    BY <2>1, Components
  <2>4. ASSUME NEW e \in Callers PROVE CallShape(e)'
    <3>1. CASE e = c
      <4>1. d \in Seq(Events) /\ d # <<>> /\ Len(d) \in Nat /\ Len(<<>>) = 0
        <5>1. d \in Seq(Events) /\ d # <<>>
          OBVIOUS
        <5> QED BY <5>1, LenProperties
      <4>2. Len(d) > 0
        BY <4>1, EmptySeq
      <4>3. \A v \in Callers : call'[v].pc # "idle" /\ call'[v].number = number + 1 => v = c
        BY <1>0, <2>3
      <4> QED BY <1>0, <2>2, <2>3, <3>1, <4>1, <4>2, <4>3 DEF CallShape
    <3>2. CASE e # c
      <4>1. \A v \in Callers : call'[v].pc # "idle" /\ call'[v].number = call[e].number
                                  /\ call[e].pc # "idle" => v = e
        BY <1>0, <2>3
      <4>2. CASE call[e].pc = "idle"
        BY <2>3, <3>2, <4>2 DEF CallShape
      <4>3. CASE call[e].pc # "idle"
        BY <1>0, <2>2, <2>3, <3>2, <4>1, <4>3, SameCall
      <4> QED BY <4>2, <4>3
    <3> QED BY <3>1, <3>2
  <2>5. \A e \in Callers : Continues(e)
    <3> SUFFICES ASSUME NEW e \in Callers PROVE Continues(e)
      OBVIOUS
    <3>1. CASE e = c
      BY <1>0, <2>3, <3>1 DEF Continues
    <3>2. CASE e # c
      BY <1>0, <2>3, <3>2 DEF Continues
    <3> QED BY <3>1, <3>2
  <2>6. QueueShape'
    BY <1>0, <2>2, <2>5, SameQueue
  <2>7. CacheNames' /\ ReceiptsNameTheirEvents'
    BY <1>0, <2>2 DEF CacheNames, ReceiptsNameTheirEvents, Names
  <2> QED BY <2>4, <2>6, <2>7 DEF NamesInv
<1>3. ASSUME NEW c \in Callers, call[c].pc # "idle", call' = [call EXCEPT ![c] = Idle],
             UNCHANGED <<log, queue, number>>, CacheNames', ReceiptsNameTheirEvents'
      PROVE  NamesInv'
  <2>1. call'[c] = Idle /\ \A e \in Callers \ {c} : call'[e] = call[e]
    BY <1>3, Components
  <2>2. \A e \in Callers : CallShape(e)'
    <3> SUFFICES ASSUME NEW e \in Callers, call'[e].pc # "idle" PROVE CallShape(e)'
      BY DEF CallShape
    <3>1. e # c
      BY <2>1 DEF Idle
    <3>2. \A v \in Callers : call'[v].pc # "idle" /\ call'[v].number = call[e].number => v = e
      BY <1>0, <2>1, <3>1 DEF Idle
    <3> QED BY <1>0, <1>3, <2>1, <3>1, <3>2, SameCall
  <2>3. \A e \in Callers : Continues(e)
    BY <1>0, <2>1 DEF Continues, Idle
  <2>4. QueueShape'
    BY <1>0, <1>3, <2>3, SameQueue
  <2> QED BY <1>3, <2>2, <2>4 DEF NamesInv
<1>4. ASSUME NEW c \in Callers, ProduceOne(c) PROVE NamesInv'
  <2> DEFINE w == call[c].via
             i == Len(call[c].deliveries) + 1
             m == [event |-> NextEvent(c), key |-> call[c].key, number |-> call[c].number,
                   index |-> i, offset |-> 0]
             n == [call[c] EXCEPT !.deliveries = Append(call[c].deliveries, 0),
                                  !.pc = IF i = Len(call[c].data) THEN "flush" ELSE "produce"]
  <2>1. /\ call[c].pc = "produce"
        /\ queue' = [queue EXCEPT ![w] = Append(queue[w], m)]
        /\ call' = [call EXCEPT ![c] = n]
        /\ UNCHANGED <<log, cache, number, receipts>>
    BY <1>4 DEF ProduceOne
  <2>2. /\ n.deliveries = Append(call[c].deliveries, 0)
        /\ n.pc = IF i = Len(call[c].data) THEN "flush" ELSE "produce"
        /\ n.key = call[c].key /\ n.data = call[c].data /\ n.via = call[c].via
        /\ n.number = call[c].number
    BY <1>0 DEF Call
  <2>3. m.event = call[c].data[i] /\ m.number = call[c].number /\ m.index = i /\ m.offset = 0
    BY DEF NextEvent
  <2> HIDE DEF n, m
  <2>4. call'[c] = n /\ \A e \in Callers \ {c} : call'[e] = call[e]
    BY <2>1, Components
  <2>5. /\ call[c].data \in Batches /\ Len(call[c].deliveries) < Len(call[c].data)
        /\ \A j \in 1 .. Len(call[c].deliveries) : call[c].deliveries[j] > 0 =>
                Names(call[c].deliveries[j], call[c].data[j], call[c].via)
    BY <1>0, <2>1 DEF CallShape
  <2>6. /\ Len(n.deliveries) = i
        /\ \A j \in 1 .. Len(call[c].deliveries) : n.deliveries[j] = call[c].deliveries[j]
        /\ n.deliveries[i] = 0
    BY <1>0, <2>2, AppendProperties
  <2>7. i \in Nat /\ Len(call[c].data) \in Nat /\ i <= Len(call[c].data)
    <3>1. call[c].data \in Seq(Events)
      BY <2>5
    <3>2. Len(call[c].data) \in Nat
      BY <3>1, LenProperties
    <3> QED BY <1>0, <2>5, <3>2
  <2>8. ASSUME NEW e \in Callers PROVE CallShape(e)'
    <3> SUFFICES ASSUME call'[e].pc # "idle" PROVE CallShape(e)'
      BY DEF CallShape
    <3>1. \A v \in Callers : call'[v].pc # "idle" /\ call'[v].number = call'[e].number => v = e
      BY <1>0, <2>1, <2>2, <2>4
    <3>2. CASE e = c
      <4>1. \A j \in 1 .. Len(n.deliveries) : n.deliveries[j] > 0 =>
                Names(n.deliveries[j], n.data[j], n.via)
        <5> SUFFICES ASSUME NEW j \in 1 .. Len(n.deliveries), n.deliveries[j] > 0
                     PROVE  Names(n.deliveries[j], n.data[j], n.via)
          OBVIOUS
        <5>1. j # i
          BY <2>6
        <5>2. j \in 1 .. Len(call[c].deliveries)
          BY <1>0, <2>6, <5>1
        <5> QED BY <2>2, <2>5, <2>6, <5>2
      <4>2. /\ n.data \in Batches /\ n.number <= number'
            /\ IF n.pc = "produce" THEN Len(n.deliveries) < Len(n.data)
               ELSE Len(n.deliveries) = Len(n.data)
            /\ n.pc # "store"
        BY <1>0, <2>1, <2>2, <2>5, <2>6, <2>7
      <4>3. \A j \in 1 .. Len(call'[c].deliveries) : call'[c].deliveries[j] > 0 =>
                Names(call[c].deliveries[j], call[c].data[j], call[c].via)'
        BY <2>1, <2>4, <4>1 DEF Names
      <4> QED BY <2>4, <3>1, <3>2, <4>2, <4>3 DEF CallShape
    <3>3. CASE e # c
      <4>1. call'[e] = call[e]
        BY <2>4, <3>3
      <4> QED BY <1>0, <2>1, <3>1, <4>1, SameCall
    <3> QED BY <3>2, <3>3
  <2>9. \A e \in Callers : Continues(e)
    <3> SUFFICES ASSUME NEW e \in Callers, call'[e].pc # "idle" PROVE Continues(e)
      BY DEF Continues
    <3>1. CASE e = c
      <4>1. n.pc # "store"
        BY <2>2
      <4> QED BY <1>0, <2>1, <2>2, <2>4, <2>6, <2>7, <3>1, <4>1 DEF Continues
    <3>2. CASE e # c
      BY <1>0, <2>4, <3>2 DEF Continues
    <3> QED BY <3>1, <3>2
  <2>10. QueueShape'
    <3> SUFFICES ASSUME NEW v \in Producers, NEW j \in 1 .. Len(queue'[v])
                 PROVE  MessageShape(v, queue[v][j])'
      BY DEF QueueShape
    <3>1. w \in Producers /\ queue[v] \in Seq(Message) /\ Len(queue[v]) \in Nat
          /\ queue[w] \in Seq(Message) /\ Len(queue[w]) \in Nat
      BY <1>0, Components DEF Call
    <3>2. CASE v = w /\ j = Len(queue[w]) + 1
      <4>1. queue'[v][j] = m
        <5>1. queue'[v] = Append(queue[w], m)
          BY <2>1, <3>1, <3>2, Components
        <5>2. Append(queue[w], m)[Len(queue[w]) + 1] = m
          BY <3>1
        <5> QED BY <3>2, <5>1, <5>2
      <4>2. m.number <= number'
        BY <1>0, <2>1, <2>3
      <4>3. \A e \in Callers : call'[e].pc # "idle" /\ call'[e].number = m.number => e = c
        BY <1>0, <2>1, <2>2, <2>3, <2>4
      <4>4. /\ n.via = v /\ n.pc # "store" /\ m.index \in 1 .. Len(n.deliveries)
            /\ n.data[m.index] = m.event
        BY <1>0, <2>2, <2>3, <2>6, <2>7, <3>2
      <4>5. PICK x : x = m
        OBVIOUS
      <4>6. MessageShape(v, x)'
        BY <2>3, <2>4, <4>2, <4>3, <4>4, <4>5 DEF MessageShape
      <4> QED BY <4>1, <4>5, <4>6
    <3>3. CASE ~(v = w /\ j = Len(queue[w]) + 1)
      <4>1. j \in 1 .. Len(queue[v]) /\ queue'[v][j] = queue[v][j]
        <5>1. CASE v = w
          <6>1. queue'[v] = Append(queue[w], m)
            BY <2>1, <3>1, <5>1, Components
          <6>2. /\ Len(Append(queue[w], m)) = Len(queue[w]) + 1
                /\ \A x \in 1 .. Len(queue[w]) : Append(queue[w], m)[x] = queue[w][x]
            BY <3>1
          <6> QED BY <3>1, <3>3, <5>1, <6>1, <6>2
        <5>2. CASE v # w
          BY <2>1, <5>2, Components
        <5> QED BY <5>1, <5>2
      <4>2. PICK x : x = queue[v][j]
        OBVIOUS
      <4>3. MessageShape(v, x)
        BY <1>0, <4>1, <4>2 DEF QueueShape
      <4>4. MessageShape(v, x)'
        BY <1>0, <2>1, <2>9, <4>1, <4>2, <4>3, OldMessage
      <4> QED BY <4>1, <4>2, <4>4
    <3> QED BY <3>2, <3>3
  <2>11. CacheNames' /\ ReceiptsNameTheirEvents'
    BY <1>0, <2>1 DEF CacheNames, ReceiptsNameTheirEvents, Names
  <2> QED BY <2>8, <2>10, <2>11 DEF NamesInv
<1>5. ASSUME NEW c \in Callers, call[c].pc # "idle", CallShape(c), Delivered(c),
             Len(call[c].deliveries) = Len(call[c].data)
      PROVE  \A r \in Result(c) : Names(r.offset, r.event, r.via)
  <2> SUFFICES ASSUME NEW i \in 1 .. Len(call[c].data)
               PROVE  Names(call[c].deliveries[i], call[c].data[i], call[c].via)
    BY DEF Result
  <2> QED BY <1>5 DEF CallShape, Delivered
<1>6. ASSUME NEW c \in Callers, FlushReturns(c) PROVE NamesInv'
  <2>1. /\ call[c].pc = "flush" /\ Flushed(c) /\ Delivered(c)
        /\ Len(call[c].deliveries) = Len(call[c].data)
        /\ UNCHANGED <<log, queue, cache, number>>
    BY <1>0, <1>6 DEF FlushReturns, CallShape
  <2>2. CacheNames'
    BY <1>0, <2>1 DEF CacheNames, Names
  <2>3. CASE ~UsesCache(call[c].key, call[c].via)
    <3>1. call' = [call EXCEPT ![c] = Idle] /\ receipts' = receipts \cup Result(c)
      BY <1>6, <2>3 DEF FlushReturns
    <3>2. ReceiptsNameTheirEvents'
      BY <1>0, <1>5, <2>1, <3>1, SameReceipts
    <3> QED BY <1>3, <2>1, <2>2, <3>1, <3>2
  <2>4. CASE UsesCache(call[c].key, call[c].via)
    <3>1. call' = [call EXCEPT ![c].pc = "store"] /\ UNCHANGED receipts
      BY <1>6, <2>4 DEF FlushReturns
    <3>2. /\ call'[c] = [call[c] EXCEPT !.pc = "store"]
          /\ \A e \in Callers \ {c} : call'[e] = call[e]
      BY <3>1, Components
    <3>3. /\ call'[c].pc = "store" /\ call'[c].key = call[c].key /\ call'[c].via = call[c].via
          /\ call'[c].data = call[c].data /\ call'[c].deliveries = call[c].deliveries
          /\ call'[c].number = call[c].number
      BY <1>0, <3>2 DEF Call
    <3>4. ASSUME NEW e \in Callers, call'[e].pc # "idle" PROVE CallShape(e)'
      <4>1. \A v \in Callers : call'[v].pc # "idle" /\ call'[v].number = call'[e].number => v = e
        <5>1. \A v \in Callers : /\ call'[v].number = call[v].number
                                 /\ call'[v].pc # "idle" => call[v].pc # "idle"
          BY <2>1, <3>2, <3>3
        <5> QED BY <1>0, <3>4, <5>1
      <4>2. CASE e = c
        <5>1. \A i \in 1 .. Len(call[c].deliveries) : call[c].deliveries[i] > 0 =>
                  Names(call[c].deliveries[i], call[c].data[i], call[c].via)
          BY <1>0, <2>1 DEF CallShape
        <5>2. \A i \in 1 .. Len(call'[c].deliveries) : call'[c].deliveries[i] > 0 =>
                  Names(call[c].deliveries[i], call[c].data[i], call[c].via)'
          BY <2>1, <3>3, <5>1 DEF Names
        <5>3. UsesCache(call[c].key, call[c].via)' /\ Delivered(c)'
          BY <2>1, <2>4, <3>3 DEF UsesCache, Delivered
        <5>4. call[c].data \in Batches /\ call[c].number <= number
          BY <1>0, <2>1 DEF CallShape
        <5> QED BY <2>1, <3>3, <4>1, <4>2, <5>2, <5>3, <5>4 DEF CallShape
      <4>3. CASE e # c
        <5>1. call'[e] = call[e]
          BY <3>2, <4>3
        <5> QED BY <1>0, <2>1, <4>1, <5>1, SameCall
      <4> QED BY <4>2, <4>3
    <3>5. \A e \in Callers : Continues(e)
      <4> SUFFICES ASSUME NEW e \in Callers PROVE Continues(e)
        OBVIOUS
      <4>1. CASE e = c
        BY <1>0, <2>1, <3>3, <4>1 DEF Continues, Flushed
      <4>2. CASE e # c
        BY <1>0, <3>2, <4>2 DEF Continues
      <4> QED BY <4>1, <4>2
    <3>6. QueueShape'
      BY <1>0, <2>1, <3>5, SameQueue
    <3>7. ReceiptsNameTheirEvents'
      BY <1>0, <3>1, SameReceipts DEF ReceiptsNameTheirEvents
    <3>8. \A e \in Callers : CallShape(e)'
      BY <3>4 DEF CallShape
    <3> QED BY <2>2, <3>6, <3>7, <3>8 DEF NamesInv
  <2> QED BY <2>3, <2>4
<1>7. ASSUME NEW c \in Callers, StoreReceipts(c) PROVE NamesInv'
  <2> DEFINE x == [key |-> call[c].key, data |-> call[c].data, result |-> call[c].deliveries]
  <2>1. /\ call[c].pc = "store" /\ UsesCache(call[c].key, call[c].via) /\ Delivered(c)
        /\ Len(call[c].deliveries) = Len(call[c].data)
    BY <1>0, <1>7 DEF StoreReceipts, CallShape
  <2>2. /\ cache' = Stored(x) /\ receipts' = receipts \cup Result(c)
        /\ call' = [call EXCEPT ![c] = Idle] /\ UNCHANGED <<log, queue, number>>
    BY <1>7 DEF StoreReceipts
  <2>3. \A r \in Result(c) : Names(r.offset, r.event, r.via)
    BY <1>0, <1>5, <2>1
  <2>4. EntryNames(x)
    BY <1>0, <2>1 DEF EntryNames, CallShape, Delivered, UsesCache
  <2>5. x \in CacheEntries
    <3>1. call[c].data \in Batches /\ call[c].deliveries \in Seq(Nat)
      BY <1>0, <2>1, DeliveredOffsets
    <3>2. call[c].key \in Keys
      BY <1>0, <2>1 DEF UsesCache, Call
    <3> QED BY <3>1, <3>2 DEF CacheEntries
  <2> HIDE DEF x
  <2>6. \A i \in 1 .. Len(cache') : cache'[i] = x \/ \E j \in 1 .. Len(cache) : cache'[i] = cache[j]
    BY <2>2, <2>5, Components, StoredProperties
  <2>7. CacheNames'
    BY <1>0, <2>4, <2>6, SameEntries
  <2>8. ReceiptsNameTheirEvents'
    BY <1>0, <2>2, <2>3, SameReceipts
  <2> QED BY <1>3, <2>1, <2>2, <2>7, <2>8
<1>8. ASSUME NEW c \in Callers, call[c].pc # "idle", Raise(c), UNCHANGED queue PROVE NamesInv'
  <2>1. call' = [call EXCEPT ![c] = Idle] /\ UNCHANGED <<log, cache, number, receipts>>
    BY <1>8 DEF Raise
  <2>2. CacheNames' /\ ReceiptsNameTheirEvents'
    BY <1>0, <2>1 DEF CacheNames, ReceiptsNameTheirEvents, Names
  <2> QED BY <1>3, <1>8, <2>1, <2>2
<1>9. ASSUME NEW w \in Producers, Store(w) PROVE NamesInv'
  <2>1. PICK i \in 1 .. Len(queue[w]) :
            /\ log' = Append(log,
                  [event |-> queue[w][i].event, key |-> queue[w][i].key, via |-> w,
                   state |-> IF w = "plain" THEN "committed" ELSE "open"])
            /\ queue' = [queue EXCEPT ![w][i].offset = Len(log) + 1]
    BY <1>9 DEF Store
  <2>2. UNCHANGED <<cache, call, number, receipts>>
    BY <1>9 DEF Store
  <2> DEFINE r == [event |-> queue[w][i].event, key |-> queue[w][i].key, via |-> w,
                   state |-> IF w = "plain" THEN "committed" ELSE "open"]
  <2>3. /\ Len(log) + 1 \in Nat /\ Len(log) + 1 \in 1 .. Len(log')
        /\ log'[Len(log) + 1] = r
    <3>1. log' = Append(log, r)
      BY <2>1
    <3> HIDE DEF r
    <3>2. log \in Seq(LogRecords) /\ Len(log) \in Nat
      BY Components
    <3> QED BY ONLY <3>1, <3>2, AppendProperties
  <2>4. StillNames(Len(log) + 1, queue[w][i].event, w)
    BY <2>3 DEF StillNames
  <2>5. \A e \in Callers : CallShape(e)'
    <3> SUFFICES ASSUME NEW e \in Callers, call'[e].pc # "idle" PROVE CallShape(e)'
      BY DEF CallShape
    <3>1. \A v \in Callers : call'[v].pc # "idle" /\ call'[v].number = call[e].number => v = e
      BY <1>0, <2>2
    <3> QED BY <1>0, <2>2, <3>1, SameCall
  <2>6. \A e \in Callers : Continues(e)
    BY <1>0, <2>2 DEF Continues
  <2>7. QueueShape'
    <3> SUFFICES ASSUME NEW v \in Producers, NEW j \in 1 .. Len(queue'[v])
                 PROVE  MessageShape(v, queue[v][j])'
      BY DEF QueueShape
    <3>1. queue[v] \in Seq(Message) /\ queue[w] \in Seq(Message) /\ queue[w][i] \in Message
      BY Components, ElementOfSeq
    <3>2. queue'[v] =
            IF v = w THEN [queue[w] EXCEPT ![i] = [queue[w][i] EXCEPT !.offset = Len(log) + 1]]
                      ELSE queue[v]
      BY <2>1, Components
    <3>3. j \in 1 .. Len(queue[v])
      BY <3>1, <3>2, ExceptSeq
    <3>4. PICK x : x = queue[v][j]
      OBVIOUS
    <3>5. MessageShape(v, x)'
      BY <1>0, <2>2, <2>6, <3>3, <3>4, OldMessage DEF QueueShape
    <3>6. CASE v = w /\ j = i
      <4>1. x \in Message /\ queue'[v][j] = [x EXCEPT !.offset = Len(log) + 1]
        BY <3>1, <3>2, <3>3, <3>4, <3>6, ExceptSeq
      <4>2. PICK y : y = queue'[v][j]
        OBVIOUS
      <4>3. /\ y.number = x.number /\ y.event = x.event /\ y.index = x.index
            /\ y.offset = Len(log) + 1
        BY <4>1, <4>2 DEF Message
      <4>4. StillNames(y.offset, y.event, v)
        BY <2>4, <3>4, <3>6, <4>3
      <4>5. MessageShape(v, y)'
        BY <3>5, <4>3, <4>4 DEF MessageShape, StillNames, Names
      <4> QED BY <4>2, <4>5
    <3>7. CASE ~(v = w /\ j = i)
      <4>1. queue'[v][j] = x
        BY <3>1, <3>2, <3>3, <3>4, <3>7, ExceptSeq
      <4> QED BY <3>5, <4>1
    <3> QED BY <3>6, <3>7
  <2>8. CacheNames'
    BY <1>0, <2>2, SameEntries
  <2>9. ReceiptsNameTheirEvents'
    BY <1>0, <2>2, SameReceipts
  <2> QED BY <2>5, <2>7, <2>8, <2>9 DEF NamesInv
<1>10. ASSUME NEW w \in Producers, Report(w) PROVE NamesInv'
  <2> DEFINE m == Head(queue[w])
  <2>1. queue[w] # <<>> /\ queue' = [queue EXCEPT ![w] = Tail(@)]
        /\ UNCHANGED <<log, cache, number, receipts>>
    BY <1>10 DEF Report
  <2>2. PICK outcome \in {m.offset} \cup {-1} :
            /\ outcome # 0
            /\ call' = [c \in Callers |->
                IF call[c].pc # "idle" /\ call[c].number = m.number
                THEN [call[c] EXCEPT !.deliveries[m.index] = outcome]
                ELSE call[c]]
    BY <1>10 DEF Report
  <2>3. /\ m \in Message /\ MessageShape(w, m)
        /\ Len(Tail(queue[w])) = Len(queue[w]) - 1
        /\ \A i \in 1 .. Len(queue[w]) - 1 : Tail(queue[w])[i] = queue[w][i + 1]
        /\ Len(queue[w]) \in Nat
    <3>1. queue[w] \in Seq(Message) /\ Len(queue[w]) \in Nat
      BY Components
    <3>2. /\ Head(queue[w]) \in Message
          /\ Len(Tail(queue[w])) = Len(queue[w]) - 1
          /\ \A i \in 1 .. Len(queue[w]) - 1 : Tail(queue[w])[i] = queue[w][i + 1]
      BY <2>1, <3>1, HeadTailProperties
    <3>3. 1 \in 1 .. Len(queue[w]) /\ Head(queue[w]) = queue[w][1]
      BY <2>1, <3>1, EmptySeq
    <3> QED BY <1>0, <3>1, <3>2, <3>3 DEF QueueShape
  <2>4. \A v \in Producers : \A i \in 1 .. Len(queue'[v]) :
            \E j \in 1 .. Len(queue[v]) : queue'[v][i] = queue[v][j]
    <3> SUFFICES ASSUME NEW v \in Producers, NEW i \in 1 .. Len(queue'[v])
                 PROVE  \E j \in 1 .. Len(queue[v]) : queue'[v][i] = queue[v][j]
      OBVIOUS
    <3>1. CASE v = w
      <4>1. queue'[v] = Tail(queue[w])
        BY <2>1, <3>1, Components
      <4>2. i + 1 \in 1 .. Len(queue[w]) /\ i \in 1 .. Len(queue[w]) - 1
        BY <2>3, <4>1
      <4> QED BY <2>3, <3>1, <4>1, <4>2
    <3>2. CASE v # w
      BY <2>1, <3>2, Components
    <3> QED BY <3>1, <3>2
  <2>5. ASSUME NEW e \in Callers, call[e].pc # "idle", call[e].number = m.number
        PROVE  /\ call'[e].pc = call[e].pc /\ call'[e].key = call[e].key
               /\ call'[e].data = call[e].data /\ call'[e].via = call[e].via
               /\ call'[e].number = call[e].number
               /\ Len(call'[e].deliveries) = Len(call[e].deliveries)
               /\ \A i \in 1 .. Len(call[e].deliveries) :
                    call'[e].deliveries[i] = IF i = m.index THEN outcome ELSE call[e].deliveries[i]
               /\ call[e].via = w /\ call[e].pc # "store"
               /\ m.index \in 1 .. Len(call[e].deliveries)
               /\ call[e].data[m.index] = m.event
    <3>1. /\ call[e].via = w /\ call[e].pc # "store"
          /\ m.index \in 1 .. Len(call[e].deliveries)
          /\ call[e].data[m.index] = m.event
      BY <2>3, <2>5 DEF MessageShape
    <3> DEFINE n == [call[e].deliveries EXCEPT ![m.index] = outcome]
    <3>2. call'[e] = [call[e] EXCEPT !.deliveries = n]
      BY <2>2, <2>5
    <3>3. /\ Len(n) = Len(call[e].deliveries)
          /\ \A i \in 1 .. Len(call[e].deliveries) :
                    n[i] = IF i = m.index THEN outcome ELSE call[e].deliveries[i]
      <4>1. outcome \in Int
        BY <2>2, <2>3 DEF Message
      <4> QED BY <1>0, <3>1, <4>1, ExceptSeq
    <3> HIDE DEF n
    <3> QED BY <1>0, <3>1, <3>2, <3>3 DEF Call
  <2>6. \A e \in Callers : call[e].pc = "idle" \/ call[e].number # m.number => call'[e] = call[e]
    BY <2>2
  <2>7. \A v \in Callers : call'[v].pc = call[v].pc /\ call'[v].number = call[v].number
    BY <2>5, <2>6
  <2>8. ASSUME NEW e \in Callers PROVE CallShape(e)'
    <3> SUFFICES ASSUME call'[e].pc # "idle" PROVE CallShape(e)'
      BY DEF CallShape
    <3>1. \A v \in Callers : call'[v].pc # "idle" /\ call'[v].number = call'[e].number => v = e
      BY <1>0, <2>7
    <3>2. CASE call[e].number = m.number
      <4>1. call[e].pc # "idle"
        BY <2>7
      <4>2. ASSUME NEW i \in 1 .. Len(call'[e].deliveries), call'[e].deliveries[i] > 0
            PROVE  Names(call[e].deliveries[i], call[e].data[i], call[e].via)'
        <5>1. i \in 1 .. Len(call[e].deliveries)
          BY <2>5, <3>2, <4>1, <4>2
        <5>2. CASE i = m.index
          <6>1. call'[e].deliveries[i] = outcome /\ outcome = m.offset /\ m.offset # 0
            <7>1. call'[e].deliveries[i] = outcome
              BY <2>5, <3>2, <4>1, <5>1, <5>2
            <7> QED BY <2>2, <4>2, <7>1
          <6>2. StillNames(m.offset, m.event, w)
            BY <1>0, <2>3, <6>1 DEF MessageShape, Stable
          <6> QED BY <2>5, <3>2, <4>1, <5>2, <6>1, <6>2 DEF StillNames, Names
        <5>3. CASE i # m.index
          <6>1. call'[e].deliveries[i] = call[e].deliveries[i]
            BY <2>5, <3>2, <4>1, <5>1, <5>3
          <6>2. Names(call[e].deliveries[i], call[e].data[i], call[e].via)
            BY <1>0, <4>1, <4>2, <5>1, <6>1 DEF CallShape
          <6>3. StillNames(call[e].deliveries[i], call[e].data[i], call[e].via)
            BY <1>0, <6>2 DEF Stable
          <6> QED BY <2>5, <3>2, <4>1, <6>1, <6>3 DEF StillNames, Names
        <5> QED BY <5>2, <5>3
      <4>3. /\ call[e].data \in Batches /\ call[e].number <= number
            /\ IF call[e].pc = "produce" THEN Len(call[e].deliveries) < Len(call[e].data)
               ELSE Len(call[e].deliveries) = Len(call[e].data)
        BY <1>0, <4>1 DEF CallShape
      <4> QED BY <2>1, <2>5, <3>1, <3>2, <4>1, <4>2, <4>3 DEF CallShape
    <3>3. CASE call[e].number # m.number
      BY <1>0, <2>1, <2>6, <3>1, <3>3, SameCall
    <3> QED BY <3>2, <3>3
  <2>9. \A e \in Callers : Continues(e)
    <3> SUFFICES ASSUME NEW e \in Callers, call'[e].pc # "idle" PROVE Continues(e)
      BY DEF Continues
    <3>1. CASE call[e].number = m.number
      <4>1. call[e].pc # "idle"
        BY <2>7
      <4> QED BY <1>0, <2>5, <3>1, <4>1 DEF Continues
    <3>2. CASE call[e].number # m.number
      BY <1>0, <2>6, <2>7, <3>2 DEF Continues
    <3> QED BY <3>1, <3>2
  <2>10. QueueShape'
    BY <1>0, <2>1, <2>4, <2>9, SameQueue
  <2>11. CacheNames' /\ ReceiptsNameTheirEvents'
    BY <1>0, <2>1 DEF CacheNames, ReceiptsNameTheirEvents, Names
  <2> QED BY <2>8, <2>10, <2>11 DEF NamesInv
<1>11. ASSUME TransactionEnds PROVE NamesInv'
  <2>1. /\ queue' = [queue EXCEPT !["transaction"] = <<>>]
        /\ UNCHANGED <<cache, call, number, receipts>>
    BY <1>11 DEF TransactionEnds
  <2>2. \A e \in Callers : CallShape(e)'
    <3> SUFFICES ASSUME NEW e \in Callers, call'[e].pc # "idle" PROVE CallShape(e)'
      BY DEF CallShape
    <3>1. \A v \in Callers : call'[v].pc # "idle" /\ call'[v].number = call[e].number => v = e
      BY <1>0, <2>1
    <3> QED BY <1>0, <2>1, <3>1, SameCall
  <2>3. \A e \in Callers : Continues(e)
    BY <1>0, <2>1 DEF Continues
  <2>4. \A v \in Producers : \A i \in 1 .. Len(queue'[v]) :
            \E j \in 1 .. Len(queue[v]) : queue'[v][i] = queue[v][j]
    <3> SUFFICES ASSUME NEW v \in Producers, NEW i \in 1 .. Len(queue'[v])
                 PROVE  \E j \in 1 .. Len(queue[v]) : queue'[v][i] = queue[v][j]
      OBVIOUS
    <3>1. CASE v = "transaction"
      <4>1. queue'[v] = <<>> /\ Len(<<>>) = 0
        BY <2>1, <3>1, Components
      <4> QED BY <4>1
    <3>2. CASE v # "transaction"
      BY <2>1, <3>2, Components
    <3> QED BY <3>1, <3>2
  <2>5. QueueShape'
    BY <1>0, <2>1, <2>3, <2>4, SameQueue
  <2>6. CacheNames'
    BY <1>0, <2>1, SameEntries
  <2>7. ReceiptsNameTheirEvents'
    BY <1>0, <2>1, SameReceipts
  <2> QED BY <2>2, <2>5, <2>6, <2>7 DEF NamesInv
<1>12. CASE UNCHANGED vars
  BY <1>12 DEF vars, NamesInv, CacheNames, CallShape, QueueShape, MessageShape, Names, UsesCache,
               Delivered, ReceiptsNameTheirEvents
<1> QED BY <1>1, <1>2, <1>4, <1>6, <1>7, <1>8, <1>9, <1>10, <1>11, <1>12
        DEF Next, ProduceRaises, FlushRaises

\* Both hold in every reachable state.
LEMMA TypesAndNames == Spec => [](TypeOK /\ NamesInv)
<1>1. Init => TypeOK /\ NamesInv
  BY InitType, InitNames
<1>2. TypeOK /\ NamesInv /\ [Next]_vars => (TypeOK /\ NamesInv)'
  BY NextType, NextNames
<1> QED BY <1>1, <1>2, PTL DEF Spec

\* The producer engine keeps its types: no queue is longer than its limit, and the cache
\* never holds more than _MAX_IDEMPOTENCY_ENTRIES.
THEOREM TypeCorrect == Spec => []TypeOK
BY TypesAndNames, PTL

\* What publish returns is true: the receipt of an Event names a record that holds it, also
\* when reports come late, from a call that has raised, or from the cache.
THEOREM ReceiptsAreTrue == Spec => []ReceiptsNameTheirEvents
<1>1. NamesInv => ReceiptsNameTheirEvents
  BY DEF NamesInv
<1> QED BY <1>1, TypesAndNames, PTL

-----------------------------------------------------------------------------
(* PublishedOnce.  First the cache and the keys used.                      *)

\* Taking the element at q out and putting x at the end.
LEMMA MovedToEnd ==
    ASSUME NEW T, NEW s \in Seq(T), NEW q \in 1 .. Len(s), NEW S, S = {q}, NEW x \in T
    PROVE  /\ Append(Without(s, S), x) \in Seq(T)
           /\ Len(Append(Without(s, S), x)) = Len(s)
           /\ \A i \in 1 .. Len(s) : Append(Without(s, S), x)[i] =
                IF i < q THEN s[i] ELSE IF i < Len(s) THEN s[i + 1] ELSE x
<1> DEFINE r == Without(s, S)
<1>1. Len(s) \in Nat /\ q \in Nat
  BY LenProperties
<1>2. q = (CHOOSE i \in S : TRUE) /\ S # {} /\ S \subseteq 1 .. Len(s)
  OBVIOUS
<1>3. /\ r \in Seq(T)
      /\ Len(r) = Len(s) - 1
      /\ \A i \in 1 .. Len(s) - 1 : r[i] = IF i < q THEN s[i] ELSE s[i + 1]
  BY <1>2, WithoutProperties
<1> HIDE DEF r
<1>4. /\ Append(r, x) \in Seq(T)
      /\ Len(Append(r, x)) = Len(r) + 1
      /\ \A i \in 1 .. Len(r) : Append(r, x)[i] = r[i]
      /\ Append(r, x)[Len(r) + 1] = x
  BY <1>3, AppendProperties
<1>5. ASSUME NEW i \in 1 .. Len(s)
      PROVE  Append(r, x)[i] = IF i < q THEN s[i] ELSE IF i < Len(s) THEN s[i + 1] ELSE x
  <2>1. CASE i = Len(s)
    BY <1>1, <1>3, <1>4, <2>1
  <2>2. CASE i < Len(s)
    <3>1. i \in 1 .. Len(r) /\ i \in 1 .. Len(s) - 1
      BY <1>1, <1>3, <2>2
    <3>2. Append(r, x)[i] = IF i < q THEN s[i] ELSE s[i + 1]
      BY <1>3, <1>4, <3>1
    <3> QED BY <2>2, <3>2
  <2>3. i = Len(s) \/ i < Len(s)
    BY <1>1
  <2> QED BY <2>1, <2>2, <2>3
<1>6. Len(Append(r, x)) = Len(s)
  BY <1>1, <1>3, <1>4
<1> QED BY <1>4, <1>5, <1>6 DEF r

\* A key that has been used moves to the end of the history.
LEMMA UseOfOld ==
    ASSUME used \in Seq(Keys), IsInjective(used), NEW q \in 1 .. Len(used)
    PROVE  /\ Len(Use(used[q])) = Len(used)
           /\ \A i \in 1 .. Len(used) : Use(used[q])[i] =
                IF i < q THEN used[i] ELSE IF i < Len(used) THEN used[i + 1] ELSE used[q]
<1> DEFINE S == {i \in 1 .. Len(used) : used[i] = used[q]}
<1>1. S = {q}
  BY DEF IsInjective
<1>2. used[q] \in Keys
  BY ElementOfSeq
<1>3. Use(used[q]) = Append(Without(used, S), used[q])
  BY DEF Use
<1> HIDE DEF S
<1> QED BY <1>1, <1>2, <1>3, MovedToEnd

\* Another key is appended to it.
LEMMA UseOfNew ==
    ASSUME used \in Seq(Keys), NEW k \in Keys, k \notin Range(used)
    PROVE  /\ Len(Use(k)) = Len(used) + 1
           /\ \A i \in 1 .. Len(used) : Use(k)[i] = used[i]
           /\ Use(k)[Len(used) + 1] = k
<1>1. {i \in 1 .. Len(used) : used[i] = k} = {}
  BY DEF Range
<1>2. Use(k) = Append(used, k)
  BY <1>1 DEF Use, Without
<1> QED BY <1>2, AppendProperties

\* The history has each key once, and gains the key used.
LEMMA UseKeepsHistory ==
    ASSUME used \in Seq(Keys), IsInjective(used), NEW k \in Keys
    PROVE  IsInjective(Use(k)) /\ Range(Use(k)) = Range(used) \cup {k}
<1>1. /\ Len(used) \in Nat
      /\ DOMAIN used = 1 .. Len(used)
      /\ DOMAIN Use(k) = 1 .. Len(Use(k))
  BY UseProperties, LenProperties
<1>2. CASE k \in Range(used)
  <2>1. PICK q \in 1 .. Len(used) : used[q] = k
    BY <1>1, <1>2 DEF Range
  <2>2. /\ Len(Use(k)) = Len(used)
        /\ \A i \in 1 .. Len(used) : Use(k)[i] =
                IF i < q THEN used[i] ELSE IF i < Len(used) THEN used[i + 1] ELSE k
    BY <2>1, UseOfOld
  <2>3. ASSUME NEW i \in 1 .. Len(used), NEW j \in 1 .. Len(used), Use(k)[i] = Use(k)[j]
        PROVE  i = j
    <3> DEFINE at(n) == IF n < q THEN n ELSE IF n < Len(used) THEN n + 1 ELSE q
    <3>1. at(i) \in 1 .. Len(used) /\ at(j) \in 1 .. Len(used)
      BY <1>1
    <3>2. Use(k)[i] = used[at(i)] /\ Use(k)[j] = used[at(j)]
      BY <1>1, <2>1, <2>2
    <3>3. at(i) = at(j)
      BY <1>1, <2>3, <3>1, <3>2 DEF IsInjective
    <3> QED BY <1>1, <3>3
  <2>4. IsInjective(Use(k))
    BY <1>1, <2>2, <2>3 DEF IsInjective
  <2>5. ASSUME NEW i \in 1 .. Len(used) PROVE Use(k)[i] \in Range(used)
    <3>1. i + 1 \in 1 .. Len(used) \/ ~(i < Len(used))
      BY <1>1
    <3> QED BY <1>1, <2>1, <2>2, <3>1 DEF Range
  <2>6. ASSUME NEW i \in 1 .. Len(used) PROVE used[i] \in Range(Use(k))
    <3> DEFINE to == IF i < q THEN i ELSE IF i = q THEN Len(used) ELSE i - 1
    <3>1. to \in 1 .. Len(used)
      BY <1>1
    <3>2. Use(k)[to] = used[i]
      BY <1>1, <2>1, <2>2, <3>1
    <3> QED BY <1>1, <2>2, <3>1, <3>2 DEF Range
  <2> QED BY <1>1, <1>2, <2>2, <2>4, <2>5, <2>6 DEF Range
<1>3. CASE k \notin Range(used)
  <2>1. /\ Len(Use(k)) = Len(used) + 1
        /\ \A i \in 1 .. Len(used) : Use(k)[i] = used[i]
        /\ Use(k)[Len(used) + 1] = k
    BY <1>3, UseOfNew
  <2>2. IsInjective(Use(k))
    BY <1>1, <1>3, <2>1 DEF IsInjective, Range
  <2> QED BY <1>1, <2>1, <2>2 DEF Range
<1> QED BY <1>2, <1>3

\* With a key of the cache used again, both sequences are reordered alike.
LEMMA HorizonOfMove ==
    ASSUME TypeOK, Horizon, NEW k \in Keys, NEW p \in Entries(k), NEW e \in CacheEntries,
           e.key = k
    PROVE  LET s == Append(Without(cache, Entries(k)), e)
           IN  /\ k \in Range(used)
               /\ s \in Seq(CacheEntries) /\ Len(s) = Len(cache)
               /\ Len(Use(k)) = Len(used)
               /\ \A i \in 1 .. Len(s) : s[i].key = Use(k)[Len(used) - Len(cache) + i]
<1> DEFINE s == Append(Without(cache, Entries(k)), e)
           h == Len(used) - Len(cache)
           q == h + p
<1>0. /\ used \in Seq(Keys) /\ Len(used) \in Nat /\ IsInjective(used)
      /\ DOMAIN used = 1 .. Len(used)
  BY LenProperties DEF TypeOK, Horizon
<1>1. /\ cache \in Seq(CacheEntries) /\ Len(cache) \in Nat
      /\ p \in 1 .. Len(cache) /\ cache[p].key = k
      /\ \A i \in 1 .. Len(cache) : cache[i].key = used[h + i]
  BY Components DEF Horizon, Entries
<1>2. /\ Len(cache) \in Nat /\ Len(used) \in Nat /\ p \in Nat /\ 1 <= p /\ p <= Len(cache)
      /\ h \in Nat /\ h + Len(cache) = Len(used)
  <2>1. Len(cache) <= Len(used)
    BY <1>0, <1>1 DEF Horizon
  <2> QED BY <1>0, <1>1, <2>1
<1> HIDE DEF h
<1>2a. q \in 1 .. Len(used) /\ used[q] = k
  BY <1>1, <1>2
<1>3. Entries(k) = {p}
  <2> SUFFICES ASSUME NEW i \in 1 .. Len(cache), cache[i].key = k PROVE i = p
    BY DEF Entries
  <2>1. h + i \in 1 .. Len(used) /\ used[h + i] = used[q]
    BY <1>1, <1>2, <1>2a
  <2>2. h + i = q
    BY <1>0, <1>2a, <2>1 DEF IsInjective
  <2> QED BY <1>2, <2>2
<1>4. /\ s \in Seq(CacheEntries) /\ Len(s) = Len(cache)
      /\ \A i \in 1 .. Len(cache) :
            s[i] = IF i < p THEN cache[i] ELSE IF i < Len(cache) THEN cache[i + 1] ELSE e
  BY <1>1, <1>3, MovedToEnd
<1>5. /\ Len(Use(k)) = Len(used)
      /\ \A i \in 1 .. Len(used) :
            Use(k)[i] = IF i < q THEN used[i] ELSE IF i < Len(used) THEN used[i + 1] ELSE k
  BY <1>0, <1>2a, UseOfOld
<1> HIDE DEF s
<1>6. ASSUME NEW i \in 1 .. Len(s) PROVE s[i].key = Use(k)[h + i]
  <2>1. i \in 1 .. Len(cache) /\ h + i \in 1 .. Len(used) /\ h + i + 1 = h + (i + 1)
    BY <1>1, <1>2, <1>4
  <2>2. CASE i < p
    BY <1>1, <1>2, <1>4, <1>5, <2>1, <2>2
  <2>3. CASE ~(i < p) /\ i < Len(cache)
    <3>1. s[i] = cache[i + 1] /\ i + 1 \in 1 .. Len(cache)
      BY <1>1, <1>4, <2>1, <2>3
    <3>2. Use(k)[h + i] = used[h + i + 1]
      BY <1>1, <1>2, <1>5, <2>1, <2>3
    <3> QED BY <1>1, <2>1, <3>1, <3>2
  <2>4. CASE ~(i < p) /\ ~(i < Len(cache))
    <3>1. s[i] = e
      BY <1>1, <1>4, <2>1, <2>4
    <3>2. Use(k)[h + i] = k
      BY <1>1, <1>2, <1>5, <2>1, <2>4
    <3> QED BY <3>1, <3>2
  <2> QED BY <2>2, <2>3, <2>4
<1>7. k \in Range(used)
  BY <1>0, <1>2a DEF Range
<1> QED BY <1>4, <1>5, <1>6, <1>7 DEF s, h

\* move_to_end, and the assignment of a key, keep the cache on the horizon.
LEMMA MoveKeepsHorizon ==
    ASSUME TypeOK, Horizon, NEW k \in Keys, Entries(k) # {},
           cache' = MoveToEnd(k), used' = Use(k)
    PROVE  Horizon' /\ Range(used') = Range(used)
<1>1. PICK p : p = CHOOSE i \in Entries(k) : TRUE
  OBVIOUS
<1>2. p \in Entries(k) /\ p \in 1 .. Len(cache)
  BY <1>1 DEF Entries
<1>3. cache[p] \in CacheEntries /\ cache[p].key = k
  BY <1>2, Components, ElementOfSeq DEF Entries
<1>4. cache' = Append(Without(cache, Entries(k)), cache[p])
  BY <1>1 DEF MoveToEnd
<1>5. /\ k \in Range(used)
      /\ Len(cache') = Len(cache)
      /\ Len(used') = Len(used)
      /\ \A i \in 1 .. Len(cache') : cache'[i].key = used'[Len(used) - Len(cache) + i]
  BY <1>2, <1>3, <1>4, HorizonOfMove
<1>6. IsInjective(used') /\ Range(used') = Range(used)
  <2>1. used \in Seq(Keys) /\ IsInjective(used)
    BY DEF TypeOK, Horizon
  <2>2. IsInjective(Use(k)) /\ Range(Use(k)) = Range(used) \cup {k}
    BY <2>1, UseKeepsHistory
  <2> QED BY <1>5, <2>2
<1> QED BY <1>5, <1>6 DEF Horizon

\* The store after delivery, which may evict the oldest entry, does too.
LEMMA StoreKeepsHorizon ==
    ASSUME TypeOK, Horizon, NEW e \in CacheEntries, cache' = Stored(e), used' = Use(e.key)
    PROVE  Horizon' /\ Range(used') = Range(used) \cup {e.key}
<1> DEFINE k == e.key
           s == Append(Without(cache, Entries(k)), e)
           f == (IF Len(s) > MaxEntries THEN Len(s) - MaxEntries ELSE 0) + 1
           h == Len(used) - Len(cache)
<1>0. k \in Keys
  BY DEF CacheEntries
<1>1. /\ used \in Seq(Keys) /\ IsInjective(used) /\ DOMAIN used = 1 .. Len(used)
      /\ cache \in Seq(CacheEntries)
  BY LenProperties, Components DEF Horizon
<1>1a. \A i \in 1 .. Len(cache) : cache[i].key = used[h + i]
  BY DEF Horizon
<1>1b. /\ Len(used) \in Nat /\ Len(cache) \in Nat /\ MaxEntries \in Nat /\ MaxEntries >= 1
       /\ Len(cache) <= MaxEntries
       /\ Len(cache) < MaxEntries => Len(cache) = Len(used)
       /\ h \in Nat /\ h + Len(cache) = Len(used)
  <2>1. Len(used) \in Nat /\ Len(cache) \in Nat
    BY <1>1, LenProperties
  <2>2. Len(cache) = IF Len(used) < MaxEntries THEN Len(used) ELSE MaxEntries
    BY DEF Horizon
  <2> QED BY <2>1, <2>2
<1>2. IsInjective(used') /\ Range(used') = Range(used) \cup {k}
  BY <1>0, <1>1, UseKeepsHistory
<1>3. cache' = SubSeq(s, f, Len(s))
  BY DEF Stored
<1>4. ASSUME s \in Seq(CacheEntries), Len(s) \in Nat, Len(s) >= 1
      PROVE  /\ f \in Nat /\ 1 <= f /\ f <= Len(s)
             /\ Len(cache') = Len(s) - f + 1
             /\ \A i \in 1 .. Len(cache') : cache'[i] = s[f + i - 1]
  <2> HIDE DEF s
  <2>1. f \in Nat /\ 1 <= f /\ f <= Len(s)
    BY <1>1b, <1>4
  <2> HIDE DEF f
  <2>2. \A i \in f .. Len(s) : s[i] \in CacheEntries
    BY <1>4, <2>1, ElementOfSeq
  <2>3. /\ Len(SubSeq(s, f, Len(s))) = IF f <= Len(s) THEN Len(s) - f + 1 ELSE 0
        /\ \A i \in 1 .. Len(s) - f + 1 : SubSeq(s, f, Len(s))[i] = s[f + i - 1]
    BY <1>4, <2>1, <2>2, SubSeqProperties
  <2> QED BY <1>3, <1>4, <2>1, <2>3
<1> HIDE DEF h
<1>5. CASE Entries(k) # {}
  <2>1. PICK p : p \in Entries(k)
    BY <1>5
  <2>2. /\ s \in Seq(CacheEntries) /\ Len(s) = Len(cache)
        /\ Len(used') = Len(used)
        /\ \A i \in 1 .. Len(s) : s[i].key = used'[h + i]
    BY <1>0, <2>1, HorizonOfMove DEF h
  <2>3. Len(cache) >= 1
    BY <1>1b, <2>1 DEF Entries
  <2> HIDE DEF s
  <2>4. f = 1
    BY <1>1b, <2>2
  <2>5. /\ Len(cache') = Len(cache)
        /\ \A i \in 1 .. Len(cache') : cache'[i] = s[i]
    BY <1>1b, <1>4, <2>2, <2>3, <2>4
  <2>6. Len(cache') = IF Len(used') < MaxEntries THEN Len(used') ELSE MaxEntries
    BY <2>2, <2>5 DEF Horizon
  <2>7. \A i \in 1 .. Len(cache') : cache'[i].key = used'[Len(used') - Len(cache') + i]
    BY <2>2, <2>5 DEF h
  <2> QED BY <1>2, <2>6, <2>7 DEF Horizon
<1>6. CASE Entries(k) = {}
  <2>1. /\ s = Append(cache, e)
        /\ s \in Seq(CacheEntries) /\ Len(s) = Len(cache) + 1
        /\ \A i \in 1 .. Len(cache) : s[i] = cache[i]
        /\ s[Len(cache) + 1] = e
    BY <1>1, <1>6, AppendProperties DEF Without
  <2> HIDE DEF s
  <2>2. /\ f = IF Len(cache) = MaxEntries THEN 2 ELSE 1
        /\ Len(cache') = Len(cache) + 2 - f
        /\ \A i \in 1 .. Len(cache') : cache'[i] = s[f + i - 1]
    <3>1. f = IF Len(cache) = MaxEntries THEN 2 ELSE 1
      BY <1>1b, <2>1
    <3> HIDE DEF f
    <3> QED BY <1>1b, <1>4, <2>1, <3>1
  <2> HIDE DEF f
  <2>3. CASE k \notin Range(used)
    <3>1. /\ Len(used') = Len(used) + 1
          /\ \A i \in 1 .. Len(used) : used'[i] = used[i]
          /\ used'[Len(used) + 1] = k
      BY <1>0, <1>1, <2>3, UseOfNew
    <3>2. Len(cache') = IF Len(used') < MaxEntries THEN Len(used') ELSE MaxEntries
      <4>1. /\ Len(cache) = MaxEntries => Len(cache') = MaxEntries
            /\ Len(cache) # MaxEntries => Len(cache') = Len(cache) + 1
        BY <1>1b, <2>2
      <4>2. Len(used') = Len(used) + 1
        BY <3>1
      <4> QED BY <1>1b, <4>1, <4>2
    <3>3. ASSUME NEW i \in 1 .. Len(cache')
          PROVE  cache'[i].key = used'[Len(used') - Len(cache') + i]
      <4>0. (f = 1 \/ f = 2) /\ i \in Nat /\ 1 <= i /\ i <= Len(cache) + 2 - f
        BY <1>1b, <2>2
      <4>1. PICK n : n = f + i - 1
        OBVIOUS
      <4>2. n \in Nat /\ 1 <= n /\ n <= Len(cache) + 1 /\ cache'[i] = s[n]
        BY <1>1b, <2>2, <4>0, <4>1
      <4>2a. Len(used') - Len(cache') + i = h + n
        <5>1. Len(used') = h + Len(cache) + 1 /\ Len(cache') = Len(cache) + 2 - f /\ f \in Nat
          BY <1>1b, <2>2, <3>1, <4>0
        <5> QED BY <1>1b, <4>0, <4>1, <5>1
      <4>3. CASE n = Len(cache) + 1
        <5>1. h + n = Len(used) + 1
          BY <1>1b, <4>3
        <5> QED BY <2>1, <3>1, <4>2, <4>2a, <4>3, <5>1
      <4>4. CASE n # Len(cache) + 1
        <5>1. n \in 1 .. Len(cache) /\ h + n \in 1 .. Len(used)
          BY <1>1b, <4>2, <4>4
        <5>2. cache'[i].key = used[h + n]
          BY <1>1a, <2>1, <4>2, <5>1
        <5> QED BY <3>1, <4>2a, <5>1, <5>2
      <4> QED BY <4>3, <4>4
    <3> QED BY <1>2, <3>2, <3>3 DEF Horizon
  <2>4. CASE k \in Range(used)
    <3>1. PICK q \in 1 .. Len(used) : used[q] = k
      BY <1>1, <2>4 DEF Range
    <3>2. /\ Len(used') = Len(used)
          /\ \A i \in 1 .. Len(used) : used'[i] =
                IF i < q THEN used[i] ELSE IF i < Len(used) THEN used[i + 1] ELSE k
      BY <1>1, <3>1, UseOfOld
    <3>3. q <= h
      <4> SUFFICES ASSUME ~(q <= h) PROVE FALSE
        OBVIOUS
      <4>1. q - h \in 1 .. Len(cache) /\ h + (q - h) = q
        BY <1>1b
      <4>2. cache[q - h].key = k
        BY <1>1a, <3>1, <4>1
      <4> QED BY <1>6, <4>1, <4>2 DEF Entries
    <3>4. Len(cache) = MaxEntries /\ f = 2 /\ Len(cache') = Len(cache)
      BY <1>1b, <2>2, <3>3
    <3>5. ASSUME NEW i \in 1 .. Len(cache')
          PROVE  cache'[i].key = used'[Len(used') - Len(cache') + i]
      <4>1. cache'[i] = s[i + 1] /\ Len(used') - Len(cache') + i = h + i
            /\ h + i \in 1 .. Len(used) /\ ~(h + i < q)
        <5>1. i \in Nat /\ 1 <= i /\ i <= Len(cache) /\ q \in Nat
          BY <1>1b, <3>4
        <5>2. cache'[i] = s[2 + i - 1] /\ 2 + i - 1 = i + 1
          BY <2>2, <3>4, <5>1
        <5>3. Len(used') - Len(cache') + i = h + i
          <6>1. Len(used') = Len(used) /\ Len(cache') = Len(cache)
            BY <3>2, <3>4
          <6>2. Len(used) - Len(cache) = h
            BY <1>1b
          <6> QED BY <6>1, <6>2
        <5>4. h + i \in 1 .. Len(used) /\ ~(h + i < q)
          BY <1>1b, <3>3, <5>1
        <5> QED BY <5>2, <5>3, <5>4
      <4>2. CASE i = Len(cache)
        <5>1. h + i = Len(used)
          BY <1>1b, <4>2
        <5> QED BY <2>1, <3>2, <4>1, <4>2, <5>1
      <4>3. CASE i # Len(cache)
        <5>1. i + 1 \in 1 .. Len(cache) /\ h + i < Len(used) /\ h + (i + 1) = h + i + 1
          BY <1>1b, <3>4, <4>1, <4>3
        <5>2. cache'[i].key = used[h + i + 1]
          BY <1>1a, <2>1, <4>1, <5>1
        <5> QED BY <3>2, <4>1, <5>1, <5>2
      <4> QED BY <4>2, <4>3
    <3>6. Len(cache') = IF Len(used') < MaxEntries THEN Len(used') ELSE MaxEntries
      BY <1>1b, <3>2, <3>4
    <3> QED BY <1>2, <3>5, <3>6 DEF Horizon
  <2> QED BY <2>3, <2>4
<1> QED BY <1>2, <1>5, <1>6

-----------------------------------------------------------------------------
(* Then the publishes under a key without an excuse.                       *)

\* A key that is neither in the cache nor past its horizon has not been used.
LEMMA UnusedKey ==
    ASSUME TypeOK, Horizon, NEW k \in Keys, Entries(k) = {}, k \notin Past
    PROVE  k \notin Range(used)
<1> SUFFICES ASSUME k \in Range(used) PROVE FALSE
  OBVIOUS
<1>1. /\ used \in Seq(Keys) /\ Len(used) \in Nat /\ DOMAIN used = 1 .. Len(used)
      /\ Len(cache) \in Nat
  BY LenProperties, Components
<1>2. PICK q \in 1 .. Len(used) : used[q] = k
  BY <1>1 DEF Range
<1>3. k \in Recent
  BY <1>2 DEF Past
<1>4. PICK j \in 1 .. Len(used) : j > Len(used) - MaxEntries /\ used[j] = k
  BY <1>3 DEF Recent
<1>5. PICK n : n = j - (Len(used) - Len(cache))
  OBVIOUS
<1>6. n \in 1 .. Len(cache) /\ Len(used) - Len(cache) + n = j
  <2>1. Len(cache) = IF Len(used) < MaxEntries THEN Len(used) ELSE MaxEntries
    BY DEF Horizon
  <2>2. j \in Nat /\ 1 <= j /\ j <= Len(used)
    BY <1>1
  <2>3. CASE Len(used) < MaxEntries
    BY <1>1, <1>5, <2>1, <2>2, <2>3
  <2>4. CASE ~(Len(used) < MaxEntries)
    <3>1. Len(cache) = MaxEntries /\ j > Len(used) - Len(cache)
      BY <1>4, <2>1, <2>4
    <3> QED BY <1>1, <1>5, <2>2, <3>1
  <2> QED BY <2>3, <2>4
<1>7. cache[n].key = k
  BY <1>4, <1>6 DEF Horizon
<1> QED BY <1>6, <1>7 DEF Entries

\* The publishes under k continue, none begins, none ends, and nothing more is produced.
LEMMA SamePublish ==
    ASSUME NEW k, OnePublish(k),
           \A c \in Callers : Publishes(c, k)' => Publishes(c, k),
           \A c \in Callers : Publishes(c, k) =>
                /\ Publishes(c, k)'
                /\ call'[c].data = call[c].data
                /\ Len(call'[c].deliveries) = Len(call[c].deliveries),
           k \in Range(used') <=> k \in Range(used),
           \A e \in Events : Produced(e, k)' => Produced(e, k)
    PROVE  OnePublish(k)'
<1>1. \A c, e \in Callers : Publishes(c, k)' /\ Publishes(e, k)' => c = e
  BY DEF OnePublish
<1>2. \A c \in Callers : Publishes(c, k)' => k \notin Range(used')
  BY DEF OnePublish
<1>3. ASSUME NEW e \in Events, Produced(e, k)'
      PROVE  \/ k \in Range(used')
             \/ \E c \in Callers : /\ Publishes(c, k)'
                                   /\ \E i \in 1 .. Len(call'[c].deliveries) : call'[c].data[i] = e
  <2>1. CASE k \in Range(used)
    BY <2>1
  <2>2. CASE k \notin Range(used)
    <3>1. PICK c \in Callers : /\ Publishes(c, k)
                               /\ \E i \in 1 .. Len(call[c].deliveries) : call[c].data[i] = e
      BY <1>3, <2>2 DEF OnePublish
    <3> QED BY <3>1
  <2> QED BY <2>1, <2>2
<1> QED BY <1>1, <1>2, <1>3 DEF OnePublish

\* Records keep their key, their Event and their producer, and the queue of the shared
\* producer stays as it is.
SameRecords ==
    /\ Len(log') = Len(log)
    /\ \A i \in 1 .. Len(log) : /\ log'[i].key = log[i].key
                                /\ log'[i].event = log[i].event
                                /\ log'[i].via = log[i].via
    /\ queue'["plain"] = queue["plain"]

\* Then what has been produced, and how often, stays as it is.
LEMMA SameProduced ==
    ASSUME SameRecords, NEW k
    PROVE  /\ \A e \in Events : Produced(e, k)' <=> Produced(e, k)
           /\ OneRecord(k) => OneRecord(k)'
<1>1. \A i \in 1 .. Len(log) : Logged(i, k)' <=> Logged(i, k)
  BY DEF SameRecords, Logged
<1>2. \A i \in 1 .. Len(queue["plain"]) : Waiting(i, k)' <=> Waiting(i, k)
  BY DEF SameRecords, Waiting
<1>3. ASSUME NEW e \in Events PROVE Produced(e, k)' <=> Produced(e, k)
  BY <1>1, <1>2 DEF SameRecords, Produced
<1>4. OneRecord(k) => OneRecord(k)'
  BY <1>1, <1>2 DEF SameRecords, OneRecord
<1> QED BY <1>3, <1>4

\* Nothing has been published initially.
LEMMA InitOnce == Init => OnceInv
<1> SUFFICES ASSUME Init PROVE OnceInv
  OBVIOUS
<1>1. Len(<<>>) = 0 /\ Range(<<>>) = {} /\ IsInjective(<<>>)
  BY DEF Range, IsInjective
<1>2. Horizon
  BY <1>1 DEF Init, Horizon
<1>3. \A c \in Callers, k \in Keys : ~Publishes(c, k)
  BY DEF Init, Idle, Publishes
<1>4. Len(log) = 0 /\ Len(queue["plain"]) = 0
  BY <1>1 DEF Init, Producers
<1>5. \A k \in Keys : OnePublish(k) /\ OneRecord(k)
  BY <1>3, <1>4 DEF OnePublish, OneRecord, Produced
<1> QED BY <1>2, <1>5 DEF OnceInv

\* A report changes an outcome in the call it is for, and nothing else of it.
LEMMA ReportKeepsCalls ==
    ASSUME TypeOK, NamesInv, NEW w \in Producers, Report(w), NEW e \in Callers
    PROVE  /\ call'[e].pc = call[e].pc /\ call'[e].key = call[e].key
           /\ call'[e].data = call[e].data /\ call'[e].via = call[e].via
           /\ Len(call'[e].deliveries) = Len(call[e].deliveries)
<1> DEFINE m == Head(queue[w])
<1>1. PICK outcome :
            call' = [c \in Callers |->
                IF call[c].pc # "idle" /\ call[c].number = m.number
                THEN [call[c] EXCEPT !.deliveries[m.index] = outcome]
                ELSE call[c]]
  BY DEF Report
<1>2. call[e] \in Call /\ call[e].deliveries \in Seq(Int)
  BY Components DEF Call
<1>3. CASE call[e].pc # "idle" /\ call[e].number = m.number
  <2> DEFINE n == [call[e].deliveries EXCEPT ![m.index] = outcome]
  <2>1. call'[e] = [call[e] EXCEPT !.deliveries = n]
    BY <1>1, <1>3
  <2>2. DOMAIN n = 1 .. Len(call[e].deliveries) /\ Len(call[e].deliveries) \in Nat
    BY <1>2, LenProperties
  <2> HIDE DEF n
  <2>3. Len(n) = Len(call[e].deliveries)
    BY <2>2
  <2> QED BY <1>2, <2>1, <2>3 DEF Call
<1>4. CASE ~(call[e].pc # "idle" /\ call[e].number = m.number)
  BY <1>1, <1>4
<1> QED BY <1>3, <1>4

\* Every step keeps it, when the Events of a batch are distinct.
LEMMA NextOnce ==
    ASSUME \A d \in Batches : IsInjective(d),
           TypeOK, TypeOK', NamesInv, OnceInv, [Next]_vars
    PROVE  OnceInv'
<1>0. /\ Horizon
      /\ \A k \in Keys \ excused : OnePublish(k) /\ OneRecord(k)
      /\ \A c \in Callers : CallShape(c) /\ call[c] \in Call
      /\ used \in Seq(Keys) /\ IsInjective(used)
  BY DEF OnceInv, NamesInv, TypeOK, Horizon
\* A step that leaves the cache, its history, the log and the shared queue alone.
<1>1. ASSUME UNCHANGED <<cache, used>>, SameRecords, excused \subseteq excused',
             \A k \in Keys \ excused', c \in Callers : Publishes(c, k)' => Publishes(c, k),
             \A k \in Keys \ excused', c \in Callers : Publishes(c, k) =>
                /\ Publishes(c, k)'
                /\ call'[c].data = call[c].data
                /\ Len(call'[c].deliveries) = Len(call[c].deliveries)
      PROVE  OnceInv'
  <2>1. Horizon'
    BY <1>0, <1>1 DEF Horizon
  <2>2. ASSUME NEW k \in Keys \ excused' PROVE OnePublish(k)' /\ OneRecord(k)'
    <3>1. k \in Keys \ excused /\ OnePublish(k) /\ OneRecord(k)
      BY <1>0, <1>1
    <3>2. OneRecord(k)' /\ \A e \in Events : Produced(e, k)' => Produced(e, k)
      BY <1>1, <3>1, SameProduced
    <3>3. OnePublish(k)'
      BY <1>1, <3>1, <3>2, SamePublish
    <3> QED BY <3>2, <3>3
  <2> QED BY <2>1, <2>2 DEF OnceInv
<1>2. ASSUME NEW c \in Callers, PublishCached(c) PROVE OnceInv'
  <2>1. PICK k \in Keys :
            /\ Entries(k) # {}
            /\ \/ cache' = MoveToEnd(k) /\ used' = Use(k)
               \/ UNCHANGED <<cache, used>>
    BY <1>2 DEF PublishCached
  <2>2. UNCHANGED <<log, queue, call, number, excused>>
    BY <1>2 DEF PublishCached
  <2>3. Horizon' /\ Range(used') = Range(used)
    <3>1. CASE cache' = MoveToEnd(k) /\ used' = Use(k)
      BY <1>0, <2>1, <3>1, MoveKeepsHorizon
    <3>2. CASE UNCHANGED <<cache, used>>
      BY <1>0, <3>2 DEF Horizon
    <3> QED BY <2>1, <3>1, <3>2
  <2>4. ASSUME NEW j \in Keys \ excused' PROVE OnePublish(j)' /\ OneRecord(j)'
    <3>1. j \in Keys \ excused /\ OnePublish(j) /\ OneRecord(j)
      BY <1>0, <2>2
    <3>2. SameRecords
      BY <2>2 DEF SameRecords
    <3>3. OneRecord(j)' /\ \A e \in Events : Produced(e, j)' => Produced(e, j)
      BY <3>1, <3>2, SameProduced
    <3>4. OnePublish(j)'
      BY <2>2, <2>3, <3>1, <3>3, SamePublish DEF Publishes
    <3> QED BY <3>3, <3>4
  <2> QED BY <2>3, <2>4 DEF OnceInv
<1>3. ASSUME NEW c \in Callers, PublishBegin(c) PROVE OnceInv'
  <2>1. PICK k \in Keys \cup {NoKey}, d \in Batches, w \in Producers :
            /\ UsesCache(k, w) => Entries(k) = {}
            /\ call' = [call EXCEPT ![c] =
                  [pc |-> "produce", key |-> k, data |-> d, via |-> w, number |-> number + 1,
                   deliveries |-> <<>>]]
            /\ excused' = IF k \in Past \/ Busy(k) THEN excused \cup ({k} \ {NoKey})
                          ELSE excused
    BY <1>3 DEF PublishBegin
  <2>2. call[c].pc = "idle" /\ UNCHANGED <<log, queue, cache, used, receipts>>
    BY <1>3 DEF PublishBegin
  <2>3. /\ call'[c] = [pc |-> "produce", key |-> k, data |-> d, via |-> w, number |-> number + 1,
                       deliveries |-> <<>>]
        /\ \A e \in Callers \ {c} : call'[e] = call[e]
    BY <2>1, Components
  <2>4. Horizon' /\ SameRecords
    BY <1>0, <2>2 DEF Horizon, SameRecords
  <2>5. ASSUME NEW j \in Keys \ excused' PROVE OnePublish(j)' /\ OneRecord(j)'
    <3>1. j \in Keys \ excused /\ OnePublish(j) /\ OneRecord(j)
      BY <1>0, <2>1
    <3>2. OneRecord(j)' /\ \A e \in Events : Produced(e, j)' => Produced(e, j)
      BY <2>4, <3>1, SameProduced
    <3>3. CASE j = k /\ w = "plain"
      <4>1. k \in Keys /\ k # NoKey
        BY <3>1, <3>3
      <4>2. k \notin Past /\ ~Busy(k)
        BY <2>1, <3>3, <4>1
      <4>3. Entries(k) = {}
        BY <2>1, <3>3, <4>1 DEF UsesCache
      <4>4. k \notin Range(used)
        BY <1>0, <4>1, <4>2, <4>3, UnusedKey
      <4>5. \A e \in Callers : ~Publishes(e, k)
        BY <4>2 DEF Busy, Publishes
      <4>6. \A e \in Callers : Publishes(e, k)' => e = c
        BY <2>3, <4>5 DEF Publishes
      <4>7. \A e \in Events : ~Produced(e, k)'
        BY <3>1, <3>2, <3>3, <4>4, <4>5 DEF OnePublish
      <4>8. OnePublish(k)'
        BY <2>2, <4>4, <4>6, <4>7 DEF OnePublish
      <4> QED BY <3>2, <3>3, <4>8
    <3>4. CASE ~(j = k /\ w = "plain")
      <4>1. ASSUME NEW e \in Callers
            PROVE  /\ Publishes(e, j)' => Publishes(e, j)
                   /\ Publishes(e, j) => Publishes(e, j)' /\ call'[e] = call[e]
        <5>1. CASE e = c
          BY <2>2, <2>3, <3>4, <5>1 DEF Publishes
        <5>2. CASE e # c
          BY <2>3, <5>2 DEF Publishes
        <5> QED BY <5>1, <5>2
      <4>2. OnePublish(j)'
        BY <2>2, <3>1, <3>2, <4>1, SamePublish
      <4> QED BY <3>2, <4>2
    <3> QED BY <3>3, <3>4
  <2> QED BY <2>4, <2>5 DEF OnceInv
<1>4. ASSUME NEW c \in Callers, Raise(c), UNCHANGED queue PROVE OnceInv'
  <2>1. /\ call'[c] = Idle /\ \A e \in Callers \ {c} : call'[e] = call[e]
        /\ excused' = excused \cup ({call[c].key} \ {NoKey})
        /\ UNCHANGED <<log, queue, cache, used>>
    BY <1>4, Components DEF Raise
  <2>2. SameRecords
    BY <2>1 DEF SameRecords
  <2>3. ASSUME NEW k \in Keys \ excused', NEW e \in Callers
        PROVE  /\ Publishes(e, k)' => Publishes(e, k)
               /\ Publishes(e, k) => Publishes(e, k)' /\ call'[e] = call[e]
    <3>1. CASE e = c
      BY <2>1, <3>1 DEF Publishes, Idle
    <3>2. CASE e # c
      BY <2>1, <3>2 DEF Publishes
    <3> QED BY <3>1, <3>2
  <2> QED BY <1>1, <2>1, <2>2, <2>3
<1>5. ASSUME NEW c \in Callers, FlushReturns(c) PROVE OnceInv'
  <2>1. UNCHANGED <<log, queue, cache, number, used, excused>> /\ call[c].pc = "flush"
    BY <1>5 DEF FlushReturns
  <2>2. SameRecords
    BY <2>1 DEF SameRecords
  <2>3. /\ UsesCache(call[c].key, call[c].via) => call' = [call EXCEPT ![c].pc = "store"]
        /\ ~UsesCache(call[c].key, call[c].via) => call' = [call EXCEPT ![c] = Idle]
    BY <1>5 DEF FlushReturns
  <2>4. /\ UsesCache(call[c].key, call[c].via) => call'[c] = [call[c] EXCEPT !.pc = "store"]
        /\ ~UsesCache(call[c].key, call[c].via) => call'[c] = Idle
        /\ \A e \in Callers \ {c} : call'[e] = call[e]
    BY <2>3, Components
  <2>5. ASSUME NEW k \in Keys, NEW e \in Callers
        PROVE  /\ Publishes(e, k)' => Publishes(e, k)
               /\ Publishes(e, k) => /\ Publishes(e, k)'
                                     /\ call'[e].data = call[e].data
                                     /\ call'[e].deliveries = call[e].deliveries
    <3>1. CASE e = c /\ UsesCache(call[c].key, call[c].via)
      <4>1. /\ call'[e].pc = "store" /\ call'[e].key = call[e].key /\ call'[e].via = call[e].via
            /\ call'[e].data = call[e].data /\ call'[e].deliveries = call[e].deliveries
        BY <1>0, <2>4, <3>1 DEF Call
      <4> QED BY <2>1, <3>1, <4>1 DEF Publishes
    <3>2. CASE e = c /\ ~UsesCache(call[c].key, call[c].via)
      BY <2>1, <2>4, <3>2 DEF Publishes, UsesCache, Idle
    <3>3. CASE e # c
      BY <2>4, <3>3 DEF Publishes
    <3> QED BY <3>1, <3>2, <3>3
  <2> QED BY <1>1, <2>1, <2>2, <2>5
<1>6. ASSUME NEW c \in Callers, StoreReceipts(c) PROVE OnceInv'
  <2> DEFINE x == [key |-> call[c].key, data |-> call[c].data, result |-> call[c].deliveries]
  <2>1. /\ call[c].pc = "store" /\ UsesCache(call[c].key, call[c].via) /\ Delivered(c)
    BY <1>0, <1>6 DEF StoreReceipts, CallShape
  <2>2. /\ cache' = Stored(x) /\ used' = Use(x.key) /\ x.key = call[c].key
        /\ call' = [call EXCEPT ![c] = Idle] /\ UNCHANGED <<log, queue, number, excused>>
    BY <1>6 DEF StoreReceipts
  <2>3. x \in CacheEntries
    <3>1. call[c].data \in Batches /\ call[c].deliveries \in Seq(Nat)
      BY <1>0, <2>1, DeliveredOffsets
    <3>2. call[c].key \in Keys
      BY <1>0, <2>1 DEF UsesCache, Call
    <3> QED BY <3>1, <3>2 DEF CacheEntries
  <2> HIDE DEF x
  <2>4. Horizon' /\ Range(used') = Range(used) \cup {call[c].key}
    BY <1>0, <2>2, <2>3, StoreKeepsHorizon
  <2>5. call'[c] = Idle /\ \A e \in Callers \ {c} : call'[e] = call[e]
    BY <2>2, Components
  <2>6. SameRecords
    BY <2>2 DEF SameRecords
  <2>7. ASSUME NEW k \in Keys \ excused' PROVE OnePublish(k)' /\ OneRecord(k)'
    <3>1. k \in Keys \ excused /\ OnePublish(k) /\ OneRecord(k)
      BY <1>0, <2>2
    <3>2. OneRecord(k)' /\ \A e \in Events : Produced(e, k)' => Produced(e, k)
      BY <2>6, <3>1, SameProduced
    <3>3. CASE k = call[c].key
      <4>1. Publishes(c, k)
        BY <2>1, <3>3 DEF Publishes, UsesCache
      <4>2. \A e \in Callers : ~Publishes(e, k)'
        <5> SUFFICES ASSUME NEW e \in Callers, Publishes(e, k)' PROVE FALSE
          OBVIOUS
        <5>1. e # c
          BY <2>5 DEF Publishes, Idle
        <5>2. Publishes(e, k)
          BY <2>5, <5>1 DEF Publishes
        <5> QED BY <3>1, <4>1, <5>1, <5>2 DEF OnePublish
      <4>3. k \in Range(used')
        BY <2>4, <3>3
      <4>4. OnePublish(k)'
        BY <4>2, <4>3 DEF OnePublish
      <4> QED BY <3>2, <4>4
    <3>4. CASE k # call[c].key
      <4>1. ASSUME NEW e \in Callers
            PROVE  /\ Publishes(e, k)' => Publishes(e, k)
                   /\ Publishes(e, k) => Publishes(e, k)' /\ call'[e] = call[e]
        <5>1. CASE e = c
          BY <2>5, <3>4, <5>1 DEF Publishes, Idle
        <5>2. CASE e # c
          BY <2>5, <5>2 DEF Publishes
        <5> QED BY <5>1, <5>2
      <4>2. k \in Range(used') <=> k \in Range(used)
        BY <2>4, <3>4
      <4>3. OnePublish(k)'
        BY <3>1, <3>2, <4>1, <4>2, SamePublish
      <4> QED BY <3>2, <4>3
    <3> QED BY <3>3, <3>4
  <2> QED BY <2>4, <2>7 DEF OnceInv
<1>7. ASSUME NEW c \in Callers, ProduceOne(c) PROVE OnceInv'
  <2> DEFINE w == call[c].via
             n == Len(call[c].deliveries) + 1
             m == [event |-> NextEvent(c), key |-> call[c].key, number |-> call[c].number,
                   index |-> n, offset |-> 0]
             x == [call[c] EXCEPT !.deliveries = Append(call[c].deliveries, 0),
                                  !.pc = IF n = Len(call[c].data) THEN "flush" ELSE "produce"]
             Q == queue["plain"]
  <2>1. /\ call[c].pc = "produce"
        /\ queue' = [queue EXCEPT ![w] = Append(queue[w], m)]
        /\ call' = [call EXCEPT ![c] = x]
        /\ UNCHANGED <<log, cache, used, excused>>
    BY <1>7 DEF ProduceOne
  <2>2. /\ x.deliveries = Append(call[c].deliveries, 0)
        /\ x.pc # "idle" /\ x.key = call[c].key /\ x.data = call[c].data /\ x.via = call[c].via
    BY <1>0 DEF Call
  <2>3. m.event = call[c].data[n] /\ m.key = call[c].key /\ m.offset = 0
    BY DEF NextEvent
  <2> HIDE DEF x, m
  <2>4. call'[c] = x /\ \A e \in Callers \ {c} : call'[e] = call[e]
    BY <2>1, Components
  <2>5. /\ call[c].data \in Batches /\ Len(call[c].deliveries) < Len(call[c].data)
        /\ call[c].deliveries \in Seq(Int) /\ Len(call[c].deliveries) \in Nat
    BY <1>0, <2>1, LenProperties DEF CallShape, Call
  <2>6. n \in Nat /\ n \in 1 .. Len(call[c].data) /\ m.event \in Events
        /\ DOMAIN call[c].data = 1 .. Len(call[c].data)
    <3>1. call[c].data \in Seq(Events)
      BY <2>5
    <3>2. Len(call[c].data) \in Nat /\ DOMAIN call[c].data = 1 .. Len(call[c].data)
      BY <3>1, LenProperties
    <3>3. n \in Nat /\ n \in 1 .. Len(call[c].data)
      BY <2>5, <3>2
    <3> QED BY <2>3, <3>1, <3>2, <3>3, ElementOfSeq
  <2>7. Len(x.deliveries) = n
    BY <2>2, <2>5, AppendProperties
  <2>8. \A k \in Keys, e \in Callers : Publishes(e, k)' <=> Publishes(e, k)
    <3> SUFFICES ASSUME NEW k \in Keys, NEW e \in Callers PROVE Publishes(e, k)' <=> Publishes(e, k)
      OBVIOUS
    <3>1. CASE e = c
      BY <2>1, <2>2, <2>4, <3>1 DEF Publishes
    <3>2. CASE e # c
      BY <2>4, <3>2 DEF Publishes
    <3> QED BY <3>1, <3>2
  <2>9. CASE w # "plain"
    <3>1. SameRecords
      BY <2>1, <2>9, Components DEF SameRecords, Producers
    <3>2. \A k \in Keys, e \in Callers : Publishes(e, k) => e # c
      BY <2>9 DEF Publishes
    <3>3. \A k \in Keys, e \in Callers : Publishes(e, k) => call'[e] = call[e]
      BY <2>4, <3>2
    <3> QED BY <1>1, <2>1, <2>8, <3>1, <3>3
  <2>10. CASE w = "plain"
    <3>1. Q \in Seq(Message) /\ Len(Q) \in Nat
      BY Components DEF Producers
    <3>2. queue'["plain"] = Append(Q, m)
      BY <2>1, <2>10, Components DEF Producers
    <3>2a. PICK z : z = Len(Q) + 1
      OBVIOUS
    <3>3. /\ Len(queue'["plain"]) = z
          /\ \A i \in 1 .. Len(Q) : queue'["plain"][i] = Q[i]
          /\ queue'["plain"][z] = m
      BY <3>1, <3>2, <3>2a
    <3>4. ASSUME NEW k \in Keys \ excused' PROVE OnePublish(k)' /\ OneRecord(k)'
      <4>1. k \in Keys \ excused /\ OnePublish(k) /\ OneRecord(k)
        BY <1>0, <2>1
      <4>2. k = m.key => Publishes(c, k)
        BY <2>1, <2>3, <2>10 DEF Publishes
      <4>3. k = m.key => ~Produced(m.event, k)
        <5> SUFFICES ASSUME k = m.key, Produced(m.event, k) PROVE FALSE
          OBVIOUS
        <5>1. Publishes(c, k) /\ k \notin Range(used)
          BY <4>1, <4>2 DEF OnePublish
        <5>2. PICK e \in Callers : /\ Publishes(e, k)
                                   /\ \E i \in 1 .. Len(call[e].deliveries) : call[e].data[i] = m.event
          BY <2>6, <4>1, <5>1 DEF OnePublish
        <5>3. e = c
          BY <4>1, <5>1, <5>2 DEF OnePublish
        <5>4. PICK i \in 1 .. Len(call[c].deliveries) : call[c].data[i] = call[c].data[n]
          BY <2>3, <5>2, <5>3
        <5>5. i \in 1 .. Len(call[c].data) /\ i # n
          BY <2>5, <2>6
        <5> QED BY <2>5, <2>6, <5>4, <5>5 DEF IsInjective
      <4>4. /\ \A i \in 1 .. Len(log) : Logged(i, k)' <=> Logged(i, k)
            /\ \A i \in 1 .. Len(Q) : Waiting(i, k)' <=> Waiting(i, k)
            /\ Waiting(z, k)' <=> m.key = k
        BY <2>1, <2>3, <3>3 DEF Logged, Waiting
      <4>5. ASSUME NEW i \in 1 .. Len(queue'["plain"]) PROVE i \in 1 .. Len(Q) \/ i = z
        BY <3>1, <3>2a, <3>3
      <4>6. ASSUME NEW e \in Events, Produced(e, k)'
            PROVE  Produced(e, k) \/ (m.key = k /\ e = m.event)
        <5>1. CASE \E i \in 1 .. Len(log') : Logged(i, k)' /\ log'[i].event = e
          BY <2>1, <4>4, <5>1 DEF Produced
        <5>2. CASE \E i \in 1 .. Len(queue'["plain"]) :
                        Waiting(i, k)' /\ queue'["plain"][i].event = e
          <6>1. PICK i \in 1 .. Len(queue'["plain"]) :
                        Waiting(i, k)' /\ queue'["plain"][i].event = e
            BY <5>2
          <6>2. CASE i \in 1 .. Len(Q)
            BY <3>3, <4>4, <6>1, <6>2 DEF Produced
          <6>3. CASE i = z
            BY <3>3, <4>4, <6>1, <6>3
          <6> QED BY <4>5, <6>2, <6>3
        <5> QED BY <4>6, <5>1, <5>2 DEF Produced
      <4>7. OneRecord(k)'
        <5>1. \A i, j \in 1 .. Len(log') :
                Logged(i, k)' /\ Logged(j, k)' /\ log'[i].event = log'[j].event => i = j
          BY <2>1, <4>1, <4>4 DEF OneRecord
        <5>2. ASSUME NEW i \in 1 .. Len(queue'["plain"]), NEW j \in 1 .. Len(queue'["plain"]),
                     Waiting(i, k)', Waiting(j, k)',
                     queue'["plain"][i].event = queue'["plain"][j].event
              PROVE  i = j
          <6>1. ASSUME NEW a \in 1 .. Len(Q), Waiting(a, k)', m.key = k
                PROVE  queue'["plain"][a].event # m.event
            BY <3>3, <4>3, <4>4, <6>1 DEF Produced
          <6>2. CASE i \in 1 .. Len(Q) /\ j \in 1 .. Len(Q)
            BY <3>3, <4>1, <4>4, <5>2, <6>2 DEF OneRecord
          <6>3. CASE i \in 1 .. Len(Q) /\ j = z
            BY <3>3, <4>4, <5>2, <6>1, <6>3
          <6>4. CASE i = z /\ j \in 1 .. Len(Q)
            BY <3>3, <4>4, <5>2, <6>1, <6>4
          <6> QED BY <4>5, <6>2, <6>3, <6>4
        <5>3. ASSUME NEW i \in 1 .. Len(log'), NEW j \in 1 .. Len(queue'["plain"]),
                     Logged(i, k)', Waiting(j, k)'
              PROVE  log'[i].event # queue'["plain"][j].event
          <6>1. CASE j \in 1 .. Len(Q)
            BY <2>1, <3>3, <4>1, <4>4, <5>3, <6>1 DEF OneRecord
          <6>2. CASE j = z
            BY <2>1, <3>3, <4>3, <4>4, <5>3, <6>2 DEF Produced
          <6> QED BY <4>5, <6>1, <6>2
        <5> QED BY <5>1, <5>2, <5>3 DEF OneRecord
      <4>8. OnePublish(k)'
        <5>1. \A b, e \in Callers : Publishes(b, k)' /\ Publishes(e, k)' => b = e
          BY <2>8, <4>1 DEF OnePublish
        <5>2. \A e \in Callers : Publishes(e, k)' => k \notin Range(used')
          BY <2>1, <2>8, <4>1 DEF OnePublish
        <5>3. ASSUME NEW e \in Events, Produced(e, k)', k \notin Range(used')
              PROVE  \E b \in Callers : /\ Publishes(b, k)'
                                        /\ \E i \in 1 .. Len(call'[b].deliveries) : call'[b].data[i] = e
          <6>1. CASE m.key = k /\ e = m.event
            <7>1. Publishes(c, k)' /\ call'[c].data[n] = e /\ n \in 1 .. Len(call'[c].deliveries)
              BY <2>2, <2>3, <2>4, <2>6, <2>7, <2>8, <4>2, <6>1
            <7> QED BY <7>1
          <6>2. CASE Produced(e, k)
            <7>1. PICK b \in Callers : /\ Publishes(b, k)
                                       /\ \E i \in 1 .. Len(call[b].deliveries) : call[b].data[i] = e
              BY <2>1, <4>1, <5>3, <6>2 DEF OnePublish
            <7>2. PICK i \in 1 .. Len(call[b].deliveries) : call[b].data[i] = e
              BY <7>1
            <7>3. call'[b].data[i] = e /\ i \in 1 .. Len(call'[b].deliveries)
              <8>1. CASE b = c
                BY <2>2, <2>4, <2>5, <2>6, <2>7, <7>2, <8>1
              <8>2. CASE b # c
                BY <2>4, <7>2, <8>2
              <8> QED BY <8>1, <8>2
            <7> QED BY <2>8, <7>1, <7>3
          <6> QED BY <4>6, <5>3, <6>1, <6>2
        <5> QED BY <5>1, <5>2, <5>3 DEF OnePublish
      <4> QED BY <4>7, <4>8
    <3>5. Horizon'
      BY <1>0, <2>1 DEF Horizon
    <3> QED BY <3>4, <3>5 DEF OnceInv
  <2> QED BY <2>9, <2>10
<1>8. ASSUME NEW w \in Producers, Store(w) PROVE OnceInv'
  <2> DEFINE Q == queue["plain"]
  <2>1. PICK i \in 1 .. Len(queue[w]) :
            /\ queue[w][i].offset = 0
            /\ log' = Append(log,
                  [event |-> queue[w][i].event, key |-> queue[w][i].key, via |-> w,
                   state |-> IF w = "plain" THEN "committed" ELSE "open"])
            /\ queue' = [queue EXCEPT ![w][i].offset = Len(log) + 1]
    BY <1>8 DEF Store
  <2>2. UNCHANGED <<cache, call, number, used, excused>>
    BY <1>8 DEF Store
  <2> DEFINE r == [event |-> queue[w][i].event, key |-> queue[w][i].key, via |-> w,
                   state |-> IF w = "plain" THEN "committed" ELSE "open"]
  <2>3. PICK z : z = Len(log) + 1
    OBVIOUS
  <2>4. /\ Len(log) \in Nat /\ Len(log') = z
        /\ \A j \in 1 .. Len(log) : log'[j] = log[j]
        /\ log'[z] = r
    <3>1. log' = Append(log, r)
      BY <2>1
    <3> HIDE DEF r
    <3>2. log \in Seq(LogRecords) /\ Len(log) \in Nat
      BY Components
    <3> QED BY ONLY <2>3, <3>1, <3>2, AppendProperties
  <2>5. r.event = queue[w][i].event /\ r.key = queue[w][i].key /\ r.via = w
    OBVIOUS
  <2> HIDE DEF r
  <2>6. ASSUME NEW j \in 1 .. Len(log') PROVE j \in 1 .. Len(log) \/ j = z
    BY <2>3, <2>4
  <2>7. Q \in Seq(Message) /\ queue[w] \in Seq(Message)
    BY Components DEF Producers
  <2>8. ASSUME w = "plain"
        PROVE  /\ Len(queue'["plain"]) = Len(Q)
               /\ \A j \in 1 .. Len(Q) : j # i => queue'["plain"][j] = Q[j]
               /\ queue'["plain"][i].offset # 0
    <3> DEFINE y == [queue[w][i] EXCEPT !.offset = Len(log) + 1]
    <3>0. queue[w][i] \in Message
      BY <2>7, ElementOfSeq
    <3>1. y.offset = Len(log) + 1
      BY <3>0 DEF Message
    <3>2. queue'["plain"] = [Q EXCEPT ![i] = y] /\ i \in 1 .. Len(Q)
      BY <2>1, <2>8, Components DEF Producers
    <3> HIDE DEF y
    <3>3. /\ Len(queue'["plain"]) = Len(Q)
          /\ \A j \in 1 .. Len(Q) : j # i => queue'["plain"][j] = Q[j]
          /\ queue'["plain"][i] = y
      BY <2>7, <3>2
    <3> QED BY <2>4, <3>1, <3>3
  <2>9. w # "plain" => queue'["plain"] = Q
    BY <2>1, Components DEF Producers
  <2>10. Horizon'
    BY <1>0, <2>2 DEF Horizon
  <2>11. ASSUME NEW k \in Keys \ excused' PROVE OnePublish(k)' /\ OneRecord(k)'
    <3>1. k \in Keys \ excused /\ OnePublish(k) /\ OneRecord(k)
      BY <1>0, <2>2
    <3>2. /\ \A j \in 1 .. Len(log) : Logged(j, k)' <=> Logged(j, k)
          /\ Logged(z, k)' => w = "plain" /\ i \in 1 .. Len(Q) /\ Waiting(i, k)
      BY <2>1, <2>4, <2>5 DEF Logged, Waiting
    <3>3. /\ Len(queue'["plain"]) = Len(Q)
          /\ \A j \in 1 .. Len(Q) : Waiting(j, k)' =>
                /\ Waiting(j, k) /\ queue'["plain"][j].event = Q[j].event
                /\ w = "plain" => j # i
      BY <2>8, <2>9 DEF Waiting
    <3>4. ASSUME NEW e \in Events, Produced(e, k)' PROVE Produced(e, k)
      <4>1. CASE \E j \in 1 .. Len(log') : Logged(j, k)' /\ log'[j].event = e
        <5>1. PICK j \in 1 .. Len(log') : Logged(j, k)' /\ log'[j].event = e
          BY <4>1
        <5>2. CASE j \in 1 .. Len(log)
          BY <2>4, <3>2, <5>1, <5>2 DEF Produced
        <5>3. CASE j = z
          BY <2>4, <2>5, <3>2, <5>1, <5>3 DEF Produced
        <5> QED BY <2>6, <5>2, <5>3
      <4>2. CASE \E j \in 1 .. Len(queue'["plain"]) : Waiting(j, k)' /\ queue'["plain"][j].event = e
        BY <3>3, <4>2 DEF Produced
      <4> QED BY <3>4, <4>1, <4>2 DEF Produced
    <3>5. OnePublish(k)'
      BY <2>2, <3>1, <3>4, SamePublish DEF Publishes
    <3>6. ASSUME NEW a \in 1 .. Len(log'), NEW b \in 1 .. Len(log'), Logged(a, k)', Logged(b, k)',
                 log'[a].event = log'[b].event
          PROVE  a = b
      <4>1. ASSUME NEW j \in 1 .. Len(log), Logged(j, k)', Logged(z, k)'
            PROVE  log'[j].event # log'[z].event
        BY <2>4, <2>5, <3>1, <3>2, <4>1 DEF OneRecord
      <4>2. CASE a \in 1 .. Len(log) /\ b \in 1 .. Len(log)
        BY <2>4, <3>1, <3>2, <3>6, <4>2 DEF OneRecord
      <4>3. CASE a = z \/ b = z
        BY <2>6, <3>6, <4>1, <4>3
      <4> QED BY <2>6, <4>2, <4>3
    <3>7. ASSUME NEW a \in 1 .. Len(queue'["plain"]), NEW b \in 1 .. Len(queue'["plain"]),
                 Waiting(a, k)', Waiting(b, k)',
                 queue'["plain"][a].event = queue'["plain"][b].event
          PROVE  a = b
      BY <3>1, <3>3, <3>7 DEF OneRecord
    <3>8. ASSUME NEW a \in 1 .. Len(log'), NEW b \in 1 .. Len(queue'["plain"]), Logged(a, k)',
                 Waiting(b, k)'
          PROVE  log'[a].event # queue'["plain"][b].event
      <4>1. CASE a \in 1 .. Len(log)
        BY <2>4, <3>1, <3>2, <3>3, <3>8, <4>1 DEF OneRecord
      <4>2. CASE a = z
        BY <2>4, <2>5, <3>1, <3>2, <3>3, <3>8, <4>2 DEF OneRecord
      <4> QED BY <2>6, <4>1, <4>2
    <3>9. OneRecord(k)'
      BY <3>6, <3>7, <3>8 DEF OneRecord
    <3> QED BY <3>5, <3>9
  <2> QED BY <2>10, <2>11 DEF OnceInv
<1>9. ASSUME NEW w \in Producers, Report(w) PROVE OnceInv'
  <2> DEFINE Q == queue["plain"]
  <2>1. queue[w] # <<>> /\ queue' = [queue EXCEPT ![w] = Tail(@)]
        /\ UNCHANGED <<log, cache, used, excused>>
    BY <1>9 DEF Report
  <2>2. \A k \in Keys, e \in Callers :
            /\ Publishes(e, k)' <=> Publishes(e, k)
            /\ call'[e].data = call[e].data
            /\ Len(call'[e].deliveries) = Len(call[e].deliveries)
    BY <1>9, ReportKeepsCalls DEF Publishes
  <2>3. CASE w # "plain"
    <3>1. SameRecords
      BY <2>1, <2>3, Components DEF SameRecords, Producers
    <3> QED BY <1>1, <2>1, <2>2, <3>1
  <2>4. CASE w = "plain"
    <3>1. Q \in Seq(Message) /\ Len(Q) \in Nat
      BY Components DEF Producers
    <3>2. queue'["plain"] = Tail(Q)
      BY <2>1, <2>4, Components DEF Producers
    <3>3. /\ Len(queue'["plain"]) = Len(Q) - 1
          /\ \A i \in 1 .. Len(Q) - 1 : queue'["plain"][i] = Q[i + 1]
      <4>1. Q # <<>>
        BY <2>1, <2>4
      <4> HIDE DEF Q
      <4>2. /\ Len(Tail(Q)) = Len(Q) - 1
            /\ \A i \in 1 .. Len(Q) - 1 : Tail(Q)[i] = Q[i + 1]
        BY <3>1, <4>1, HeadTailProperties
      <4> QED BY <3>2, <4>2
    <3>4. ASSUME NEW i \in 1 .. Len(queue'["plain"])
          PROVE  i + 1 \in 1 .. Len(Q) /\ queue'["plain"][i] = Q[i + 1] /\ i \in Nat
      BY <3>1, <3>3
    <3>5. ASSUME NEW k \in Keys \ excused' PROVE OnePublish(k)' /\ OneRecord(k)'
      <4>1. k \in Keys \ excused /\ OnePublish(k) /\ OneRecord(k)
        BY <1>0, <2>1
      <4>2. /\ \A i \in 1 .. Len(log) : Logged(i, k)' <=> Logged(i, k)
            /\ \A i \in 1 .. Len(queue'["plain"]) : Waiting(i, k)' => Waiting(i + 1, k)
        BY <2>1, <3>4 DEF Logged, Waiting
      <4>3. ASSUME NEW e \in Events, Produced(e, k)' PROVE Produced(e, k)
        <5>1. CASE \E i \in 1 .. Len(log') : Logged(i, k)' /\ log'[i].event = e
          BY <2>1, <4>2, <5>1 DEF Produced
        <5>2. CASE \E i \in 1 .. Len(queue'["plain"]) :
                        Waiting(i, k)' /\ queue'["plain"][i].event = e
          BY <3>4, <4>2, <5>2 DEF Produced
        <5> QED BY <4>3, <5>1, <5>2 DEF Produced
      <4>4. OnePublish(k)'
        BY <2>1, <2>2, <4>1, <4>3, SamePublish
      <4>5. \A i, j \in 1 .. Len(log') :
                Logged(i, k)' /\ Logged(j, k)' /\ log'[i].event = log'[j].event => i = j
        BY <2>1, <4>1, <4>2 DEF OneRecord
      <4>6. ASSUME NEW i \in 1 .. Len(queue'["plain"]), NEW j \in 1 .. Len(queue'["plain"]),
                   Waiting(i, k)', Waiting(j, k)',
                   queue'["plain"][i].event = queue'["plain"][j].event
            PROVE  i = j
        <5>1. i + 1 = j + 1
          BY <3>4, <4>1, <4>2, <4>6 DEF OneRecord
        <5> QED BY <3>4, <5>1
      <4>7. ASSUME NEW i \in 1 .. Len(log'), NEW j \in 1 .. Len(queue'["plain"]),
                   Logged(i, k)', Waiting(j, k)'
            PROVE  log'[i].event # queue'["plain"][j].event
        <5>1. j + 1 \in 1 .. Len(Q) /\ queue'["plain"][j] = Q[j + 1] /\ Waiting(j + 1, k)
          BY <3>4, <4>2, <4>7
        <5>2. i \in 1 .. Len(log) /\ Logged(i, k) /\ log'[i] = log[i]
          BY <2>1, <4>2, <4>7
        <5>3. log[i].event # Q[j + 1].event
          BY <4>1, <5>1, <5>2 DEF OneRecord
        <5> QED BY <5>1, <5>2, <5>3
      <4>8. OneRecord(k)'
        BY <4>5, <4>6, <4>7 DEF OneRecord
      <4> QED BY <4>4, <4>8
    <3>6. Horizon'
      BY <1>0, <2>1 DEF Horizon
    <3> QED BY <3>5, <3>6 DEF OnceInv
  <2> QED BY <2>3, <2>4
<1>10. ASSUME TransactionEnds PROVE OnceInv'
  <2>1. PICK outcome \in {"committed", "aborted"} :
            log' = [i \in 1 .. Len(log) |->
                IF log[i].state = "open" THEN [log[i] EXCEPT !.state = outcome] ELSE log[i]]
    BY <1>10 DEF TransactionEnds
  <2>2. /\ queue' = [queue EXCEPT !["transaction"] = <<>>]
        /\ UNCHANGED <<cache, call, used, excused>>
    BY <1>10 DEF TransactionEnds
  <2>3. Len(log) \in Nat /\ \A i \in 1 .. Len(log) : log[i] \in LogRecords
    BY Components, ElementOfSeq
  <2>4. Len(log') = Len(log)
    BY <2>1, <2>3
  <2>5. \A i \in 1 .. Len(log) : /\ log'[i].key = log[i].key
                                 /\ log'[i].event = log[i].event
                                 /\ log'[i].via = log[i].via
    BY <2>1, <2>3 DEF LogRecords
  <2>6. queue'["plain"] = queue["plain"]
    BY <2>2, Components DEF Producers
  <2>7. SameRecords
    BY <2>4, <2>5, <2>6 DEF SameRecords
  <2> QED BY <1>1, <2>2, <2>7 DEF Publishes
<1>11. CASE UNCHANGED vars
  <2>1. UNCHANGED <<log, queue, cache, call, used, excused>>
    BY <1>11 DEF vars
  <2>2. SameRecords
    BY <2>1 DEF SameRecords
  <2> QED BY <1>1, <2>1, <2>2 DEF Publishes
<1> QED BY <1>2, <1>3, <1>4, <1>5, <1>6, <1>7, <1>8, <1>9, <1>10, <1>11
        DEF Next, ProduceRaises, FlushRaises

\* A publish under a key is repeated within the cache's horizon without producing its Events
\* again, whatever other threads publish and however their calls end: when no batch holds an
\* Event twice, and for the keys none of whose publishes failed or overlapped.
THEOREM OncePerKey ==
    ASSUME \A d \in Batches : IsInjective(d)
    PROVE  Spec => []PublishedOnce
<1>1. Init => TypeOK /\ NamesInv /\ OnceInv
  BY InitType, InitNames, InitOnce
<1>2. TypeOK /\ NamesInv /\ OnceInv /\ [Next]_vars => (TypeOK /\ NamesInv /\ OnceInv)'
  BY NextType, NextNames, NextOnce
<1>3. OnceInv => PublishedOnce
  BY DEF OnceInv, OneRecord, Logged, PublishedOnce
<1> QED BY <1>1, <1>2, <1>3, PTL DEF Spec
=============================================================================
