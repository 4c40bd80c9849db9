--------------------------- MODULE ProducerEngine --------------------------
(***************************************************************************)
(* KafkaProducerEngine of producer/__init__.py: publish with its           *)
(* application idempotency cache, over a producer that all threads share   *)
(* and over the transactional producer of the bridge.                      *)
(*                                                                         *)
(* The look-up in the cache and the store after delivery are two sections  *)
(* of the lock; production and flush lie between them, without it.  A      *)
(* producer's queue holds what has not been reported yet, whichever call   *)
(* produced it: flush waits for all of it, and a call that has raised      *)
(* leaves its messages there.  Delivery reports run in any thread that     *)
(* polls or flushes the producer.                                          *)
(*                                                                         *)
(* A publish is a sequence of Events under a key, or under NoKey.  The log *)
(* is one partition; an offset is an index into it.                        *)
(***************************************************************************)
EXTENDS Integers, Sequences, FiniteSets, SequencesExt

CONSTANTS
    Callers,       \* threads
    Keys, NoKey,   \* idempotency keys
    Events,
    Reserved,      \* Events with a header that has the reserved prefix
    Batches,       \* what the application publishes: sequences of Events
    MaxEntries,    \* _MAX_IDEMPOTENCY_ENTRIES
    QueueLimit,    \* capacity of a producer's queue
    MaxPublishes,  \* bound on the publishes that reach a producer
    Env            \* behaviours a run admits

Producers == {"plain", "transaction"}

Environment ==
    { "transaction",       \* publishes inside a Core transaction
      "timeout",           \* flush or a full queue may outlast the deadline
      "delivery-failure",  \* a message may be reported as failed
      "produce-failure",   \* produce may raise
      "close" }            \* the runtime may close the engine

ASSUME ProducerAssumption ==
    /\ NoKey \notin Keys
    /\ Reserved \subseteq Events
    /\ Batches \subseteq Seq(Events) \ {<<>>}
    /\ MaxEntries \in Nat \ {0}
    /\ QueueLimit \in Nat \ {0}
    /\ MaxPublishes \in Nat
    /\ Env \subseteq Environment

VARIABLES
    log,       \* the broker's records
    queue,     \* for each producer, the messages not yet reported
    cache,     \* _idempotency, oldest entry first
    call,      \* the publish each thread is in
    number,    \* publishes that reached a producer
    \* History: keys in the order of their last successful use; keys whose
    \* publishes failed, overlapped or came back after the cache's horizon;
    \* the receipts applications hold.
    used, excused, receipts

vars == <<log, queue, cache, call, number, used, excused, receipts>>

\* deliveries[i] is the _Delivery of the i-th Event: 0 before its report,
\* -1 with an error, otherwise its offset.
Call ==
    [pc : {"idle", "produce", "flush", "store"}, key : Keys \cup {NoKey},
     data : Batches \cup {<<>>}, via : Producers, number : Nat, deliveries : Seq(Int)]

Idle ==
    [pc |-> "idle", key |-> NoKey, data |-> <<>>, via |-> "plain", number |-> 0,
     deliveries |-> <<>>]

Message ==
    [event : Events, key : Keys \cup {NoKey}, number : Nat, index : Nat, offset : Nat]

TypeOK ==
    /\ log \in Seq([event : Events, key : Keys \cup {NoKey}, via : Producers,
                    state : {"open", "committed", "aborted"}])
    /\ queue \in [Producers -> Seq(Message)]
    /\ \A w \in Producers : Len(queue[w]) <= QueueLimit
    /\ cache \in Seq([key : Keys, data : Batches, result : Seq(Nat)])
    /\ Len(cache) <= MaxEntries
    /\ call \in [Callers -> Call]
    /\ number \in Nat
    /\ used \in Seq(Keys)
    /\ excused \subseteq Keys
    /\ receipts \subseteq [event : Events, offset : Nat, via : Producers]

Init ==
    /\ log = <<>>
    /\ queue = [w \in Producers |-> <<>>]
    /\ cache = <<>>
    /\ call = [c \in Callers |-> Idle]
    /\ number = 0
    /\ used = <<>>
    /\ excused = {}
    /\ receipts = {}

-----------------------------------------------------------------------------
(* The cache.                                                              *)

\* s without its element at the position in S, if there is one.
Without(s, S) == IF S = {} THEN s ELSE RemoveAt(s, CHOOSE i \in S : TRUE)

Entries(k) == {i \in 1 .. Len(cache) : cache[i].key = k}

\* move_to_end of a key that is there.
MoveToEnd(k) == Append(Without(cache, Entries(k)), cache[CHOOSE i \in Entries(k) : TRUE])

\* Mutant: the entry that was just stored is the one evicted.
StoredThenEvicted(entry) ==
    LET s == Append(Without(cache, Entries(entry.key)), entry)
    IN  IF Len(s) > MaxEntries THEN SubSeq(s, 1, MaxEntries) ELSE s

\* Mutant: nothing is evicted.
StoredWithoutEviction(entry) == Append(Without(cache, Entries(entry.key)), entry)

\* The assignment, move_to_end, and the eviction of the oldest entries.
Stored(entry) ==
    LET s == Append(Without(cache, Entries(entry.key)), entry)
    IN  SubSeq(s, (IF Len(s) > MaxEntries THEN Len(s) - MaxEntries ELSE 0) + 1, Len(s))

\* Mutant: publishes in a transaction use the cache.
UsesCacheAlways(k, w) == k # NoKey

\* cache_application_key: publishes in a transaction bypass the cache.
UsesCache(k, w) == w = "plain" /\ k # NoKey

\* History: k is the last key used; the keys within the cache's horizon.
Use(k) == Append(Without(used, {i \in 1 .. Len(used) : used[i] = k}), k)

Recent == {used[i] : i \in {j \in 1 .. Len(used) : j > Len(used) - MaxEntries}}

Past == {used[i] : i \in 1 .. Len(used)} \ Recent

-----------------------------------------------------------------------------
(* publish.                                                                *)

Busy(k) == \E c \in Callers : call[c].pc # "idle" /\ call[c].key = k

Available(w) ==
    w = "transaction" => /\ "transaction" \in Env
                         /\ \A c \in Callers : call[c].pc = "idle" \/ call[c].via = "plain"

\* A key in the cache: its receipts again, or InvalidEvent for other data.
PublishCached(c) ==
    /\ call[c].pc = "idle"
    /\ \E k \in Keys, d \in Batches, w \in Producers :
          /\ Available(w)
          /\ UsesCache(k, w)
          /\ \E i \in Entries(k) :
                \/ /\ cache[i].data = d
                   /\ cache' = MoveToEnd(k)
                   /\ used' = Use(k)
                   /\ receipts' = receipts \cup
                         {[event |-> d[n], offset |-> cache[i].result[n], via |-> w] :
                             n \in 1 .. Len(d)}
                \/ /\ cache[i].data # d
                   /\ UNCHANGED <<cache, used, receipts>>
    /\ UNCHANGED <<log, queue, call, number, excused>>

\* Anything else goes to the producer.
PublishBegin(c) ==
    /\ call[c].pc = "idle"
    /\ number < MaxPublishes
    /\ \E k \in Keys \cup {NoKey}, d \in Batches, w \in Producers :
          /\ Available(w)
          /\ UsesCache(k, w) => Entries(k) = {}
          /\ call' = [call EXCEPT ![c] =
                [pc |-> "produce", key |-> k, data |-> d, via |-> w, number |-> number + 1,
                 deliveries |-> <<>>]]
          /\ excused' = IF k \in Past \/ Busy(k) THEN excused \cup ({k} \ {NoKey})
                        ELSE excused
    /\ number' = number + 1
    /\ UNCHANGED <<log, queue, cache, used, receipts>>

\* The publish raises.  What it has produced stays in the queue.
Raise(c) ==
    /\ call' = [call EXCEPT ![c] = Idle]
    /\ excused' = excused \cup ({call[c].key} \ {NoKey})
    /\ UNCHANGED <<log, cache, number, used, receipts>>

\* _produce_one of the next Event.
NextEvent(c) == call[c].data[Len(call[c].deliveries) + 1]

ProduceOne(c) ==
    LET w == call[c].via
        i == Len(call[c].deliveries) + 1
    IN  /\ call[c].pc = "produce"
        /\ NextEvent(c) \notin Reserved
        /\ Len(queue[w]) < QueueLimit
        /\ queue' = [queue EXCEPT ![w] = Append(@,
              [event |-> NextEvent(c), key |-> call[c].key, number |-> call[c].number,
               index |-> i, offset |-> 0])]
        /\ call' = [call EXCEPT
              ![c].deliveries = Append(@, 0),
              ![c].pc = IF i = Len(call[c].data) THEN "flush" ELSE "produce"]
        /\ UNCHANGED <<log, cache, number, used, excused, receipts>>

\* A reserved header (InvalidEvent), a queue that stays full until the
\* deadline (BufferError), or another exception of produce.
ProduceRaises(c) ==
    /\ call[c].pc = "produce"
    /\ \/ NextEvent(c) \in Reserved
       \/ "timeout" \in Env /\ Len(queue[call[c].via]) = QueueLimit
       \/ "produce-failure" \in Env
    /\ Raise(c)
    /\ UNCHANGED queue

\* flush: nothing is left in the queue, and the reports are looked at.
Delivered(c) == \A i \in 1 .. Len(call[c].deliveries) : call[c].deliveries[i] > 0

Flushed(c) == queue[call[c].via] = <<>>

Result(c) ==
    {[event |-> call[c].data[i], offset |-> call[c].deliveries[i], via |-> call[c].via] :
        i \in 1 .. Len(call[c].data)}

FlushReturns(c) ==
    /\ call[c].pc = "flush"
    /\ Flushed(c)
    /\ Delivered(c)
    /\ IF UsesCache(call[c].key, call[c].via)
       THEN /\ call' = [call EXCEPT ![c].pc = "store"]
            /\ UNCHANGED receipts
       ELSE /\ call' = [call EXCEPT ![c] = Idle]
            /\ receipts' = receipts \cup Result(c)
    /\ UNCHANGED <<log, queue, cache, number, used, excused>>

FlushRaises(c) ==
    /\ call[c].pc = "flush"
    /\ \/ "timeout" \in Env /\ ~Flushed(c)
       \/ Flushed(c) /\ ~Delivered(c)
    /\ Raise(c)
    /\ UNCHANGED queue

\* The second section of the lock, and the return.
StoreReceipts(c) ==
    /\ call[c].pc = "store"
    /\ cache' = Stored([key |-> call[c].key, data |-> call[c].data,
                        result |-> call[c].deliveries])
    /\ used' = Use(call[c].key)
    /\ receipts' = receipts \cup Result(c)
    /\ call' = [call EXCEPT ![c] = Idle]
    /\ UNCHANGED <<log, queue, number, excused>>

-----------------------------------------------------------------------------
(* The client library and the broker.                                      *)

\* The first message not yet stored is appended to the log.
Store(w) ==
    LET waiting == {i \in 1 .. Len(queue[w]) : queue[w][i].offset = 0}
    IN  \E i \in waiting :
          /\ \A j \in waiting : i <= j
          /\ log' = Append(log,
                [event |-> queue[w][i].event, key |-> queue[w][i].key, via |-> w,
                 state |-> IF w = "plain" THEN "committed" ELSE "open"])
          /\ queue' = [queue EXCEPT ![w][i].offset = Len(log) + 1]
          /\ UNCHANGED <<cache, call, number, used, excused, receipts>>

\* Some thread polls or flushes the producer: a publish, or close, which
\* flushes once more and does not stop the publishes in progress.
Served(w) ==
    \/ \E c \in Callers : call[c].pc \in {"produce", "flush"} /\ call[c].via = w
    \/ w = "plain" /\ "close" \in Env

\* The report of the first message runs delivered(): the offset or, when
\* the message timed out, stored or not, an error.
Report(w) ==
    /\ Served(w)
    /\ queue[w] # <<>>
    /\ LET m == Head(queue[w])
       IN  \E outcome \in {m.offset} \cup {-1} :
              /\ outcome # 0
              /\ outcome = -1 => "delivery-failure" \in Env
              /\ call' = [c \in Callers |->
                    IF call[c].pc # "idle" /\ call[c].number = m.number
                    THEN [call[c] EXCEPT !.deliveries[m.index] = outcome]
                    ELSE call[c]]
    /\ queue' = [queue EXCEPT ![w] = Tail(@)]
    /\ UNCHANGED <<log, cache, number, used, excused, receipts>>

\* The session commits or aborts its transaction; an abort purges the queue,
\* a commit has flushed it.
TransactionEnds ==
    /\ "transaction" \in Env
    /\ \A c \in Callers : call[c].pc = "idle" \/ call[c].via = "plain"
    /\ \E i \in 1 .. Len(log) : log[i].state = "open"
    /\ \E outcome \in {"committed", "aborted"} :
          /\ outcome = "committed" => queue["transaction"] = <<>>
          /\ log' = [i \in 1 .. Len(log) |->
                IF log[i].state = "open" THEN [log[i] EXCEPT !.state = outcome] ELSE log[i]]
    /\ queue' = [queue EXCEPT !["transaction"] = <<>>]
    /\ UNCHANGED <<cache, call, number, used, excused, receipts>>

Next ==
    \/ \E c \in Callers :
          \/ PublishCached(c) \/ PublishBegin(c)
          \/ ProduceOne(c) \/ ProduceRaises(c)
          \/ FlushReturns(c) \/ FlushRaises(c) \/ StoreReceipts(c)
    \/ \E w \in Producers : Store(w) \/ Report(w)
    \/ TransactionEnds

Spec == Init /\ [][Next]_vars

-----------------------------------------------------------------------------
(* Properties.                                                             *)

\* A receipt names a record that holds the Event it was given for; outside a
\* transaction, and whenever it comes from the cache, one that readers see.
ReceiptsNameTheirEvents ==
    \A r \in receipts :
        /\ r.offset \in 1 .. Len(log)
        /\ log[r.offset].event = r.event
        /\ r.via = "plain" => log[r.offset].state = "committed"

\* A key among the MaxEntries used last, none of whose publishes failed or
\* overlapped another with the same key, has been produced once: whatever
\* other threads publish, however their calls end and interleave.
PublishedOnce ==
    \A k \in Keys \ excused :
        \A i, j \in 1 .. Len(log) :
            /\ log[i].key = k
            /\ log[j].key = k
            /\ log[i].via = "plain"
            /\ log[j].via = "plain"
            /\ log[i].event = log[j].event
            => i = j
=============================================================================
