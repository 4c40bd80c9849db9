----------------------------- MODULE MCStartup -----------------------------
(***************************************************************************)
(* Instances of Startup for TLC.  Refs 1 and 2 are Streams, 3 and 5        *)
(* Subscriptions, 4 and 6 ConsumerGroups.                                  *)
(***************************************************************************)
EXTENDS Startup

\* Broker 1 is as it should be, 2 is an impostor with a stolen certificate and 3
\* has an old coordinator and offers PLAIN only.
MCOffers(b) == IF b = 3 THEN {"PLAIN"} ELSE Mechanisms

MCRanges(b) ==
    IF b = 3 THEN (10 :> <<0, 0>>) @@ Required(TRUE) ELSE Required(TRUE)

Stream(topic, namespaced) ==
    [kind |-> "stream", topic |-> topic, schema |-> topic, namespaced |-> namespaced,
     partitions |-> 1, config |-> "c1"]

Subscription(stream, deadLetter, filtered) ==
    [kind |-> "subscription", stream |-> stream, deadLetter |-> deadLetter,
     filtered |-> filtered]

Group(subscription, groupId) ==
    [kind |-> "consumer-group", subscription |-> subscription, groupId |-> groupId]

Entry(ref, resource) == [ref |-> ref, resource |-> resource]

Whole == << Entry(1, Stream("t1", TRUE)), Entry(2, Stream("t2", TRUE)),
            Entry(3, Subscription(1, 2, FALSE)), Entry(4, Group(3, "g1")),
            Entry(5, Subscription(2, 0, FALSE)), Entry(6, Group(5, "g2")) >>

\* Resource maps that a deployment may get wrong in one place or another.
ResourceMaps ==
    {<<>>, <<Entry(1, Stream("t1", FALSE))>>, <<Entry(1, [kind |-> "queue"])>>,
     <<Entry(1, Stream("t1", TRUE)), Entry(1, Stream("t2", TRUE))>>}
    \cup
    { <<Entry(1, Stream("t1", TRUE)), Entry(2, Stream(topic, TRUE)),
        Entry(3, Subscription(stream, deadLetter, filtered)), Entry(4, Group(3, "g1"))>> :
      topic \in Topics, stream \in {1, 4, 9}, deadLetter \in {0, 1, 2, 3},
      filtered \in BOOLEAN }
    \cup
    { [Whole EXCEPT ![6] = Entry(6, Group(subscription, id))] :
      subscription \in {1, 3, 5}, id \in {"g1", "g2"} }

Key(id, active) == [id |-> id, active |-> active]

OneKey == <<Key("k1", TRUE)>>

KeyRings ==
    {<<>>, OneKey, <<Key("k1", FALSE)>>, <<Key("k1", TRUE), Key("k2", FALSE)>>,
     <<Key("k1", TRUE), Key("k2", TRUE)>>, <<Key("k1", TRUE), Key("k1", FALSE)>>,
     [i \in 1 .. 5 |-> Key(i, i = 1)]}

Plain ==
    [wellFormed |-> TRUE, profile |-> Test, tls |-> "disabled", sasl |-> "none",
     plaintext |-> TRUE, username |-> FALSE, password |-> FALSE, ca |-> FALSE,
     certificate |-> FALSE, privateKey |-> FALSE, keys |-> OneKey,
     transactionalId |-> FALSE, readCommitted |-> TRUE,
     entries |-> <<Entry(1, Stream("t1", TRUE))>>]

\* Whatever a deployment may select and supply for security, over one Stream.
SecurityDocuments ==
    [wellFormed : {TRUE}, profile : {Production, Test}, tls : {"disabled", "server", "mutual"},
     sasl : {"none", "PLAIN", "SCRAM"}, plaintext : BOOLEAN, username : BOOLEAN,
     password : BOOLEAN, ca : BOOLEAN, certificate : BOOLEAN, privateKey : BOOLEAN,
     keys : {OneKey}, transactionalId : {FALSE}, readCommitted : {TRUE},
     entries : {Plain.entries}]

MCDocuments ==
    SecurityDocuments
    \cup {[Plain EXCEPT !.entries = e] : e \in ResourceMaps}
    \cup {[Plain EXCEPT !.keys = k] : k \in KeyRings}
    \cup {[Plain EXCEPT !.entries = Whole, !.transactionalId = t, !.readCommitted = c] :
            t, c \in BOOLEAN}
    \cup {[Plain EXCEPT !.wellFormed = FALSE], [Plain EXCEPT !.sasl = "GSSAPI"],
          [Plain EXCEPT !.profile = "other"]}

Event(target, stream, schema) == [target |-> target, stream |-> stream, schema |-> schema]

Batches ==
    {<<>>} \cup {<<Event(t, s, x)>> : t, s \in {1, 2}, x \in Topics}
    \cup {[i \in 1 .. n |-> Event(1, 1, "t1")] : n \in 2 .. MaxBatchSize + 1}

Operation(contract) ==
    [contract |-> contract, wellFormed |-> TRUE, stream |-> 1, subscription |-> 3,
     group |-> 4, limit |-> 1, wait |-> 0, events |-> <<Event(1, 1, "t1")>>,
     kind |-> "stream", schema |-> "t1", expected |-> -1, revision |-> 1,
     breaking |-> FALSE]

MCOperations ==
    {[Operation(c) EXCEPT !.wellFormed = w] : c \in Contracts \cup {"other"}, w \in BOOLEAN}
    \cup {[Operation(c) EXCEPT !.subscription = s, !.group = g] :
            c \in GroupContracts, s \in {1, 3, 5}, g \in {3, 4, 6}}
    \cup {[Operation(c) EXCEPT !.limit = n, !.wait = w] :
            c \in GroupContracts \cup RangeContracts,
            n \in {0, MaxPollSize, MaxPollSize + 1}, w \in {0, MaxWait, MaxWait + 1}}
    \cup {[Operation(c) EXCEPT !.stream = s, !.subscription = x, !.kind = k] :
            c \in {"subscribe", "create-resource"}, s \in {1, 2, 3}, x \in {1, 3},
            k \in {"stream", "subscription"}}
    \cup {[Operation(c) EXCEPT !.stream = s, !.events = b] :
            c \in PublishContracts \cup {"transactional"}, s \in {1, 3}, b \in Batches}
    \cup {[Operation("publish-schema") EXCEPT !.schema = x, !.expected = n, !.breaking = b] :
            x \in {"t1", "t3"}, n \in {-1, 1, 2}, b \in BOOLEAN}
=============================================================================
