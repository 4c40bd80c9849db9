------------------------------ MODULE Binding ------------------------------
(***************************************************************************)
(* What a deployment binds and what an application may ask of it: the      *)
(* settings of config.py and the operation compiler.  Both are pure, so    *)
(* this module has operators and no state; Startup calls them.             *)
(*                                                                         *)
(* A document is what from_context gets.  Secrets are present and usable,  *)
(* or not.  wellFormed stands for the checks of shape: adapter and pins,   *)
(* closed objects, bounded strings and integers.  A ref is a number, and 0 *)
(* is None.                                                                *)
(***************************************************************************)
EXTENDS Integers, Sequences, FiniteSets

CONSTANTS
    MaxBatchSize, MaxPollSize, MaxRangeSize,   \* limits of the streaming contracts
    MaxWait, MaxRetryAfter

ASSUME LimitAssumption ==
    /\ {MaxBatchSize, MaxPollSize, MaxRangeSize} \subseteq Nat \ {0}
    /\ {MaxWait, MaxRetryAfter} \subseteq Nat

Production == "apache-kafka"
Test == "apache-kafka-test"

Mechanisms == {"PLAIN", "SCRAM"}

MaxCursorKeys == 4

-----------------------------------------------------------------------------
(* Parsing.                                                                *)

\* _parse_secrets: a ring of one to four keys with ids of their own, one active.
AcceptsKeys(keys) ==
    /\ Len(keys) \in 1 .. MaxCursorKeys
    /\ Cardinality({i \in DOMAIN keys : keys[i].active}) = 1
    /\ \A i, j \in DOMAIN keys : keys[i].id = keys[j].id => i = j

\* Mutant of AcceptsSecurity: the username is not asked for.
AcceptsSecurityNameless(d) ==
    /\ IF d.profile = Production
       THEN /\ d.tls # "disabled"
            /\ d.tls = "mutual" \/ d.sasl # "none"
            /\ ~d.plaintext
       ELSE d.plaintext /\ d.tls = "disabled"
    /\ d.sasl # "none" => d.password
    /\ d.tls # "disabled" => d.ca
    /\ d.tls = "mutual" => d.certificate /\ d.privateKey

\* What the profile demands, and the material for what is selected.
AcceptsSecurity(d) ==
    /\ IF d.profile = Production
       THEN /\ d.tls # "disabled"
            /\ d.tls = "mutual" \/ d.sasl # "none"
            /\ ~d.plaintext
       ELSE d.plaintext /\ d.tls = "disabled"
    /\ d.sasl # "none" => d.username /\ d.password
    /\ d.tls # "disabled" => d.ca
    /\ d.tls = "mutual" => d.certificate /\ d.privateKey

OfKind(map, ref, kind) == ref \in DOMAIN map /\ map[ref].kind = kind

\* The entries of a resource map, by their parsed reference.
ResourceMap(entries) ==
    [r \in {entries[i].ref : i \in DOMAIN entries} |->
        entries[CHOOSE i \in DOMAIN entries : entries[i].ref = r].resource]

\* What an entry may not share with another one.
Clashes(e, f) ==
    \/ e.ref = f.ref
    \/ /\ e.resource.kind = "stream" /\ f.resource.kind = "stream"
       /\ e.resource.topic = f.resource.topic
    \/ /\ e.resource.kind = "consumer-group" /\ f.resource.kind = "consumer-group"
       /\ e.resource.groupId = f.resource.groupId

\* The references of a resource lead to resources of the right kind.
Refers(map, resource) ==
    CASE resource.kind = "stream" -> resource.namespaced
      [] resource.kind = "subscription" ->
            /\ OfKind(map, resource.stream, "stream")
            /\ resource.deadLetter # 0 =>
                    /\ OfKind(map, resource.deadLetter, "stream")
                    /\ resource.deadLetter # resource.stream
            /\ ~resource.filtered
      [] resource.kind = "consumer-group" ->
            OfKind(map, resource.subscription, "subscription")
      [] OTHER -> FALSE

\* Mutant of AcceptsResources: topics and group ids may be bound twice.
AcceptsResourcesTwice(entries) ==
    LET map == ResourceMap(entries)
    IN  /\ \A i, j \in DOMAIN entries : entries[i].ref = entries[j].ref => i = j
        /\ \E r \in DOMAIN map : map[r].kind = "stream"
        /\ \A r \in DOMAIN map : Refers(map, map[r])

\* _parse_resources.
AcceptsResources(entries) ==
    LET map == ResourceMap(entries)
    IN  /\ \A i, j \in DOMAIN entries : Clashes(entries[i], entries[j]) => i = j
        /\ \E r \in DOMAIN map : map[r].kind = "stream"
        /\ \A r \in DOMAIN map : Refers(map, map[r])

\* _from_context.
Accepts(d) ==
    /\ d.wellFormed
    /\ d.profile \in {Production, Test}
    /\ AcceptsKeys(d.keys)
    /\ AcceptsResources(d.entries)
    /\ d.sasl \in Mechanisms \cup {"none"}
    /\ AcceptsSecurity(d)

\* KafkaBindingSettings, without what only bounds a client call.
Settings(d) ==
    [profile |-> d.profile, tls |-> d.tls, sasl |-> d.sasl,
     username |-> d.username, password |-> d.password, ca |-> d.ca,
     certificate |-> d.certificate, privateKey |-> d.privateKey,
     transactionalId |-> d.transactionalId, readCommitted |-> d.readCommitted,
     resources |-> ResourceMap(d.entries)]

-----------------------------------------------------------------------------
(* Settings.                                                               *)

TransactionEnabled(s) == s.transactionalId /\ s.readCommitted

\* The material of what the settings select is there for a client, a transactional
\* producer or another; otherwise common or producer raises.
ConfigurationComplete(s, transactional) ==
    /\ s.sasl # "none" => s.username /\ s.password
    /\ s.tls # "disabled" => s.ca
    /\ s.tls = "mutual" => s.certificate /\ s.privateKey
    /\ transactional => TransactionEnabled(s)

\* The dictionary all clients have in common, as far as their security.
ClientConfiguration(s) ==
    [protocol |-> IF s.tls = "disabled"
                  THEN IF s.sasl = "none" THEN "PLAINTEXT" ELSE "SASL_PLAINTEXT"
                  ELSE IF s.sasl = "none" THEN "SSL" ELSE "SASL_SSL",
     mechanism |-> s.sasl,
     verifiesServer |-> s.tls # "disabled",
     presentsCertificate |-> s.tls = "mutual"]

\* isolation.level of a consumer.
Isolation(s) == IF s.readCommitted THEN "read_committed" ELSE "read_uncommitted"

\* group_stream: the look-ups succeed and belong together.
GroupStream(s, subscription, group) ==
    /\ OfKind(s.resources, subscription, "subscription")
    /\ OfKind(s.resources, group, "consumer-group")
    /\ s.resources[group].subscription = subscription

-----------------------------------------------------------------------------
(* The compiler.  An operation is a record; wellFormed stands for its      *)
(* closed fields, opaque tokens, fingerprints, empty options and, in a     *)
(* replay, mutatesConsumerGroup = FALSE.                                   *)

GroupContracts ==
    {"poll", "acknowledge", "negative-acknowledge", "group-position", "transactional"}

PublishContracts == {"publish", "publish-batch"}

RangeContracts == {"read-range", "replay"}

Contracts ==
    GroupContracts \cup PublishContracts \cup RangeContracts
        \cup {"subscribe", "publish-schema", "create-resource"}

\* Events for the Stream that is published to, with its schema.
AcceptsEvents(s, ref, events) ==
    /\ OfKind(s.resources, ref, "stream")
    /\ \A i \in DOMAIN events :
            /\ events[i].stream = ref
            /\ events[i].schema = s.resources[ref].schema

\* _publish.
CompilesPublish(s, o) ==
    /\ AcceptsEvents(s, o.stream, o.events)
    /\ Len(o.events) \in IF o.contract = "publish" THEN {1} ELSE 1 .. MaxBatchSize

\* _subscribe.
CompilesSubscribe(s, o) ==
    /\ OfKind(s.resources, o.stream, "stream")
    /\ OfKind(s.resources, o.subscription, "subscription")
    /\ s.resources[o.subscription].stream = o.stream

\* _poll.
CompilesPoll(s, o) ==
    /\ GroupStream(s, o.subscription, o.group)
    /\ o.limit \in 1 .. MaxPollSize
    /\ o.wait \in 0 .. MaxWait

\* _acknowledge.
CompilesAcknowledge(s, o) == GroupStream(s, o.subscription, o.group)

\* _negative_acknowledge.
CompilesNegativeAcknowledge(s, o) ==
    GroupStream(s, o.subscription, o.group) /\ o.wait \in 0 .. MaxRetryAfter

\* _read_range and _replay.
CompilesRange(s, o) ==
    OfKind(s.resources, o.stream, "stream") /\ o.limit \in 1 .. MaxRangeSize

\* _group_position.
CompilesGroupPosition(s, o) == GroupStream(s, o.subscription, o.group)

\* _validate_resource: the kind is the one of the binding.
CompilesResource(s, o) == OfKind(s.resources, o.stream, o.kind)

\* _transactional: a poll, and outputs each of which is a publish of one Event.
CompilesTransactional(s, o) ==
    /\ TransactionEnabled(s)
    /\ CompilesPoll(s, o)
    /\ Len(o.events) \in 1 .. MaxBatchSize
    /\ \A i \in DOMAIN o.events : AcceptsEvents(s, o.events[i].target, <<o.events[i]>>)

\* compile.
Compiles(s, o) ==
    /\ o.wellFormed
    /\ CASE o.contract \in PublishContracts -> CompilesPublish(s, o)
         [] o.contract = "subscribe" -> CompilesSubscribe(s, o)
         [] o.contract = "poll" -> CompilesPoll(s, o)
         [] o.contract = "acknowledge" -> CompilesAcknowledge(s, o)
         [] o.contract = "negative-acknowledge" -> CompilesNegativeAcknowledge(s, o)
         [] o.contract \in RangeContracts -> CompilesRange(s, o)
         [] o.contract = "group-position" -> CompilesGroupPosition(s, o)
         [] o.contract = "publish-schema" -> TRUE
         [] o.contract = "create-resource" -> CompilesResource(s, o)
         [] o.contract = "transactional" -> CompilesTransactional(s, o)
         [] OTHER -> FALSE

\* The command: the operation, and the Stream its Subscription reads.
Command(s, o) ==
    [operation |-> o,
     stream |-> IF o.contract \in GroupContracts THEN s.resources[o.subscription].stream
                ELSE o.stream]

\* _dispatch of publish-schema: a schema that some Stream is bound to, at the
\* revision the caller expects (-1 for any), and not a breaking one.
ValidatesSchema(s, o) ==
    /\ ~o.breaking
    /\ o.expected \in {-1, o.revision}
    /\ \E r \in DOMAIN s.resources :
            s.resources[r].kind = "stream" /\ s.resources[r].schema = o.schema

\* The contracts of the manifest, with the transaction of Core.
Available(s) ==
    {c \in Contracts \cup {"core-transaction"} :
        c \in {"core-transaction", "transactional"} => TransactionEnabled(s)}
=============================================================================
