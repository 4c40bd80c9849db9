------------------------------ MODULE Startup ------------------------------
(***************************************************************************)
(* A binding from its document to a runtime that serves: from_context, the *)
(* authenticated probe of every broker (probe/__init__.py and              *)
(* probe/protocol.py), verify_physical, and compile.                       *)
(*                                                                         *)
(* Brokers are not trusted: a broker has a certificate the CA vouches for  *)
(* or not, knows the SASL credential or not, and may answer anything or    *)
(* nothing.  Time passes while the probe waits.  now counts from the start *)
(* of the probe, whose deadline is Timeout; every wait has its own expiry. *)
(* Topics change while they are verified, since list_topics and            *)
(* describe_configs are two requests.                                      *)
(***************************************************************************)
EXTENDS Binding, SequencesExt

CONSTANTS
    Brokers,       \* broker ids
    Trusted,       \* those whose certificate is valid for the CA and the host name
    Genuine,       \* those that know the SASL credential
    Offers(_),     \* SASL mechanisms a broker offers
    Ranges(_),     \* its ApiVersions: api key -> <<min, max>>
    Documents,     \* documents a deployment may select
    Operations,    \* operations an application may send
    Topics, MaxPartitions, Configs,  \* physical topics
    Timeout,       \* operation_timeout_ms
    Addresses,     \* addresses a host name resolves to
    MaxChanges     \* bound on changes of topics

ASSUME StartupAssumption ==
    /\ IsFiniteSet(Brokers) /\ Brokers \subseteq Nat
    /\ \A b \in Brokers : \A k \in DOMAIN Ranges(b) : Ranges(b)[k] \in Int \X Int
    /\ Trusted \subseteq Brokers
    /\ Genuine \subseteq Brokers
    /\ {Timeout, Addresses, MaxPartitions} \subseteq Nat \ {0}
    /\ MaxChanges \in Nat
    /\ IsFiniteSet(Topics) /\ Configs # {}
    /\ \A d \in Documents : \A i \in DOMAIN d.entries :
            d.entries[i].resource.kind = "stream" => d.entries[i].resource.topic \in Topics

NoDocument == [wellFormed |-> FALSE]
NoSettings == [profile |-> "none", resources |-> <<>>]
NoCommand == [stream |-> 0]

VARIABLES
    phase, document, settings,
    \* The probe: the brokers still to ask, the addresses tried, the socket's
    \* timeout, when the wait in progress expires, and the requests still to make.
    now, queue, address, timeout, expires, script,
    proved,       \* what each asked broker has shown, on its connection
    \* Physical verification: the resources planned, the topics still to verify.
    planned, pending,
    topics,       \* the topics as they are
    seen,         \* and every state they have had since it began
    changes,
    command

probe == <<now, queue, address, timeout, expires, script, proved>>
verification == <<planned, pending, topics, seen, changes>>
vars == <<phase, document, settings, probe, verification, command>>

Phases ==
    {"parsing", "refused", "opening", "listing", "dialling", "connecting", "handshaking", "sending",
     "waiting",
     "failed", "opened", "verifying", "describing", "ready"}

Requests == {"SaslHandshake", "plain", "scram-first", "scram-final", "ApiVersions"}

Proofs == {"certificate", "sasl", "signature", "ranges"}

Topic == [partitions : 0 .. MaxPartitions, config : Configs]

TypeOK ==
    /\ phase \in Phases
    /\ document = NoDocument \/ document \in Documents
    /\ settings = NoSettings \/ settings.profile \in {Production, Test}
    /\ now \in Nat
    /\ queue \in Seq(Brokers)
    /\ address \in 0 .. Addresses
    /\ timeout \in 0 .. Timeout
    /\ expires \in Nat
    /\ script \in Seq(Requests)
    /\ phase \in {"sending", "waiting"} => script # <<>> /\ queue # <<>>
    /\ DOMAIN proved \subseteq Brokers
    /\ \A b \in DOMAIN proved : proved[b] \subseteq Proofs
    /\ settings # NoSettings => planned \subseteq DOMAIN settings.resources
    /\ pending \in Seq(Topics)
    /\ topics \in [Topics -> Topic]
    /\ seen \in [Topics -> SUBSET Topic]
    /\ changes \in 0 .. MaxChanges

NoProbe ==
    /\ now = 0 /\ queue = <<>> /\ address = 0 /\ timeout = 0 /\ expires = 0
    /\ script = <<>> /\ proved = <<>>

Init ==
    /\ phase = "parsing"
    /\ document \in Documents
    /\ settings = NoSettings
    /\ NoProbe
    /\ planned = {} /\ pending = <<>>
    /\ topics = [t \in Topics |-> CHOOSE x \in Topic : TRUE]
    /\ seen = [t \in Topics |-> {}]
    /\ changes = 0
    /\ command = NoCommand

-----------------------------------------------------------------------------
(* from_context and the start of open.                                     *)

\* The probe is over: nothing of it is kept but what open returns.
Fails ==
    /\ phase' = "failed"
    /\ now' = 0 /\ queue' = <<>> /\ address' = 0 /\ timeout' = 0 /\ expires' = 0
    /\ script' = <<>> /\ proved' = <<>>

Parse ==
    /\ phase = "parsing"
    /\ document' = NoDocument
    /\ IF Accepts(document)
       THEN phase' = "opening" /\ settings' = Settings(document)
       ELSE phase' = "refused" /\ UNCHANGED settings
    /\ UNCHANGED <<probe, verification, command>>

\* open makes the clients' configuration and begins the probe.
Open ==
    /\ phase = "opening"
    /\ IF ConfigurationComplete(settings, FALSE)
       THEN /\ phase' = "listing"
            /\ expires' = Timeout
            /\ UNCHANGED <<now, queue, address, timeout, script, proved>>
       ELSE Fails
    /\ UNCHANGED <<document, settings, verification, command>>

\* The orders in which a loop may take the members of a set, and the one of a loop
\* over sorted numbers.
Orders(S) == {s \in [1 .. Cardinality(S) -> S] : Range(s) = S}

Ascending(S) == {s \in Orders(S) : \A i, j \in DOMAIN s : i < j => s[i] < s[j]}

\* list_topics answers with brokers, a controller and endpoints; all of them are
\* asked, in the order of their ids.
Listed(snapshot, valid) ==
    /\ phase = "listing"
    /\ IF snapshot # {} /\ valid
       THEN /\ phase' = "dialling"
            /\ queue' \in Ascending(snapshot)
            /\ proved' = [b \in snapshot |-> {}]
            /\ UNCHANGED <<now, address, timeout, expires, script>>
       ELSE Fails
    /\ UNCHANGED <<document, settings, verification, command>>

-----------------------------------------------------------------------------
(* probe_api_versions of the broker at the head of the queue.              *)

Broker == Head(queue)

Shows(what) == proved' = [proved EXCEPT ![Broker] = @ \cup what]

\* Mutant of Dial: every broker has a deadline of its own.
DialAfresh ==
    /\ phase = "dialling"
    /\ queue # <<>>
    /\ phase' = "connecting"
    /\ address' = 1
    /\ timeout' = Timeout
    /\ expires' = now + Timeout
    /\ UNCHANGED <<now, queue, script, proved, document, settings, verification, command>>

\* create_connection with what remains of the deadline.  It resolves the host name
\* first, which no timeout bounds: here that takes no time.
Dial ==
    /\ phase = "dialling"
    /\ queue # <<>>
    /\ IF now >= Timeout THEN Fails
       ELSE /\ phase' = "connecting"
            /\ address' = 1
            /\ timeout' = Timeout - now
            /\ expires' = Timeout
            /\ UNCHANGED <<now, queue, script, proved>>
    /\ UNCHANGED <<document, settings, verification, command>>

\* An address refuses or does not answer: the next one has the same timeout again.
NextAddress ==
    /\ phase = "connecting"
    /\ IF address < Addresses
       THEN /\ address' = address + 1
            /\ expires' = now + timeout
            /\ UNCHANGED <<phase, now, queue, timeout, script, proved>>
       ELSE Fails
    /\ UNCHANGED <<document, settings, verification, command>>

\* Mutant of Script: without SASL nothing is asked.
ScriptSilent(mechanism) ==
    CASE mechanism = "none" -> <<>>
      [] mechanism = "PLAIN" -> <<"SaslHandshake", "plain", "ApiVersions">>
      [] OTHER -> <<"SaslHandshake", "scram-first", "scram-final", "ApiVersions">>

\* The requests _authenticate and parse_api_versions will make.
Script(mechanism) ==
    CASE mechanism = "none" -> <<"ApiVersions">>
      [] mechanism = "PLAIN" -> <<"SaslHandshake", "plain", "ApiVersions">>
      [] OTHER -> <<"SaslHandshake", "scram-first", "scram-final", "ApiVersions">>

\* The socket is open; wrap_socket waits for as long again.
Connected ==
    /\ phase = "connecting"
    /\ phase' = IF settings.tls = "disabled" THEN "sending" ELSE "handshaking"
    /\ expires' = now + timeout
    /\ script' = Script(settings.sasl)
    /\ UNCHANGED <<now, queue, address, timeout, proved, document, settings, verification,
                   command>>

\* The handshake verifies the server's certificate, and presents ours if mutual.
Handshake ==
    /\ phase = "handshaking"
    /\ IF Broker \in Trusted
       THEN /\ phase' = "sending"
            /\ Shows({"certificate"})
            /\ UNCHANGED <<now, queue, address, timeout, expires, script>>
       ELSE Fails
    /\ UNCHANGED <<document, settings, verification, command>>

\* request: the deadline is looked at, and the wait ends with it.
Send ==
    /\ phase = "sending"
    /\ IF now >= Timeout THEN Fails
       ELSE /\ phase' = "waiting"
            /\ expires' = Timeout
            /\ UNCHANGED <<now, queue, address, timeout, script, proved>>
    /\ UNCHANGED <<document, settings, verification, command>>

\* required of validate_api_versions; a transaction's demands override the others.
BaseApis ==
    [k \in {0, 1, 2, 3, 8, 9, 10, 11, 12, 13, 14, 18, 22, 32} |->
        CASE k = 0 -> <<3, 10>> [] k = 1 -> <<4, 16>> [] k = 2 -> <<1, 7>>
          [] k = 3 -> <<0, 13>> [] k \in {8, 9} -> <<1, 9>> [] k = 10 -> <<0, 2>>
          [] k = 11 -> <<0, 5>> [] k \in {12, 14} -> <<0, 3>> [] k \in {13, 32} -> <<0, 1>>
          [] k = 18 -> <<0, 0>> [] k = 22 -> <<0, 4>>]

TransactionApis ==
    [k \in {10, 24, 25, 26, 28} |->
        CASE k = 10 -> <<1, 2>> [] k \in {24, 25} -> <<0, 0>> [] k = 26 -> <<0, 1>>
          [] k = 28 -> <<3, 3>>]

\* Mutant of Required: the base table overrides the transaction's.
RequiredBase(transactional) ==
    BaseApis @@ IF transactional THEN TransactionApis ELSE <<>>

Required(transactional) ==
    [k \in DOMAIN BaseApis \cup IF transactional THEN DOMAIN TransactionApis ELSE {} |->
        IF transactional /\ k \in DOMAIN TransactionApis THEN TransactionApis[k]
        ELSE BaseApis[k]]

\* The version negotiated with a broker that speaks observed.
Negotiated(observed, required) ==
    IF observed[2] < required[2] THEN observed[2] ELSE required[2]

Compatible(observed, required) ==
    /\ 0 <= observed[1] /\ observed[1] <= observed[2]
    /\ required[1] <= observed[2]
    /\ observed[1] <= required[2]

ValidateApiVersions(versions, transactional) ==
    \A k \in DOMAIN Required(transactional) :
        k \in DOMAIN versions /\ Compatible(versions[k], Required(transactional)[k])

\* Mutant of Satisfies: the signature of the server is not compared.
SatisfiesUnsigned(request) ==
    CASE request = "SaslHandshake" -> settings.sasl \in Offers(Broker)
      [] request = "ApiVersions" ->
            ValidateApiVersions(Ranges(Broker), TransactionEnabled(settings))
      [] OTHER -> TRUE

\* What an answer must say for the probe to go on.  A broker can accept any PLAIN
\* or first SCRAM message; only one that knows the credential can sign the last.
Satisfies(request) ==
    CASE request = "SaslHandshake" -> settings.sasl \in Offers(Broker)
      [] request = "scram-final" -> Broker \in Genuine
      [] request = "ApiVersions" ->
            ValidateApiVersions(Ranges(Broker), TransactionEnabled(settings))
      [] OTHER -> TRUE

\* An answer with the right correlation that satisfies the request.
Answer ==
    LET request == Head(script)
    IN  /\ phase = "waiting"
        /\ Satisfies(request)
        /\ Shows(CASE request = "plain" -> {"sasl"}
                   [] request = "scram-final" -> {"sasl", "signature"}
                   [] request = "ApiVersions" -> {"ranges"}
                   [] OTHER -> {})
        /\ script' = Tail(script)
        /\ IF Tail(script) # <<>>
           THEN phase' = "sending" /\ UNCHANGED <<queue, address, timeout, expires>>
           ELSE /\ phase' = "dialling"
                /\ queue' = Tail(queue)
                /\ address' = 0 /\ timeout' = 0 /\ expires' = 0
        /\ UNCHANGED <<now, document, settings, verification, command>>

\* Any other answer, a lost connection, an expired wait: the probe raises.
ProbeRaises ==
    /\ phase \in {"listing", "handshaking", "waiting"}
    /\ Fails
    /\ UNCHANGED <<document, settings, verification, command>>

\* Time passes while the probe waits.
Tick ==
    /\ phase \in {"listing", "connecting", "handshaking", "waiting"}
    /\ now < expires
    /\ now' = now + 1
    /\ UNCHANGED <<phase, queue, address, timeout, expires, script, proved, document,
                   settings, verification, command>>

\* All brokers have been asked: open returns.
Opened ==
    /\ phase = "dialling"
    /\ queue = <<>>
    /\ phase' = "opened"
    /\ now' = 0
    /\ UNCHANGED <<queue, address, timeout, expires, script, proved, document, settings,
                   verification, command>>

-----------------------------------------------------------------------------
(* execute: compile, and the part of _dispatch that validates.             *)

Executes(o) ==
    /\ Compiles(settings, o)
    /\ o.contract = "publish-schema" => ValidatesSchema(settings, o)

Execute(o) ==
    /\ phase = "opened"
    /\ command' = IF Executes(o) THEN Command(settings, o) ELSE NoCommand
    /\ UNCHANGED <<phase, document, settings, probe, verification>>

-----------------------------------------------------------------------------
(* verify_physical of the resources Core planned.                          *)

\* Mutant of StreamOf: only Streams lead to a topic.
StreamOfStreams(s, r) == r

\* The Stream a resource leads to.
StreamOf(s, r) ==
    LET x == s.resources[r]
    IN  CASE x.kind = "stream" -> r
          [] x.kind = "subscription" -> x.stream
          [] OTHER -> s.resources[x.subscription].stream

\* The topics of the planned resources, each once.
TopicsOf(s, resources) ==
    {s.resources[StreamOf(s, r)].topic : r \in
        {r \in resources : s.resources[StreamOf(s, r)].kind = "stream"}}

\* The planned resources are bound and have the fingerprints of the binding.  The
\* topics are taken in the order of their names, about which nothing is assumed.
VerifyBegin(resources, physical) ==
    /\ phase = "opened"
    /\ phase' = "verifying"
    /\ planned' = resources
    /\ pending' \in Orders(TopicsOf(settings, resources))
    /\ topics' = physical
    /\ seen' = [t \in Topics |-> {physical[t]}]
    /\ proved' = <<>>
    /\ command' = NoCommand
    /\ UNCHANGED <<document, settings, now, queue, address, timeout, expires, script, changes>>

\* One of them is not, or has another fingerprint.
VerifyRefused ==
    /\ phase = "opened"
    /\ phase' = "refused"
    /\ proved' = <<>>
    /\ command' = NoCommand
    /\ UNCHANGED <<document, settings, now, queue, address, timeout, expires, script,
                   verification>>

\* The Stream bound to a topic.
Bound(topic) ==
    settings.resources[CHOOSE r \in DOMAIN settings.resources :
        settings.resources[r].kind = "stream" /\ settings.resources[r].topic = topic]

\* list_topics of _verify_topic: the topic exists with as many partitions as bound.
VerifyPartitions ==
    /\ phase = "verifying"
    /\ pending # <<>>
    /\ phase' = IF topics[Head(pending)].partitions = Bound(Head(pending)).partitions
                THEN "describing" ELSE "refused"
    /\ UNCHANGED <<document, settings, probe, verification, command>>

\* describe_configs of _verify_topic: compaction and retention are as bound.
VerifyConfiguration ==
    /\ phase = "describing"
    /\ IF topics[Head(pending)].config = Bound(Head(pending)).config
       THEN phase' = "verifying" /\ pending' = Tail(pending)
       ELSE phase' = "refused" /\ UNCHANGED pending
    /\ UNCHANGED <<document, settings, probe, planned, topics, seen, changes, command>>

VerifyRaises ==
    /\ phase \in {"verifying", "describing"}
    /\ phase' = "failed"
    /\ UNCHANGED <<document, settings, probe, verification, command>>

Verified ==
    /\ phase = "verifying"
    /\ pending = <<>>
    /\ phase' = "ready"
    /\ UNCHANGED <<document, settings, probe, verification, command>>

\* Somebody changes a topic meanwhile.
TopicChanges(t, x) ==
    /\ phase \in {"verifying", "describing"}
    /\ changes < MaxChanges
    /\ x # topics[t]
    /\ changes' = changes + 1
    /\ topics' = [topics EXCEPT ![t] = x]
    /\ seen' = [seen EXCEPT ![t] = @ \cup {x}]
    /\ UNCHANGED <<phase, document, settings, probe, planned, pending, command>>

-----------------------------------------------------------------------------
ProbeStep ==
    \/ \E snapshot \in SUBSET Brokers, valid \in BOOLEAN : Listed(snapshot, valid)
    \/ Dial \/ NextAddress \/ Connected \/ Handshake \/ Send \/ Answer
    \/ ProbeRaises \/ Tick \/ Opened

VerifyStep ==
    \/ \E resources \in SUBSET DOMAIN settings.resources,
          physical \in [Topics -> Topic] : VerifyBegin(resources, physical)
    \/ VerifyRefused \/ VerifyPartitions \/ VerifyConfiguration \/ VerifyRaises \/ Verified
    \/ \E t \in Topics, x \in Topic : TopicChanges(t, x)

Next ==
    \/ Parse \/ Open
    \/ ProbeStep
    \/ \E o \in Operations : Execute(o)
    \/ VerifyStep

Spec == Init /\ [][Next]_vars

-----------------------------------------------------------------------------
(* Properties.                                                             *)

\* The runtime opens only when every broker of the metadata has shown, on its own
\* connection, what the binding demands of it: a certificate under TLS, knowledge
\* of the credential under SCRAM, and compatible ranges; in production the client
\* has authenticated itself too, by a certificate or by SASL.
AuthenticatedEverywhere ==
    phase = "opened" =>
        /\ proved # <<>>
        /\ \A b \in DOMAIN proved :
            /\ "ranges" \in proved[b]
            /\ settings.tls # "disabled" => b \in Trusted
            /\ settings.sasl = "SCRAM" => b \in Genuine
            /\ settings.profile = Production =>
                    /\ "certificate" \in proved[b]
                    /\ settings.tls = "mutual" \/ "sasl" \in proved[b]

\* Accepted settings never fail later for want of the material they select, and the
\* clients of a production binding verify the brokers and authenticate themselves.
AcceptedIsUsable ==
    settings # NoSettings =>
        LET c == ClientConfiguration(settings)
        IN  /\ ConfigurationComplete(settings, TransactionEnabled(settings))
            /\ settings.profile = Production =>
                    c.verifiesServer /\ (c.presentsCertificate \/ c.protocol = "SASL_SSL")

\* The shared deadline holds for all brokers together, except that the addresses
\* of one host name and the TLS handshake may each take what remained of it again.
\* The time that name resolution takes is not counted.
ProbeBounded == now <= (Addresses + 1) * Timeout

\* A transactional command is compiled only where Core was told of it, where all
\* consumers read committed records, where the transactional producer can be
\* configured, and where the version negotiated with every broker for a transaction
\* API is one that broker and client both speak.
TransactionsSupported ==
    (command # NoCommand /\ command.operation.contract = "transactional") =>
        /\ "transactional" \in Available(settings)
        /\ Isolation(settings) = "read_committed"
        /\ ConfigurationComplete(settings, TRUE)
        /\ \A b \in DOMAIN proved : \A k \in DOMAIN TransactionApis :
                Negotiated(Ranges(b)[k], TransactionApis[k]) \in
                    (TransactionApis[k][1] .. TransactionApis[k][2])
                        \cap (Ranges(b)[k][1] .. Ranges(b)[k][2])

\* A compiled command names resources of the binding that belong together: a
\* group of the Subscription, the Stream of the Subscription, and a dead-letter
\* Stream on another topic than the one consumed.
CommandsCoherent ==
    (command # NoCommand /\ command.operation.contract \in GroupContracts) =>
        LET map == settings.resources
            o == command.operation
            x == map[o.subscription]
        IN  /\ map[o.group].subscription = o.subscription
            /\ map[command.stream].kind = "stream"
            /\ x.deadLetter # 0 => map[x.deadLetter].topic # map[command.stream].topic

\* When verification succeeds, every planned resource, a ConsumerGroup or a
\* Subscription alone too, leads to a topic that had the bound number of
\* partitions at one moment of it and the bound configuration at one, though not
\* necessarily at the same.
VerifiedAtSomeTime ==
    phase = "ready" =>
        \A r \in planned :
            LET x == settings.resources[r]
                subscription == IF x.kind = "consumer-group"
                                THEN settings.resources[x.subscription] ELSE x
                stream == IF x.kind = "stream" THEN x
                          ELSE settings.resources[subscription.stream]
            IN  /\ \E y \in seen[stream.topic] : y.partitions = stream.partitions
                /\ \E y \in seen[stream.topic] : y.config = stream.config
=============================================================================
