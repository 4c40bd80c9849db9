--------------------------- MODULE StartupProofs ---------------------------
(***************************************************************************)
(* Proofs about Startup, for every set of brokers, of documents and of     *)
(* operations, and every timeout.  Each property rests on one inductive    *)
(* invariant of Startup: what from_context guarantees (SettingsInv), when  *)
(* the wait in progress ends (DeadlineInv), what the brokers asked so far  *)
(* have shown (ProbeInv), where a command comes from (CommandInv) and      *)
(* which topics have been verified (VerifyInv).                            *)
(***************************************************************************)
EXTENDS Startup, TLAPS, FiniteSetTheorems

-----------------------------------------------------------------------------
(* Inductive invariants.                                                   *)

\* What from_context guarantees of the settings it returns.
Sound(s) ==
    /\ s.profile \in {Production, Test}
    /\ s.sasl \in Mechanisms \cup {"none"}
    /\ s.profile = Production => s.tls # "disabled" /\ (s.tls = "mutual" \/ s.sasl # "none")
    /\ ConfigurationComplete(s, TransactionEnabled(s))
    /\ \A r \in DOMAIN s.resources :
            /\ Refers(s.resources, s.resources[r])
            /\ s.resources[r].kind = "stream" => s.resources[r].topic \in Topics
    /\ \A q, r \in DOMAIN s.resources :
            /\ s.resources[q].kind = "stream" /\ s.resources[r].kind = "stream"
            /\ s.resources[q].topic = s.resources[r].topic
            => q = r

\* Until a document is parsed there are no settings, and settings there are, are sound.
SettingsInv ==
    /\ phase \in Phases
    /\ document = NoDocument \/ document \in Documents
    /\ phase = "parsing" => document \in Documents /\ settings = NoSettings /\ planned = {}
    /\ phase \notin {"parsing", "refused"} => settings # NoSettings
    /\ settings # NoSettings => Sound(settings)

\* The wait in progress ends, at the latest, after one Timeout for each address
\* tried, and one more for the TLS handshake.
DeadlineInv ==
    /\ now \in Nat /\ expires \in Nat
    /\ address \in 0 .. Addresses
    /\ timeout \in 0 .. Timeout
    /\ CASE phase \in {"listing", "waiting"} -> expires = Timeout /\ now <= Timeout
         [] phase = "dialling" -> now <= Timeout
         [] phase = "connecting" ->
                address # 0 /\ now <= expires /\ expires <= address * Timeout
         [] phase = "handshaking" -> now <= expires /\ expires <= (Addresses + 1) * Timeout
         [] phase = "sending" -> now <= (Addresses + 1) * Timeout
         [] OTHER -> now = 0

\* What the binding demands of broker b, which has shown shown, apart from SASL and
\* from its ranges.
ShownTls(b, shown) == settings.tls # "disabled" => b \in Trusted /\ "certificate" \in shown

ShownSasl(b, shown) ==
    /\ settings.sasl = "SCRAM" => b \in Genuine
    /\ settings.sasl # "none" => "sasl" \in shown

\* Everything it demands.
Shown(b, shown) ==
    /\ ShownTls(b, shown)
    /\ ShownSasl(b, shown)
    /\ "ranges" \in shown
    /\ ValidateApiVersions(Ranges(b), TransactionEnabled(settings))

\* The requests that remain, of those the mechanism asks for.
ScriptShape ==
    \/ script = Script(settings.sasl)
    \/ script = <<"plain", "ApiVersions">> /\ settings.sasl = "PLAIN"
    \/ /\ script \in {<<"scram-first", "scram-final", "ApiVersions">>,
                      <<"scram-final", "ApiVersions">>}
       /\ settings.sasl = "SCRAM"
    \/ script = <<"ApiVersions">> /\ ShownSasl(Broker, proved[Broker])

\* A broker of the snapshot is still in the queue, or has shown everything; the one
\* at the head has shown what the requests made so far ask for.
ProbeInv ==
    /\ queue \in Seq(Brokers)
    /\ script \in Seq(Requests)
    /\ proved \in [DOMAIN proved -> SUBSET Proofs]
    /\ DOMAIN proved \subseteq Brokers
    /\ phase \in {"dialling", "connecting", "handshaking", "sending", "waiting", "opened"} =>
            /\ DOMAIN proved # {}
            /\ Range(queue) \subseteq DOMAIN proved
            /\ \A b \in DOMAIN proved : b \in Range(queue) \/ Shown(b, proved[b])
    /\ phase \in {"connecting", "handshaking", "sending", "waiting"} => queue # <<>>
    /\ phase = "handshaking" => script = Script(settings.sasl)
    /\ phase \in {"sending", "waiting"} =>
            ShownTls(Broker, proved[Broker]) /\ ScriptShape
    /\ phase = "opened" => queue = <<>>

\* A command is one that the settings and the open runtime let through.
CommandInv ==
    \/ command = NoCommand
    \/ phase = "opened" /\ \E o \in Operations : Executes(o) /\ command = Command(settings, o)

\* The topic has been seen with the bound number of partitions, and with the bound
\* configuration.
SeenPartitions(t) == \E y \in seen[t] : y.partitions = Bound(t).partitions

SeenConfig(t) == \E y \in seen[t] : y.config = Bound(t).config

\* A topic of the planned resources is still to verify or has been seen as bound.
VerifyInv ==
    /\ pending \in Seq(Topics)
    /\ topics \in [Topics -> Topic]
    /\ seen \in [Topics -> SUBSET Topic]
    /\ changes \in 0 .. MaxChanges
    /\ settings # NoSettings => planned \subseteq DOMAIN settings.resources
    /\ phase \in {"verifying", "describing", "ready"} =>
            /\ \A t \in Topics : topics[t] \in seen[t]
            /\ \A t \in TopicsOf(settings, planned) :
                    t \in Range(pending) \/ (SeenPartitions(t) /\ SeenConfig(t))
    /\ phase = "describing" => pending # <<>> /\ SeenPartitions(Head(pending))
    /\ phase = "ready" => pending = <<>>

-----------------------------------------------------------------------------
(* Lemmas about the operators.                                             *)

\* Every resource of the map is the one of an entry with its reference.
LEMMA ResourceHasEntry ==
    ASSUME NEW entries, NEW r \in DOMAIN ResourceMap(entries)
    PROVE  \E i \in DOMAIN entries :
                entries[i].ref = r /\ ResourceMap(entries)[r] = entries[i].resource
<1>1. PICK j \in DOMAIN entries : entries[j].ref = r
    BY DEF ResourceMap
<1> DEFINE i == CHOOSE i \in DOMAIN entries : entries[i].ref = r
<1>2. i \in DOMAIN entries /\ entries[i].ref = r
    BY <1>1
<1>3. ResourceMap(entries)[r] = entries[i].resource
    BY <1>1 DEF ResourceMap
<1> QED BY <1>2, <1>3

\* What _from_context accepts gives sound settings.
LEMMA AcceptedIsSound ==
    ASSUME NEW d \in Documents, Accepts(d)
    PROVE  Sound(Settings(d)) /\ Settings(d) # NoSettings
<1> DEFINE map == ResourceMap(d.entries)
<1>1. /\ Settings(d).profile = d.profile /\ Settings(d).tls = d.tls
      /\ Settings(d).sasl = d.sasl /\ Settings(d).resources = map
    BY DEF Settings
<1>2. Settings(d).profile \in {Production, Test} /\ Settings(d) # NoSettings
    BY <1>1 DEF Accepts, NoSettings, Production, Test
<1>3. Settings(d).sasl \in Mechanisms \cup {"none"}
    BY <1>1 DEF Accepts
<1>4. Settings(d).profile = Production =>
        Settings(d).tls # "disabled" /\ (Settings(d).tls = "mutual" \/ Settings(d).sasl # "none")
    BY <1>1 DEF Accepts, AcceptsSecurity
<1>5. ConfigurationComplete(Settings(d), TransactionEnabled(Settings(d)))
    BY DEF Accepts, AcceptsSecurity, Settings, ConfigurationComplete
<1>6. ASSUME NEW r \in DOMAIN map
      PROVE  Refers(map, map[r]) /\ (map[r].kind = "stream" => map[r].topic \in Topics)
    <2>1. Refers(map, map[r])
        BY DEF Accepts, AcceptsResources
    <2>2. PICK i \in DOMAIN d.entries : map[r] = d.entries[i].resource
        BY ResourceHasEntry
    <2> QED BY <2>1, <2>2, StartupAssumption
<1>7. ASSUME NEW q \in DOMAIN map, NEW r \in DOMAIN map,
             map[q].kind = "stream", map[r].kind = "stream", map[q].topic = map[r].topic
      PROVE  q = r
    <2>1. PICK i \in DOMAIN d.entries :
                d.entries[i].ref = q /\ map[q] = d.entries[i].resource
        BY ResourceHasEntry
    <2>2. PICK j \in DOMAIN d.entries :
                d.entries[j].ref = r /\ map[r] = d.entries[j].resource
        BY ResourceHasEntry
    <2>3. Clashes(d.entries[i], d.entries[j])
        BY <1>7, <2>1, <2>2 DEF Clashes
    <2>4. i = j
        BY <2>3 DEF Accepts, AcceptsResources
    <2> QED BY <2>1, <2>2, <2>4
<1> HIDE DEF map
<1> QED BY <1>1, <1>2, <1>3, <1>4, <1>5, <1>6, <1>7 DEF Sound

\* A loop over a finite set takes each member, and members only.
LEMMA OrderTakesAll ==
    ASSUME NEW S, IsFiniteSet(S), NEW s \in Orders(S)
    PROVE  s \in Seq(S) /\ Range(s) = S
<1>1. Cardinality(S) \in Nat
    BY FS_CardinalityType
<1>2. s \in [1 .. Cardinality(S) -> S] /\ Range(s) = S
    BY DEF Orders
<1> QED BY <1>1, <1>2

\* The members of a queue are its head and those of its tail.
LEMMA HeadAndTail ==
    ASSUME NEW S, NEW s \in Seq(S), s # <<>>
    PROVE  /\ Head(s) \in S /\ Head(s) \in Range(s)
           /\ Tail(s) \in Seq(S)
           /\ Range(s) = {Head(s)} \cup Range(Tail(s))
<1>1. Head(s) \in S /\ Tail(s) \in Seq(S) /\ Len(s) \in Nat \ {0} /\ Head(s) = s[1]
    OBVIOUS
<1>2. Len(Tail(s)) = Len(s) - 1 /\ \A i \in 1 .. Len(s) - 1 : Tail(s)[i] = s[i + 1]
    OBVIOUS
<1>3. DOMAIN s = 1 .. Len(s) /\ DOMAIN Tail(s) = 1 .. Len(s) - 1
    BY <1>1, <1>2
<1>4. ASSUME NEW i \in 1 .. Len(s) PROVE s[i] \in {Head(s)} \cup Range(Tail(s))
    <2>1. CASE i = 1
        BY <1>1, <2>1
    <2>2. CASE i # 1
        <3>1. PICK j \in 1 .. Len(s) - 1 : i = j + 1
            <4>1. i - 1 \in 1 .. Len(s) - 1 /\ i = (i - 1) + 1
                BY <2>2, <1>1
            <4> QED BY <4>1
        <3>2. s[i] = Tail(s)[j]
            BY <3>1, <1>2
        <3> QED BY <3>1, <3>2, <1>3 DEF Range
    <2> QED BY <2>1, <2>2
<1>5. ASSUME NEW j \in 1 .. Len(s) - 1 PROVE Tail(s)[j] \in Range(s)
    <2>1. j + 1 \in 1 .. Len(s) /\ Tail(s)[j] = s[j + 1]
        BY <1>1, <1>2
    <2> QED BY <2>1, <1>3 DEF Range
<1>6. Head(s) \in Range(s)
    BY <1>1, <1>3 DEF Range
<1> QED BY <1>1, <1>3, <1>4, <1>5, <1>6 DEF Range

-----------------------------------------------------------------------------
(* The settings.                                                           *)

\* The settings are sound whenever there are any.
LEMMA SettingsHold == Spec => []SettingsInv
<1>1. Init => SettingsInv
    BY DEF Init, SettingsInv, Phases
<1>2. SettingsInv /\ [Next]_vars => SettingsInv'
    <2> SUFFICES ASSUME SettingsInv, [Next]_vars PROVE SettingsInv'
        OBVIOUS
    <2> USE DEF SettingsInv, Phases
    <2>1. CASE Parse
        <3>1. document \in Documents /\ settings = NoSettings /\ document' = NoDocument
            BY <2>1 DEF Parse
        <3>2. CASE Accepts(document)
            <4>1. phase' = "opening" /\ settings' = Settings(document)
                BY <2>1, <3>2 DEF Parse
            <4>2. Sound(Settings(document)) /\ Settings(document) # NoSettings
                BY <3>1, <3>2, AcceptedIsSound
            <4>3. Sound(settings') /\ settings' # NoSettings
                BY <4>1, <4>2
            <4>4. Sound(settings)'
                BY <4>3 DEF Sound, ConfigurationComplete, TransactionEnabled, Refers, OfKind
            <4> QED BY <3>1, <4>1, <4>3, <4>4
        <3>3. CASE ~Accepts(document)
            <4>1. phase' = "refused" /\ settings' = NoSettings
                BY <2>1, <3>1, <3>3 DEF Parse
            <4> QED BY <3>1, <4>1
        <3> QED BY <3>2, <3>3
    <2>2. ASSUME UNCHANGED <<document, settings>>, phase' \in Phases,
                 phase' # "parsing" \/ UNCHANGED <<phase, planned>>,
                 phase' # "refused" => phase # "refused" \/ UNCHANGED phase,
                 phase # "parsing" \/ UNCHANGED phase
          PROVE  SettingsInv'
        <3>1. (Sound(settings))' <=> Sound(settings)
            BY <2>2 DEF Sound, ConfigurationComplete, TransactionEnabled, Refers, OfKind
        <3> QED BY <2>2, <3>1
    <2>3. CASE Open
        BY <2>3, <2>2 DEF Open, Fails
    <2>4. CASE ProbeStep
        BY <2>4, <2>2 DEF ProbeStep, Listed, Dial, NextAddress, Connected, Handshake, Send, Answer,
            ProbeRaises, Tick, Opened, Fails
    <2>5. CASE \E o \in Operations : Execute(o)
        BY <2>5, <2>2 DEF Execute
    <2>6. CASE VerifyStep
        BY <2>6, <2>2 DEF VerifyStep, VerifyBegin, VerifyRefused, VerifyPartitions,
            VerifyConfiguration, VerifyRaises, Verified, TopicChanges
    <2>7. CASE UNCHANGED vars
        BY <2>7, <2>2 DEF vars, verification
    <2> QED BY <2>1, <2>3, <2>4, <2>5, <2>6, <2>7 DEF Next
<1> QED BY <1>1, <1>2, PTL DEF Spec

-----------------------------------------------------------------------------
(* The deadline.                                                           *)

\* One address more is one Timeout more.
LEMMA AddressesTakeTime ==
    ASSUME NEW a \in 1 .. Addresses
    PROVE  /\ a * Timeout \in Nat
           /\ (a + 1) * Timeout = a * Timeout + Timeout
           /\ Timeout <= a * Timeout
           /\ a * Timeout + Timeout <= (Addresses + 1) * Timeout
<1>1. a \in Nat \ {0} /\ Timeout \in Nat \ {0} /\ Addresses \in Nat \ {0} /\ a <= Addresses
    BY StartupAssumption
<1>2. a * Timeout \in Nat /\ (a + 1) * Timeout = a * Timeout + Timeout
    BY <1>1
<1>3. PICK n \in Nat : a = n + 1
    <2>1. a - 1 \in Nat /\ a = (a - 1) + 1
        BY <1>1
    <2> QED BY <2>1
<1>4. n * Timeout \in Nat /\ a * Timeout = n * Timeout + Timeout
    BY <1>1, <1>3
<1>5. PICK m \in Nat : Addresses = a + m
    <2>1. Addresses - a \in Nat /\ Addresses = a + (Addresses - a)
        BY <1>1
    <2> QED BY <2>1
<1>6. /\ m * Timeout \in Nat
      /\ (Addresses + 1) * Timeout = a * Timeout + m * Timeout + Timeout
    <2>1. m * Timeout \in Nat
        BY <1>1, <1>5
    <2>2. (Addresses + 1) * Timeout = (a + m + 1) * Timeout
        BY <1>5
    <2>3. (a + m + 1) * Timeout = a * Timeout + m * Timeout + Timeout
        BY <1>1, <1>5
    <2> QED BY <2>1, <2>2, <2>3
<1> HIDE DEF StartupAssumption
<1>7. a * Timeout + Timeout <= (Addresses + 1) * Timeout
    BY <1>1, <1>2, <1>6
<1> QED BY <1>1, <1>2, <1>4, <1>7

\* Every wait of the probe ends in time.
LEMMA DeadlinesHold == Spec => []DeadlineInv
<1> DEFINE Whole == (Addresses + 1) * Timeout
<1>0. /\ Timeout \in Nat \ {0} /\ Addresses \in Nat \ {0}
      /\ Whole \in Nat /\ 1 * Timeout = Timeout /\ Timeout <= Whole
    BY StartupAssumption, AddressesTakeTime, 1 \in 1 .. Addresses
<1>1. Init => DeadlineInv
    BY <1>0 DEF Init, NoProbe, DeadlineInv
<1>2. DeadlineInv /\ [Next]_vars => DeadlineInv'
    <2> SUFFICES ASSUME DeadlineInv, [Next]_vars PROVE DeadlineInv'
        OBVIOUS
    <2>0. now \in Nat /\ expires \in Nat /\ address \in 0 .. Addresses /\ timeout \in 0 .. Timeout
        BY DEF DeadlineInv
    <2>1. ASSUME Fails PROVE DeadlineInv'
        BY <2>1, <1>0 DEF Fails, DeadlineInv
    <2>2. CASE Parse
        BY <2>2 DEF Parse, probe, DeadlineInv
    <2>3. CASE Open
        <3>1. phase = "opening" /\ now = 0
            BY <2>3 DEF Open, DeadlineInv
        <3>2. CASE ConfigurationComplete(settings, FALSE)
            <4>1. /\ phase' = "listing" /\ expires' = Timeout
                  /\ UNCHANGED <<now, address, timeout>>
                BY <2>3, <3>2 DEF Open
            <4>2. now' <= Timeout
                BY <3>1, <4>1, <1>0
            <4> QED BY <4>1, <4>2, <2>0, <1>0 DEF DeadlineInv
        <3>3. CASE ~ConfigurationComplete(settings, FALSE)
            BY <2>3, <2>1, <3>3 DEF Open
        <3> QED BY <3>2, <3>3
    <2>4. ASSUME NEW snapshot \in SUBSET Brokers, NEW valid \in BOOLEAN, Listed(snapshot, valid)
          PROVE  DeadlineInv'
        <3>1. phase = "listing" /\ now <= Timeout
            BY <2>4 DEF Listed, DeadlineInv
        <3> QED BY <2>4, <2>1, <3>1, <2>0 DEF Listed, DeadlineInv
    <2>5. CASE Dial
        <3>1. CASE now >= Timeout
            BY <2>5, <3>1, <2>1 DEF Dial
        <3>2. CASE ~(now >= Timeout)
            <4>1. /\ phase' = "connecting" /\ now' = now /\ expires' = Timeout
                  /\ address' = 1 /\ timeout' = Timeout - now
                BY <2>5, <3>2 DEF Dial
            <4> HIDE DEF Whole
            <4> QED BY <4>1, <3>2, <2>0, <1>0 DEF DeadlineInv
        <3> QED BY <3>1, <3>2
    <2>6. CASE NextAddress
        <3>1. phase = "connecting" /\ address # 0 /\ now <= expires /\ expires <= address * Timeout
            BY <2>6 DEF NextAddress, DeadlineInv
        <3>2. CASE address < Addresses
            <4>1. /\ phase' = "connecting" /\ now' = now /\ expires' = now + timeout
                  /\ address' = address + 1 /\ timeout' = timeout
                BY <2>6, <3>1, <3>2 DEF NextAddress
            <4>2. address \in 1 .. Addresses
                BY <3>1, <2>0, <1>0
            <4>3. /\ address * Timeout \in Nat
                  /\ address' * Timeout = address * Timeout + Timeout
                BY <4>1, <4>2, AddressesTakeTime
            <4>4. now' <= expires' /\ expires' <= address' * Timeout /\ expires' \in Nat
                BY <4>1, <4>3, <3>1, <2>0, <1>0
            <4>5. address' \in 0 .. Addresses /\ address' # 0
                BY <4>1, <4>2, <3>2, <1>0
            <4> QED BY <4>1, <4>4, <4>5, <2>0 DEF DeadlineInv
        <3>3. CASE ~(address < Addresses)
            BY <2>6, <2>1, <3>3 DEF NextAddress
        <3> QED BY <3>2, <3>3
    <2>7. CASE Connected
        <3>1. phase = "connecting" /\ address # 0 /\ now <= expires /\ expires <= address * Timeout
            BY <2>7 DEF Connected, DeadlineInv
        <3>2. /\ now' = now /\ expires' = now + timeout /\ address' = address /\ timeout' = timeout
              /\ phase' \in {"sending", "handshaking"}
            BY <2>7 DEF Connected
        <3>3. address \in 1 .. Addresses
            BY <3>1, <2>0, <1>0
        <3>4. address * Timeout \in Nat /\ address * Timeout + Timeout <= Whole
            BY <3>3, AddressesTakeTime
        <3> HIDE DEF Whole
        <3>5. now' <= expires' /\ expires' <= Whole /\ expires' \in Nat /\ now' <= Whole
            BY <3>1, <3>2, <3>4, <2>0, <1>0
        <3> QED BY <3>2, <3>5, <2>0 DEF DeadlineInv, Whole
    <2>8. CASE Handshake
        <3>1. phase = "handshaking" /\ now <= expires /\ expires <= Whole
            BY <2>8 DEF Handshake, DeadlineInv
        <3> HIDE DEF Whole
        <3>2. now <= Whole
            BY <3>1, <2>0, <1>0
        <3> QED BY <2>8, <2>1, <3>2, <2>0 DEF Handshake, DeadlineInv, Whole
    <2>9. CASE Send
        <3>1. CASE now >= Timeout
            BY <2>9, <3>1, <2>1 DEF Send
        <3>2. CASE ~(now >= Timeout)
            <4>1. /\ phase' = "waiting" /\ now' = now /\ expires' = Timeout
                  /\ UNCHANGED <<address, timeout>>
                BY <2>9, <3>2 DEF Send
            <4>2. now <= Timeout
                BY <3>2, <2>0, <1>0
            <4> QED BY <4>1, <4>2, <2>0, <1>0 DEF DeadlineInv
        <3> QED BY <3>1, <3>2
    <2>10. CASE Answer
        <3>1. phase = "waiting" /\ expires = Timeout /\ now <= Timeout
            BY <2>10 DEF Answer, DeadlineInv
        <3> HIDE DEF Whole
        <3>2. now <= Whole
            BY <3>1, <2>0, <1>0
        <3>3. /\ now' = now
              /\ \/ phase' = "sending" /\ UNCHANGED <<address, timeout, expires>>
                 \/ phase' = "dialling" /\ address' = 0 /\ timeout' = 0 /\ expires' = 0
            BY <2>10 DEF Answer
        <3>4. address' \in 0 .. Addresses /\ timeout' \in 0 .. Timeout /\ expires' \in Nat
            BY <3>3, <2>0, <1>0
        <3> QED BY <3>1, <3>2, <3>3, <3>4, <2>0 DEF DeadlineInv, Whole
    <2>11. CASE ProbeRaises
        BY <2>11, <2>1 DEF ProbeRaises
    <2>12. CASE Tick
        <3>1. /\ UNCHANGED <<phase, address, timeout, expires>> /\ now' = now + 1
              /\ now < expires /\ phase \in {"listing", "connecting", "handshaking", "waiting"}
            BY <2>12 DEF Tick
        <3>2. now' <= expires /\ now' \in Nat
            BY <3>1, <2>0
        <3> QED BY <3>1, <3>2, <2>0 DEF DeadlineInv
    <2>13. CASE Opened
        BY <2>13, <2>0 DEF Opened, DeadlineInv
    <2>14. CASE ProbeStep
        BY <2>14, <2>4, <2>5, <2>6, <2>7, <2>8, <2>9, <2>10, <2>11, <2>12, <2>13 DEF ProbeStep
    <2>15. CASE \E o \in Operations : Execute(o)
        BY <2>15 DEF Execute, probe, DeadlineInv
    <2>16. CASE VerifyStep
        <3>1. UNCHANGED <<now, address, timeout, expires>>
            BY <2>16 DEF VerifyStep, VerifyBegin, VerifyRefused, VerifyPartitions,
                VerifyConfiguration, VerifyRaises, Verified, TopicChanges, probe
        <3>2. /\ phase \in {"opened", "verifying", "describing"}
              /\ phase' \in {"verifying", "describing", "refused", "failed", "ready"}
            BY <2>16 DEF VerifyStep, VerifyBegin, VerifyRefused, VerifyPartitions,
                VerifyConfiguration, VerifyRaises, Verified, TopicChanges
        <3>3. now = 0
            BY <3>2 DEF DeadlineInv
        <3> QED BY <3>1, <3>2, <3>3, <2>0 DEF DeadlineInv
    <2>17. CASE UNCHANGED vars
        BY <2>17 DEF vars, probe, DeadlineInv
    <2> QED BY <2>2, <2>3, <2>14, <2>15, <2>16, <2>17 DEF Next
<1> QED BY <1>1, <1>2, PTL DEF Spec

\* probe shares one deadline among all brokers: however many of them there are and
\* however slowly they answer, it ends within a Timeout for each address of a host
\* name and one for the TLS handshake, not counting name resolution.
THEOREM ProbeEnds == Spec => []ProbeBounded
<1>1. DeadlineInv => ProbeBounded
    <2> SUFFICES ASSUME DeadlineInv PROVE now <= (Addresses + 1) * Timeout
        BY DEF ProbeBounded
    <2> DEFINE Whole == (Addresses + 1) * Timeout
    <2>1. now \in Nat /\ expires \in Nat /\ address \in 0 .. Addresses
        BY DEF DeadlineInv
    <2>2. Timeout \in Nat /\ Addresses \in Nat \ {0} /\ Whole \in Nat /\ Timeout <= Whole
        BY StartupAssumption, AddressesTakeTime, 1 \in 1 .. Addresses
    <2>3. CASE phase = "connecting"
        <3>1. address # 0 /\ now <= expires /\ expires <= address * Timeout
            BY <2>3 DEF DeadlineInv
        <3>2. address \in 1 .. Addresses
            BY <3>1, <2>1, <2>2
        <3>3. address * Timeout \in Nat /\ address * Timeout + Timeout <= Whole
            BY <3>2, AddressesTakeTime
        <3> HIDE DEF Whole
        <3>4. now <= Whole
            BY <3>1, <3>3, <2>1, <2>2
        <3> QED BY <3>4 DEF Whole
    <2>4. CASE phase # "connecting"
        <3>1. now <= Timeout \/ (now <= expires /\ expires <= Whole) \/ now <= Whole \/ now = 0
            BY <2>4 DEF DeadlineInv
        <3> HIDE DEF Whole
        <3>2. now <= Whole
            BY <3>1, <2>1, <2>2
        <3> QED BY <3>2 DEF Whole
    <2> QED BY <2>3, <2>4
<1> QED BY <1>1, DeadlinesHold, PTL

\* Whatever document is accepted, no client made from its settings lacks the
\* material they select, and in production each verifies the brokers and
\* authenticates itself.
THEOREM AcceptedSettingsWork == Spec => []AcceptedIsUsable
<1>1. SettingsInv => AcceptedIsUsable
    BY DEF SettingsInv, Sound, AcceptedIsUsable, ClientConfiguration, Mechanisms
<1> QED BY <1>1, SettingsHold, PTL

-----------------------------------------------------------------------------
(* What the brokers have shown.                                            *)

\* What has been shown stays shown.
LEMMA ShownIsKept ==
    ASSUME NEW b, NEW S, NEW T, S \subseteq T
    PROVE  /\ ShownTls(b, S) => ShownTls(b, T)
           /\ ShownSasl(b, S) => ShownSasl(b, T)
           /\ Shown(b, S) => Shown(b, T)
BY DEF Shown, ShownTls, ShownSasl

\* An answer adds to what the broker at the head of the queue has shown, and to
\* nothing else.
LEMMA HeadShows ==
    ASSUME ProbeInv, queue # <<>>, Range(queue) \subseteq DOMAIN proved,
           NEW w \in SUBSET Proofs, Shows(w)
    PROVE  /\ Broker \in DOMAIN proved /\ Broker \in Range(queue)
           /\ DOMAIN proved' = DOMAIN proved
           /\ proved' \in [DOMAIN proved -> SUBSET Proofs]
           /\ proved'[Broker] = proved[Broker] \cup w
           /\ \A b \in DOMAIN proved : proved[b] \subseteq proved'[b]
<1>1. Broker \in Range(queue) /\ Broker \in DOMAIN proved
    BY HeadAndTail DEF Broker, ProbeInv
<1>2. proved \in [DOMAIN proved -> SUBSET Proofs]
    BY DEF ProbeInv
<1>3. proved' = [proved EXCEPT ![Broker] = proved[Broker] \cup w]
    BY DEF Shows
<1> HIDE DEF Broker, Shows
<1> QED BY <1>1, <1>2, <1>3

\* The scripts of the mechanisms.
LEMMA ScriptCases ==
    /\ Script("none") = <<"ApiVersions">>
    /\ Script("PLAIN") = <<"SaslHandshake", "plain", "ApiVersions">>
    /\ Script("SCRAM") = <<"SaslHandshake", "scram-first", "scram-final", "ApiVersions">>
    /\ \A m \in {"none", "PLAIN", "SCRAM"} : Script(m) \in Seq(Requests)
<1>1. /\ Script("none") = <<"ApiVersions">>
      /\ Script("PLAIN") = <<"SaslHandshake", "plain", "ApiVersions">>
      /\ Script("SCRAM") = <<"SaslHandshake", "scram-first", "scram-final", "ApiVersions">>
    BY DEF Script
<1>2. /\ <<"ApiVersions">> \in Seq(Requests)
      /\ <<"SaslHandshake", "plain", "ApiVersions">> \in Seq(Requests)
      /\ <<"SaslHandshake", "scram-first", "scram-final", "ApiVersions">> \in Seq(Requests)
    BY DEF Requests
<1> QED BY <1>1, <1>2

\* An answer that is not the last leaves the rest of the script to the same broker.
LEMMA AnswerContinues ==
    ASSUME ProbeInv, phase = "waiting", UNCHANGED <<settings, queue>>, phase' = "sending",
           NEW w \in SUBSET Proofs, Shows(w),
           script' \in Seq(Requests),
           \/ /\ script' = <<"plain", "ApiVersions">> /\ settings.sasl = "PLAIN"
           \/ /\ script' \in {<<"scram-first", "scram-final", "ApiVersions">>,
                              <<"scram-final", "ApiVersions">>}
              /\ settings.sasl = "SCRAM"
           \/ /\ script' = <<"ApiVersions">>
              /\ settings.sasl = "SCRAM" => Broker \in Genuine
              /\ settings.sasl # "none" => "sasl" \in w
    PROVE  ProbeInv'
<1>1. /\ queue \in Seq(Brokers) /\ queue # <<>> /\ Range(queue) \subseteq DOMAIN proved
      /\ DOMAIN proved \subseteq Brokers /\ DOMAIN proved # {}
      /\ \A b \in DOMAIN proved : b \in Range(queue) \/ Shown(b, proved[b])
      /\ ShownTls(Broker, proved[Broker])
    BY DEF ProbeInv
<1>2. /\ Broker \in DOMAIN proved /\ DOMAIN proved' = DOMAIN proved
      /\ proved' \in [DOMAIN proved -> SUBSET Proofs]
      /\ proved'[Broker] = proved[Broker] \cup w
      /\ \A b \in DOMAIN proved : proved[b] \subseteq proved'[b]
    BY <1>1, HeadShows
<1>3. Broker' = Broker /\ Range(queue)' = Range(queue)
    BY DEF Broker, Range
<1>4. \A b, S : /\ Shown(b, S)' <=> Shown(b, S)
                /\ ShownTls(b, S)' <=> ShownTls(b, S)
                /\ ShownSasl(b, S)' <=> ShownSasl(b, S)
    BY DEF Shown, ShownTls, ShownSasl
<1>5. ASSUME NEW b \in DOMAIN proved' PROVE b \in Range(queue)' \/ Shown(b, proved[b])'
    <2>1. b \in Range(queue) \/ Shown(b, proved'[b])
        BY <1>1, <1>2, ShownIsKept
    <2> QED BY <2>1, <1>3, <1>4
<1>6. ShownTls(Broker, proved[Broker])'
    BY <1>1, <1>2, <1>3, <1>4, ShownIsKept
<1>7. ScriptShape'
    BY <1>2, <1>3 DEF ScriptShape, ShownSasl
<1> HIDE DEF Broker
<1> QED BY <1>1, <1>2, <1>3, <1>5, <1>6, <1>7 DEF ProbeInv

\* The last answer of a broker finds it to have shown everything.
LEMMA AnswerEnds ==
    ASSUME ProbeInv, phase = "waiting", UNCHANGED settings, queue' = Tail(queue),
           phase' = "dialling", script' = <<>>,
           Shows({"ranges"}), ShownSasl(Broker, proved[Broker]),
           ValidateApiVersions(Ranges(Broker), TransactionEnabled(settings))
    PROVE  ProbeInv'
<1>1. /\ queue \in Seq(Brokers) /\ queue # <<>> /\ Range(queue) \subseteq DOMAIN proved
      /\ DOMAIN proved \subseteq Brokers /\ DOMAIN proved # {}
      /\ \A b \in DOMAIN proved : b \in Range(queue) \/ Shown(b, proved[b])
      /\ ShownTls(Broker, proved[Broker])
    BY DEF ProbeInv
<1>2. {"ranges"} \in SUBSET Proofs
    BY DEF Proofs
<1>3. /\ Broker \in DOMAIN proved /\ DOMAIN proved' = DOMAIN proved
      /\ proved' \in [DOMAIN proved -> SUBSET Proofs]
      /\ proved'[Broker] = proved[Broker] \cup {"ranges"}
      /\ \A b \in DOMAIN proved : proved[b] \subseteq proved'[b]
    BY <1>1, <1>2, HeadShows
<1>4. queue' \in Seq(Brokers) /\ Range(queue) = {Broker} \cup Range(queue')
    BY <1>1, HeadAndTail DEF Broker
<1>5. \A b, S : Shown(b, S)' <=> Shown(b, S)
    BY DEF Shown, ShownTls, ShownSasl
<1>6. Shown(Broker, proved'[Broker])
    BY <1>1, <1>3, ShownIsKept DEF Shown
<1>7. ASSUME NEW b \in DOMAIN proved' PROVE b \in Range(queue') \/ Shown(b, proved[b])'
    <2>1. b \in Range(queue') \/ Shown(b, proved'[b])
        BY <1>1, <1>3, <1>4, <1>6, ShownIsKept
    <2> QED BY <2>1, <1>5
<1>8. Range(queue)' = Range(queue')
    BY DEF Range
<1> HIDE DEF Broker
<1> QED BY <1>1, <1>3, <1>4, <1>7, <1>8 DEF ProbeInv

\* A satisfying answer of the broker at the head of the queue.
LEMMA AnswerKeeps ==
    ASSUME SettingsInv, ProbeInv, Answer
    PROVE  ProbeInv'
<1>1. /\ phase = "waiting" /\ UNCHANGED settings /\ Satisfies(Head(script))
      /\ script' = Tail(script) /\ ScriptShape
    BY DEF Answer, ProbeInv
<1>2. settings.sasl \in {"none", "PLAIN", "SCRAM"}
    BY <1>1 DEF SettingsInv, Sound, Mechanisms
<1>3. /\ Shows(CASE Head(script) = "plain" -> {"sasl"}
                 [] Head(script) = "scram-final" -> {"sasl", "signature"}
                 [] Head(script) = "ApiVersions" -> {"ranges"}
                 [] OTHER -> {})
      /\ Tail(script) # <<>> => phase' = "sending" /\ UNCHANGED queue
      /\ Tail(script) = <<>> => phase' = "dialling" /\ queue' = Tail(queue)
    BY DEF Answer
<1>4. {} \in SUBSET Proofs /\ {"sasl"} \in SUBSET Proofs /\ {"sasl", "signature"} \in SUBSET Proofs
    BY DEF Proofs
<1> DEFINE first == <<"scram-first", "scram-final", "ApiVersions">>
           final == <<"scram-final", "ApiVersions">>
           plain == <<"plain", "ApiVersions">>
           last == <<"ApiVersions">>
<1>5. /\ {first, final, plain, last} \subseteq Seq(Requests)
      /\ first # <<>> /\ final # <<>> /\ plain # <<>> /\ last # <<>>
    BY DEF Requests
<1>6. CASE script = <<"SaslHandshake", "plain", "ApiVersions">> /\ settings.sasl = "PLAIN"
    <2>1. Head(script) = "SaslHandshake" /\ Tail(script) = plain
        BY <1>6
    <2> HIDE DEF first, final, plain, last
    <2>2. Shows({})
        BY <1>3, <2>1
    <2>3. script' = plain /\ script' \in Seq(Requests) /\ phase' = "sending" /\ UNCHANGED queue
        BY <1>1, <1>3, <1>5, <2>1
    <2> QED BY <1>1, <1>4, <1>6, <2>2, <2>3, AnswerContinues DEF plain
<1>7. CASE /\ script = <<"SaslHandshake", "scram-first", "scram-final", "ApiVersions">>
           /\ settings.sasl = "SCRAM"
    <2>1. Head(script) = "SaslHandshake" /\ Tail(script) = first
        BY <1>7
    <2> HIDE DEF first, final, plain, last
    <2>2. Shows({})
        BY <1>3, <2>1
    <2>3. script' = first /\ script' \in Seq(Requests) /\ phase' = "sending" /\ UNCHANGED queue
        BY <1>1, <1>3, <1>5, <2>1
    <2> QED BY <1>1, <1>4, <1>7, <2>2, <2>3, AnswerContinues DEF first
<1>8. CASE script = plain /\ settings.sasl = "PLAIN"
    <2>1. Head(script) = "plain" /\ Tail(script) = last
        BY <1>8
    <2> HIDE DEF first, final, plain, last
    <2>2. Shows({"sasl"})
        BY <1>3, <2>1
    <2>3. script' = last /\ script' \in Seq(Requests) /\ phase' = "sending" /\ UNCHANGED queue
        BY <1>1, <1>3, <1>5, <2>1
    <2> QED BY <1>1, <1>4, <1>8, <2>2, <2>3, AnswerContinues DEF last
<1>9. CASE script = first /\ settings.sasl = "SCRAM"
    <2>1. Head(script) = "scram-first" /\ Tail(script) = final
        BY <1>9
    <2> HIDE DEF first, final, plain, last
    <2>2. Shows({})
        BY <1>3, <2>1
    <2>3. script' = final /\ script' \in Seq(Requests) /\ phase' = "sending" /\ UNCHANGED queue
        BY <1>1, <1>3, <1>5, <2>1
    <2> QED BY <1>1, <1>4, <1>9, <2>2, <2>3, AnswerContinues DEF final
<1>10. CASE script = final /\ settings.sasl = "SCRAM"
    <2>1. Head(script) = "scram-final" /\ Tail(script) = last
        BY <1>10
    <2> HIDE DEF first, final, plain, last
    <2>2. Shows({"sasl", "signature"}) /\ Broker \in Genuine
        BY <1>1, <1>3, <2>1 DEF Satisfies
    <2>3. script' = last /\ script' \in Seq(Requests) /\ phase' = "sending" /\ UNCHANGED queue
        BY <1>1, <1>3, <1>5, <2>1
    <2> QED BY <1>1, <1>4, <1>10, <2>2, <2>3, AnswerContinues DEF last
<1>11. CASE script = last /\ ShownSasl(Broker, proved[Broker])
    <2>1. Head(script) = "ApiVersions" /\ Tail(script) = <<>>
        BY <1>11
    <2> HIDE DEF first, final, plain, last
    <2>2. /\ Shows({"ranges"})
          /\ ValidateApiVersions(Ranges(Broker), TransactionEnabled(settings))
        BY <1>1, <1>3, <2>1 DEF Satisfies
    <2>3. script' = <<>> /\ phase' = "dialling" /\ queue' = Tail(queue)
        BY <1>1, <1>3, <2>1
    <2> QED BY <1>1, <1>11, <2>2, <2>3, AnswerEnds
<1>12. settings.sasl = "none" => ShownSasl(Broker, proved[Broker])
    BY DEF ShownSasl
<1> HIDE DEF first, final, plain, last
<1> QED BY <1>1, <1>2, <1>6, <1>7, <1>8, <1>9, <1>10, <1>11, <1>12, ScriptCases
        DEF ScriptShape, first, final, plain, last

\* Every step keeps what the brokers have shown.
LEMMA ProbeHolds == Spec => []ProbeInv
<1>1. Init => ProbeInv
    BY DEF Init, NoProbe, ProbeInv
<1>2. SettingsInv /\ ProbeInv /\ [Next]_vars => ProbeInv'
    <2> SUFFICES ASSUME SettingsInv, ProbeInv, [Next]_vars PROVE ProbeInv'
        OBVIOUS
    <2>0. /\ queue \in Seq(Brokers) /\ script \in Seq(Requests)
          /\ proved \in [DOMAIN proved -> SUBSET Proofs] /\ DOMAIN proved \subseteq Brokers
        BY DEF ProbeInv
    <2>1. ASSUME queue' \in Seq(Brokers), script' \in Seq(Requests), proved' = <<>>,
                 phase' \notin {"dialling", "connecting", "handshaking", "sending", "waiting",
                                "opened"}
          PROVE  ProbeInv'
        BY <2>1 DEF ProbeInv
    <2>2. ASSUME Fails PROVE ProbeInv'
        BY <2>2, <2>1 DEF Fails
    <2>3. ASSUME UNCHANGED <<settings, queue, script, proved>>
          PROVE  /\ Broker' = Broker /\ Range(queue)' = Range(queue)
                 /\ ScriptShape' <=> ScriptShape
                 /\ \A b, S : /\ Shown(b, S)' <=> Shown(b, S)
                              /\ ShownTls(b, S)' <=> ShownTls(b, S)
        BY <2>3 DEF Broker, Range, ScriptShape, Shown, ShownTls, ShownSasl
    <2>4. ASSUME UNCHANGED <<settings, queue, script, proved>>,
                 \/ UNCHANGED phase
                 \/ phase' \notin {"dialling", "connecting", "handshaking", "sending", "waiting",
                                   "opened"}
                 \/ phase = "dialling" /\ phase' = "connecting" /\ queue # <<>>
                 \/ phase = "dialling" /\ phase' = "opened" /\ queue = <<>>
                 \/ phase = "sending" /\ phase' = "waiting"
          PROVE  ProbeInv'
        BY <2>0, <2>3, <2>4 DEF ProbeInv
    <2>5. CASE Parse
        <3>1. phase' \in {"opening", "refused"} /\ UNCHANGED <<queue, script, proved>>
            BY <2>5 DEF Parse, probe
        <3> QED BY <2>0, <3>1 DEF ProbeInv
    <2>6. CASE Open
        <3>1. CASE ConfigurationComplete(settings, FALSE)
            BY <2>6, <3>1, <2>4 DEF Open
        <3>2. CASE ~ConfigurationComplete(settings, FALSE)
            BY <2>6, <3>2, <2>2 DEF Open
        <3> QED BY <3>1, <3>2
    <2>7. ASSUME NEW snapshot \in SUBSET Brokers, NEW valid \in BOOLEAN, Listed(snapshot, valid)
          PROVE  ProbeInv'
        <3>1. CASE snapshot # {} /\ valid
            <4>1. /\ queue' \in Ascending(snapshot) /\ proved' = [b \in snapshot |-> {}]
                  /\ phase' = "dialling" /\ UNCHANGED script
                BY <2>7, <3>1 DEF Listed
            <4>2. IsFiniteSet(snapshot)
                BY StartupAssumption, FS_Subset
            <4>3. queue' \in Orders(snapshot)
                BY <4>1 DEF Ascending
            <4>4. queue' \in Seq(snapshot) /\ Range(queue') = snapshot
                BY <4>2, <4>3, OrderTakesAll
            <4>5. queue' \in Seq(Brokers) /\ Range(queue)' = snapshot
                BY <4>4 DEF Range
            <4> QED BY <4>1, <4>5, <3>1, <2>0 DEF ProbeInv
        <3>2. CASE ~(snapshot # {} /\ valid)
            BY <2>7, <3>2, <2>2 DEF Listed
        <3> QED BY <3>1, <3>2
    <2>8. CASE Dial
        BY <2>8, <2>2, <2>4 DEF Dial
    <2>9. CASE NextAddress
        BY <2>9, <2>2, <2>4 DEF NextAddress
    <2>10. CASE Connected
        <3>1. /\ phase = "connecting" /\ UNCHANGED <<settings, queue, proved>>
              /\ script' = Script(settings.sasl)
              /\ phase' = IF settings.tls = "disabled" THEN "sending" ELSE "handshaking"
            BY <2>10 DEF Connected
        <3>2. Range(queue)' = Range(queue) /\ Broker' = Broker
            BY <3>1 DEF Range, Broker
        <3>3. \A b, S : Shown(b, S)' <=> Shown(b, S)
            BY <3>1 DEF Shown, ShownTls, ShownSasl
        <3>4. script' \in Seq(Requests) /\ ScriptShape' /\ script' = Script(settings'.sasl)
            <4>1. settings.sasl \in {"none", "PLAIN", "SCRAM"}
                BY <3>1 DEF SettingsInv, Sound, Mechanisms
            <4>2. script' \in Seq(Requests)
                BY <3>1, <4>1, ScriptCases
            <4> QED BY <3>1, <4>2 DEF ScriptShape
        <3>5. phase' = "sending" => ShownTls(Broker, proved[Broker])'
            BY <3>1 DEF ShownTls
        <3>6. /\ queue # <<>> /\ DOMAIN proved # {} /\ Range(queue) \subseteq DOMAIN proved
              /\ \A b \in DOMAIN proved : b \in Range(queue) \/ Shown(b, proved[b])
            BY <3>1 DEF ProbeInv
        <3>7. phase' \in {"sending", "handshaking"}
            BY <3>1
        <3>8. \A b \in DOMAIN proved' : b \in Range(queue)' \/ Shown(b, proved[b])'
            BY <3>1, <3>2, <3>3, <3>6
        <3> QED BY <3>1, <3>2, <3>4, <3>5, <3>6, <3>7, <3>8, <2>0 DEF ProbeInv
    <2>11. CASE Handshake
        <3>1. CASE Broker \in Trusted
            <4>1. /\ phase = "handshaking" /\ phase' = "sending" /\ Shows({"certificate"})
                  /\ UNCHANGED <<settings, queue, script>>
                BY <2>11, <3>1 DEF Handshake
            <4>2. /\ queue # <<>> /\ DOMAIN proved # {} /\ Range(queue) \subseteq DOMAIN proved
                  /\ script = Script(settings.sasl)
                  /\ \A b \in DOMAIN proved : b \in Range(queue) \/ Shown(b, proved[b])
                BY <4>1 DEF ProbeInv
            <4>3. {"certificate"} \in SUBSET Proofs
                BY DEF Proofs
            <4>4. /\ Broker \in DOMAIN proved /\ DOMAIN proved' = DOMAIN proved
                  /\ proved' \in [DOMAIN proved -> SUBSET Proofs]
                  /\ proved'[Broker] = proved[Broker] \cup {"certificate"}
                  /\ \A b \in DOMAIN proved : proved[b] \subseteq proved'[b]
                BY <4>1, <4>2, <4>3, HeadShows
            <4>5. Range(queue)' = Range(queue) /\ Broker' = Broker
                BY <4>1 DEF Range, Broker
            <4>6. \A b, S : Shown(b, S)' <=> Shown(b, S)
                BY <4>1 DEF Shown, ShownTls, ShownSasl
            <4>7. ASSUME NEW b \in DOMAIN proved'
                  PROVE  b \in Range(queue)' \/ Shown(b, proved[b])'
                <5>1. b \in Range(queue) \/ Shown(b, proved'[b])
                    BY <4>2, <4>4, ShownIsKept
                <5> QED BY <5>1, <4>5, <4>6
            <4>8. ShownTls(Broker, proved[Broker])'
                BY <3>1, <4>4, <4>5 DEF ShownTls
            <4>9. ScriptShape'
                BY <4>1, <4>2 DEF ScriptShape
            <4> HIDE DEF Broker
            <4> QED BY <4>1, <4>2, <4>4, <4>5, <4>7, <4>8, <4>9, <2>0 DEF ProbeInv
        <3>2. CASE Broker \notin Trusted
            BY <2>11, <3>2, <2>2 DEF Handshake
        <3> QED BY <3>1, <3>2
    <2>12. CASE Send
        BY <2>12, <2>2, <2>4 DEF Send
    <2>13. CASE Answer
        BY <2>13, AnswerKeeps
    <2>14. CASE ProbeRaises
        BY <2>14, <2>2 DEF ProbeRaises
    <2>15. CASE Tick
        BY <2>15, <2>4 DEF Tick
    <2>16. CASE Opened
        BY <2>16, <2>4 DEF Opened
    <2>17. CASE ProbeStep
        BY <2>17, <2>7, <2>8, <2>9, <2>10, <2>11, <2>12, <2>13, <2>14, <2>15, <2>16 DEF ProbeStep
    <2>18. CASE \E o \in Operations : Execute(o)
        BY <2>18, <2>4 DEF Execute, probe
    <2>19. ASSUME NEW resources \in SUBSET DOMAIN settings.resources,
                  NEW physical \in [Topics -> Topic], VerifyBegin(resources, physical)
           PROVE  ProbeInv'
        BY <2>19, <2>0, <2>1 DEF VerifyBegin
    <2>20. CASE VerifyRefused
        BY <2>20, <2>0, <2>1 DEF VerifyRefused
    <2>21. ASSUME NEW t \in Topics, NEW x \in Topic, TopicChanges(t, x)
           PROVE  ProbeInv'
        BY <2>21, <2>4 DEF TopicChanges, probe
    <2>22. CASE VerifyPartitions \/ VerifyConfiguration \/ VerifyRaises \/ Verified
        BY <2>22, <2>4 DEF VerifyPartitions, VerifyConfiguration, VerifyRaises, Verified, probe
    <2>23. CASE VerifyStep
        BY <2>23, <2>19, <2>20, <2>21, <2>22 DEF VerifyStep
    <2>24. CASE UNCHANGED vars
        BY <2>24, <2>4 DEF vars, probe
    <2> QED BY <2>5, <2>6, <2>17, <2>18, <2>23, <2>24 DEF Next
<1> QED BY <1>1, <1>2, SettingsHold, PTL DEF Spec

\* The runtime opens only after every broker of the metadata, impostors among them
\* or not, has shown what the binding demands, and in production only after the
\* client has authenticated itself to each.
THEOREM EveryBrokerAuthenticated == Spec => []AuthenticatedEverywhere
<1>1. SettingsInv /\ ProbeInv => AuthenticatedEverywhere
    <2> SUFFICES ASSUME SettingsInv, ProbeInv, phase = "opened"
                 PROVE  AuthenticatedEverywhere
        BY DEF AuthenticatedEverywhere
    <2>1. DOMAIN proved # {} /\ \A b \in DOMAIN proved : Shown(b, proved[b])
        BY DEF ProbeInv, Range
    <2>2. Sound(settings)
        BY DEF SettingsInv
    <2> QED BY <2>1, <2>2 DEF AuthenticatedEverywhere, Shown, ShownTls, ShownSasl, Sound
<1> QED BY <1>1, SettingsHold, ProbeHolds, PTL

-----------------------------------------------------------------------------
(* Commands.                                                               *)

\* A command comes from an operation that the compiler let through.
LEMMA CommandsHold == Spec => []CommandInv
<1>1. Init => CommandInv
    BY DEF Init, CommandInv
<1>2. CommandInv /\ [Next]_vars => CommandInv'
    <2> SUFFICES ASSUME CommandInv, [Next]_vars PROVE CommandInv'
        OBVIOUS
    <2>1. ASSUME UNCHANGED command, phase # "opened" PROVE CommandInv'
        BY <2>1 DEF CommandInv
    <2>2. CASE Parse \/ Open
        BY <2>2, <2>1 DEF Parse, Open
    <2>3. CASE ProbeStep
        BY <2>3, <2>1 DEF ProbeStep, Listed, Dial, NextAddress, Connected, Handshake, Send, Answer,
            ProbeRaises, Tick, Opened
    <2>4. ASSUME NEW o \in Operations, Execute(o) PROVE CommandInv'
        <3>1. /\ phase' = "opened" /\ settings' = settings
              /\ command' = IF Executes(o) THEN Command(settings, o) ELSE NoCommand
            BY <2>4 DEF Execute
        <3>2. Executes(o)' <=> Executes(o)
            BY <3>1 DEF Executes
        <3>3. Command(settings, o)' = Command(settings, o)
            BY <3>1
        <3> QED BY <3>1, <3>2, <3>3 DEF CommandInv
    <2>5. CASE VerifyStep
        <3>1. ASSUME NEW resources \in SUBSET DOMAIN settings.resources,
                     NEW physical \in [Topics -> Topic], VerifyBegin(resources, physical)
              PROVE  CommandInv'
            BY <3>1 DEF VerifyBegin, CommandInv
        <3>2. CASE VerifyRefused
            BY <3>2 DEF VerifyRefused, CommandInv
        <3>3. ASSUME NEW t \in Topics, NEW x \in Topic, TopicChanges(t, x)
              PROVE  CommandInv'
            BY <3>3, <2>1 DEF TopicChanges
        <3>4. CASE VerifyPartitions \/ VerifyConfiguration \/ VerifyRaises \/ Verified
            BY <3>4, <2>1 DEF VerifyPartitions, VerifyConfiguration, VerifyRaises, Verified
        <3> QED BY <2>5, <3>1, <3>2, <3>3, <3>4 DEF VerifyStep
    <2>6. CASE UNCHANGED vars
        <3>1. UNCHANGED <<phase, settings, command>>
            BY <2>6 DEF vars
        <3>2. \A o : Executes(o)' <=> Executes(o)
            BY <3>1 DEF Executes
        <3> QED BY <3>1, <3>2 DEF CommandInv
    <2> QED BY <2>2, <2>3, <2>4, <2>5, <2>6 DEF Next
<1> QED BY <1>1, <1>2, PTL DEF Spec

\* A version range of the transaction table.
LEMMA TransactionRanges ==
    ASSUME NEW k \in DOMAIN TransactionApis
    PROVE  /\ TransactionApis[k] \in Int \X Int
           /\ TransactionApis[k][1] <= TransactionApis[k][2]
           /\ k \in DOMAIN Required(TRUE)
           /\ Required(TRUE)[k] = TransactionApis[k]
<1>1. TransactionApis[k] \in {<<1, 2>>, <<0, 0>>, <<0, 1>>, <<3, 3>>}
    BY DEF TransactionApis
<1>2. TransactionApis[k] \in Int \X Int /\ TransactionApis[k][1] <= TransactionApis[k][2]
    BY <1>1
<1> HIDE DEF TransactionApis
<1>3. k \in DOMAIN Required(TRUE) /\ Required(TRUE)[k] = TransactionApis[k]
    BY DEF Required
<1> QED BY <1>2, <1>3

\* The version chosen between compatible ranges lies in both.
LEMMA NegotiatedInBoth ==
    ASSUME NEW x \in Int \X Int, NEW y \in Int \X Int, y[1] <= y[2], Compatible(x, y)
    PROVE  Negotiated(x, y) \in (y[1] .. y[2]) \cap (x[1] .. x[2])
BY DEF Compatible, Negotiated

\* A transactional command is compiled only where the binding enables transactions,
\* all consumers read committed records, the transactional producer can be made, and
\* every broker speaks a version of each transaction API that the client speaks.
THEOREM TransactionsAreSupported == Spec => []TransactionsSupported
<1>1. SettingsInv /\ ProbeInv /\ CommandInv => TransactionsSupported
    <2> SUFFICES ASSUME SettingsInv, ProbeInv, CommandInv, command # NoCommand,
                        command.operation.contract = "transactional"
                 PROVE  TransactionsSupported
        BY DEF TransactionsSupported
    <2>1. PICK o \in Operations : Executes(o) /\ command = Command(settings, o)
        BY DEF CommandInv
    <2>2. phase = "opened" /\ o.contract = "transactional"
        BY <2>1 DEF CommandInv, Command
    <2>3. CompilesTransactional(settings, o)
        BY <2>1, <2>2 DEF Executes, Compiles, PublishContracts, RangeContracts
    <2>4. settings.transactionalId /\ settings.readCommitted /\ TransactionEnabled(settings)
        BY <2>3 DEF CompilesTransactional, TransactionEnabled
    <2>5. Sound(settings)
        BY <2>2 DEF SettingsInv
    <2>6. "transactional" \in Available(settings)
        BY <2>4 DEF Available, Contracts, GroupContracts
    <2>7. Isolation(settings) = "read_committed" /\ ConfigurationComplete(settings, TRUE)
        BY <2>4, <2>5 DEF Isolation, Sound, ConfigurationComplete
    <2>8. ASSUME NEW b \in DOMAIN proved, NEW k \in DOMAIN TransactionApis
          PROVE  Negotiated(Ranges(b)[k], TransactionApis[k]) \in
                    (TransactionApis[k][1] .. TransactionApis[k][2])
                        \cap (Ranges(b)[k][1] .. Ranges(b)[k][2])
        <3>1. b \in Brokers /\ Shown(b, proved[b])
            BY <2>2 DEF ProbeInv, Range
        <3>2. ValidateApiVersions(Ranges(b), TRUE)
            BY <3>1, <2>4 DEF Shown
        <3>3. k \in DOMAIN Ranges(b) /\ Compatible(Ranges(b)[k], TransactionApis[k])
            BY <3>2, TransactionRanges DEF ValidateApiVersions
        <3>4. Ranges(b)[k] \in Int \X Int
            BY <3>1, <3>3, StartupAssumption
        <3> QED BY <3>3, <3>4, TransactionRanges, NegotiatedInBoth
    <2> QED BY <2>6, <2>7, <2>8 DEF TransactionsSupported
<1> QED BY <1>1, SettingsHold, ProbeHolds, CommandsHold, PTL

\* A compiled command names a ConsumerGroup of its Subscription, the Stream of the
\* Subscription, and never the consumed topic as the dead-letter topic.
THEOREM CommandsAreCoherent == Spec => []CommandsCoherent
<1>1. SettingsInv /\ CommandInv => CommandsCoherent
    <2> SUFFICES ASSUME SettingsInv, CommandInv, command # NoCommand,
                        command.operation.contract \in GroupContracts
                 PROVE  CommandsCoherent
        BY DEF CommandsCoherent
    <2>1. PICK o \in Operations : Executes(o) /\ command = Command(settings, o)
        BY DEF CommandInv
    <2> DEFINE map == settings.resources
    <2>2. /\ phase = "opened" /\ command.operation = o /\ o.contract \in GroupContracts
          /\ command.stream = map[o.subscription].stream
        BY <2>1 DEF CommandInv, Command
    <2>3. GroupStream(settings, o.subscription, o.group)
        BY <2>1, <2>2 DEF Executes, Compiles, PublishContracts, RangeContracts, GroupContracts,
            CompilesPoll, CompilesAcknowledge, CompilesNegativeAcknowledge, CompilesGroupPosition,
            CompilesTransactional
    <2>4. /\ o.subscription \in DOMAIN map /\ map[o.subscription].kind = "subscription"
          /\ map[o.group].subscription = o.subscription
        BY <2>3 DEF GroupStream, OfKind
    <2>5. Sound(settings)
        BY <2>2 DEF SettingsInv
    <2>6. Refers(map, map[o.subscription])
        BY <2>4, <2>5 DEF Sound
    <2>7. /\ command.stream \in DOMAIN map /\ map[command.stream].kind = "stream"
          /\ map[o.subscription].deadLetter # 0 =>
                /\ map[o.subscription].deadLetter \in DOMAIN map
                /\ map[map[o.subscription].deadLetter].kind = "stream"
                /\ map[o.subscription].deadLetter # command.stream
        BY <2>2, <2>4, <2>6 DEF Refers, OfKind
    <2>8. map[o.subscription].deadLetter # 0 =>
                map[map[o.subscription].deadLetter].topic # map[command.stream].topic
        BY <2>5, <2>7 DEF Sound
    <2> HIDE DEF map
    <2> QED BY <2>2, <2>4, <2>7, <2>8 DEF CommandsCoherent, map
<1> QED BY <1>1, SettingsHold, CommandsHold, PTL

-----------------------------------------------------------------------------
(* Physical verification.                                                  *)

\* Every resource of sound settings leads to a Stream of theirs.
LEMMA LeadsToStream ==
    ASSUME NEW s, Sound(s), NEW r \in DOMAIN s.resources
    PROVE  /\ StreamOf(s, r) \in DOMAIN s.resources
           /\ s.resources[StreamOf(s, r)].kind = "stream"
           /\ s.resources[StreamOf(s, r)].topic \in Topics
<1> DEFINE map == s.resources
<1>1. \A q \in DOMAIN map :
        /\ Refers(map, map[q])
        /\ map[q].kind = "stream" => map[q].topic \in Topics
    BY DEF Sound
<1>2. \A q \in DOMAIN map : map[q].kind = "subscription" =>
            map[q].stream \in DOMAIN map /\ map[map[q].stream].kind = "stream"
    BY <1>1 DEF Refers, OfKind
<1>3. \A q \in DOMAIN map : map[q].kind = "consumer-group" =>
            map[q].subscription \in DOMAIN map /\ map[map[q].subscription].kind = "subscription"
    BY <1>1 DEF Refers, OfKind
<1>4. map[r].kind \in {"stream", "subscription", "consumer-group"}
    BY <1>1 DEF Refers
<1> HIDE DEF map
<1>5. StreamOf(s, r) \in DOMAIN map /\ map[StreamOf(s, r)].kind = "stream"
    BY <1>2, <1>3, <1>4 DEF StreamOf, map
<1> QED BY <1>1, <1>5 DEF map

\* The topics of planned resources are topics of theirs.
LEMMA PlannedTopics ==
    ASSUME NEW s, Sound(s), NEW resources \in SUBSET DOMAIN s.resources
    PROVE  TopicsOf(s, resources) \subseteq Topics
BY LeadsToStream DEF TopicsOf

\* In sound settings the Stream bound to the topic of a Stream is that Stream.
LEMMA BoundIsUnique ==
    ASSUME Sound(settings), NEW q \in DOMAIN settings.resources,
           settings.resources[q].kind = "stream"
    PROVE  Bound(settings.resources[q].topic) = settings.resources[q]
<1> DEFINE t == settings.resources[q].topic
           r == CHOOSE r \in DOMAIN settings.resources :
                    settings.resources[r].kind = "stream" /\ settings.resources[r].topic = t
<1>1. /\ r \in DOMAIN settings.resources
      /\ settings.resources[r].kind = "stream" /\ settings.resources[r].topic = t
    OBVIOUS
<1>2. Bound(t) = settings.resources[r]
    BY DEF Bound
<1> HIDE DEF r
<1>3. r = q
    BY <1>1 DEF Sound
<1> QED BY <1>2, <1>3

\* Every step keeps a planned topic to be verified, or seen as bound.
LEMMA VerificationHolds == Spec => []VerifyInv
<1>1. Init => VerifyInv
    <2> SUFFICES ASSUME Init PROVE VerifyInv
        OBVIOUS
    <2>1. PICK c : c \in Configs
        BY StartupAssumption
    <2>2. [partitions |-> 0, config |-> c] \in Topic
        BY <2>1, StartupAssumption DEF Topic
    <2>3. (CHOOSE x \in Topic : TRUE) \in Topic
        BY <2>2
    <2>4. topics \in [Topics -> Topic] /\ seen \in [Topics -> SUBSET Topic]
        BY <2>3 DEF Init
    <2> QED BY <2>4, StartupAssumption DEF Init, VerifyInv
<1>2. SettingsInv /\ VerifyInv /\ [Next]_vars => VerifyInv'
    <2> SUFFICES ASSUME SettingsInv, VerifyInv, [Next]_vars PROVE VerifyInv'
        OBVIOUS
    <2>0. /\ pending \in Seq(Topics) /\ topics \in [Topics -> Topic]
          /\ seen \in [Topics -> SUBSET Topic] /\ changes \in 0 .. MaxChanges
          /\ settings # NoSettings => planned \subseteq DOMAIN settings.resources
        BY DEF VerifyInv
    <2>1. ASSUME UNCHANGED settings
          PROVE  \A t : Bound(t)' = Bound(t)
        BY <2>1 DEF Bound
    <2>2. ASSUME UNCHANGED <<settings, planned, pending, topics, seen, changes>>,
                 phase' \notin {"verifying", "describing", "ready"} \/ UNCHANGED phase
          PROVE  VerifyInv'
        <3>1. \A t : /\ SeenPartitions(t)' <=> SeenPartitions(t)
                     /\ SeenConfig(t)' <=> SeenConfig(t)
            BY <2>1, <2>2 DEF SeenPartitions, SeenConfig
        <3>2. /\ Range(pending)' = Range(pending)
              /\ TopicsOf(settings, planned)' = TopicsOf(settings, planned)
            BY <2>2 DEF Range
        <3>3. SeenPartitions(Head(pending))' <=> SeenPartitions(Head(pending))
            BY <2>1, <2>2 DEF SeenPartitions
        <3> QED BY <2>0, <2>2, <3>1, <3>2, <3>3 DEF VerifyInv
    <2>3. CASE Parse
        <3>1. planned = {} /\ UNCHANGED <<planned, pending, topics, seen, changes>>
            BY <2>3 DEF Parse, verification, SettingsInv
        <3>2. phase' \in {"opening", "refused"}
            BY <2>3 DEF Parse
        <3> QED BY <2>0, <3>1, <3>2 DEF VerifyInv
    <2>4. CASE Open
        BY <2>4, <2>2 DEF Open, Fails, verification
    <2>5. CASE ProbeStep
        <3>1. UNCHANGED <<settings, planned, pending, topics, seen, changes>>
            BY <2>5 DEF ProbeStep, Listed, Dial, NextAddress, Connected, Handshake, Send, Answer,
                ProbeRaises, Tick, Opened, verification
        <3>2. phase' \notin {"verifying", "describing", "ready"}
            BY <2>5 DEF ProbeStep, Listed, Dial, NextAddress, Connected, Handshake, Send, Answer,
                ProbeRaises, Tick, Opened, Fails
        <3> QED BY <2>2, <3>1, <3>2
    <2>6. CASE \E o \in Operations : Execute(o)
        BY <2>6, <2>2 DEF Execute, verification
    <2>7. ASSUME NEW resources \in SUBSET DOMAIN settings.resources,
                 NEW physical \in [Topics -> Topic], VerifyBegin(resources, physical)
          PROVE  VerifyInv'
        <3>1. /\ phase = "opened" /\ phase' = "verifying" /\ planned' = resources
              /\ pending' \in Orders(TopicsOf(settings, resources)) /\ topics' = physical
              /\ seen' = [t \in Topics |-> {physical[t]}] /\ UNCHANGED <<settings, changes>>
            BY <2>7 DEF VerifyBegin
        <3>2. TopicsOf(settings, resources) \subseteq Topics
            BY <3>1, PlannedTopics DEF SettingsInv
        <3>3. IsFiniteSet(TopicsOf(settings, resources))
            BY <3>2, StartupAssumption, FS_Subset
        <3>4. /\ pending' \in Seq(TopicsOf(settings, resources))
              /\ Range(pending') = TopicsOf(settings, resources)
            BY <3>1, <3>3, OrderTakesAll
        <3>5. pending' \in Seq(Topics) /\ Range(pending)' = TopicsOf(settings, planned)'
            BY <3>1, <3>2, <3>4 DEF Range
        <3>6. topics' \in [Topics -> Topic] /\ seen' \in [Topics -> SUBSET Topic]
            BY <3>1
        <3>7. \A t \in Topics : topics'[t] \in seen'[t]
            BY <3>1
        <3> QED BY <2>0, <3>1, <3>5, <3>6, <3>7 DEF VerifyInv
    <2>8. CASE VerifyRefused
        BY <2>8, <2>2 DEF VerifyRefused, verification
    <2>9. ASSUME phase \in {"verifying", "describing"}
          PROVE  /\ \A t \in Topics : topics[t] \in seen[t]
                 /\ \A t \in TopicsOf(settings, planned) :
                        t \in Range(pending) \/ (SeenPartitions(t) /\ SeenConfig(t))
        BY <2>9 DEF VerifyInv
    <2>10. CASE VerifyPartitions
        <3>1. /\ phase = "verifying" /\ pending # <<>>
              /\ UNCHANGED <<settings, planned, pending, topics, seen, changes>>
            BY <2>10 DEF VerifyPartitions, verification
        <3>2. CASE topics[Head(pending)].partitions = Bound(Head(pending)).partitions
            <4>1. phase' = "describing"
                BY <2>10, <3>2 DEF VerifyPartitions
            <4>2. Head(pending) \in Topics
                BY <2>0, <3>1, HeadAndTail
            <4>3. SeenPartitions(Head(pending))
                BY <2>9, <3>1, <3>2, <4>2 DEF SeenPartitions
            <4>4. \A t : /\ SeenPartitions(t)' <=> SeenPartitions(t)
                         /\ SeenConfig(t)' <=> SeenConfig(t)
                BY <2>1, <3>1 DEF SeenPartitions, SeenConfig
            <4>5. SeenPartitions(Head(pending))'
                BY <2>1, <3>1, <4>3 DEF SeenPartitions
            <4>6. /\ Range(pending)' = Range(pending)
                  /\ TopicsOf(settings, planned)' = TopicsOf(settings, planned)
                BY <3>1 DEF Range
            <4> QED BY <2>0, <2>9, <3>1, <4>1, <4>4, <4>5, <4>6 DEF VerifyInv
        <3>3. CASE topics[Head(pending)].partitions # Bound(Head(pending)).partitions
            BY <2>10, <2>2, <3>1, <3>3 DEF VerifyPartitions
        <3> QED BY <3>2, <3>3
    <2>11. CASE VerifyConfiguration
        <3>1. /\ phase = "describing" /\ UNCHANGED <<settings, planned, topics, seen, changes>>
            BY <2>11 DEF VerifyConfiguration
        <3>2. pending # <<>> /\ SeenPartitions(Head(pending))
            BY <3>1 DEF VerifyInv
        <3>3. CASE topics[Head(pending)].config = Bound(Head(pending)).config
            <4>1. phase' = "verifying" /\ pending' = Tail(pending)
                BY <2>11, <3>3 DEF VerifyConfiguration
            <4>2. /\ Head(pending) \in Topics /\ pending' \in Seq(Topics)
                  /\ Range(pending) = {Head(pending)} \cup Range(pending')
                BY <2>0, <3>2, <4>1, HeadAndTail
            <4>3. SeenConfig(Head(pending))
                BY <2>9, <3>1, <3>3, <4>2 DEF SeenConfig
            <4>4. \A t : /\ SeenPartitions(t)' <=> SeenPartitions(t)
                         /\ SeenConfig(t)' <=> SeenConfig(t)
                BY <2>1, <3>1 DEF SeenPartitions, SeenConfig
            <4>5. /\ Range(pending)' = Range(pending')
                  /\ TopicsOf(settings, planned)' = TopicsOf(settings, planned)
                BY <3>1 DEF Range
            <4>6. ASSUME NEW t \in TopicsOf(settings, planned)
                  PROVE  t \in Range(pending') \/ (SeenPartitions(t) /\ SeenConfig(t))
                BY <2>9, <3>1, <3>2, <4>2, <4>3
            <4> QED BY <2>0, <2>9, <3>1, <4>1, <4>2, <4>4, <4>5, <4>6 DEF VerifyInv
        <3>4. CASE topics[Head(pending)].config # Bound(Head(pending)).config
            BY <2>11, <2>2, <3>1, <3>4 DEF VerifyConfiguration
        <3> QED BY <3>3, <3>4
    <2>12. CASE VerifyRaises
        BY <2>12, <2>2 DEF VerifyRaises, verification
    <2>13. CASE Verified
        <3>1. /\ phase = "verifying" /\ phase' = "ready" /\ pending = <<>>
              /\ UNCHANGED <<settings, planned, pending, topics, seen, changes>>
            BY <2>13 DEF Verified, verification
        <3>2. \A t : /\ SeenPartitions(t)' <=> SeenPartitions(t)
                     /\ SeenConfig(t)' <=> SeenConfig(t)
            BY <2>1, <3>1 DEF SeenPartitions, SeenConfig
        <3>3. /\ Range(pending)' = Range(pending)
              /\ TopicsOf(settings, planned)' = TopicsOf(settings, planned)
            BY <3>1 DEF Range
        <3> QED BY <2>0, <2>9, <3>1, <3>2, <3>3 DEF VerifyInv
    <2>14. ASSUME NEW t \in Topics, NEW x \in Topic, TopicChanges(t, x)
           PROVE  VerifyInv'
        <3>1. /\ phase \in {"verifying", "describing"} /\ changes < MaxChanges
              /\ changes' = changes + 1 /\ topics' = [topics EXCEPT ![t] = x]
              /\ seen' = [seen EXCEPT ![t] = seen[t] \cup {x}]
              /\ UNCHANGED <<phase, settings, planned, pending>>
            BY <2>14 DEF TopicChanges
        <3>2. /\ topics' \in [Topics -> Topic] /\ seen' \in [Topics -> SUBSET Topic]
              /\ changes' \in 0 .. MaxChanges
            BY <2>0, <3>1, StartupAssumption
        <3>3. \A u \in Topics : topics'[u] \in seen'[u] /\ seen[u] \subseteq seen'[u]
            BY <2>0, <2>9, <3>1
        <3>4. \A u \in Topics : /\ SeenPartitions(u) => SeenPartitions(u)'
                                /\ SeenConfig(u) => SeenConfig(u)'
            BY <2>1, <3>1, <3>3 DEF SeenPartitions, SeenConfig
        <3>5. TopicsOf(settings, planned) \subseteq Topics
            BY <2>0, <3>1, PlannedTopics DEF SettingsInv
        <3>6. /\ Range(pending)' = Range(pending)
              /\ TopicsOf(settings, planned)' = TopicsOf(settings, planned)
            BY <3>1 DEF Range
        <3>7. \A u \in TopicsOf(settings, planned) :
                    u \in Range(pending) \/ (SeenPartitions(u)' /\ SeenConfig(u)')
            BY <2>9, <3>1, <3>4, <3>5
        <3>8. phase = "describing" => pending # <<>> /\ SeenPartitions(Head(pending))'
            <4> SUFFICES ASSUME phase = "describing"
                         PROVE  pending # <<>> /\ SeenPartitions(Head(pending))'
                OBVIOUS
            <4>1. pending # <<>> /\ SeenPartitions(Head(pending))
                BY DEF VerifyInv
            <4>2. Head(pending) \in Topics
                BY <2>0, <4>1, HeadAndTail
            <4>3. \E y \in seen[Head(pending)] : y.partitions = Bound(Head(pending)).partitions
                BY <4>1 DEF SeenPartitions
            <4>4. \E y \in seen'[Head(pending)] : y.partitions = Bound(Head(pending)).partitions
                BY <3>3, <4>2, <4>3
            <4>5. Bound(Head(pending))' = Bound(Head(pending)) /\ Head(pending)' = Head(pending)
                BY <3>1 DEF Bound
            <4> QED BY <4>1, <4>4, <4>5 DEF SeenPartitions
        <3> QED BY <2>0, <3>1, <3>2, <3>3, <3>6, <3>7, <3>8 DEF VerifyInv
    <2>15. CASE VerifyStep
        BY <2>15, <2>7, <2>8, <2>10, <2>11, <2>12, <2>13, <2>14 DEF VerifyStep
    <2>16. CASE UNCHANGED vars
        BY <2>16, <2>2 DEF vars, verification
    <2> QED BY <2>3, <2>4, <2>5, <2>6, <2>15, <2>16 DEF Next
<1> QED BY <1>1, <1>2, SettingsHold, PTL DEF Spec

\* When verification succeeds, the topic every planned resource leads to has had the
\* bound number of partitions and the bound configuration since it began, whatever
\* was changed meanwhile.
THEOREM PlannedIsVerified == Spec => []VerifiedAtSomeTime
<1>1. SettingsInv /\ VerifyInv => VerifiedAtSomeTime
    <2> SUFFICES ASSUME SettingsInv, VerifyInv, phase = "ready", NEW r \in planned
                 PROVE  LET x == settings.resources[r]
                            subscription == IF x.kind = "consumer-group"
                                            THEN settings.resources[x.subscription] ELSE x
                            stream == IF x.kind = "stream" THEN x
                                      ELSE settings.resources[subscription.stream]
                        IN  /\ \E y \in seen[stream.topic] : y.partitions = stream.partitions
                            /\ \E y \in seen[stream.topic] : y.config = stream.config
        BY DEF VerifiedAtSomeTime
    <2> DEFINE stream == settings.resources[StreamOf(settings, r)]
    <2>1. Sound(settings) /\ planned \subseteq DOMAIN settings.resources
        BY DEF SettingsInv, VerifyInv
    <2>2. StreamOf(settings, r) \in DOMAIN settings.resources /\ stream.kind = "stream"
        BY <2>1, LeadsToStream
    <2>3. stream.topic \in TopicsOf(settings, planned)
        BY <2>2 DEF TopicsOf
    <2>4. pending = <<>> /\ stream.topic \notin Range(pending)
        BY DEF VerifyInv, Range
    <2>5. SeenPartitions(stream.topic) /\ SeenConfig(stream.topic)
        BY <2>3, <2>4 DEF VerifyInv
    <2>6. Bound(stream.topic) = stream
        BY <2>1, <2>2, BoundIsUnique
    <2> HIDE DEF stream
    <2>7. /\ \E y \in seen[stream.topic] : y.partitions = stream.partitions
          /\ \E y \in seen[stream.topic] : y.config = stream.config
        BY <2>5, <2>6 DEF SeenPartitions, SeenConfig
    <2>8. settings.resources[r].kind \in {"stream", "subscription", "consumer-group"}
        BY <2>1 DEF Sound, Refers
    <2>9. CASE settings.resources[r].kind = "stream"
        BY <2>7, <2>9 DEF stream, StreamOf
    <2>10. CASE settings.resources[r].kind = "subscription"
        BY <2>7, <2>10 DEF stream, StreamOf
    <2>11. CASE settings.resources[r].kind = "consumer-group"
        BY <2>7, <2>11 DEF stream, StreamOf
    <2> QED BY <2>8, <2>9, <2>10, <2>11
<1> QED BY <1>1, SettingsHold, VerificationHolds, PTL

\* Every reachable state is well typed; in particular a request is never sent to
\* nobody, and never without one being due.
THEOREM TypeCorrect == Spec => []TypeOK
<1>1. SettingsInv /\ DeadlineInv /\ ProbeInv /\ VerifyInv => TypeOK
    <2> SUFFICES ASSUME SettingsInv, DeadlineInv, ProbeInv, VerifyInv PROVE TypeOK
        OBVIOUS
    <2>1. phase \in {"sending", "waiting"} => script # <<>> /\ queue # <<>>
        <3> SUFFICES ASSUME phase \in {"sending", "waiting"} PROVE script # <<>> /\ queue # <<>>
            OBVIOUS
        <3>1. queue # <<>> /\ ScriptShape /\ settings.sasl \in {"none", "PLAIN", "SCRAM"}
            BY DEF ProbeInv, SettingsInv, Sound, Mechanisms
        <3>2. script \in {<<"SaslHandshake", "plain", "ApiVersions">>, <<"plain", "ApiVersions">>,
                         <<"SaslHandshake", "scram-first", "scram-final", "ApiVersions">>,
                         <<"scram-first", "scram-final", "ApiVersions">>,
                         <<"scram-final", "ApiVersions">>, <<"ApiVersions">>}
            BY <3>1, ScriptCases DEF ScriptShape
        <3>3. script # <<>>
            BY <3>2
        <3> QED BY <3>1, <3>3
    <2>2. settings = NoSettings \/ settings.profile \in {Production, Test}
        BY DEF SettingsInv, Sound
    <2>3. \A b \in DOMAIN proved : proved[b] \subseteq Proofs
        BY DEF ProbeInv
    <2> QED BY <2>1, <2>2, <2>3 DEF TypeOK, SettingsInv, DeadlineInv, ProbeInv, VerifyInv
<1> QED BY <1>1, SettingsHold, DeadlinesHold, ProbeHolds, VerificationHolds, PTL
=============================================================================
