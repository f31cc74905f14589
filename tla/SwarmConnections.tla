-------------------------- MODULE SwarmConnections --------------------------
(***************************************************************************)
(* What the event loop of core/src/transport/swarm.rs keeps about the      *)
(* peers it is connected with: the connection tracker, the peer            *)
(* broadcaster, the circuit reservations with relays, the observed         *)
(* addresses, the topics, and the discovery events it has sent to the      *)
(* application.  libp2p raises ConnectionEstablished and ConnectionClosed  *)
(* once per connection, and a peer may have several.                       *)
(*                                                                         *)
(* Custody dispatches on reconnection are in RelayCustody, the reconnect   *)
(* queues in Reconnect, the ledger exchange in LedgerExchange.             *)
(***************************************************************************)
EXTENDS Integers, Sequences, FiniteSets, Functions

CONSTANTS
    NetPeers,
    LanPeers,          \* the peers mDNS can announce
    SocketAddrs,       \* the addresses a peer may observe us at
    PeerTopics,        \* topics peers and the user subscribe and unsubscribe
    MaxLinks,          \* bound on the connections with one peer
    MaxListeners,      \* bound on the circuit listeners ever opened
    MaxNetSteps,       \* bound on connections, discoveries and observations
    COMMON_PORTS,      \* in order (443, 80, 8080 and 9090 in the code)
    AdditionalPorts    \* the lists of ports a configuration may add

ASSUME ConnAssumption ==
    /\ LanPeers \subseteq NetPeers /\ MaxLinks \in Nat \ {0}
    /\ COMMON_PORTS \in Seq(Nat) /\ AdditionalPorts \subseteq Seq(Nat)

(* What the reflection handler answers when the tracker has no address.    *)
Unspecified == "0.0.0.0:0"

DefaultTopics == {"sc-lobby", "sc-mesh", "sc-receipt-convergence"}

VARIABLES
    portConfig,   \* MultiPortConfig
    bindResults,  \* bind_results, in order
    boundPorts,   \* <<family, port>> this process listens on (external)
    analysis      \* what the start reports: a status, or "binding" before it

portVars == <<portConfig, bindResults, boundPorts, analysis>>

VARIABLES
    connSwarmUp,      \* the event loop runs
    links,        \* connections with each peer
    trackedConns,      \* connection_tracker: the peers with an endpoint
    broadcasting, \* peer_broadcaster.connected_peers
    reportedTo,   \* reported_peer_discoveries
    infoReported, \* reported_peer_info
    circuits,     \* successful_relay_reservations: peer -> listener
    circuitsOpen, \* circuit listeners of the swarm: <<listener, relay>>
    listenersMade,
    identifiedNow,\* LAST_IDENTIFIED_LOG entries younger than the TTL
    observations, \* address_observer: observer -> [address, count]
    external,     \* swarm.external_addresses
    topics,       \* subscribed_topics
    reflecting,   \* pending_reflections
    \* the application
    appPeers,     \* peers last announced as discovered
    appMessages,  \* kinds of payload delivered as MessageReceived
    \* observation
    excused,      \* peers that lost one of several connections, or expired
    netSteps

connVars == <<connSwarmUp, links, trackedConns, broadcasting, reportedTo, infoReported,
              circuits, circuitsOpen, listenersMade, identifiedNow, observations,
              external, topics, reflecting, appPeers, appMessages,
              excused, netSteps>>

Linked == {p \in NetPeers : links[p] > 0}
ConnKinds == {"PeerJoined", "PeerLeft", "PeerListResponse"}

ConnTypeOK ==
    /\ connSwarmUp \in BOOLEAN
    /\ links \in [NetPeers -> 0..MaxLinks]
    /\ {trackedConns, broadcasting, reportedTo, infoReported, identifiedNow,
        reflecting, appPeers, excused} \subseteq SUBSET NetPeers
    /\ DOMAIN circuits \subseteq NetPeers
    /\ circuitsOpen \subseteq ((1..MaxListeners) \X NetPeers)
    /\ listenersMade \in 0..MaxListeners /\ netSteps \in 0..MaxNetSteps
    /\ DOMAIN observations \subseteq NetPeers
    /\ external \subseteq (SocketAddrs \cup {Unspecified})
    /\ topics \subseteq (DefaultTopics \cup PeerTopics)
    /\ appMessages \subseteq ConnKinds

Empty == [p \in {} |-> 0]

(* start_swarm_with_config: the maps of the loop are empty.                *)
ConnInit ==
    /\ connSwarmUp = FALSE /\ links = [p \in NetPeers |-> 0]
    /\ trackedConns = {} /\ broadcasting = {} /\ reportedTo = {} /\ infoReported = {}
    /\ identifiedNow = {} /\ reflecting = {} /\ circuitsOpen = {}
    /\ external = {} /\ topics = {} /\ appPeers = {} /\ appMessages = {} /\ excused = {}
    /\ circuits = Empty /\ observations = Empty
    /\ listenersMade = 0 /\ netSteps = 0

NetStep == connSwarmUp /\ netSteps < MaxNetSteps /\ netSteps' = netSteps + 1

-----------------------------------------------------------------------------
(* Binding: every address of the multi-port configuration is tried, and    *)
(* the swarm starts if one listener opened; the default topics are         *)
(* subscribed.  A restart keeps only the process-wide identify log.        *)
BindResults == SUBSET {"common", "random"}

ConnStartSwarm(bound) ==
    /\ ~connSwarmUp
    /\ bound # {}
    /\ connSwarmUp' = TRUE
    /\ topics' = DefaultTopics
    /\ UNCHANGED <<links, trackedConns, broadcasting, reportedTo, infoReported, circuits,
                   circuitsOpen, listenersMade, identifiedNow, observations, external,
                   reflecting, appPeers, appMessages, excused, netSteps>>

(* SwarmCommand::Shutdown: the loop breaks and its state is dropped.       *)
ConnShutdown ==
    /\ connSwarmUp
    /\ connSwarmUp' = FALSE
    /\ links' = [p \in NetPeers |-> 0]
    /\ trackedConns' = {} /\ broadcasting' = {} /\ reportedTo' = {} /\ infoReported' = {}
    /\ circuits' = Empty /\ circuitsOpen' = {} /\ observations' = Empty
    /\ external' = {} /\ topics' = {} /\ reflecting' = {}
    /\ appPeers' = {} /\ excused' = {}
    /\ UNCHANGED <<listenersMade, identifiedNow, appMessages, netSteps>>

-----------------------------------------------------------------------------
(* wrap_in_drift_frame: the length, the type byte and a checksum go around *)
(* the payload; introductions are far below the frame limit.               *)
Framed(kind) == [kind |-> kind, framed |-> TRUE]

(* RelayMessage::from_bytes on the bytes of the request: bincode reads the *)
(* variant from the first four bytes, which in a frame are its length and  *)
(* type.                                                                   *)
DecodesAsRelayMessage(m) == ~m.framed

(* The messaging handler of the peers an introduction is sent to: one they *)
(* understand is followed by dials, anything else is a message.            *)
ReceiveIntroduction(m, to) ==
    IF to = {} \/ DecodesAsRelayMessage(m) THEN {} ELSE {m.kind}

(* reported_peer_discoveries.insert, PeerDiscovered and the sync session.  *)
ReportDiscovered(p) ==
    /\ reportedTo' = reportedTo \cup {p}
    /\ appPeers' = IF p \in reportedTo THEN appPeers ELSE appPeers \cup {p}

(* SwarmEvent::ConnectionEstablished *)
LinkEstablished(p) ==
    /\ NetStep
    /\ links[p] < MaxLinks
    /\ links' = [links EXCEPT ![p] = @ + 1]
    /\ trackedConns' = trackedConns \cup {p}
    /\ broadcasting' = broadcasting \cup {p}
    /\ appMessages' = appMessages
          \cup ReceiveIntroduction(Framed("PeerJoined"), broadcasting \ {p})
          \cup ReceiveIntroduction(Framed("PeerListResponse"), {p})
    /\ ReportDiscovered(p)
    /\ excused' = IF p \notin reportedTo THEN excused \ {p} ELSE excused
    /\ UNCHANGED <<connSwarmUp, infoReported, circuits, circuitsOpen, listenersMade,
                   identifiedNow, observations, external, topics, reflecting>>

(* Mutants: the discovery is not forgotten; the circuit listener stays.    *)
ConnectionClosedKeepsReport(p) ==
    /\ connSwarmUp /\ links[p] > 0
    /\ links' = [links EXCEPT ![p] = @ - 1]
    /\ trackedConns' = trackedConns \ {p} /\ infoReported' = infoReported \ {p}
    /\ circuits' = Restrict(circuits, DOMAIN circuits \ {p})
    /\ circuitsOpen' = {c \in circuitsOpen : c[2] # p}
    /\ appMessages' = appMessages
          \cup ReceiveIntroduction(Framed("PeerLeft"), broadcasting \ {p})
    /\ broadcasting' = broadcasting \ {p} /\ appPeers' = appPeers \ {p}
    /\ excused' = IF links[p] > 1 THEN excused \cup {p} ELSE excused \ {p}
    /\ UNCHANGED <<connSwarmUp, reportedTo, listenersMade, identifiedNow, observations, external,
                   topics, reflecting, netSteps>>

ConnectionClosedKeepsListener(p) ==
    /\ connSwarmUp /\ links[p] > 0
    /\ links' = [links EXCEPT ![p] = @ - 1]
    /\ trackedConns' = trackedConns \ {p} /\ reportedTo' = reportedTo \ {p}
    /\ infoReported' = infoReported \ {p}
    /\ circuits' = Restrict(circuits, DOMAIN circuits \ {p})
    /\ appMessages' = appMessages
          \cup ReceiveIntroduction(Framed("PeerLeft"), broadcasting \ {p})
    /\ broadcasting' = broadcasting \ {p} /\ appPeers' = appPeers \ {p}
    /\ excused' = IF links[p] > 1 THEN excused \cup {p} ELSE excused \ {p}
    /\ UNCHANGED <<connSwarmUp, circuitsOpen, listenersMade, identifiedNow, observations,
                   external, topics, reflecting, netSteps>>

(* SwarmEvent::ConnectionClosed: num_established is not looked at, so one  *)
(* of several connections closing clears everything kept about the peer.   *)
LinkClosed(p) ==
    /\ connSwarmUp /\ links[p] > 0
    /\ links' = [links EXCEPT ![p] = @ - 1]
    /\ trackedConns' = trackedConns \ {p}
    /\ reportedTo' = reportedTo \ {p}
    /\ infoReported' = infoReported \ {p}
    /\ circuits' = Restrict(circuits, DOMAIN circuits \ {p})
    /\ circuitsOpen' = {c \in circuitsOpen :
                          p \notin DOMAIN circuits \/ c[1] # circuits[p]}
    /\ appMessages' = appMessages
          \cup ReceiveIntroduction(Framed("PeerLeft"), broadcasting \ {p})
    /\ broadcasting' = broadcasting \ {p}
    /\ appPeers' = appPeers \ {p}
    /\ excused' = IF links[p] > 1 THEN excused \cup {p} ELSE excused \ {p}
    /\ UNCHANGED <<connSwarmUp, listenersMade, identifiedNow, observations, external,
                   topics, reflecting, netSteps>>

-----------------------------------------------------------------------------
(* Discovery without a connection: mDNS, and a hole-punched connection,    *)
(* whose peer is connected through a relay already.                        *)
MdnsDiscovered(p) ==
    /\ NetStep /\ p \in LanPeers
    /\ ReportDiscovered(p)
    /\ excused' = IF p \in reportedTo \cup Linked THEN excused ELSE excused \ {p}
    /\ UNCHANGED <<connSwarmUp, links, trackedConns, broadcasting, infoReported, circuits,
                   circuitsOpen, listenersMade, identifiedNow, observations, external,
                   topics, reflecting, appMessages>>

(* mdns::Event::Expired reports a disconnection whatever the connections,  *)
(* and leaves reported_peer_discoveries alone.                             *)
MdnsExpired(p) ==
    /\ NetStep /\ p \in LanPeers
    /\ appPeers' = appPeers \ {p}
    /\ excused' = excused \cup {p}
    /\ UNCHANGED <<connSwarmUp, links, trackedConns, broadcasting, reportedTo, infoReported,
                   circuits, circuitsOpen, listenersMade, identifiedNow, observations,
                   external, topics, reflecting, appMessages>>

DcutrSucceeded(p) ==
    /\ NetStep /\ links[p] > 0
    /\ ReportDiscovered(p)
    /\ UNCHANGED <<connSwarmUp, links, trackedConns, broadcasting, infoReported, circuits,
                   circuitsOpen, listenersMade, identifiedNow, observations, external,
                   topics, reflecting, appMessages, excused>>

-----------------------------------------------------------------------------
(* AddressObserver *)

(* record_observation: a repeated address counts again, a new one starts   *)
(* over.                                                                   *)
Observed(p, a) ==
    [q \in DOMAIN observations \cup {p} |->
        IF q # p THEN observations[q]
        ELSE IF p \in DOMAIN observations /\ observations[p][1] = a
             THEN <<a, observations[p][2] + 1>> ELSE <<a, 1>>]

(* recalculate_consensus: by confirmations, ties in the order of the map.  *)
Primaries(obs) ==
    LET addrs == {obs[q][1] : q \in DOMAIN obs}
        votes(a) == FoldFunction(LAMBDA o, n : IF o[1] = a THEN o[2] + n ELSE n, 0, obs)
    IN {a \in addrs : \A b \in addrs : votes(b) <= votes(a)}

RecordObservation(p, a) ==
    /\ observations' = Observed(p, a)
    /\ \E primary \in Primaries(observations') : external' = external \cup {primary}

(* A relay whose listener opened: successful_relay_reservations and        *)
(* relay_peer_addrs.  listen_on may fail.                                  *)
Reserve(p) ==
    \/ /\ circuits' = [q \in DOMAIN circuits \cup {p} |->
                          IF q = p THEN listenersMade + 1 ELSE circuits[q]]
       /\ circuitsOpen' = circuitsOpen \cup {<<listenersMade + 1, p>>}
       /\ listenersMade' = listenersMade + 1
    \/ UNCHANGED <<circuits, circuitsOpen, listenersMade>>

(* identify::Event::Received: within the TTL of the log's entry the whole  *)
(* event is skipped.  Every node's agent version names it a relay.         *)
IdentifyReceived(p, a, routable) ==
    /\ NetStep /\ links[p] > 0
    /\ p \notin identifiedNow
    /\ listenersMade < MaxListeners
    /\ identifiedNow' = identifiedNow \cup {p}
    /\ RecordObservation(p, a)
    /\ IF p \notin DOMAIN circuits /\ routable
       THEN Reserve(p)
       ELSE UNCHANGED <<circuits, circuitsOpen, listenersMade>>
    /\ infoReported' = infoReported \cup {p}
    /\ UNCHANGED <<connSwarmUp, links, trackedConns, broadcasting, reportedTo, topics,
                   reflecting, appPeers, appMessages, excused>>

(* Sixty seconds pass since the peer was identified.                       *)
IdentifyLogAges(p) ==
    /\ p \in identifiedNow
    /\ identifiedNow' = identifiedNow \ {p}
    /\ UNCHANGED <<connSwarmUp, links, trackedConns, broadcasting, reportedTo, infoReported,
                   circuits, circuitsOpen, listenersMade, observations, external, topics,
                   reflecting, appPeers, appMessages, excused, netSteps>>

(* A circuit listener closes by itself (the reservation expired or was     *)
(* denied): the event falls through, the record stays.                     *)
CircuitListenerCloses(c) ==
    /\ NetStep /\ c \in circuitsOpen
    /\ circuitsOpen' = circuitsOpen \ {c}
    /\ UNCHANGED <<connSwarmUp, links, trackedConns, broadcasting, reportedTo, infoReported,
                   circuits, listenersMade, identifiedNow, observations, external, topics,
                   reflecting, appPeers, appMessages, excused>>

-----------------------------------------------------------------------------
(* Address reflection *)

AskReflection(p) ==
    /\ NetStep /\ links[p] > 0 /\ p \notin reflecting
    /\ reflecting' = reflecting \cup {p}
    /\ UNCHANGED <<connSwarmUp, links, trackedConns, broadcasting, reportedTo, infoReported,
                   circuits, circuitsOpen, listenersMade, identifiedNow, observations,
                   external, topics, appPeers, appMessages, excused>>

(* The peer answers with the address it tracks for us, or Unspecified.     *)
ReflectionAnswered(p, a) ==
    /\ connSwarmUp /\ p \in reflecting /\ links[p] > 0
    /\ reflecting' = reflecting \ {p}
    /\ RecordObservation(p, a)
    /\ UNCHANGED <<connSwarmUp, links, trackedConns, broadcasting, reportedTo, infoReported,
                   circuits, circuitsOpen, listenersMade, identifiedNow, topics,
                   appPeers, appMessages, excused, netSteps>>

(* The answer of our own reflection handler to p.                          *)
ReflectionAnswer(p) == IF p \in trackedConns THEN "endpoint" ELSE Unspecified

(* upnp NewExternalAddr; an expired mapping is only reported.              *)
UpnpMapped(a) ==
    /\ NetStep
    /\ external' = external \cup {a}
    /\ UNCHANGED <<connSwarmUp, links, trackedConns, broadcasting, reportedTo, infoReported,
                   circuits, circuitsOpen, listenersMade, identifiedNow, observations,
                   topics, reflecting, appPeers, appMessages, excused>>

-----------------------------------------------------------------------------
(* Topics: a peer's subscription is followed, the user's commands obeyed.  *)
TopicSubscribed(t) ==
    /\ NetStep /\ t \notin topics
    /\ topics' = topics \cup {t}
    /\ UNCHANGED <<connSwarmUp, links, trackedConns, broadcasting, reportedTo, infoReported,
                   circuits, circuitsOpen, listenersMade, identifiedNow, observations,
                   external, reflecting, appPeers, appMessages, excused>>

UnsubscribeTopic(t) ==
    /\ NetStep /\ t \in topics
    /\ topics' = topics \ {t}
    /\ UNCHANGED <<connSwarmUp, links, trackedConns, broadcasting, reportedTo, infoReported,
                   circuits, circuitsOpen, listenersMade, identifiedNow, observations,
                   external, reflecting, appPeers, appMessages, excused>>

ConnNext ==
    \/ \E b \in BindResults : ConnStartSwarm(b)
    \/ ConnShutdown
    \/ \E p \in NetPeers :
          \/ LinkEstablished(p) \/ LinkClosed(p)
          \/ MdnsDiscovered(p) \/ MdnsExpired(p) \/ DcutrSucceeded(p)
          \/ \E a \in SocketAddrs, r \in BOOLEAN : IdentifyReceived(p, a, r)
          \/ IdentifyLogAges(p) \/ AskReflection(p)
          \/ \E a \in SocketAddrs \cup {Unspecified} : ReflectionAnswered(p, a)
    \/ \E c \in circuitsOpen : CircuitListenerCloses(c)
    \/ \E a \in SocketAddrs : UpnpMapped(a)
    \/ \E t \in PeerTopics : TopicSubscribed(t) \/ UnsubscribeTopic(t)

ConnSpec == ConnInit /\ [][ConnNext]_connVars

-----------------------------------------------------------------------------
(* The start of a swarm with a multi-port configuration (multiport.rs):    *)
(* the addresses are generated, tried in order, and the results analysed.  *)

PortConfigs == [common : BOOLEAN, random : BOOLEAN, additional : AdditionalPorts,
                families : SUBSET {"ip4", "ip6"}]

(* Port 0 asks the system for a port.                                      *)
PortsOf(config) ==
    (IF config.common THEN COMMON_PORTS ELSE <<>>) \o config.additional
        \o (IF config.random THEN <<0>> ELSE <<>>)

FamiliesOf(config) ==
    (IF "ip4" \in config.families THEN <<"ip4">> ELSE <<>>)
        \o (IF "ip6" \in config.families THEN <<"ip6">> ELSE <<>>)

GenerateListenAddresses(config) ==
    LET ports == PortsOf(config)
        fams == FamiliesOf(config)
        n == Len(fams)
    IN  [i \in 1 .. Len(ports) * n |->
            [family |-> fams[((i - 1) % n) + 1], port |-> ports[((i - 1) \div n) + 1]]]

OpenPorts == {r.port : r \in {q \in Range(bindResults) : q.result = "ok"}}
HasCommonPort == Range(COMMON_PORTS) \cap OpenPorts # {}
(* Mutant: a chosen port has to be above 10000. *)
HasRandomPortHigh == \E port \in OpenPorts : port > 10000
HasRandomPort == \E port \in OpenPorts : port = 0 \/ port > 10000

AnalyzeBindResults ==
    CASE HasCommonPort /\ HasRandomPort -> "Excellent"
      [] HasCommonPort /\ ~HasRandomPort -> "Good"
      [] ~HasCommonPort /\ HasRandomPort -> "Moderate"
      [] ~HasCommonPort /\ ~HasRandomPort /\ OpenPorts # {} -> "Limited"
      [] OTHER -> "None"

PortsInit ==
    /\ portConfig \in PortConfigs /\ bindResults = <<>> /\ boundPorts = {} /\ analysis = "binding"

(* listen_on: refused if this process has the port already, or for what    *)
(* the system says.                                                        *)
BindNext(result) ==
    /\ analysis = "binding"
    /\ Len(bindResults) < Len(GenerateListenAddresses(portConfig))
    /\ LET a == GenerateListenAddresses(portConfig)[Len(bindResults) + 1]
       IN  /\ <<a.family, a.port>> \in boundPorts => result = "in use"
           /\ bindResults' = Append(bindResults, [port |-> a.port, result |-> result])
           /\ boundPorts' = IF result = "ok" /\ a.port # 0 THEN boundPorts \cup {<<a.family, a.port>>}
                                                           ELSE boundPorts
    /\ UNCHANGED <<portConfig, analysis>>

(* With no listener the start fails and everything is dropped.             *)
BindsAnalysed ==
    /\ analysis = "binding"
    /\ Len(bindResults) = Len(GenerateListenAddresses(portConfig))
    /\ analysis' = AnalyzeBindResults
    /\ UNCHANGED <<portConfig, bindResults, boundPorts>>

PortsNext == (\E r \in {"ok", "permission", "in use", "other"} : BindNext(r)) \/ BindsAnalysed

PortsSpec == PortsInit /\ [][PortsNext]_portVars

-----------------------------------------------------------------------------
(* Every open circuit listener is the one recorded for a relay we are      *)
(* connected with: identify repeats, lost connections and restarts leave   *)
(* no listener behind that nothing will ever close.                        *)
CircuitsAccounted ==
    /\ DOMAIN circuits \subseteq Linked
    /\ \A c \in circuitsOpen : c[2] \in DOMAIN circuits /\ circuits[c[2]] = c[1]

(* While a peer has had one connection at a time and its mDNS record did   *)
(* not expire, the bookkeeping of ConnectionEstablished and                *)
(* ConnectionClosed agrees with the connections: the application knows the *)
(* peer, its address can be reflected, and it receives introductions.      *)
ConnectedPeersKnown ==
    /\ \A p \in Linked \ excused :
          p \in appPeers \cap broadcasting /\ ReflectionAnswer(p) # Unspecified
    /\ trackedConns \cup broadcasting \cup infoReported \subseteq Linked

(* The reported connectivity is what the listeners give: none exactly when *)
(* nothing was bound, and better than a fixed port of the user's exactly   *)
(* when a common port or one chosen by the system is open.                 *)
ConnectivityReported ==
    analysis # "binding" =>
        /\ analysis = "None" <=> OpenPorts = {}
        /\ analysis \in {"Excellent", "Good"} => Range(COMMON_PORTS) \cap OpenPorts # {}
        /\ 0 \in OpenPorts => analysis \in {"Excellent", "Moderate"}
        /\ /\ portConfig.random /\ portConfig.families # {}
           /\ \A r \in Range(bindResults) : r.result = "ok"
           => analysis \in {"Excellent", "Moderate"}

(* What the swarm records about a peer follows its connections: circuit    *)
(* listeners, the report to the application, reflections and               *)
(* introductions; what it reports of its ports follows its listeners.      *)
ConnectionsSound ==
    CircuitsAccounted /\ ConnectedPeersKnown /\ ConnectivityReported
=============================================================================
