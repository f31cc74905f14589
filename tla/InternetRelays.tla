--------------------------- MODULE InternetRelays ---------------------------
(***************************************************************************)
(* The relays a node knows on the internet.  InternetRelay                 *)
(* (core/src/transport/internet.rs) keeps the relays in use and their      *)
(* traffic in two maps behind two locks, and its methods run on several    *)
(* tasks: each takes the locks one after the other, so that other calls    *)
(* fall between the test of the limit, the entry and its statistics.       *)
(* RelayDiscovery (core/src/transport/relay_health.rs) rates the relays    *)
(* and keeps their ranking in a cache.  NatTraversal                       *)
(* (core/src/transport/nat.rs) asks peers which address they see, and      *)
(* keeps the hole punches and relay circuits that get through a NAT.       *)
(***************************************************************************)
EXTENDS Integers, FiniteSets, SequencesExt

CONSTANTS
    NetRelays,            \* peer ids of relays
    RelayTasks,           \* tasks that call InternetRelay
    MaxRelayConnections,  \* max_relay_connections
    RelayTimeout,         \* relay_timeout_secs, in ticks
    MaxNetTime,           \* bound on the clock
    MaxNetCalls,          \* bound on the calls
    Reflectors,           \* the number of peer_reflectors
    MIN_RESPONSES,
    PunchPeers,           \* peers a hole is punched to
    PunchCallers,         \* tasks that call NatTraversal
    ATTEMPT_TIMEOUT,
    MaxNatTime,           \* bound on the clock of hole punches
    MaxMoves,             \* bound on the changes of network
    MaxNatCalls           \* bound on probes and circuits

ASSUME InternetAssumption ==
    /\ IsFiniteSet(NetRelays) /\ IsFiniteSet(RelayTasks)
    /\ MaxRelayConnections \in Nat \ {0} /\ RelayTimeout \in Nat
    /\ MaxNetTime \in Nat /\ MaxNetCalls \in Nat
    /\ Reflectors \in Nat /\ MIN_RESPONSES \in Nat \ {0}

VARIABLES
    activeRelays,   \* relay -> [seen, capable, dialled]
    relayStats,     \* relay -> messages relayed
    netTask,        \* RelayTasks -> [at, relay], where a call under way stands
    netTime,
    metrics,        \* relay -> RelayMetrics
    ranking,        \* priority_cache
    ranked,         \* the cache is younger than its ttl
    netCalls,
    mapping,        \* what the NAT does, and which network the node is on
    natType,
    natJudged,      \* the mapping that natType was found under, or why none counts
    natExternal,       \* external_address is known
    probe,          \* probe_nat under way
    punchAttempts,       \* hole_punch_attempts
    punching,       \* punching[c]: where a call of start_hole_punch stands
    relayCircuits,       \* relay_circuits
    natTime,
    natCalls

netVars == <<activeRelays, relayStats, netTask, netTime, metrics, ranking, ranked, netCalls>>
internetRelayVars == <<activeRelays, relayStats, netTask>>
discoveryVars == <<metrics, ranking, ranked>>

ActiveRelay == [seen : 0 .. MaxNetTime, capable : BOOLEAN, dialled : BOOLEAN]
RelayMetrics == [headless : BOOLEAN, uptime : 0 .. 10, latency : Nat, connections : Nat,
                 failures : Nat, stability : 0 .. 10, old : BOOLEAN]

Entered(f, k, v) == [x \in DOMAIN f \cup {k} |-> IF x = k THEN v ELSE f[x]]
Dropped(f, S) == [x \in DOMAIN f \ S |-> f[x]]
NoRelays == [x \in {} |-> x]

DiscoveryInit == metrics = NoRelays /\ ranking = << >> /\ ranked = FALSE

NetInit ==
    /\ activeRelays = NoRelays /\ relayStats = NoRelays
    /\ netTask = [t \in RelayTasks |-> [at |-> "idle", relay |-> {}]]
    /\ netTime = 0
    /\ DiscoveryInit
    /\ netCalls = 0

NetCalled == netCalls < MaxNetCalls /\ netCalls' = netCalls + 1
NetIdle(t) == netTask[t].at = "idle"
NetGoTo(t, at, r) == netTask' = [netTask EXCEPT ![t] = [at |-> at, relay |-> {r}]]
NetReturn(t) == netTask' = [netTask EXCEPT ![t] = [at |-> "idle", relay |-> {}]]
NetAt(t, at, r) == netTask[t] = [at |-> at, relay |-> {r}]

-----------------------------------------------------------------------------
(* InternetRelay                                                           *)

Room == Cardinality(DOMAIN activeRelays) < MaxRelayConnections

(* connect_to_relay_via_swarm tests the limit, dials, and calls            *)
(* connect_to_relay, which tests it again before it enters the relay.      *)
ConnectViaSwarm(t, r) ==
    /\ NetCalled /\ NetIdle(t) /\ Room
    /\ NetGoTo(t, "dialling", r)
    /\ UNCHANGED <<activeRelays, relayStats, netTime, discoveryVars>>

SwarmDials(t, r) ==
    /\ NetAt(t, "dialling", r)
    /\ NetGoTo(t, "connecting", r) \/ NetReturn(t)
    /\ UNCHANGED <<activeRelays, relayStats, netTime, netCalls, discoveryVars>>

ConnectToRelay(t, r) ==
    /\ NetCalled /\ NetIdle(t)
    /\ NetGoTo(t, "connecting", r)
    /\ UNCHANGED <<activeRelays, relayStats, netTime, discoveryVars>>

ConnectTests(t, r) ==
    /\ NetAt(t, "connecting", r)
    /\ IF Room THEN NetGoTo(t, "entering", r) ELSE NetReturn(t)
    /\ UNCHANGED <<activeRelays, relayStats, netTime, netCalls, discoveryVars>>

ConnectEnters(t, r) ==
    /\ NetAt(t, "entering", r)
    /\ activeRelays' = Entered(activeRelays, r, [seen |-> netTime, capable |-> TRUE, dialled |-> TRUE])
    /\ NetGoTo(t, "counting", r)
    /\ UNCHANGED <<relayStats, netTime, netCalls, discoveryVars>>

StatsEntered(t, r) ==
    /\ NetAt(t, "counting", r)
    /\ relayStats' = Entered(relayStats, r, 0)
    /\ NetReturn(t)
    /\ UNCHANGED <<activeRelays, netTime, netCalls, discoveryVars>>

(* register_relay_peer: no limit. *)
RegisterRelayPeer(t, r, capable) ==
    /\ NetCalled /\ NetIdle(t)
    /\ activeRelays' = Entered(activeRelays, r, [seen |-> netTime, capable |-> capable, dialled |-> FALSE])
    /\ NetGoTo(t, "counting", r)
    /\ UNCHANGED <<relayStats, netTime, discoveryVars>>

DisconnectRelay(t, r) ==
    /\ NetCalled /\ NetIdle(t)
    /\ activeRelays' = Dropped(activeRelays, {r})
    /\ NetGoTo(t, "leaving", r)
    /\ UNCHANGED <<relayStats, netTime, discoveryVars>>

StatsDropped(t, r) ==
    /\ NetAt(t, "leaving", r)
    /\ relayStats' = Dropped(relayStats, {r})
    /\ NetReturn(t)
    /\ UNCHANGED <<activeRelays, netTime, netCalls, discoveryVars>>

(* relay_for_peer and establish_relay_circuit: the relay is looked up,     *)
(* then its traffic is updated if it has statistics.                       *)
UseRelay(t, r) ==
    /\ NetCalled /\ NetIdle(t) /\ r \in DOMAIN activeRelays
    /\ NetGoTo(t, "relaying", r) \/ (activeRelays[r].capable /\ NetGoTo(t, "linking", r))
    /\ UNCHANGED <<activeRelays, relayStats, netTime, discoveryVars>>

(* A message over the bandwidth limit is refused, but counted as well. *)
RelayUsed(t, r) ==
    /\ NetAt(t, "relaying", r) \/ NetAt(t, "linking", r)
    /\ relayStats' = [k \in DOMAIN relayStats |->
                         IF k = r /\ NetAt(t, "relaying", r) THEN relayStats[k] + 1 ELSE relayStats[k]]
    /\ NetReturn(t)
    /\ UNCHANGED <<activeRelays, netTime, netCalls, discoveryVars>>

(* cleanup_stale_relays: both maps, while the first one is locked.  Use of *)
(* a relay does not move its last_seen.                                    *)
CleanupStaleRelays ==
    LET stale == {r \in DOMAIN activeRelays : netTime - activeRelays[r].seen > RelayTimeout}
    IN /\ NetCalled /\ stale # {}
       /\ activeRelays' = Dropped(activeRelays, stale)
       /\ relayStats' = Dropped(relayStats, stale)
       /\ UNCHANGED <<netTask, netTime, discoveryVars>>

RelayShutdown ==
    /\ NetCalled
    /\ activeRelays' = NoRelays /\ relayStats' = NoRelays
    /\ UNCHANGED <<netTask, netTime, discoveryVars>>

NetTick ==
    /\ netTime < MaxNetTime /\ netTime' = netTime + 1
    /\ UNCHANGED <<internetRelayVars, discoveryVars, netCalls>>

-----------------------------------------------------------------------------
(* RelayDiscovery                                                          *)

Least(a, b) == IF a < b THEN a ELSE b

(* priority_score, in thousandths; uptime and stability are in tenths. *)
PriorityScore(m) ==
    LET base == 40 * m.uptime + (300 * (1000 - Least(m.latency, 1000))) \div 1000 + 30 * m.stability
        score == base + (IF m.headless THEN 100 ELSE 0) - Least(10 * m.failures, 200)
    IN IF score < 0 THEN 0 ELSE Least(score, 1000)

Healthy(m) == m.uptime >= 8 /\ m.stability >= 7 /\ ~m.old /\ m.failures < m.connections

(* The metrics a relay is entered with. *)
FirstMetrics(headless) ==
    [headless |-> headless, uptime |-> 9, latency |-> 400, connections |-> 1, failures |-> 0,
     stability |-> 8, old |-> FALSE]

UpdateRelayMetrics(r, headless) ==
    /\ NetCalled
    /\ metrics' = Entered(metrics, r, FirstMetrics(headless))
    /\ ranked' = FALSE
    /\ UNCHANGED <<internetRelayVars, netTime, ranking>>

WithSuccess(m, latency) ==
    [m EXCEPT !.connections = @ + 1, !.latency = (@ + latency) \div 2, !.old = FALSE,
              !.stability = Least(@ + 1, 10)]

WithFailure(m) == [m EXCEPT !.failures = @ + 1, !.stability = IF @ = 0 THEN 0 ELSE @ - 1]

(* Mutant: the ranking stays as it is. *)
RecordedKeepsRanking(r, m) ==
    /\ metrics' = [metrics EXCEPT ![r] = m]
    /\ UNCHANGED ranked

OutcomeRecorded(r, m) ==
    /\ metrics' = [metrics EXCEPT ![r] = m]
    /\ ranked' = FALSE

RecordOutcome(r) ==
    /\ NetCalled /\ r \in DOMAIN metrics
    /\ OutcomeRecorded(r, WithFailure(metrics[r])) \/ \E l \in {0, 1000} : OutcomeRecorded(r, WithSuccess(metrics[r], l))
    /\ UNCHANGED <<internetRelayVars, netTime, ranking>>

(* rebuild_cache: the order of relays with the same score is that of a     *)
(* hash map.                                                               *)
Rankings ==
    {s \in SetToSeqs(DOMAIN metrics) :
        \A i, j \in DOMAIN s : i < j => PriorityScore(metrics[s[i]]) >= PriorityScore(metrics[s[j]])}

(* get_priority_relays rebuilds a cache that is too old or invalidated. *)
GetPriorityRelays ==
    /\ ~ranked
    /\ ranking' \in Rankings /\ ranked' = TRUE
    /\ UNCHANGED <<internetRelayVars, netTime, metrics, netCalls>>

(* What it returns, up to its limit. *)
Offered ==
    SelectSeq(ranking, LAMBDA r : r \in DOMAIN metrics /\ Healthy(metrics[r]))

RankingExpires ==
    /\ ranked /\ ranked' = FALSE
    /\ UNCHANGED <<internetRelayVars, netTime, metrics, ranking, netCalls>>

(* A day passes for a relay. *)
RelayAges(r) ==
    /\ NetCalled /\ r \in DOMAIN metrics /\ ~metrics[r].old
    /\ metrics' = [metrics EXCEPT ![r].old = TRUE]
    /\ UNCHANGED <<internetRelayVars, netTime, ranking, ranked>>

(* cleanup_stale_relays invalidates the cache unless no relay is left. *)
CleanupMetrics ==
    LET stale == {r \in DOMAIN metrics : metrics[r].old}
    IN /\ NetCalled /\ stale # {}
       /\ metrics' = Dropped(metrics, stale)
       /\ ranked' = (ranked /\ stale = DOMAIN metrics)
       /\ UNCHANGED <<internetRelayVars, netTime, ranking>>

-----------------------------------------------------------------------------
NetNext ==
    \/ \E t \in RelayTasks, r \in NetRelays :
          \/ ConnectViaSwarm(t, r) \/ SwarmDials(t, r) \/ ConnectToRelay(t, r) \/ ConnectTests(t, r)
          \/ ConnectEnters(t, r) \/ StatsEntered(t, r) \/ DisconnectRelay(t, r) \/ StatsDropped(t, r)
          \/ UseRelay(t, r) \/ RelayUsed(t, r)
          \/ \E capable \in BOOLEAN : RegisterRelayPeer(t, r, capable)
    \/ CleanupStaleRelays \/ RelayShutdown \/ NetTick
    \/ \E r \in NetRelays, headless \in BOOLEAN : UpdateRelayMetrics(r, headless)
    \/ \E r \in NetRelays : RecordOutcome(r) \/ RelayAges(r)
    \/ GetPriorityRelays \/ RankingExpires \/ CleanupMetrics

NetSpec == NetInit /\ [][NetNext]_netVars

-----------------------------------------------------------------------------
(* NatTraversal                                                            *)
natVars == <<mapping, natType, natJudged, natExternal, probe, punchAttempts, punching, relayCircuits,
             natTime, natCalls>>
punchVars == <<punchAttempts, punching, natTime>>
probeVars == <<mapping, natType, natJudged, natExternal, probe>>

(* A mapping that is the same for every peer, differs in the port or in    *)
(* the address as well.                                                    *)
Mappings == {"same", "port", "address"}
NoProbe == [at |-> "idle", asked |-> 0, answers |-> << >>, moved |-> FALSE]

NatInit ==
    /\ mapping \in [kind : Mappings, network : {0}]
    /\ natType = "Unknown" /\ natJudged = "none" /\ natExternal = FALSE
    /\ probe = NoProbe
    /\ punchAttempts = NoRelays
    /\ punching = [c \in PunchCallers |-> [at |-> "idle", peer |-> {}]]
    /\ relayCircuits = {} /\ natTime = 0 /\ natCalls = 0

NatCalled == natCalls < MaxNatCalls /\ natCalls' = natCalls + 1

(* The address and the port reflector i sees. *)
Reflected(i) ==
    [address |-> <<mapping.network, IF mapping.kind = "address" THEN i ELSE 0>>,
     port |-> IF mapping.kind = "same" THEN 0 ELSE i]

(* with_peers and the call of probe_nat. *)
ProbeNat ==
    /\ NatCalled /\ probe.at = "idle"
    /\ Reflectors > 0
    /\ probe' = [NoProbe EXCEPT !.at = "asking"]
    /\ UNCHANGED <<mapping, natType, natJudged, natExternal, punchVars, relayCircuits>>

(* One reflector after the other: an error or an address that does not     *)
(* parse leaves nothing.                                                   *)
AskReflector ==
    /\ probe.at = "asking" /\ probe.asked < Least(Reflectors, MIN_RESPONSES + 1)
    /\ \/ probe' = [probe EXCEPT !.asked = @ + 1]
       \/ probe' = [probe EXCEPT !.asked = @ + 1, !.answers = Append(@, Reflected(probe.asked + 1))]
    /\ UNCHANGED <<mapping, natType, natJudged, natExternal, punchVars, relayCircuits, natCalls>>

(* Mutant: the ports of the answers are not compared. *)
DetectedByAddress(answers) ==
    IF Len(answers) = 1 THEN "Open"
    ELSE IF \A a \in ToSet(answers) : a.address = answers[1].address THEN "FullCone" ELSE "Symmetric"

DetectNatType(answers) ==
    IF Len(answers) = 1 THEN "Open"
    ELSE IF \A a \in ToSet(answers) : a.address = answers[1].address
         THEN IF \A a \in ToSet(answers) : a.port = answers[1].port THEN "FullCone" ELSE "PortRestrictedCone"
         ELSE "Symmetric"

(* The type is written before the address is asked for once more, from the *)
(* first reflector, which may fail.                                        *)
WriteNatType ==
    /\ probe.at = "asking" /\ probe.asked = Least(Reflectors, MIN_RESPONSES + 1)
    /\ IF probe.answers = << >>
       THEN probe' = NoProbe /\ UNCHANGED <<natType, natJudged>>
       ELSE /\ natType' = DetectNatType(probe.answers)
            /\ natJudged' = IF probe.moved THEN "moved"
                            ELSE IF Len(probe.answers) < MIN_RESPONSES THEN "few" ELSE mapping.kind
            /\ probe' = [NoProbe EXCEPT !.at = "locating"]
    /\ UNCHANGED <<mapping, natExternal, punchVars, relayCircuits, natCalls>>

GetExternalAddress(answered) ==
    /\ probe.at = "locating"
    /\ natExternal' = (natExternal \/ answered)
    /\ probe' = NoProbe
    /\ UNCHANGED <<mapping, natType, natJudged, punchVars, relayCircuits, natCalls>>

(* The device changes to another network, perhaps during a probe. *)
Moves(kind) ==
    /\ mapping.network < MaxMoves
    /\ mapping' = [kind |-> kind, network |-> mapping.network + 1]
    /\ probe' = [probe EXCEPT !.moved = probe.at = "asking"]
    /\ UNCHANGED <<natType, natJudged, natExternal, punchVars, relayCircuits, natCalls>>

(* start_hole_punch looks for an attempt for the peer in one locking and   *)
(* enters its own in another one.                                          *)
StartHolePunch(c, p) ==
    /\ punching[c].at = "idle"
    /\ natExternal /\ p \notin DOMAIN punchAttempts
    /\ punching' = [punching EXCEPT ![c] = [at |-> "entering", peer |-> {p}]]
    /\ UNCHANGED <<probeVars, punchAttempts, natTime, relayCircuits, natCalls>>

EnterAttempt(c, p) ==
    /\ punching[c] = [at |-> "entering", peer |-> {p}]
    /\ punchAttempts' = Entered(punchAttempts, p, [status |-> "Pending", since |-> natTime])
    /\ punching' = [punching EXCEPT ![c].at = "sending"]
    /\ UNCHANGED <<probeVars, natTime, relayCircuits, natCalls>>

(* send_hole_punch_probes, for an attempt that may be gone by now. *)
SendHolePunchProbes(c, p) ==
    /\ punching[c] = [at |-> "sending", peer |-> {p}]
    /\ punchAttempts' = [q \in DOMAIN punchAttempts |->
                       IF q = p THEN [punchAttempts[q] EXCEPT !.status = "Success"] ELSE punchAttempts[q]]
    /\ punching' = [punching EXCEPT ![c] = [at |-> "idle", peer |-> {}]]
    /\ UNCHANGED <<probeVars, natTime, relayCircuits, natCalls>>

EstablishCircuit(p, r) ==
    /\ NatCalled
    /\ relayCircuits' = relayCircuits \cup {<<p, r>>}
    /\ UNCHANGED <<probeVars, punchVars>>

CloseCircuit(p, r) ==
    /\ NatCalled
    /\ relayCircuits' = relayCircuits \ {<<p, r>>}
    /\ UNCHANGED <<probeVars, punchVars>>

(* Successful attempts leave the table here too: until then start_hole_punch *)
(* refuses the peer as one in progress.                                    *)
CleanupOldAttempts ==
    LET old == {p \in DOMAIN punchAttempts : natTime - punchAttempts[p].since > ATTEMPT_TIMEOUT}
    IN /\ old # {}
       /\ punchAttempts' = Dropped(punchAttempts, old)
       /\ UNCHANGED <<probeVars, punching, natTime, relayCircuits, natCalls>>

NatShutdown ==
    /\ punchAttempts' = NoRelays /\ relayCircuits' = {}
    /\ UNCHANGED <<probeVars, punching, natTime, natCalls>>

NatTick ==
    /\ natTime < MaxNatTime /\ natTime' = natTime + 1
    /\ UNCHANGED <<probeVars, punchAttempts, punching, relayCircuits, natCalls>>

NatNext ==
    \/ ProbeNat \/ AskReflector \/ WriteNatType \/ NatTick \/ NatShutdown \/ CleanupOldAttempts
    \/ \E answered \in BOOLEAN : GetExternalAddress(answered)
    \/ \E kind \in Mappings : Moves(kind)
    \/ \E c \in PunchCallers, p \in PunchPeers :
          StartHolePunch(c, p) \/ EnterAttempt(c, p) \/ SendHolePunchProbes(c, p)
    \/ \E p \in PunchPeers, r \in NetRelays : EstablishCircuit(p, r) \/ CloseCircuit(p, r)

NatSpec == NatInit /\ [][NatNext]_natVars

NatTypeOK ==
    /\ natType \in {"Unknown", "Open", "FullCone", "PortRestrictedCone", "Symmetric"}
    /\ DOMAIN punchAttempts \subseteq PunchPeers /\ relayCircuits \subseteq PunchPeers \X NetRelays
    /\ probe.asked \in 0 .. MIN_RESPONSES + 1 /\ Len(probe.answers) <= probe.asked

-----------------------------------------------------------------------------
NetTypeOK ==
    /\ DOMAIN activeRelays \subseteq NetRelays /\ \A r \in DOMAIN activeRelays : activeRelays[r] \in ActiveRelay
    /\ DOMAIN relayStats \subseteq NetRelays /\ \A r \in DOMAIN relayStats : relayStats[r] \in 0 .. MaxNetCalls
    /\ \A t \in RelayTasks : netTask[t].relay \subseteq NetRelays
    /\ DOMAIN metrics \subseteq NetRelays /\ \A r \in DOMAIN metrics : metrics[r] \in RelayMetrics
    /\ ToSet(ranking) \subseteq NetRelays /\ ranked \in BOOLEAN
    /\ netTime \in 0 .. MaxNetTime /\ netCalls \in 0 .. MaxNetCalls

(* While the ranking counts as valid, the healthy relays are offered best  *)
(* first by their present scores and none of them is left out: every       *)
(* change of a rating invalidates the cache (relay_health.rs).             *)
OfferedBestFirst ==
    ranked =>
        /\ ToSet(Offered) = {r \in DOMAIN metrics : Healthy(metrics[r])}
        /\ \A i, j \in DOMAIN Offered :
              i < j => PriorityScore(metrics[Offered[i]]) >= PriorityScore(metrics[Offered[j]])

(* Of a node that stays on its network while it is probed, a type found    *)
(* from as many answers as a consensus needs (min_responses) is the type   *)
(* of its NAT, whichever reflectors failed to answer (detect_nat_type).    *)
NatTypeJustified ==
    natJudged \in Mappings =>
        natType = CASE natJudged = "same" -> "FullCone"
                    [] natJudged = "port" -> "PortRestrictedCone"
                    [] natJudged = "address" -> "Symmetric"

(* No hole punch is left pending: two calls for one peer may both find no  *)
(* attempt and replace each other's, yet each attempt in the table gets    *)
(* its probes (start_hole_punch, nat.rs).                                  *)
PunchesSettle ==
    \A p \in DOMAIN punchAttempts : punchAttempts[p].status = "Pending" =>
        \E c \in PunchCallers : punching[c] = [at |-> "sending", peer |-> {p}]

(* Tasks that measure and rank relays side by side offer them by their     *)
(* present scores; NAT types are those of the NAT, and a hole punch that   *)
(* was entered is tried.                                                   *)
RelaysSound == OfferedBestFirst /\ NatTypeJustified /\ PunchesSettle
=============================================================================
