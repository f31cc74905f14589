--------------------------- MODULE TransportPeers ---------------------------
(* Peers across transports: the transport manager with its table of peers,    *)
(* outgoing queue and reconnection queue (core/src/transport/manager.rs), the *)
(* connection health monitor (health.rs), the choice of a transport for a     *)
(* peer (escalation.rs) and the CLI's transport bridge (transport_bridge.rs). *)
(*  The manager is shared: every method takes its locks *)
(* one after the other, and remove_target_peer releases one before it takes   *)
(* the next.  Time counts seconds.                                            *)
EXTENDS Integers, FiniteSets, FiniteSetsExt, Sequences, SequencesExt

CONSTANTS ManagedPeers,
          FollowedPeers, \* the peers with statistics, choices and sends
          TransportKinds, \* transport types
          Rank,       \* the score of each transport type
          MaxConcurrent, MaxRedialFailures, MaxInterval, SilentAfter, HealthTtl,
          Priorities,
          MaxPending,                  \* bound on the outgoing queue
          MaxManagerTime, MaxManagerSteps, \* bounds on the clock and on the calls
          BridgePeers,   \* peers registered with the CLI's transport bridge
          MaxCapabilities \* bound on the capabilities registered for a peer

ASSUME ManagerAssumption ==
    /\ MaxConcurrent \in Nat \ {0}
    /\ MaxRedialFailures \in Nat \ {0}
    /\ MaxInterval \in Nat \ {0}
    /\ Rank \in [TransportKinds -> Nat]

VARIABLES connectedOn,    \* [Transports -> peers its state lists as connected]
          reachedBy,      \* [MeshPeers -> transports the peer is available on]
          lastSeen,       \* [MeshPeers -> {} or {time}]
          targets,        \* peers to stay connected to
          redial,         \* [MeshPeers -> {} or {reconnection state}]
          handedOut,      \* peers given to the caller for dialing
          removing,       \* peers between the two halves of remove_target_peer
          outgoing,       \* the outgoing queue
          sends,          \* number of sends accepted
          health,         \* [MeshPeers -> {} or {connection statistics}]
          activeCount,    \* current_active_connections
          chosen,         \* [MeshPeers -> {} or {escalation state}]
          managerClock, managerSteps,
          redialFailedAt        \* history: the last failed dial of a queued peer

VARIABLES peerCapabilities \* [BridgePeers -> capabilities in order, <<>> if unregistered]

peerBridgeVars == <<peerCapabilities>>

managerVars == <<connectedOn, reachedBy, lastSeen, targets, redial, handedOut,
                 removing, outgoing, sends, health, activeCount, chosen,
                 managerClock, managerSteps, redialFailedAt>>
seenVars == <<connectedOn, reachedBy, lastSeen>>
redialVars == <<targets, redial, handedOut, removing, redialFailedAt>>
sendVars == <<outgoing, sends>>
healthVars == <<health, activeCount>>

Redials == [failures : 0..MaxRedialFailures, next : Nat, since : 0..MaxManagerTime]
Pendings == [id : 1..MaxPending, prio : Priorities, on : TransportKinds]
Healths == [state : {"Connecting", "Connected", "Disconnected", "Failed"},
            attempts : Nat, successes : Nat, at : 0..MaxManagerTime]
TransportChoices == [current : TransportKinds, available : SUBSET TransportKinds]

ManagerTypeOK ==
    /\ connectedOn \in [TransportKinds -> SUBSET ManagedPeers]
    /\ reachedBy \in [ManagedPeers -> SUBSET TransportKinds]
    /\ targets \subseteq ManagedPeers /\ handedOut \subseteq ManagedPeers /\ removing \subseteq ManagedPeers
    /\ activeCount \in Nat
    /\ \A i \in DOMAIN outgoing : outgoing[i] \in Pendings
    /\ \A p \in ManagedPeers : /\ lastSeen[p] \subseteq 0..MaxManagerTime
                            /\ redial[p] \subseteq Redials
                            /\ health[p] \subseteq Healths
                            /\ chosen[p] \subseteq TransportChoices

ManagerInit ==
    /\ connectedOn = [t \in TransportKinds |-> {}]
    /\ reachedBy = [p \in ManagedPeers |-> {}]
    /\ lastSeen = [p \in ManagedPeers |-> {}]
    /\ targets = {}
    /\ redial = [p \in ManagedPeers |-> {}]
    /\ handedOut = {}
    /\ removing = {}
    /\ outgoing = <<>>
    /\ sends = 0
    /\ health = [p \in ManagedPeers |-> {}]
    /\ activeCount = 0
    /\ chosen = [p \in ManagedPeers |-> {}]
    /\ managerClock = 0
    /\ managerSteps = 0
    /\ redialFailedAt = [p \in ManagedPeers |-> {}]

ManagerStep == managerSteps < MaxManagerSteps /\ managerSteps' = managerSteps + 1
(* The outgoing queue, the statistics and the transport choice share no state *)
(* with reconnection: the instance exercises them apart, for FollowedPeers.   *)
SideStep == ManagerStep /\ targets = {} /\ removing = {}

-----------------------------------------------------------------------------
(* handle_event.                                                              *)

PeerDiscovered(p, t) ==
    /\ ManagerStep
    /\ reachedBy' = [reachedBy EXCEPT ![p] = @ \union {t}]
    /\ lastSeen' = [lastSeen EXCEPT ![p] = {managerClock}]
    /\ UNCHANGED <<connectedOn, redialVars, sendVars, healthVars, chosen, managerClock>>

(* The transport's own list of connected peers is not cleaned here; a queued  *)
(* peer keeps its old reconnection state.                                     *)
PeerDisconnected(p, t) ==
    /\ ManagerStep
    /\ reachedBy[p] # {}
    /\ reachedBy' = [reachedBy EXCEPT ![p] = @ \ {t}]
    /\ redial' = IF reachedBy'[p] = {} /\ p \in targets /\ redial[p] = {}
                   THEN [redial EXCEPT ![p] =
                           {[failures |-> 0, next |-> managerClock + 1, since |-> managerClock]}]
                   ELSE redial
    /\ UNCHANGED <<connectedOn, lastSeen, targets, handedOut, removing, redialFailedAt,
                   sendVars, healthVars, chosen, managerClock>>

(* DataReceived refreshes the time even of a peer that is not in the table.   *)
DataReceived(p) ==
    /\ ManagerStep
    /\ lastSeen' = [lastSeen EXCEPT ![p] = {managerClock}]
    /\ UNCHANGED <<connectedOn, reachedBy, redialVars, sendVars, healthVars, chosen, managerClock>>

TransportEstablished(p, t) ==
    /\ SideStep
    /\ connectedOn' = [connectedOn EXCEPT ![t] = @ \union {p}]
    /\ UNCHANGED <<reachedBy, lastSeen, redialVars, sendVars, healthVars, chosen, managerClock>>

DisableTransport(t) ==
    /\ SideStep
    /\ connectedOn[t] # {}
    /\ connectedOn' = [connectedOn EXCEPT ![t] = {}]
    /\ UNCHANGED <<reachedBy, lastSeen, redialVars, sendVars, healthVars, chosen, managerClock>>

-----------------------------------------------------------------------------
(* send_to_peer and the outgoing queue.                                       *)

HealthScore(p, t) == Rank[t] + IF p \in connectedOn[t] THEN 1000 ELSE 0
BestTransport(p) == {t \in reachedBy[p] : \A u \in reachedBy[p] : HealthScore(p, u) <= HealthScore(p, t)}

(* Mutant: the sort puts a new item before the ones of its own priority. *)
OutgoingPutUnstable(q, item) ==
    SelectSeq(q, LAMBDA x : x.prio > item.prio) \o <<item>>
        \o SelectSeq(q, LAMBDA x : x.prio <= item.prio)
(* push and a stable sort by descending priority.                             *)
OutgoingPut(q, item) ==
    SelectSeq(q, LAMBDA x : x.prio >= item.prio) \o <<item>>
        \o SelectSeq(q, LAMBDA x : x.prio < item.prio)

SendToPeer(p, prio) ==
    /\ SideStep
    /\ sends < MaxPending
    /\ sends' = sends + 1
    /\ \E t \in BestTransport(p) :
         outgoing' = OutgoingPut(outgoing, [id |-> sends', prio |-> prio, on |-> t])
    /\ UNCHANGED <<seenVars, redialVars, healthVars, chosen, managerClock>>

OutgoingTake ==
    /\ outgoing # <<>>
    /\ outgoing' = Tail(outgoing)
    /\ UNCHANGED <<seenVars, redialVars, sends, healthVars, chosen, managerClock, managerSteps>>

-----------------------------------------------------------------------------
(* Reconnection.                                                              *)

(* The instance chooses its targets before the first event.                   *)
AddTargetPeer(p) ==
    /\ p \notin targets
    /\ managerSteps = 0
    /\ targets' = targets \union {p}
    /\ UNCHANGED <<seenVars, redial, handedOut, removing, redialFailedAt, sendVars,
                   healthVars, chosen, managerClock, managerSteps>>

(* remove_target_peer: the target set first; its lock is released before the  *)
(* one of the reconnection queue is taken.                                    *)
RemoveTarget(p) ==
    /\ ManagerStep
    /\ p \in targets /\ p \notin removing
    /\ targets' = targets \ {p}
    /\ removing' = removing \union {p}
    /\ UNCHANGED <<seenVars, redial, handedOut, redialFailedAt, sendVars, healthVars,
                   chosen, managerClock>>
(* Mutant: the reconnection state stays. *)
RemoveTargetEndsEarly(p) ==
    /\ p \in removing
    /\ removing' = removing \ {p}
    /\ UNCHANGED <<seenVars, targets, redial, handedOut, redialFailedAt, sendVars,
                   healthVars, chosen, managerClock, managerSteps>>
RemoveTargetEnds(p) ==
    /\ p \in removing
    /\ removing' = removing \ {p}
    /\ targets' = targets
    /\ redial' = [redial EXCEPT ![p] = {}]
    /\ UNCHANGED <<seenVars, handedOut, redialFailedAt, sendVars, healthVars, chosen,
                   managerClock, managerSteps>>

RedialExhausted(r) == r.failures >= MaxRedialFailures
RedialBackoff(n) == Min({2 ^ n, MaxInterval})

ReadyPeers == {p \in ManagedPeers : \E r \in redial[p] : managerClock >= r.next /\ ~RedialExhausted(r)}

(* peers_needing_reconnect: at most MaxConcurrent, the longest gone first;    *)
(* the others are put off.  The caller dials the batch before it asks again.  *)
PeersNeedingReconnect ==
    /\ handedOut = {}
    /\ ReadyPeers # {}
    /\ \E batch \in {S \in SUBSET ReadyPeers :
             Cardinality(S) = Min({MaxConcurrent, Cardinality(ReadyPeers)})} :
         /\ \A p \in batch, q \in ReadyPeers \ batch : \A a \in redial[p], b \in redial[q] :
              a.since <= b.since
         /\ handedOut' = handedOut \union batch
         /\ redial' = [p \in ManagedPeers |->
                IF p \in ReadyPeers \ batch
                  THEN {[r EXCEPT !.next = managerClock + 1] : r \in redial[p]}
                  ELSE redial[p]]
    /\ UNCHANGED <<seenVars, targets, removing, redialFailedAt, sendVars, healthVars,
                   chosen, managerClock, managerSteps>>

ReconnectSuccess(p) ==
    /\ p \in handedOut
    /\ handedOut' = handedOut \ {p}
    /\ redial' = [redial EXCEPT ![p] = {}]
    /\ redialFailedAt' = [redialFailedAt EXCEPT ![p] = {}]
    /\ UNCHANGED <<seenVars, targets, removing, sendVars, healthVars, chosen,
                   managerClock, managerSteps>>

(* Mutant: the failure is counted and the next attempt is left where it was. *)
RedialFailedKeepingTime(r) == [r EXCEPT !.failures = @ + 1]
(* ReconnectionState::record_failure                                          *)
RedialFailed(r) == [r EXCEPT !.failures = @ + 1, !.next = managerClock + RedialBackoff(r.failures + 1)]

ReconnectFailure(p) ==
    /\ p \in handedOut
    /\ handedOut' = handedOut \ {p}
    /\ redial' = [redial EXCEPT ![p] = {RedialFailed(r) : r \in @}]
    /\ redialFailedAt' = [redialFailedAt EXCEPT ![p] = IF redial[p] = {} THEN @ ELSE {managerClock}]
    /\ UNCHANGED <<seenVars, targets, removing, sendVars, healthVars, chosen,
                   managerClock, managerSteps>>

-----------------------------------------------------------------------------
(* The health monitor.                                                        *)

NewHealth == [state |-> "Disconnected", attempts |-> 0, successes |-> 0, at |-> managerClock]
HealthOf(p) == IF health[p] = {} THEN {NewHealth} ELSE health[p]

(* Whatever is recorded of a peer, its last activity is now.                  *)
Stamped(h) == [h EXCEPT !.at = managerClock]

(* record_connection_state_change: the active count follows the reports, not  *)
(* the states.                                                                *)
ActiveAfter(state) ==
    CASE state = "Connected" -> activeCount + 1
      [] state \in {"Disconnected", "Failed"} -> Max({0, activeCount - 1})
      [] OTHER -> activeCount

UpdateConnectionState(p, state) ==
    /\ SideStep
    /\ health' = [health EXCEPT ![p] = {[Stamped(h) EXCEPT !.state = state] : h \in HealthOf(p)}]
    /\ activeCount' = ActiveAfter(state)
    /\ UNCHANGED <<seenVars, redialVars, sendVars, chosen, managerClock>>

(* record_connection_attempt creates the entry, record_successful_connection  *)
(* does not, and counts the connection as active again.                       *)
ConnectionAttempt(p) ==
    /\ SideStep
    /\ health' = [health EXCEPT ![p] =
                      {[Stamped(h) EXCEPT !.attempts = @ + 1] : h \in HealthOf(p)}]
    /\ UNCHANGED <<seenVars, redialVars, sendVars, activeCount, chosen, managerClock>>
SuccessfulConnection(p) ==
    /\ SideStep
    /\ health' = [health EXCEPT ![p] =
                      {[Stamped(h) EXCEPT !.successes = @ + 1] : h \in @}]
    /\ activeCount' = activeCount + 1
    /\ UNCHANGED <<seenVars, redialVars, sendVars, chosen, managerClock>>

(* Messages, bytes, failed connections and addresses are recorded only of a   *)
(* peer that has an entry; their counts decide nothing and are left out.      *)
Recorded(p) ==
    /\ SideStep
    /\ health' = [health EXCEPT ![p] = {Stamped(h) : h \in @}]
    /\ UNCHANGED <<seenVars, redialVars, sendVars, activeCount, chosen, managerClock>>
TrafficRecorded(p) == Recorded(p)
FailureRecorded(p) == Recorded(p)

-----------------------------------------------------------------------------
(* The choice of a transport.                                                 *)

BestRanked(S) == {t \in S : \A u \in S : Rank[u] <= Rank[t]}

(* update_peer_transports: a list with transports starts the peer afresh on   *)
(* the best of them; an empty one only replaces the list of a known peer.     *)
UpdatePeerTransports(p, S) ==
    /\ SideStep
    /\ \/ \E t \in BestRanked(S) :
            chosen' = [chosen EXCEPT ![p] = {[current |-> t, available |-> S]}]
       \/ /\ S = {} /\ chosen[p] # {}
          /\ chosen' = [chosen EXCEPT ![p] = {[c EXCEPT !.available = S] : c \in @}]
    /\ UNCHANGED <<seenVars, redialVars, sendVars, healthVars, managerClock>>

(* update_available_transports keeps the current transport.                   *)
UpdateAvailable(p, S) ==
    /\ SideStep
    /\ chosen[p] # {}
    /\ chosen' = [chosen EXCEPT ![p] = {[c EXCEPT !.available = S] : c \in @}]
    /\ UNCHANGED <<seenVars, redialVars, sendVars, healthVars, managerClock>>

(* escalate to the best other transport when it is better; deescalate to it   *)
(* only when it is worse.                                                     *)
Escalate(p) ==
    /\ SideStep
    /\ \E c \in chosen[p] : \E t \in BestRanked(c.available \ {c.current}) :
         /\ Rank[t] > Rank[c.current]
         /\ chosen' = [chosen EXCEPT ![p] = {[c EXCEPT !.current = t]}]
    /\ UNCHANGED <<seenVars, redialVars, sendVars, healthVars, managerClock>>
Deescalate(p) ==
    /\ SideStep
    /\ \E c \in chosen[p] : \E t \in BestRanked(c.available \ {c.current}) :
         /\ Rank[t] < Rank[c.current]
         /\ chosen' = [chosen EXCEPT ![p] = {[c EXCEPT !.current = t]}]
    /\ UNCHANGED <<seenVars, redialVars, sendVars, healthVars, managerClock>>

-----------------------------------------------------------------------------
(* cleanup_stale_connections *)
FreshHealth == [p \in ManagedPeers |-> {h \in health[p] : h.at >= managerClock - HealthTtl}]

(* tick: silent peers are forgotten without being queued for reconnection,    *)
(* exhausted reconnections and stale statistics go.  A time that lies ahead   *)
(* of the clock is dropped and leaves its peer in the table.                  *)
ManagerTick ==
    /\ LET silent == {p \in ManagedPeers : \E t \in lastSeen[p] : managerClock - t > SilentAfter}
       IN  /\ reachedBy' = [p \in ManagedPeers |-> IF p \in silent THEN {} ELSE reachedBy[p]]
           /\ lastSeen' = [p \in ManagedPeers |->
                  {t \in lastSeen[p] : t <= managerClock /\ managerClock - t <= SilentAfter}]
    /\ redial' = [p \in ManagedPeers |-> {r \in redial[p] : ~RedialExhausted(r)}]
    /\ health' = FreshHealth
    /\ redialFailedAt' = [p \in ManagedPeers |-> IF redial'[p] = {} THEN {} ELSE redialFailedAt[p]]
    /\ UNCHANGED <<connectedOn, targets, handedOut, removing, sendVars, activeCount,
                   chosen, managerClock, managerSteps>>
SecondPasses ==
    /\ managerClock < MaxManagerTime
    /\ managerClock' = managerClock + 1
    /\ UNCHANGED <<seenVars, redialVars, sendVars, healthVars, chosen, managerSteps>>

(* The times are the system clock's, which may be set back.                   *)
ManagerClockSetBack ==
    /\ ManagerStep
    /\ managerClock > 0
    /\ managerClock' = managerClock - 1
    /\ UNCHANGED <<seenVars, redialVars, sendVars, healthVars, chosen>>

ManagerNext ==
    \/ ManagerTick \/ SecondPasses \/ ManagerClockSetBack \/ OutgoingTake \/ PeersNeedingReconnect
    \/ \E t \in TransportKinds : DisableTransport(t)
    \/ \E p \in ManagedPeers :
         \/ AddTargetPeer(p) \/ RemoveTarget(p) \/ RemoveTargetEnds(p)
         \/ ReconnectSuccess(p) \/ ReconnectFailure(p) \/ DataReceived(p)
         \/ \E t \in TransportKinds : PeerDiscovered(p, t) \/ PeerDisconnected(p, t)
    \/ \E p \in FollowedPeers :
         \/ ConnectionAttempt(p) \/ SuccessfulConnection(p)
         \/ TrafficRecorded(p) \/ FailureRecorded(p)
         \/ Escalate(p) \/ Deescalate(p)
         \/ \E state \in {"Connecting", "Connected", "Disconnected", "Failed"} :
              UpdateConnectionState(p, state)
         \/ \E prio \in Priorities : SendToPeer(p, prio)
         \/ \E S \in SUBSET TransportKinds : UpdatePeerTransports(p, S) \/ UpdateAvailable(p, S)
         \/ \E t \in TransportKinds : TransportEstablished(p, t)

ManagerSpec == ManagerInit /\ [][ManagerNext]_managerVars

-----------------------------------------------------------------------------
(* The transport bridge of the CLI (transport_bridge.rs): the paths from a    *)
(* browser through this node to a peer.  Reliabilities are percentages and    *)
(* latencies milliseconds; both tables are those of the code.                 *)

BridgeTransports == {"BLE", "WiFiAware", "WiFiDirect", "Internet", "Local"}
GetWasmTransports == <<"Internet", "Local">>

GetPathReliability(source, dest) ==
    CASE source = "Local" ->
           [WiFiDirect |-> 95, WiFiAware |-> 90, BLE |-> 85, Local |-> 90, Internet |-> 80][dest]
      [] source = "Internet" ->
           [WiFiDirect |-> 85, WiFiAware |-> 80, BLE |-> 75, Local |-> 80, Internet |-> 70][dest]
      [] OTHER -> 60

EstimatePathLatency(source, dest) ==
    CASE source = "Local" ->
           [WiFiDirect |-> 5, WiFiAware |-> 10, BLE |-> 20, Local |-> 2, Internet |-> 50][dest]
      [] source = "Internet" ->
           [WiFiDirect |-> 30, WiFiAware |-> 40, BLE |-> 60, Local |-> 20, Internet |-> 100][dest]
      [] OTHER -> 150

BridgePath(source, dest) ==
    [source |-> source, dest |-> dest, bridge |-> "Internet",
     reliability |-> GetPathReliability(source, dest), latency |-> EstimatePathLatency(source, dest)]

(* Mutant: latency does not break ties. *)
BetterPathByReliability(a, b) == a.reliability > b.reliability
BetterPath(a, b) ==
    \/ a.reliability > b.reliability
    \/ a.reliability = b.reliability /\ a.latency < b.latency

(* A stable sort: a path goes in front of the first one it is better than.    *)
StableByPath(s) ==
    FoldLeft(LAMBDA sorted, x : SelectSeq(sorted, LAMBDA y : ~BetterPath(x, y)) \o <<x>>
                                    \o SelectSeq(sorted, LAMBDA y : BetterPath(x, y)),
             <<>>, s)

(* The searches, for a peer with the capabilities caps.                       *)
FindAllPaths(caps) ==
    LET From(source) == [k \in DOMAIN caps |-> BridgePath(source, caps[k])]
    IN  StableByPath(From(GetWasmTransports[1]) \o From(GetWasmTransports[2]))

FindBestPath(caps) == Head(FindAllPaths(caps))

(* max_by keeps the last of several equal maxima.                             *)
GetBestForwardingPath(caps) ==
    LET s == FindAllPaths(caps)
    IN  s[Max({i \in DOMAIN s : \A j \in DOMAIN s : ~BetterPath(s[j], s[i])})]

(* The node itself always has a transport, so any capability will do.         *)
CanReachDestination(caps) == Len(caps) > 0

(* get_available_paths lists a peer when it has a path.                       *)
HasAvailablePaths(caps) == FindAllPaths(caps) # <<>>

BridgeInit == peerCapabilities = [p \in BridgePeers |-> <<>>]

(* register_peer, register_peer_capabilities: the new list replaces the old.  *)
BridgeRegisterPeer(p, caps) == peerCapabilities' = [peerCapabilities EXCEPT ![p] = caps]

BridgeNext == \E p \in BridgePeers, n \in 0 .. MaxCapabilities :
                 \E caps \in [1 .. n -> BridgeTransports] : BridgeRegisterPeer(p, caps)

BridgeSpec == BridgeInit /\ [][BridgeNext]_peerBridgeVars

-----------------------------------------------------------------------------
(* Only a target peer is dialed again: a reconnection state exists for a      *)
(* target, or for a peer whose removal is under way.  A disconnect event that *)
(* runs between the two halves of remove_target_peer must not leave a state   *)
(* behind, since nothing else would ever stop the dialing.                    *)
OnlyTargetsRedialed ==
    \A p \in ManagedPeers : redial[p] # {} => p \in targets \union removing

(* A peer handed out for dialing has waited out the backoff of its last       *)
(* failure and is not exhausted, whatever happened to its queue entry in      *)
(* between (peers_needing_reconnect, record_failure).                         *)
RedialsPaced ==
    \A p \in handedOut' \ handedOut :
      \A r \in redial[p], t \in redialFailedAt[p] :
          managerClock - t >= RedialBackoff(r.failures) /\ ~RedialExhausted(r)

(* Sends leave in order: of two waiting sends the one in front has the higher *)
(* priority, or the same priority and was accepted earlier (enqueue).         *)
SendsOrdered ==
    \A i, j \in DOMAIN outgoing : i < j =>
        \/ outgoing[i].prio > outgoing[j].prio
        \/ outgoing[i].prio = outgoing[j].prio /\ outgoing[i].id < outgoing[j].id

(* Whatever capabilities were registered, in whatever order and how often:    *)
(* the two searches for the best path agree, the flush is allowed exactly     *)
(* for peers that have a path, and the best path enters by the loopback,      *)
(* which beats the daemon socket to every destination (transport_bridge.rs).  *)
BridgePathsAgree(caps) ==
    /\ CanReachDestination(caps) <=> HasAvailablePaths(caps)
    /\ CanReachDestination(caps) =>
          /\ FindBestPath(caps) = GetBestForwardingPath(caps)
          /\ FindBestPath(caps).source = "Local"
          /\ \A t \in ToSet(caps) : ~BetterPath(BridgePath("Local", t), FindBestPath(caps))

(* The transport manager's queues under events that overlap its calls:     *)
(* only targets are dialed again, each after its backoff, and sends keep   *)
(* their order; the bridge's two searches agree on the best path.          *)
PeersSound ==
    [][/\ UNCHANGED managerVars \/ ((OnlyTargetsRedialed /\ SendsOrdered)' /\ RedialsPaced)
       /\ \A caps \in {peerCapabilities'[p] : p \in BridgePeers} : BridgePathsAgree(caps)
      ]_<<managerVars, peerBridgeVars>>
=============================================================================
