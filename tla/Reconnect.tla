------------------------------ MODULE Reconnect ------------------------------
(***************************************************************************)
(* How a node finds its way back to the peers it lost (the event loop of   *)
(* core/src/transport/swarm.rs): relays it held a circuit reservation with *)
(* wait in relay_reconnect_pending, bootstrap addresses are re-dialled     *)
(* periodically with an exponential backoff per address.                   *)
(*                                                                         *)
(* A bootstrap address is identified with the peer its /p2p/ part names.   *)
(* Instants are kept as the time that remains until them.  The two         *)
(* periodic ticks and the passing of time are separate steps: the          *)
(* intervals are not aligned with the backoffs.                            *)
(***************************************************************************)
EXTENDS Integers, FiniteSets

CONSTANTS
    MeshPeers,
    Relays,                          \* peers whose agent version says "relay"
    BootstrapPeers,                  \* peers with a bootstrap address, ours excluded
    BOOTSTRAP_BACKOFF_INITIAL,
    BOOTSTRAP_BACKOFF_MAX,
    RelayBackoff,                    \* 10s, 30s, 60s: by number of attempts
    MaxConnections,                  \* bound on the connections with one peer
    MaxDialFaults                        \* bound on failures of reachable peers

ASSUME ReconnectAssumption ==
    /\ Relays \subseteq MeshPeers /\ BootstrapPeers \subseteq MeshPeers /\ IsFiniteSet(BootstrapPeers)
    /\ BOOTSTRAP_BACKOFF_INITIAL \in Nat \ {0}
    /\ BOOTSTRAP_BACKOFF_MAX \in Nat
    /\ BOOTSTRAP_BACKOFF_INITIAL <= BOOTSTRAP_BACKOFF_MAX
    /\ RelayBackoff \in [0..2 -> Nat]
    /\ MaxConnections \in Nat \ {0} /\ MaxDialFaults \in Nat

VARIABLES
    conns,       \* number of connections with each peer
    relayAddrs,  \* the keys of relay_peer_addrs and of successful_relay_reservations
    pending,     \* relay_reconnect_pending
    backoff,     \* bootstrap_backoff: address -> current backoff and time left
    redialing,   \* number of dials of a bootstrap address in progress
    \* the network
    up,          \* peers that can be reached
    dialFaults,      \* failures of reachable peers so far
    \* observation
    lost         \* relays lost and neither dialled nor connected since

reconnectVars == <<conns, relayAddrs, pending, backoff, redialing, up, dialFaults, lost>>

Connected == {p \in MeshPeers : conns[p] > 0}

Pending == [peer : Relays, attempts : 0..2, wait : Nat]

-----------------------------------------------------------------------------
(* BootstrapBackoffEntry *)

NewEntry == [secs |-> BOOTSTRAP_BACKOFF_INITIAL, wait |-> 0]

EntryOf(b) == IF b \in DOMAIN backoff THEN backoff[b] ELSE NewEntry
OnFailure(e) ==
    LET s == IF 2 * e.secs <= BOOTSTRAP_BACKOFF_MAX THEN 2 * e.secs ELSE BOOTSTRAP_BACKOFF_MAX
    IN  [secs |-> s, wait |-> s]

OnSuccess == [secs |-> BOOTSTRAP_BACKOFF_INITIAL, wait |-> BOOTSTRAP_BACKOFF_INITIAL]

(* Mutant: an address that failed once is given up. *)
EligibleOnce(b) == b \notin DOMAIN backoff

Eligible(b) == b \in DOMAIN backoff => backoff[b].wait = 0

(* The entries of the addresses in S become those of f. *)
Put(f, S) == [b \in DOMAIN backoff \cup S |-> IF b \in S THEN f[b] ELSE backoff[b]]

-----------------------------------------------------------------------------
(* Timers *)

(* The entries of pending after the tick, given the relays R whose dial    *)
(* fails at once: connected peers are dropped, entries that are not due    *)
(* stay, the rest are dialled if there is an address.                      *)
StillPending(R) ==
    {e \in pending : e.peer \notin Connected /\ e.wait > 0}
    \cup {[peer |-> e.peer, attempts |-> IF e.attempts < 2 THEN e.attempts + 1 ELSE 2,
           wait |-> RelayBackoff[IF e.peer \in R THEN 2 ELSE e.attempts]] :
             e \in {e \in pending : /\ e.peer \notin Connected /\ e.wait = 0
                                    /\ e.peer \in relayAddrs}}

RelayReconnectTick(R) ==
    /\ pending' = StillPending(R)
    /\ lost' = lost \ {e.peer : e \in {e \in pending : e.wait = 0 /\ e.peer \in relayAddrs}}
    /\ UNCHANGED <<conns, relayAddrs, backoff, redialing, up, dialFaults>>

(* swarm.dial refuses the addresses in R at once. *)
BootstrapReconnectTick(R) ==
    LET dialled == {b \in BootstrapPeers \ Connected : Eligible(b)} IN
    /\ R \subseteq dialled /\ dialFaults + Cardinality(R) <= MaxDialFaults
    /\ \A b \in dialled \ R : redialing[b] < MaxConnections
    /\ backoff' = Put([b \in R |-> OnFailure(EntryOf(b))], R)
    /\ redialing' = [b \in BootstrapPeers |-> IF b \in dialled \ R THEN redialing[b] + 1 ELSE redialing[b]]
    /\ dialFaults' = dialFaults + Cardinality(R)
    /\ UNCHANGED <<conns, relayAddrs, pending, up, lost>>

Pass(t) == IF t = 0 THEN 0 ELSE t - 1

Time ==
    /\ \/ \E b \in DOMAIN backoff : backoff[b].wait > 0
       \/ \E e \in pending : e.wait > 0
    /\ backoff' = [b \in DOMAIN backoff |-> [backoff[b] EXCEPT !.wait = Pass(@)]]
    /\ pending' = {[e EXCEPT !.wait = Pass(@)] : e \in pending}
    /\ UNCHANGED <<conns, relayAddrs, redialing, up, dialFaults, lost>>

-----------------------------------------------------------------------------
(* Connection events *)

(* ConnectionEstablished, through a dial of ours or from outside. *)
MeshPeerConnected(p) ==
    /\ p \in up /\ conns[p] < MaxConnections
    /\ conns' = [conns EXCEPT ![p] = @ + 1]
    /\ backoff' = IF p \in DOMAIN backoff THEN [backoff EXCEPT ![p] = OnSuccess] ELSE backoff
    /\ lost' = lost \ {p}
    /\ UNCHANGED <<relayAddrs, pending, up, dialFaults>>

DialSucceeds(b) ==
    /\ b \in BootstrapPeers /\ redialing[b] > 0
    /\ redialing' = [redialing EXCEPT ![b] = @ - 1]
    /\ MeshPeerConnected(b)

PeerConnects(p) ==
    /\ MeshPeerConnected(p)
    /\ UNCHANGED redialing

(* Identify: the first time a relay says it is one and has a routable      *)
(* address, a reservation is registered with it.                           *)
Identify(p) ==
    /\ p \in Relays \cap Connected /\ p \notin relayAddrs
    /\ relayAddrs' = relayAddrs \cup {p}
    /\ UNCHANGED <<conns, pending, backoff, redialing, up, dialFaults, lost>>
RelaysAfterClose(p) == relayAddrs \ {p}
(* A lost bootstrap peer gets a backoff entry, unless it has one. *)
SelfHeal(p) == IF p \in BootstrapPeers THEN Put([b \in {p} |-> EntryOf(p)], {p}) ELSE backoff

(* ConnectionClosed, which does not ask whether other connections with the *)
(* peer remain.                                                            *)
MeshPeerClosed(p) ==
    /\ conns[p] > 0
    /\ conns' = [conns EXCEPT ![p] = @ - 1]
    /\ relayAddrs' = RelaysAfterClose(p)
    /\ pending' = IF p \in relayAddrs
                  THEN pending \cup {[peer |-> p, attempts |-> 0, wait |-> 0]} ELSE pending
    /\ backoff' = SelfHeal(p)
    /\ lost' = IF p \in relayAddrs /\ conns[p] = 1 THEN lost \cup {p} ELSE lost
    /\ UNCHANGED <<redialing, up, dialFaults>>

(* A dial of a bootstrap peer fails, because the peer is unreachable or    *)
(* for once although it is not.                                            *)
OutgoingConnectionError(b) ==
    /\ b \in up => dialFaults < MaxDialFaults
    /\ dialFaults' = IF b \in up THEN dialFaults + 1 ELSE dialFaults
    /\ backoff' = Put([x \in {b} |-> OnFailure(EntryOf(b))], {b})
    /\ UNCHANGED <<conns, relayAddrs, pending, up, lost>>

DialFails(b) ==
    /\ redialing[b] > 0
    /\ redialing' = [redialing EXCEPT ![b] = @ - 1]
    /\ OutgoingConnectionError(b)

(* Other parts of the node (the DHT) dial the same peers. *)
OtherDialFails(b) ==
    /\ OutgoingConnectionError(b)
    /\ UNCHANGED redialing

NetworkChange(p) ==
    /\ up' = (up \ {p}) \cup ({p} \ up)
    /\ UNCHANGED <<conns, relayAddrs, pending, backoff, redialing, dialFaults, lost>>

-----------------------------------------------------------------------------

(* Every bootstrap address is dialled once at startup. *)
ReconnectInit ==
    /\ conns = [p \in MeshPeers |-> 0]
    /\ relayAddrs = {} /\ pending = {} /\ lost = {}
    /\ backoff = [b \in {} |-> NewEntry]
    /\ redialing = [b \in BootstrapPeers |-> 1]
    /\ up \in SUBSET MeshPeers
    /\ dialFaults = 0

ReconnectNext ==
    \/ \E R \in SUBSET Relays : RelayReconnectTick(R)
    \/ \E R \in SUBSET BootstrapPeers : BootstrapReconnectTick(R)
    \/ Time
    \/ \E b \in BootstrapPeers : DialSucceeds(b) \/ DialFails(b) \/ OtherDialFails(b)
    \/ \E p \in MeshPeers : \/ PeerConnects(p) \/ Identify(p) \/ MeshPeerClosed(p)
                        \/ NetworkChange(p)

ReconnectSpec == ReconnectInit /\ [][ReconnectNext]_reconnectVars

(* The timers of the event loop keep firing, time passes, and every dial   *)
(* ends, one way or the other.                                             *)
ReconnectFairness ==
    /\ WF_reconnectVars(RelayReconnectTick({}))
    /\ WF_reconnectVars(BootstrapReconnectTick({}))
    /\ WF_reconnectVars(Time)
    /\ \A b \in BootstrapPeers : WF_reconnectVars((DialSucceeds(b) \/ DialFails(b)))

ReconnectLiveSpec == ReconnectSpec /\ ReconnectFairness

-----------------------------------------------------------------------------

(* Types: waiting times within the backoff that set them. *)
ReconnectTypeOK ==
    /\ conns \in [MeshPeers -> 0..MaxConnections]
    /\ relayAddrs \subseteq Relays /\ lost \subseteq Relays
    /\ pending \subseteq Pending
    /\ DOMAIN backoff \subseteq BootstrapPeers
    /\ backoff \in [DOMAIN backoff -> [secs : Nat, wait : Nat]]
    /\ redialing \in [BootstrapPeers -> 0..MaxConnections]
    /\ up \subseteq MeshPeers /\ dialFaults \in 0..MaxDialFaults

(* Only peers that are connected at this moment are known relays, however  *)
(* many connections each has had and in whatever order they closed.        *)
(* (The redial of a lost relay looks for its address in the same table.)   *)
KnownRelaysConnected == relayAddrs \subseteq Connected

(* The backoff of a bootstrap address stays between its bounds, whatever   *)
(* failures and successes come together, and no address waits longer than  *)
(* its backoff.                                                            *)
BackoffBounded ==
    \A b \in DOMAIN backoff :
        /\ backoff[b].secs \in BOOTSTRAP_BACKOFF_INITIAL..BOOTSTRAP_BACKOFF_MAX
        /\ backoff[b].wait <= backoff[b].secs

(* A bootstrap peer that is reachable from some time on is connected again *)
(* and again, however long its backoff had become.                         *)
BootstrapRecovered ==
    \A b \in BootstrapPeers : <>[](b \in up) => []<>(b \in Connected)

(* What the comment on ConnectionClosed says of a known relay: a reconnect *)
(* is scheduled, so it is dialled again unless it connects by itself.      *)
LostRelayRedialled == \A r \in Relays : r \in lost ~> r \notin lost
=============================================================================
