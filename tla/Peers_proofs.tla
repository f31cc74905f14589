---------------------------- MODULE Peers_proofs ----------------------------
(***************************************************************************)
(* Proofs about what a node keeps of its connections, for any peers,       *)
(* addresses, circuits, ports and bounds: the connections and backoffs of  *)
(* Reconnect, the connections of the swarm and its ports                   *)
(* (SwarmConnections), the peripherals a BLE central follows (BleLink),    *)
(* and the routes, reports and times to live of RoutingRoutes.             *)
(***************************************************************************)
EXTENDS Reconnect, SwarmConnections, BleLink, RoutingRoutes,
        FiniteSetTheorems, SequenceTheorems, WellFoundedInduction, TLAPS

(* What every step keeps. *)
ReconnectInv == ReconnectTypeOK /\ KnownRelaysConnected /\ BackoffBounded

(* An entry of the table of backoffs.                                      *)
Entry == [secs : BOOTSTRAP_BACKOFF_INITIAL..BOOTSTRAP_BACKOFF_MAX, wait : Nat]

(* An entry between the bounds that does not wait longer than its backoff. *)
GoodEntry(e) == e \in Entry /\ e.wait <= e.secs

(* The table of backoffs is what the invariant says exactly when all of    *)
(* its entries are good.                                                   *)
LEMMA GoodTable ==
    (DOMAIN backoff \subseteq BootstrapPeers
        /\ backoff \in [DOMAIN backoff -> [secs : Nat, wait : Nat]] /\ BackoffBounded)
    <=> (DOMAIN backoff \subseteq BootstrapPeers
        /\ backoff = [b \in DOMAIN backoff |-> backoff[b]]
        /\ \A b \in DOMAIN backoff : GoodEntry(backoff[b]))
  BY ReconnectAssumption DEF BackoffBounded, GoodEntry, Entry

(* new, on_failure and on_success of BootstrapBackoffEntry return good     *)
(* entries.                                                                *)
LEMMA EntriesGood ==
    /\ GoodEntry(NewEntry) /\ GoodEntry(OnSuccess)
    /\ \A e : GoodEntry(e) => GoodEntry(OnFailure(e))
  <1>1. GoodEntry(NewEntry) /\ GoodEntry(OnSuccess)
    BY ReconnectAssumption DEF GoodEntry, Entry, NewEntry, OnSuccess
  <1>2. ASSUME NEW e, GoodEntry(e)
        PROVE  GoodEntry(OnFailure(e))
    BY <1>2, ReconnectAssumption DEF GoodEntry, Entry, OnFailure
  <1> QED
    BY <1>1, <1>2, Zenon

(* Writing good entries for bootstrap addresses keeps the table good.      *)
LEMMA PutGood ==
    ASSUME ReconnectInv, NEW S \in SUBSET BootstrapPeers, NEW f, backoff' = Put(f, S),
           \A b \in S : GoodEntry(f[b])
    PROVE  /\ DOMAIN backoff' \subseteq BootstrapPeers
           /\ backoff' \in [DOMAIN backoff' -> [secs : Nat, wait : Nat]]
           /\ BackoffBounded'
  <1>1. \A b \in DOMAIN backoff : GoodEntry(backoff[b])
    BY GoodTable, Zenon DEF ReconnectInv, ReconnectTypeOK
  <1>2. /\ DOMAIN backoff' = DOMAIN backoff \cup S
        /\ \A b \in DOMAIN backoff' : GoodEntry(backoff'[b])
    BY <1>1, Zenon DEF Put
  <1>3. backoff' = [b \in DOMAIN backoff' |-> backoff'[b]]
    BY Zenon DEF Put
  <1>4. DOMAIN backoff' \subseteq BootstrapPeers
    BY <1>2, Zenon DEF ReconnectInv, ReconnectTypeOK
  <1> QED
    BY <1>2, <1>3, <1>4, ReconnectAssumption DEF GoodEntry, Entry, BackoffBounded

(* The entry a failure or a lost connection starts from is good.           *)
LEMMA EntryOfGood ==
    ASSUME ReconnectInv
    PROVE  \A b \in BootstrapPeers : GoodEntry(EntryOf(b))
  BY GoodTable, EntriesGood, Zenon DEF ReconnectInv, ReconnectTypeOK, EntryOf

(* At startup nothing is connected and no address has failed.              *)
LEMMA ReconnectStart ==
    ReconnectInit => ReconnectInv
  BY ReconnectAssumption DEF ReconnectInit, ReconnectInv, ReconnectTypeOK, KnownRelaysConnected,
     BackoffBounded, Connected

(* A connection, whoever opened it, keeps the invariant.                   *)
LEMMA EstablishedKeeps ==
    ASSUME ReconnectInv, NEW p \in MeshPeers, MeshPeerConnected(p),
           redialing' \in [BootstrapPeers -> 0..MaxConnections]
    PROVE  ReconnectInv'
  <1> USE DEF ReconnectInv
  <1>1. /\ DOMAIN backoff' \subseteq BootstrapPeers
        /\ backoff' \in [DOMAIN backoff' -> [secs : Nat, wait : Nat]]
        /\ BackoffBounded'
    <2>1. CASE p \in DOMAIN backoff
      <3>1. backoff' = Put([b \in {p} |-> OnSuccess], {p})
        BY <2>1, Zenon DEF MeshPeerConnected, Put, ReconnectTypeOK
      <3>2. p \in BootstrapPeers
        BY <2>1, Zenon DEF ReconnectTypeOK
      <3> QED
        BY <3>1, <3>2, PutGood, EntriesGood
    <2>2. CASE p \notin DOMAIN backoff
      BY <2>2, Zenon DEF MeshPeerConnected, ReconnectTypeOK, BackoffBounded
    <2> QED
      BY <2>1, <2>2, Zenon
  <1>2. /\ conns' \in [MeshPeers -> 0..MaxConnections]
        /\ Connected \subseteq Connected'
    BY ReconnectAssumption DEF MeshPeerConnected, ReconnectTypeOK, Connected
  <1>3. KnownRelaysConnected'
    BY <1>2, Zenon DEF MeshPeerConnected, KnownRelaysConnected
  <1>4. lost' \subseteq Relays
    BY Zenon DEF MeshPeerConnected, ReconnectTypeOK
  <1> QED
    BY <1>1, <1>2, <1>3, <1>4, Zenon DEF MeshPeerConnected, ReconnectTypeOK

(* A failed dial keeps the invariant.                                      *)
LEMMA ErrorKeeps ==
    ASSUME ReconnectInv, NEW b \in BootstrapPeers, OutgoingConnectionError(b),
           redialing' \in [BootstrapPeers -> 0..MaxConnections]
    PROVE  ReconnectInv'
  <1> USE DEF ReconnectInv
  <1> DEFINE f == [x \in {b} |-> OnFailure(EntryOf(b))]
  <1>1. GoodEntry(f[b])
    BY EntryOfGood, EntriesGood, Zenon
  <1>2. backoff' = Put(f, {b})
    BY Zenon DEF OutgoingConnectionError
  <1> HIDE DEF f
  <1>3. /\ DOMAIN backoff' \subseteq BootstrapPeers
        /\ backoff' \in [DOMAIN backoff' -> [secs : Nat, wait : Nat]]
        /\ BackoffBounded'
    BY <1>1, <1>2, PutGood
  <1>4. dialFaults' \in 0..MaxDialFaults
    BY ReconnectAssumption DEF OutgoingConnectionError, ReconnectTypeOK
  <1>5. KnownRelaysConnected'
    BY Zenon DEF OutgoingConnectionError, KnownRelaysConnected, Connected
  <1> QED
    BY <1>3, <1>4, <1>5, Zenon DEF OutgoingConnectionError, ReconnectTypeOK

(* A connection that closes, the last one with its peer or not, keeps the  *)
(* invariant: the relay is forgotten either way.                           *)
LEMMA ClosedKeeps ==
    ASSUME ReconnectInv, NEW p \in MeshPeers, MeshPeerClosed(p)
    PROVE  ReconnectInv'
  <1> USE DEF ReconnectInv
  <1>1. /\ DOMAIN backoff' \subseteq BootstrapPeers
        /\ backoff' \in [DOMAIN backoff' -> [secs : Nat, wait : Nat]]
        /\ BackoffBounded'
    <2>1. CASE p \in BootstrapPeers
      <3> DEFINE f == [b \in {p} |-> EntryOf(p)]
      <3>1. GoodEntry(f[p])
        BY <2>1, EntryOfGood, Zenon
      <3>2. backoff' = Put(f, {p})
        BY <2>1, Zenon DEF MeshPeerClosed, SelfHeal
      <3> HIDE DEF f
      <3> QED
        BY <2>1, <3>1, <3>2, PutGood
    <2>2. CASE p \notin BootstrapPeers
      BY <2>2, Zenon DEF MeshPeerClosed, SelfHeal, ReconnectTypeOK, BackoffBounded
    <2> QED
      BY <2>1, <2>2, Zenon
  <1>2. /\ conns' \in [MeshPeers -> 0..MaxConnections]
        /\ Connected \ {p} \subseteq Connected'
    BY ReconnectAssumption DEF MeshPeerClosed, ReconnectTypeOK, Connected
  <1>3. KnownRelaysConnected'
    BY <1>2, Zenon DEF MeshPeerClosed, RelaysAfterClose, KnownRelaysConnected
  <1>4. pending' \subseteq Pending /\ lost' \subseteq Relays
    BY DEF MeshPeerClosed, ReconnectTypeOK, Pending
  <1> QED
    BY <1>1, <1>2, <1>3, <1>4, Zenon DEF MeshPeerClosed, RelaysAfterClose, ReconnectTypeOK

(* The bootstrap tick keeps the invariant, whichever dials fail at once.   *)
LEMMA BootstrapTickKeeps ==
    ASSUME ReconnectInv, NEW R \in SUBSET BootstrapPeers, BootstrapReconnectTick(R)
    PROVE  ReconnectInv'
  <1> USE DEF ReconnectInv
  <1> DEFINE f == [b \in R |-> OnFailure(EntryOf(b))]
  <1>1. \A b \in R : GoodEntry(f[b])
    BY EntryOfGood, EntriesGood, Zenon
  <1>2. backoff' = Put(f, R)
    BY Zenon DEF BootstrapReconnectTick
  <1> HIDE DEF f
  <1>3. /\ DOMAIN backoff' \subseteq BootstrapPeers
        /\ backoff' \in [DOMAIN backoff' -> [secs : Nat, wait : Nat]]
        /\ BackoffBounded'
    BY <1>1, <1>2, PutGood, Zenon
  <1>4. Cardinality(R) \in Nat
    BY ReconnectAssumption, FS_Subset, FS_CardinalityType, Zenon
  <1>5. dialFaults' \in 0..MaxDialFaults
    BY <1>4, ReconnectAssumption DEF BootstrapReconnectTick, ReconnectTypeOK
  <1>6. redialing' \in [BootstrapPeers -> 0..MaxConnections]
    BY ReconnectAssumption DEF BootstrapReconnectTick, ReconnectTypeOK
  <1>7. KnownRelaysConnected'
    BY Zenon DEF BootstrapReconnectTick, KnownRelaysConnected, Connected
  <1> QED
    BY <1>3, <1>5, <1>6, <1>7, Zenon DEF BootstrapReconnectTick, ReconnectTypeOK

(* So does the relay tick.                                                 *)
LEMMA RelayTickKeeps ==
    ASSUME ReconnectInv, NEW R \in SUBSET Relays, RelayReconnectTick(R)
    PROVE  ReconnectInv'
  <1> USE DEF ReconnectInv
  <1>1. pending' \subseteq Pending
    <2>1. ASSUME NEW e \in Pending
          PROVE  [peer |-> e.peer, attempts |-> IF e.attempts < 2 THEN e.attempts + 1 ELSE 2,
                  wait |-> RelayBackoff[IF e.peer \in R THEN 2 ELSE e.attempts]] \in Pending
      BY ReconnectAssumption DEF Pending
    <2> QED
      BY <2>1, Zenon DEF RelayReconnectTick, StillPending, ReconnectTypeOK
  <1>2. KnownRelaysConnected' /\ BackoffBounded'
    BY Zenon DEF RelayReconnectTick, KnownRelaysConnected, Connected, BackoffBounded
  <1> QED
    BY <1>1, <1>2, Zenon DEF RelayReconnectTick, ReconnectTypeOK

(* And the passing of time.                                                *)
LEMMA TimeKeeps ==
    ASSUME ReconnectInv, Time
    PROVE  ReconnectInv'
  <1> USE DEF ReconnectInv
  <1>1. \A t \in Nat : Pass(t) \in Nat /\ Pass(t) <= t
    BY DEF Pass
  <1>2. pending' \subseteq Pending
    BY <1>1 DEF Time, ReconnectTypeOK, Pending
  <1>3. /\ DOMAIN backoff' = DOMAIN backoff
        /\ \A b \in DOMAIN backoff : backoff'[b] = [backoff[b] EXCEPT !.wait = Pass(@)]
    BY Zenon DEF Time
  <1>4. /\ backoff' \in [DOMAIN backoff' -> [secs : Nat, wait : Nat]]
        /\ BackoffBounded'
    BY <1>1, <1>3, ReconnectAssumption DEF Time, ReconnectTypeOK, BackoffBounded
  <1>5. KnownRelaysConnected'
    BY Zenon DEF Time, KnownRelaysConnected, Connected
  <1> QED
    BY <1>2, <1>3, <1>4, <1>5, Zenon DEF Time, ReconnectTypeOK

(* Every step keeps the invariant.                                         *)
LEMMA ReconnectStep ==
    ReconnectInv /\ [ReconnectNext]_reconnectVars => ReconnectInv'
  <1> SUFFICES ASSUME ReconnectInv, [ReconnectNext]_reconnectVars
               PROVE  ReconnectInv'
    BY Zenon
  <1>1. ASSUME NEW R \in SUBSET Relays, RelayReconnectTick(R)
        PROVE  ReconnectInv'
    BY <1>1, RelayTickKeeps, Zenon
  <1>2. ASSUME NEW R \in SUBSET BootstrapPeers, BootstrapReconnectTick(R)
        PROVE  ReconnectInv'
    BY <1>2, BootstrapTickKeeps, Zenon
  <1>3. CASE Time
    BY <1>3, TimeKeeps, Zenon
  <1>4. ASSUME NEW b \in BootstrapPeers, DialSucceeds(b)
        PROVE  ReconnectInv'
    <2>1. redialing' \in [BootstrapPeers -> 0..MaxConnections]
      BY <1>4, ReconnectAssumption DEF DialSucceeds, ReconnectInv, ReconnectTypeOK
    <2>2. b \in MeshPeers /\ MeshPeerConnected(b)
      BY <1>4, ReconnectAssumption, Zenon DEF DialSucceeds
    <2> QED
      BY <2>1, <2>2, EstablishedKeeps, Zenon
  <1>5. ASSUME NEW b \in BootstrapPeers, DialFails(b)
        PROVE  ReconnectInv'
    <2>1. redialing' \in [BootstrapPeers -> 0..MaxConnections]
      BY <1>5, ReconnectAssumption DEF DialFails, ReconnectInv, ReconnectTypeOK
    <2> QED
      BY <1>5, <2>1, ErrorKeeps, Zenon DEF DialFails
  <1>6. ASSUME NEW b \in BootstrapPeers, OtherDialFails(b)
        PROVE  ReconnectInv'
    BY <1>6, ErrorKeeps, Zenon DEF OtherDialFails, ReconnectInv, ReconnectTypeOK
  <1>7. ASSUME NEW p \in MeshPeers, PeerConnects(p)
        PROVE  ReconnectInv'
    BY <1>7, EstablishedKeeps, Zenon DEF PeerConnects, ReconnectInv, ReconnectTypeOK
  <1>8. ASSUME NEW p \in MeshPeers, Identify(p)
        PROVE  ReconnectInv'
    BY <1>8, Zenon DEF Identify, ReconnectInv, ReconnectTypeOK, KnownRelaysConnected, Connected,
       BackoffBounded
  <1>9. ASSUME NEW p \in MeshPeers, MeshPeerClosed(p)
        PROVE  ReconnectInv'
    BY <1>9, ClosedKeeps, Zenon
  <1>10. ASSUME NEW p \in MeshPeers, NetworkChange(p)
         PROVE  ReconnectInv'
    BY <1>10, Zenon DEF NetworkChange, ReconnectInv, ReconnectTypeOK, KnownRelaysConnected, Connected,
       BackoffBounded
  <1>11. CASE UNCHANGED reconnectVars
    BY <1>11, Zenon DEF reconnectVars, ReconnectInv, ReconnectTypeOK, KnownRelaysConnected, Connected,
       BackoffBounded
  <1> QED
    BY <1>1, <1>2, <1>3, <1>4, <1>5, <1>6, <1>7, <1>8, <1>9, <1>10, <1>11, Zenon DEF ReconnectNext

(* A known relay is connected: relay_peer_addrs never names a peer whose   *)
(* last connection closed, however connections overlapped.                 *)
THEOREM KnownRelaysAreConnected ==
    ReconnectSpec => []KnownRelaysConnected
  <1>1. ReconnectSpec => []ReconnectInv
    BY ReconnectStart, ReconnectStep, PTL DEF ReconnectSpec
  <1> QED
    BY <1>1, PTL DEF ReconnectInv

(* Backoffs stay between their bounds and no address waits longer.         *)
THEOREM BackoffStaysBounded ==
    ReconnectSpec => [](ReconnectTypeOK /\ BackoffBounded)
  <1>1. ReconnectSpec => []ReconnectInv
    BY ReconnectStart, ReconnectStep, PTL DEF ReconnectSpec
  <1> QED
    BY <1>1, PTL DEF ReconnectInv

(* The relay tick dials nobody: a pending relay that is due and not        *)
(* connected has no address, so its entry is dropped without a dial.       *)
THEOREM RelayTickDialsNobody ==
    ReconnectSpec => [][\A R \in SUBSET Relays : RelayReconnectTick(R) =>
                  pending' = {e \in pending : e.peer \notin Connected /\ e.wait > 0}]_reconnectVars
  <1>1. ReconnectInv /\ [ReconnectNext]_reconnectVars =>
           [\A R \in SUBSET Relays : RelayReconnectTick(R) =>
                pending' = {e \in pending : e.peer \notin Connected /\ e.wait > 0}]_reconnectVars
    BY Zenon DEF ReconnectInv, KnownRelaysConnected, RelayReconnectTick, StillPending
  <1>2. ReconnectSpec => []ReconnectInv
    BY ReconnectStart, ReconnectStep, PTL DEF ReconnectSpec
  <1> QED
    BY <1>1, <1>2, PTL DEF ReconnectSpec

-----------------------------------------------------------------------------
(* The connections of the swarm and its ports. *)

(* What the event loop keeps about peers.                                  *)
PeersKept ==
    /\ \A p \in Linked \ excused : p \in appPeers /\ p \in broadcasting /\ p \in trackedConns
    /\ reportedTo \ excused \subseteq appPeers
    /\ trackedConns \cup broadcasting \cup infoReported \subseteq Linked

(* What the swarm keeps: the connections are counted, and the circuits and *)
(* the peers are accounted for.                                            *)
ConnInv ==
    /\ links \in [NetPeers -> Nat]
    /\ CircuitsAccounted
    /\ PeersKept

(* A node starts with no connections.                                      *)
LEMMA ConnInitially == ConnInit => ConnInv
<1> SUFFICES ASSUME ConnInit PROVE ConnInv
  BY Zenon
<1>1. links \in [NetPeers -> Nat] /\ Linked = {}
  BY DEF ConnInit, Linked
<1>2. DOMAIN circuits = {} /\ circuitsOpen = {}
  BY Zenon DEF ConnInit, Empty
<1> QED
  BY <1>1, <1>2, Zenon DEF ConnInit, ConnInv, CircuitsAccounted, PeersKept

(* ConnectionEstablished keeps what is known of the peers.                 *)
LEMMA LinkEstablishedKeeps ==
    ASSUME ConnInv, NEW p \in NetPeers, LinkEstablished(p)
    PROVE  ConnInv'
<1>1. links' = [links EXCEPT ![p] = @ + 1] /\ links \in [NetPeers -> Nat]
  BY Zenon DEF LinkEstablished, ConnInv
<1>2. links' \in [NetPeers -> Nat] /\ Linked' = Linked \cup {p}
  BY <1>1 DEF Linked
<1>3. CircuitsAccounted'
  BY <1>2, Zenon DEF LinkEstablished, ConnInv, CircuitsAccounted
<1>4. PeersKept'
  BY <1>2, Zenon DEF LinkEstablished, ReportDiscovered, ConnInv, PeersKept
<1> QED
  BY <1>2, <1>3, <1>4, Zenon DEF ConnInv

(* ConnectionClosed forgets a peer only with its last connection.          *)
LEMMA LinkClosedKeeps ==
    ASSUME ConnInv, NEW p \in NetPeers, LinkClosed(p)
    PROVE  ConnInv'
<1>1. links' = [links EXCEPT ![p] = @ - 1] /\ links \in [NetPeers -> Nat] /\ links[p] > 0
  BY Zenon DEF LinkClosed, ConnInv
<1>2. /\ links' \in [NetPeers -> Nat]
      /\ Linked \ {p} \subseteq Linked' /\ Linked' \subseteq Linked
      /\ links[p] <= 1 => p \notin Linked'
  BY <1>1 DEF Linked
<1>3. CircuitsAccounted'
  <2>1. /\ DOMAIN circuits' = DOMAIN circuits \ {p}
        /\ \A q \in DOMAIN circuits' : circuits'[q] = circuits[q]
    BY Zenon DEF LinkClosed, Restrict
  <2>2. ASSUME NEW c \in circuitsOpen'
        PROVE  c[2] \in DOMAIN circuits' /\ circuits'[c[2]] = c[1]
    <3>1. /\ c \in circuitsOpen
          /\ p \notin DOMAIN circuits \/ c[1] # circuits[p]
      BY <2>2, Zenon DEF LinkClosed
    <3>2. c[2] \in DOMAIN circuits /\ circuits[c[2]] = c[1]
      BY <3>1, Zenon DEF ConnInv, CircuitsAccounted
    <3> QED
      BY <2>1, <3>1, <3>2, Zenon
  <2>3. DOMAIN circuits \subseteq Linked
    BY Zenon DEF ConnInv, CircuitsAccounted
  <2> QED
    BY <1>2, <2>1, <2>2, <2>3, Zenon DEF CircuitsAccounted
<1>4. PeersKept'
  <2>1. /\ trackedConns' = trackedConns \ {p} /\ reportedTo' = reportedTo \ {p}
        /\ infoReported' = infoReported \ {p} /\ broadcasting' = broadcasting \ {p}
        /\ appPeers' = appPeers \ {p}
        /\ excused' = IF links[p] > 1 THEN excused \cup {p} ELSE excused \ {p}
    BY Zenon DEF LinkClosed
  <2>2. p \in excused' \/ p \notin Linked'
    BY <1>1, <1>2, <2>1
  <2>3. excused \ {p} \subseteq excused'
    BY <2>1, Zenon
  <2> QED
    BY <1>2, <2>1, <2>2, <2>3, Zenon DEF ConnInv, PeersKept
<1> QED
  BY <1>2, <1>3, <1>4, Zenon DEF ConnInv

(* Discovery and its end keep what is known of the peers.                  *)
LEMMA DiscoveryKeeps ==
    ASSUME ConnInv, NEW p \in NetPeers,
           MdnsDiscovered(p) \/ MdnsExpired(p) \/ DcutrSucceeded(p)
    PROVE  ConnInv'
<1>1. UNCHANGED <<links, trackedConns, broadcasting, infoReported, circuits, circuitsOpen>>
  BY Zenon DEF MdnsDiscovered, MdnsExpired, DcutrSucceeded
<1>2. Linked' = Linked
  BY <1>1, Zenon DEF Linked
<1>3. PeersKept'
  BY <1>1, <1>2, Zenon DEF MdnsDiscovered, MdnsExpired, DcutrSucceeded, ReportDiscovered, ConnInv,
     PeersKept
<1> QED
  BY <1>1, <1>2, <1>3, Zenon DEF ConnInv, CircuitsAccounted

(* Identify keeps what is known of the peers.                              *)
LEMMA IdentifyKeeps ==
    ASSUME ConnInv, NEW p \in NetPeers, NEW a, NEW r \in BOOLEAN, IdentifyReceived(p, a, r)
    PROVE  ConnInv'
<1>1. UNCHANGED <<links, trackedConns, broadcasting, reportedTo, appPeers, excused>>
  BY Zenon DEF IdentifyReceived
<1>2. Linked' = Linked /\ p \in Linked /\ infoReported' = infoReported \cup {p}
  BY <1>1, Zenon DEF IdentifyReceived, Linked
<1>3. PeersKept'
  BY <1>1, <1>2, Zenon DEF ConnInv, PeersKept
<1>4. CircuitsAccounted'
  <2>1. CASE UNCHANGED <<circuits, circuitsOpen>>
    BY <1>2, <2>1, Zenon DEF ConnInv, CircuitsAccounted
  <2>2. CASE ~UNCHANGED <<circuits, circuitsOpen>>
    <3>1. /\ p \notin DOMAIN circuits
          /\ circuits' = [q \in DOMAIN circuits \cup {p} |->
                             IF q = p THEN listenersMade + 1 ELSE circuits[q]]
          /\ circuitsOpen' = circuitsOpen \cup {<<listenersMade + 1, p>>}
      BY <2>2, Zenon DEF IdentifyReceived, Reserve
    <3>2. /\ DOMAIN circuits' = DOMAIN circuits \cup {p} /\ circuits'[p] = listenersMade + 1
          /\ \A q \in DOMAIN circuits : circuits'[q] = circuits[q]
      BY <3>1, Zenon
    <3>3. ASSUME NEW c \in circuitsOpen'
          PROVE  c[2] \in DOMAIN circuits' /\ circuits'[c[2]] = c[1]
      <4>1. CASE c \in circuitsOpen
        BY <3>2, <4>1, Zenon DEF ConnInv, CircuitsAccounted
      <4>2. CASE c = <<listenersMade + 1, p>>
        BY <3>2, <4>2, Zenon
      <4> QED
        BY <3>1, <3>3, <4>1, <4>2, Zenon
    <3> QED
      BY <1>2, <3>2, <3>3, Zenon DEF ConnInv, CircuitsAccounted
  <2> QED
    BY <2>1, <2>2, Zenon
<1> QED
  BY <1>1, <1>3, <1>4, Zenon DEF ConnInv

(* Every event of the swarm keeps the connections accounted for.           *)
LEMMA ConnKept ==
    ASSUME ConnInv, [ConnNext]_connVars
    PROVE  ConnInv'
<1>1. CASE /\ UNCHANGED <<links, trackedConns, broadcasting, reportedTo, infoReported, circuits>>
           /\ UNCHANGED <<appPeers, excused>>
           /\ circuitsOpen' \subseteq circuitsOpen
  <2>1. Linked' = Linked
    BY <1>1, Zenon DEF Linked
  <2> QED
    BY <1>1, <2>1, Zenon DEF ConnInv, CircuitsAccounted, PeersKept
<1>2. CASE ConnShutdown
  <2>1. links' \in [NetPeers -> Nat] /\ Linked' = {}
    BY <1>2 DEF ConnShutdown, Linked
  <2>2. DOMAIN circuits' = {} /\ circuitsOpen' = {}
    BY <1>2, Zenon DEF ConnShutdown, Empty
  <2> QED
    BY <1>2, <2>1, <2>2, Zenon DEF ConnShutdown, ConnInv, CircuitsAccounted, PeersKept
<1>3. ASSUME NEW b \in BindResults, ConnStartSwarm(b) PROVE ConnInv'
  BY <1>1, <1>3, Zenon DEF ConnStartSwarm
<1>4. ASSUME NEW p \in NetPeers, IdentifyLogAges(p) \/ AskReflection(p) PROVE ConnInv'
  BY <1>1, <1>4, Zenon DEF IdentifyLogAges, AskReflection
<1>5. ASSUME NEW p \in NetPeers, NEW a, ReflectionAnswered(p, a) PROVE ConnInv'
  BY <1>1, <1>5, Zenon DEF ReflectionAnswered
<1>6. ASSUME NEW c \in circuitsOpen, CircuitListenerCloses(c) PROVE ConnInv'
  BY <1>1, <1>6, Zenon DEF CircuitListenerCloses
<1>7. ASSUME NEW a, UpnpMapped(a) PROVE ConnInv'
  BY <1>1, <1>7, Zenon DEF UpnpMapped
<1>8. ASSUME NEW t, TopicSubscribed(t) \/ UnsubscribeTopic(t) PROVE ConnInv'
  BY <1>1, <1>8, Zenon DEF TopicSubscribed, UnsubscribeTopic
<1>9. CASE UNCHANGED connVars
  BY <1>1, <1>9, Zenon DEF connVars
<1> QED
  BY <1>2, <1>3, <1>4, <1>5, <1>6, <1>7, <1>8, <1>9, LinkEstablishedKeeps, LinkClosedKeeps,
     DiscoveryKeeps, IdentifyKeeps, Zenon DEF ConnNext

(* The invariant holds what is said of circuits and peers.                 *)
LEMMA ConnInvImplies == ConnInv => CircuitsAccounted /\ ConnectedPeersKnown
  BY Zenon DEF ConnInv, PeersKept, ConnectedPeersKnown, ReflectionAnswer, Unspecified

-----------------------------------------------------------------------------
(* What a bind came to.                                                    *)
BindKinds == {"ok", "permission", "in use", "other"}
BindResult == [port : Nat, result : BindKinds]

(* Every result is that of the address tried at its place.                 *)
PortsInv ==
    LET addresses == GenerateListenAddresses(portConfig)
    IN  /\ portConfig \in PortConfigs
        /\ bindResults \in Seq(BindResult)
        /\ Len(bindResults) <= Len(addresses)
        /\ \A i \in 1 .. Len(bindResults) : bindResults[i].port = addresses[i].port
        /\ analysis # "binding" =>
              Len(bindResults) = Len(addresses) /\ analysis = AnalyzeBindResults

(* A configuration has at most two address families, and one if it names   *)
(* any.                                                                    *)
LEMMA FamiliesInOrder ==
    ASSUME NEW config \in PortConfigs
    PROVE  /\ Len(FamiliesOf(config)) \in 0..2
           /\ config.families # {} => Len(FamiliesOf(config)) > 0
  BY DEF FamiliesOf, PortConfigs

(* The ports tried are numbers, the one the system chooses last.           *)
LEMMA PortsAreNumbers ==
    ASSUME NEW config \in PortConfigs
    PROVE  /\ PortsOf(config) \in Seq(Nat)
           /\ config.random => /\ Len(PortsOf(config)) > 0
                               /\ PortsOf(config)[Len(PortsOf(config))] = 0
<1> DEFINE front == (IF config.common THEN COMMON_PORTS ELSE <<>>) \o config.additional
           last == IF config.random THEN <<0>> ELSE <<>>
<1>1. front \in Seq(Nat) /\ last \in Seq(Nat) /\ PortsOf(config) = front \o last
  BY ConnAssumption DEF PortsOf, PortConfigs
<1>2. config.random => last = <<0>>
  BY Zenon
<1> HIDE DEF front, last
<1>3. ASSUME config.random
      PROVE  Len(front \o last) > 0 /\ (front \o last)[Len(front \o last)] = 0
  <2>1. last = <<0>> /\ Len(last) = 1 /\ last[1] = 0 /\ Len(front) \in Nat
    BY <1>1, <1>2, <1>3, LenProperties
  <2>2. Len(front \o last) = Len(front) + 1 /\ (front \o last)[Len(front) + 1] = last[1]
    BY <1>1, <2>1, ConcatProperties
  <2> QED
    BY <2>1, <2>2
<1> QED
  BY <1>1, <1>3, ConcatProperties, Zenon

(* The addresses tried are those of the ports, and the last is for the     *)
(* system to choose when the configuration asks for that.                  *)
LEMMA AddressesOfPorts ==
    ASSUME NEW config \in PortConfigs
    PROVE  LET addresses == GenerateListenAddresses(config) IN
           /\ Len(addresses) \in Nat
           /\ \A i \in 1 .. Len(addresses) : addresses[i].port \in Nat
           /\ config.random /\ config.families # {} =>
                 Len(addresses) > 0 /\ addresses[Len(addresses)].port = 0
<1> DEFINE ports == PortsOf(config)
           fams == FamiliesOf(config)
           n == Len(fams)
           addresses == GenerateListenAddresses(config)
<1>1. ports \in Seq(Nat) /\ n \in 0..2 /\ Len(ports) \in Nat
  BY FamiliesInOrder, PortsAreNumbers
<1>2. addresses = [i \in 1 .. Len(ports) * n |->
                     [family |-> fams[((i - 1) % n) + 1], port |-> ports[((i - 1) \div n) + 1]]]
  BY Zenon DEF GenerateListenAddresses
<1>3. config.random => Len(ports) > 0 /\ ports[Len(ports)] = 0
  BY PortsAreNumbers, Zenon
<1>4. config.families # {} => n > 0
  BY FamiliesInOrder, Zenon
<1> HIDE DEF ports, n, addresses
<1>5. Len(ports) * n \in Nat
  BY <1>1
<1>6. Len(addresses) = Len(ports) * n
      /\ \A i \in 1 .. Len(ports) * n : addresses[i].port = ports[((i - 1) \div n) + 1]
  BY <1>2, <1>5
<1>7. ASSUME NEW i \in 1 .. Len(ports) * n PROVE ports[((i - 1) \div n) + 1] \in Nat
  <2>1. n = 1 \/ n = 2
    BY <1>1, <1>7
  <2>2. ((i - 1) \div n) + 1 \in 1 .. Len(ports)
    <3>1. CASE n = 1
      BY <1>1, <1>7, <3>1
    <3>2. CASE n = 2
      BY <1>1, <1>7, <3>2
    <3> QED
      BY <2>1, <3>1, <3>2, Zenon
  <2> QED
    BY <1>1, <2>2
<1>8. ASSUME config.random, config.families # {}
      PROVE  Len(addresses) > 0 /\ addresses[Len(addresses)].port = 0
  <2>1. n = 1 \/ n = 2
    BY <1>1, <1>4, <1>8
  <2>2. /\ Len(ports) * n > 0
        /\ ((Len(ports) * n - 1) \div n) + 1 = Len(ports)
    <3>1. CASE n = 1
      BY <1>1, <1>3, <1>8, <3>1
    <3>2. CASE n = 2
      BY <1>1, <1>3, <1>8, <3>2
    <3> QED
      BY <2>1, <3>1, <3>2, Zenon
  <2> QED
    BY <1>3, <1>5, <1>6, <1>8, <2>2
<1> QED
  BY <1>5, <1>6, <1>7, <1>8, Zenon DEF addresses

(* Nothing is bound at first.                                              *)
LEMMA PortsInitially == PortsInit => PortsInv
  BY AddressesOfPorts DEF PortsInit, PortsInv

(* Every bind keeps the results in the order of the addresses.             *)
LEMMA PortsKept ==
    ASSUME PortsInv, [PortsNext]_portVars
    PROVE  PortsInv'
<1> DEFINE addresses == GenerateListenAddresses(portConfig)
<1>0. /\ portConfig \in PortConfigs
      /\ bindResults \in Seq(BindResult)
      /\ Len(bindResults) <= Len(addresses)
      /\ \A i \in 1 .. Len(bindResults) : bindResults[i].port = addresses[i].port
      /\ Len(addresses) \in Nat
      /\ \A i \in 1 .. Len(addresses) : addresses[i].port \in Nat
  BY AddressesOfPorts, Zenon DEF PortsInv
<1>1. ASSUME NEW r \in BindKinds, BindNext(r) PROVE PortsInv'
  <2> DEFINE entry == [port |-> addresses[Len(bindResults) + 1].port, result |-> r]
  <2>1. /\ Len(bindResults) < Len(addresses) /\ bindResults' = Append(bindResults, entry)
        /\ portConfig' = portConfig /\ analysis' = "binding"
    BY <1>1, Zenon DEF BindNext
  <2>2. addresses' = addresses
    BY <2>1, Zenon DEF GenerateListenAddresses, PortsOf, FamiliesOf
  <2> HIDE DEF addresses
  <2>3. entry \in BindResult
    <3>1. Len(bindResults) + 1 \in 1 .. Len(addresses)
      BY <1>0, <2>1, LenProperties
    <3> QED
      BY <1>0, <3>1, Zenon DEF BindResult
  <2>4. entry.port = addresses[Len(bindResults) + 1].port
    BY Zenon
  <2> HIDE DEF entry
  <2>5. /\ bindResults' \in Seq(BindResult)
        /\ Len(bindResults') = Len(bindResults) + 1
        /\ bindResults'[Len(bindResults) + 1] = entry
        /\ \A i \in 1 .. Len(bindResults) : bindResults'[i] = bindResults[i]
    BY <1>0, <2>1, <2>3, AppendProperties
  <2>6. \A i \in 1 .. Len(bindResults') : bindResults'[i].port = addresses[i].port
    <3>1. Len(bindResults) \in Nat
      BY <1>0, LenProperties, Zenon
    <3> QED
      BY <1>0, <2>4, <2>5, <3>1
  <2>7. Len(bindResults') <= Len(addresses)
    BY <1>0, <2>1, <2>5
  <2>8. /\ portConfig' \in PortConfigs
        /\ bindResults' \in Seq(BindResult)
        /\ Len(bindResults') <= Len(addresses')
        /\ \A i \in 1 .. Len(bindResults') : bindResults'[i].port = (addresses')[i].port
        /\ analysis' = "binding"
    BY <1>0, <2>1, <2>2, <2>5, <2>6, <2>7, Zenon
  <2> QED
    BY <2>8, Zenon DEF PortsInv, addresses
<1>2. CASE BindsAnalysed
  <2>1. /\ UNCHANGED <<portConfig, bindResults>> /\ Len(bindResults) = Len(addresses)
        /\ analysis' = AnalyzeBindResults
    BY <1>2, Zenon DEF BindsAnalysed
  <2>2. AnalyzeBindResults' = AnalyzeBindResults /\ addresses' = addresses
    BY <2>1 DEF AnalyzeBindResults, HasCommonPort, HasRandomPort, OpenPorts,
                GenerateListenAddresses, PortsOf, FamiliesOf
  <2> QED
    BY <1>0, <2>1, <2>2, Zenon DEF PortsInv
<1>3. CASE UNCHANGED portVars
  <2>1. UNCHANGED <<portConfig, bindResults, analysis>>
    BY <1>3, Zenon DEF portVars
  <2>2. AnalyzeBindResults' = AnalyzeBindResults /\ addresses' = addresses
    BY <2>1 DEF AnalyzeBindResults, HasCommonPort, HasRandomPort, OpenPorts,
                GenerateListenAddresses, PortsOf, FamiliesOf
  <2> QED
    BY <1>0, <2>1, <2>2, Zenon DEF PortsInv
<1> QED
  BY <1>1, <1>2, <1>3, Zenon DEF PortsNext, BindKinds

(* The results in order give the reported connectivity.                    *)
LEMMA PortsInvImplies == PortsInv => ConnectivityReported
<1> SUFFICES ASSUME PortsInv, analysis # "binding" PROVE ConnectivityReported
  BY Zenon DEF ConnectivityReported
<1>1. analysis = AnalyzeBindResults
  BY Zenon DEF PortsInv
<1>2. HasCommonPort \/ HasRandomPort => OpenPorts # {}
  BY DEF HasCommonPort, HasRandomPort
<1>3. 0 \in OpenPorts => HasRandomPort
  BY DEF HasRandomPort
<1>4. ASSUME portConfig.random, portConfig.families # {}, \A r \in Range(bindResults) : r.result = "ok"
      PROVE  0 \in OpenPorts
  <2> DEFINE addresses == GenerateListenAddresses(portConfig)
             n == Len(bindResults)
  <2>1. n = Len(addresses) /\ n > 0 /\ n \in Nat /\ addresses[n].port = 0
    BY <1>4, AddressesOfPorts, Zenon DEF PortsInv
  <2>2. /\ bindResults \in Seq(BindResult)
        /\ \A i \in 1 .. n : bindResults[i].port = addresses[i].port
    BY Zenon DEF PortsInv
  <2>3. n \in 1 .. n /\ DOMAIN bindResults = 1 .. n
    BY <2>1, <2>2, LenProperties
  <2>4. bindResults[n].port = 0
    BY <2>1, <2>2, <2>3, Zenon
  <2>5. bindResults[n] \in Range(bindResults)
    BY <2>3, Zenon DEF Range
  <2> QED
    BY <1>4, <2>4, <2>5, Zenon DEF OpenPorts
<1>5. /\ HasRandomPort => analysis \in {"Excellent", "Moderate"}
      /\ analysis \in {"Excellent", "Good"} => HasCommonPort
      /\ analysis = "None" <=> OpenPorts = {}
  BY <1>1, <1>2, Zenon DEF AnalyzeBindResults
<1> QED
  BY <1>3, <1>4, <1>5, Zenon DEF ConnectivityReported, HasCommonPort

(* The swarm's view of its connections is sound for any peers, circuits,   *)
(* ports and number of connections: circuits are counted under the peer    *)
(* that opened them, a connected peer is known to the application and to   *)
(* the broadcast set, and the connectivity that multi_port reports is the  *)
(* one the binds had.                                                      *)
THEOREM ConnectionsStaySound == ConnSpec /\ PortsSpec => []ConnectionsSound
<1>1. ConnInv /\ [ConnNext]_connVars => ConnInv'
  BY ConnKept, Zenon
<1>2. PortsInv /\ [PortsNext]_portVars => PortsInv'
  BY PortsKept, Zenon
<1>3. ConnInv /\ PortsInv => ConnectionsSound
  BY ConnInvImplies, PortsInvImplies, Zenon DEF ConnectionsSound
<1> QED
  BY <1>1, <1>2, <1>3, ConnInitially, PortsInitially, PTL DEF ConnSpec, PortsSpec

-----------------------------------------------------------------------------
(* The peripherals of the BLE central. *)

(* The tasks that follow peripherals.                                      *)
TaskSteps == {"matching", "connecting", "preparing", "reading"}
IngressTasks == [of : Peripherals, no : Nat, at : TaskSteps]

(* What the central keeps.                                                 *)
CentralInv ==
    /\ sightings \in Nat /\ ingress \subseteq IngressTasks /\ lookedUp \subseteq Peripherals
    /\ IngressExclusive

(* No peripheral is followed at first.                                     *)
LEMMA CentralInitially == CentralInit => CentralInv
  BY DEF CentralInit, CentralInv, IngressExclusive

(* Tasks of different peripherals cannot read the same one.                *)
LEMMA OneTaskReads ==
    ASSUME \A t, u \in ingress : t.of = u.of => t = u, NEW p
    PROVE  Cardinality({t \in ingress : t.of = p /\ t.at = "reading"}) <= 1
<1> DEFINE readers == {t \in ingress : t.of = p /\ t.at = "reading"}
<1>1. CASE readers = {}
  BY <1>1, FS_EmptySet
<1>2. CASE readers # {}
  <2>1. PICK t : t \in readers
    BY <1>2, Zenon
  <2>2. readers = {t}
    BY <2>1, Zenon
  <2> QED
    BY <2>2, FS_Singleton
<1> QED
  BY <1>1, <1>2, Zenon

(* A task that goes on keeps its peripheral to itself.                     *)
LEMMA TaskAdvances ==
    ASSUME CentralInv, NEW t \in ingress, NEW step \in TaskSteps, IngressAt(t, step)
    PROVE  CentralInv'
<1> DEFINE u == [t EXCEPT !.at = step]
<1>1. /\ ingress' = (ingress \ {t}) \cup {u}
      /\ UNCHANGED <<followed, lookedUp, sightings, shown>>
  BY Zenon DEF IngressAt
<1>2. t \in IngressTasks
  BY Zenon DEF CentralInv
<1>3. u \in IngressTasks /\ u.of = t.of
  BY <1>2, Zenon DEF IngressTasks
<1> HIDE DEF u
<1>4. {x.of : x \in ingress'} = {x.of : x \in ingress}
  BY <1>1, <1>3, Zenon
<1>5. \A x, y \in ingress' : x.of = y.of => x = y
  BY <1>1, <1>3, Zenon DEF CentralInv, IngressExclusive
<1>6. \A x \in ingress' : x.of \notin lookedUp
  BY <1>1, <1>3, Zenon DEF CentralInv, IngressExclusive
<1> QED
  BY <1>1, <1>3, <1>4, <1>5, <1>6, Zenon DEF CentralInv, IngressExclusive

(* A task that ends gives its peripheral up.                               *)
LEMMA TaskEnds ==
    ASSUME CentralInv, NEW t \in ingress, IngressEnds(t)
    PROVE  CentralInv'
<1>1. /\ ingress' = ingress \ {t} /\ followed' = followed \ {t.of}
      /\ UNCHANGED <<lookedUp, sightings, shown>>
  BY Zenon DEF IngressEnds
<1>2. {x.of : x \in ingress'} = {x.of : x \in ingress} \ {t.of}
  BY <1>1, Zenon DEF CentralInv, IngressExclusive
<1>3. followed' = lookedUp' \cup {x.of : x \in ingress'}
  BY <1>1, <1>2, Zenon DEF CentralInv, IngressExclusive
<1> QED
  BY <1>1, <1>3, Zenon DEF CentralInv, IngressExclusive

(* Every step of the central keeps each peripheral to one task.            *)
LEMMA CentralKept ==
    ASSUME CentralInv, [CentralNext]_bleVarsAll
    PROVE  CentralInv'
<1>1. CASE UNCHANGED <<followed, lookedUp, ingress, sightings, shown>>
  BY <1>1, Zenon DEF CentralInv, IngressExclusive
<1>2. ASSUME NEW p \in Peripherals, PeripheralSeen(p) PROVE CentralInv'
  <2>1. /\ lookedUp = {} /\ p \notin followed /\ lookedUp' = {p} /\ sightings' = sightings + 1
        /\ followed' = followed \cup {p} /\ UNCHANGED <<ingress, shown>>
    BY <1>2, Zenon DEF PeripheralSeen, Sighted
  <2> QED
    BY <2>1 DEF CentralInv, IngressExclusive
<1>3. ASSUME NEW p \in Peripherals, PeripheralUnknown(p) PROVE CentralInv'
  <2>1. /\ lookedUp = {p} /\ lookedUp' = {} /\ followed' = followed \ {p}
        /\ UNCHANGED <<ingress, sightings, shown>>
    BY <1>3, Zenon DEF PeripheralUnknown
  <2>2. p \notin {t.of : t \in ingress}
    BY <2>1, Zenon DEF CentralInv, IngressExclusive
  <2> QED
    BY <2>1, <2>2, Zenon DEF CentralInv, IngressExclusive
<1>4. ASSUME NEW p \in Peripherals, FollowPeripheral(p) PROVE CentralInv'
  <2> DEFINE u == [of |-> p, no |-> sightings, at |-> "matching"]
  <2>1. /\ lookedUp = {p} /\ lookedUp' = {} /\ ingress' = ingress \cup {u}
        /\ UNCHANGED <<followed, sightings, shown>>
    BY <1>4, Zenon DEF FollowPeripheral
  <2>2. u \in IngressTasks /\ u.of = p
    BY Zenon DEF CentralInv, IngressTasks, TaskSteps
  <2> HIDE DEF u
  <2>3. \A t \in ingress : t.of # p
    BY <2>1, Zenon DEF CentralInv, IngressExclusive
  <2>4. {x.of : x \in ingress'} = {x.of : x \in ingress} \cup {p}
    BY <2>1, <2>2, Zenon
  <2>5. \A x, y \in ingress' : x.of = y.of => x = y
    BY <2>1, <2>2, <2>3, Zenon DEF CentralInv, IngressExclusive
  <2> QED
    BY <2>1, <2>2, <2>4, <2>5, Zenon DEF CentralInv, IngressExclusive
<1>5. ASSUME NEW p \in Peripherals, NEW frame \in Frames, NotificationArrives(p, frame)
      PROVE  CentralInv'
  <2> DEFINE n == Cardinality({t \in ingress : t.of = p /\ t.at = "reading"})
  <2>1. /\ shown' = shown \cup {n} /\ UNCHANGED <<followed, lookedUp, ingress, sightings>>
    BY <1>5, Zenon DEF NotificationArrives
  <2>2. n <= 1
    BY OneTaskReads, Zenon DEF CentralInv, IngressExclusive
  <2> HIDE DEF n
  <2> QED
    BY <2>1, <2>2, Zenon DEF CentralInv, IngressExclusive
<1>6. ASSUME NEW t \in ingress,
             MatchService(t) \/ ConnectPeripheral(t) \/ SubscribePeripheral(t) \/ StreamEnds(t)
      PROVE  CentralInv'
  <2>1. (\E step \in TaskSteps : IngressAt(t, step)) \/ IngressEnds(t)
    BY <1>6, Zenon DEF MatchService, ConnectPeripheral, SubscribePeripheral, StreamEnds, TaskSteps
  <2> QED
    BY <2>1, TaskAdvances, TaskEnds, Zenon
<1>7. CASE CentralStarts \/ InitializeDaemon \/ ShutdownDaemon \/ UNCHANGED bleVarsAll
  BY <1>1, <1>7, Zenon DEF CentralStarts, InitializeDaemon, ShutdownDaemon, bleVarsAll, centralVars
<1> QED
  BY <1>2, <1>3, <1>4, <1>5, <1>6, <1>7, Zenon DEF CentralNext

(* However many sightings of it are under way at once, a peripheral is     *)
(* followed by at most one ingress task, and is marked as followed exactly *)
(* while one looks it up or reads it (the BLE central of the daemon,       *)
(* cli/src/ble_mesh.rs).                                                   *)
THEOREM PeripheralsFollowedOnce == CentralSpec => []IngressExclusive
<1>1. CentralInv /\ [CentralNext]_bleVarsAll => CentralInv'
  BY CentralKept, Zenon
<1>2. CentralInv => IngressExclusive
  BY Zenon DEF CentralInv
<1> QED
  BY <1>1, <1>2, CentralInitially, PTL DEF CentralSpec

-----------------------------------------------------------------------------
(* A set of numbers that is not empty has a least one.                     *)
LEMMA LeastNumber ==
    ASSUME NEW S \in SUBSET Nat, S # {}
    PROVE  \E x \in S: \A y \in S: x <= y
<1>1. PICK x \in S: \A y \in S: <<y, x>> \notin OpToRel(<, Nat)
  BY NatLessThanWellFounded, WFMin, Zenon
<1>2. \A y \in S: ~(y < x)
  BY <1>1, Zenon DEF OpToRel
<1> QED
  BY <1>2

(* Two to the n is the number of subsets of a set of n numbers, and one    *)
(* more number doubles it.                                                 *)
LEMMA TwoToThe ==
    ASSUME NEW n \in Nat
    PROVE  2^n \in Nat \ {0} /\ 2^(n + 1) = 2 * 2^n
<1> DEFINE S == SUBSET (1 .. n)
           T == {A \cup {n + 1} : A \in S}
           f == [A \in S |-> A \cup {n + 1}]
<1>1. \A k \in Nat : /\ IsFiniteSet(SUBSET (1 .. k)) /\ Cardinality(SUBSET (1 .. k)) = 2^k
                     /\ Cardinality(SUBSET (1 .. k)) \in Nat \ {0}
  <2> TAKE k \in Nat
  <2>1. IsFiniteSet(1 .. k) /\ Cardinality(1 .. k) = k
    BY FS_Interval
  <2>2. IsFiniteSet(SUBSET (1 .. k)) /\ Cardinality(SUBSET (1 .. k)) = 2^k
    BY <2>1, FS_SUBSET, Zenon
  <2> QED
    BY <2>2, FS_CardinalityType, FS_EmptySet
<1>2. \A A \in S : n + 1 \notin A
  OBVIOUS
<1>3. f \in Bijection(S, T)
  <2>1. f \in [S -> T] /\ \A t \in T : \E A \in S : f[A] = t
    BY Zenon
  <2>2. \A A, B \in S : f[A] = f[B] => A = B
    BY <1>2
  <2> QED
    BY <2>1, <2>2, Zenon DEF Bijection, Injection, Surjection, IsInjective
<1>4. IsFiniteSet(T) /\ Cardinality(T) = 2^n
  <2>1. ExistsBijection(S, T)
    BY <1>3, Zenon DEF ExistsBijection
  <2>2. IsFiniteSet(S) /\ Cardinality(S) = 2^n
    BY <1>1, Zenon
  <2> QED
    BY <2>1, <2>2, FS_Bijection, Zenon
<1>5. SUBSET (1 .. n + 1) = S \cup T
  <2>1. ASSUME NEW B \in SUBSET (1 .. n + 1)
        PROVE  B \in S \cup T
    <3>1. CASE n + 1 \in B
      <4>1. B \ {n + 1} \in S /\ B = (B \ {n + 1}) \cup {n + 1}
        BY <3>1
      <4> QED
        BY <4>1, Zenon
    <3>2. CASE n + 1 \notin B
      BY <3>2
    <3> QED
      BY <3>1, <3>2, Zenon
  <2>2. \A A \in S : A \in SUBSET (1 .. n + 1) /\ A \cup {n + 1} \in SUBSET (1 .. n + 1)
    OBVIOUS
  <2>3. ASSUME NEW B \in T PROVE B \in SUBSET (1 .. n + 1)
    <3>1. PICK A \in S : B = A \cup {n + 1}
      BY <2>3, Zenon
    <3> HIDE DEF S
    <3> QED
      BY <2>2, <3>1, Zenon
  <2> HIDE DEF T
  <2>4. \A B : B \in SUBSET (1 .. n + 1) <=> B \in S \cup T
    BY <2>1, <2>2, <2>3, Zenon
  <2> QED
    BY <2>4, Zenon
<1>6. S \cap T = {}
  BY <1>2, Zenon
<1>7. Cardinality(S \cup T) = 2^n + 2^n - 0
  <2>1. IsFiniteSet(S) /\ Cardinality(S) = 2^n
    BY <1>1, Zenon
  <2>2. Cardinality(S \cup T) = Cardinality(S) + Cardinality(T) - Cardinality(S \cap T)
    BY <1>4, <2>1, FS_Union, Zenon
  <2>3. Cardinality({}) = 0
    BY FS_EmptySet, Zenon
  <2> QED
    BY <1>4, <1>6, <2>1, <2>2, <2>3, Zenon
<1>8. Cardinality(S \cup T) = 2^(n + 1)
  <2>1. n + 1 \in Nat
    OBVIOUS
  <2> QED
    BY <1>1, <1>5, <2>1, Zenon
<1>9. 2^n \in Nat \ {0}
  BY <1>1, Zenon
<1> HIDE DEF S, T, f
<1> QED
  BY <1>7, <1>8, <1>9

(* The quotient, as the remainder bounds it.                               *)
LEMMA QuotientBounds ==
    ASSUME NEW a \in Nat, NEW b \in Nat \ {0}
    PROVE  /\ a \div b \in Nat /\ b * (a \div b) <= a /\ a < b * (a \div b) + b
  OBVIOUS

(* One factor more adds the other factor.                                  *)
LEMMA ProductGrows ==
    ASSUME NEW z \in Nat, NEW x \in Nat, NEW y \in Nat, x < y
    PROVE  z * x + z <= z * y
  OBVIOUS


(* Halving never adds, and more messages never leave fewer.                *)
LEMMA HalvedIsLess ==
    ASSUME NEW n \in Nat, NEW k \in Nat
    PROVE  HalvedOver(n, k) \in Nat /\ HalvedOver(n, k) <= n
<1> DEFINE c == 2^k
           q == (2 * n + c) \div (2 * c)
<1>1. c \in Nat \ {0} /\ HalvedOver(n, k) = q
  BY TwoToThe, Zenon DEF HalvedOver
<1> HIDE DEF c
<1>2. q \in Nat /\ (2 * c) * q <= 2 * n + c
  <2>1. 2 * n + c \in Nat /\ 2 * c \in Nat \ {0}
    BY <1>1
  <2> QED
    BY <2>1, QuotientBounds, Zenon
<1> HIDE DEF q
<1>3. CASE n < q
  <2>1. (2 * c) * n + 2 * c <= (2 * c) * q
    BY <1>1, <1>2, <1>3, ProductGrows
  <2>2. 2 * n <= (2 * c) * n
    <3>1. CASE c = 1
      BY <3>1
    <3>2. CASE c # 1
      <4>1. n * 1 + n <= n * c
        BY <1>1, <3>2, ProductGrows
      <4> QED
        BY <1>1, <4>1
    <3> QED
      BY <3>1, <3>2, Zenon
  <2> QED
    BY <1>1, <1>2, <2>1, <2>2
<1> QED
  BY <1>1, <1>2, <1>3

(* More messages leave at least as many after the same silence.            *)
LEMMA HalvedIsMonotone ==
    ASSUME NEW m \in Nat, NEW n \in Nat, m <= n, NEW k \in Nat
    PROVE  HalvedOver(m, k) <= HalvedOver(n, k)
<1> DEFINE c == 2^k
           q == (2 * m + c) \div (2 * c)
           r == (2 * n + c) \div (2 * c)
<1>1. c \in Nat \ {0} /\ HalvedOver(m, k) = q /\ HalvedOver(n, k) = r
  BY TwoToThe, Zenon DEF HalvedOver
<1> HIDE DEF c
<1>2. q \in Nat /\ (2 * c) * q <= 2 * m + c /\ r \in Nat /\ 2 * n + c < (2 * c) * r + 2 * c
  <2>1. 2 * m + c \in Nat /\ 2 * n + c \in Nat /\ 2 * c \in Nat \ {0}
    BY <1>1
  <2> QED
    BY <2>1, QuotientBounds, Zenon
<1> HIDE DEF q, r
<1>3. CASE r < q
  <2>1. (2 * c) * r + 2 * c <= (2 * c) * q
    BY <1>1, <1>2, <1>3, ProductGrows
  <2> QED
    BY <1>1, <1>2, <2>1
<1> QED
  BY <1>1, <1>2, <1>3

(* More messages earn at least as long a time to live.                     *)
LEMMA TtlIsMonotone ==
    ASSUME NEW m \in Nat, NEW n \in Nat, m <= n
    PROVE  ActivityTtl(m) <= ActivityTtl(n)
  BY RoutesAssumption DEF ActivityTtl

(* The history of a peer's messages.                                       *)
IsHistory(a, n) ==
    /\ a \in [recent : Nat, last : 0 .. activityClock, ttl : Nat]
    /\ a.recent <= n /\ a.ttl = ActivityTtl(a.recent)

(* Every history is that of the messages recorded.                         *)
ActivityInv ==
    /\ activityClock \in Nat /\ recorded \in [ActivePeers -> Nat]
    /\ activity = [p \in ActivePeers |-> activity[p]]
    /\ \A p \in ActivePeers : \A a, b \in activity[p] : a = b
    /\ \A p \in ActivePeers : \A a \in activity[p] : IsHistory(a, recorded[p])

(* There is no history yet.                                                *)
LEMMA ActivityInitially == ActivityInit => ActivityInv
  BY DEF ActivityInit, ActivityInv

(* A history stays one when it is read and when a message is recorded.     *)
LEMMA HistoriesStay ==
    ASSUME ActivityInv, NEW p \in ActivePeers
    PROVE  /\ \A a, b \in OrNew(p) : a = b
           /\ \A a \in OrNew(p) : IsHistory(a, recorded[p])
<1>1. CASE activity[p] = {}
  <2>1. NewActivity \in [recent : Nat, last : 0 .. activityClock, ttl : Nat] /\ NewActivity.recent = 0
        /\ NewActivity.ttl = BaseTtl
    BY RoutesAssumption DEF ActivityInv, NewActivity
  <2>2. ActivityTtl(0) = BaseTtl
    BY RoutesAssumption DEF ActivityTtl
  <2> QED
    BY <1>1, <2>1, <2>2 DEF OrNew, IsHistory, ActivityInv
<1>2. CASE activity[p] # {}
  BY <1>2, Zenon DEF OrNew, ActivityInv
<1> QED
  BY <1>1, <1>2, Zenon

(* A read decays the messages over the silence and shortens the time to    *)
(* live.                                                                   *)
LEMMA DecayStays ==
    ASSUME ActivityInv, NEW n \in Nat, NEW a, IsHistory(a, n)
    PROVE  /\ IsHistory(Decay(a), n) /\ Decay(a).last = a.last
           /\ Decay(a).recent = HalvedOver(a.recent, activityClock - a.last)
           /\ Decay(a).ttl <= a.ttl
           /\ Decay(a).ttl <= ActivityTtl(HalvedOver(n, activityClock - a.last))
<1> DEFINE left == HalvedOver(a.recent, activityClock - a.last)
<1>1. a.recent \in Nat /\ a.last \in 0 .. activityClock /\ activityClock - a.last \in Nat
  BY DEF IsHistory, ActivityInv
<1>2. left \in Nat /\ left <= a.recent
  BY <1>1, HalvedIsLess, Zenon
<1>3. /\ Decay(a) = [a EXCEPT !.recent = left, !.ttl = ActivityTtl(left)]
      /\ ActivityTtl(left) \in Nat
  BY RoutesAssumption DEF Decay, ActivityTtl
<1>4. left <= HalvedOver(n, activityClock - a.last) /\ HalvedOver(n, activityClock - a.last) \in Nat
  BY <1>1, HalvedIsMonotone, HalvedIsLess, Zenon DEF IsHistory
<1> HIDE DEF left
<1>5. /\ Decay(a) \in [recent : Nat, last : 0 .. activityClock, ttl : Nat]
      /\ Decay(a).recent = left /\ Decay(a).last = a.last /\ Decay(a).ttl = ActivityTtl(left)
  BY <1>2, <1>3, Zenon DEF IsHistory
<1>6. ActivityTtl(left) <= ActivityTtl(a.recent)
  BY <1>1, <1>2, TtlIsMonotone, Zenon
<1>7. ActivityTtl(left) <= ActivityTtl(HalvedOver(n, activityClock - a.last))
  BY <1>2, <1>4, TtlIsMonotone, Zenon
<1> QED
  BY <1>1, <1>2, <1>5, <1>6, <1>7 DEF IsHistory, left

(* A message recorded is one more message in the history.                  *)
LEMMA RecordedStays ==
    ASSUME ActivityInv, NEW n \in Nat, NEW a, IsHistory(a, n)
    PROVE  IsHistory(RecordMessage(a), n + 1)
<1>1. a.recent \in Nat /\ a.recent + 1 <= n + 1 /\ ActivityTtl(a.recent + 1) \in Nat
  BY RoutesAssumption DEF IsHistory, ActivityTtl
<1> QED
  BY <1>1 DEF RecordMessage, IsHistory, ActivityInv


(* What a read and what a recorded message leave of every history.         *)
LEMMA ReadKeeps ==
    ASSUME ActivityInv, NEW p \in ActivePeers, CalculateTtl(p)
    PROVE  ActivityInv' /\ TtlEarned
<1>1. /\ activity' = [activity EXCEPT ![p] = {Decay(a) : a \in OrNew(p)}]
      /\ UNCHANGED <<activityClock, recorded>>
  BY Zenon DEF CalculateTtl
<1>2. /\ activity'[p] = {Decay(a) : a \in OrNew(p)}
      /\ \A q \in ActivePeers \ {p} : activity'[q] = activity[q]
      /\ activity' = [q \in ActivePeers |-> activity'[q]]
  BY <1>1, Zenon DEF ActivityInv
<1>3. recorded[p] \in Nat
  BY Zenon DEF ActivityInv
<1>4. \A b \in activity'[p] : IsHistory(b, recorded[p])
  BY <1>2, <1>3, HistoriesStay, DecayStays
<1>5. \A a, b \in activity'[p] : a = b
  BY <1>2, HistoriesStay, Zenon
<1>6. ActivityInv'
  BY <1>1, <1>2, <1>4, <1>5, Zenon DEF ActivityInv, IsHistory
<1>7. ASSUME NEW q \in ActivePeers, NEW a \in activity[q], NEW b \in activity'[q], a # b
      PROVE  /\ b.ttl <= a.ttl
             /\ b.ttl <= ActivityTtl(HalvedOver(recorded[q], activityClock - a.last))
  <2>1. q = p
    BY <1>2, <1>7, Zenon DEF ActivityInv
  <2>2. OrNew(p) = activity[p]
    BY <1>7, <2>1, Zenon DEF OrNew
  <2>3. b = Decay(a) /\ IsHistory(a, recorded[p])
    BY <1>2, <1>7, <2>1, <2>2 DEF ActivityInv
  <2> QED
    BY <1>3, <2>1, <2>3, DecayStays, Zenon
<1> QED
  BY <1>6, <1>7, Zenon DEF TtlEarned

(* A message that is recorded makes or extends one history.                *)
LEMMA MessageKeeps ==
    ASSUME ActivityInv, NEW p \in ActivePeers, RecordActivity(p) \/ RouteOver(p)
    PROVE  ActivityInv' /\ TtlEarned
<1>1. /\ \/ activity' = [activity EXCEPT ![p] = {RecordMessage(a) : a \in OrNew(p)}]
         \/ activity' = [activity EXCEPT ![p] = {RecordMessage(Decay(a)) : a \in OrNew(p)}]
      /\ recorded' = [recorded EXCEPT ![p] = @ + 1] /\ activityClock' = activityClock
  BY Zenon DEF RecordActivity, RouteOver
<1>2. /\ \/ activity'[p] = {RecordMessage(a) : a \in OrNew(p)}
         \/ activity'[p] = {RecordMessage(Decay(a)) : a \in OrNew(p)}
      /\ \A q \in ActivePeers \ {p} : activity'[q] = activity[q]
      /\ activity' = [q \in ActivePeers |-> activity'[q]]
  BY <1>1, Zenon DEF ActivityInv
<1>3. /\ recorded' \in [ActivePeers -> Nat] /\ recorded[p] \in Nat /\ recorded'[p] = recorded[p] + 1
      /\ \A q \in ActivePeers \ {p} : recorded'[q] = recorded[q]
  BY <1>1 DEF ActivityInv
<1>4. \A b \in activity'[p] : IsHistory(b, recorded[p] + 1)
  <2>1. ASSUME NEW a \in OrNew(p)
        PROVE  /\ IsHistory(RecordMessage(a), recorded[p] + 1)
               /\ IsHistory(RecordMessage(Decay(a)), recorded[p] + 1)
    <3>1. IsHistory(a, recorded[p])
      BY HistoriesStay, Zenon
    <3>2. IsHistory(Decay(a), recorded[p])
      BY <1>3, <3>1, DecayStays, Zenon
    <3> QED
      BY <1>3, <3>1, <3>2, RecordedStays, Zenon
  <2> QED
    BY <1>2, <2>1, Zenon
<1>5. \A a, b \in activity'[p] : a = b
  BY <1>2, HistoriesStay, Zenon
<1>6. ActivityInv'
  BY <1>1, <1>2, <1>3, <1>4, <1>5, Zenon DEF ActivityInv, IsHistory
<1>7. TtlEarned
  BY <1>2, <1>3 DEF TtlEarned, ActivityInv
<1> QED
  BY <1>6, <1>7, Zenon

(* Every step keeps the histories, and no read lengthens a time to live    *)
(* beyond what was earned.                                                 *)
LEMMA ActivityStep ==
    ASSUME ActivityInv, [ActivityNext]_activityVars
    PROVE  ActivityInv' /\ (UNCHANGED activityVars \/ TtlEarned)
<1>1. CASE UNCHANGED activityVars
  BY <1>1, Zenon DEF activityVars, ActivityInv, IsHistory
<1>2. ASSUME NEW age \in 1 .. 2, CleanupActivity(age)
      PROVE  ActivityInv' /\ TtlEarned
  <2>1. /\ activity' = [p \in ActivePeers |-> activity'[p]] /\ recorded' \in [ActivePeers -> Nat]
        /\ activityClock' = activityClock
        /\ \A p \in ActivePeers : \/ activity'[p] = {}
                                  \/ activity'[p] = activity[p] /\ recorded'[p] = recorded[p]
    BY <1>2, Zenon DEF CleanupActivity, ActivityInv
  <2>2. ActivityInv'
    BY <2>1, Zenon DEF ActivityInv, IsHistory
  <2>3. TtlEarned
    BY <2>1, Zenon DEF ActivityInv, TtlEarned
  <2> QED
    BY <2>2, <2>3, Zenon
<1>3. CASE HalfLifePasses
  <2>1. activityClock' = activityClock + 1 /\ UNCHANGED <<activity, recorded>>
    BY <1>3, Zenon DEF HalfLifePasses
  <2>2. ActivityInv'
    <3>1. \A a : a \in [recent : Nat, last : 0 .. activityClock, ttl : Nat] =>
                    a \in [recent : Nat, last : 0 .. activityClock', ttl : Nat]
      BY <2>1 DEF ActivityInv
    <3> QED
      BY <2>1, <3>1 DEF ActivityInv, IsHistory
  <2>3. TtlEarned
    BY <2>1, Zenon DEF ActivityInv, TtlEarned
  <2> QED
    BY <2>2, <2>3, Zenon
<1> QED
  BY <1>1, <1>2, <1>3, ReadKeeps, MessageKeeps, Zenon DEF ActivityNext

-----------------------------------------------------------------------------
(* Routes kept and reports standing.                                       *)

(* A hint keeps one route by each next hop.                                *)
RoutesOK(table) ==
    /\ \A h \in Hints : \A r \in table[h] : r.hops \in Nat
    /\ \A h \in Hints : \A q, r \in table[h] : q.hop = r.hop => q = r

(* Every entry of the negative cache was made by the report that stands.   *)
ReportsOK ==
    \A e \in negative : e.peer \in Hops /\ e.at \in reported[e.peer] /\ e.at \in Nat

(* What every step keeps of the routes and the reports.                    *)
RoutesInv ==
    /\ routes = [h \in Hints |-> routes[h]] /\ RoutesOK(routes)
    /\ routeClock \in Nat /\ reported = [p \in Hops |-> reported[p]] /\ ReportsOK

(* There is no route and no report yet.                                    *)
LEMMA RoutesInitially == RoutesInit => RoutesInv
  BY DEF RoutesInit, RoutesInv, RoutesOK, ReportsOK

(* A confirmed entry that has not expired stands for a report.             *)
LEMMA ReportsStand ==
    ASSUME RoutesInv
    PROVE  UnreachableConfirmed
  BY RoutesAssumption DEF RoutesInv, ReportsOK, UnreachableConfirmed, IsDefinitelyUnreachable, Expired

(* The least hop count of a hint is that of one of its routes.             *)
LEMMA LeastOfRoutes ==
    ASSUME NEW S, S # {}, \A r \in S : r.hops \in Nat
    PROVE  /\ LeastHops(S) \in Nat /\ \E r \in S : r.hops = LeastHops(S)
           /\ \A r \in S : LeastHops(S) <= r.hops
<1> DEFINE H == {r.hops : r \in S}
<1>1. H \in SUBSET Nat /\ H # {}
  BY Zenon
<1>2. \E x \in H : \A y \in H : x <= y
  BY <1>1, LeastNumber, Zenon
<1>3. LeastHops(S) \in H /\ \A y \in H : LeastHops(S) <= y
  BY <1>2, Zenon DEF LeastHops, Min
<1> QED
  BY <1>1, <1>3, Zenon

(* A table whose hints keep their routes, lose some, or keep one that is   *)
(* no farther than any before, gets no worse.                              *)
LEMMA NoWorse ==
    ASSUME RoutesOK(routes), RoutesOK(routes'),
           \A h \in Hints :
              \/ routes'[h] \subseteq routes[h]
              \/ \A r \in routes[h] :
                    \/ \E q \in routes'[h] : q.hops <= r.hops
                    \/ \E q \in routes'[h] : q.hop = r.hop /\ q.seq > r.seq
    PROVE  RoutesImprove
<1>1. SUFFICES ASSUME NEW h \in Hints, routes[h] # {}, routes'[h] # {},
                      LeastHops(routes'[h]) > LeastHops(routes[h])
               PROVE  \E r \in routes[h] : r.hops = LeastHops(routes[h]) /\
                        \/ routes'[h] \subseteq routes[h]
                        \/ \E q \in routes'[h] : q.hop = r.hop /\ q.seq > r.seq
  BY Zenon DEF RoutesImprove
<1>2. PICK r \in routes[h] : r.hops = LeastHops(routes[h]) /\ r.hops \in Nat
  BY <1>1, LeastOfRoutes, Zenon DEF RoutesOK
<1>3. \A q \in routes'[h] : ~(q.hops <= r.hops)
  <2>1. /\ LeastHops(routes'[h]) \in Nat
        /\ \A q \in routes'[h] : q.hops \in Nat /\ LeastHops(routes'[h]) <= q.hops
    BY <1>1, LeastOfRoutes, Zenon DEF RoutesOK
  <2> QED
    BY <1>1, <1>2, <2>1
<1> QED
  BY <1>2, <1>3, Zenon

(* A new route replaces the older one of its hop, joins the list, or takes *)
(* the place of the farthest of a full list.                               *)
LEMMA AddRouteImproves ==
    ASSUME RoutesInv, NEW h \in Hints, NEW ad, ad.hops \in Nat, AddRoute(h, ad)
    PROVE  RoutesInv' /\ RoutesImprove
<1> DEFINE known == {r \in routes[h] : r.hop = ad.hop}
<1>1. /\ UNCHANGED <<negative, routeClock, reported>>
      /\ \/ /\ \E r \in known : ad.seq > r.seq
            /\ routes' = [routes EXCEPT ![h] = (@ \ known) \union {ad}]
         \/ /\ known = {}
            /\ routes' = [routes EXCEPT ![h] = @ \union {ad}]
         \/ /\ known = {}
            /\ \E worst \in WorstOf(routes[h]) :
                 /\ Worse(worst, ad)
                 /\ routes' = [routes EXCEPT ![h] = (@ \ {worst}) \union {ad}]
  BY Zenon DEF AddRoute
<1>2. ASSUME NEW kept \in SUBSET routes[h], routes' = [routes EXCEPT ![h] = kept \union {ad}],
             \A r \in kept : r.hop # ad.hop,
             \A r \in routes[h] \ kept : ad.hops <= r.hops \/ (ad.hop = r.hop /\ ad.seq > r.seq)
      PROVE  RoutesInv' /\ RoutesImprove
  <2>1. /\ routes' = [g \in Hints |-> routes'[g]] /\ routes'[h] = kept \union {ad}
        /\ \A g \in Hints \ {h} : routes'[g] = routes[g]
    BY <1>2, Zenon DEF RoutesInv
  <2>2. RoutesOK(routes')
    BY <1>2, <2>1 DEF RoutesInv, RoutesOK
  <2>3. \A r \in routes[h] : \/ \E q \in routes'[h] : q.hops <= r.hops
                             \/ \E q \in routes'[h] : q.hop = r.hop /\ q.seq > r.seq
    BY <1>2, <2>1 DEF RoutesInv, RoutesOK
  <2>4. RoutesImprove
    BY <2>1, <2>2, <2>3, NoWorse, Zenon DEF RoutesInv
  <2> QED
    BY <1>1, <2>1, <2>2, <2>4, Zenon DEF RoutesInv, ReportsOK
<1>3. CASE /\ \E r \in known : ad.seq > r.seq
           /\ routes' = [routes EXCEPT ![h] = (@ \ known) \union {ad}]
  <2> DEFINE kept == routes[h] \ known
  <2>1. \A r \in known : ad.hop = r.hop /\ ad.seq > r.seq
    BY <1>3, Zenon DEF RoutesInv, RoutesOK
  <2>2. kept \in SUBSET routes[h] /\ \A r \in kept : r.hop # ad.hop
    BY Zenon
  <2>3. routes' = [routes EXCEPT ![h] = kept \union {ad}]
    BY <1>3, Zenon
  <2>4. \A r \in routes[h] \ kept : ad.hop = r.hop /\ ad.seq > r.seq
    BY <2>1, Zenon
  <2> HIDE DEF kept, known
  <2> QED
    BY <1>2, <2>2, <2>3, <2>4, Zenon
<1>4. CASE known = {} /\ routes' = [routes EXCEPT ![h] = @ \union {ad}]
  <2>1. \A r \in routes[h] : r.hop # ad.hop
    BY <1>4, Zenon
  <2> QED
    BY <1>2, <1>4, <2>1, Zenon
<1>5. ASSUME known = {}, NEW worst \in WorstOf(routes[h]), Worse(worst, ad),
             routes' = [routes EXCEPT ![h] = (@ \ {worst}) \union {ad}]
      PROVE  RoutesInv' /\ RoutesImprove
  <2> DEFINE kept == routes[h] \ {worst}
  <2>1. ad.hops <= worst.hops /\ worst \in routes[h]
    BY <1>5 DEF WorstOf, Worse, RoutesInv, RoutesOK
  <2>2. kept \in SUBSET routes[h] /\ \A r \in kept : r.hop # ad.hop
    BY <1>5, Zenon
  <2>3. routes' = [routes EXCEPT ![h] = kept \union {ad}]
    BY <1>5, Zenon
  <2>4. \A r \in routes[h] \ kept : ad.hops <= r.hops
    BY <2>1, Zenon
  <2> HIDE DEF kept, known
  <2> QED
    BY <1>2, <2>2, <2>3, <2>4, Zenon
<1> QED
  BY <1>1, <1>3, <1>4, <1>5, Zenon

(* A step that adds no route and no report.                                *)
LEMMA FewerRoutes ==
    ASSUME RoutesInv, routes' = [h \in Hints |-> routes'[h]],
           \A h \in Hints : routes'[h] \subseteq routes[h],
           negative' \subseteq negative, reported' = reported, routeClock' \in Nat
    PROVE  RoutesInv' /\ RoutesImprove
<1>1. RoutesOK(routes')
  BY Zenon DEF RoutesInv, RoutesOK
<1>2. RoutesImprove
  BY <1>1, NoWorse, Zenon DEF RoutesInv
<1> QED
  BY <1>1, <1>2, Zenon DEF RoutesInv, ReportsOK

(* A report, and its withdrawal.                                           *)
LEMMA ReportKeeps ==
    ASSUME RoutesInv, NEW p \in Hops, RecordUnreachable(p) \/ ClearUnreachable(p)
    PROVE  RoutesInv' /\ RoutesImprove
<1>1. UNCHANGED <<routes, routeClock>>
  BY Zenon DEF RecordUnreachable, ClearUnreachable
<1>2. /\ reported' = [q \in Hops |-> reported'[q]]
      /\ \A q \in Hops \ {p} : reported'[q] = reported[q]
  BY Zenon DEF RecordUnreachable, ClearUnreachable, RoutesInv
<1>3. \A e \in negative' : \/ e \in negative /\ e.peer # p
                           \/ e.peer = p /\ e.at = routeClock /\ routeClock \in reported'[p]
  <2>1. CASE ClearUnreachable(p)
    BY <2>1, Zenon DEF ClearUnreachable
  <2>2. CASE RecordUnreachable(p)
    <3>1. routeClock \in reported'[p]
      BY <2>2, Zenon DEF RecordUnreachable, RoutesInv
    <3>2. \A e \in negative' : \/ e \in negative /\ e.peer # p
                               \/ e.peer = p /\ e.at = routeClock
      <4> DEFINE old == {e \in negative : e.peer = p}
                 new(k) == [peer |-> p, at |-> routeClock, count |-> k]
      <4>1. \E gone, k : negative' = (negative \ gone) \cup {new(k)} /\ (old = {} \/ gone = old)
        BY <2>2, Zenon DEF RecordUnreachable
      <4>2. PICK gone, k : negative' = (negative \ gone) \cup {new(k)} /\ (old = {} \/ gone = old)
        BY <4>1, Zenon
      <4>3. new(k).peer = p /\ new(k).at = routeClock
        BY Zenon
      <4> HIDE DEF new
      <4>4. \A e \in negative \ gone : e.peer # p
        BY <4>2, Zenon
      <4> QED
        BY <4>2, <4>3, <4>4, Zenon
    <3> QED
      BY <3>1, <3>2, Zenon
  <2> QED
    BY <2>1, <2>2, Zenon
<1>4. RoutesInv'
  BY <1>1, <1>2, <1>3, Zenon DEF RoutesInv, RoutesOK, ReportsOK
<1>5. RoutesImprove
  BY <1>1, NoWorse, Zenon DEF RoutesInv
<1> QED
  BY <1>4, <1>5, Zenon

(* Every step keeps routes and reports in order, and makes no destination  *)
(* farther without a reason.                                               *)
LEMMA RoutesStep ==
    ASSUME RoutesInv, [RoutesNext]_routesVars
    PROVE  RoutesInv' /\ (UNCHANGED routesVars \/ RoutesImprove)
<1>1. CASE UNCHANGED routesVars
  BY <1>1, Zenon DEF routesVars, RoutesInv, RoutesOK, ReportsOK
<1>2. ASSUME UNCHANGED <<routes, routeClock, reported>>, negative' \subseteq negative
      PROVE  RoutesInv' /\ RoutesImprove
  BY <1>2, FewerRoutes, Zenon DEF RoutesInv
<1>3. CASE RoutesTick
  <2>1. /\ routeClock' = routeClock + 1 /\ reported' = reported /\ negative' \subseteq negative
        /\ routes' = [h \in Hints |-> routes'[h]] /\ \A h \in Hints : routes'[h] \subseteq routes[h]
    BY <1>3, Zenon DEF RoutesTick, RoutesInv
  <2>2. routeClock' \in Nat
    BY <2>1 DEF RoutesInv
  <2> QED
    BY <2>1, <2>2, FewerRoutes, Zenon
<1>4. ASSUME NEW p \in Hops, RemoveRoutesVia(p)
      PROVE  RoutesInv' /\ RoutesImprove
  <2>1. /\ routes' = [h \in Hints |-> routes'[h]] /\ \A h \in Hints : routes'[h] \subseteq routes[h]
        /\ UNCHANGED <<negative, reported, routeClock>>
    BY <1>4, Zenon DEF RemoveRoutesVia
  <2> QED
    BY <2>1, FewerRoutes, Zenon DEF RoutesInv
<1>5. ASSUME NEW h \in Hints, NEW p \in Hops, NEW n \in 1 .. MaxHopCount, NEW f \in Reliabilities,
             NEW q \in 1 .. MaxSequence,
             AddRoute(h, [hop |-> p, hops |-> n, rel |-> f, seq |-> q, at |-> routeClock])
      PROVE  RoutesInv' /\ RoutesImprove
  <2> DEFINE ad == [hop |-> p, hops |-> n, rel |-> f, seq |-> q, at |-> routeClock]
  <2>1. ad.hops \in Nat /\ AddRoute(h, ad)
    BY <1>5
  <2> HIDE DEF ad
  <2> QED
    BY <2>1, AddRouteImproves, Zenon
<1>6. CASE OnAppResume \/ RefreshNext \/ (\E b \in BOOLEAN : AdvanceDiscovery(b))
           \/ (\E n \in 1 .. 2, b \in BOOLEAN : PruneBelow(n, b))
           \/ (\E S \in SUBSET Hints : OnAppBackground(S)) \/ (\E p \in Hops : MarkPathFailed(p))
  BY <1>2, <1>6, Zenon DEF OnAppResume, RefreshNext, AdvanceDiscovery, PruneBelow, OnAppBackground, MarkPathFailed
<1>7. ASSUME NEW h \in Hints,
             \/ RequestRoute(h) \/ ResolveRouteRequest(h) \/ RefreshFailed(h) \/ NearChanges(h)
             \/ \E b \in BOOLEAN : RouteMessage(h, b)
             \/ \E p \in Hops : RefreshDone(h, p) \/ RegisterPath(h, p)
      PROVE  RoutesInv' /\ RoutesImprove
  BY <1>2, <1>7, Zenon DEF RequestRoute, ResolveRouteRequest, RefreshFailed, NearChanges, RouteMessage,
     RefreshDone, RegisterPath
<1> QED
  BY <1>1, <1>3, <1>4, <1>5, <1>6, <1>7, ReportKeeps, Zenon DEF RoutesNext

(* Routes and reports of unreachable peers through any mixture of          *)
(* advertisements, reports, refreshes, expiries and evictions: no peer is  *)
(* written off without a report, no route gets worse without a reason, and *)
(* a read gives no peer a longer time to live than its messages earned     *)
(* (routing/global.rs, negative_cache.rs, adaptive_ttl.rs).                *)
THEOREM RoutesStaySound == RoutesSpec /\ ActivitySpec => RoutesSound
<1>1. RoutesInv /\ [RoutesNext]_routesVars =>
         RoutesInv' /\ (UNCHANGED routesVars \/ RoutesImprove)
  BY RoutesStep, Zenon
<1>2. ActivityInv /\ [ActivityNext]_activityVars =>
         ActivityInv' /\ (UNCHANGED activityVars \/ TtlEarned)
  BY ActivityStep, Zenon
<1>3. RoutesInv => UnreachableConfirmed
  BY ReportsStand, Zenon
<1> QED
  BY <1>1, <1>2, <1>3, RoutesInitially, ActivityInitially, PTL
     DEF RoutesSpec, ActivitySpec, RoutesSound
=============================================================================
