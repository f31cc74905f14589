--------------------------- MODULE Exchange_proofs --------------------------
(***************************************************************************)
(* Proofs about what nodes exchange: the ledgers of LedgerExchange, the    *)
(* routing summaries of RoutingGossip and the ratchet messages of          *)
(* RatchetSessions, for any peers, addresses, devices, chains and bounds.  *)
(***************************************************************************)
EXTENDS LedgerExchange, RoutingGossip, RatchetSessions,
        FiniteSetTheorems, SequenceTheorems, TLAPS

(* The exchange of ledgers.  A ledger is under way or received for every   *)
(* connection that closed, and one more only while the peer is marked: a   *)
(* closing connection pays for the mark it clears.                         *)

(* The events the daemon's loop receives.                                  *)
LedgerEvents == [kind : {"discovered", "identified", "disconnected", "ledger"},
                 addrs : SUBSET LedgerAddrs]

(* The ledger a marked peer may have beyond its closed connections.        *)
MarkedLedger == IF exchanged THEN 1 ELSE 0

(* What every step keeps of the exchange.                                  *)
ExchangeInv ==
    /\ requests \in Nat /\ ledgersOut \in Nat /\ ledgerLinks \in Nat /\ connects \in Nat
    /\ ledgersOut + requests + ledgerLinks <= connects + MarkedLedger
    /\ ledgersOut <= connects

(* What was learned from the peer, the ledger of a running daemon knows,   *)
(* and a whole file.                                                       *)
GossipInv ==
    /\ ledger \in [LedgerAddrs -> LedgerEntries] /\ peersFile \in [LedgerAddrs -> LedgerEntries]
    /\ appEvents \in Seq(LedgerEvents)
    /\ ~torn => gossiped \subseteq KnownAddrs(peersFile)
    /\ up => gossiped \subseteq KnownAddrs(ledger)

(* A connection that closes pays for the ledger of the mark it clears.     *)
LEMMA ClosingPays ==
    ASSUME NEW d \in Nat, NEW r \in Nat, NEW l \in Nat, NEW c \in Nat, NEW m, m = 0 \/ m = 1,
           d + r + l <= c + m, l > 0, NEW rest \in Nat, rest <= r
    PROVE  l - 1 \in Nat /\ d + rest + (l - 1) <= c + 0
  OBVIOUS

(* Every step of daemon, swarm and peer keeps the count of ledgers.        *)
LEMMA ExchangeStep ==
    ASSUME ExchangeInv, LedgerNext
    PROVE  ExchangeInv'
  <1> USE DEF ExchangeInv
  <1>m. MarkedLedger \in {0, 1} /\ MarkedLedger' \in {0, 1}
    BY Zenon DEF MarkedLedger
  <1>1. CASE LinkUp
    <2>1. /\ ledgerLinks' = ledgerLinks + 1 /\ connects' = connects + 1
          /\ UNCHANGED <<requests, ledgersOut, MarkedLedger>>
      BY <1>1, Zenon DEF LinkUp, MarkedLedger
    <2> QED
      BY <1>m, <2>1
  <1>2. CASE LinkDown
    <2>1. /\ ledgerLinks > 0 /\ ledgerLinks' = ledgerLinks - 1 /\ MarkedLedger' = 0
          /\ UNCHANGED <<ledgersOut, connects>>
      BY <1>2, Zenon DEF LinkDown, MarkedLedger
    <2>2. requests' \in Nat /\ requests' <= requests
      <3>1. requests' \in 0 .. requests
        BY <1>2, Zenon DEF LinkDown
      <3> QED
        BY <3>1
    <2>3. MarkedLedger = 0 \/ MarkedLedger = 1
      BY Zenon DEF MarkedLedger
    <2> QED
      BY <2>1, <2>2, <2>3, ClosingPays, Zenon
  <1>3. CASE ShareLedger
    <2>1. MarkedLedger' = 1 /\ UNCHANGED <<ledgersOut, ledgerLinks, connects>>
      BY <1>3, Zenon DEF ShareLedger, MarkedLedger
    <2>2. \/ MarkedLedger = 1 /\ requests' = requests
          \/ MarkedLedger = 0 /\ requests' = requests + 1
      BY <1>3, Zenon DEF ShareLedger, MarkedLedger
    <2> QED
      BY <2>1, <2>2
  <1>4. CASE RequestEnds
    <2>1. /\ requests > 0 /\ requests' = requests - 1
          /\ UNCHANGED <<MarkedLedger, ledgerLinks, connects>>
      BY <1>4, Zenon DEF RequestEnds, MarkedLedger
    <2>2. ledgersOut' = ledgersOut \/ (ledgerLinks > 0 /\ ledgersOut' = ledgersOut + 1)
      BY <1>4, Zenon DEF RequestEnds
    <2> QED
      BY <1>m, <2>1, <2>2
  <1>5. ASSUME NEW addrs \in PeerLedgers, ReceiveLedger(addrs)
        PROVE  ExchangeInv'
    <2>1. MarkedLedger' = 1 /\ UNCHANGED <<requests, ledgersOut, ledgerLinks, connects>>
      BY <1>5, Zenon DEF ReceiveLedger, MarkedLedger
    <2> QED
      BY <1>m, <2>1
  <1>6. CASE Kill
    <2>1. /\ ledgerLinks' = 0 /\ requests' = 0 /\ MarkedLedger' = 0
          /\ UNCHANGED <<ledgersOut, connects>>
      BY <1>6, Zenon DEF Kill, MarkedLedger
    <2> QED
      BY <2>1
  <1>7. CASE \/ LedgerMdnsDiscovered \/ LedgerMdnsExpired \/ Identified \/ InfoChanged \/ OnDiscovered
             \/ OnIdentified \/ OnDisconnected \/ OnLedgerReceived \/ SaveLedger \/ Start
    <2>1. UNCHANGED <<requests, ledgersOut, ledgerLinks, connects, exchanged>>
      BY <1>7, Zenon DEF LedgerMdnsDiscovered, LedgerMdnsExpired, Identified, InfoChanged, OnDiscovered,
         OnIdentified, OnDisconnected, OnLedgerReceived, SaveLedger, Start, swarmVars
    <2>2. UNCHANGED MarkedLedger
      BY <2>1, Zenon DEF MarkedLedger
    <2> QED
      BY <2>1, <2>2, Zenon
  <1> QED
    BY <1>1, <1>2, <1>3, <1>4, <1>5, <1>6, <1>7, Zenon DEF LedgerNext, Running

(* The ledger's operations keep its entries and forget no address.         *)
LEMMA LedgerOperations ==
    ASSUME NEW l \in [LedgerAddrs -> LedgerEntries]
    PROVE  /\ WithBootstrap(l) \in [LedgerAddrs -> LedgerEntries]
           /\ KnownAddrs(l) \subseteq KnownAddrs(WithBootstrap(l))
           /\ \A addrs \in SUBSET LedgerAddrs :
                 /\ Merged(l, addrs) \in [LedgerAddrs -> LedgerEntries]
                 /\ KnownAddrs(Merged(l, addrs)) = KnownAddrs(l) \cup addrs
  <1>1. AbsentEntry \in LedgerEntries
    BY LedgerAssumption DEF AbsentEntry, LedgerEntries
  <1>2. FreshEntry \in LedgerEntries /\ FreshEntry.known
    BY <1>1, Zenon DEF FreshEntry, LedgerEntries
  <1>3. ASSUME NEW b \in BOOLEAN
        PROVE  [FreshEntry EXCEPT !.ofPeer = b] \in LedgerEntries
                   /\ [FreshEntry EXCEPT !.ofPeer = b].known
    BY <1>2, Zenon DEF LedgerEntries
  <1>4. WithBootstrap(l) \in [LedgerAddrs -> LedgerEntries]
             /\ KnownAddrs(l) \subseteq KnownAddrs(WithBootstrap(l))
    BY <1>2, Zenon DEF WithBootstrap, KnownAddrs
  <1>5. ASSUME NEW addrs \in SUBSET LedgerAddrs
        PROVE  /\ Merged(l, addrs) \in [LedgerAddrs -> LedgerEntries]
               /\ KnownAddrs(Merged(l, addrs)) = KnownAddrs(l) \cup addrs
    BY <1>3, Zenon DEF Merged, KnownAddrs
  <1> QED
    BY <1>4, <1>5, Zenon

(* Every step, a failed save and a kill between or during two writes       *)
(* included, keeps what was learned in the file, if the file is whole.     *)
LEMMA GossipStep ==
    ASSUME GossipInv, LedgerNext
    PROVE  GossipInv'
  <1> USE DEF GossipInv
  <1>1. ASSUME NEW kind \in {"discovered", "identified", "disconnected", "ledger"},
               NEW addrs \in SUBSET LedgerAddrs, Event(kind, addrs) \/ UNCHANGED appEvents,
               UNCHANGED <<ledger, peersFile, torn, up, gossiped>>
        PROVE  GossipInv'
    <2>1. [kind |-> kind, addrs |-> addrs] \in LedgerEvents
      BY Zenon DEF LedgerEvents
    <2>2. appEvents' \in Seq(LedgerEvents)
      <3> HIDE DEF LedgerEvents
      <3> QED
        BY <1>1, <2>1 DEF Event
    <2> QED
      BY <1>1, <2>2, Zenon DEF KnownAddrs
  <1>2. CASE \/ LinkUp \/ LedgerMdnsDiscovered \/ LedgerMdnsExpired \/ Identified \/ LinkDown
             \/ \E addrs \in PeerLedgers : ReceiveLedger(addrs)
    <2>1. UNCHANGED <<ledger, peersFile, torn, up, gossiped>>
      BY <1>2, Zenon DEF LinkUp, LedgerMdnsDiscovered, LedgerMdnsExpired, Identified, LinkDown, ReceiveLedger,
         diskVars
    <2>2. CASE LinkUp \/ LedgerMdnsDiscovered
      <3>1. Event("discovered", {}) \/ UNCHANGED appEvents
        BY <2>2, Zenon DEF LinkUp, LedgerMdnsDiscovered, ReportDiscovery
      <3>2. {} \in SUBSET LedgerAddrs /\ "discovered" \in {"discovered", "identified", "disconnected", "ledger"}
        BY Zenon
      <3> QED
        BY <1>1, <2>1, <3>1, <3>2, Zenon
    <2>3. CASE LedgerMdnsExpired \/ Identified \/ LinkDown
      <3>1. Event("disconnected", {}) \/ Event("identified", {})
        BY <2>3, Zenon DEF LedgerMdnsExpired, Identified, LinkDown
      <3>2. /\ {} \in SUBSET LedgerAddrs
            /\ {"identified", "disconnected"} \subseteq {"discovered", "identified", "disconnected", "ledger"}
        BY Zenon
      <3> QED
        BY <1>1, <2>1, <3>1, <3>2, Zenon
    <2>4. CASE \E addrs \in PeerLedgers : ReceiveLedger(addrs)
      BY <1>1, <2>1, <2>4, LedgerAssumption, Zenon DEF ReceiveLedger
    <2> QED
      BY <1>2, <2>2, <2>3, <2>4, Zenon
  <1>3. CASE ShareLedger \/ RequestEnds \/ InfoChanged
    <2>1. UNCHANGED <<ledger, peersFile, torn, up, gossiped, appEvents>>
      BY <1>3, Zenon DEF ShareLedger, RequestEnds, InfoChanged, diskVars
    <2> QED
      BY <2>1, Zenon DEF KnownAddrs
  <1>4. ASSUME NEW kind, HandleEvent(kind)
        PROVE  appEvents' \in Seq(LedgerEvents) /\ Head(appEvents) \in LedgerEvents
    BY <1>4 DEF HandleEvent
  <1>5. CASE OnDiscovered
    BY <1>4, <1>5, Zenon DEF OnDiscovered, KnownAddrs, diskVars
  <1>6. CASE OnIdentified
    <2>1. EntrySucceeded(ledger[PeerAddr]) \in LedgerEntries /\ EntrySucceeded(ledger[PeerAddr]).known
      BY LedgerAssumption DEF EntrySucceeded, LedgerEntries
    <2>2. /\ ledger' = [ledger EXCEPT ![PeerAddr] = EntrySucceeded(ledger[PeerAddr])]
          /\ UNCHANGED <<peersFile, torn, up, gossiped>> /\ appEvents' \in Seq(LedgerEvents)
      BY <1>4, <1>6, Zenon DEF OnIdentified, diskVars
    <2> HIDE DEF EntrySucceeded
    <2> QED
      BY <2>1, <2>2, Zenon DEF KnownAddrs
  <1>7. CASE OnDisconnected
    <2>1. UNCHANGED <<peersFile, torn, up, gossiped>> /\ appEvents' \in Seq(LedgerEvents)
      BY <1>4, <1>7, Zenon DEF OnDisconnected, diskVars
    <2>2. CASE UNCHANGED ledger
      BY <2>1, <2>2, Zenon DEF KnownAddrs
    <2>3. ASSUME NEW x \in LedgerAddrs, ledger' = [ledger EXCEPT ![x] = EntryFailed(ledger[x])]
          PROVE  GossipInv'
      <3> DEFINE n == IF ledger[x].fails < MaxFailures THEN ledger[x].fails + 1 ELSE ledger[x].fails
      <3>1. n \in 0 .. MaxFailures
        BY LedgerAssumption DEF LedgerEntries
      <3>2. EntryFailed(ledger[x]) = [ledger[x] EXCEPT !.fails = n]
        BY Zenon DEF EntryFailed
      <3> HIDE DEF n
      <3>3. EntryFailed(ledger[x]) \in LedgerEntries /\ EntryFailed(ledger[x]).known = ledger[x].known
        BY <3>1, <3>2, Zenon DEF LedgerEntries
      <3> QED
        BY <2>1, <2>3, <3>3, Zenon DEF KnownAddrs
    <2> QED
      BY <1>7, <2>2, <2>3, Zenon DEF OnDisconnected, EntriesOfPeer
  <1>8. CASE up /\ OnLedgerReceived
    <2> DEFINE addrs == Head(appEvents).addrs
               news == addrs \ KnownAddrs(ledger)
    <2>1. addrs \in SUBSET LedgerAddrs /\ appEvents' \in Seq(LedgerEvents)
      BY <1>4, <1>8, Zenon DEF OnLedgerReceived, LedgerEvents
    <2>2. /\ ledger' = Merged(ledger, addrs) /\ gossiped' = gossiped \cup news
          /\ IF news = {} THEN UNCHANGED <<peersFile, torn>> ELSE Save(ledger')
      BY <1>8, Zenon DEF OnLedgerReceived
    <2> HIDE DEF addrs
    <2>3. ledger' \in [LedgerAddrs -> LedgerEntries]
               /\ KnownAddrs(ledger') = KnownAddrs(ledger) \cup addrs
      BY <2>1, <2>2, LedgerOperations, Zenon
    <2>4. gossiped' \subseteq KnownAddrs(ledger')
      BY <1>8, <2>2, <2>3, Zenon
    <2>5. CASE news = {} /\ UNCHANGED <<peersFile, torn>>
      BY <2>1, <2>2, <2>3, <2>4, <2>5, Zenon
    <2>6. CASE Save(ledger')
      BY <2>1, <2>3, <2>4, <2>6, Zenon DEF Save, SaveDone, SaveFailed
    <2> QED
      BY <2>2, <2>5, <2>6, Zenon
  <1>9. CASE up /\ SaveLedger
    BY <1>9, Zenon DEF SaveLedger, Save, SaveDone, SaveFailed
  <1>10. CASE Kill
    <2>1. /\ up' = FALSE /\ appEvents' = <<>> /\ torn' \in {torn, TRUE}
          /\ UNCHANGED <<ledger, peersFile, gossiped>>
      BY <1>10, Zenon DEF Kill
    <2>2. appEvents' \in Seq(LedgerEvents)
      BY <2>1
    <2> QED
      BY <2>1, <2>2, Zenon DEF KnownAddrs
  <1>11. CASE Start
    <2>1. /\ ~torn /\ ledger' = WithBootstrap(peersFile)
          /\ UNCHANGED <<peersFile, torn, gossiped, appEvents>>
      BY <1>11, Zenon DEF Start, diskVars
    <2> QED
      BY <2>1, LedgerOperations, Zenon
  <1> QED
    BY <1>2, <1>3, <1>5, <1>6, <1>7, <1>8, <1>9, <1>10, <1>11, Zenon DEF LedgerNext, Running

(* For any addresses, any ledgers of the peer and any number of            *)
(* connections, failed saves and kills: the peer receives no more ledgers  *)
(* than it had connections, and an address learned from it is never lost   *)
(* from a file that is whole.                                              *)
THEOREM LedgerStaysSound ==
    LedgerSpec => []LedgerSound
  <1>1. LedgerInit => ExchangeInv /\ GossipInv
    <2> SUFFICES ASSUME LedgerInit PROVE ExchangeInv /\ GossipInv
      BY Zenon
    <2>1. ExchangeInv
      BY DEF LedgerInit, ExchangeInv, MarkedLedger
    <2>2. peersFile \in [LedgerAddrs -> LedgerEntries]
      BY LedgerAssumption DEF LedgerInit, AbsentEntry, LedgerEntries
    <2>3. gossiped = {} /\ ledger = WithBootstrap(peersFile) /\ appEvents = <<>>
      BY Zenon DEF LedgerInit
    <2> QED
      BY <2>1, <2>2, <2>3, LedgerOperations DEF GossipInv
  <1>2. ExchangeInv /\ GossipInv /\ [LedgerNext]_ledgerVars => (ExchangeInv /\ GossipInv)'
    <2>1. ExchangeInv /\ GossipInv /\ UNCHANGED ledgerVars => (ExchangeInv /\ GossipInv)'
      <3> SUFFICES ASSUME ExchangeInv, GossipInv, UNCHANGED ledgerVars PROVE (ExchangeInv /\ GossipInv)'
        BY Zenon
      <3>1. UNCHANGED <<ledger, peersFile, torn, up, appEvents, gossiped, requests, ledgersOut, ledgerLinks,
                        connects, exchanged>>
        BY Zenon DEF ledgerVars, swarmVars, diskVars
      <3>2. ExchangeInv'
        BY <3>1, Zenon DEF ExchangeInv, MarkedLedger
      <3>3. GossipInv'
        BY <3>1, Zenon DEF GossipInv, KnownAddrs
      <3> QED
        BY <3>2, <3>3, Zenon
    <2> QED
      BY <2>1, ExchangeStep, GossipStep, Zenon
  <1>3. ExchangeInv /\ GossipInv => LedgerSound
    BY Zenon DEF ExchangeInv, GossipInv, LedgerSound, OneLedgerPerConnection, GossipSurvivesKill
  <1> QED
    BY <1>1, <1>2, <1>3, PTL DEF LedgerSpec

-----------------------------------------------------------------------------
(* The gossip of the routing tables. *)

(* What a table knows of a gateway is what the gateway said itself, within *)
(* the staleness limit.                                                    *)
GatewayFresh(g, now) ==
    g # NoBody =>
        /\ g.born \in Nat /\ g.updated = g.born
        /\ now - g.born <= MaxStaleness

(* A summary was stamped within the staleness limit, and every hop before  *)
(* that stamp took at most the limit too: the limit does not bound the age *)
(* of the news itself, only the hop count does.                            *)
SummaryAged(s, now) ==
    s # NoBody =>
        /\ s.hops \in Nat \ {0} /\ s.time \in Nat /\ s.born \in Nat
        /\ now - s.time <= MaxStaleness
        /\ s.time - s.born <= (s.hops - 1) * MaxStaleness

(* What the tables keep.                                                   *)
NewsInv ==
    /\ clock \in Nat
    /\ gateways = [n \in Nodes |-> [m \in Nodes |-> gateways[n][m]]]
    /\ summaries = [n \in Nodes |-> [h \in HintSets |-> summaries[n][h]]]
    /\ \A n, m \in Nodes : GatewayFresh(gateways[n][m], clock)
    /\ \A n \in Nodes, h \in HintSets : SummaryAged(summaries[n][h], clock)

(* One more hop at the limit.                                              *)
LEMMA OneHopMore ==
    ASSUME NEW k \in Int, NEW m \in Int
    PROVE  (k - 1) * m + m = k * m
  BY SMT

(* The product that bounds the age is a number.                            *)
LEMMA ProductIsInt == ASSUME NEW k \in Int, NEW m \in Int PROVE k * m \in Int
  BY SMT

(* What a node passes on is as old as its hop count allows.                *)
LEMMA GossipIsAged ==
    ASSUME NewsInv, NEW n \in Nodes, NEW s \in GenerateGossip(n)
    PROVE  /\ s.hops \in Nat \ {0} /\ s.born \in Nat
           /\ clock - s.born <= s.hops * MaxStaleness
<1>1. CASE s \in GatewayNews(n)
  <2>1. PICK g \in Nodes : /\ gateways[n][g] # NoBody
                           /\ s = [hints |-> gateways[n][g].hints, hops |-> 1,
                                   born |-> gateways[n][g].born]
    BY <1>1, Zenon DEF GatewayNews
  <2>2. GatewayFresh(gateways[n][g], clock)
    BY Zenon DEF NewsInv
  <2>3. s.hops = 1 /\ s.born = gateways[n][g].born
    BY <2>1, Zenon
  <2> QED
    BY <2>1, <2>2, <2>3, GossipAssumption DEF GatewayFresh
<1>2. CASE s \notin GatewayNews(n)
  <2>1. PICK h \in HintSets : /\ summaries[n][h] # NoBody
                              /\ s = [hints |-> h, hops |-> summaries[n][h].hops,
                                      born |-> summaries[n][h].born]
    BY <1>2, Zenon DEF GenerateGossip
  <2> DEFINE old == summaries[n][h]
  <2>2. SummaryAged(old, clock) /\ old # NoBody
    BY <2>1, Zenon DEF NewsInv
  <2>3. s.hops = old.hops /\ s.born = old.born
    BY <2>1, Zenon
  <2>4. /\ old.hops \in Nat \ {0} /\ old.time \in Nat /\ old.born \in Nat
        /\ clock - old.time <= MaxStaleness
        /\ old.time - old.born <= (old.hops - 1) * MaxStaleness
    BY <2>2, Zenon DEF SummaryAged
  <2>5. MaxStaleness \in Nat /\ clock \in Nat
    BY GossipAssumption, Zenon DEF NewsInv
  <2>6. /\ (old.hops - 1) * MaxStaleness + MaxStaleness = old.hops * MaxStaleness
        /\ (old.hops - 1) * MaxStaleness \in Int
    <3>1. old.hops \in Int /\ old.hops - 1 \in Int /\ MaxStaleness \in Int
      BY <2>4, <2>5
    <3> QED
      BY <3>1, OneHopMore, ProductIsInt, Zenon
  <2> HIDE DEF old
  <2>7. clock - old.born <= (old.hops - 1) * MaxStaleness + MaxStaleness
    BY <2>4, <2>5, <2>6
  <2> QED
    BY <2>3, <2>4, <2>6, <2>7, Zenon
<1> QED
  BY <1>1, <1>2, Zenon

(* What a receiver accepts is stamped and counted, and its age is within   *)
(* what its hops allow.                                                    *)
LEMMA HeardIsAged ==
    ASSUME NewsInv, NEW n \in Nodes, NEW h \in HintSets, NEW s \in Heard(GenerateGossip(n), h)
    PROVE  SummaryAged(s, clock)
<1>1. PICK t \in GenerateGossip(n) : s = [hops |-> t.hops + 1, time |-> clock, born |-> t.born]
  BY Zenon DEF Heard
<1>2. t.hops \in Nat \ {0} /\ t.born \in Nat /\ clock - t.born <= t.hops * MaxStaleness
  BY GossipIsAged, Zenon
<1>3. s.hops = t.hops + 1 /\ s.time = clock /\ s.born = t.born
  BY <1>1, Zenon
<1>4. s.hops - 1 = t.hops /\ s.hops \in Nat \ {0}
  BY <1>2, <1>3
<1>5. clock \in Nat /\ MaxStaleness \in Nat
  BY GossipAssumption, Zenon DEF NewsInv
<1>6. s.time - s.born <= (s.hops - 1) * MaxStaleness
  BY <1>2, <1>3, <1>4, Zenon
<1> QED
  BY <1>2, <1>3, <1>4, <1>5, <1>6 DEF SummaryAged

(* A table keeps what it had or takes what it heard.                       *)
LEMMA KeptIsOldOrHeard ==
    ASSUME NEW old, NEW heard, NEW s \in Kept(old, heard)
    PROVE  s = old \/ s \in heard
  BY Zenon DEF Kept

(* Empty tables hold no old news.                                          *)
LEMMA NewsInitially == GossipInit => NewsInv
  BY DEF GossipInit, NewsInv, GatewayFresh, SummaryAged

(* Every step of the gossip keeps the ages bounded.                        *)
LEMMA NewsKept ==
    ASSUME NewsInv, [GossipNext]_gossipVars
    PROVE  NewsInv'
<1>1. CASE UNCHANGED <<gateways, summaries, clock>>
  BY <1>1, Zenon DEF NewsInv
<1>2. CASE GossipTick
  <2>1. clock' \in Nat
    BY <1>2 DEF GossipTick, NewsInv
  <2>2. /\ gateways' = [n \in Nodes |-> [m \in Nodes |-> gateways'[n][m]]]
        /\ summaries' = [n \in Nodes |-> [h \in HintSets |-> summaries'[n][h]]]
    BY <1>2, Zenon DEF GossipTick
  <2>3. ASSUME NEW n \in Nodes, NEW m \in Nodes
        PROVE  GatewayFresh(gateways'[n][m], clock')
    <3>1. \/ gateways'[n][m] = NoBody
          \/ /\ gateways'[n][m] = gateways[n][m] /\ gateways[n][m] # NoBody
             /\ clock' - gateways[n][m].updated <= MaxStaleness
      BY <1>2, Zenon DEF GossipTick
    <3>2. GatewayFresh(gateways[n][m], clock)
      BY Zenon DEF NewsInv
    <3> QED
      BY <3>1, <3>2, Zenon DEF GatewayFresh
  <2>4. ASSUME NEW n \in Nodes, NEW h \in HintSets
        PROVE  SummaryAged(summaries'[n][h], clock')
    <3>1. \/ summaries'[n][h] = NoBody
          \/ /\ summaries'[n][h] = summaries[n][h] /\ summaries[n][h] # NoBody
             /\ clock' - summaries[n][h].time <= MaxStaleness
      BY <1>2, Zenon DEF GossipTick
    <3>2. SummaryAged(summaries[n][h], clock)
      BY Zenon DEF NewsInv
    <3> QED
      BY <3>1, <3>2, Zenon DEF SummaryAged
  <2> QED
    BY <2>1, <2>2, <2>3, <2>4, Zenon DEF NewsInv
<1>3. ASSUME NEW from \in Nodes, NEW to \in Nodes, ExchangeGossip(from, to)
      PROVE  NewsInv'
  <2> DEFINE choices(h) == Kept(summaries[to][h], Heard(GenerateGossip(from), h))
  <2>1. PICK kept \in [HintSets -> UNION {choices(h) : h \in HintSets}] :
            /\ \A h \in HintSets : kept[h] \in choices(h)
            /\ summaries' = [summaries EXCEPT ![to] = kept]
    BY <1>3, Zenon DEF ExchangeGossip
  <2>2. clock' = clock /\ clock \in Nat
    BY <1>3, Zenon DEF ExchangeGossip, NewsInv
  <2>3. ASSUME NEW h \in HintSets
        PROVE  SummaryAged(kept[h], clock)
    <3>1. kept[h] = summaries[to][h] \/ kept[h] \in Heard(GenerateGossip(from), h)
      BY <2>1, KeptIsOldOrHeard, Zenon
    <3>2. SummaryAged(summaries[to][h], clock)
      BY Zenon DEF NewsInv
    <3> QED
      BY <3>1, <3>2, HeardIsAged, Zenon
  <2> HIDE DEF choices
  <2>4. kept = [h \in HintSets |-> kept[h]]
    BY <2>1, Zenon
  <2>5. \A n \in Nodes : summaries'[n] = IF n = to THEN kept ELSE summaries[n]
    BY <2>1, Zenon DEF NewsInv
  <2>6. summaries' = [n \in Nodes |-> [h \in HintSets |-> summaries'[n][h]]]
    <3>1. DOMAIN summaries' = Nodes /\ summaries' = [n \in Nodes |-> summaries'[n]]
      BY <2>1, Zenon DEF NewsInv
    <3>2. ASSUME NEW n \in Nodes PROVE summaries'[n] = [h \in HintSets |-> summaries'[n][h]]
      <4>1. summaries[n] = [h \in HintSets |-> summaries[n][h]]
        BY Zenon DEF NewsInv
      <4>2. summaries'[n] = IF n = to THEN kept ELSE summaries[n]
        BY <2>5, Zenon
      <4>3. CASE n = to
        <5>1. summaries'[n] = kept
          BY <4>2, <4>3, Zenon
        <5> QED
          BY <2>4, <5>1, Zenon
      <4>4. CASE n # to
        <5>1. summaries'[n] = summaries[n]
          BY <4>2, <4>4, Zenon
        <5> QED
          BY <4>1, <5>1, Zenon
      <4> QED
        BY <4>3, <4>4, Zenon
    <3> QED
      BY <3>1, <3>2, Zenon
  <2>7. \A n \in Nodes, h \in HintSets : SummaryAged(summaries'[n][h], clock')
    BY <2>2, <2>3, <2>5, Zenon DEF NewsInv
  <2> DEFINE said == [hints |-> Summarize(from), updated |-> clock, born |-> clock]
  <2>8. GatewayFresh(said, clock)
    BY <2>2, GossipAssumption DEF GatewayFresh
  <2>9. gateways' = [gateways EXCEPT ![to][from] = said]
    BY <1>3, Zenon DEF ExchangeGossip
  <2> HIDE DEF said
  <2>10. gateways' = [n \in Nodes |-> [m \in Nodes |-> gateways'[n][m]]]
    BY <2>9, Zenon DEF NewsInv
  <2>11. \A n, m \in Nodes : gateways'[n][m] = IF n = to /\ m = from THEN said ELSE gateways[n][m]
    BY <2>9, Zenon DEF NewsInv
  <2>12. \A n, m \in Nodes : GatewayFresh(gateways'[n][m], clock')
    <3> SUFFICES ASSUME NEW n \in Nodes, NEW m \in Nodes
                 PROVE  GatewayFresh(gateways'[n][m], clock)
      BY <2>2, Zenon
    <3>1. gateways'[n][m] = said \/ gateways'[n][m] = gateways[n][m]
      BY <2>11, Zenon
    <3>2. GatewayFresh(gateways[n][m], clock)
      BY Zenon DEF NewsInv
    <3> QED
      BY <2>8, <3>1, <3>2, Zenon
  <2> QED
    BY <2>2, <2>6, <2>7, <2>10, <2>12, Zenon DEF NewsInv
<1>4. ASSUME NEW n \in Nodes, NEW l \in Leaves,
             \/ PeerSeen(n, l)
             \/ \E hints \in HintSets : UpdatePeerHints(n, l, hints)
             \/ \E good \in BOOLEAN : UpdateReliability(n, l, good)
      PROVE  NewsInv'
  <2>1. UNCHANGED <<gateways, summaries, clock>>
    BY <1>4, Zenon DEF PeerSeen, UpdatePeerHints, UpdateReliability
  <2> QED
    BY <1>1, <2>1, Zenon
<1>5. CASE UNCHANGED gossipVars
  BY <1>1, <1>5, Zenon DEF gossipVars
<1> QED
  BY <1>2, <1>3, <1>4, <1>5, Zenon DEF GossipNext

(* The bound on every hop gives the bound on the age.                      *)
LEMMA NewsInvImplies == NewsInv => NewsDiesOut
<1> SUFFICES ASSUME NewsInv PROVE NewsDiesOut
  BY Zenon
<1>0. clock \in Nat /\ MaxStaleness \in Nat
  BY GossipAssumption, Zenon DEF NewsInv
<1>1. ASSUME NEW n \in Nodes, NEW m \in Nodes, gateways[n][m] # NoBody
      PROVE  clock - gateways[n][m].born <= MaxStaleness
  BY <1>1, Zenon DEF NewsInv, GatewayFresh
<1>2. ASSUME NEW n \in Nodes, NEW h \in HintSets, summaries[n][h] # NoBody
      PROVE  clock - summaries[n][h].born <= summaries[n][h].hops * MaxStaleness
  <2> DEFINE s == summaries[n][h]
  <2>1. /\ s.hops \in Nat \ {0} /\ s.time \in Nat /\ s.born \in Nat
        /\ clock - s.time <= MaxStaleness
        /\ s.time - s.born <= (s.hops - 1) * MaxStaleness
    BY <1>2, Zenon DEF NewsInv, SummaryAged
  <2>2. /\ (s.hops - 1) * MaxStaleness + MaxStaleness = s.hops * MaxStaleness
        /\ (s.hops - 1) * MaxStaleness \in Int
    <3>1. s.hops \in Int /\ s.hops - 1 \in Int /\ MaxStaleness \in Int
      BY <1>0, <2>1
    <3> QED
      BY <3>1, OneHopMore, ProductIsInt, Zenon
  <2> HIDE DEF s
  <2>3. clock - s.born <= (s.hops - 1) * MaxStaleness + MaxStaleness
    BY <1>0, <2>1, <2>2
  <2>4. clock - s.born <= s.hops * MaxStaleness
    BY <2>2, <2>3, Zenon
  <2> QED
    BY <2>4, Zenon DEF s
<1> QED
  BY <1>1, <1>2, Zenon DEF NewsDiesOut

(* Old news dies out, whatever the nodes, the cells and the limits: what a *)
(* routing table still says of a node was said by that node at most        *)
(* MaxHops times MaxStaleness ago, in routing ticks on clocks that agree   *)
(* (gossip of core/src/routing), although every relayer stamps a summary   *)
(* anew.                                                                   *)
THEOREM OldNewsDiesOut == GossipSpec => []NewsDiesOut
<1>1. NewsInv /\ [GossipNext]_gossipVars => NewsInv'
  BY NewsKept, Zenon
<1> QED
  BY <1>1, NewsInitially, NewsInvImplies, PTL DEF GossipSpec

-----------------------------------------------------------------------------
(* Keys, chains, sessions and messages.                                    *)
PublicKeys == Parties \X Nat
Chains == Seq(SUBSET PublicKeys)
ChainKeys == [chain: Chains, n: Nat]
SkippedKeys == [dh: PublicKeys, n: Nat, chain: Chains]
Sessions == [dh: PublicKeys, their: SUBSET PublicKeys, root: Chains, send: SUBSET ChainKeys,
             recv: SUBSET ChainKeys, steps: Nat, skipped: SUBSET SkippedKeys,
             identitySecret: BOOLEAN, init: BOOLEAN]
Letters == [to: Parties, no: Nat, plain: BOOLEAN, dh: PublicKeys, n: Nat, chain: Chains]

(* The keys a session still holds: its chains are no longer than the root, *)
(* a skipped key is behind the receiving chain and is held once.           *)
SessionOK(s) ==
    /\ \A c \in s.recv: Len(c.chain) <= Len(s.root)
    /\ \A k \in s.skipped: /\ Len(k.chain) <= Len(s.root)
                           /\ \A c \in s.recv: k.chain = c.chain => k.n < c.n
    /\ \A k, l \in s.skipped: k.chain = l.chain /\ k.n = l.n => k = l

(* The key of m is used up: the session has no copy of it, its receiving   *)
(* chain is past it, and every later chain is longer than m's.             *)
Spent(s, m) ==
    /\ Len(m.chain) <= Len(s.root)
    /\ \A c \in s.recv: c.chain = m.chain => m.n < c.n
    /\ \A k \in s.skipped: ~(k.chain = m.chain /\ k.n = m.n)

(* The messages are numbered.                                              *)
SentOK ==
    /\ IsFiniteSet(ratchetSent) /\ ratchetSent \subseteq Letters
    /\ \A m \in ratchetSent: m.no \in 1 .. MaxSent /\ m.no <= Cardinality(ratchetSent)
    /\ \A m, l \in ratchetSent: m.no = l.no => m = l

(* Sessions in use and in backups are sound.                               *)
HeldOK ==
    /\ ses \in [Parties -> SUBSET Sessions] /\ saved \in [Parties -> SUBSET Sessions]
    /\ \A p \in Parties: \A s \in ses[p] \cup saved[p]: SessionOK(s)

(* What a session has decrypted once it cannot decrypt again.              *)
OpenedOK ==
    /\ opened \in [1 .. MaxSent -> {0, 1}]
    /\ \A n \in 1 .. MaxSent: n > Cardinality(ratchetSent) => opened[n] = 0
    /\ \A m \in ratchetSent: opened[m.no] = 1 =>
          ses[m.to] # {} /\ \A s \in ses[m.to]: Spent(s, m)

(* What both parties keep.                                                 *)
OnceInv == nextKey \in Nat /\ SentOK /\ HeldOK /\ OpenedOK

(* The other party of a session is a party.                                *)
LEMMA OtherIsParty == \A p \in Parties: Other(p) \in Parties
<1>1. ASSUME NEW p \in Parties PROVE \E q \in Parties: q # p
  BY <1>1, Zenon DEF Parties
<1> QED
  BY <1>1, Zenon DEF Other

(* A chain derived further is longer.                                      *)
LEMMA ChainGrows ==
    ASSUME NEW c \in Chains, NEW x \in SUBSET PublicKeys
    PROVE  Append(c, x) \in Chains /\ Len(Append(c, x)) = Len(c) + 1 /\ Len(c) \in Nat
  BY DEF Chains

(* The first root is a chain of shared secrets.                            *)
LEMMA SharedRootIsChain == SharedRoot \in Chains /\ \A p \in Parties: Identity(p) \in PublicKeys
<1>1. \A p \in Parties: Identity(p) \in PublicKeys
  BY Zenon DEF Identity, PublicKeys
<1>2. DH(Identity("a"), Identity("b")) \in SUBSET PublicKeys
  BY <1>1, Zenon DEF DH, Parties
<1> QED
  BY <1>1, <1>2 DEF SharedRoot, Chains

(* A longer root leaves a session sound and keeps used-up keys used up.    *)
LEMMA LongerRoot ==
    ASSUME NEW s \in Sessions, NEW t \in Sessions, SessionOK(s),
           t.recv = s.recv, t.skipped = s.skipped,
           Len(s.root) \in Nat, Len(t.root) = Len(s.root) + 1
    PROVE  SessionOK(t) /\ \A m \in Letters: Spent(s, m) => Spent(t, m)
<1>1. \A n \in Nat: n <= Len(s.root) => n <= Len(t.root)
  OBVIOUS
<1>2. \A c \in Chains: Len(c) \in Nat
  BY DEF Chains
<1>3. /\ \A c \in s.recv: Len(c.chain) \in Nat
      /\ \A k \in s.skipped: Len(k.chain) \in Nat
      /\ \A m \in Letters: Len(m.chain) \in Nat
  BY <1>2, Zenon DEF Sessions, ChainKeys, SkippedKeys, Letters
<1>4. SessionOK(t)
  BY <1>1, <1>3, Zenon DEF SessionOK
<1>5. \A m \in Letters: Spent(s, m) => Spent(t, m)
  BY <1>1, <1>3, Zenon DEF Spent
<1> QED
  BY <1>4, <1>5, Zenon

(* A new chain starts at its root.                                         *)
LEMMA NewChainTyped == ASSUME NEW r \in Chains PROVE NewChain(r) \subseteq ChainKeys
  BY DEF NewChain, ChainKeys

(* A message is not opened, or was opened once.                            *)
LEMMA OnceInvImplies == OnceInv => OpenedOnce
  BY DEF OnceInv, OpenedOK, OpenedOnce

(* Numbers of keys go up.                                                  *)
LEMMA NextKeyTyped == OnceInv /\ nextKey' = nextKey + 1 => nextKey' \in Nat
  BY DEF OnceInv

(* Two chains were derived from the root of s, the first to receive with.  *)
Ratcheted(s, t) ==
    /\ t \in Sessions /\ t.skipped = s.skipped
    /\ \E r \in Chains: /\ t.recv = {[chain |-> r, n |-> 0]}
                        /\ Len(r) = Len(s.root) + 1 /\ Len(t.root) = Len(s.root) + 2

(* handle_dh_ratchet: the new receiving chain is longer than any before.   *)
LEMMA RatchetFields ==
    ASSUME NEW p \in Parties, NEW s \in Sessions, NEW theirs \in PublicKeys, NEW key \in PublicKeys
    PROVE  Ratcheted(s, HandleDhRatchet(p, s, theirs, key))
<1> DEFINE first == IF s.identitySecret THEN Identity(p) ELSE s.dh
           root1 == Append(s.root, DH(first, theirs))
           root2 == Append(root1, DH(key, theirs))
           t == HandleDhRatchet(p, s, theirs, key)
<1>1. s.root \in Chains /\ first \in PublicKeys
  BY SharedRootIsChain, Zenon DEF Sessions
<1>2. DH(first, theirs) \in SUBSET PublicKeys /\ DH(key, theirs) \in SUBSET PublicKeys
  BY <1>1, Zenon DEF DH
<1>3. /\ root1 \in Chains /\ Len(root1) = Len(s.root) + 1 /\ Len(s.root) \in Nat
      /\ root2 \in Chains /\ Len(root2) = Len(root1) + 1
  BY <1>1, <1>2, ChainGrows, Zenon
<1>4. t = [s EXCEPT !.dh = key, !.their = {theirs}, !.root = root2,
                    !.recv = NewChain(root1), !.send = NewChain(root2),
                    !.steps = @ + 1, !.identitySecret = FALSE, !.init = TRUE]
  BY Zenon DEF HandleDhRatchet
<1> HIDE DEF t, root1, root2, first
<1>5. NewChain(root1) \subseteq ChainKeys /\ NewChain(root2) \subseteq ChainKeys
  BY <1>3 DEF NewChain, ChainKeys
<1>6. t \in Sessions /\ t.recv = NewChain(root1) /\ t.root = root2 /\ t.skipped = s.skipped
  <2>1. t = [dh |-> key, their |-> {theirs}, root |-> root2, send |-> NewChain(root2),
             recv |-> NewChain(root1), steps |-> s.steps + 1, skipped |-> s.skipped,
             identitySecret |-> FALSE, init |-> TRUE]
    BY <1>4, Zenon DEF Sessions
  <2>2. s.steps + 1 \in Nat /\ s.skipped \subseteq SkippedKeys
    BY DEF Sessions
  <2> QED
    BY <1>3, <1>5, <2>1, <2>2, Zenon DEF Sessions
<1>7. Len(root2) = Len(s.root) + 2 /\ NewChain(root1) = {[chain |-> root1, n |-> 0]}
  BY <1>3 DEF NewChain
<1>8. \E r \in Chains: /\ t.recv = {[chain |-> r, n |-> 0]}
                       /\ Len(r) = Len(s.root) + 1 /\ Len(t.root) = Len(s.root) + 2
  BY <1>3, <1>6, <1>7, Zenon
<1> QED
  BY <1>6, <1>8, Zenon DEF Ratcheted, t

(* A ratchet step keeps the keys in order, and brings none back.           *)
LEMMA RatchetKeeps ==
    ASSUME NEW p \in Parties, NEW s \in Sessions, SessionOK(s),
           NEW theirs \in PublicKeys, NEW key \in PublicKeys
    PROVE  LET t == HandleDhRatchet(p, s, theirs, key)
           IN  t \in Sessions /\ SessionOK(t) /\ \A m \in Letters: Spent(s, m) => Spent(t, m)
<1> DEFINE t == HandleDhRatchet(p, s, theirs, key)
<1>1. Ratcheted(s, t) /\ t \in Sessions /\ t.skipped = s.skipped
  <2>1. Ratcheted(s, t)
    BY RatchetFields, Zenon
  <2> HIDE DEF t
  <2> QED
    BY <2>1, Zenon DEF Ratcheted
<1> HIDE DEF t
<1>2. PICK r \in Chains: /\ t.recv = {[chain |-> r, n |-> 0]}
                         /\ Len(r) = Len(s.root) + 1 /\ Len(t.root) = Len(s.root) + 2
  BY <1>1, Zenon DEF Ratcheted
<1>3. Len(s.root) \in Nat /\ \A k \in s.skipped: k.chain # r
  <2>1. s.root \in Chains
    BY Zenon DEF Sessions
  <2>2. Len(s.root) \in Nat
    BY <2>1
  <2> QED
    BY <1>2, <2>2 DEF SessionOK
<1>4. \A k \in s.skipped: Len(k.chain) \in Nat
  OBVIOUS
<1>5. SessionOK(t)
  <2>1. \A c \in t.recv: c.chain = r
    BY <1>2
  <2>2. \A k \in t.skipped: Len(k.chain) <= Len(t.root)
    BY <1>1, <1>2, <1>3, <1>4 DEF SessionOK
  <2> QED
    BY <1>1, <1>2, <1>3, <2>1, <2>2 DEF SessionOK
<1>6. ASSUME NEW m \in Letters, Spent(s, m) PROVE Spent(t, m)
  <2>1. Len(m.chain) \in Nat
    OBVIOUS
  <2>2. Len(m.chain) <= Len(s.root) /\ m.chain # r
    BY <1>2, <1>3, <1>6, <2>1 DEF Spent
  <2>3. \A c \in t.recv: c.chain = r
    BY <1>2
  <2> QED
    BY <1>1, <1>2, <1>3, <1>6, <2>1, <2>2, <2>3 DEF Spent
<1> QED
  BY <1>1, <1>5, <1>6, Zenon DEF t

(* The parts of a session.                                                 *)
LEMMA SessionParts ==
    ASSUME NEW s \in Sessions
    PROVE  s.recv \subseteq ChainKeys /\ s.skipped \subseteq SkippedKeys /\ Len(s.root) \in Nat
<1>1. s.root \in Chains /\ s.recv \subseteq ChainKeys /\ s.skipped \subseteq SkippedKeys
  BY Zenon DEF Sessions
<1> QED
  BY <1>1

(* get_message_key, the key of a skipped message: it is taken out.         *)
LEMMA CachedKeyKeeps ==
    ASSUME NEW s \in Sessions, SessionOK(s), NEW m \in Letters, NEW k \in s.skipped
    PROVE  /\ WithoutKey(s, k) \in Sessions /\ SessionOK(WithoutKey(s, k))
           /\ \A x \in Letters: Spent(s, x) => Spent(WithoutKey(s, k), x)
           /\ k.chain = m.chain /\ k.n = m.n => ~Spent(s, m) /\ Spent(WithoutKey(s, k), m)
<1> DEFINE t == WithoutKey(s, k)
<1>1. s.skipped \ {k} \in SUBSET SkippedKeys
  BY SessionParts, Zenon
<1>2. t \in Sessions /\ t.root = s.root /\ t.recv = s.recv /\ t.skipped = s.skipped \ {k}
  BY <1>1, Zenon DEF WithoutKey, Sessions
<1> HIDE DEF t
<1>3. SessionOK(t)
  BY <1>2, Zenon DEF SessionOK
<1>4. \A x \in Letters: Spent(s, x) => Spent(t, x)
  BY <1>2, Zenon DEF Spent
<1>5. ASSUME k.chain = m.chain, k.n = m.n PROVE ~Spent(s, m) /\ Spent(t, m)
  BY <1>2, <1>5, Zenon DEF SessionOK, Spent
<1> QED
  BY <1>2, <1>3, <1>4, <1>5, Zenon DEF t

(* get_message_key, the key of a message further on: the keys before it    *)
(* are skipped, and the chain goes past it.                                *)
LEMMA ChainKeyKeeps ==
    ASSUME NEW s \in Sessions, SessionOK(s), NEW m \in Letters, NEW c \in s.recv, ~(m.n < c.n),
           NEW S \in SUBSET (s.skipped \cup
                    {[dh |-> m.dh, n |-> i, chain |-> c.chain] : i \in c.n .. (m.n - 1)}),
           NEW t, t = [s EXCEPT !.recv = {[c EXCEPT !.n = m.n + 1]}, !.skipped = S]
    PROVE  /\ t \in Sessions /\ SessionOK(t)
           /\ \A x \in Letters: Spent(s, x) => Spent(t, x)
           /\ c.chain = m.chain => ~Spent(s, m) /\ Spent(t, m)
<1> DEFINE d == [c EXCEPT !.n = m.n + 1]
<1>1. c \in ChainKeys /\ c.n \in Nat /\ c.chain \in Chains /\ m.n \in Nat /\ m.dh \in PublicKeys
  BY SessionParts, Zenon DEF ChainKeys, Letters
<1>2. d \in ChainKeys /\ d.chain = c.chain /\ d.n = m.n + 1
  BY <1>1 DEF ChainKeys
<1> HIDE DEF d
<1>3. \A k \in S: \/ k \in s.skipped
                  \/ k.dh = m.dh /\ k.chain = c.chain /\ k.n \in c.n .. (m.n - 1) /\ k \in SkippedKeys
  BY <1>1 DEF SkippedKeys
<1>4. S \subseteq SkippedKeys
  BY <1>3, SessionParts, Zenon
<1>5. t \in Sessions /\ t.root = s.root /\ t.recv = {d} /\ t.skipped = S
  <2>1. {d} \in SUBSET ChainKeys /\ S \in SUBSET SkippedKeys
    BY <1>2, <1>4, Zenon
  <2> QED
    BY <2>1, Zenon DEF Sessions, d
<1>6. Len(c.chain) <= Len(s.root) /\ \A k \in s.skipped: k.n \in Nat /\ (k.chain = c.chain => k.n < c.n)
  BY SessionParts, Zenon DEF SessionOK, SkippedKeys
<1>7. SessionOK(t)
  <2>1. \A k \in S: Len(k.chain) <= Len(s.root)
    BY <1>3, <1>6, Zenon DEF SessionOK
  <2>2. \A k \in S: k.chain = c.chain => k.n < m.n + 1
    BY <1>1, <1>3, <1>6
  <2>3. ASSUME NEW k \in S, NEW l \in S, k.chain = l.chain, k.n = l.n PROVE k = l
    <3>1. CASE k \in s.skipped /\ l \in s.skipped
      BY <2>3, <3>1, Zenon DEF SessionOK
    <3>2. CASE k \notin s.skipped /\ l \notin s.skipped
      <4>1. k \in SkippedKeys /\ l \in SkippedKeys /\ k.dh = l.dh
        BY <1>3, <3>2
      <4> QED
        BY <2>3, <4>1 DEF SkippedKeys
    <3>3. CASE ~(k \in s.skipped <=> l \in s.skipped)
      BY <1>1, <1>3, <1>6, <2>3, <3>3
    <3> QED
      BY <3>1, <3>2, <3>3, Zenon
  <2> QED
    BY <1>2, <1>5, <1>6, <2>1, <2>2, <2>3 DEF SessionOK
<1>8. ASSUME NEW x \in Letters, Spent(s, x) PROVE Spent(t, x)
  <2>1. x.n \in Nat
    BY Zenon DEF Letters
  <2>2. x.chain = c.chain => x.n < c.n
    BY <1>8, Zenon DEF Spent
  <2> QED
    BY <1>1, <1>2, <1>3, <1>5, <1>8, <2>1, <2>2 DEF Spent
<1>9. ASSUME c.chain = m.chain PROVE ~Spent(s, m) /\ Spent(t, m)
  BY <1>1, <1>2, <1>3, <1>5, <1>6, <1>9 DEF Spent
<1> QED
  BY <1>5, <1>7, <1>8, <1>9, Zenon

(* Whatever get_message_key answers, no key comes back, and the key of the *)
(* message was there before and is gone afterwards.                        *)
KeyUsed(s, m, r) ==
    /\ r.session \in Sessions /\ SessionOK(r.session)
    /\ \A x \in Letters: Spent(s, x) => Spent(r.session, x)
    /\ r.key = {<<m.chain, m.n>>} => ~Spent(s, m) /\ Spent(r.session, m)

(* The key that get_message_key returns is spent afterwards, and what was  *)
(* spent stays so.                                                         *)
LEMMA GetMessageKeyKeeps ==
    ASSUME NEW s \in Sessions, SessionOK(s), NEW m \in Letters, NEW r \in GetMessageKey(s, m)
    PROVE  KeyUsed(s, m, r)
<1> DEFINE cached == {k \in s.skipped : k.dh = m.dh /\ k.n = m.n}
           c == CHOOSE c \in s.recv : TRUE
<1>1. CASE cached # {}
  <2>1. PICK k \in cached: r = [session |-> WithoutKey(s, k), key |-> {<<k.chain, k.n>>}]
    BY <1>1, Zenon DEF GetMessageKey
  <2>2. r.session = WithoutKey(s, k) /\ r.key = {<<k.chain, k.n>>}
    BY <2>1, Zenon
  <2> HIDE DEF cached
  <2>3. ASSUME r.key = {<<m.chain, m.n>>} PROVE k.chain = m.chain
    <3>1. {<<k.chain, k.n>>} = {<<m.chain, m.n>>}
      BY <2>2, <2>3, Zenon
    <3>2. <<k.chain, k.n>> = <<m.chain, m.n>>
      BY <3>1, Zenon
    <3> QED
      BY <3>2, Zenon
  <2>4. k \in s.skipped /\ k.n = m.n
    BY Zenon DEF cached
  <2> QED
    BY <2>2, <2>3, <2>4, CachedKeyKeeps DEF KeyUsed
<1>2. CASE r = Refused(s)
  BY <1>2, Zenon DEF Refused, KeyUsed
<1>3. CASE cached = {} /\ s.recv # {} /\ ~(m.n < c.n \/ m.n - c.n > MaxSkipKeys)
  <2>1. c \in s.recv /\ ~(m.n < c.n)
    BY <1>3, Zenon
  <2> DEFINE more == s.skipped \cup {[dh |-> m.dh, n |-> i, chain |-> c.chain] : i \in c.n .. (m.n - 1)}
  <2>2. PICK S \in KeptSkipped(more):
           r = [session |-> [s EXCEPT !.recv = {[c EXCEPT !.n = m.n + 1]}, !.skipped = S],
                key |-> {<<c.chain, m.n>>}]
    BY <1>3, Zenon DEF GetMessageKey
  <2>3. S \in SUBSET more
    BY <2>2, Zenon DEF KeptSkipped
  <2>4. /\ r.session = [s EXCEPT !.recv = {[c EXCEPT !.n = m.n + 1]}, !.skipped = S]
        /\ r.key = {<<c.chain, m.n>>}
    BY <2>2, Zenon
  <2> HIDE DEF c
  <2>5. ASSUME r.key = {<<m.chain, m.n>>} PROVE c.chain = m.chain
    <3>1. {<<c.chain, m.n>>} = {<<m.chain, m.n>>}
      BY <2>4, <2>5, Zenon
    <3>2. <<c.chain, m.n>> = <<m.chain, m.n>>
      BY <3>1, Zenon
    <3> QED
      BY <3>2, Zenon
  <2>6. /\ r.session \in Sessions /\ SessionOK(r.session)
        /\ \A x \in Letters: Spent(s, x) => Spent(r.session, x)
        /\ c.chain = m.chain => ~Spent(s, m) /\ Spent(r.session, m)
    BY <2>1, <2>3, <2>4, ChainKeyKeeps, Zenon
  <2> QED
    BY <2>5, <2>6, Zenon DEF KeyUsed
<1> QED
  BY <1>1, <1>2, <1>3, Zenon DEF GetMessageKey

(* A message that decrypts is spent in the session that decrypted it.      *)
LEMMA DecryptedKeeps ==
    ASSUME NEW p \in Parties, NEW s \in Sessions, SessionOK(s), NEW m \in Letters,
           NEW key \in PublicKeys, NEW r \in Decrypted(p, s, m, key)
    PROVE  KeyUsed(s, m, r)
<1>1. CASE m.dh \in s.their
  BY <1>1, GetMessageKeyKeeps, Zenon DEF Decrypted, Stepped
<1>2. CASE m.dh \notin s.their
  <2> DEFINE t == HandleDhRatchet(p, s, m.dh, key)
  <2>1. t \in Sessions /\ SessionOK(t) /\ \A x \in Letters: Spent(s, x) => Spent(t, x)
    BY RatchetKeeps, Zenon DEF Letters
  <2>2. r \in GetMessageKey(t, m)
    BY <1>2, Zenon DEF Decrypted, Stepped
  <2> HIDE DEF t
  <2>3. KeyUsed(t, m, r)
    BY <2>1, <2>2, GetMessageKeyKeeps, Zenon
  <2> QED
    BY <2>1, <2>3, Zenon DEF KeyUsed
<1> QED
  BY <1>1, <1>2, Zenon

(* Nothing is sent at first.                                               *)
LEMMA OnceInitially == RatchetInit => OnceInv
<1> SUFFICES ASSUME RatchetInit PROVE OnceInv
  BY Zenon
<1>1. SentOK
  BY FS_EmptySet, Zenon DEF RatchetInit, SentOK
<1>2. HeldOK
  BY Zenon DEF RatchetInit, HeldOK
<1>3. OpenedOK
  BY Zenon DEF RatchetInit, OpenedOK
<1> QED
  BY <1>1, <1>2, <1>3, Zenon DEF RatchetInit, OnceInv

(* The sessions of p become T, which know what p's session knew.           *)
LEMMA SessionReplaced ==
    ASSUME OnceInv, NEW p \in Parties, NEW T \in SUBSET Sessions, \A t \in T: SessionOK(t),
           ses' = [ses EXCEPT ![p] = T], nextKey' \in Nat,
           UNCHANGED <<saved, ratchetSent, opened>>,
           \A m \in ratchetSent: m.to = p /\ opened[m.no] = 1 => T # {} /\ \A t \in T: Spent(t, m)
    PROVE  OnceInv'
<1>1. SentOK' /\ nextKey' \in Nat
  BY Zenon DEF OnceInv, SentOK
<1>2. HeldOK'
  BY Zenon DEF OnceInv, HeldOK
<1>3. OpenedOK'
  BY DEF OnceInv, OpenedOK
<1> QED
  BY <1>1, <1>2, <1>3, Zenon DEF OnceInv

(* The sessions of p become T, and what was opened in the old ones is      *)
(* forgotten.                                                              *)
LEMMA SessionForgotten ==
    ASSUME OnceInv, NEW p \in Parties, NEW T \in SUBSET Sessions, \A t \in T: SessionOK(t),
           ses' = [ses EXCEPT ![p] = T], nextKey' \in Nat, opened' = Forgotten(p),
           UNCHANGED <<saved, ratchetSent>>
    PROVE  OnceInv'
<1>1. SentOK' /\ nextKey' \in Nat
  BY Zenon DEF OnceInv, SentOK
<1>2. HeldOK'
  BY Zenon DEF OnceInv, HeldOK
<1>3. opened' \in [1 .. MaxSent -> {0, 1}]
  BY Zenon DEF OnceInv, OpenedOK, Forgotten
<1>4. \A n \in 1 .. MaxSent: opened'[n] = 1 => opened[n] = 1
  BY DEF Forgotten
<1>5. \A m \in ratchetSent: opened'[m.no] = 1 => m.to # p /\ opened[m.no] = 1
  BY DEF OnceInv, SentOK, Forgotten
<1>6. OpenedOK'
  <2>1. \A n \in 1 .. MaxSent: n > Cardinality(ratchetSent) => opened'[n] = 0
    BY <1>3, <1>4, Zenon DEF OnceInv, OpenedOK
  <2>2. ASSUME NEW m \in ratchetSent, opened'[m.no] = 1
        PROVE  ses'[m.to] # {} /\ \A s \in ses'[m.to]: Spent(s, m)
    <3>1. m.to \in Parties
      BY Zenon DEF OnceInv, SentOK, Letters
    <3>2. ses'[m.to] = ses[m.to]
      BY <1>5, <2>2, <3>1
    <3> QED
      BY <1>5, <2>2, <3>2, Zenon DEF OnceInv, OpenedOK
  <2> QED
    BY <1>3, <2>1, <2>2, Zenon DEF OpenedOK
<1> QED
  BY <1>1, <1>2, <1>6, Zenon DEF OnceInv

(* A new message has not been opened.                                      *)
LEMMA MessageAdded ==
    ASSUME OnceInv, NEW m \in Letters, m.no = Cardinality(ratchetSent) + 1,
           Cardinality(ratchetSent) < MaxSent, ratchetSent' = ratchetSent \cup {m}
    PROVE  /\ SentOK' /\ opened[m.no] = 0
           /\ \A n \in 1 .. MaxSent: n > Cardinality(ratchetSent)' => opened[n] = 0
<1>1. /\ IsFiniteSet(ratchetSent) /\ Cardinality(ratchetSent) \in Nat /\ MaxSent \in Nat
      /\ \A l \in ratchetSent: l.no \in 1 .. MaxSent /\ l.no <= Cardinality(ratchetSent)
  BY FS_CardinalityType, RatchetAssumption, Zenon DEF OnceInv, SentOK
<1>2. m \notin ratchetSent
  BY <1>1
<1>3. IsFiniteSet(ratchetSent') /\ Cardinality(ratchetSent') = Cardinality(ratchetSent) + 1
  BY <1>1, <1>2, FS_AddElement, Zenon
<1>4. m.no \in 1 .. MaxSent
  BY <1>1
<1>5. SentOK'
  <2>1. ratchetSent' \subseteq Letters
    BY Zenon DEF OnceInv, SentOK
  <2>2. \A l \in ratchetSent': l.no \in 1 .. MaxSent /\ l.no <= Cardinality(ratchetSent')
    BY <1>1, <1>3, <1>4
  <2>3. \A k, l \in ratchetSent': k.no = l.no => k = l
    BY <1>1 DEF OnceInv, SentOK
  <2> QED
    BY <1>3, <2>1, <2>2, <2>3, Zenon DEF SentOK
<1> QED
  BY <1>1, <1>3, <1>4, <1>5 DEF OnceInv, OpenedOK

(* A message without a session leaves the sessions alone.                  *)
LEMMA SendPlainKeeps ==
    ASSUME OnceInv, NEW p \in Parties, SendPlain(p)
    PROVE  OnceInv'
<1> DEFINE m == EncryptMessage(p, <<p, nextKey>>)
<1>1. <<p, nextKey>> \in PublicKeys /\ Other(p) \in Parties /\ Identity(Other(p)) \in PublicKeys
  BY OtherIsParty, SharedRootIsChain, Zenon DEF OnceInv, PublicKeys
<1>2. <<DH(<<p, nextKey>>, Identity(Other(p)))>> \in Chains
  BY <1>1 DEF DH, Chains
<1>3. m \in Letters /\ m.no = Cardinality(ratchetSent) + 1
  BY <1>1, <1>2, FS_CardinalityType DEF EncryptMessage, Letters, OnceInv, SentOK
<1>4. ratchetSent' = ratchetSent \cup {m} /\ Cardinality(ratchetSent) < MaxSent
      /\ nextKey' = nextKey + 1 /\ UNCHANGED <<ses, saved, opened>>
  BY Zenon DEF SendPlain
<1> HIDE DEF m
<1>5. SentOK' /\ opened[m.no] = 0
      /\ \A n \in 1 .. MaxSent: n > Cardinality(ratchetSent)' => opened[n] = 0
  BY <1>3, <1>4, MessageAdded, Zenon
<1>6. HeldOK'
  BY <1>4, Zenon DEF OnceInv, HeldOK
<1>7. \A x \in ratchetSent': opened[x.no] = 1 => x \in ratchetSent
  BY <1>4, <1>5
<1>8. OpenedOK'
  BY <1>4, <1>5, <1>7, Zenon DEF OnceInv, OpenedOK
<1> QED
  BY <1>4, <1>5, <1>6, <1>8 DEF OnceInv

(* encrypt_message uses its sending chain, which no invariant is about.    *)
LEMMA EncryptKeeps ==
    ASSUME OnceInv, NEW p \in Parties, Send(p)
    PROVE  OnceInv'
<1>1. PICK s \in ses[p]: \E c \in s.send:
         /\ ratchetSent' = ratchetSent \cup {[to |-> Other(p), no |-> Cardinality(ratchetSent) + 1,
               plain |-> FALSE, dh |-> s.dh, n |-> c.n, chain |-> c.chain]}
         /\ ses' = [ses EXCEPT ![p] = {[s EXCEPT !.send = {[c EXCEPT !.n = @ + 1]}]}]
  BY Zenon DEF Send
<1>2. PICK c \in s.send:
         /\ ratchetSent' = ratchetSent \cup {[to |-> Other(p), no |-> Cardinality(ratchetSent) + 1,
               plain |-> FALSE, dh |-> s.dh, n |-> c.n, chain |-> c.chain]}
         /\ ses' = [ses EXCEPT ![p] = {[s EXCEPT !.send = {[c EXCEPT !.n = @ + 1]}]}]
  BY <1>1, Zenon
<1> DEFINE m == [to |-> Other(p), no |-> Cardinality(ratchetSent) + 1,
                 plain |-> FALSE, dh |-> s.dh, n |-> c.n, chain |-> c.chain]
           d == [c EXCEPT !.n = @ + 1]
           t == [s EXCEPT !.send = {d}]
<1>3. s \in Sessions /\ SessionOK(s)
  BY Zenon DEF OnceInv, HeldOK
<1>4. c \in ChainKeys /\ s.dh \in PublicKeys
  BY <1>3, Zenon DEF Sessions
<1>5. d \in ChainKeys /\ c.n \in Nat /\ c.chain \in Chains
  BY <1>4 DEF ChainKeys
<1>6. m \in Letters /\ m.no = Cardinality(ratchetSent) + 1
  BY <1>4, <1>5, OtherIsParty, FS_CardinalityType DEF Letters, OnceInv, SentOK
<1> HIDE DEF d
<1>7. t \in Sessions /\ t.root = s.root /\ t.recv = s.recv /\ t.skipped = s.skipped
  BY <1>3, <1>5, Zenon DEF Sessions
<1>8. /\ ratchetSent' = ratchetSent \cup {m} /\ Cardinality(ratchetSent) < MaxSent
      /\ ses' = [ses EXCEPT ![p] = {t}] /\ UNCHANGED <<nextKey, saved, opened>>
  BY <1>2, Zenon DEF Send, d
<1> HIDE DEF m, t
<1>9. SentOK' /\ opened[m.no] = 0
      /\ \A n \in 1 .. MaxSent: n > Cardinality(ratchetSent)' => opened[n] = 0
  BY <1>6, <1>8, MessageAdded, Zenon
<1>10. SessionOK(t) /\ \A x \in Letters: Spent(s, x) => Spent(t, x)
  BY <1>3, <1>7, Zenon DEF SessionOK, Spent
<1>11. HeldOK'
  BY <1>7, <1>8, <1>10, Zenon DEF OnceInv, HeldOK
<1>12. ASSUME NEW x \in ratchetSent', opened'[x.no] = 1
       PROVE  ses'[x.to] # {} /\ \A u \in ses'[x.to]: Spent(u, x)
  <2>1. x \in ratchetSent /\ x \in Letters /\ x.to \in Parties
    <3>1. opened[x.no] = 1 /\ x \in ratchetSent \cup {m} /\ x \in Letters
      BY <1>8, <1>9, <1>12, Zenon DEF SentOK
    <3>2. x # m
      BY <1>9, <3>1
    <3> QED
      BY <3>1, <3>2, Zenon DEF Letters
  <2>2. ses[x.to] # {} /\ \A u \in ses[x.to]: Spent(u, x)
    BY <1>8, <1>12, <2>1, Zenon DEF OnceInv, OpenedOK
  <2>3. CASE x.to = p
    <3>1. ses'[x.to] = {t}
      BY <1>8, <2>3, Zenon DEF OnceInv, HeldOK
    <3> QED
      BY <1>10, <2>1, <2>2, <2>3, <3>1, Zenon
  <2>4. CASE x.to # p
    <3>1. ses'[x.to] = ses[x.to]
      BY <1>8, <2>1, <2>4, Zenon DEF OnceInv, HeldOK
    <3> QED
      BY <2>2, <3>1, Zenon
  <2> QED
    BY <2>3, <2>4, Zenon
<1>13. OpenedOK'
  BY <1>8, <1>9, <1>12, Zenon DEF OnceInv, OpenedOK
<1> QED
  BY <1>8, <1>9, <1>11, <1>13, Zenon DEF OnceInv

(* A message without a session is not decrypted by one.                    *)
LEMMA ReceivePlainKeeps ==
    ASSUME OnceInv, NEW m \in ratchetSent, ReceivePlain(m)
    PROVE  OnceInv'
<1>1. UNCHANGED <<ses, saved, nextKey, ratchetSent, opened>>
  BY Zenon DEF ReceivePlain
<1> QED
  BY <1>1, Zenon DEF OnceInv, SentOK, HeldOK, OpenedOK

(* decrypt_message: the message was not decrypted before, and is spent     *)
(* now.                                                                    *)
LEMMA ReceiveKeeps ==
    ASSUME OnceInv, NEW m \in ratchetSent, Receive(m)
    PROVE  OnceInv'
<1> DEFINE p == m.to
<1>1. m \in Letters /\ p \in Parties /\ m.no \in 1 .. MaxSent
  BY Zenon DEF OnceInv, SentOK, Letters
<1>2. UNCHANGED <<saved, ratchetSent>>
  BY Zenon DEF Receive
<1>3. CASE UNCHANGED <<ses, nextKey, opened>>
  BY <1>2, <1>3, Zenon DEF OnceInv, SentOK, HeldOK, OpenedOK
<1>4. CASE ~UNCHANGED <<ses, nextKey, opened>>
  <2>1. PICK o \in ses[p], r \in UNION {Decrypted(p, s, m, <<p, nextKey>>) : s \in ses[p]}:
           /\ ses' = [ses EXCEPT ![p] = {r.session}]
           /\ nextKey' = IF m.dh \in o.their THEN nextKey ELSE nextKey + 1
           /\ opened' = [opened EXCEPT ![m.no] = IF r.key = {<<m.chain, m.n>>} THEN @ + 1 ELSE @]
    BY <1>4, Zenon DEF Receive
  <2>2. PICK s \in ses[p]: r \in Decrypted(p, s, m, <<p, nextKey>>)
    BY <2>1, Zenon
  <2>3. s \in Sessions /\ SessionOK(s) /\ <<p, nextKey>> \in PublicKeys
    BY <1>1, Zenon DEF OnceInv, HeldOK, PublicKeys
  <2> HIDE DEF p
  <2>4. KeyUsed(s, m, r)
    BY <1>1, <2>2, <2>3, DecryptedKeeps, Zenon
  <2>5. nextKey' \in Nat
    BY <2>1 DEF OnceInv
  <2>6. SentOK'
    BY <1>2, Zenon DEF OnceInv, SentOK
  <2>7. HeldOK'
    BY <1>2, <2>1, <2>4, Zenon DEF OnceInv, HeldOK, KeyUsed
  <2>8. \A x \in ratchetSent: opened[x.no] = 1 /\ x.to = p => Spent(r.session, x)
    BY <2>2, <2>4, Zenon DEF OnceInv, SentOK, OpenedOK, KeyUsed
  <2>9. opened \in [1 .. MaxSent -> {0, 1}]
    BY Zenon DEF OnceInv, OpenedOK
  <2>10. CASE r.key = {<<m.chain, m.n>>}
    <3>1. ~Spent(s, m) /\ Spent(r.session, m)
      BY <2>4, <2>10, Zenon DEF KeyUsed
    <3>2. opened[m.no] = 0
      BY <1>1, <2>2, <2>9, <3>1, Zenon DEF OnceInv, OpenedOK, p
    <3>3. opened' = [opened EXCEPT ![m.no] = 1]
      BY <2>1, <2>10, <3>2
    <3>4. opened' \in [1 .. MaxSent -> {0, 1}]
      BY <1>1, <2>9, <3>3, Zenon
    <3>5. \A n \in 1 .. MaxSent: n > Cardinality(ratchetSent)' => opened'[n] = 0
      <4>1. m.no <= Cardinality(ratchetSent) /\ Cardinality(ratchetSent) \in Nat
        BY FS_CardinalityType, Zenon DEF OnceInv, SentOK
      <4> QED
        BY <1>1, <1>2, <2>9, <3>3, <4>1 DEF OnceInv, OpenedOK
    <3>6. ASSUME NEW x \in ratchetSent, opened'[x.no] = 1
          PROVE  ses'[x.to] # {} /\ \A t \in ses'[x.to]: Spent(t, x)
      <4>1. x.to \in Parties /\ x.no \in 1 .. MaxSent /\ (x.no = m.no => x = m)
        BY Zenon DEF OnceInv, SentOK, Letters
      <4>2. x = m \/ opened[x.no] = 1
        BY <2>9, <3>3, <3>6, <4>1, Zenon
      <4>3. CASE x.to = p
        BY <1>1, <2>1, <2>8, <3>1, <4>2, <4>3, Zenon DEF OnceInv, HeldOK
      <4>4. CASE x.to # p
        <5>1. opened[x.no] = 1
          BY <4>2, <4>4, Zenon DEF p
        <5>2. ses'[x.to] = ses[x.to]
          BY <2>1, <4>1, <4>4, Zenon DEF OnceInv, HeldOK
        <5> QED
          BY <5>1, <5>2, Zenon DEF OnceInv, OpenedOK
      <4> QED
        BY <4>3, <4>4, Zenon
    <3>7. OpenedOK'
      BY <1>2, <3>4, <3>5, <3>6, Zenon DEF OpenedOK
    <3> QED
      BY <2>5, <2>6, <2>7, <3>7, Zenon DEF OnceInv
  <2>11. CASE r.key # {<<m.chain, m.n>>}
    <3>1. opened' = opened
      BY <2>1, <2>9, <2>11, Zenon
    <3>2. r.session \in Sessions /\ SessionOK(r.session)
      BY <2>4, Zenon DEF KeyUsed
    <3> DEFINE T == {r.session}
    <3>3. /\ T \in SUBSET Sessions /\ \A t \in T: SessionOK(t)
          /\ \A x \in ratchetSent: x.to = p /\ opened[x.no] = 1 => T # {} /\ \A t \in T: Spent(t, x)
      BY <2>8, <3>2, Zenon
    <3>4. ses' = [ses EXCEPT ![p] = T] /\ UNCHANGED <<saved, ratchetSent, opened>>
      BY <1>2, <2>1, <3>1, Zenon
    <3> HIDE DEF T
    <3> QED
      BY <1>1, <2>5, <3>3, <3>4, SessionReplaced, Zenon
  <2> QED
    BY <2>10, <2>11, Zenon
<1> QED
  BY <1>3, <1>4, Zenon

(* A session is created only where there is none, and there nothing was    *)
(* decrypted.                                                              *)
LEMMA GetOrCreateSessionKeeps ==
    ASSUME OnceInv, NEW p \in Parties, GetOrCreateSession(p)
    PROVE  OnceInv'
<1> DEFINE t == AsSender(p, <<p, nextKey>>)
           root == Append(SharedRoot, DH(<<p, nextKey>>, Identity(Other(p))))
<1>1. <<p, nextKey>> \in PublicKeys /\ Other(p) \in Parties /\ Identity(Other(p)) \in PublicKeys
  BY OtherIsParty, SharedRootIsChain, Zenon DEF OnceInv, PublicKeys
<1>2. root \in Chains
  BY <1>1, SharedRootIsChain, ChainGrows, Zenon DEF DH
<1>3. t = [dh |-> <<p, nextKey>>, their |-> {Identity(Other(p))}, root |-> root,
           send |-> NewChain(root), recv |-> {}, steps |-> 1, skipped |-> {},
           identitySecret |-> FALSE, init |-> TRUE]
  BY Zenon DEF AsSender
<1> HIDE DEF root, t
<1>4. NewChain(root) \subseteq ChainKeys
  BY <1>2 DEF NewChain, ChainKeys
<1>5. t \in Sessions /\ t.recv = {} /\ t.skipped = {}
  BY <1>1, <1>2, <1>3, <1>4, Zenon DEF Sessions
<1>6. SessionOK(t)
  BY <1>5, Zenon DEF SessionOK
<1>7. ses' = [ses EXCEPT ![p] = {t}] /\ nextKey' \in Nat /\ UNCHANGED <<saved, ratchetSent, opened>>
  BY DEF GetOrCreateSession, OnceInv, t
<1>8. \A m \in ratchetSent: m.to = p => opened[m.no] # 1
  BY Zenon DEF GetOrCreateSession, OnceInv, OpenedOK
<1>9. /\ {t} \in SUBSET Sessions /\ \A u \in {t}: SessionOK(u)
      /\ \A m \in ratchetSent: m.to = p /\ opened[m.no] = 1 => {t} # {} /\ \A u \in {t}: Spent(u, m)
  BY <1>5, <1>6, <1>8, Zenon
<1> QED
  BY <1>7, <1>9, SessionReplaced, Zenon

(* The receiver's session replaces the one before, and what that one       *)
(* decrypted is forgotten with it.                                         *)
LEMMA CreateReceiverSessionKeeps ==
    ASSUME OnceInv, NEW p \in Parties, CreateReceiverSession(p)
    PROVE  OnceInv'
<1> DEFINE t == AsReceiver(p, <<p, nextKey>>)
<1>1. <<p, nextKey>> \in PublicKeys
  BY Zenon DEF OnceInv, PublicKeys
<1>2. t \in Sessions /\ t.recv = {} /\ t.skipped = {}
  BY <1>1, SharedRootIsChain, Zenon DEF AsReceiver, Sessions
<1> HIDE DEF t
<1>3. /\ ses' = [ses EXCEPT ![p] = {t}] /\ opened' = Forgotten(p)
      /\ nextKey' = nextKey + 1 /\ UNCHANGED <<saved, ratchetSent>>
  BY Zenon DEF CreateReceiverSession, t
<1>4. nextKey' \in Nat
  BY <1>3 DEF OnceInv
<1>5. SessionOK(t)
  BY <1>2, Zenon DEF SessionOK
<1> QED
  BY <1>2, <1>3, <1>4, <1>5, SessionForgotten, Zenon

(* A session with a new key pair is a session.                             *)
LEMMA NewKeyFields ==
    ASSUME NEW s \in Sessions, NEW key \in PublicKeys, NEW t, t = [s EXCEPT !.dh = key, !.steps = @ + 1]
    PROVE  t \in Sessions /\ t.root = s.root /\ t.recv = s.recv /\ t.skipped = s.skipped
<1>1. t = [dh |-> key, their |-> s.their, root |-> s.root, send |-> s.send, recv |-> s.recv,
           steps |-> s.steps + 1, skipped |-> s.skipped, identitySecret |-> s.identitySecret,
           init |-> s.init]
  BY Zenon DEF Sessions
<1> QED
  BY <1>1 DEF Sessions

(* A session moved to a new root.                                          *)
Rerooted(s, key, root, c) == [s EXCEPT !.dh = key, !.steps = @ + 1, !.root = root, !.send = c]

(* A session on a longer root holds no key of it yet.                      *)
LEMMA NewRootFields ==
    ASSUME NEW s \in Sessions, NEW key \in PublicKeys, NEW root \in Chains, NEW c \in SUBSET ChainKeys
    PROVE  LET t == Rerooted(s, key, root, c)
           IN  t \in Sessions /\ t.root = root /\ t.recv = s.recv /\ t.skipped = s.skipped
<1> DEFINE t == Rerooted(s, key, root, c)
<1>1. t = [s EXCEPT !.dh = key, !.steps = @ + 1, !.root = root, !.send = c]
  BY Zenon DEF Rerooted
<1> HIDE DEF t
<1>2. t = [dh |-> key, their |-> s.their, root |-> root, send |-> c, recv |-> s.recv,
           steps |-> s.steps + 1, skipped |-> s.skipped, identitySecret |-> s.identitySecret,
           init |-> s.init]
  BY <1>1, Zenon DEF Sessions
<1>3. t \in Sessions /\ t.root = root /\ t.recv = s.recv /\ t.skipped = s.skipped
  BY <1>2 DEF Sessions
<1> QED
  BY <1>3, Zenon DEF t

(* force_ratchet lengthens the root.                                       *)
LEMMA ForceRatchetKeeps ==
    ASSUME OnceInv, NEW p \in Parties, ForceRatchet(p)
    PROVE  OnceInv'
<1> DEFINE key == <<p, nextKey>>
           their(s) == CHOOSE t \in s.their : TRUE
           root(s) == Append(s.root, DH(key, their(s)))
           forced(s) == IF s.their = {} THEN [s EXCEPT !.dh = key, !.steps = @ + 1]
                        ELSE [s EXCEPT !.dh = key, !.steps = @ + 1, !.root = root(s),
                                       !.send = NewChain(root(s))]
<1>1. PICK s \in ses[p]: ses' = [ses EXCEPT ![p] = {forced(s)}]
  BY Zenon DEF ForceRatchet
<1>2. s \in Sessions /\ SessionOK(s) /\ key \in PublicKeys
  BY Zenon DEF OnceInv, HeldOK, PublicKeys
<1>3. forced(s) \in Sessions /\ SessionOK(forced(s))
      /\ \A m \in Letters: Spent(s, m) => Spent(forced(s), m)
  <2> DEFINE t == forced(s)
  <2> HIDE DEF key
  <2>1. s.steps \in Nat /\ s.root \in Chains /\ s.their \subseteq PublicKeys
    BY <1>2, Zenon DEF Sessions
  <2>2. CASE s.their = {}
    <3>1. t \in Sessions /\ t.root = s.root /\ t.recv = s.recv /\ t.skipped = s.skipped
      BY <1>2, <2>2, NewKeyFields, Zenon
    <3> HIDE DEF t
    <3>2. SessionOK(t) /\ \A m \in Letters: Spent(s, m) => Spent(t, m)
      BY <1>2, <3>1, Zenon DEF SessionOK, Spent
    <3> QED
      BY <3>1, <3>2, Zenon DEF t
  <2>3. CASE s.their # {}
    <3>1. their(s) \in PublicKeys
      BY <2>1, <2>3, Zenon
    <3> HIDE DEF their
    <3>2. root(s) \in Chains /\ Len(root(s)) = Len(s.root) + 1 /\ Len(s.root) \in Nat
      BY <1>2, <2>1, <3>1, ChainGrows, Zenon DEF DH
    <3> HIDE DEF root
    <3>3. NewChain(root(s)) \subseteq ChainKeys
      BY <3>2, NewChainTyped, Zenon
    <3>4. t \in Sessions /\ t.root = root(s) /\ t.recv = s.recv /\ t.skipped = s.skipped
      <4>1. t = Rerooted(s, key, root(s), NewChain(root(s)))
        BY <2>3, Zenon DEF Rerooted
      <4> HIDE DEF t, forced
      <4> QED
        BY <1>2, <3>2, <3>3, <4>1, NewRootFields
    <3> HIDE DEF t
    <3>5. SessionOK(t) /\ \A m \in Letters: Spent(s, m) => Spent(t, m)
      BY <1>2, <3>2, <3>4, LongerRoot, Zenon
    <3> QED
      BY <3>4, <3>5, Zenon DEF t
  <2> QED
    BY <2>2, <2>3, Zenon
<1> DEFINE T == {forced(s)}
<1>4. ses' = [ses EXCEPT ![p] = T]
  BY <1>1, Zenon
<1> HIDE DEF forced
<1>5. \A m \in ratchetSent: m.to = p /\ opened[m.no] = 1 => Spent(s, m) /\ m \in Letters
  BY Zenon DEF OnceInv, SentOK, OpenedOK
<1>6. /\ T \in SUBSET Sessions /\ \A t \in T: SessionOK(t)
      /\ \A m \in ratchetSent: m.to = p /\ opened[m.no] = 1 => T # {} /\ \A t \in T: Spent(t, m)
  BY <1>3, <1>5, Zenon
<1>7. UNCHANGED <<saved, ratchetSent, opened>> /\ nextKey' = nextKey + 1
  BY Zenon DEF ForceRatchet
<1>8. nextKey' \in Nat
  BY <1>7, NextKeyTyped, Zenon
<1> HIDE DEF T
<1> QED
  BY <1>4, <1>6, <1>7, <1>8, SessionReplaced, Zenon

(* A backup is a session as it was.                                        *)
LEMMA BackUpKeeps ==
    ASSUME OnceInv, NEW p \in Parties, BackUp(p)
    PROVE  OnceInv'
<1> DEFINE T == {Serialized(s) : s \in ses[p]}
<1>1. saved' = [saved EXCEPT ![p] = T] /\ UNCHANGED <<ses, nextKey, ratchetSent, opened>>
  BY Zenon DEF BackUp
<1>2. \A t \in T: t \in Sessions /\ SessionOK(t)
  <2> SUFFICES ASSUME NEW s \in ses[p] PROVE Serialized(s) \in Sessions /\ SessionOK(Serialized(s))
    BY Zenon
  <2> DEFINE t == Serialized(s)
  <2>1. s \in Sessions /\ SessionOK(s)
    BY Zenon DEF OnceInv, HeldOK
  <2>2. t \in Sessions /\ t.root = s.root /\ t.recv = s.recv /\ t.skipped = {}
    BY <2>1, Zenon DEF Serialized, Sessions
  <2> HIDE DEF t
  <2>3. SessionOK(t)
    BY <2>1, <2>2, Zenon DEF SessionOK
  <2> QED
    BY <2>2, <2>3, Zenon DEF t
<1> HIDE DEF T
<1>3. HeldOK'
  BY <1>1, <1>2, Zenon DEF OnceInv, HeldOK
<1>4. SentOK' /\ OpenedOK' /\ nextKey' \in Nat
  BY <1>1, Zenon DEF OnceInv, SentOK, OpenedOK
<1> QED
  BY <1>3, <1>4, Zenon DEF OnceInv

(* The import of a backup forgets what was decrypted since, on the record. *)
LEMMA ImportBackupKeeps ==
    ASSUME OnceInv, NEW p \in Parties, ImportBackup(p)
    PROVE  OnceInv'
<1>1. UNCHANGED <<saved, nextKey, ratchetSent>> /\ nextKey' \in Nat
  BY Zenon DEF ImportBackup, OnceInv
<1>2. CASE ses[p] = {}
  <2>1. ses' = [ses EXCEPT ![p] = saved[p]] /\ opened' = Forgotten(p)
    BY <1>2, Zenon DEF ImportBackup, Imported
  <2>2. saved[p] \in SUBSET Sessions /\ \A t \in saved[p]: SessionOK(t)
    BY Zenon DEF OnceInv, HeldOK
  <2> QED
    BY <1>1, <2>1, <2>2, SessionForgotten, Zenon
<1>3. CASE ses[p] # {}
  <2>1. ses' = ses /\ opened' = opened
    BY <1>3, Zenon DEF ImportBackup, Imported, OnceInv, HeldOK
  <2> QED
    BY <1>1, <2>1, Zenon DEF OnceInv, SentOK, HeldOK, OpenedOK
<1> QED
  BY <1>2, <1>3, Zenon

(* So does the removal of a session.                                       *)
LEMMA RemoveSessionKeeps ==
    ASSUME OnceInv, NEW p \in Parties, RemoveSession(p)
    PROVE  OnceInv'
<1>1. /\ ses' = [ses EXCEPT ![p] = {}] /\ nextKey' \in Nat /\ opened' = Forgotten(p)
      /\ UNCHANGED <<saved, ratchetSent>>
  BY Zenon DEF RemoveSession, OnceInv
<1>2. {} \in SUBSET Sessions /\ \A t \in {}: SessionOK(t)
  BY Zenon
<1> QED
  BY <1>1, <1>2, SessionForgotten, Zenon

(* Every step keeps used keys spent.                                       *)
LEMMA OnceKept == OnceInv /\ [RatchetNext]_ratchetVars => OnceInv'
<1> SUFFICES ASSUME OnceInv, [RatchetNext]_ratchetVars PROVE OnceInv'
  BY Zenon
<1>1. CASE UNCHANGED ratchetVars
  BY <1>1, Zenon DEF ratchetVars, OnceInv, SentOK, HeldOK, OpenedOK
<1>2. ASSUME NEW m \in ratchetSent, ReceivePlain(m) \/ Receive(m) PROVE OnceInv'
  BY <1>2, ReceivePlainKeeps, ReceiveKeeps, Zenon
<1>3. ASSUME NEW p \in Parties,
             \/ GetOrCreateSession(p) \/ CreateReceiverSession(p) \/ SendPlain(p) \/ Send(p)
             \/ ForceRatchet(p) \/ BackUp(p) \/ ImportBackup(p) \/ RemoveSession(p)
      PROVE  OnceInv'
  BY <1>3, GetOrCreateSessionKeeps, CreateReceiverSessionKeeps, SendPlainKeeps,
     EncryptKeeps, ForceRatchetKeeps, BackUpKeeps, ImportBackupKeeps,
     RemoveSessionKeeps, Zenon
<1> QED
  BY <1>1, <1>2, <1>3, Zenon DEF RatchetNext

(* For any number of messages, over a network that loses, repeats and      *)
(* reorders them, one line of sessions decrypts a message at most once: a  *)
(* message key is used up by the decryption that used it, through          *)
(* ratchets, skipped keys and the limit on them (decrypt_message and       *)
(* get_message_key of core/src/crypto/ratchet.rs).                         *)
THEOREM MessagesOpenOnce == RatchetSpec => []OpenedOnce
  BY OnceInvImplies, OnceInitially, OnceKept, PTL DEF RatchetSpec
=============================================================================
