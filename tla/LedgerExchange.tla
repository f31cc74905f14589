--------------------------- MODULE LedgerExchange ---------------------------
(***************************************************************************)
(* The exchange of connection ledgers with a peer, on a node that runs the *)
(* CLI daemon: the ledger (cli/src/ledger.rs), the event loop that keeps   *)
(* it (cli/src/main.rs) and the ledger protocol of the swarm task          *)
(* (core/src/transport/swarm.rs), which marks a peer it shared the ledger  *)
(* with (ledger_exchanged_peers) until a connection with it closes.        *)
(*                                                                         *)
(* A peer may have several connections, and the closing of any of them     *)
(* clears the mark and what was reported of the peer.  Application events  *)
(* reach the event loop in order, long after the swarm handled them, and   *)
(* share commands reach the swarm task in order too.  A save truncates     *)
(* peers.json before it writes it: one that fails, or that a kill          *)
(* interrupts, leaves a torn file, and a daemon that finds one does not    *)
(* start.  The peer runs the same code; what it sends is one of            *)
(* PeerLedgers, at most as often as it had connections.                    *)
(***************************************************************************)
EXTENDS Naturals, Sequences

CONSTANTS
    LedgerAddrs,  \* addresses, stripped of the peer id
    PeerAddr,     \* the address the peer listens on
    OwnBootstrap, \* bootstrap addresses of the node
    PeerLedgers,  \* ledgers the peer may send: sets of addresses
    EventRoom,    \* capacity of the channel to the event loop
    MaxConnects,  \* bound: connections of the nodes
    MaxMdnsReports, \* bound: times mDNS finds the peer or its addresses change
    MaxKills,     \* bound: kills
    MaxFailures   \* bound: failures counted for an address

ASSUME LedgerAssumption ==
    /\ PeerAddr \in LedgerAddrs /\ OwnBootstrap \subseteq LedgerAddrs
    /\ PeerLedgers \subseteq SUBSET LedgerAddrs
    /\ MaxConnects \in Nat /\ MaxMdnsReports \in Nat /\ MaxKills \in Nat /\ MaxFailures \in Nat

VARIABLES
    ledger,     \* the entries: address -> entry
    listed,     \* the daemon's peers map holds the peer
    peersFile,  \* peers.json, when it is whole
    torn,       \* peers.json is truncated or cut short
    up,         \* the daemon runs
    appEvents,  \* events the event loop has not handled
    shares,     \* ShareLedger commands the swarm task has not taken
    exchanged,  \* ledger_exchanged_peers holds the peer
    discoveries, \* reported_peer_discoveries holds the peer
    identified, \* reported_peer_info holds what the peer says of itself
    requests,   \* ledger requests to the peer under way
    ledgerLinks, \* open connections with the peer
    mdnsSeen,   \* mDNS knows the peer
    ledgersOut,  \* ledgers the peer received
    served,     \* ledgers the peer sent
    gossiped,   \* addresses learned from the peer
    connects,   \* connections opened so far
    mdnsReports, kills

swarmVars == <<exchanged, discoveries, identified, requests, ledgerLinks, mdnsSeen, ledgersOut, served,
               connects, mdnsReports>>
diskVars == <<peersFile, torn, gossiped>>
ledgerVars == <<ledger, listed, up, appEvents, shares, kills, swarmVars, diskVars>>

(* An entry counts the failures in a row and knows whether the peer was    *)
(* seen at its address.                                                    *)
LedgerEntries == [known : BOOLEAN, fails : 0 .. MaxFailures, ofPeer : BOOLEAN]
AbsentEntry == [known |-> FALSE, fails |-> 0, ofPeer |-> FALSE]
KnownAddrs(l) == {x \in LedgerAddrs : l[x].known}

LedgerTypeOK ==
    /\ ledger \in [LedgerAddrs -> LedgerEntries] /\ peersFile \in [LedgerAddrs -> LedgerEntries]
    /\ {listed, torn, up, exchanged, discoveries, identified, mdnsSeen} \subseteq BOOLEAN
    /\ gossiped \subseteq LedgerAddrs
    /\ ledgerLinks <= connects /\ served <= connects
    /\ connects <= MaxConnects /\ mdnsReports <= MaxMdnsReports /\ kills <= MaxKills

(* LedgerEntry::new of add_bootstrap.                                      *)
FreshEntry == [AbsentEntry EXCEPT !.known = TRUE]
WithBootstrap(l) == [x \in LedgerAddrs |-> IF x \in OwnBootstrap /\ ~l[x].known THEN FreshEntry ELSE l[x]]

LedgerInit ==
    /\ peersFile = [x \in LedgerAddrs |-> AbsentEntry] /\ torn = FALSE
    /\ ledger = WithBootstrap(peersFile) /\ up = TRUE
    /\ appEvents = <<>> /\ shares = 0 /\ requests = 0
    /\ listed = FALSE /\ exchanged = FALSE /\ discoveries = FALSE /\ identified = FALSE
    /\ mdnsSeen = FALSE /\ ledgerLinks = 0 /\ ledgersOut = 0 /\ served = 0
    /\ gossiped = {} /\ connects = 0 /\ mdnsReports = 0 /\ kills = 0

-----------------------------------------------------------------------------
(* The ledger's operations.                                                *)

EntrySucceeded(e) == [known |-> TRUE, fails |-> 0, ofPeer |-> TRUE]
EntryFailed(e) == [e EXCEPT !.fails = IF @ < MaxFailures THEN @ + 1 ELSE @]

(* merge_shared_entries: a new address starts without failures; a known    *)
(* one keeps its own.                                                      *)
Merged(l, addrs) ==
    [x \in LedgerAddrs |-> IF x \in addrs /\ ~l[x].known
                              THEN [FreshEntry EXCEPT !.ofPeer = x = PeerAddr] ELSE l[x]]

(* find_by_peer_id: some entry where the peer was seen, now or ever.       *)
EntriesOfPeer(l) == {x \in LedgerAddrs : l[x].ofPeer}

-----------------------------------------------------------------------------
(* The swarm task.                                                         *)

(* An event waits for room in the channel to the event loop.               *)
Event(kind, addrs) ==
    /\ Len(appEvents) < EventRoom
    /\ appEvents' = Append(appEvents, [kind |-> kind, addrs |-> addrs])

(* PeerDiscovered goes out when the peer was not reported yet.             *)
ReportDiscovery ==
    /\ discoveries' = TRUE
    /\ IF discoveries THEN UNCHANGED appEvents ELSE Event("discovered", {})

(* ConnectionEstablished.                                                  *)
LinkUp ==
    /\ connects < MaxConnects
    /\ ledgerLinks' = ledgerLinks + 1 /\ connects' = connects + 1
    /\ ReportDiscovery
    /\ UNCHANGED <<ledger, listed, up, shares, kills, diskVars, exchanged, identified, requests,
                   mdnsSeen, ledgersOut, served, mdnsReports>>

LedgerMdnsDiscovered ==
    /\ ~mdnsSeen /\ mdnsReports < MaxMdnsReports
    /\ mdnsSeen' = TRUE /\ mdnsReports' = mdnsReports + 1
    /\ ReportDiscovery
    /\ UNCHANGED <<ledger, listed, up, shares, kills, diskVars, exchanged, identified, requests,
                   ledgerLinks, ledgersOut, served, connects>>

(* The record of the peer expires: the application is told that the peer   *)
(* left, whatever its connections; what was reported stays.                *)
LedgerMdnsExpired ==
    /\ mdnsSeen
    /\ mdnsSeen' = FALSE
    /\ Event("disconnected", {})
    /\ UNCHANGED <<ledger, listed, up, shares, kills, diskVars, exchanged, discoveries, identified,
                   requests, ledgerLinks, ledgersOut, served, connects, mdnsReports>>

(* identify::Event::Received, with information that was not reported: of a *)
(* new peer, of one that changed, or of any once a connection has closed.  *)
Identified ==
    /\ ledgerLinks > 0 /\ ~identified
    /\ identified' = TRUE
    /\ Event("identified", {})
    /\ UNCHANGED <<ledger, listed, up, shares, kills, diskVars, exchanged, discoveries, requests,
                   ledgerLinks, mdnsSeen, ledgersOut, served, connects, mdnsReports>>

(* The peer's agent or addresses change (external).                        *)
InfoChanged ==
    /\ identified /\ mdnsReports < MaxMdnsReports
    /\ identified' = FALSE /\ mdnsReports' = mdnsReports + 1
    /\ UNCHANGED <<ledger, listed, up, appEvents, shares, kills, diskVars, exchanged, discoveries,
                   requests, ledgerLinks, mdnsSeen, ledgersOut, served, connects>>

(* ConnectionClosed, of any of the peer's connections.  The requests under *)
(* way over it fail; those over another one stay.                          *)
LinkDown ==
    /\ ledgerLinks > 0
    /\ ledgerLinks' = ledgerLinks - 1
    /\ exchanged' = FALSE /\ discoveries' = FALSE /\ identified' = FALSE
    /\ requests' \in 0 .. requests /\ (ledgerLinks = 1 => requests' = 0)
    /\ Event("disconnected", {})
    /\ UNCHANGED <<ledger, listed, up, shares, kills, diskVars, mdnsSeen, ledgersOut, served,
                   connects, mdnsReports>>

(* SwarmCommand::ShareLedger.  To a peer that is not connected the request *)
(* waits for the dial it starts.                                           *)
(* Mutant: the peer is not marked.                                         *)
ShareLedgerUnrecorded ==
    /\ shares > 0
    /\ shares' = shares - 1
    /\ requests' = IF exchanged THEN requests ELSE requests + 1
    /\ UNCHANGED <<ledger, listed, up, appEvents, kills, diskVars, exchanged, discoveries, identified,
                   ledgerLinks, mdnsSeen, ledgersOut, served, connects, mdnsReports>>

ShareLedger ==
    /\ shares > 0
    /\ shares' = shares - 1
    /\ requests' = IF exchanged THEN requests ELSE requests + 1
    /\ exchanged' = TRUE
    /\ UNCHANGED <<ledger, listed, up, appEvents, kills, diskVars, discoveries, identified, ledgerLinks,
                   mdnsSeen, ledgersOut, served, connects, mdnsReports>>

(* A request arrives at the peer over one of its connections, or fails     *)
(* with the dial it waited for.                                            *)
RequestEnds ==
    /\ requests > 0
    /\ requests' = requests - 1
    /\ ledgersOut' \in (IF ledgerLinks > 0 THEN {ledgersOut, ledgersOut + 1} ELSE {ledgersOut})
    /\ UNCHANGED <<ledger, listed, up, appEvents, shares, kills, diskVars, exchanged, discoveries,
                   identified, ledgerLinks, mdnsSeen, served, connects, mdnsReports>>

(* A ledger request of the peer arrives: the event goes to the             *)
(* application, the answer is an empty list, and the peer is marked.       *)
ReceiveLedger(addrs) ==
    /\ ledgerLinks > 0 /\ served < connects
    /\ served' = served + 1 /\ exchanged' = TRUE
    /\ Event("ledger", addrs)
    /\ UNCHANGED <<ledger, listed, up, shares, kills, diskVars, discoveries, identified, requests,
                   ledgerLinks, mdnsSeen, ledgersOut, connects, mdnsReports>>

-----------------------------------------------------------------------------
(* The event loop of the daemon.                                           *)

HandleEvent(kind) ==
    appEvents # <<>> /\ Head(appEvents).kind = kind /\ appEvents' = Tail(appEvents)
(* What a share carries, to_shared_entries, is left out.                   *)
AskToShare == shares' = shares + 1

(* Only a peer the daemon does not list yet is new to it.                  *)
OnDiscovered ==
    /\ HandleEvent("discovered")
    /\ listed' = TRUE
    /\ IF listed THEN UNCHANGED shares ELSE AskToShare
    /\ UNCHANGED <<ledger, up, kills, swarmVars, diskVars>>

OnIdentified ==
    /\ HandleEvent("identified")
    /\ ledger' = [ledger EXCEPT ![PeerAddr] = EntrySucceeded(@)]
    /\ AskToShare
    /\ UNCHANGED <<listed, up, kills, swarmVars, diskVars>>

OnDisconnected ==
    /\ HandleEvent("disconnected")
    /\ listed' = FALSE
    /\ IF EntriesOfPeer(ledger) = {} THEN UNCHANGED ledger
       ELSE \E x \in EntriesOfPeer(ledger) : ledger' = [ledger EXCEPT ![x] = EntryFailed(@)]
    /\ UNCHANGED <<up, shares, kills, swarmVars, diskVars>>

(* ConnectionLedger::save: the file is truncated, then written; an error   *)
(* is logged and leaves what was written so far.                           *)
SaveDone(l) == peersFile' = l /\ torn' = FALSE
SaveFailed == torn' = TRUE /\ UNCHANGED peersFile
Save(l) == SaveDone(l) \/ SaveFailed

(* LedgerReceived: new addresses are saved at once, and then dialled.      *)
(* Mutant: they are left to the periodic save.                             *)
OnLedgerReceivedUnsaved ==
    /\ HandleEvent("ledger")
    /\ ledger' = Merged(ledger, Head(appEvents).addrs)
    /\ gossiped' = gossiped \cup (Head(appEvents).addrs \ KnownAddrs(ledger))
    /\ UNCHANGED <<listed, up, shares, kills, swarmVars, peersFile, torn>>

OnLedgerReceived ==
    LET news == Head(appEvents).addrs \ KnownAddrs(ledger) IN
    /\ HandleEvent("ledger")
    /\ ledger' = Merged(ledger, Head(appEvents).addrs)
    /\ IF news = {} THEN UNCHANGED <<peersFile, torn>> ELSE Save(ledger')
    /\ gossiped' = gossiped \cup news
    /\ UNCHANGED <<listed, up, shares, kills, swarmVars>>

(* The save of every minute, and of a clean stop.                          *)
SaveLedger ==
    /\ Save(ledger)
    /\ UNCHANGED <<ledger, listed, up, appEvents, shares, kills, swarmVars, gossiped>>

(* The process is killed, perhaps during a save.                           *)
Kill ==
    /\ kills < MaxKills
    /\ kills' = kills + 1 /\ up' = FALSE
    /\ torn' \in {torn, TRUE}
    /\ appEvents' = <<>> /\ shares' = 0 /\ requests' = 0 /\ ledgerLinks' = 0
    /\ listed' = FALSE /\ mdnsSeen' = FALSE
    /\ exchanged' = FALSE /\ discoveries' = FALSE /\ identified' = FALSE
    /\ UNCHANGED <<ledger, peersFile, gossiped, ledgersOut, served, connects, mdnsReports>>

(* cmd_start: a ledger that cannot be parsed ends it.                      *)
Start ==
    /\ ~up /\ ~torn
    /\ up' = TRUE
    /\ ledger' = WithBootstrap(peersFile)
    /\ UNCHANGED <<listed, appEvents, shares, kills, swarmVars, diskVars>>

-----------------------------------------------------------------------------
Running ==
    \/ LinkUp \/ LedgerMdnsDiscovered \/ LedgerMdnsExpired \/ Identified \/ InfoChanged \/ LinkDown
    \/ ShareLedger \/ RequestEnds
    \/ \E addrs \in PeerLedgers : ReceiveLedger(addrs)
    \/ OnDiscovered \/ OnIdentified \/ OnDisconnected \/ OnLedgerReceived
    \/ SaveLedger \/ Kill

LedgerNext ==
    \/ up /\ Running
    \/ Start

LedgerSpec == LedgerInit /\ [][LedgerNext]_ledgerVars

-----------------------------------------------------------------------------
(* The peer receives no more ledgers than it has had connections with the  *)
(* node, although its discovery and its identification both ask for one,   *)
(* although either is reported again when one of several connections has   *)
(* closed, and although a command asked for earlier may still be queued    *)
(* (swarm.rs, ledger_exchanged_peers: "avoid spamming").                   *)
OneLedgerPerConnection == ledgersOut <= connects

(* An address learned from the peer is in peers.json from the moment it    *)
(* was merged, whenever the node is killed, unless the last save of the    *)
(* file failed or was cut short: the handler saves before it dials, and    *)
(* no later save drops the address, one after a failed save included.      *)
GossipSurvivesKill == torn \/ gossiped \subseteq KnownAddrs(peersFile)

(* The exchange of ledgers through several connections, queued commands,   *)
(* failed saves and kills: no peer is sent more ledgers than it had        *)
(* connections, and no address is forgotten.                               *)
LedgerSound ==
    OneLedgerPerConnection /\ GossipSurvivesKill
=============================================================================
