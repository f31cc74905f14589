----------------------------- MODULE CliDialing -----------------------------
(***************************************************************************)
(* How a command-line node, `scm start` or `scm relay`, uses its           *)
(* connection ledger (peers.json) to reach peers: the dials at start, the  *)
(* periodic task, the backoff of an address, and what the events of the    *)
(* swarm write into the ledger.  LedgerExchange has the exchange of        *)
(* ledgers between nodes.                                                  *)
(*                                                                         *)
(* A dial that the swarm accepts has only begun; the node hears of a       *)
(* connection, never of one that failed.  next_attempt_after is kept as    *)
(* the time left until it; the exponent of the backoff is clamped, so      *)
(* failures are counted up to the clamp.  A peer of the empty name is the  *)
(* one recorded for a fallback port.                                       *)
(***************************************************************************)
EXTENDS Naturals, FiniteSets

CONSTANTS
    DialAddrs,       \* addresses, without the /p2p/ suffix
    FallbackOf,      \* per address: the same host on the well-known ports
    DialPeers,       \* peers met
    BackoffCap,      \* longest backoff, in units of the first
    FailureClamp,    \* failures beyond this one no longer lengthen it
    MaxPeerEvents,   \* bound on the events of the swarm and the commands
    MaxNodeStarts

VARIABLES
    node,        \* "down", "start" or "relay"
    dialLedger,      \* per address: its LedgerEntry
    peersJson,   \* the ledger as last saved
    bootNodes,   \* bootstrap_nodes of config.json
    plan,        \* addresses the task of the start has yet to dial
    linkedTo,    \* peers connected
    dialed,      \* addresses handed to the swarm by the last step
    peerEvents, nodeStarts

dialVars == <<node, dialLedger, peersJson, bootNodes, plan, linkedTo, dialed, peerEvents, nodeStarts>>

NoEntry == [known |-> FALSE, seen |-> {}, last |-> {}, fails |-> 0, wait |-> 0, boot |-> FALSE]

(* LedgerEntry::new                                                        *)
NewLedgerEntry(boot) == [NoEntry EXCEPT !.known = TRUE, !.boot = boot]

DialInit ==
    /\ node = "down" /\ dialLedger = [a \in DialAddrs |-> NoEntry] /\ peersJson = [a \in DialAddrs |-> NoEntry]
    /\ bootNodes = {} /\ plan = {} /\ linkedTo = {} /\ dialed = {} /\ peerEvents = 0 /\ nodeStarts = 0

-----------------------------------------------------------------------------
(* 5 s, 10 s, 20 s ... up to 5 minutes.                                    *)
Backoff(fails) == IF 2 ^ (fails - 1) < BackoffCap THEN 2 ^ (fails - 1) ELSE BackoffCap

(* LedgerEntry::record_failure and record_success                          *)
AttemptFailed(e) == LET n == IF e.fails < FailureClamp THEN e.fails + 1 ELSE e.fails IN
             [e EXCEPT !.fails = n, !.wait = Backoff(n)]
AttemptSucceeded(e, p) == [e EXCEPT !.last = {p}, !.seen = @ \cup {p}, !.fails = 0, !.wait = 0]

(* ConnectionLedger::record_connection, record_failure: an address that is *)
(* not in the ledger fails unrecorded.                                     *)
RecordConnection(l, a, p) ==
    [l EXCEPT ![a] = AttemptSucceeded(IF l[a].known THEN l[a] ELSE NewLedgerEntry(FALSE), p)]
RecordDialFailure(l, a) == IF l[a].known THEN [l EXCEPT ![a] = AttemptFailed(@)] ELSE l

(* ConnectionLedger::add_bootstrap                                         *)
WithBootNodes(l, nodes) ==
    [a \in DialAddrs |-> IF a \notin nodes THEN l[a]
                         ELSE IF l[a].known THEN [l[a] EXCEPT !.boot = TRUE] ELSE NewLedgerEntry(TRUE)]

(* Mutant: an address that failed twice is given up.                       *)
DialDueUntilGivenUp(e) == e.wait = 0 /\ e.fails < 2

(* LedgerEntry::should_attempt                                             *)
DialDue(e) == e.wait = 0

(* ConnectionLedger::dialable_addresses; no peer here is the node itself.  *)
Dialable(l) == {a \in DialAddrs : l[a].known /\ DialDue(l[a])}

(* ConnectionLedger::find_by_peer_id: any entry that has or had the peer.  *)
EntriesWith(l, p) == {a \in DialAddrs : l[a].known /\ p \in l[a].last \cup l[a].seen}

-----------------------------------------------------------------------------
DialEvent == peerEvents < MaxPeerEvents /\ peerEvents' = peerEvents + 1

(* ConnectionLedger::load.  Only a relay puts the configured bootstrap     *)
(* nodes into its ledger.                                                  *)
StartNode(kind) ==
    LET l == IF kind = "relay" THEN WithBootNodes(peersJson, bootNodes) ELSE peersJson IN
    /\ node = "down" /\ nodeStarts < MaxNodeStarts
    /\ nodeStarts' = nodeStarts + 1
    /\ node' = kind /\ dialLedger' = l /\ plan' = Dialable(l) /\ dialed' = {}
    /\ UNCHANGED <<peersJson, bootNodes, linkedTo, peerEvents>>

(* The task of the start, one address after another.  A dial the swarm     *)
(* refuses is a failure; `scm start` first tries the fallback ports, holds *)
(* the ledger meanwhile, and takes a dial that begins for a connection to  *)
(* a peer of the empty name.                                               *)
DialPlanned(a) ==
    /\ node # "down" /\ a \in plan
    /\ plan' = plan \ {a}
    /\ \/ dialed' = {a} /\ UNCHANGED dialLedger
       \/ node = "start" /\ \E b \in FallbackOf[a] : /\ dialLedger' = RecordConnection(dialLedger, b, "")
                                                     /\ dialed' = {b}
       \/ dialLedger' = RecordDialFailure(dialLedger, a) /\ dialed' = {}
    /\ UNCHANGED <<node, peersJson, bootNodes, linkedTo, peerEvents, nodeStarts>>

(* Every 120 seconds a relay dials what is due, whatever comes of it.      *)
Redial ==
    /\ node = "relay" /\ Dialable(dialLedger) # {}
    /\ dialed' = Dialable(dialLedger)
    /\ UNCHANGED <<node, dialLedger, peersJson, bootNodes, plan, linkedTo, peerEvents, nodeStarts>>

(* Every 120 seconds `scm start` asks the peers of the due addresses for   *)
(* its own address, and dials none of them.                                *)
RefreshAddresses ==
    /\ node = "start" /\ Dialable(dialLedger) # {}
    /\ dialed' = {}
    /\ UNCHANGED <<node, dialLedger, peersJson, bootNodes, plan, linkedTo, peerEvents, nodeStarts>>

-----------------------------------------------------------------------------
(* SwarmEvent::PeerDiscovered                                              *)
Discovered(p) ==
    /\ node # "down" /\ p \notin linkedTo /\ DialEvent
    /\ linkedTo' = linkedTo \cup {p} /\ dialed' = {}
    /\ UNCHANGED <<node, dialLedger, peersJson, bootNodes, plan, nodeStarts>>

(* SwarmEvent::PeerIdentified, with the addresses the peer listens on.     *)
DialIdentified(p, a) ==
    /\ node # "down" /\ p \in linkedTo /\ DialEvent
    /\ dialLedger' = RecordConnection(dialLedger, a, p) /\ dialed' = {}
    /\ UNCHANGED <<node, peersJson, bootNodes, plan, linkedTo, nodeStarts>>

(* SwarmEvent::PeerDisconnected: a failure of one entry of the peer.       *)
Disconnected(p) ==
    /\ node # "down" /\ p \in linkedTo
    /\ linkedTo' = linkedTo \ {p} /\ dialed' = {}
    /\ IF EntriesWith(dialLedger, p) = {} THEN UNCHANGED dialLedger
       ELSE \E a \in EntriesWith(dialLedger, p) : dialLedger' = RecordDialFailure(dialLedger, a)
    /\ UNCHANGED <<node, peersJson, bootNodes, plan, peerEvents, nodeStarts>>

(* SwarmEvent::LedgerReceived: a new address is saved at once; all that    *)
(* came are dialed if one was new.  A known address gets the peer it       *)
(* lacked.                                                                 *)
LearnAddress(a, p) ==
    /\ node # "down" /\ DialEvent
    /\ IF dialLedger[a].known
         THEN /\ dialLedger' = IF dialLedger[a].last = {} THEN [dialLedger EXCEPT ![a].last = {p}] ELSE dialLedger
              /\ dialed' = {} /\ UNCHANGED peersJson
         ELSE /\ dialLedger' = [dialLedger EXCEPT ![a] = [NewLedgerEntry(FALSE) EXCEPT !.last = {p}, !.seen = {p}]]
              /\ peersJson' = dialLedger' /\ dialed' = {a}
    /\ UNCHANGED <<node, bootNodes, plan, linkedTo, nodeStarts>>

(* ConnectionLedger::save, every minute.                                   *)
SavePeers ==
    /\ node # "down" /\ peersJson # dialLedger
    /\ peersJson' = dialLedger /\ dialed' = {}
    /\ UNCHANGED <<node, dialLedger, bootNodes, plan, linkedTo, peerEvents, nodeStarts>>

(* `quit` and Ctrl-C save; a kill and /api/shutdown do not.                *)
StopNode(saved) ==
    /\ node # "down"
    /\ node' = "down" /\ plan' = {} /\ linkedTo' = {} /\ dialed' = {}
    /\ peersJson' = IF saved THEN dialLedger ELSE peersJson
    /\ dialLedger' = [a \in DialAddrs |-> NoEntry]
    /\ UNCHANGED <<bootNodes, peerEvents, nodeStarts>>

(* Config::set with bootstrap_node_add or bootstrap_node_remove: the file  *)
(* is loaded, changed and saved; a running node does not look at it again. *)
ConfigSet(nodes) ==
    /\ DialEvent /\ nodes \in {bootNodes \cup {a} : a \in DialAddrs} \cup {bootNodes \ {a} : a \in DialAddrs}
    /\ nodes # bootNodes /\ bootNodes' = nodes /\ dialed' = {}
    /\ UNCHANGED <<node, dialLedger, peersJson, plan, linkedTo, nodeStarts>>

Elapsed(l) == [a \in DialAddrs |-> [l[a] EXCEPT !.wait = IF @ > 0 THEN @ - 1 ELSE 0]]

TimePasses ==
    /\ <<Elapsed(dialLedger), Elapsed(peersJson)>> # <<dialLedger, peersJson>>
    /\ dialLedger' = Elapsed(dialLedger) /\ peersJson' = Elapsed(peersJson) /\ dialed' = {}
    /\ UNCHANGED <<node, bootNodes, plan, linkedTo, peerEvents, nodeStarts>>

DialNext ==
    \/ \E kind \in {"start", "relay"} : StartNode(kind)
    \/ \E a \in DialAddrs : DialPlanned(a)
    \/ Redial
    \/ RefreshAddresses
    \/ \E p \in DialPeers : \/ Discovered(p)
                            \/ Disconnected(p)
                            \/ \E a \in DialAddrs : DialIdentified(p, a) \/ LearnAddress(a, p)
    \/ SavePeers
    \/ \E saved \in BOOLEAN : StopNode(saved)
    \/ \E nodes \in SUBSET DialAddrs : ConfigSet(nodes)
    \/ TimePasses

DialSpec == DialInit /\ [][DialNext]_dialVars

(* Time goes on and the tasks of the node run when they are due.           *)
DialFairness ==
    /\ WF_dialVars(TimePasses) /\ WF_dialVars(Redial)
    /\ WF_dialVars(RefreshAddresses) /\ WF_dialVars(\E a \in DialAddrs : DialPlanned(a))

DialLiveSpec == DialSpec /\ DialFairness

-----------------------------------------------------------------------------
(* "Unreachable peers enter exponential backoff but are never deleted":    *)
(* whatever the disconnects made of it, a relay dials every address of its *)
(* ledger again, unless a peer of that address is connected or it stops.   *)
RelayKeepsTrying ==
    \A a \in DialAddrs :
      (node = "relay" /\ dialLedger[a].known) ~> \/ node = "down" \/ a \in dialed
                                             \/ dialLedger[a].last \cap linkedTo # {}

=============================================================================
