------------------------------- MODULE CliNode -------------------------------
(***************************************************************************)
(* Messages of the command-line node.  `scm send` goes through the daemon  *)
(* when one runs; otherwise it opens the core itself.  The daemon keeps a  *)
(* persistent outbox, and its event loop flushes the queue of a peer when  *)
(* the peer is discovered: it drains the queue, sends one message after    *)
(* another through the swarm, and puts back the ones that fail.            *)
(*                                                                         *)
(* The swarm reports a peer once, when mDNS finds it or when the first     *)
(* connection to it is up, and again only after a connection to it has     *)
(* closed.  The loop handles one event at a time and waits for the swarm   *)
(* inside the handler, so the connection may be gone by the time a message *)
(* is sent.  The store may fail to remove what is drained, and to take     *)
(* back what is put into it; the daemon only logs either.                  *)
(***************************************************************************)
EXTENDS Integers, Sequences, FiniteSets

CONSTANTS
    CliPeers,
    CliMessages,
    CliRecipient,       \* CliRecipient[m]: the peer message m is for
    MaxLinkEvents,      \* capacity of the channel the loop reads
    MaxStoreFaults,     \* bound on the failures of the outbox's store
    MaxCliCrashes

ASSUME CliAssumption == IsFiniteSet(CliMessages) /\ CliRecipient \in [CliMessages -> CliPeers]

VARIABLES
    daemon,             \* "down" or "up"
    outboxOpen,         \* the daemon has the persistent outbox, not an empty one in memory
    knownPeers,         \* peers: the map the event loop keeps
    linkedPeers,        \* linkedPeers[p]: the connections to p
    announced,          \* peers mDNS has found and that have not expired
    reportedPeers,      \* reported_peer_discoveries
    linkEvents,         \* the channel from the swarm to the event loop
    cliOutbox,          \* the messages in the persistent store
    flushing,           \* <<>>, or <<the peer, what is left to send>>
    cliFate,            \* cliFate[m]: what became of message m
    undeleted,          \* messages a failed removal has left in the store
    storeFaults,
    cliCrashes

cliVars == <<daemon, outboxOpen, knownPeers, linkedPeers, announced, reportedPeers, linkEvents,
             cliOutbox, flushing, cliFate, undeleted, storeFaults, cliCrashes>>

cliSwarmVars == <<linkedPeers, announced, reportedPeers>>
cliLoopVars  == <<knownPeers, linkEvents, flushing>>
cliQueueVars == <<cliOutbox, cliFate, undeleted, storeFaults>>

FlushBatch == IF flushing = <<>> THEN {} ELSE flushing[2]
Reachable(p) == linkedPeers[p] > 0 \/ p \in announced

(* Those of ms that wait in no other place are gone.                         *)
GivenUp(ms) ==
    [m \in CliMessages |-> IF m \in ms \ cliOutbox /\ cliFate[m] = "queued" THEN "lost" ELSE cliFate[m]]

(* The outbox outlives the process: what an earlier version of the program   *)
(* queued is there when this one starts.                                     *)
CliInit ==
    /\ daemon = "down" /\ outboxOpen = FALSE
    /\ knownPeers = {} /\ linkEvents = <<>> /\ flushing = <<>>
    /\ linkedPeers = [p \in CliPeers |-> 0] /\ announced = {} /\ reportedPeers = {}
    /\ cliOutbox \in SUBSET CliMessages
    /\ cliFate = [m \in CliMessages |-> IF m \in cliOutbox THEN "queued" ELSE "unsent"]
    /\ undeleted = {} /\ storeFaults = 0 /\ cliCrashes = 0

-----------------------------------------------------------------------------
(* An outbox that cannot be opened is replaced by an empty one in memory.    *)
StartDaemon ==
    /\ daemon = "down"
    /\ daemon' = "up"
    /\ outboxOpen' \in BOOLEAN
    /\ UNCHANGED <<cliSwarmVars, cliLoopVars, cliQueueVars, cliCrashes>>

(* The drained messages are in memory only.                                  *)
CrashDaemon ==
    /\ daemon = "up" /\ cliCrashes < MaxCliCrashes
    /\ cliCrashes' = cliCrashes + 1
    /\ daemon' = "down"
    /\ knownPeers' = {} /\ linkEvents' = <<>> /\ flushing' = <<>>
    /\ linkedPeers' = [p \in CliPeers |-> 0] /\ announced' = {} /\ reportedPeers' = {}
    /\ cliFate' = GivenUp(FlushBatch)
    /\ UNCHANGED <<outboxOpen, cliOutbox, undeleted, storeFaults>>

(* `scm send` with a daemon: handle_send_message prepares the message and    *)
(* reports what the swarm says; nothing is queued.                           *)
SendViaApi(m) ==
    /\ daemon = "up" /\ cliFate[m] = "unsent"
    /\ \E sent \in BOOLEAN : /\ sent => Reachable(CliRecipient[m])
                             /\ cliFate' = [cliFate EXCEPT ![m] = IF sent THEN "handed" ELSE "refused"]
    /\ UNCHANGED <<daemon, outboxOpen, cliSwarmVars, cliLoopVars, cliOutbox, undeleted, storeFaults,
                   cliCrashes>>

(* `scm send` without one: IronCore::with_storage starts without consent,    *)
(* cmd_send_offline does not grant it, and initialize_identity fails; the    *)
(* command ends before it would send or queue the message.                   *)
SendOffline(m) ==
    /\ daemon = "down" /\ cliFate[m] = "unsent"
    /\ cliFate' = [cliFate EXCEPT ![m] = "refused"]
    /\ UNCHANGED <<daemon, outboxOpen, cliSwarmVars, cliLoopVars, cliOutbox, undeleted, storeFaults,
                   cliCrashes>>

-----------------------------------------------------------------------------
(* The swarm waits for room in the channel before it goes on.                *)
SwarmRuns == daemon = "up" /\ Len(linkEvents) < MaxLinkEvents

(* PeerDiscovered, unless the peer has been reported.                        *)
ReportDiscovery(p) ==
    /\ reportedPeers' = reportedPeers \cup {p}
    /\ linkEvents' = IF p \in reportedPeers THEN linkEvents
                     ELSE Append(linkEvents, <<"discovered", p>>)
    /\ UNCHANGED <<daemon, outboxOpen, knownPeers, flushing, cliQueueVars, cliCrashes>>

(* The first or a second connection to a peer is established.                *)
PeerLinks(p) ==
    /\ SwarmRuns /\ linkedPeers[p] < 2
    /\ linkedPeers' = [linkedPeers EXCEPT ![p] = @ + 1]
    /\ ReportDiscovery(p)
    /\ UNCHANGED announced

PeerAnnounced(p) ==
    /\ SwarmRuns /\ p \notin announced
    /\ announced' = announced \cup {p}
    /\ ReportDiscovery(p)
    /\ UNCHANGED linkedPeers

(* The expiry is passed on as a disconnect, of a connected peer too, and the *)
(* peer stays reported.                                                      *)
AnnouncementExpires(p) ==
    /\ SwarmRuns /\ p \in announced
    /\ announced' = announced \ {p}
    /\ linkEvents' = Append(linkEvents, <<"disconnected", p>>)
    /\ UNCHANGED <<daemon, outboxOpen, knownPeers, linkedPeers, reportedPeers, flushing,
                   cliQueueVars, cliCrashes>>

(* Every close is passed on, that of one of two connections too.             *)
PeerUnlinks(p) ==
    /\ SwarmRuns /\ linkedPeers[p] > 0
    /\ linkedPeers' = [linkedPeers EXCEPT ![p] = @ - 1]
    /\ reportedPeers' = reportedPeers \ {p}
    /\ linkEvents' = Append(linkEvents, <<"disconnected", p>>)
    /\ UNCHANGED <<daemon, outboxOpen, knownPeers, announced, flushing, cliQueueVars, cliCrashes>>

-----------------------------------------------------------------------------
LoopReads(kind, p) ==
    /\ daemon = "up" /\ flushing = <<>>
    /\ linkEvents # <<>> /\ Head(linkEvents) = <<kind, p>>
    /\ linkEvents' = Tail(linkEvents)

(* A removal that fails leaves its record in the store.                      *)
Drain(p) ==
    LET queue == {m \in cliOutbox : CliRecipient[m] = p}
    IN  /\ flushing' = IF queue = {} THEN <<>> ELSE <<p, queue>>
        /\ \E kept \in SUBSET queue :
             /\ storeFaults' = storeFaults + Cardinality(kept) /\ storeFaults' <= MaxStoreFaults
             /\ cliOutbox' = (cliOutbox \ queue) \cup kept
             /\ undeleted' = undeleted \cup kept
        /\ UNCHANGED cliFate

(* A peer already in the map is ignored; the bridge it is registered with    *)
(* reaches every peer registered.                                            *)
OnPeerDiscovered(p) ==
    /\ LoopReads("discovered", p)
    /\ knownPeers' = knownPeers \cup {p}
    /\ IF p \in knownPeers \/ ~outboxOpen THEN UNCHANGED <<flushing, cliQueueVars>> ELSE Drain(p)
    /\ UNCHANGED <<daemon, outboxOpen, cliSwarmVars, cliCrashes>>

(* Mutant: a peer that leaves stays in the map.                              *)
OnPeerDisconnectedKept(p) ==
    /\ LoopReads("disconnected", p)
    /\ UNCHANGED <<daemon, outboxOpen, knownPeers, cliSwarmVars, flushing, cliQueueVars, cliCrashes>>

OnPeerDisconnected(p) ==
    /\ LoopReads("disconnected", p)
    /\ knownPeers' = knownPeers \ {p}
    /\ UNCHANGED <<daemon, outboxOpen, cliSwarmVars, flushing, cliQueueVars, cliCrashes>>

(* The batch is sent one message after another, in the order of the store's  *)
(* keys.                                                                     *)
FlushOne(m) ==
    /\ flushing # <<>> /\ m \in flushing[2]
    /\ flushing' = IF flushing[2] = {m} THEN <<>> ELSE <<flushing[1], flushing[2] \ {m}>>
    /\ UNCHANGED <<daemon, outboxOpen, knownPeers, cliSwarmVars, linkEvents, undeleted, cliCrashes>>

(* A send needs a connection, or an address to dial.                         *)
FlushSent(m) ==
    /\ FlushOne(m)
    /\ Reachable(flushing[1])
    /\ cliFate' = [cliFate EXCEPT ![m] = "handed"]
    /\ UNCHANGED <<cliOutbox, storeFaults>>

(* Mutant: a message that fails is not put back.                             *)
FlushFailedDropped(m) ==
    /\ FlushOne(m)
    /\ UNCHANGED <<cliOutbox, cliFate, storeFaults>>

(* The message is put back; when the store refuses it, it is gone.           *)
FlushFailed(m) ==
    /\ FlushOne(m)
    /\ \/ /\ cliOutbox' = cliOutbox \cup {m}
          /\ UNCHANGED <<cliFate, storeFaults>>
       \/ /\ storeFaults < MaxStoreFaults /\ storeFaults' = storeFaults + 1
          /\ cliFate' = GivenUp({m})
          /\ UNCHANGED cliOutbox

CliNext ==
    \/ StartDaemon
    \/ CrashDaemon
    \/ \E m \in CliMessages : SendViaApi(m) \/ SendOffline(m) \/ FlushSent(m) \/ FlushFailed(m)
    \/ \E p \in CliPeers : \/ PeerLinks(p) \/ PeerUnlinks(p)
                           \/ PeerAnnounced(p) \/ AnnouncementExpires(p)
                           \/ OnPeerDiscovered(p) \/ OnPeerDisconnected(p)

(* The loop goes on, the daemon is started again, connections come and go,   *)
(* some peers stay in reach until the loop has heard of them, and sends      *)
(* tried over and over to a peer in reach do not all fail.                   *)
LoopStep == \/ \E p \in CliPeers : OnPeerDiscovered(p) \/ OnPeerDisconnected(p)
            \/ \E m \in CliMessages : FlushSent(m) \/ FlushFailed(m)
CliFairness ==
    /\ WF_cliVars(StartDaemon) /\ WF_cliVars(LoopStep)
    /\ \A p \in CliPeers : /\ SF_cliVars(PeerLinks(p)) /\ SF_cliVars(PeerUnlinks(p))
                            /\ SF_cliVars(Reachable(p) /\ p \notin knownPeers /\ OnPeerDiscovered(p))
    /\ \A m \in CliMessages : SF_cliVars(FlushSent(m))

CliSpec == CliInit /\ [][CliNext]_cliVars
CliLiveSpec == CliSpec /\ CliFairness

-----------------------------------------------------------------------------
(* Draining and putting back account for every message.  One that is queued  *)
(* is in the store or in the batch being sent; it is in both, or there after *)
(* it was handed over, only when the store failed to remove it; and it is    *)
(* given up only by a crash in the middle of a batch or by a store that      *)
(* does not take it back.                                                    *)
FlushLosesNothing ==
    \A m \in CliMessages :
        /\ cliFate[m] = "queued" => m \in cliOutbox \cup FlushBatch
        /\ m \in cliOutbox \cup FlushBatch => cliFate[m] = "queued" \/ m \in undeleted
        /\ m \in cliOutbox \cap FlushBatch => m \in undeleted
        /\ cliFate[m] = "lost" => cliCrashes > 0 \/ storeFaults > 0

(* "failed sends are re-enqueued so they retry on the next connection": a    *)
(* queued message is handed to the swarm in the end, unless the daemon dies  *)
(* or the store fails between draining it and sending it, or the daemon      *)
(* could not open the outbox.                                                *)
QueuedIsRetried ==
    \A m \in CliMessages :
        cliFate[m] = "queued" ~> cliFate[m] \in {"handed", "lost"} \/ (daemon = "up" /\ ~outboxOpen)

(* "Messages sent to offline peers are queued here and flushed automatically *)
(* when those peers come online": a message given to `scm send` while its    *)
(* peer is away is handed to the swarm in the end.                           *)
OfflineMessageFlushed ==
    \A m \in CliMessages :
        cliFate[m] = "refused" /\ linkedPeers[CliRecipient[m]] = 0 ~> cliFate[m] \in {"handed", "lost"}
=============================================================================
